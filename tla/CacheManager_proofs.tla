------------------------ MODULE CacheManager_proofs ------------------------
(***************************************************************************)
(* Theorems about CacheManager for every value of its constants.           *)
(*                                                                         *)
(* Typing and Indexing hold of the code as it is.  The walk of validCall   *)
(* is right only when runs of the same call arguments do not overlap and   *)
(* an InvalidateCallsRequest names one call; the other theorems assume it. *)
(***************************************************************************)
EXTENDS CacheManager, CMState_proofs

\* A request list is a function on an initial segment of the naturals.
LEMMA BatchFacts ==
    ASSUME NEW calls \in Batches
    PROVE  /\ \E n \in 1..MaxBatch : calls \in [1..n -> Called]
           /\ Names(calls) \subseteq Called
  <1>1. PICK n \in 1..MaxBatch : calls \in [1..n -> Called]
    BY DEF Batches
  <1>2. Names(calls) \subseteq Called
    BY <1>1 DEF Names
  <1>. QED
    BY <1>1, <1>2

LEMMA StoreTypes ==
    ASSUME TypeOK, NEW entry \in Entry, NEW used \in SUBSET Dep
    PROVE  StoreDeps(deps, entry, used) \in [Dep -> SUBSET Entry]
  <1>1. \A d \in Dep : deps[d] \in SUBSET Entry
    BY DEF TypeOK
  <1>. QED
    BY <1>1 DEF StoreDeps

LEMMA PopTypes ==
    ASSUME TypeOK, NEW names \in SUBSET Dep
    PROVE  /\ PopDeps(deps, names) \in [Dep -> SUBSET Entry]
           /\ Popped(deps, names) \subseteq Entry
  BY DEF TypeOK, PopDeps, Popped

\* What an invalidation of names does to the variables other than history.
LEMMA InvalidatedTypes ==
    ASSUME TypeOK, NEW names \in SUBSET Dep, Invalidated(names)
    PROVE  /\ deps' \in [Dep -> SUBSET Entry]
           /\ serving' = serving
           /\ since' \in [Rid -> SUBSET Dep]
           /\ line' \in [Entry -> Abstract!Line]
           /\ verdict' = Abstract!NoVerdict
           /\ \A e \in Entry : line'[e] = Abstract!Dropped
                    \/ /\ e \notin Popped(deps, names)
                       /\ line'[e].held = line[e].held
                       /\ line'[e].used = line[e].used
                       /\ line'[e].stale = line[e].stale \cup (line[e].used \cap names)
  <1>1. deps' \in [Dep -> SUBSET Entry] /\ serving' = serving /\ verdict' = Abstract!NoVerdict
    BY PopTypes DEF Invalidated
  <1>2. since' \in [Rid -> SUBSET Dep]
    BY DEF Invalidated, TypeOK
  <1>3. Abstract!Dropped \in Abstract!Line
    BY DEF Abstract!Dropped, Abstract!Line
  <1>4. ASSUME NEW e \in Entry
        PROVE  /\ line'[e] \in Abstract!Line
               /\ line'[e] = Abstract!Dropped
                    \/ /\ e \notin Popped(deps, names)
                       /\ line'[e].held = line[e].held
                       /\ line'[e].used = line[e].used
                       /\ line'[e].stale = line[e].stale \cup (line[e].used \cap names)
    <2>1. line[e] \in Abstract!Line
      BY DEF TypeOK
    <2>2. line'[e] = IF e \in Popped(deps, names) THEN Abstract!Dropped
                     ELSE [line[e] EXCEPT !.stale = @ \cup (line[e].used \cap names)]
      BY DEF Invalidated
    <2>3. CASE e \in Popped(deps, names)
      BY <1>3, <2>2, <2>3
    <2>4. CASE e \notin Popped(deps, names)
      BY <2>1, <2>2, <2>4 DEF Abstract!Line
    <2>. QED
      BY <2>3, <2>4
  <1>5. line' \in [Entry -> Abstract!Line]
    BY <1>4 DEF Invalidated
  <1>. QED
    BY <1>1, <1>2, <1>4, <1>5

LEMMA TypingInit == Init => TypeOK
  <1>. SUFFICES ASSUME Init PROVE TypeOK
    OBVIOUS
  <1>1. Abstract!Dropped \in Abstract!Line
    BY DEF Abstract!Dropped, Abstract!Line
  <1>. QED
    BY <1>1 DEF Init, TypeOK, NoDeps, Abstract!Verdict, Abstract!NoVerdict

LEMMA TypingNext == TypeOK /\ [Next]_vars => TypeOK'
  <1>. SUFFICES ASSUME TypeOK, [Next]_vars PROVE TypeOK'
    OBVIOUS
  <1>. USE DEF Abstract!Verdict, Abstract!NoVerdict
  <1>1. ASSUME NEW r \in Rid, NEW ca \in Served, StartRequest(r, ca)
        PROVE  TypeOK'
    <2>1. history' \in Seq(HistoryItem)
      BY <1>1, AppendCallOwn DEF StartRequest, TypeOK
    <2>. QED
      BY <1>1, <2>1 DEF StartRequest, TypeOK
  <1>2. ASSUME NEW r \in Rid, NEW caller \in Caller, NEW used \in SUBSET Dep,
               EndRequest(r, caller, used)
        PROVE  TypeOK'
    <2>. DEFINE entry == <<caller, serving[r]>>
    <2>1. serving[r] \in Served /\ entry \in Entry
      BY <1>2 DEF EndRequest, Leave, TypeOK, Entry
    <2>2. history' \in Seq(HistoryItem)
      BY <1>2, ForgottenFacts DEF EndRequest, TypeOK
    <2>3. serving' \in [Rid -> Served \cup {None}] /\ since' \in [Rid -> SUBSET Dep]
      BY <1>2 DEF EndRequest, Leave, TypeOK
    <2>4. line' \in [Entry -> Abstract!Line]
      <3>1. [held |-> TRUE, used |-> used, stale |-> since[r] \cap used] \in Abstract!Line
        BY DEF TypeOK, Abstract!Line
      <3>. QED
        BY <1>2, <2>1, <3>1 DEF EndRequest, TypeOK
    <2>5. deps' \in [Dep -> SUBSET Entry]
      <3>1. deps' = deps \/ deps' = StoreDeps(deps, entry, used)
        BY <1>2 DEF EndRequest
      <3>. QED
        BY <2>1, <3>1, StoreTypes DEF TypeOK
    <2>. QED
      BY <1>2, <2>2, <2>3, <2>4, <2>5 DEF EndRequest, TypeOK
  <1>3. ASSUME NEW r \in Rid, Abandon(r)
        PROVE  TypeOK'
    BY <1>3 DEF Abandon, Leave, TypeOK
  <1>4. ASSUME NEW k \in Key, InvalidateKeyRequest(k)
        PROVE  TypeOK'
    <2>. DEFINE item == [kind |-> "write", names |-> {k}]
    <2>1. {k} \in SUBSET Dep /\ item \in HistoryItem /\ ~IsCallArgSet(item)
      BY DEF Dep, HistoryItem, IsCallArgSet
    <2>2. history' \in Seq(HistoryItem)
      BY <1>4, <2>1 DEF InvalidateKeyRequest, AppendWrite, TypeOK
    <2>. QED
      BY <1>4, <2>1, <2>2, InvalidatedTypes DEF InvalidateKeyRequest, TypeOK
  <1>5. ASSUME NEW calls \in Batches, InvalidateCallsRequest(calls)
        PROVE  TypeOK'
    <2>1. PICK n \in 1..MaxBatch : calls \in [1..n -> Called]
      BY BatchFacts
    <2>2. n \in Nat \ {0}
      BY BoundsAssumption
    <2>3. history' \in Seq(HistoryItem)
      BY <1>5, <2>1, <2>2, AppendInvCallsFacts DEF InvalidateCallsRequest, TypeOK
    <2>4. Names(calls) \in SUBSET Dep
      BY BatchFacts DEF Dep
    <2>. QED
      BY <1>5, <2>3, <2>4, InvalidatedTypes DEF InvalidateCallsRequest, TypeOK
  <1>6. ASSUME NEW calls \in Batches, SaveCallsRequest(calls)
        PROVE  TypeOK'
    BY <1>6, BatchFacts DEF SaveCallsRequest, TypeOK
  <1>7. CASE UNCHANGED vars
    BY <1>7 DEF vars, TypeOK
  <1>. QED
    BY <1>1, <1>2, <1>3, <1>4, <1>5, <1>6, <1>7 DEF Next

\* Every variable keeps its type, whatever arrives in the work queue.
THEOREM Typing == Spec => []TypeOK
  <1>. QED
    BY TypingInit, TypingNext, PTL DEF Spec

-----------------------------------------------------------------------------
\* A line the caller does not hold was computed from nothing.
Tidy == \A e \in Entry : line[e].held \/ line[e].used = {}

IndexInv == TypeOK /\ Tidy /\ Registered

LEMMA IndexInit == Init => IndexInv
  <1>. SUFFICES ASSUME Init PROVE Tidy /\ Registered
    BY TypingInit DEF IndexInv
  <1>1. \A e \in Entry : line[e].used = {}
    BY DEF Init, Abstract!Dropped
  <1>. QED
    BY <1>1 DEF Tidy, Registered

\* Both kinds of invalidation drop what they pop and leave the rest indexed.
LEMMA IndexInvalidated ==
    ASSUME IndexInv, NEW names \in SUBSET Dep, Invalidated(names)
    PROVE  Tidy' /\ Registered'
  <1>. USE DEF IndexInv
  <1>1. ASSUME NEW e \in Entry
        PROVE  /\ line'[e].held \/ line'[e].used = {}
               /\ line'[e].held => \A d \in line'[e].used : e \in deps'[d]
    <2>1. CASE line'[e] = Abstract!Dropped
      BY <2>1 DEF Abstract!Dropped
    <2>2. CASE e \notin Popped(deps, names) /\ line'[e].held = line[e].held
                  /\ line'[e].used = line[e].used
      <3>1. line[e].used \subseteq Dep
        BY DEF TypeOK, Abstract!Line
      <3>2. \A d \in Dep : e \in deps[d] => d \notin names
        BY <2>2 DEF Popped
      <3>3. \A d \in Dep : d \notin names => deps'[d] = deps[d]
        BY DEF Invalidated, PopDeps
      <3>. QED
        BY <2>2, <3>1, <3>2, <3>3 DEF Tidy, Registered
    <2>. QED
      BY <2>1, <2>2, InvalidatedTypes
  <1>. QED
    BY <1>1 DEF Tidy, Registered

LEMMA IndexNext == IndexInv /\ [Next]_vars => IndexInv'
  <1>. SUFFICES ASSUME IndexInv, [Next]_vars PROVE Tidy' /\ Registered'
    BY TypingNext DEF IndexInv
  <1>. USE DEF IndexInv
  <1>1. ASSUME NEW r \in Rid, NEW ca \in Served, StartRequest(r, ca)
        PROVE  Tidy' /\ Registered'
    BY <1>1 DEF StartRequest, Tidy, Registered
  <1>2. ASSUME NEW r \in Rid, NEW caller \in Caller, NEW used \in SUBSET Dep,
               EndRequest(r, caller, used)
        PROVE  Tidy' /\ Registered'
    <2>. DEFINE entry == <<caller, serving[r]>>
                saved == [held |-> TRUE, used |-> used, stale |-> since[r] \cap used]
    <2>1. entry \in Entry
      BY <1>2 DEF EndRequest, Leave, TypeOK, Entry
    <2>2. CASE UNCHANGED <<line, deps>>
      BY <2>2 DEF Tidy, Registered
    <2>3. CASE line' = [line EXCEPT ![entry] = saved] /\ deps' = StoreDeps(deps, entry, used)
      <3>1. \A d \in Dep :
               /\ deps[d] \subseteq deps'[d]
               /\ d \in used => entry \in deps'[d]
        BY <2>3 DEF StoreDeps
      <3>2. line'[entry] = saved
        BY <2>1, <2>3 DEF TypeOK
      <3>3. \A e \in Entry : e # entry => line'[e] = line[e]
        BY <2>1, <2>3 DEF TypeOK
      <3>4. \A e \in Entry : line[e].used \subseteq Dep
        BY DEF TypeOK, Abstract!Line
      <3>5. Tidy'
        BY <3>2, <3>3 DEF Tidy
      <3>6. ASSUME NEW e \in Entry, line'[e].held
            PROVE  \A d \in line'[e].used : e \in deps'[d]
        <4>1. CASE e = entry
          <5>1. line'[e].used = used
            BY <3>2, <4>1
          <5>2. \A d \in used : entry \in deps'[d]
            BY <3>1
          <5>. QED
            BY <4>1, <5>1, <5>2
        <4>2. CASE e # entry
          <5>1. line'[e] = line[e]
            BY <3>3, <4>2
          <5>2. \A d \in line[e].used : d \in Dep /\ e \in deps[d]
            BY <3>4, <3>6, <5>1 DEF Registered
          <5>. QED
            BY <3>1, <5>1, <5>2
        <4>. QED
          BY <4>1, <4>2
      <3>. QED
        BY <3>5, <3>6 DEF Registered
    <2>. QED
      BY <1>2, <2>2, <2>3 DEF EndRequest
  <1>3. ASSUME NEW r \in Rid, Abandon(r)
        PROVE  Tidy' /\ Registered'
    BY <1>3 DEF Abandon, Tidy, Registered
  <1>4. ASSUME NEW k \in Key, InvalidateKeyRequest(k)
        PROVE  Tidy' /\ Registered'
    <2>1. {k} \in SUBSET Dep
      BY DEF Dep
    <2>. QED
      BY <1>4, <2>1, IndexInvalidated DEF InvalidateKeyRequest
  <1>5. ASSUME NEW calls \in Batches, InvalidateCallsRequest(calls)
        PROVE  Tidy' /\ Registered'
    <2>1. Names(calls) \in SUBSET Dep
      BY BatchFacts DEF Dep
    <2>. QED
      BY <1>5, <2>1, IndexInvalidated DEF InvalidateCallsRequest
  <1>6. ASSUME NEW calls \in Batches, SaveCallsRequest(calls)
        PROVE  Tidy' /\ Registered'
    BY <1>6 DEF SaveCallsRequest, Tidy, Registered
  <1>7. CASE UNCHANGED vars
    BY <1>7 DEF vars, Tidy, Registered
  <1>. QED
    BY <1>1, <1>2, <1>3, <1>4, <1>5, <1>6, <1>7 DEF Next

\* No invalidation misses a line: whatever overlaps and however requests are
\* batched, every held line is indexed under all it was computed from.
THEOREM Indexing == Spec => []Registered
  <1>1. IndexInv => Registered
    BY DEF IndexInv
  <1>. QED
    BY IndexInit, IndexNext, <1>1, PTL DEF Spec

-----------------------------------------------------------------------------
\* The services validCall is written for: no two runs of the same call
\* arguments at a time, and one call in each InvalidateCallsRequest.
Sequential == ~Duplicates /\ MaxBatch = 1

Alone == \A q, r \in Rid : serving[q] = serving[r] /\ serving[r] # None => q = r

WalkInv == TypeOK /\ Alone /\ StartFound /\ HistoryExact

LEMMA WalkInit == Init => WalkInv
  <1>. SUFFICES ASSUME Init PROVE Alone /\ StartFound /\ HistoryExact
    BY TypingInit DEF WalkInv
  <1>. QED
    BY DEF Init, Alone, StartFound, HistoryExact

\* A run that leaves takes only its own start with it.
LEMMA WalkLeave ==
    ASSUME WalkInv, NEW r \in Rid, Leave(r),
           history' = history \/ history' \in Forgotten(history, serving[r])
    PROVE  Alone' /\ StartFound' /\ HistoryExact'
  <1>. USE DEF WalkInv
  <1>1. ASSUME NEW q \in Rid, serving'[q] # None
        PROVE  /\ q # r
               /\ serving'[q] = serving[q]
               /\ since'[q] = since[q]
               /\ StartsOf(history', serving'[q]) # {}
               /\ InvalidatedSince(history', serving'[q]) = since'[q]
    <2>1. q # r /\ serving'[q] = serving[q] /\ since'[q] = since[q]
      BY <1>1 DEF Leave, TypeOK
    <2>2. serving[q] # serving[r]
      BY <1>1, <2>1 DEF Alone, Leave
    <2>3. /\ StartsOf(history, serving[q]) # {}
          /\ InvalidatedSince(history, serving[q]) = since[q]
      BY <1>1, <2>1 DEF StartFound, HistoryExact
    <2>4. /\ StartsOf(history', serving[q]) # {}
          /\ InvalidatedSince(history', serving[q]) = InvalidatedSince(history, serving[q])
      <3>1. CASE history' = history
        BY <2>3, <3>1
      <3>2. CASE history' \in Forgotten(history, serving[r])
        BY <2>2, <2>3, <3>2, ForgottenFacts DEF TypeOK
      <3>. QED
        BY <3>1, <3>2
    <2>. QED
      BY <2>1, <2>3, <2>4
  <1>2. Alone'
    BY <1>1 DEF Alone
  <1>3. StartFound' /\ HistoryExact'
    BY <1>1 DEF StartFound, HistoryExact
  <1>. QED
    BY <1>2, <1>3

\* Every walk meets the item of an invalidation that names what it drops.
LEMMA WalkInvalidated ==
    ASSUME WalkInv, NEW item \in HistoryItem, ~IsCallArgSet(item),
           history' = Append(history, item), Invalidated(item.names)
    PROVE  Alone' /\ StartFound' /\ HistoryExact'
  <1>. USE DEF WalkInv
  <1>1. serving' = serving
    BY DEF Invalidated
  <1>2. ASSUME NEW r \in Rid, serving[r] # None
        PROVE  /\ StartsOf(history', serving[r]) # {}
               /\ InvalidatedSince(history', serving[r]) = since'[r]
    <2>1. /\ StartsOf(history, serving[r]) # {}
          /\ InvalidatedSince(history, serving[r]) = since[r]
      BY <1>2 DEF StartFound, HistoryExact
    <2>2. since'[r] = since[r] \cup item.names
      BY <1>2 DEF Invalidated
    <2>. QED
      BY <2>1, <2>2, AppendInvalidation DEF TypeOK
  <1>. QED
    BY <1>1, <1>2 DEF Alone, StartFound, HistoryExact

LEMMA WalkNext == Sequential /\ WalkInv /\ [Next]_vars => WalkInv'
  <1>. SUFFICES ASSUME Sequential, WalkInv, [Next]_vars
                PROVE  Alone' /\ StartFound' /\ HistoryExact'
    BY TypingNext DEF WalkInv
  <1>1. ASSUME NEW r \in Rid, NEW ca \in Served, StartRequest(r, ca)
        PROVE  Alone' /\ StartFound' /\ HistoryExact'
    <2>. USE DEF WalkInv
    <2>1. serving'[r] = ca /\ since'[r] = {}
      BY <1>1 DEF StartRequest, TypeOK
    <2>2. history' = AppendCall(history, ca) /\ history \in Seq(HistoryItem)
      BY <1>1 DEF StartRequest, TypeOK
    <2>3. ASSUME NEW q \in Rid, q # r
          PROVE  serving'[q] = serving[q] /\ since'[q] = since[q] /\ serving[q] # ca
      BY <1>1, <2>3 DEF StartRequest, TypeOK, Sequential
    <2>4. ASSUME NEW q \in Rid, serving'[q] # None
          PROVE  /\ StartsOf(history', serving'[q]) # {}
                 /\ InvalidatedSince(history', serving'[q]) = since'[q]
      <3>1. CASE q = r
        BY <2>1, <2>2, <3>1, AppendCallOwn
      <3>2. CASE q # r
        <4>1. /\ StartsOf(history, serving[q]) # {}
              /\ InvalidatedSince(history, serving[q]) = since[q]
          BY <2>3, <2>4, <3>2 DEF StartFound, HistoryExact
        <4>. QED
          BY <2>2, <2>3, <3>2, <4>1, AppendCallOther
      <3>. QED
        BY <3>1, <3>2
    <2>5. Alone'
      BY <2>1, <2>3 DEF Alone
    <2>. QED
      BY <2>4, <2>5 DEF StartFound, HistoryExact
  <1>2. ASSUME NEW r \in Rid, NEW caller \in Caller, NEW used \in SUBSET Dep,
               EndRequest(r, caller, used)
        PROVE  Alone' /\ StartFound' /\ HistoryExact'
    BY <1>2, WalkLeave DEF EndRequest
  <1>3. ASSUME NEW r \in Rid, Abandon(r)
        PROVE  Alone' /\ StartFound' /\ HistoryExact'
    BY <1>3, WalkLeave DEF Abandon
  <1>4. ASSUME NEW k \in Key, InvalidateKeyRequest(k)
        PROVE  Alone' /\ StartFound' /\ HistoryExact'
    <2>. DEFINE item == [kind |-> "write", names |-> {k}]
    <2>1. item \in HistoryItem /\ ~IsCallArgSet(item) /\ item.names = {k}
      BY DEF Dep, HistoryItem, IsCallArgSet
    <2>2. history' = Append(history, item) /\ Invalidated({k})
      BY <1>4 DEF InvalidateKeyRequest, AppendWrite
    <2>. HIDE DEF item
    <2>. QED
      BY <2>1, <2>2, WalkInvalidated
  <1>5. ASSUME NEW calls \in Batches, InvalidateCallsRequest(calls)
        PROVE  Alone' /\ StartFound' /\ HistoryExact'
    <2>. DEFINE item == [kind |-> "invcall", names |-> {calls[1]}]
    <2>1. calls \in [1..1 -> Called]
      BY BatchFacts DEF Sequential
    <2>2. Names(calls) = {calls[1]} /\ calls[1] \in Called
      <3>1. Len(calls) = 1 /\ 1..1 = {1} /\ calls[1] \in Called
        BY <2>1
      <3>. QED
        BY <3>1 DEF Names
    <2>3. item \in HistoryItem /\ ~IsCallArgSet(item) /\ item.names = {calls[1]}
      BY <2>2 DEF Dep, HistoryItem, IsCallArgSet
    <2>4. history' = Append(history, item) /\ Invalidated({calls[1]})
      BY <1>5, <2>1, <2>2, AppendOneInvCall DEF InvalidateCallsRequest, WalkInv, TypeOK
    <2>. HIDE DEF item
    <2>. QED
      BY <2>3, <2>4, WalkInvalidated
  <1>6. ASSUME NEW calls \in Batches, SaveCallsRequest(calls)
        PROVE  Alone' /\ StartFound' /\ HistoryExact'
    BY <1>6 DEF SaveCallsRequest, WalkInv, Alone, StartFound, HistoryExact
  <1>7. CASE UNCHANGED vars
    BY <1>7 DEF vars, WalkInv, Alone, StartFound, HistoryExact
  <1>. QED
    BY <1>1, <1>2, <1>3, <1>4, <1>5, <1>6, <1>7 DEF Next

\* The end of a run always finds its start in the history, and between the
\* two exactly the invalidations processed while it ran.
THEOREM Walking == ASSUME Sequential PROVE Spec => [](StartFound /\ HistoryExact)
  <1>1. WalkInv /\ [Next]_vars => WalkInv'
    BY WalkNext
  <1>2. WalkInv => StartFound /\ HistoryExact
    BY DEF WalkInv
  <1>. QED
    BY WalkInit, <1>1, <1>2, PTL DEF Spec

\* The first half by itself: no walk of validCall ever runs off the front of
\* the history.
THEOREM StartIsFound == ASSUME Sequential PROVE Spec => []StartFound
  <1>1. StartFound /\ HistoryExact => StartFound
    OBVIOUS
  <1>. QED
    BY Walking, <1>1, PTL

-----------------------------------------------------------------------------
SoundInv == IndexInv /\ WalkInv /\ Fresh

LEMMA SoundInit == Init => SoundInv
  <1>1. Init => Fresh
    BY DEF Init, Fresh, Abstract!Dropped
  <1>. QED
    BY <1>1, IndexInit, WalkInit DEF SoundInv

\* What a line depends on is in the index, so that an invalidation either
\* drops the line or names nothing the line was computed from.
LEMMA Spared ==
    ASSUME IndexInv, NEW names \in SUBSET Dep,
           NEW e \in Entry, e \notin Popped(deps, names)
    PROVE  line[e].used \cap names = {}
  <1>1. line[e].used \subseteq Dep
    BY DEF IndexInv, TypeOK, Abstract!Line
  <1>2. \A d \in names : e \notin deps[d]
    BY DEF Popped
  <1>. QED
    BY <1>1, <1>2 DEF IndexInv, Tidy, Registered

LEMMA FreshInvalidated ==
    ASSUME SoundInv, NEW names \in SUBSET Dep, Invalidated(names)
    PROVE  Fresh'
  <1>. USE DEF SoundInv
  <1>1. ASSUME NEW e \in Entry PROVE line'[e].stale = {}
    <2>1. CASE line'[e] = Abstract!Dropped
      BY <2>1 DEF Abstract!Dropped
    <2>2. CASE /\ e \notin Popped(deps, names)
               /\ line'[e].stale = line[e].stale \cup (line[e].used \cap names)
      BY <2>2, Spared DEF Fresh
    <2>. QED
      BY <2>1, <2>2, InvalidatedTypes DEF IndexInv
  <1>. QED
    BY <1>1 DEF Fresh

\* A run that is accepted used nothing that was invalidated while it ran.
LEMMA Accepted ==
    ASSUME WalkInv, NEW r \in Rid, serving[r] # None, NEW used \in SUBSET Dep
    PROVE  ValidCall(history, serving[r], used) <=> since[r] \cap used = {}
  BY DEF ValidCall, WalkInv, HistoryExact

LEMMA SoundNext == Sequential /\ SoundInv /\ [Next]_vars => SoundInv'
  <1>. SUFFICES ASSUME Sequential, SoundInv, [Next]_vars PROVE Fresh'
    BY IndexNext, WalkNext DEF SoundInv
  <1>. USE DEF SoundInv
  <1>1. ASSUME NEW r \in Rid, NEW ca \in Served, StartRequest(r, ca)
        PROVE  Fresh'
    BY <1>1 DEF StartRequest, Fresh
  <1>2. ASSUME NEW r \in Rid, NEW caller \in Caller, NEW used \in SUBSET Dep,
               EndRequest(r, caller, used)
        PROVE  Fresh'
    <2>. DEFINE entry == <<caller, serving[r]>>
    <2>1. CASE ValidCall(history, serving[r], used)
      <3>1. since[r] \cap used = {}
        BY <1>2, <2>1, Accepted DEF EndRequest, Leave
      <3>2. line' = [line EXCEPT ![entry] = [held |-> TRUE, used |-> used, stale |-> {}]]
        BY <1>2, <2>1, <3>1 DEF EndRequest
      <3>3. \A e \in Entry : line'[e].stale = {}
        BY <3>2 DEF Fresh, IndexInv, TypeOK
      <3>. QED
        BY <3>3 DEF Fresh
    <2>2. CASE ~ValidCall(history, serving[r], used)
      BY <1>2, <2>2 DEF EndRequest, Fresh
    <2>. QED
      BY <2>1, <2>2
  <1>3. ASSUME NEW r \in Rid, Abandon(r)
        PROVE  Fresh'
    BY <1>3 DEF Abandon, Fresh
  <1>4. ASSUME NEW k \in Key, InvalidateKeyRequest(k)
        PROVE  Fresh'
    <2>1. {k} \in SUBSET Dep
      BY DEF Dep
    <2>. QED
      BY <1>4, <2>1, FreshInvalidated DEF InvalidateKeyRequest
  <1>5. ASSUME NEW calls \in Batches, InvalidateCallsRequest(calls)
        PROVE  Fresh'
    <2>1. Names(calls) \in SUBSET Dep
      BY BatchFacts DEF Dep
    <2>. QED
      BY <1>5, <2>1, FreshInvalidated DEF InvalidateCallsRequest
  <1>6. ASSUME NEW calls \in Batches, SaveCallsRequest(calls)
        PROVE  Fresh'
    BY <1>6 DEF SaveCallsRequest, Fresh
  <1>7. CASE UNCHANGED vars
    BY <1>7 DEF vars, Fresh
  <1>. QED
    BY <1>1, <1>2, <1>3, <1>4, <1>5, <1>6, <1>7 DEF Next

\* No caller is left holding a line one of whose dependencies was invalidated
\* since the run behind it started.
THEOREM Freshness == ASSUME Sequential PROVE Spec => []Fresh
  <1>1. SoundInv /\ [Next]_vars => SoundInv'
    BY SoundNext
  <1>2. SoundInv => Fresh
    BY DEF SoundInv
  <1>. QED
    BY SoundInit, <1>1, <1>2, PTL DEF Spec

-----------------------------------------------------------------------------
\* The refinement mapping is the identity on the ghosts: only what the manager
\* decides from its history and its index has to be the abstract decision.

\* An invalidation drops what the index holds for it, which is enough.
LEMMA MapInvalidated ==
    ASSUME SoundInv, NEW names \in SUBSET Dep, Invalidated(names)
    PROVE  Abstract!Invalidate(names)
  <1>. DEFINE drop == Popped(deps, names)
  <1>1. drop \in SUBSET Entry
    BY PopTypes DEF SoundInv, IndexInv
  <1>2. \A e \in Entry : e \notin drop => line[e].used \cap names = {}
    BY Spared DEF SoundInv
  <1>3. line' = [e \in Entry |-> IF e \in drop THEN Abstract!Dropped ELSE line[e]]
    <2>1. ASSUME NEW e \in Entry, e \notin drop
          PROVE  [line[e] EXCEPT !.stale = @ \cup (line[e].used \cap names)] = line[e]
      <3>1. line[e].used \cap names = {}
        BY <1>2, <2>1
      <3>2. line[e] \in Abstract!Line
        BY DEF SoundInv, IndexInv, TypeOK
      <3>. QED
        BY <3>1, <3>2 DEF Abstract!Line
    <2>. QED
      BY <2>1 DEF Invalidated
  <1>4. Abstract!Entry = Entry
    BY DEF Abstract!Entry, Entry
  <1>5. \A e \in Entry : line[e].used \cap names # {} => e \in drop
    BY <1>2
  <1>6. \E d \in SUBSET Entry :
           /\ \A e \in Entry : line[e].used \cap names # {} => e \in d
           /\ line' = [e \in Entry |-> IF e \in d THEN Abstract!Dropped ELSE line[e]]
    <2>. HIDE DEF drop
    <2>. QED  BY <1>1, <1>3, <1>5
  <1>. QED
    BY <1>4, <1>6 DEF Abstract!Invalidate, Invalidated

LEMMA MapInit == Init => Abstract!Init
  BY DEF Init, Abstract!Init, Abstract!Entry, Entry

LEMMA MapNext == SoundInv /\ [Next]_vars => [Abstract!Next]_(Abstract!vars)
  <1>. SUFFICES ASSUME SoundInv, [Next]_vars
                PROVE  Abstract!Next \/ UNCHANGED Abstract!vars
    OBVIOUS
  <1>1. ASSUME NEW r \in Rid, NEW ca \in Served, StartRequest(r, ca)
        PROVE  Abstract!Start(r, ca)
    BY <1>1 DEF StartRequest, Abstract!Start
  <1>2. ASSUME NEW r \in Rid, NEW caller \in Caller, NEW used \in SUBSET Dep,
               EndRequest(r, caller, used)
        PROVE  Abstract!Save(r, caller, used) \/ Abstract!Reject(r, used)
    <2>1. ValidCall(history, serving[r], used) <=> since[r] \cap used = {}
      BY <1>2, Accepted DEF EndRequest, Leave, SoundInv
    <2>2. Abstract!Leave(r)
      BY <1>2 DEF EndRequest, Leave, Abstract!Leave
    <2>3. CASE since[r] \cap used = {}
      BY <1>2, <2>1, <2>2, <2>3 DEF EndRequest, Abstract!Save
    <2>4. CASE since[r] \cap used # {}
      BY <1>2, <2>1, <2>2, <2>4 DEF EndRequest, Abstract!Reject
    <2>. QED
      BY <2>3, <2>4
  <1>3. ASSUME NEW r \in Rid, Abandon(r)
        PROVE  Abstract!Abandon(r)
    BY <1>3 DEF Abandon, Leave, Abstract!Abandon, Abstract!Leave
  <1>4. ASSUME NEW k \in Key, InvalidateKeyRequest(k)
        PROVE  Abstract!Invalidate({k}) /\ {k} \in SUBSET Dep
    BY <1>4, MapInvalidated DEF InvalidateKeyRequest, Dep
  <1>5. ASSUME NEW calls \in Batches, InvalidateCallsRequest(calls)
        PROVE  Abstract!Invalidate(Names(calls)) /\ Names(calls) \in SUBSET Dep
    <2>1. Names(calls) \in SUBSET Dep
      BY BatchFacts DEF Dep
    <2>. QED
      BY <1>5, <2>1, MapInvalidated DEF InvalidateCallsRequest
  <1>6. ASSUME NEW calls \in Batches, SaveCallsRequest(calls)
        PROVE  Abstract!Other
    BY <1>6 DEF SaveCallsRequest, Abstract!Other
  <1>7. CASE UNCHANGED vars
    BY <1>7 DEF vars, Abstract!vars
  <1>. QED
    BY <1>1, <1>2, <1>3, <1>4, <1>5, <1>6, <1>7 DEF Next, Abstract!Next

\* The manager implements what CallValidity promises: it accepts exactly the
\* runs nothing invalidated and drops every line an invalidation can reach.
THEOREM Refinement == ASSUME Sequential PROVE Spec => Implements
  <1>1. SoundInv /\ [Next]_vars => SoundInv'
    BY SoundNext
  <1>. QED
    BY SoundInit, <1>1, MapInit, MapNext, PTL DEF Spec, Implements, Abstract!Spec
=============================================================================
