------------------------ MODULE MuCacheFaults_proofs ------------------------
(***************************************************************************)
(* Theorems about MuCache, and about MuCacheFaults, which adds lost        *)
(* messages and restarted managers to it, for every value of their         *)
(* constants.                                                              *)
(*                                                                         *)
(* The invariant behind LeafStaleIsPending is stated relative to a set Old *)
(* of (key, version) pairs and a set Unseen of calls, so that it serves    *)
(* the faults too: a value computed from a pair of Old may be stale, and   *)
(* nothing is claimed of the runs of Unseen.  Without faults both are      *)
(* empty.                                                                  *)
(***************************************************************************)
EXTENDS MuCacheFaults, SequenceTheorems, FiniteSetTheorems, WellFoundedInduction, TLAPS


P == INSTANCE CMState_proofs WITH Served <- Call, Called <- Call, Caller <- Service

\* The lemmas on histories are about the same operators.
LEMMA SameOperators ==
    /\ P!HistoryItem = HistoryItem /\ P!Dep = Dep
    /\ \A h, ca : /\ P!AppendCall(h, ca) = AppendCall(h, ca)
                  /\ P!StartsOf(h, ca) = StartsOf(h, ca)
                  /\ P!InvalidatedSince(h, ca) = InvalidatedSince(h, ca)
                  /\ P!Forgotten(h, ca) = Forgotten(h, ca)
                  /\ P!AppendInvCalls(h, ca) = AppendInvCalls(h, ca)
  <1>1. P!HistoryItem = HistoryItem /\ P!Dep = Dep
    BY DEF P!HistoryItem, HistoryItem, P!Dep, Dep
  <1>2. ASSUME NEW h, NEW ca
        PROVE  /\ P!AppendCall(h, ca) = AppendCall(h, ca)
               /\ P!StartsOf(h, ca) = StartsOf(h, ca)
               /\ P!AppendInvCalls(h, ca) = AppendInvCalls(h, ca)
    BY DEF P!AppendCall, AppendCall, P!StartsOf, StartsOf, P!IsCallArgSet, IsCallArgSet,
           P!AppendInvCalls, AppendInvCalls
  <1>3. ASSUME NEW h, NEW ca PROVE P!Walked(h, ca) = Walked(h, ca)
    BY <1>2 DEF P!Walked, Walked
  <1>4. ASSUME NEW h, NEW ca PROVE P!InvalidatedSince(h, ca) = InvalidatedSince(h, ca)
    BY <1>3 DEF P!InvalidatedSince, InvalidatedSince, P!IsCallArgSet, IsCallArgSet
  <1>5. ASSUME NEW h, NEW ca PROVE P!RemoveStart(h, ca) = RemoveStart(h, ca)
    BY <1>3 DEF P!RemoveStart, RemoveStart, P!IsCallArgSet, IsCallArgSet
  <1>6. ASSUME NEW h, NEW j PROVE P!CollectsFrom(h, j) = CollectsFrom(h, j)
    BY DEF P!CollectsFrom, CollectsFrom, P!HasCalls, HasCalls, P!IsCallArgSet, IsCallArgSet
  <1>7. ASSUME NEW h, NEW ca PROVE P!Forgotten(h, ca) = Forgotten(h, ca)
    BY <1>2, <1>5, <1>6 DEF P!Forgotten, Forgotten
  <1>. QED
    BY <1>1, <1>2, <1>4, <1>7

\* What each way to extend or forget a history does to the walk of a call.
LEMMA HistoryFacts ==
    ASSUME NEW h \in Seq(HistoryItem), NEW ca
    PROVE  /\ InvalidatedSince(h, ca) \subseteq Dep
           /\ \A k \in Key :
                 /\ AppendWrite(h, k) \in Seq(HistoryItem)
                 /\ StartsOf(AppendWrite(h, k), ca) = StartsOf(h, ca)
                 /\ InvalidatedSince(AppendWrite(h, k), ca) = InvalidatedSince(h, ca) \cup {k}
           /\ \A cb \in Call :
                 /\ AppendCall(h, cb) \in Seq(HistoryItem)
                 /\ cb = ca => StartsOf(AppendCall(h, cb), ca) # {}
                 /\ cb # ca =>
                       /\ StartsOf(AppendCall(h, cb), ca) = StartsOf(h, ca)
                       /\ InvalidatedSince(AppendCall(h, cb), ca) = InvalidatedSince(h, ca)
           /\ \A cb : \A g \in Forgotten(h, cb) :
                 /\ g \in Seq(HistoryItem)
                 /\ ca # cb /\ StartsOf(h, ca) # {} =>
                       /\ StartsOf(g, ca) # {}
                       /\ InvalidatedSince(g, ca) = InvalidatedSince(h, ca)
  <1>1. InvalidatedSince(h, ca) \subseteq Dep
    BY SameOperators, CallsAndKeysApart, P!InvalidatedSinceType
  <1>2. ASSUME NEW k \in Key
        PROVE  /\ AppendWrite(h, k) \in Seq(HistoryItem)
               /\ StartsOf(AppendWrite(h, k), ca) = StartsOf(h, ca)
               /\ InvalidatedSince(AppendWrite(h, k), ca) = InvalidatedSince(h, ca) \cup {k}
    <2>. DEFINE item == [kind |-> "write", names |-> {k}]
    <2>1. item \in HistoryItem /\ item.names = {k} /\ ~P!IsCallArgSet(item)
      BY DEF HistoryItem, Dep, P!IsCallArgSet
    <2>. HIDE DEF item
    <2>2. /\ Append(h, item) \in Seq(HistoryItem)
          /\ StartsOf(Append(h, item), ca) = StartsOf(h, ca)
          /\ InvalidatedSince(Append(h, item), ca) = InvalidatedSince(h, ca) \cup item.names
      BY <2>1, SameOperators, CallsAndKeysApart, P!AppendInvalidation
    <2>. QED
      BY <2>1, <2>2 DEF AppendWrite, item
  <1>3. ASSUME NEW cb \in Call
        PROVE  /\ AppendCall(h, cb) \in Seq(HistoryItem)
               /\ cb = ca => StartsOf(AppendCall(h, cb), ca) # {}
               /\ cb # ca =>
                     /\ StartsOf(AppendCall(h, cb), ca) = StartsOf(h, ca)
                     /\ InvalidatedSince(AppendCall(h, cb), ca) = InvalidatedSince(h, ca)
    <2>1. AppendCall(h, cb) \in Seq(HistoryItem) /\ StartsOf(AppendCall(h, cb), cb) # {}
      BY SameOperators, CallsAndKeysApart, P!AppendCallOwn
    <2>2. cb # ca =>
             /\ StartsOf(AppendCall(h, cb), ca) = StartsOf(h, ca)
             /\ InvalidatedSince(AppendCall(h, cb), ca) = InvalidatedSince(h, ca)
      BY SameOperators, CallsAndKeysApart, P!AppendCallOther
    <2>. QED
      BY <2>1, <2>2
  <1>4. ASSUME NEW cb, NEW g \in Forgotten(h, cb)
        PROVE  /\ g \in Seq(HistoryItem)
               /\ ca # cb /\ StartsOf(h, ca) # {} =>
                     /\ StartsOf(g, ca) # {}
                     /\ InvalidatedSince(g, ca) = InvalidatedSince(h, ca)
    BY SameOperators, CallsAndKeysApart, P!ForgottenFacts
  <1>. QED
    BY <1>1, <1>2, <1>3, <1>4

\* A list of invalidated calls goes into the history whatever its order.
LEMMA InvCallsFacts ==
    ASSUME NEW h \in Seq(HistoryItem), NEW names \in (SUBSET Call) \ {{}},
           NEW calls \in SetToSeqs(names)
    PROVE  /\ AppendInvCalls(h, calls) \in Seq(HistoryItem)
           /\ \A ca : /\ StartsOf(AppendInvCalls(h, calls), ca) = StartsOf(h, ca)
                     /\ InvalidatedSince(h, ca)
                           \subseteq InvalidatedSince(AppendInvCalls(h, calls), ca)
  <1>1. IsFiniteSet(names) /\ names # {} /\ names \subseteq Call
    BY GraphAssumption, FS_Subset
  <1>2. Cardinality(names) \in Nat \ {0}
    BY <1>1, FS_CardinalityType, FS_EmptySet
  <1>3. calls \in [1..Cardinality(names) -> Call]
    BY <1>1 DEF SetToSeqs
  <1>. QED
    BY <1>2, <1>3, SameOperators, CallsAndKeysApart, P!AppendInvCallsFacts

-----------------------------------------------------------------------------
\* What the fields of a message are.
LEMMA MessageFacts ==
    ASSUME NEW m \in Message
    PROVE  /\ m.type = "start" => m.call \in Call
           /\ m.type = "end" => /\ m.call \in Call /\ m.caller \in Service
                                /\ m.used \in SUBSET Dep /\ m.val \in Value
           /\ m.type = "inv" => m.key \in Key
           /\ m.type = "invcalls" => m.calls \in (SUBSET Call) \ {{}}
           /\ m.type = "save" => m.lines \in [Call -> Value \cup {NoVal}]
           /\ m.type \in {"start", "end", "inv", "invcalls", "save"}
  BY DEF Message

LEMMA RequestFacts ==
    ASSUME NEW request \in Request
    PROVE  /\ request.entries \in SUBSET Entry
           /\ request.val \in Value \cup {NoVal}
           /\ request.save =>
                 \E e \in Entry :
                    /\ request.entries = {e}
                    /\ request.val \in Value
                    /\ (CHOOSE x \in request.entries : TRUE) = e
           /\ ~request.save => request.val = NoVal
  BY ZenonT(40) DEF Request

\* After addRequest the buffer says of the request's entries what the request
\* says, and of the others what it said.
LEMMA AddRequestFacts ==
    ASSUME NEW b \in Buffer, NEW request \in Request
    PROVE  LET c == AddRequest(b, request)
           IN  /\ c \in Buffer
               /\ \A e \in Entry :
                     /\ e \in request.entries =>
                           e \in Buffered(c) /\ c.save[e] = request.val
                     /\ e \notin request.entries =>
                           /\ e \in Buffered(c) <=> e \in Buffered(b)
                           /\ c.save[e] = b.save[e]
  <1>. USE DEF Buffered, Saved, Buffer
  <1>1. CASE request.save
    <2>1. PICK x \in Entry : /\ request.entries = {x}
                            /\ request.val \in Value
                            /\ (CHOOSE y \in request.entries : TRUE) = x
      BY <1>1, RequestFacts
    <2>2. AddRequest(b, request) = AddSave(b, x, request.val)
      BY <1>1, <2>1 DEF AddRequest
    <2>3. request.val # NoVal
      BY <2>1, AbsenceAssumption
    <2>. QED
      BY <2>1, <2>2, <2>3 DEF AddSave
  <1>2. CASE ~request.save
    <2>1. AddRequest(b, request) = AddInvalidate(b, request.entries)
      BY <1>2 DEF AddRequest
    <2>2. request.val = NoVal
      BY <1>2, RequestFacts
    <2>. QED
      BY <2>1, <2>2, RequestFacts DEF AddInvalidate
  <1>. QED
    BY <1>1, <1>2

\* Appending to, and taking from, a queue.
LEMMA AppendFacts ==
    ASSUME NEW S, NEW q \in Seq(S), NEW m \in S
    PROVE  /\ Append(q, m) \in Seq(S)
           /\ Len(q) \in Nat
           /\ Len(Append(q, m)) = Len(q) + 1
           /\ \A i \in 1..Len(q) : Append(q, m)[i] = q[i]
           /\ Append(q, m)[Len(q) + 1] = m
  BY AppendProperties

LEMMA TailFacts ==
    ASSUME NEW S, NEW q \in Seq(S), q # <<>>
    PROVE  /\ Tail(q) \in Seq(S)
           /\ Len(q) \in Nat \ {0}
           /\ Len(Tail(q)) = Len(q) - 1
           /\ \A i \in 1..Len(Tail(q)) : Tail(q)[i] = q[i + 1]
           /\ Head(q) = q[1]
           /\ q[1] \in S
  BY HeadTailProperties, EmptySeq

\* What a flush posts to one caller: at most a list of invalidated calls and
\* then a set of saved lines.
LEMMA PostsFacts ==
    ASSUME NEW b \in Buffer, NEW t \in Service
    PROVE  /\ Posts(b, t) \in Seq(Message)
           /\ \A i \in 1..Len(Posts(b, t)) : Posts(b, t)[i].type \in {"invcalls", "save"}
  <1>. DEFINE inv == {e[2] : e \in InvOf(b, t)}
              m == [type |-> "invcalls", calls |-> inv]
              n == [type |-> "save", lines |-> [c \in Call |-> b.save[<<t, c>>]]]
              r == IF inv = {} THEN <<>> ELSE <<m>>
              s == IF SaveOf(b, t) = {} THEN <<>> ELSE <<n>>
              Sent == {x \in Message : x.type \in {"invcalls", "save"}}
  <1>1. inv # {} => m \in Sent
    <2>1. inv \in SUBSET Call
      BY DEF Buffer, InvOf, Entry
    <2>. QED
      BY <2>1 DEF Message
  <1>2. n \in Sent
    BY DEF Message, Buffer, Entry
  <1>. HIDE DEF inv, m, n, Sent
  <1>3. r \in Seq(Sent) /\ s \in Seq(Sent)
    BY <1>1, <1>2
  <1>. HIDE DEF r, s
  <1>4. r \o s \in Seq(Sent)
    BY <1>3, ConcatProperties
  <1>5. Posts(b, t) = r \o s
    BY DEF Posts, r, s, inv, m, n
  <1>6. Sent \subseteq Message
    BY DEF Sent
  <1>. QED
    BY <1>4, <1>5, <1>6, SeqMonotonic, ElementOfSeq DEF Sent

-----------------------------------------------------------------------------
\* Every write is announced once.
TypeInv == TypeOK /\ \A k \in Key : unsent[k] <= db[k]

\* What a handler gets keeps its run a run.
LEMMA RunFacts ==
    /\ Idle \in Run
    /\ \A c \in Call, p \in Call \cup {None} :
          Asked(p, c) \in Run /\ [Asked(p, c) EXCEPT !.phase = "on"] \in Run
    /\ \A r \in Run : [r EXCEPT !.phase = "on"] \in Run
  <1>1. Idle \in Run
    BY DEF Idle, Run, Value
  <1>2. ASSUME NEW c \in Call, NEW p \in Call \cup {None}
        PROVE  Asked(p, c) \in Run /\ [Asked(p, c) EXCEPT !.phase = "on"] \in Run
    BY GraphAssumption DEF Asked, Run, Value, Dep
  <1>3. ASSUME NEW r \in Run
        PROVE  [r EXCEPT !.phase = "on"] \in Run
    BY DEF Run
  <1>. QED
    BY <1>1, <1>2, <1>3

LEMMA GotFacts ==
    ASSUME NEW r \in Run, NEW d \in Dep, NEW value \in Value, NEW byClient
    PROVE  /\ Got(r, d, value, byClient) \in Run
           /\ Got(r, d, value, byClient).phase = r.phase
           /\ Got(r, d, value, byClient).parent = r.parent
           /\ Got(r, d, value, byClient).todo = r.todo \ {d}
           /\ ~byClient => Got(r, d, value, byClient).used = r.used \cup {d}
           /\ Got(r, d, value, byClient).got = r.got \cup value
  <1>1. /\ r.todo \ {d} \in SUBSET Dep /\ r.used \cup {d} \in SUBSET Dep
        /\ r.got \cup value \in Value
    BY DEF Run, Value
  <1>. QED
    BY <1>1 DEF Got, Run

LEMMA TypingInit == Init => TypeInv
  <1>. SUFFICES ASSUME Init PROVE TypeInv
    OBVIOUS
  <1>1. db \in [Key -> 0..MaxWrites] /\ unsent \in [Key -> 0..MaxWrites]
    BY BoundAssumption DEF Init
  <1>2. run \in [Call -> Run] /\ requests \in 0..MaxRequests
    BY BoundAssumption, RunFacts DEF Init
  <1>3. cache \in [Service -> [Call -> Value \cup {NoVal}]]
    BY DEF Init
  <1>4. /\ WQ \in [Service -> Seq(Message)] /\ history \in [Service -> Seq(HistoryItem)]
        /\ HttpQueue \in [Service -> Seq(Request)]
    BY DEF Init
  <1>5. deps \in [Service -> [Dep -> SUBSET Entry]]
    BY DEF Init, NoDeps
  <1>6. buffer \in [Service -> Buffer] /\ batch \in [Service -> 0..(HttpBatchLimit + 1)]
    BY BoundAssumption DEF Init, Empty, Buffer
  <1>7. \A k \in Key : unsent[k] <= db[k]
    BY DEF Init
  <1>. QED
    BY <1>1, <1>2, <1>3, <1>4, <1>5, <1>6, <1>7 DEF TypeInv, TypeOK

\* The actions of the services and of the writers.
LEMMA TypingServices == TypeInv /\ (Writers \/ Clients \/ Handlers) => TypeInv'
  <1>. SUFFICES ASSUME TypeInv, Writers \/ Clients \/ Handlers PROVE TypeInv'
    OBVIOUS
  <1>. USE DEF TypeInv, TypeOK
  <1>1. ASSUME NEW s \in Service, NEW m \in Message, WQ' = [WQ EXCEPT ![s] = Append(@, m)]
        PROVE  WQ' \in [Service -> Seq(Message)]
    BY <1>1
  <1>2. ASSUME NEW k \in Key, Write(k) PROVE TypeInv'
    BY <1>2, BoundAssumption DEF Write, manager, sender
  <1>3. ASSUME NEW k \in Key, PostWrite(k) PROVE TypeInv'
    <2>1. [type |-> "inv", key |-> k] \in Message /\ Owner[k] \in Service
      BY GraphAssumption DEF Message
    <2>2. WQ' \in [Service -> Seq(Message)]
      BY <1>1, <1>3, <2>1 DEF PostWrite
    <2>3. unsent' \in [Key -> 0..MaxWrites] /\ \A x \in Key : unsent'[x] <= unsent[x]
      <3>1. unsent[k] - 1 \in 0..MaxWrites /\ unsent[k] - 1 <= unsent[k]
        BY <1>3, BoundAssumption DEF PostWrite
      <3>. QED
        BY <1>3, <3>1 DEF PostWrite
    <2>4. \A x \in Key : unsent'[x] <= db[x]
      BY <2>3, BoundAssumption
    <2>. QED
      BY <1>3, <2>2, <2>3, <2>4 DEF PostWrite, manager, sender
  <1>4. ASSUME NEW c \in Call, ClientRequest(c) PROVE TypeInv'
    <2>1. run' \in [Call -> Run]
      BY <1>4, RunFacts DEF ClientRequest
    <2>2. requests' \in 0..MaxRequests
      BY <1>4, BoundAssumption DEF ClientRequest
    <2>. QED
      BY <1>4, <2>1, <2>2 DEF ClientRequest, manager, sender
  <1>5. ASSUME NEW c \in Call, PreReqStart(c) PROVE TypeInv'
    <2>1. run' \in [Call -> Run]
      BY <1>5, RunFacts DEF PreReqStart
    <2>2. [type |-> "start", call |-> c] \in Message /\ Owner[c] \in Service
      BY GraphAssumption DEF Message
    <2>3. WQ' \in [Service -> Seq(Message)]
      BY <1>1, <1>5, <2>2 DEF PreReqStart
    <2>. QED
      BY <1>5, <2>1, <2>3 DEF PreReqStart, manager, sender
  <1>6. ASSUME NEW c \in Call, PreReqEnd(c) PROVE TypeInv'
    <2>1. CASE ByClient(c)
      <3>1. run' \in [Call -> Run]
        BY <1>6, <2>1, RunFacts DEF PreReqEnd
      <3>. QED
        BY <1>6, <2>1, <3>1 DEF PreReqEnd, manager, sender
    <2>2. CASE ~ByClient(c)
      <3>. DEFINE p == run[c].parent
      <3>1. p \in Call /\ run[c].got \in Value /\ run[c].used \in SUBSET Dep
        BY <2>2 DEF ByClient, Run
      <3>. DEFINE r == [run EXCEPT ![c] = Idle]
      <3>2. r \in [Call -> Run]
        BY RunFacts
      <3>3. run' = [r EXCEPT ![p] = Got(@, c, run[c].got, ByClient(p))]
        BY <1>6, <2>2 DEF PreReqEnd
      <3>4. Got(r[p], c, run[c].got, ByClient(p)) \in Run
        <4>1. r[p] \in Run
          BY <3>1, <3>2
        <4>. HIDE DEF r, p
        <4>. QED
          BY <3>1, <4>1, GotFacts DEF Dep
      <3>5. run' \in [Call -> Run]
        BY <3>1, <3>2, <3>3, <3>4
      <3>. DEFINE m == [type |-> "end", call |-> c, caller |-> Owner[p],
                        used |-> run[c].used, val |-> run[c].got]
      <3>6. m \in Message /\ Owner[c] \in Service
        BY <3>1, GraphAssumption DEF Message
      <3>7. WQ' = [WQ EXCEPT ![Owner[c]] = Append(@, m)]
        BY <1>6, <2>2 DEF PreReqEnd
      <3>. HIDE DEF m
      <3>8. WQ' \in [Service -> Seq(Message)]
        BY <1>1, <3>6, <3>7
      <3>. QED
        BY <1>6, <3>5, <3>8 DEF PreReqEnd, manager, sender
    <2>. QED
      BY <2>1, <2>2
  <1>7. ASSUME NEW c \in Call, NEW k \in Key, GetState(c, k) PROVE TypeInv'
    <2>1. {<<k, db[k]>>} \in Value
      BY DEF Value
    <2>3. Got(run[c], k, {<<k, db[k]>>}, ByClient(c)) \in Run
      BY <2>1, GotFacts DEF Dep
    <2>4. run' \in [Call -> Run]
      BY <1>7, <2>3 DEF GetState
    <2>. QED
      BY <1>7, <2>4 DEF GetState, manager, sender
  <1>8. ASSUME NEW c \in Call, NEW d \in Call, InvokeHit(c, d) PROVE TypeInv'
    <2>1. cache[Owner[c]][d] \in Value
      BY <1>8, GraphAssumption DEF InvokeHit
    <2>3. Got(run[c], d, cache[Owner[c]][d], ByClient(c)) \in Run
      BY <2>1, GotFacts DEF Dep
    <2>4. run' \in [Call -> Run]
      BY <1>8, <2>3 DEF InvokeHit
    <2>. QED
      BY <1>8, <2>4 DEF InvokeHit, manager, sender
  <1>9. ASSUME NEW c \in Call, NEW d \in Call, InvokeMiss(c, d) PROVE TypeInv'
    <2>1. run' \in [Call -> Run]
      BY <1>9, RunFacts DEF InvokeMiss
    <2>. QED
      BY <1>9, <2>1 DEF InvokeMiss, manager, sender
  <1>. QED
    BY <1>2, <1>3, <1>4, <1>5, <1>6, <1>7, <1>8, <1>9, GraphAssumption
       DEF Writers, Clients, Handlers

\* What a manager takes from its work queue.
LEMMA TakeFacts ==
    ASSUME TypeOK, NEW s \in Service, NEW type, Take(s, type)
    PROVE  /\ WQ[s] \in Seq(Message) /\ WQ[s] # <<>>
           /\ Head(WQ[s]) \in Message /\ Head(WQ[s]).type = type
           /\ Head(WQ[s]) = WQ[s][1]
           /\ WQ' \in [Service -> Seq(Message)]
           /\ WQ'[s] = Tail(WQ[s])
           /\ \A t \in Service : t # s => WQ'[t] = WQ[t]
  <1>1. WQ[s] \in Seq(Message) /\ WQ[s] # <<>>
    BY DEF TypeOK, Take
  <1>2. Tail(WQ[s]) \in Seq(Message) /\ Head(WQ[s]) \in Message /\ Head(WQ[s]) = WQ[s][1]
    BY <1>1, TailFacts
  <1>. QED
    BY <1>1, <1>2 DEF TypeOK, Take

\* What a manager hands to its sender.
LEMMA SendFacts ==
    ASSUME TypeOK, NEW s \in Service, NEW request \in Request, Send(s, request)
    PROVE  /\ HttpQueue' \in [Service -> Seq(Request)]
           /\ HttpQueue'[s] = Append(HttpQueue[s], request)
           /\ \A t \in Service : t # s => HttpQueue'[t] = HttpQueue[t]
  BY DEF TypeOK, Send

LEMMA SendInvsFacts ==
    ASSUME TypeOK, NEW s \in Service, NEW entries \in SUBSET Entry,
           SendInvsToCallers(s, entries)
    PROVE  HttpQueue' \in [Service -> Seq(Request)]
  <1>1. CASE entries = {}
    BY <1>1 DEF SendInvsToCallers, TypeOK
  <1>2. CASE entries # {}
    <2>1. [save |-> FALSE, entries |-> entries, val |-> NoVal] \in Request
      BY DEF Request
    <2>. QED
      BY <1>2, <2>1, SendFacts DEF SendInvsToCallers
  <1>. QED
    BY <1>1, <1>2

\* The dependency index stays one.
LEMMA DepsFacts ==
    ASSUME TypeOK, NEW s \in Service
    PROVE  /\ \A names : /\ PopDeps(deps[s], names) \in [Dep -> SUBSET Entry]
                         /\ names \subseteq Dep => Popped(deps[s], names) \in SUBSET Entry
           /\ \A entry \in Entry : \A used :
                 StoreDeps(deps[s], entry, used) \in [Dep -> SUBSET Entry]
  BY DEF TypeOK, PopDeps, Popped, StoreDeps

\* The actions of the managers and of their senders.
LEMMA TypingManagers == TypeInv /\ Managers => TypeInv'
  <1>. SUFFICES ASSUME TypeInv, NEW s \in Service, Process(s) \/ Receive(s) \/ Flush(s)
                PROVE TypeInv'
    BY DEF Managers
  <1>. USE DEF TypeInv
  <1>1. CASE ProcessStart(s)
    <2>1. Take(s, "start") /\ Head(WQ[s]).call \in Call /\ WQ' \in [Service -> Seq(Message)]
      BY <1>1, TakeFacts, MessageFacts DEF ProcessStart
    <2>2. AppendCall(history[s], Head(WQ[s]).call) \in Seq(HistoryItem)
      BY <2>1, HistoryFacts DEF TypeOK
    <2>3. history' \in [Service -> Seq(HistoryItem)]
      BY <1>1, <2>2 DEF ProcessStart, TypeOK
    <2>. QED
      BY <1>1, <2>1, <2>3 DEF ProcessStart, TypeOK, app, sender
  <1>2. CASE ProcessEnd(s)
    <2>. DEFINE m == Head(WQ[s])
                entry == <<m.caller, m.call>>
    <2>1. /\ m.call \in Call /\ m.caller \in Service /\ m.used \in SUBSET Dep /\ m.val \in Value
          /\ WQ' \in [Service -> Seq(Message)]
      BY <1>2, TakeFacts, MessageFacts DEF ProcessEnd
    <2>2. entry \in Entry
      BY <2>1 DEF Entry
    <2>3. PICK rest \in Forgotten(history[s], m.call) : history' = [history EXCEPT ![s] = rest]
      BY <1>2 DEF ProcessEnd
    <2>4. rest \in Seq(HistoryItem)
      BY <2>3, HistoryFacts DEF TypeOK
    <2>5. history' \in [Service -> Seq(HistoryItem)]
      BY <2>3, <2>4 DEF TypeOK
    <2>6. HttpQueue' \in [Service -> Seq(Request)] /\ deps' \in [Service -> [Dep -> SUBSET Entry]]
      <3>1. CASE ValidCall(history[s], m.call, m.used)
        <4>1. /\ Send(s, [save |-> TRUE, entries |-> {entry}, val |-> m.val])
              /\ deps' = [deps EXCEPT ![s] = StoreDeps(@, entry, m.used)]
          BY <1>2, <3>1 DEF ProcessEnd
        <4>2. [save |-> TRUE, entries |-> {entry}, val |-> m.val] \in Request
          BY <2>1, <2>2 DEF Request
        <4>3. HttpQueue' \in [Service -> Seq(Request)]
          BY <4>1, <4>2, SendFacts
        <4>4. StoreDeps(deps[s], entry, m.used) \in [Dep -> SUBSET Entry]
          BY <2>2, DepsFacts
        <4>. QED
          BY <4>1, <4>3, <4>4 DEF TypeOK
      <3>2. CASE ~ValidCall(history[s], m.call, m.used)
        BY <1>2, <3>2 DEF ProcessEnd, TypeOK
      <3>. QED
        BY <3>1, <3>2
    <2>. QED
      BY <1>2, <2>1, <2>5, <2>6 DEF ProcessEnd, TypeOK, app, sender
  <1>3. CASE ProcessInvalidateKey(s)
    <2>. DEFINE k == Head(WQ[s]).key
    <2>1. k \in Key /\ WQ' \in [Service -> Seq(Message)]
      BY <1>3, TakeFacts, MessageFacts DEF ProcessInvalidateKey
    <2>2. history' \in [Service -> Seq(HistoryItem)]
      BY <1>3, <2>1, HistoryFacts DEF ProcessInvalidateKey, TypeOK
    <2>3. /\ Popped(deps[s], {k}) \in SUBSET Entry
          /\ PopDeps(deps[s], {k}) \in [Dep -> SUBSET Entry]
      BY <2>1, DepsFacts DEF Dep
    <2>4. HttpQueue' \in [Service -> Seq(Request)]
      BY <1>3, <2>3, SendInvsFacts DEF ProcessInvalidateKey
    <2>5. deps' \in [Service -> [Dep -> SUBSET Entry]]
      BY <1>3, <2>3 DEF ProcessInvalidateKey, TypeOK
    <2>. QED
      BY <1>3, <2>1, <2>2, <2>4, <2>5 DEF ProcessInvalidateKey, TypeOK, app, sender
  <1>4. CASE ProcessInvalidateCalls(s)
    <2>. DEFINE names == Head(WQ[s]).calls
    <2>1. names \in (SUBSET Call) \ {{}} /\ WQ' \in [Service -> Seq(Message)]
      BY <1>4, TakeFacts, MessageFacts DEF ProcessInvalidateCalls
    <2>2. PICK calls \in SetToSeqs(names) :
             history' = [history EXCEPT ![s] = AppendInvCalls(@, calls)]
      BY <1>4 DEF ProcessInvalidateCalls
    <2>3. history' \in [Service -> Seq(HistoryItem)]
      BY <2>1, <2>2, InvCallsFacts DEF TypeOK
    <2>4. /\ Popped(deps[s], names) \in SUBSET Entry
          /\ PopDeps(deps[s], names) \in [Dep -> SUBSET Entry]
      BY <2>1, DepsFacts DEF Dep
    <2>5. HttpQueue' \in [Service -> Seq(Request)]
      BY <1>4, <2>4, SendInvsFacts DEF ProcessInvalidateCalls
    <2>6. deps' \in [Service -> [Dep -> SUBSET Entry]]
      BY <1>4, <2>4 DEF ProcessInvalidateCalls, TypeOK
    <2>7. cache' \in [Service -> [Call -> Value \cup {NoVal}]]
      BY <1>4 DEF ProcessInvalidateCalls, TypeOK
    <2>. QED
      BY <1>4, <2>1, <2>3, <2>5, <2>6, <2>7 DEF ProcessInvalidateCalls, TypeOK, app, sender
  <1>5. CASE ProcessSave(s)
    <2>1. Head(WQ[s]).lines \in [Call -> Value \cup {NoVal}] /\ WQ' \in [Service -> Seq(Message)]
      BY <1>5, TakeFacts, MessageFacts DEF ProcessSave
    <2>2. cache' \in [Service -> [Call -> Value \cup {NoVal}]]
      BY <1>5, <2>1 DEF ProcessSave, TypeOK
    <2>. QED
      BY <1>5, <2>1, <2>2 DEF ProcessSave, TypeOK, app, sender
  <1>6. CASE Receive(s)
    <2>1. /\ HttpQueue[s] \in Seq(Request) /\ HttpQueue[s] # <<>>
          /\ buffer[s] \in Buffer
      BY <1>6 DEF Receive, TypeOK
    <2>2. Head(HttpQueue[s]) \in Request /\ Tail(HttpQueue[s]) \in Seq(Request)
      BY <2>1, TailFacts
    <2>3. HttpQueue' \in [Service -> Seq(Request)]
      BY <1>6, <2>2 DEF Receive, TypeOK
    <2>4. buffer' \in [Service -> Buffer]
      BY <1>6, <2>1, <2>2, AddRequestFacts DEF Receive, TypeOK
    <2>5. batch' \in [Service -> 0..(HttpBatchLimit + 1)]
      BY SMTT(30), <1>6, BoundAssumption DEF Receive, TypeOK
    <2>. QED
      BY <1>6, <2>3, <2>4, <2>5 DEF Receive, TypeOK, app, manager
  <1>7. CASE Flush(s)
    <2>1. ASSUME NEW t \in Service PROVE WQ[t] \o Posts(buffer[s], t) \in Seq(Message)
      BY PostsFacts, ConcatProperties DEF TypeOK
    <2>2. WQ' \in [Service -> Seq(Message)]
      BY <1>7, <2>1 DEF Flush
    <2>3. buffer' \in [Service -> Buffer]
      BY <1>7 DEF Flush, TypeOK, Empty, Buffer
    <2>4. batch' \in [Service -> 0..(HttpBatchLimit + 1)]
      BY <1>7, BoundAssumption DEF Flush, TypeOK
    <2>. QED
      BY <1>7, <2>2, <2>3, <2>4 DEF Flush, TypeOK, app, manager
  <1>. QED
    BY <1>1, <1>2, <1>3, <1>4, <1>5, <1>6, <1>7 DEF Process

LEMMA TypingNext == TypeInv /\ [Next]_vars => TypeInv'
  <1>1. TypeInv /\ UNCHANGED vars => TypeInv'
    BY DEF TypeInv, TypeOK, vars, app, manager, sender
  <1>. QED
    BY <1>1, TypingServices, TypingManagers DEF Next

\* Every variable of the composed system keeps its type: in particular no
\* queue ever holds a message its receiver does not know, and the batch of a
\* sender never passes its limit by more than one.
THEOREM Typing == Spec => []TypeOK
  <1>1. TypeInv => TypeOK
    BY DEF TypeInv
  <1>. QED
    BY TypingInit, TypingNext, <1>1, PTL DEF Spec

-----------------------------------------------------------------------------
(***************************************************************************)
(* The judgement of a run.  j is a place in a work queue q: that of the    *)
(* end of a run of d, or the one after the last if the run has not ended.  *)
(***************************************************************************)
IsStart(m, d) == m.type = "start" /\ m.call = d
IsEnd(m, d) == m.type = "end" /\ m.call = d
IsInv(m, k) == m.type = "inv" /\ m.key = k

StartsBefore(q, j, d) == {i \in 1..Len(q) : i < j /\ IsStart(q[i], d)}
EndsBefore(q, j, d) == {i \in 1..Len(q) : i < j /\ IsEnd(q[i], d)}

\* The start of the run is in the queue, after the end of any earlier run of
\* the call, or it has been processed and is in the history.
StartKept(h, q, j, d) ==
    /\ \A i \in EndsBefore(q, j, d) : \E m \in StartsBefore(q, j, d) : i < m
    /\ StartsBefore(q, j, d) = {} => StartsOf(h, d) # {}

\* The judgement comes to know of an invalidation of k since the start, or
\* the invalidation is still behind it in the queue.
Noticed(h, q, j, d, k) ==
    \/ \E i \in 1..Len(q) : /\ IsInv(q[i], k)
                            /\ \A m \in StartsBefore(q, j, d) : m < i
    \/ StartsBefore(q, j, d) = {} /\ k \in InvalidatedSince(h, d)

Sound(h, q, j, d, keys) ==
    StartKept(h, q, j, d) /\ \A k \in keys : Noticed(h, q, j, d, k)

-----------------------------------------------------------------------------
\* A judgement keeps sound while its queue grows, as long as neither a start
\* nor an end of the call comes between.
LEMMA SoundExtend ==
    ASSUME NEW h, NEW q \in Seq(Message), NEW g \in Seq(Message), NEW d, NEW keys,
           Len(q) <= Len(g), \A i \in 1..Len(q) : g[i] = q[i],
           NEW j \in 1..(Len(q) + 1), NEW n \in j..(Len(g) + 1),
           \A i \in 1..Len(g) : j <= i /\ i < n => ~IsStart(g[i], d) /\ ~IsEnd(g[i], d),
           Sound(h, q, j, d, keys)
    PROVE  Sound(h, g, n, d, keys)
  <1>1. Len(q) \in Nat /\ Len(g) \in Nat
    OBVIOUS
  <1>2. StartsBefore(g, n, d) = StartsBefore(q, j, d) /\ EndsBefore(g, n, d) = EndsBefore(q, j, d)
    BY <1>1 DEF StartsBefore, EndsBefore
  <1>3. StartKept(h, g, n, d)
    BY <1>2 DEF Sound, StartKept
  <1>4. ASSUME NEW k \in keys PROVE Noticed(h, g, n, d, k)
    BY SMTT(30), <1>1, <1>2 DEF Sound, Noticed
  <1>. QED
    BY <1>3, <1>4 DEF Sound

\* Where starts and ends are once the head of the queue is taken.
LEMMA TailPlaces ==
    ASSUME NEW q \in Seq(Message), q # <<>>, NEW d, NEW j \in 2..(Len(q) + 1)
    PROVE  LET g == Tail(q)
           IN  /\ \A i \in StartsBefore(g, j - 1, d) : i \in Nat /\ i + 1 \in StartsBefore(q, j, d)
               /\ \A i \in StartsBefore(q, j, d) :
                     i \in Nat /\ (i # 1 => i - 1 \in StartsBefore(g, j - 1, d))
               /\ \A i \in EndsBefore(g, j - 1, d) : i \in Nat /\ i + 1 \in EndsBefore(q, j, d)
               /\ 1 \in StartsBefore(q, j, d) <=> IsStart(Head(q), d)
               /\ 1 \in EndsBefore(q, j, d) <=> IsEnd(Head(q), d)
  <1>1. /\ Len(q) \in Nat \ {0}
        /\ Len(Tail(q)) = Len(q) - 1
        /\ \A i \in 1..Len(Tail(q)) : Tail(q)[i] = q[i + 1]
        /\ Head(q) = q[1]
    BY TailFacts
  <1>. QED
    BY <1>1 DEF StartsBefore, EndsBefore

\* A judgement keeps sound while its queue is processed, provided the history
\* takes up what the head of the queue was.
LEMMA SoundTail ==
    ASSUME NEW h, NEW f, NEW q \in Seq(Message), q # <<>>, NEW d, NEW keys,
           NEW j \in 2..(Len(q) + 1),
           Sound(h, q, j, d, keys),
           ~IsEnd(Head(q), d) /\ StartsOf(h, d) # {} =>
               /\ StartsOf(f, d) # {}
               /\ ~IsStart(Head(q), d) => InvalidatedSince(h, d) \subseteq InvalidatedSince(f, d),
           IsStart(Head(q), d) => StartsOf(f, d) # {},
           \A k \in keys : IsInv(Head(q), k) => k \in InvalidatedSince(f, d)
    PROVE  Sound(f, Tail(q), j - 1, d, keys)
  <1>. DEFINE g == Tail(q)
              S == StartsBefore(q, j, d)
              T == StartsBefore(g, j - 1, d)
  <1>1. /\ Len(q) \in Nat \ {0}
        /\ Len(g) = Len(q) - 1
        /\ \A i \in 1..Len(g) : g[i] = q[i + 1]
        /\ Head(q) = q[1]
    BY TailFacts
  <1>2. /\ \A i \in T : i \in Nat /\ i + 1 \in S
        /\ \A i \in S : i \in Nat /\ (i # 1 => i - 1 \in T)
        /\ \A i \in EndsBefore(g, j - 1, d) : i \in Nat /\ i + 1 \in EndsBefore(q, j, d)
        /\ 1 \in S <=> IsStart(Head(q), d)
        /\ 1 \in EndsBefore(q, j, d) <=> IsEnd(Head(q), d)
        /\ T \subseteq Nat \ {0}
    <2>1. T \subseteq Nat \ {0}
      BY <1>1 DEF StartsBefore
    <2>. QED
      BY <2>1, TailPlaces
  <1>. HIDE DEF S, T, g
  <1>3. StartKept(h, q, j, d) /\ \A k \in keys : Noticed(h, q, j, d, k)
    BY DEF Sound
  <1>4. ASSUME NEW i \in EndsBefore(g, j - 1, d) PROVE \E m \in T : i < m
    <2>1. PICK m \in S : i + 1 < m
      BY <1>2, <1>3 DEF StartKept, S
    <2>2. m - 1 \in T /\ i < m - 1
      BY <2>1, <1>2
    <2>. QED
      BY <2>2
  <1>5. ASSUME T = {} PROVE StartsOf(f, d) # {}
    <2>1. CASE S = {}
      <3>1. ~IsEnd(Head(q), d)
        BY <2>1, <1>2, <1>3 DEF StartKept, S
      <3>. QED
        BY <2>1, <3>1, <1>3 DEF StartKept, S
    <2>2. CASE S # {}
      BY <2>2, <1>2, <1>5
    <2>. QED
      BY <2>1, <2>2
  <1>6. ASSUME NEW k \in keys PROVE Noticed(f, g, j - 1, d, k)
    <2>1. CASE \E i \in 1..Len(q) : IsInv(q[i], k) /\ \A m \in S : m < i
      <3>1. PICK i \in 1..Len(q) : IsInv(q[i], k) /\ \A m \in S : m < i
        BY <2>1
      <3>2. CASE i = 1
        <4>1. S = {}
          BY <3>1, <3>2, <1>2 DEF S, StartsBefore
        <4>2. T = {}
          BY <4>1, <1>2
        <4>3. k \in InvalidatedSince(f, d)
          BY <3>1, <3>2, <1>1
        <4>. QED
          BY <4>2, <4>3 DEF Noticed, T
      <3>3. CASE i # 1
        <4>1. i - 1 \in 1..Len(g) /\ g[i - 1] = q[i]
          <5>1. i - 1 \in 1..Len(g) /\ (i - 1) + 1 = i
            BY <3>3, <1>1
          <5>. QED
            BY <5>1, <1>1
        <4>2. \A m \in T : m < i - 1
          <5>1. \A m \in T : m \in Nat /\ m + 1 < i
            BY <3>1, <1>2
          <5>. QED
            BY <5>1
        <4>. QED
          BY <3>1, <4>1, <4>2 DEF Noticed, T
      <3>. QED
        BY <3>2, <3>3
    <2>2. CASE S = {} /\ k \in InvalidatedSince(h, d)
      <3>1. T = {} /\ ~IsStart(Head(q), d) /\ ~IsEnd(Head(q), d) /\ StartsOf(h, d) # {}
        BY <2>2, <1>2, <1>3 DEF StartKept, S
      <3>2. k \in InvalidatedSince(f, d)
        BY <2>2, <3>1
      <3>. QED
        BY <3>1, <3>2 DEF Noticed, T
    <2>. QED
      BY <2>1, <2>2, <1>3 DEF Noticed, S
  <1>. QED
    BY <1>4, <1>5, <1>6 DEF Sound, StartKept, T, g

\* A judgement on fewer keys, or on more of which the invalidation is behind
\* every start in the queue.
LEMMA SoundKeys ==
    ASSUME NEW h, NEW q \in Seq(Message), NEW d, NEW keys, NEW more,
           NEW j \in 1..(Len(q) + 1),
           Sound(h, q, j, d, keys),
           \A k \in more : \/ k \in keys
                           \/ Len(q) > 0 /\ IsInv(q[Len(q)], k)
    PROVE  Sound(h, q, j, d, more)
  <1>1. ASSUME NEW k \in more, Len(q) > 0, IsInv(q[Len(q)], k)
        PROVE  Noticed(h, q, j, d, k)
    <2>1. Len(q) \in 1..Len(q)
      BY <1>1
    <2>2. \A m \in StartsBefore(q, j, d) : m < Len(q)
      <3>1. ASSUME NEW m \in StartsBefore(q, j, d), m = Len(q) PROVE FALSE
        BY <1>1, <3>1 DEF StartsBefore, IsStart, IsInv
      <3>. QED
        BY <3>1 DEF StartsBefore
    <2>. QED
      BY <1>1, <2>1, <2>2 DEF Noticed
  <1>. QED
    BY <1>1 DEF Sound

\* A run that has just started has seen nothing invalidated.
LEMMA SoundStart ==
    ASSUME NEW h, NEW q \in Seq(Message), NEW d, q # <<>>, IsStart(q[Len(q)], d)
    PROVE  Sound(h, q, Len(q) + 1, d, {})
  <1>1. Len(q) \in Nat \ {0}
    BY EmptySeq
  <1>2. Len(q) \in StartsBefore(q, Len(q) + 1, d)
    BY <1>1 DEF StartsBefore
  <1>3. ASSUME NEW i \in EndsBefore(q, Len(q) + 1, d) PROVE i < Len(q)
    <2>1. i # Len(q)
      BY DEF EndsBefore, IsEnd, IsStart
    <2>. QED
      BY <1>1, <2>1 DEF EndsBefore
  <1>. QED
    BY <1>2, <1>3 DEF Sound, StartKept

\* The keys read in a version that is overwritten, the write being announced.
Overwritten(val, keys) == {k \in keys : <<k, db[k]>> \notin val /\ unsent[k] = 0}

Excused(d, val, Old) == Reads[d] = {} \/ val \cap Old # {}

Judged(j, d, val, used, Old) ==
    \/ Excused(d, val, Old)
    \/ Sound(history[Owner[d]], WQ[Owner[d]], j, d, Overwritten(val, used))

\* A value tells of each of the keys a version that was written.
Covers(val, keys) == \A k \in keys : \E v \in 0..db[k] : <<k, v>> \in val

-----------------------------------------------------------------------------
\* What is on its way to the line of d in the cache of s, or in it.

Coming(k) ==
    \/ unsent[k] > 0
    \/ \E i \in 1..Len(WQ[Owner[k]]) : IsInv(WQ[Owner[k]][i], k)

Queued(s, d) ==
    {i \in 1..Len(HttpQueue[Owner[d]]) : <<s, d>> \in HttpQueue[Owner[d]][i].entries}
Merged(s, d) == <<s, d>> \in Buffered(buffer[Owner[d]])
Says(m, d) ==
    \/ m.type = "invcalls" /\ d \in m.calls
    \/ m.type = "save" /\ m.lines[d] # NoVal
Posted(s, d) == {i \in 1..Len(WQ[s]) : Says(WQ[s][i], d)}
Word(m, d) == IF m.type = "save" THEN m.lines[d] ELSE NoVal

\* The value is of the versions in the database, or the invalidation of a key
\* that is not is coming and finds the line in the index.
Right(val, s, d) ==
    \A k \in Reads[d] :
       /\ <<k, db[k]>> \in val \/ Coming(k)
       /\ <<s, d>> \in deps[Owner[d]][k]

Written(val, d) == val = NoVal \/ Covers(val, Reads[d])
Good(val, s, d, Old) == val = NoVal \/ Excused(d, val, Old) \/ Right(val, s, d)

\* What is said of the line, in the order in which it reaches the cache, is
\* good unless something else is said behind it.
QueueGood(s, d, Old) ==
    /\ \A i \in Queued(s, d) :
          LET val == HttpQueue[Owner[d]][i].val
          IN  Written(val, d) /\ (Good(val, s, d, Old) \/ \E j \in Queued(s, d) : j > i)
    /\ Merged(s, d) =>
          LET val == buffer[Owner[d]].save[<<s, d>>]
          IN  Written(val, d) /\ (Good(val, s, d, Old) \/ Queued(s, d) # {})

More(s, d) == Merged(s, d) \/ Queued(s, d) # {}

CacheGood(s, d, Old) ==
    /\ \A i \in Posted(s, d) :
          LET val == Word(WQ[s][i], d)
          IN  /\ Written(val, d)
              /\ Good(val, s, d, Old) \/ (\E j \in Posted(s, d) : j > i) \/ More(s, d)
    /\ LET val == cache[s][d]
       IN  Written(val, d) /\ (Good(val, s, d, Old) \/ Posted(s, d) # {} \/ More(s, d))

-----------------------------------------------------------------------------
\* The inductive invariant, in parts.

\* Runs ask for what their handlers read and call, and wait for their answers.
Shape(c) ==
    /\ run[c].phase = "idle" => run[c] = Idle
    /\ run[c].phase = "asked" => run[c].parent \in Call /\ run[c] = Asked(run[c].parent, c)
    /\ run[c].todo \subseteq Reads[c] \cup Calls[c]
    /\ run[c].parent \in Call =>
          /\ run[c].parent # c
          /\ c \in Calls[run[c].parent]
          /\ run[run[c].parent].phase = "on"
    /\ Leaf(c) /\ run[c].parent \in Call =>
          run[c].todo \cup run[c].used = Reads[c] /\ Covers(run[c].got, run[c].used)

Shaped == \A c \in Call : Shape(c)

\* The run under way will be judged on all it read, ...
RunJudged(d, Old, Unseen) ==
    run[d].phase = "on" /\ run[d].parent \in Call /\ d \notin Unseen =>
       Judged(Len(WQ[Owner[d]]) + 1, d, run[d].got, run[d].used, Old)

\* ... and so will those that have ended.
EndsJudged(d, Old) ==
    \A j \in 1..Len(WQ[Owner[d]]) : IsEnd(WQ[Owner[d]][j], d) =>
       LET m == WQ[Owner[d]][j]
       IN  /\ m.used = Reads[d]
           /\ Covers(m.val, Reads[d])
           /\ Judged(j, d, m.val, m.used, Old)

AllJudged(Old, Unseen) ==
    \A d \in Call : Leaf(d) => RunJudged(d, Old, Unseen) /\ EndsJudged(d, Old)

\* A manager judges and invalidates the calls of its own service only.
AtHome(t) ==
    /\ \A i \in 1..Len(WQ[t]) : WQ[t][i].type = "end" => Owner[WQ[t][i].call] = t
    /\ \A x \in Dep : \A e \in deps[t][x] : Owner[e[2]] = t
    /\ \A i \in 1..Len(HttpQueue[t]) : \A e \in HttpQueue[t][i].entries : Owner[e[2]] = t
    /\ \A e \in Buffered(buffer[t]) : Owner[e[2]] = t

Home == \A t \in Service : AtHome(t)

LinesGood(Old) ==
    \A s \in Service, d \in Call :
       Leaf(d) => QueueGood(s, d, Old) /\ CacheGood(s, d, Old)

LeafInv(Old, Unseen) ==
    Shaped /\ Home /\ AllJudged(Old, Unseen) /\ LinesGood(Old)

-----------------------------------------------------------------------------
\* Versions only grow.
LEMMA DbGrows ==
    ASSUME TypeInv, [Next]_vars
    PROVE  /\ \A k \in Key : db[k] \in Nat /\ db'[k] \in Nat /\ db[k] <= db'[k]
           /\ \A val, keys : keys \subseteq Key /\ Covers(val, keys) => Covers(val, keys)'
  <1>1. \/ UNCHANGED db
        \/ \E k \in Key : Write(k)
    BY DEF Next, Writers, Clients, Handlers, Managers, PostWrite, ClientRequest, PreReqStart,
           PreReqEnd, GetState, InvokeHit, InvokeMiss, Process, ProcessStart, ProcessEnd,
           ProcessInvalidateKey, ProcessInvalidateCalls, ProcessSave, Receive, Flush, vars, app
  <1>2. \A k \in Key : db[k] \in Nat /\ db'[k] \in Nat /\ db[k] <= db'[k]
    <2>1. CASE UNCHANGED db
      BY <2>1, BoundAssumption DEF TypeInv, TypeOK
    <2>2. ASSUME NEW k \in Key, Write(k)
          PROVE  \A x \in Key : db[x] \in Nat /\ db'[x] \in Nat /\ db[x] <= db'[x]
      <3>1. db \in [Key -> 0..MaxWrites] /\ db' = [db EXCEPT ![k] = @ + 1]
        BY <2>2 DEF TypeInv, TypeOK, Write
      <3>. QED
        BY <3>1, BoundAssumption
    <2>. QED
      BY <1>1, <2>1, <2>2
  <1>3. ASSUME NEW val, NEW keys, keys \subseteq Key, Covers(val, keys)
        PROVE  Covers(val, keys)'
    BY <1>2, <1>3 DEF Covers
  <1>. QED
    BY <1>2, <1>3

\* What the handlers' actions make of the runs.
LEMMA LeafAsksNothing ==
    ASSUME NEW c \in Call, NEW d \in Call, Shape(c), d \in run[c].todo
    PROVE  d \in Calls[c] /\ ~Leaf(c)
  BY GraphAssumption, CallsAndKeysApart DEF Shape, Leaf

LEMMA ShapedInit == Init => Shaped
  BY AbsenceAssumption DEF Init, Shaped, Shape, Idle

LEMMA ShapedNext == TypeInv /\ Shaped /\ [Next]_vars => Shaped'
  <1>. SUFFICES ASSUME TypeInv, Shaped, [Next]_vars, NEW x \in Call PROVE Shape(x)'
    BY DEF Shaped
  <1>1. run \in [Call -> Run]
    BY DEF TypeInv, TypeOK
  <1>2. \A c \in Call : Shape(c)
    BY DEF Shaped
  <1>3. Reads[x] \subseteq Key
    BY GraphAssumption
  <1>4. \A val, keys : keys \subseteq Reads[x] /\ Covers(val, keys) => Covers(val, keys)'
    BY <1>3, DbGrows
  <1>5. ASSUME \A y \in Call : run'[y].phase = "on" <=> run[y].phase = "on",
               run'[x] = run[x]
        PROVE  Shape(x)'
    BY <1>1, <1>2, <1>4, <1>5 DEF Shape, Leaf
  <1>6. CASE UNCHANGED run
    BY <1>5, <1>6
  <1>7. ASSUME NEW c \in Call, ClientRequest(c) PROVE Shape(x)'
    <2>1. run[c] = Idle /\ run' = [run EXCEPT ![c] = [Asked(None, c) EXCEPT !.phase = "on"]]
      BY <1>7 DEF ClientRequest
    <2>2. \A y \in Call : run[y].phase = "on" => run'[y].phase = "on"
      BY <1>1, <2>1 DEF Asked
    <2>3. CASE x = c
      BY <1>1, <2>1, <2>3, AbsenceAssumption DEF Shape, Asked
    <2>4. CASE x # c
      <3>1. run'[x] = run[x]
        BY <1>1, <2>1, <2>4
      <3>. QED
        BY <1>1, <1>2, <1>4, <2>2, <3>1 DEF Shape, Leaf
    <2>. QED
      BY <2>3, <2>4
  <1>8. ASSUME NEW c \in Call, PreReqStart(c) PROVE Shape(x)'
    <2>1. run[c].phase = "asked" /\ run' = [run EXCEPT ![c].phase = "on"]
      BY <1>8 DEF PreReqStart
    <2>2. \A y \in Call : run[y].phase = "on" => run'[y].phase = "on"
      BY <1>1, <2>1 DEF Run
    <2>3. CASE x = c
      <3>1. /\ run'[x].phase = "on" /\ run'[x].parent = run[x].parent
            /\ run'[x].todo = run[x].todo /\ run'[x].used = run[x].used
            /\ run'[x].got = run[x].got
        BY <1>1, <2>1, <2>3 DEF Run
      <3>. QED
        BY <1>1, <1>2, <1>4, <2>2, <3>1 DEF Shape, Leaf
    <2>4. CASE x # c
      <3>1. run'[x] = run[x]
        BY <1>1, <2>1, <2>4
      <3>. QED
        BY <1>1, <1>2, <1>4, <2>2, <3>1 DEF Shape, Leaf
    <2>. QED
      BY <2>3, <2>4
  <1>9. ASSUME NEW c \in Call, NEW d \in Call, InvokeMiss(c, d) PROVE Shape(x)'
    <2>1. /\ run[c].phase = "on" /\ run[d] = Idle /\ d \in run[c].todo
          /\ run' = [run EXCEPT ![d] = Asked(c, d)]
      BY <1>9 DEF InvokeMiss, Active
    <2>2. d # c /\ d \in Calls[c]
      BY <2>1, <1>2, LeafAsksNothing DEF Idle
    <2>3. \A y \in Call : run[y].phase = "on" => run'[y].phase = "on"
      BY <1>1, <2>1 DEF Idle
    <2>4. CASE x = d
      <3>1. run'[x] = Asked(c, x)
        BY <1>1, <2>1, <2>4
      <3>. QED
        BY <2>1, <2>2, <2>3, <2>4, <3>1 DEF Shape, Asked, Leaf, Covers
    <2>5. CASE x # d
      <3>1. run'[x] = run[x]
        BY <1>1, <2>1, <2>5
      <3>. QED
        BY <1>1, <1>2, <1>4, <2>3, <3>1 DEF Shape, Leaf
    <2>. QED
      BY <2>4, <2>5
  <1>10. ASSUME NEW c \in Call, NEW d \in Dep, NEW val \in Value, Active(c), d \in run[c].todo,
                run' = [run EXCEPT ![c] = Got(@, d, val, ByClient(c))],
                Leaf(c) => \E v \in 0..db'[d] : <<d, v>> \in val
         PROVE  Shape(x)'
    <2>1. /\ Got(run[c], d, val, ByClient(c)).phase = run[c].phase
          /\ Got(run[c], d, val, ByClient(c)).parent = run[c].parent
          /\ Got(run[c], d, val, ByClient(c)).todo = run[c].todo \ {d}
          /\ ~ByClient(c) => Got(run[c], d, val, ByClient(c)).used = run[c].used \cup {d}
          /\ Got(run[c], d, val, ByClient(c)).got = run[c].got \cup val
      BY <1>1, GotFacts
    <2>2. \A y \in Call : run'[y].phase = run[y].phase
      BY <1>1, <1>10, <2>1
    <2>3. CASE x = c
      <3>1. /\ run'[x].phase = "on" /\ run'[x].parent = run[x].parent
            /\ run'[x].todo = run[x].todo \ {d}
            /\ run[x].parent \in Call => run'[x].used = run[x].used \cup {d}
            /\ run'[x].got = run[x].got \cup val
        BY <1>1, <1>10, <2>1, <2>3, AbsenceAssumption DEF Active, ByClient
      <3>2. ASSUME Leaf(x), run[x].parent \in Call
            PROVE  /\ run'[x].todo \cup run'[x].used = Reads[x]
                   /\ Covers(run[x].got, run[x].used)'
        <4>1. /\ run[x].todo \cup run[x].used = Reads[x]
              /\ \A k \in run[x].used : \E v \in 0..db'[k] : <<k, v>> \in run[x].got
          BY <1>2, <1>4, <3>2 DEF Shape, Covers
        <4>2. d \in run[x].todo /\ \E v \in 0..db'[d] : <<d, v>> \in val
          BY <1>10, <2>3, <3>2
        <4>. QED
          BY <3>1, <3>2, <4>1, <4>2 DEF Covers
      <3>. QED
        BY <1>2, <2>2, <3>1, <3>2 DEF Shape, Leaf
    <2>4. CASE x # c
      <3>1. run'[x] = run[x]
        BY <1>1, <1>10, <2>4
      <3>. QED
        BY <1>5, <2>2, <3>1
    <2>. QED
      BY <2>3, <2>4
  <1>11. ASSUME NEW c \in Call, NEW k \in Key, GetState(c, k) PROVE Shape(x)'
    <2>1. /\ {<<k, db[k]>>} \in Value
          /\ \E v \in 0..db'[k] : <<k, v>> \in {<<k, db[k]>>}
      BY <1>11, BoundAssumption DEF Value, TypeInv, TypeOK, GetState
    <2>. QED
      BY <1>10, <1>11, <2>1 DEF GetState, Dep
  <1>12. ASSUME NEW c \in Call, NEW d \in Call, InvokeHit(c, d) PROVE Shape(x)'
    <2>1. cache[Owner[c]][d] \in Value /\ d \in run[c].todo
      BY <1>12, GraphAssumption DEF InvokeHit, TypeInv, TypeOK
    <2>2. ~Leaf(c)
      BY <2>1, <1>2, LeafAsksNothing
    <2>. QED
      BY <1>10, <1>12, <2>1, <2>2 DEF InvokeHit, Dep
  <1>13. ASSUME NEW c \in Call, PreReqEnd(c), ByClient(c) PROVE Shape(x)'
    <2>1. Active(c) /\ run' = [run EXCEPT ![c] = Idle]
      BY <1>13 DEF PreReqEnd
    <2>2. \A y \in Call : run[y].parent # c
      BY <2>1 DEF Active, Waiting
    <2>3. CASE x = c
      BY <1>1, <2>1, <2>3, AbsenceAssumption DEF Shape, Idle
    <2>4. CASE x # c
      <3>1. run'[x] = run[x]
        BY <1>1, <2>1, <2>4
      <3>2. \A y \in Call : y # c => run'[y] = run[y]
        BY <1>1, <2>1
      <3>. QED
        BY <1>1, <1>2, <1>4, <2>2, <3>1, <3>2 DEF Shape, Leaf
    <2>. QED
      BY <2>3, <2>4
  <1>14. ASSUME NEW c \in Call, PreReqEnd(c), ~ByClient(c) PROVE Shape(x)'
    <2>. DEFINE p == run[c].parent
                r == [run EXCEPT ![c] = Idle]
    <2>1. /\ Active(c)
          /\ run' = [r EXCEPT ![p] = Got(@, c, run[c].got, ByClient(p))]
      BY <1>14 DEF PreReqEnd
    <2>2. p \in Call /\ p # c /\ c \in Calls[p] /\ run[p].phase = "on"
      BY <1>1, <1>2, <1>14 DEF Shape, ByClient, Run
    <2>3. /\ r \in [Call -> Run] /\ r[c] = Idle
          /\ \A y \in Call : y # c => r[y] = run[y]
      BY <1>1, RunFacts
    <2>. HIDE DEF r
    <2>4. /\ run'[c] = Idle
          /\ run'[p] = Got(run[p], c, run[c].got, ByClient(p))
          /\ \A y \in Call : y # c /\ y # p => run'[y] = run[y]
      BY <2>1, <2>2, <2>3
    <2>5. /\ run'[p].phase = run[p].phase
          /\ run'[p].parent = run[p].parent
          /\ run'[p].todo = run[p].todo \ {c}
      <3>1. run[p] \in Run /\ c \in Dep /\ run[c].got \in Value
        BY <1>1, <2>2 DEF Run, Dep
      <3>. HIDE DEF p
      <3>. QED
        BY <2>4, <3>1, GotFacts
    <2>6. \A y \in Call : run[y].parent # c
      BY <2>1 DEF Active, Waiting
    <2>7. \A y \in Call : y # c /\ run[y].phase = "on" => run'[y].phase = "on"
      BY <2>4, <2>5
    <2>8. CASE x = c
      BY <2>4, <2>8, AbsenceAssumption DEF Shape, Idle
    <2>9. CASE x = p
      <3>1. ~Leaf(x)
        BY <2>2, <2>9 DEF Leaf
      <3>. QED
        BY <1>1, <1>2, <2>2, <2>5, <2>6, <2>7, <2>9, <3>1 DEF Shape, Leaf
    <2>10. CASE x # c /\ x # p
      <3>1. run'[x] = run[x]
        BY <2>4, <2>10
      <3>. QED
        BY <1>1, <1>2, <1>4, <2>6, <2>7, <3>1 DEF Shape, Leaf
    <2>. QED
      BY <2>8, <2>9, <2>10
  <1>15. CASE Writers \/ Managers \/ UNCHANGED vars
    <2>1. UNCHANGED run
      BY <1>15 DEF Writers, Managers, Write, PostWrite, Process, ProcessStart, ProcessEnd,
             ProcessInvalidateKey, ProcessInvalidateCalls, ProcessSave, Receive, Flush, vars, app
    <2>. QED
      BY <1>6, <2>1
  <1>. QED
    BY <1>7, <1>8, <1>9, <1>11, <1>12, <1>13, <1>14, <1>15, GraphAssumption
       DEF Next, Clients, Handlers

-----------------------------------------------------------------------------
\* What the services and the writers do, as the managers see it: their work
\* queues grow by announcements.
Announces(q, g) ==
    \/ g = q
    \/ \E m \in Message : m.type \in {"start", "end", "inv"} /\ g = Append(q, m)

LEMMA AnnounceFacts ==
    ASSUME NEW q \in Seq(Message), NEW g, Announces(q, g)
    PROVE  /\ g \in Seq(Message)
           /\ Len(q) \in Nat /\ Len(g) \in Nat
           /\ Len(q) <= Len(g) /\ Len(g) <= Len(q) + 1
           /\ \A i \in 1..Len(q) : g[i] = q[i]
           /\ \A i \in 1..Len(g) : ~(i \in 1..Len(q)) =>
                 i = Len(g) /\ g[i].type \in {"start", "end", "inv"}
  <1>1. CASE g = q
    BY <1>1
  <1>2. ASSUME NEW m \in Message, m.type \in {"start", "end", "inv"}, g = Append(q, m)
        PROVE  /\ g \in Seq(Message)
               /\ Len(q) \in Nat /\ Len(g) = Len(q) + 1
               /\ \A i \in 1..Len(q) : g[i] = q[i]
               /\ g[Len(g)].type \in {"start", "end", "inv"}
    BY <1>2, AppendFacts
  <1>. QED
    BY <1>1, <1>2 DEF Announces

LEMMA ServiceStep ==
    ASSUME TypeInv, Writers \/ Clients \/ Handlers
    PROVE  /\ UNCHANGED <<history, deps, cache, HttpQueue, buffer>>
           /\ \A s \in Service : Announces(WQ[s], WQ'[s])
           /\ \A k \in Key :
                 \/ unsent'[k] > 0
                 \/ unsent'[k] = unsent[k] /\ db'[k] = db[k]
                 \/ /\ db'[k] = db[k]
                    /\ WQ'[Owner[k]] = Append(WQ[Owner[k]], [type |-> "inv", key |-> k])
  <1>. USE DEF TypeInv, TypeOK
  <1>1. ASSUME NEW t \in Service, NEW m \in Message, m.type \in {"start", "end", "inv"},
               WQ' = [WQ EXCEPT ![t] = Append(@, m)]
        PROVE  \A s \in Service : Announces(WQ[s], WQ'[s])
    BY <1>1 DEF Announces
  <1>2. UNCHANGED WQ => \A s \in Service : Announces(WQ[s], WQ'[s])
    BY DEF Announces
  <1>3. ASSUME NEW k \in Key, Write(k)
        PROVE  /\ UNCHANGED <<WQ, history, deps, cache, HttpQueue, buffer>>
               /\ \A x \in Key : \/ unsent'[x] > 0
                                 \/ unsent'[x] = unsent[x] /\ db'[x] = db[x]
    <2>1. unsent[k] + 1 > 0
      BY BoundAssumption
    <2>. QED
      BY <1>3, <2>1 DEF Write, manager, sender
  <1>4. ASSUME NEW k \in Key, PostWrite(k)
        PROVE  /\ UNCHANGED <<db, history, deps, cache, HttpQueue, buffer>>
               /\ \A s \in Service : Announces(WQ[s], WQ'[s])
               /\ \A x \in Key : x # k => unsent'[x] = unsent[x]
               /\ WQ'[Owner[k]] = Append(WQ[Owner[k]], [type |-> "inv", key |-> k])
    <2>. DEFINE m == [type |-> "inv", key |-> k]
    <2>1. m \in Message /\ m.type = "inv" /\ Owner[k] \in Service
      BY GraphAssumption DEF Message
    <2>2. WQ' = [WQ EXCEPT ![Owner[k]] = Append(@, m)]
      BY <1>4 DEF PostWrite
    <2>. HIDE DEF m
    <2>3. \A s \in Service : Announces(WQ[s], WQ'[s])
      BY <1>1, <2>1, <2>2
    <2>. QED
      BY <1>4, <2>1, <2>2, <2>3 DEF PostWrite, manager, sender, m
  <1>5. ASSUME NEW c \in Call, PreReqStart(c)
        PROVE  /\ UNCHANGED <<db, unsent, history, deps, cache, HttpQueue, buffer>>
               /\ \A s \in Service : Announces(WQ[s], WQ'[s])
    <2>. DEFINE m == [type |-> "start", call |-> c]
    <2>1. m \in Message /\ m.type = "start" /\ Owner[c] \in Service
      BY GraphAssumption DEF Message
    <2>2. WQ' = [WQ EXCEPT ![Owner[c]] = Append(@, m)]
      BY <1>5 DEF PreReqStart
    <2>. HIDE DEF m
    <2>. QED
      BY <1>1, <1>5, <2>1, <2>2 DEF PreReqStart, manager, sender
  <1>6. ASSUME NEW c \in Call, PreReqEnd(c)
        PROVE  /\ UNCHANGED <<db, unsent, history, deps, cache, HttpQueue, buffer>>
               /\ \A s \in Service : Announces(WQ[s], WQ'[s])
    <2>1. CASE ByClient(c)
      BY <1>2, <1>6, <2>1 DEF PreReqEnd, manager, sender
    <2>2. CASE ~ByClient(c)
      <3>. DEFINE m == [type |-> "end", call |-> c, caller |-> Owner[run[c].parent],
                        used |-> run[c].used, val |-> run[c].got]
      <3>1. run[c].parent \in Call /\ run[c].got \in Value /\ run[c].used \in SUBSET Dep
        BY <2>2 DEF ByClient, Run
      <3>2. m \in Message /\ m.type = "end" /\ Owner[c] \in Service
        BY <3>1, GraphAssumption DEF Message
      <3>3. WQ' = [WQ EXCEPT ![Owner[c]] = Append(@, m)]
        BY <1>6, <2>2 DEF PreReqEnd
      <3>. HIDE DEF m
      <3>. QED
        BY <1>1, <1>6, <3>2, <3>3 DEF PreReqEnd, manager, sender
    <2>. QED
      BY <2>1, <2>2
  <1>7. CASE \/ \E c \in Call : ClientRequest(c)
             \/ \E c \in Call, k \in Key : GetState(c, k)
             \/ \E c, d \in Call : InvokeHit(c, d) \/ InvokeMiss(c, d)
    <2>1. UNCHANGED <<db, unsent, WQ, history, deps, cache, HttpQueue, buffer>>
      BY <1>7 DEF ClientRequest, GetState, InvokeHit, InvokeMiss, manager, sender
    <2>. QED
      BY <1>2, <2>1
  <1>. QED
    BY <1>2, <1>3, <1>4, <1>5, <1>6, <1>7, GraphAssumption DEF Writers, Clients, Handlers

\* Services and writers only append to the work queues.
LEMMA QueuesGrow ==
    ASSUME TypeInv, Writers \/ Clients \/ Handlers, NEW u \in Service
    PROVE  /\ WQ[u] \in Seq(Message)
           /\ Len(WQ[u]) \in Nat /\ Len(WQ'[u]) \in Nat /\ Len(WQ[u]) <= Len(WQ'[u])
           /\ \A i \in 1..Len(WQ[u]) : WQ'[u][i] = WQ[u][i]
           /\ \A i \in 1..Len(WQ'[u]) : ~(i \in 1..Len(WQ[u])) =>
                 WQ'[u][i].type \in {"start", "end", "inv"}
  <1>1. WQ[u] \in Seq(Message)
    BY DEF TypeInv, TypeOK
  <1>2. Announces(WQ[u], WQ'[u])
    BY ServiceStep
  <1>. QED
    BY <1>1, <1>2, AnnounceFacts

\* An overwritten key stays one, or its invalidation has just been announced.
LEMMA OverwrittenKept ==
    ASSUME TypeInv, Writers \/ Clients \/ Handlers, NEW d \in Call,
           NEW val, NEW keys, keys \subseteq Reads[d]
    PROVE  LET g == WQ'[Owner[d]]
           IN  \A k \in Overwritten(val, keys)' :
                  k \in Overwritten(val, keys) \/ (Len(g) > 0 /\ IsInv(g[Len(g)], k))
  <1>. SUFFICES ASSUME NEW k \in Overwritten(val, keys)', k \notin Overwritten(val, keys)
                PROVE  Len(WQ'[Owner[d]]) > 0 /\ IsInv(WQ'[Owner[d]][Len(WQ'[Owner[d]])], k)
    OBVIOUS
  <1>1. k \in Key /\ Owner[k] = Owner[d] /\ Owner[d] \in Service
    BY GraphAssumption DEF Overwritten
  <1>. DEFINE m == [type |-> "inv", key |-> k]
  <1>2. WQ'[Owner[d]] = Append(WQ[Owner[d]], m)
    <2>1. unsent'[k] = 0 /\ ~(unsent'[k] = unsent[k] /\ db'[k] = db[k])
      BY DEF Overwritten
    <2>2. \/ unsent'[k] > 0
          \/ unsent'[k] = unsent[k] /\ db'[k] = db[k]
          \/ WQ'[Owner[k]] = Append(WQ[Owner[k]], m)
      BY <1>1, ServiceStep
    <2>. QED
      BY <1>1, <2>1, <2>2
  <1>3. WQ[Owner[d]] \in Seq(Message) /\ m \in Message
    BY <1>1 DEF TypeInv, TypeOK, Message
  <1>. HIDE DEF m
  <1>4. /\ Len(WQ'[Owner[d]]) = Len(WQ[Owner[d]]) + 1
        /\ WQ'[Owner[d]][Len(WQ[Owner[d]]) + 1] = m
        /\ Len(WQ[Owner[d]]) \in Nat
    BY <1>2, <1>3, AppendFacts
  <1>. QED
    BY <1>4 DEF IsInv, m

\* A judgement keeps sound in a step of a service.
LEMMA ServiceJudged ==
    ASSUME TypeInv, Writers \/ Clients \/ Handlers, NEW d \in Call,
           NEW val, NEW keys, keys \subseteq Reads[d], NEW Old,
           NEW j \in 1..(Len(WQ[Owner[d]]) + 1), NEW n \in j..(Len(WQ'[Owner[d]]) + 1),
           \A i \in 1..Len(WQ'[Owner[d]]) : j <= i /\ i < n =>
              ~IsStart(WQ'[Owner[d]][i], d) /\ ~IsEnd(WQ'[Owner[d]][i], d),
           Judged(j, d, val, keys, Old)
    PROVE  Judged(n, d, val, keys, Old)'
  <1>. DEFINE q == WQ[Owner[d]]
              g == WQ'[Owner[d]]
              h == history[Owner[d]]
  <1>1. CASE Excused(d, val, Old)
    BY <1>1 DEF Judged, Excused
  <1>2. CASE ~Excused(d, val, Old)
    <2>1. Sound(h, q, j, d, Overwritten(val, keys))
      BY <1>2 DEF Judged
    <2>2. /\ Announces(q, g) /\ history'[Owner[d]] = h
          /\ Owner[d] \in Service /\ q \in Seq(Message)
      BY ServiceStep, GraphAssumption DEF TypeInv, TypeOK
    <2>. HIDE DEF q, g, h
    <2>3. /\ g \in Seq(Message) /\ Len(q) <= Len(g) /\ \A i \in 1..Len(q) : g[i] = q[i]
          /\ Len(g) \in Nat /\ Len(q) \in Nat
      BY <2>2, AnnounceFacts
    <2>4. Sound(h, g, n, d, Overwritten(val, keys))
      BY <2>1, <2>2, <2>3, SoundExtend DEF q, g
    <2>5. n \in 1..(Len(g) + 1)
      BY <2>3 DEF q, g
    <2>6. \A k \in Overwritten(val, keys)' :
             k \in Overwritten(val, keys) \/ (Len(g) > 0 /\ IsInv(g[Len(g)], k))
      BY OverwrittenKept DEF g
    <2>7. Sound(h, g, n, d, Overwritten(val, keys)')
      BY <2>3, <2>4, <2>5, <2>6, SoundKeys
    <2>. QED
      BY <2>2, <2>7 DEF Judged, g, h
  <1>. QED
    BY <1>1, <1>2

\* The step, as the run of a leaf call sees it.
LEMMA LeafRunStep ==
    ASSUME TypeInv, Shaped, Writers \/ Clients \/ Handlers, NEW d \in Call, Leaf(d)
    PROVE  LET q == WQ[Owner[d]]
               g == WQ'[Owner[d]]
           IN  \/ /\ run'[d] = run[d]
                  /\ \A i \in 1..Len(g) : ~(i \in 1..Len(q)) => ~IsStart(g[i], d) /\ ~IsEnd(g[i], d)
               \/ PreReqStart(d)
               \/ \E k \in Key : GetState(d, k)
               \/ PreReqEnd(d)
               \/ run'[d].phase = "asked" /\ g = q
               \/ run'[d].parent = None /\ g = q
  <1>. DEFINE q == WQ[Owner[d]]
              g == WQ'[Owner[d]]
              New == \A i \in 1..Len(g) : ~(i \in 1..Len(q)) => ~IsStart(g[i], d) /\ ~IsEnd(g[i], d)
  <1>1. run \in [Call -> Run] /\ q \in Seq(Message) /\ Owner[d] \in Service /\ WQ \in [Service -> Seq(Message)]
    BY GraphAssumption DEF TypeInv, TypeOK
  <1>2. g = q => New
    OBVIOUS
  <1>3. ASSUME NEW t \in Service, NEW m \in Message, ~IsStart(m, d), ~IsEnd(m, d),
               WQ' = [WQ EXCEPT ![t] = Append(@, m)]
        PROVE  New
    <2>1. CASE t = Owner[d]
      <3>1. g = Append(q, m)
        BY <1>1, <1>3, <2>1
      <3>. HIDE DEF q, g
      <3>2. /\ Len(q) \in Nat /\ Len(g) = Len(q) + 1 /\ g[Len(q) + 1] = m
        BY <1>1, <3>1, AppendFacts
      <3>3. \A i \in 1..Len(g) : ~(i \in 1..Len(q)) => i = Len(q) + 1
        BY <3>2
      <3>. QED
        BY <1>3, <3>2, <3>3
    <2>2. CASE t # Owner[d]
      BY <1>1, <1>3, <2>2
    <2>. QED
      BY <2>1, <2>2
  <1>4. \A c \in Call : Shape(c)
    BY DEF Shaped
  <1>5. ASSUME NEW k \in Key, Write(k) PROVE run'[d] = run[d] /\ New
    BY <1>2, <1>5 DEF Write
  <1>6. ASSUME NEW k \in Key, PostWrite(k) PROVE run'[d] = run[d] /\ New
    <2>. DEFINE m == [type |-> "inv", key |-> k]
    <2>1. m \in Message /\ ~IsStart(m, d) /\ ~IsEnd(m, d) /\ Owner[k] \in Service
      BY GraphAssumption DEF Message, IsStart, IsEnd
    <2>2. WQ' = [WQ EXCEPT ![Owner[k]] = Append(@, m)] /\ run' = run
      BY <1>6 DEF PostWrite
    <2>. HIDE DEF m, New
    <2>. QED
      BY <1>3, <2>1, <2>2
  <1>7. ASSUME NEW c \in Call, ClientRequest(c)
        PROVE  \/ run'[d] = run[d] /\ New
               \/ run'[d].parent = None /\ g = q
    <2>1. run' = [run EXCEPT ![c] = [Asked(None, c) EXCEPT !.phase = "on"]] /\ g = q
      BY <1>7 DEF ClientRequest
    <2>2. CASE c = d
      BY <1>1, <2>1, <2>2 DEF Asked
    <2>3. CASE c # d
      BY <1>1, <1>2, <2>1, <2>3
    <2>. QED
      BY <2>2, <2>3
  <1>8. ASSUME NEW c \in Call, PreReqStart(c), c # d PROVE run'[d] = run[d] /\ New
    <2>. DEFINE m == [type |-> "start", call |-> c]
    <2>1. m \in Message /\ ~IsStart(m, d) /\ ~IsEnd(m, d) /\ Owner[c] \in Service
      BY <1>8, GraphAssumption DEF Message, IsStart, IsEnd
    <2>2. WQ' = [WQ EXCEPT ![Owner[c]] = Append(@, m)] /\ run' = [run EXCEPT ![c].phase = "on"]
      BY <1>8 DEF PreReqStart
    <2>3. run'[d] = run[d]
      BY <1>1, <1>8, <2>2
    <2>. HIDE DEF m, New
    <2>. QED
      BY <1>3, <2>1, <2>2, <2>3
  <1>9. ASSUME NEW c \in Call, PreReqEnd(c), c # d PROVE run'[d] = run[d] /\ New
    <2>1. CASE ByClient(c)
      <3>1. run' = [run EXCEPT ![c] = Idle] /\ WQ' = WQ
        BY <1>9, <2>1 DEF PreReqEnd
      <3>. QED
        BY <1>1, <1>2, <1>9, <3>1
    <2>2. CASE ~ByClient(c)
      <3>. DEFINE p == run[c].parent
                  m == [type |-> "end", call |-> c, caller |-> Owner[p],
                        used |-> run[c].used, val |-> run[c].got]
                  r == [run EXCEPT ![c] = Idle]
      <3>1. /\ p \in Call /\ run[c].got \in Value /\ run[c].used \in SUBSET Dep
        BY <1>1, <2>2 DEF ByClient, Run
      <3>2. p # d
        BY <1>4, <3>1 DEF Shape, Leaf
      <3>3. /\ WQ' = [WQ EXCEPT ![Owner[c]] = Append(@, m)]
            /\ run' = [r EXCEPT ![p] = Got(@, c, run[c].got, ByClient(p))]
        BY <1>9, <2>2 DEF PreReqEnd
      <3>4. m \in Message /\ ~IsStart(m, d) /\ ~IsEnd(m, d) /\ Owner[c] \in Service
        BY <1>9, <3>1, GraphAssumption DEF Message, IsStart, IsEnd
      <3>5. run'[d] = run[d]
        BY <1>1, <1>9, <3>2, <3>3
      <3>. HIDE DEF m, New, r, p
      <3>. QED
        BY <1>3, <3>3, <3>4, <3>5
    <2>. QED
      BY <2>1, <2>2
  <1>10. ASSUME NEW c \in Call, NEW k \in Key, GetState(c, k), c # d
         PROVE  run'[d] = run[d] /\ New
    BY <1>1, <1>2, <1>10 DEF GetState
  <1>11. ASSUME NEW c \in Call, NEW e \in Call, InvokeHit(c, e) PROVE run'[d] = run[d] /\ New
    <2>1. c # d
      BY <1>4, <1>11, LeafAsksNothing DEF InvokeHit
    <2>. QED
      BY <1>1, <1>2, <1>11, <2>1 DEF InvokeHit
  <1>12. ASSUME NEW c \in Call, NEW e \in Call, InvokeMiss(c, e)
         PROVE  \/ run'[d] = run[d] /\ New
                \/ run'[d].phase = "asked" /\ g = q
    <2>1. run' = [run EXCEPT ![e] = Asked(c, e)] /\ g = q
      BY <1>12 DEF InvokeMiss
    <2>2. CASE e = d
      BY <1>1, <2>1, <2>2 DEF Asked
    <2>3. CASE e # d
      BY <1>1, <1>2, <2>1, <2>3
    <2>. QED
      BY <2>2, <2>3
  <1>. HIDE DEF New
  <1>13. \/ run'[d] = run[d] /\ New
         \/ PreReqStart(d)
         \/ \E k \in Key : GetState(d, k)
         \/ PreReqEnd(d)
         \/ run'[d].phase = "asked" /\ g = q
         \/ run'[d].parent = None /\ g = q
    BY <1>5, <1>6, <1>7, <1>8, <1>9, <1>10, <1>11, <1>12, GraphAssumption
       DEF Writers, Clients, Handlers
  <1>. QED
    BY <1>13 DEF New

\* What a leaf call's end tells, and what its run has read.
LEMMA LeafRunFacts ==
    ASSUME Shaped, NEW d \in Call, Leaf(d), run[d].parent \in Call
    PROVE  run[d].used \subseteq Reads[d] /\ Reads[d] \subseteq Key
  BY GraphAssumption DEF Shaped, Shape

\* A leaf call ends: what it read goes to its manager as it stood.
LEMMA LeafEndStep ==
    ASSUME TypeInv, Shaped, NEW d \in Call, Leaf(d), PreReqEnd(d), ~ByClient(d)
    PROVE  /\ run'[d] = Idle
           /\ run[d].phase = "on" /\ run[d].parent \in Call /\ run[d].used = Reads[d]
           /\ Covers(run[d].got, Reads[d])
           /\ \E m \in Message :
                 /\ WQ'[Owner[d]] = Append(WQ[Owner[d]], m)
                 /\ m.type = "end" /\ m.call = d
                 /\ m.used = run[d].used /\ m.val = run[d].got
  <1>. DEFINE p == run[d].parent
              m == [type |-> "end", call |-> d, caller |-> Owner[p],
                    used |-> run[d].used, val |-> run[d].got]
              r == [run EXCEPT ![d] = Idle]
  <1>1. /\ run \in [Call -> Run] /\ WQ \in [Service -> Seq(Message)] /\ Owner[d] \in Service
      BY GraphAssumption DEF TypeInv, TypeOK
  <1>2. p \in Call /\ p # d /\ run[d].got \in Value /\ run[d].used \in SUBSET Dep
    BY <1>1 DEF Shaped, Shape, ByClient, Run
  <1>3. /\ WQ' = [WQ EXCEPT ![Owner[d]] = Append(@, m)]
        /\ run' = [r EXCEPT ![p] = Got(@, d, run[d].got, ByClient(p))]
        /\ run[d].phase = "on" /\ run[d].todo = {}
    BY DEF PreReqEnd, Active
  <1>4. m \in Message
    BY <1>2, GraphAssumption DEF Message
  <1>5. run'[d] = Idle
    BY <1>1, <1>2, <1>3
  <1>6. run[d].used = Reads[d] /\ Covers(run[d].got, Reads[d])
    <2>1. {} \cup run[d].used = Reads[d] /\ Covers(run[d].got, run[d].used)
      BY <1>2, <1>3 DEF Shaped, Shape
    <2>2. {} \cup run[d].used = run[d].used
      OBVIOUS
    <2>. QED
      BY <2>1, <2>2
  <1>. QED
    BY <1>1, <1>2, <1>3, <1>4, <1>5, <1>6

\* A handler reads a key.
LEMMA ReadFacts ==
    ASSUME TypeOK, NEW d \in Call, NEW k \in Key, GetState(d, k)
    PROVE  /\ run'[d].parent = run[d].parent
           /\ ~ByClient(d) => run'[d].used = run[d].used \cup {k}
           /\ run'[d].got = run[d].got \cup {<<k, db[k]>>}
  <1>1. k \in Dep /\ run[d] \in Run
    BY DEF TypeOK, Dep
  <1>. QED
    BY <1>1 DEF TypeOK, GetState, Got, ByClient, Run

\* The services' steps keep every judgement to come sound.
LEMMA ServicesJudge ==
    ASSUME TypeInv, Shaped, Writers \/ Clients \/ Handlers, NEW Old, NEW Unseen,
           AllJudged(Old, Unseen), \A c \in Call : PreReqEnd(c) => c \notin Unseen
    PROVE  AllJudged(Old, Unseen)'
  <1>. SUFFICES ASSUME NEW d \in Call, Leaf(d)
                PROVE  RunJudged(d, Old, Unseen)' /\ EndsJudged(d, Old)'
    BY DEF AllJudged, Leaf
  <1>. DEFINE q == WQ[Owner[d]]
              g == WQ'[Owner[d]]
  <1>1. RunJudged(d, Old, Unseen) /\ EndsJudged(d, Old)
    BY DEF AllJudged
  <1>2. /\ run \in [Call -> Run] /\ Owner[d] \in Service /\ q \in Seq(Message)
        /\ Reads[d] \subseteq Key
    BY GraphAssumption DEF TypeInv, TypeOK
  <1>3. /\ g \in Seq(Message) /\ Len(q) \in Nat /\ Len(g) \in Nat
        /\ Len(q) <= Len(g) /\ Len(g) <= Len(q) + 1
        /\ \A i \in 1..Len(q) : g[i] = q[i]
    BY <1>2, ServiceStep, AnnounceFacts
  <1>4. \A val, keys : keys \subseteq Reads[d] /\ Covers(val, keys) => Covers(val, keys)'
    BY <1>2, DbGrows DEF Next
  <1>5. ASSUME NEW j \in 1..Len(q), IsEnd(g[j], d)
        PROVE  /\ g[j].used = Reads[d]
               /\ Covers(q[j].val, Reads[d])'
               /\ Judged(j, d, q[j].val, q[j].used, Old)'
    <2>1. /\ q[j] = g[j] /\ q[j].used = Reads[d]
          /\ Covers(q[j].val, Reads[d])
          /\ Judged(j, d, q[j].val, q[j].used, Old)
      BY <1>1, <1>3, <1>5 DEF EndsJudged
    <2>2. PICK m : m = q[j]
      OBVIOUS
    <2>3. j \in 1..(Len(q) + 1) /\ j \in j..(Len(g) + 1) /\ \A i \in 1..Len(g) : ~(j <= i /\ i < j)
      BY <1>3
    <2>4. Judged(j, d, m.val, m.used, Old)'
      <3>. HIDE DEF q, g
      <3>. QED
        BY <2>1, <2>2, <2>3, ServiceJudged DEF q, g
    <2>5. Covers(m.val, Reads[d])'
      BY <1>4, <2>1, <2>2
    <2>6. g[j] = m
      BY <2>1, <2>2
    <2>. QED
      BY <2>1, <2>2, <2>4, <2>5, <2>6
  <1>6. CASE /\ run'[d] = run[d]
             /\ \A i \in 1..Len(g) : ~(i \in 1..Len(q)) => ~IsStart(g[i], d) /\ ~IsEnd(g[i], d)
    <2>1. EndsJudged(d, Old)'
      BY <1>5, <1>6 DEF EndsJudged
    <2>2. RunJudged(d, Old, Unseen)'
      <3>1. SUFFICES ASSUME run[d].phase = "on", run[d].parent \in Call, d \notin Unseen
                     PROVE  Judged(Len(q) + 1, d, run[d].got, run[d].used, Old)'
        BY <1>6 DEF RunJudged
      <3>2. PICK r : r = run[d]
        OBVIOUS
      <3>3. r.used \subseteq Reads[d] /\ Judged(Len(q) + 1, d, r.got, r.used, Old)
        BY <1>1, <3>1, <3>2, LeafRunFacts DEF RunJudged
      <3>4. /\ Len(q) + 1 \in 1..(Len(q) + 1) /\ Len(g) + 1 \in (Len(q) + 1)..(Len(g) + 1)
            /\ \A i \in 1..Len(g) : Len(q) + 1 <= i /\ i < Len(g) + 1 => ~(i \in 1..Len(q))
        BY <1>3
      <3>5. PICK n : n = Len(g) + 1
        OBVIOUS
      <3>6. Judged(n, d, r.got, r.used, Old)'
        <4>. HIDE DEF q, g
        <4>. QED
          BY <1>6, <3>3, <3>4, <3>5, ServiceJudged DEF q, g
      <3>7. run'[d] = r
        BY <1>6, <3>2
      <3>. QED
        BY <3>5, <3>6, <3>7 DEF Judged
    <2>. QED
      BY <2>1, <2>2
  <1>7. CASE PreReqStart(d)
    <2>. DEFINE m == [type |-> "start", call |-> d]
    <2>1. /\ run[d].phase = "asked" /\ run' = [run EXCEPT ![d].phase = "on"]
          /\ WQ' = [WQ EXCEPT ![Owner[d]] = Append(@, m)]
      BY <1>7 DEF PreReqStart
    <2>2. m \in Message /\ IsStart(m, d) /\ ~IsEnd(m, d)
      BY DEF Message, IsStart, IsEnd
    <2>3. g = Append(q, m)
      BY <1>2, <2>1 DEF TypeInv, TypeOK
    <2>. HIDE DEF m
    <2>4. /\ Len(g) = Len(q) + 1 /\ g[Len(g)] = m /\ g # <<>>
          /\ \A i \in 1..Len(g) : ~(i \in 1..Len(q)) => g[i] = m
      <3>. HIDE DEF q, g
      <3>1. Len(g) = Len(q) + 1 /\ g[Len(q) + 1] = m
        BY <1>2, <2>2, <2>3, AppendFacts DEF q
      <3>2. g # <<>>
        BY <1>3, <3>1
      <3>. QED
        BY <1>3, <3>1, <3>2
    <2>5. EndsJudged(d, Old)'
      BY <1>5, <2>2, <2>4 DEF EndsJudged
    <2>6. run'[d].used = {}
      BY <1>2, <2>1 DEF Shaped, Shape, Asked, Run
    <2>7. Overwritten(run[d].got, run[d].used)' = {}
      BY <2>6 DEF Overwritten
    <2>8. Sound(history'[Owner[d]], g, Len(g) + 1, d, {})
      BY <1>3, <2>2, <2>4, SoundStart
    <2>9. RunJudged(d, Old, Unseen)'
      BY <2>7, <2>8 DEF RunJudged, Judged
    <2>. QED
      BY <2>5, <2>9
  <1>8. ASSUME NEW k \in Key, GetState(d, k)
        PROVE  RunJudged(d, Old, Unseen)' /\ EndsJudged(d, Old)'
    <2>1. /\ k \in run[d].todo /\ run[d].phase = "on"
          /\ run' = [run EXCEPT ![d] = Got(@, k, {<<k, db[k]>>}, ByClient(d))]
          /\ UNCHANGED <<db, unsent, WQ, history>>
      BY <1>8 DEF GetState, Active, manager
    <2>2. EndsJudged(d, Old)'
      BY <1>5, <2>1 DEF EndsJudged
    <2>4. /\ run'[d].parent = run[d].parent
          /\ ~ByClient(d) => run'[d].used = run[d].used \cup {k}
          /\ run'[d].got = run[d].got \cup {<<k, db[k]>>}
      BY <1>8, ReadFacts DEF TypeInv
    <2>5. ASSUME run[d].parent \in Call, d \notin Unseen
          PROVE  Judged(Len(q) + 1, d, run[d].got, run[d].used, Old)'
      <3>1. /\ run'[d].used = run[d].used \cup {k}
            /\ run'[d].got = run[d].got \cup {<<k, db[k]>>}
        BY <2>4, <2>5, AbsenceAssumption DEF ByClient
      <3>2. \A x \in Overwritten(run[d].got, run[d].used)' : x \in Overwritten(run[d].got, run[d].used)
        BY <2>1, <3>1 DEF Overwritten
      <3>3. Judged(Len(q) + 1, d, run[d].got, run[d].used, Old)
        BY <1>1, <2>1, <2>5 DEF RunJudged
      <3>4. CASE Excused(d, run[d].got, Old)
        BY <3>1, <3>4 DEF Judged, Excused
      <3>5. CASE Sound(history[Owner[d]], q, Len(q) + 1, d, Overwritten(run[d].got, run[d].used))
        <4>1. Len(q) + 1 \in 1..(Len(q) + 1)
          BY <1>3
        <4>2. Sound(history[Owner[d]], q, Len(q) + 1, d, Overwritten(run[d].got, run[d].used)')
          BY <1>2, <3>2, <3>5, <4>1, SoundKeys
        <4>. QED
          BY <2>1, <4>2 DEF Judged
      <3>. QED
        BY <3>3, <3>4, <3>5 DEF Judged
    <2>. QED
      BY <2>2, <2>4, <2>5 DEF RunJudged
  <1>9. CASE PreReqEnd(d)
    <2>1. CASE ByClient(d)
      <3>1. g = q /\ run'[d] = Idle
        BY <1>2, <1>9, <2>1 DEF PreReqEnd
      <3>. QED
        BY <1>5, <3>1 DEF EndsJudged, RunJudged, Idle
    <2>2. CASE ~ByClient(d)
      <3>1. /\ run'[d] = Idle
            /\ run[d].phase = "on" /\ run[d].parent \in Call /\ run[d].used = Reads[d]
            /\ Covers(run[d].got, Reads[d])
        BY <1>9, <2>2, LeafEndStep
      <3>2. PICK m \in Message : /\ g = Append(q, m)
                                /\ m.type = "end" /\ m.call = d
                                /\ m.used = run[d].used /\ m.val = run[d].got
        BY <1>9, <2>2, LeafEndStep
      <3>3. /\ Len(g) = Len(q) + 1 /\ g[Len(q) + 1] = m
            /\ \A i \in 1..Len(g) : i \in 1..Len(q) \/ i = Len(q) + 1
        BY <1>2, <3>2, AppendFacts
      <3>4. Judged(Len(q) + 1, d, m.val, m.used, Old)
        BY <1>1, <1>9, <3>1, <3>2 DEF RunJudged
      <3>5. PICK n : n = Len(q) + 1
        OBVIOUS
      <3>6. n \in 1..(Len(q) + 1) /\ n \in n..(Len(g) + 1) /\ \A i \in 1..Len(g) : ~(n <= i /\ i < n)
        BY <1>3, <3>3, <3>5
      <3>7. Judged(n, d, m.val, m.used, Old)' /\ m.used = Reads[d]
        <4>. HIDE DEF q, g
        <4>. QED
          BY <3>1, <3>2, <3>4, <3>5, <3>6, ServiceJudged DEF q, g
      <3>8. Covers(m.val, Reads[d])'
        BY <1>4, <3>1, <3>2
      <3>9. EndsJudged(d, Old)'
        BY <1>5, <3>3, <3>5, <3>7, <3>8 DEF EndsJudged
      <3>. QED
        BY <3>1, <3>9 DEF RunJudged, Idle
    <2>. QED
      BY <2>1, <2>2
  <1>10. CASE (run'[d].phase = "asked" \/ run'[d].parent = None) /\ g = q
    BY <1>5, <1>10, AbsenceAssumption DEF EndsJudged, RunJudged
  <1>. QED
    BY <1>6, <1>7, <1>8, <1>9, <1>10, LeafRunStep
-----------------------------------------------------------------------------
\* What the managers do.

\* The history takes up what the head of the work queue was.
LEMMA ProcessHistory ==
    ASSUME TypeInv, NEW s \in Service, Process(s), NEW d
    PROVE  LET m == Head(WQ[s])
               h == history[s]
               f == history'[s]
           IN  /\ \A t \in Service : t # s => history'[t] = history[t]
               /\ ~IsEnd(m, d) /\ StartsOf(h, d) # {} =>
                     /\ StartsOf(f, d) # {}
                     /\ ~IsStart(m, d) => InvalidatedSince(h, d) \subseteq InvalidatedSince(f, d)
               /\ IsStart(m, d) => StartsOf(f, d) # {}
               /\ \A k : IsInv(m, k) => k \in InvalidatedSince(f, d)
  <1>. DEFINE m == Head(WQ[s])
              h == history[s]
              f == history'[s]
  <1>1. h \in Seq(HistoryItem) /\ history \in [Service -> Seq(HistoryItem)]
    BY DEF TypeInv, TypeOK
  <1>2. CASE ProcessStart(s)
    <2>1. m \in Message /\ m.type = "start"
      BY <1>2, TakeFacts DEF TypeInv, ProcessStart
    <2>2. history' = [history EXCEPT ![s] = AppendCall(h, m.call)] /\ m.call \in Call
      BY <1>2, <2>1, MessageFacts DEF ProcessStart
    <2>3. f = AppendCall(h, m.call) /\ \A t \in Service : t # s => history'[t] = history[t]
      BY <1>1, <2>2
    <2>4. \A k : ~IsInv(m, k)
      BY <2>1 DEF IsInv
    <2>. HIDE DEF m, h, f
    <2>5. /\ m.call = d => StartsOf(f, d) # {}
          /\ m.call # d =>
                StartsOf(f, d) = StartsOf(h, d) /\ InvalidatedSince(f, d) = InvalidatedSince(h, d)
      BY ZenonT(40), <1>1, <2>2, <2>3, HistoryFacts
    <2>. QED
      BY <2>1, <2>3, <2>4, <2>5 DEF IsStart, m, h, f
  <1>3. CASE ProcessEnd(s)
    <2>1. m \in Message /\ m.type = "end"
      BY <1>3, TakeFacts DEF TypeInv, ProcessEnd
    <2>2. PICK g \in Forgotten(h, m.call) : history' = [history EXCEPT ![s] = g]
      BY <1>3 DEF ProcessEnd
    <2>3. f = g /\ \A t \in Service : t # s => history'[t] = history[t]
      BY <1>1, <2>2
    <2>4. (\A k : ~IsInv(m, k)) /\ ~IsStart(m, d) /\ (~IsEnd(m, d) => m.call # d)
      BY <2>1 DEF IsInv, IsStart, IsEnd
    <2>. HIDE DEF m, h, f
    <2>5. d # m.call /\ StartsOf(h, d) # {} =>
             StartsOf(f, d) # {} /\ InvalidatedSince(f, d) = InvalidatedSince(h, d)
      BY <1>1, <2>3, HistoryFacts
    <2>. QED
      BY <2>3, <2>4, <2>5 DEF m, h, f
  <1>4. CASE ProcessInvalidateKey(s)
    <2>1. m \in Message /\ m.type = "inv"
      BY <1>4, TakeFacts DEF TypeInv, ProcessInvalidateKey
    <2>2. history' = [history EXCEPT ![s] = AppendWrite(h, m.key)] /\ m.key \in Key
      BY <1>4, <2>1, MessageFacts DEF ProcessInvalidateKey
    <2>3. f = AppendWrite(h, m.key) /\ \A t \in Service : t # s => history'[t] = history[t]
      BY <1>1, <2>2
    <2>4. ~IsStart(m, d) /\ (\A k : IsInv(m, k) => k = m.key)
      BY <2>1 DEF IsInv, IsStart
    <2>. HIDE DEF m, h, f
    <2>5. StartsOf(f, d) = StartsOf(h, d) /\ InvalidatedSince(f, d) = InvalidatedSince(h, d) \cup {m.key}
      <3>1. \A k \in Key :
               /\ StartsOf(AppendWrite(h, k), d) = StartsOf(h, d)
               /\ InvalidatedSince(AppendWrite(h, k), d) = InvalidatedSince(h, d) \cup {k}
        BY ZenonT(40), <1>1, HistoryFacts
      <3>. QED
        BY <2>2, <2>3, <3>1
    <2>. QED
      BY <2>3, <2>4, <2>5 DEF m, h, f
  <1>5. CASE ProcessInvalidateCalls(s)
    <2>1. m \in Message /\ m.type = "invcalls"
      BY <1>5, TakeFacts DEF TypeInv, ProcessInvalidateCalls
    <2>2. PICK calls \in SetToSeqs(m.calls) :
             history' = [history EXCEPT ![s] = AppendInvCalls(h, calls)]
      BY <1>5 DEF ProcessInvalidateCalls
    <2>3. m.calls \in (SUBSET Call) \ {{}}
      BY <2>1, MessageFacts
    <2>4. f = AppendInvCalls(h, calls) /\ \A t \in Service : t # s => history'[t] = history[t]
      BY <1>1, <2>2
    <2>5. (\A k : ~IsInv(m, k)) /\ ~IsStart(m, d)
      BY <2>1 DEF IsInv, IsStart
    <2>. HIDE DEF m, h, f
    <2>6. StartsOf(f, d) = StartsOf(h, d) /\ InvalidatedSince(h, d) \subseteq InvalidatedSince(f, d)
      BY <1>1, <2>3, <2>4, InvCallsFacts
    <2>. QED
      BY <2>4, <2>5, <2>6 DEF m, h, f
  <1>6. CASE ProcessSave(s)
    <2>1. m.type = "save" /\ history' = history
      BY <1>6, TakeFacts DEF TypeInv, ProcessSave
    <2>2. (\A k : ~IsInv(m, k)) /\ ~IsStart(m, d)
      BY <2>1 DEF IsInv, IsStart
    <2>. QED
      BY <2>1, <2>2
  <1>. QED
    BY <1>2, <1>3, <1>4, <1>5, <1>6 DEF Process

\* What is left of the work queues.
LEMMA ProcessTakes ==
    ASSUME TypeInv, NEW s \in Service, Process(s)
    PROVE  /\ UNCHANGED <<db, unsent, run, requests, buffer, batch>>
           /\ WQ[s] \in Seq(Message) /\ WQ[s] # <<>>
           /\ WQ'[s] = Tail(WQ[s])
           /\ \A t \in Service : t # s => WQ'[t] = WQ[t]
  <1>1. UNCHANGED <<app, sender>> /\ \E type : Take(s, type)
    BY DEF Process, ProcessStart, ProcessEnd, ProcessInvalidateKey, ProcessInvalidateCalls,
           ProcessSave
  <1>. QED
    BY <1>1, TakeFacts DEF TypeInv, app, sender

LEMMA JudgedTail ==
    ASSUME TypeInv, NEW s \in Service, Process(s), NEW d \in Call, Owner[d] = s,
           NEW val, NEW used, NEW Old, NEW j \in 2..(Len(WQ[s]) + 1),
           Judged(j, d, val, used, Old)
    PROVE  Judged(j - 1, d, val, used, Old)'
  <1>. DEFINE q == WQ[s]
              h == history[s]
              f == history'[s]
              keys == Overwritten(val, used)
  <1>1. CASE Excused(d, val, Old)
    BY <1>1 DEF Judged, Excused
  <1>2. CASE Sound(h, q, j, d, keys)
    <2>1. q \in Seq(Message) /\ q # <<>> /\ WQ'[s] = Tail(q) /\ UNCHANGED <<db, unsent>>
      BY ProcessTakes
    <2>2. /\ ~IsEnd(Head(q), d) /\ StartsOf(h, d) # {} =>
                /\ StartsOf(f, d) # {}
                /\ ~IsStart(Head(q), d) => InvalidatedSince(h, d) \subseteq InvalidatedSince(f, d)
          /\ IsStart(Head(q), d) => StartsOf(f, d) # {}
          /\ \A k : IsInv(Head(q), k) => k \in InvalidatedSince(f, d)
      BY ProcessHistory
    <2>3. keys' = keys
      BY <2>1 DEF Overwritten
    <2>4. Sound(f, Tail(q), j - 1, d, keys)
      <3>. HIDE DEF q, h, f, keys
      <3>. QED
        BY <1>2, <2>1, <2>2, SoundTail DEF q
    <2>. QED
      BY <2>1, <2>3, <2>4 DEF Judged
  <1>. QED
    BY <1>1, <1>2 DEF Judged

\* A flush adds to every work queue what the sender posts to it.
LEMMA FlushAdds ==
    ASSUME TypeInv, NEW s \in Service, Flush(s), NEW t \in Service
    PROVE  LET q == WQ[t]
               g == WQ'[t]
               p == Posts(buffer[s], t)
           IN  /\ UNCHANGED <<db, unsent, run, history, deps, cache, HttpQueue>>
               /\ q \in Seq(Message) /\ g \in Seq(Message) /\ p \in Seq(Message)
               /\ Len(q) \in Nat /\ Len(p) \in Nat
               /\ Len(g) = Len(q) + Len(p)
               /\ \A i \in 1..Len(q) : g[i] = q[i]
               /\ \A i \in 1..Len(p) : g[Len(q) + i] = p[i] /\ p[i].type \in {"invcalls", "save"}
               /\ \A i \in 1..Len(g) : i \in 1..Len(q) \/ i - Len(q) \in 1..Len(p)
  <1>1. /\ WQ[t] \in Seq(Message) /\ buffer[s] \in Buffer
        /\ WQ'[t] = WQ[t] \o Posts(buffer[s], t)
        /\ UNCHANGED <<db, unsent, run, history, deps, cache, HttpQueue>>
    BY DEF TypeInv, TypeOK, Flush, app, manager
  <1>2. PICK p : p = Posts(buffer[s], t)
    OBVIOUS
  <1>3. PICK q : q = WQ[t]
    OBVIOUS
  <1>4. /\ p \in Seq(Message)
        /\ \A i \in 1..Len(p) : p[i].type \in {"invcalls", "save"}
    BY <1>1, <1>2, PostsFacts
  <1>5. q \in Seq(Message) /\ WQ'[t] = q \o p
    BY <1>1, <1>2, <1>3
  <1>6. /\ q \o p \in Seq(Message)
        /\ Len(q \o p) = Len(q) + Len(p)
        /\ Len(q) \in Nat /\ Len(p) \in Nat
        /\ \A i \in 1..Len(q) + Len(p) : (q \o p)[i] = IF i <= Len(q) THEN q[i] ELSE p[i - Len(q)]
    BY <1>4, <1>5, ConcatProperties
  <1>7. /\ \A i \in 1..Len(q) : (q \o p)[i] = q[i]
        /\ \A i \in 1..Len(p) : (q \o p)[Len(q) + i] = p[i]
    BY <1>6
  <1>8. \A i \in 1..(Len(q) + Len(p)) : i \in 1..Len(q) \/ i - Len(q) \in 1..Len(p)
    BY <1>6
  <1>. QED
    BY <1>1, <1>2, <1>3, <1>4, <1>5, <1>6, <1>7, <1>8

\* The managers' steps keep every judgement to come sound.
LEMMA ManagersJudge ==
    ASSUME TypeInv, Managers, NEW Old, NEW Unseen, AllJudged(Old, Unseen)
    PROVE  AllJudged(Old, Unseen)'
  <1>. SUFFICES ASSUME NEW d \in Call, Leaf(d)
                PROVE  RunJudged(d, Old, Unseen)' /\ EndsJudged(d, Old)'
    BY DEF AllJudged, Leaf
  <1>. DEFINE q == WQ[Owner[d]]
              g == WQ'[Owner[d]]
  <1>1. RunJudged(d, Old, Unseen) /\ EndsJudged(d, Old)
    BY DEF AllJudged
  <1>2. Owner[d] \in Service /\ q \in Seq(Message)
    BY GraphAssumption DEF TypeInv, TypeOK
  <1>3. ASSUME UNCHANGED <<db, unsent, run>>, g = q, history'[Owner[d]] = history[Owner[d]]
        PROVE  RunJudged(d, Old, Unseen)' /\ EndsJudged(d, Old)'
    BY <1>1, <1>3 DEF RunJudged, EndsJudged, Judged, Excused, Covers, Overwritten
  <1>4. ASSUME NEW s \in Service, Receive(s)
        PROVE  RunJudged(d, Old, Unseen)' /\ EndsJudged(d, Old)'
    BY <1>3, <1>4 DEF Receive, app, manager
  <1>5. ASSUME NEW s \in Service, Process(s)
        PROVE  RunJudged(d, Old, Unseen)' /\ EndsJudged(d, Old)'
    <2>1. /\ UNCHANGED <<db, unsent, run>>
          /\ WQ[s] \in Seq(Message) /\ WQ[s] # <<>>
          /\ WQ'[s] = Tail(WQ[s])
          /\ \A t \in Service : t # s => WQ'[t] = WQ[t] /\ history'[t] = history[t]
      BY <1>5, ProcessTakes, ProcessHistory
    <2>2. CASE Owner[d] # s
      BY <1>2, <1>3, <2>1, <2>2
    <2>3. CASE Owner[d] = s
      <3>1. /\ q # <<>> /\ Len(q) \in Nat \ {0} /\ Len(g) = Len(q) - 1
            /\ \A i \in 1..Len(g) : g[i] = q[i + 1] /\ i + 1 \in 1..Len(q)
        <4>1. g = Tail(q) /\ q # <<>> /\ q \in Seq(Message)
          BY <2>1, <2>3
        <4>. HIDE DEF q, g
        <4>2. /\ Len(q) \in Nat \ {0} /\ Len(g) = Len(q) - 1
              /\ \A i \in 1..Len(g) : g[i] = q[i + 1]
          BY <4>1, TailFacts
        <4>. QED
          BY <4>1, <4>2
      <3>2. EndsJudged(d, Old)'
        <4>1. SUFFICES ASSUME NEW i \in 1..Len(g), IsEnd(g[i], d), NEW m, m = g[i]
                       PROVE  /\ m.used = Reads[d]
                              /\ Covers(m.val, Reads[d])'
                              /\ Judged(i, d, m.val, m.used, Old)'
          BY DEF EndsJudged
        <4>3. PICK j \in 2..(Len(q) + 1) : j = i + 1
          BY <3>1
        <4>4. j \in 1..Len(q) /\ q[j] = m /\ i = j - 1
          BY <3>1, <4>1, <4>3
        <4>5. m.used = Reads[d] /\ Covers(m.val, Reads[d]) /\ Judged(j, d, m.val, m.used, Old)
          BY <1>1, <4>1, <4>4 DEF EndsJudged
        <4>6. Judged(j - 1, d, m.val, m.used, Old)'
          BY <1>5, <2>3, <4>3, <4>5, JudgedTail
        <4>7. Covers(m.val, Reads[d])'
          BY <2>1, <4>5 DEF Covers
        <4>. QED
          BY <4>4, <4>5, <4>6, <4>7
      <3>3. RunJudged(d, Old, Unseen)'
        <4>1. SUFFICES ASSUME run[d].phase = "on", run[d].parent \in Call, d \notin Unseen,
                              NEW r, r = run[d], NEW n, n = Len(g) + 1
                       PROVE  Judged(n, d, r.got, r.used, Old)'
          BY <2>1 DEF RunJudged
        <4>3. PICK j \in 2..(Len(q) + 1) : j = Len(q) + 1
          BY <3>1
        <4>4. Judged(j, d, r.got, r.used, Old)
          BY <1>1, <4>1, <4>3 DEF RunJudged
        <4>5. Judged(j - 1, d, r.got, r.used, Old)'
          BY <1>5, <2>3, <4>3, <4>4, JudgedTail
        <4>6. j - 1 = n
          BY <3>1, <4>1, <4>3
        <4>. QED
          BY <4>5, <4>6
      <3>. QED
        BY <3>2, <3>3
    <2>. QED
      BY <2>2, <2>3
  <1>6. ASSUME NEW s \in Service, Flush(s)
        PROVE  RunJudged(d, Old, Unseen)' /\ EndsJudged(d, Old)'
    <2>1. /\ UNCHANGED <<db, unsent, run, history>>
          /\ g \in Seq(Message) /\ Len(q) \in Nat /\ Len(g) \in Nat
          /\ Len(q) <= Len(g)
          /\ \A i \in 1..Len(q) : g[i] = q[i]
          /\ \A i \in 1..Len(g) : ~(i \in 1..Len(q)) => ~IsStart(g[i], d) /\ ~IsEnd(g[i], d)
      <3>. DEFINE p == Posts(buffer[s], Owner[d])
      <3>1. /\ UNCHANGED <<db, unsent, run, history>>
            /\ g \in Seq(Message)
            /\ Len(q) \in Nat /\ Len(p) \in Nat /\ Len(g) = Len(q) + Len(p)
            /\ \A i \in 1..Len(q) : g[i] = q[i]
            /\ \A i \in 1..Len(p) : g[Len(q) + i] = p[i] /\ p[i].type \in {"invcalls", "save"}
            /\ \A i \in 1..Len(g) : i \in 1..Len(q) \/ i - Len(q) \in 1..Len(p)
        BY <1>2, <1>6, FlushAdds
      <3>. HIDE DEF p, q, g
      <3>2. ASSUME NEW i \in 1..Len(g), ~(i \in 1..Len(q))
            PROVE  ~IsStart(g[i], d) /\ ~IsEnd(g[i], d)
        <4>1. i - Len(q) \in 1..Len(p) /\ Len(q) + (i - Len(q)) = i
          BY <3>1, <3>2
        <4>2. g[i].type \in {"invcalls", "save"}
          BY <3>1, <4>1
        <4>. QED
          BY <4>2 DEF IsStart, IsEnd
      <3>. QED
        BY <3>1, <3>2
    <2>2. ASSUME NEW j \in 1..(Len(q) + 1), NEW n \in j..(Len(g) + 1),
                 \A i \in 1..Len(g) : j <= i /\ i < n => ~(i \in 1..Len(q)),
                 NEW val, NEW used, Judged(j, d, val, used, Old)
          PROVE  Judged(n, d, val, used, Old)'
      <3>1. CASE Excused(d, val, Old)
        BY <3>1 DEF Judged, Excused
      <3>2. CASE Sound(history[Owner[d]], q, j, d, Overwritten(val, used))
        <4>1. Sound(history[Owner[d]], g, n, d, Overwritten(val, used))
          <5>. HIDE DEF q, g
          <5>. QED
            BY <1>2, <2>1, <2>2, <3>2, SoundExtend
        <4>. QED
          BY <2>1, <4>1 DEF Judged, Overwritten
      <3>. QED
        BY <2>2, <3>1, <3>2 DEF Judged
    <2>3. EndsJudged(d, Old)'
      <3>1. SUFFICES ASSUME NEW i \in 1..Len(g), IsEnd(g[i], d), NEW m, m = g[i]
                     PROVE  /\ m.used = Reads[d]
                            /\ Covers(m.val, Reads[d])'
                            /\ Judged(i, d, m.val, m.used, Old)'
        BY DEF EndsJudged
      <3>3. i \in 1..Len(q) /\ q[i] = m
        BY <2>1, <3>1
      <3>4. m.used = Reads[d] /\ Covers(m.val, Reads[d]) /\ Judged(i, d, m.val, m.used, Old)
        BY <1>1, <3>1, <3>3 DEF EndsJudged
      <3>5. i \in 1..(Len(q) + 1) /\ i \in i..(Len(g) + 1) /\ \A x \in 1..Len(g) : ~(i <= x /\ x < i)
        BY <2>1, <3>3
      <3>6. Judged(i, d, m.val, m.used, Old)'
        <4>. HIDE DEF q, g
        <4>. QED
          BY <2>2, <3>4, <3>5
      <3>7. Covers(m.val, Reads[d])'
        BY <2>1, <3>4 DEF Covers
      <3>. QED
        BY <3>4, <3>6, <3>7
    <2>4. RunJudged(d, Old, Unseen)'
      <3>1. SUFFICES ASSUME run[d].phase = "on", run[d].parent \in Call, d \notin Unseen,
                            NEW r, r = run[d], NEW n, n = Len(g) + 1
                     PROVE  Judged(n, d, r.got, r.used, Old)'
        BY <2>1 DEF RunJudged
      <3>3. PICK j \in 1..(Len(q) + 1) : j = Len(q) + 1
        <4>1. Len(q) + 1 \in 1..(Len(q) + 1)
          BY <2>1
        <4>. QED
          BY <4>1, Zenon
      <3>4. n \in j..(Len(g) + 1)
        BY <2>1, <3>1, <3>3
      <3>5. Judged(j, d, r.got, r.used, Old)
        BY <1>1, <3>1, <3>3 DEF RunJudged
      <3>6. \A i \in 1..Len(g) : j <= i /\ i < n => ~(i \in 1..Len(q))
        BY <2>1, <3>3
      <3>. HIDE DEF q, g
      <3>. QED
        BY <2>2, <3>4, <3>5, <3>6
    <2>. QED
      BY <2>3, <2>4
  <1>. QED
    BY <1>4, <1>5, <1>6 DEF Managers

-----------------------------------------------------------------------------
\* Every word stays with the manager of the service that answers the call.

LEMMA HomeInit == Init => Home
  <1>. SUFFICES ASSUME Init, NEW t \in Service PROVE AtHome(t)
    BY DEF Home
  <1>1. WQ[t] = <<>> /\ HttpQueue[t] = <<>> /\ deps[t] = NoDeps /\ buffer[t] = Empty
    BY DEF Init
  <1>2. Len(WQ[t]) = 0 /\ Len(HttpQueue[t]) = 0
    BY <1>1
  <1>3. Buffered(Empty) = {} /\ \A x \in Dep : NoDeps[x] = {}
    BY DEF Buffered, Saved, Empty, NoDeps
  <1>. QED
    BY <1>1, <1>2, <1>3 DEF AtHome

\* A queue that only loses its head, or gains a message at home, is at home.
LEMMA HomeQueue ==
    ASSUME NEW q \in Seq(Message), NEW t,
           \A i \in 1..Len(q) : q[i].type = "end" => Owner[q[i].call] = t
    PROVE  /\ q # <<>> => \A i \in 1..Len(Tail(q)) :
                             Tail(q)[i].type = "end" => Owner[Tail(q)[i].call] = t
           /\ \A m \in Message :
                 (m.type = "end" => Owner[m.call] = t) =>
                    \A i \in 1..Len(Append(q, m)) :
                       Append(q, m)[i].type = "end" => Owner[Append(q, m)[i].call] = t
  <1>1. ASSUME q # <<>>, NEW i \in 1..Len(Tail(q))
        PROVE  Tail(q)[i].type = "end" => Owner[Tail(q)[i].call] = t
    <2>1. i + 1 \in 1..Len(q) /\ Tail(q)[i] = q[i + 1]
      BY <1>1, TailFacts
    <2>. QED
      BY <2>1
  <1>2. ASSUME NEW m \in Message, m.type = "end" => Owner[m.call] = t,
               NEW i \in 1..Len(Append(q, m))
        PROVE  Append(q, m)[i].type = "end" => Owner[Append(q, m)[i].call] = t
    <2>1. \/ i \in 1..Len(q) /\ Append(q, m)[i] = q[i]
          \/ Append(q, m)[i] = m
      BY AppendFacts
    <2>. QED
      BY <1>2, <2>1
  <1>. QED
    BY <1>1, <1>2

LEMMA HomeServices == TypeInv /\ Home /\ (Writers \/ Clients \/ Handlers) => Home'
  <1>. SUFFICES ASSUME TypeInv, Home, Writers \/ Clients \/ Handlers, NEW t \in Service
                PROVE  AtHome(t)'
    BY DEF Home
  <1>1. AtHome(t) /\ WQ \in [Service -> Seq(Message)]
    BY DEF Home, TypeInv, TypeOK
  <1>2. UNCHANGED <<deps, HttpQueue, buffer>>
    BY ServiceStep
  <1>3. UNCHANGED WQ => AtHome(t)'
    BY <1>1, <1>2 DEF AtHome
  <1>4. ASSUME NEW u \in Service, NEW m \in Message, m.type = "end" => Owner[m.call] = u,
               WQ' = [WQ EXCEPT ![u] = Append(@, m)]
        PROVE  AtHome(t)'
    <2>1. CASE u = t
      <3>1. WQ'[t] = Append(WQ[t], m)
        BY <1>1, <1>4, <2>1
      <3>2. \A i \in 1..Len(WQ'[t]) : WQ'[t][i].type = "end" => Owner[WQ'[t][i].call] = t
        BY <1>1, <1>4, <2>1, <3>1, HomeQueue DEF AtHome
      <3>. QED
        BY <1>1, <1>2, <3>2 DEF AtHome
    <2>2. CASE u # t
      BY <1>1, <1>2, <1>4, <2>2 DEF AtHome
    <2>. QED
      BY <2>1, <2>2
  <1>5. ASSUME NEW k \in Key, PostWrite(k) PROVE AtHome(t)'
    <2>1. [type |-> "inv", key |-> k] \in Message /\ Owner[k] \in Service
      BY GraphAssumption DEF Message
    <2>. QED
      BY <1>4, <1>5, <2>1 DEF PostWrite
  <1>6. ASSUME NEW c \in Call, PreReqStart(c) PROVE AtHome(t)'
    <2>1. [type |-> "start", call |-> c] \in Message /\ Owner[c] \in Service
      BY GraphAssumption DEF Message
    <2>. QED
      BY <1>4, <1>6, <2>1 DEF PreReqStart
  <1>7. ASSUME NEW c \in Call, PreReqEnd(c) PROVE AtHome(t)'
    <2>1. CASE ByClient(c)
      BY <1>3, <1>7, <2>1 DEF PreReqEnd
    <2>2. CASE ~ByClient(c)
      <3>. DEFINE m == [type |-> "end", call |-> c, caller |-> Owner[run[c].parent],
                        used |-> run[c].used, val |-> run[c].got]
      <3>1. run[c].parent \in Call /\ run[c].got \in Value /\ run[c].used \in SUBSET Dep
        BY <2>2 DEF ByClient, Run, TypeInv, TypeOK
      <3>2. m \in Message /\ m.call = c /\ Owner[c] \in Service
        BY <3>1, GraphAssumption DEF Message
      <3>3. WQ' = [WQ EXCEPT ![Owner[c]] = Append(@, m)]
        BY <1>7, <2>2 DEF PreReqEnd
      <3>. HIDE DEF m
      <3>. QED
        BY <1>4, <3>2, <3>3
    <2>. QED
      BY <2>1, <2>2
  <1>8. (Clients \/ (\E k \in Key : Write(k)) \/ (\E c \in Call, k \in Key : GetState(c, k))
           \/ (\E c, d \in Call : InvokeHit(c, d) \/ InvokeMiss(c, d))) => AtHome(t)'
    BY <1>3 DEF Clients, ClientRequest, Write, GetState, InvokeHit, InvokeMiss
  <1>. QED
    BY <1>5, <1>6, <1>7, <1>8 DEF Writers, Handlers

\* Invalidated names leave the index, and the lines found under them are told.
Tells(s, names) ==
    /\ \A t \in Service : t # s => deps'[t] = deps[t] /\ HttpQueue'[t] = HttpQueue[t]
    /\ \A x \in Dep : deps'[s][x] = IF x \in names THEN {} ELSE deps[s][x]
    /\ \/ /\ HttpQueue'[s] = HttpQueue[s]
          /\ \A x \in names : deps[s][x] = {}
       \/ \E r \in Request :
             /\ HttpQueue'[s] = Append(HttpQueue[s], r)
             /\ r.val = NoVal
             /\ \A e : e \in r.entries <=> \E x \in names : e \in deps[s][x]

LEMMA Invalidates ==
    ASSUME TypeOK, NEW s \in Service, NEW names \in SUBSET Dep,
           NEW entries, entries = Popped(deps[s], names),
           deps' = [deps EXCEPT ![s] = PopDeps(deps[s], names)],
           SendInvsToCallers(s, entries)
    PROVE  Tells(s, names)
  <1>1. entries \in SUBSET Entry /\ \A e : e \in entries <=> \E x \in names : e \in deps[s][x]
    BY DepsFacts DEF Popped
  <1>2. /\ \A t \in Service : t # s => deps'[t] = deps[t]
        /\ \A x \in Dep : deps'[s][x] = IF x \in names THEN {} ELSE deps[s][x]
    BY DEF TypeOK, PopDeps
  <1>3. CASE entries = {}
    BY <1>1, <1>2, <1>3 DEF SendInvsToCallers, Tells
  <1>4. CASE entries # {}
    <2>. DEFINE r == [save |-> FALSE, entries |-> entries, val |-> NoVal]
    <2>1. r \in Request /\ r.val = NoVal /\ r.entries = entries
      BY <1>1 DEF Request
    <2>2. Send(s, r)
      BY <1>4 DEF SendInvsToCallers
    <2>. HIDE DEF r
    <2>3. /\ HttpQueue'[s] = Append(HttpQueue[s], r)
          /\ \A t \in Service : t # s => HttpQueue'[t] = HttpQueue[t]
      BY <2>1, <2>2, SendFacts
    <2>. QED
      BY <1>1, <1>2, <2>1, <2>3 DEF Tells
  <1>. QED
    BY <1>3, <1>4

\* The end of a valid run is indexed under what the run used, and told.
LEMMA EndSends ==
    ASSUME TypeOK, NEW s \in Service, ProcessEnd(s)
    PROVE  LET m == Head(WQ[s])
           IN  /\ \A t \in Service : t # s => deps'[t] = deps[t] /\ HttpQueue'[t] = HttpQueue[t]
               /\ m \in Message /\ m.type = "end" /\ m.call \in Call /\ m.val \in Value
               /\ \/ /\ ~ValidCall(history[s], m.call, m.used)
                     /\ HttpQueue'[s] = HttpQueue[s]
                     /\ deps'[s] = deps[s]
                  \/ \E r \in Request :
                        /\ ValidCall(history[s], m.call, m.used)
                        /\ HttpQueue'[s] = Append(HttpQueue[s], r)
                        /\ r.val = m.val
                        /\ r.entries = {<<m.caller, m.call>>}
                        /\ \A x \in Dep : deps'[s][x] =
                              IF x \in m.used THEN deps[s][x] \cup {<<m.caller, m.call>>}
                              ELSE deps[s][x]
  <1>1. PICK m : m = Head(WQ[s])
    OBVIOUS
  <1>2. /\ m \in Message /\ m.type = "end" /\ m.call \in Call /\ m.val \in Value
        /\ m.caller \in Service
    BY <1>1, TakeFacts, MessageFacts DEF ProcessEnd
  <1>3. CASE ValidCall(history[s], m.call, m.used)
    <2>. DEFINE r == [save |-> TRUE, entries |-> {<<m.caller, m.call>>}, val |-> m.val]
    <2>1. r \in Request /\ r.val = m.val /\ r.entries = {<<m.caller, m.call>>}
      BY <1>2 DEF Request, Entry
    <2>2. Send(s, r) /\ deps' = [deps EXCEPT ![s] = StoreDeps(@, <<m.caller, m.call>>, m.used)]
      BY <1>1, <1>3 DEF ProcessEnd
    <2>. HIDE DEF r
    <2>3. /\ HttpQueue'[s] = Append(HttpQueue[s], r)
          /\ \A t \in Service : t # s => HttpQueue'[t] = HttpQueue[t]
      BY <2>1, <2>2, SendFacts
    <2>4. /\ \A t \in Service : t # s => deps'[t] = deps[t]
          /\ \A x \in Dep : deps'[s][x] =
                IF x \in m.used THEN deps[s][x] \cup {<<m.caller, m.call>>} ELSE deps[s][x]
      BY <2>2 DEF TypeOK, StoreDeps
    <2>. QED
      BY <1>1, <1>2, <1>3, <2>1, <2>3, <2>4
  <1>4. CASE ~ValidCall(history[s], m.call, m.used)
    <2>1. UNCHANGED <<HttpQueue, deps>>
      BY <1>1, <1>4 DEF ProcessEnd
    <2>. QED
      BY <1>1, <1>2, <1>4, <2>1
  <1>. QED
    BY <1>3, <1>4

\* Whatever a manager indexes or tells is about calls of its own service.
LEMMA HomeProcess == TypeInv /\ Home /\ (\E s \in Service : Process(s)) => Home'
  <1>. SUFFICES ASSUME TypeInv, Home, NEW s \in Service, Process(s), NEW t \in Service
                PROVE  AtHome(t)'
    BY DEF Home
  <1>1. /\ AtHome(t) /\ AtHome(s)
        /\ \A u \in Service : WQ[u] \in Seq(Message) /\ HttpQueue[u] \in Seq(Request)
    BY DEF Home, TypeInv, TypeOK
  <1>2. /\ UNCHANGED buffer /\ WQ[s] \in Seq(Message) /\ WQ[s] # <<>>
        /\ WQ'[s] = Tail(WQ[s]) /\ \A u \in Service : u # s => WQ'[u] = WQ[u]
    BY ProcessTakes
  <1>3. /\ \A i \in 1..Len(WQ'[t]) : WQ'[t][i].type = "end" => Owner[WQ'[t][i].call] = t
        /\ Head(WQ[s]).type = "end" => Owner[Head(WQ[s]).call] = s
    <2>1. \A i \in 1..Len(Tail(WQ[s])) :
             Tail(WQ[s])[i].type = "end" => Owner[Tail(WQ[s])[i].call] = s
      BY <1>1, <1>2, HomeQueue DEF AtHome
    <2>2. Head(WQ[s]) = WQ[s][1] /\ 1 \in 1..Len(WQ[s])
      BY <1>2, TailFacts
    <2>3. Head(WQ[s]).type = "end" => Owner[Head(WQ[s]).call] = s
      BY <1>1, <2>2 DEF AtHome
    <2>4. \A i \in 1..Len(WQ[t]) : WQ[t][i].type = "end" => Owner[WQ[t][i].call] = t
      BY <1>1 DEF AtHome
    <2>. QED
      BY ZenonT(40), <1>2, <2>1, <2>3, <2>4
  <1>4. ASSUME deps'[t] = deps[t], HttpQueue'[t] = HttpQueue[t] PROVE AtHome(t)'
    BY <1>1, <1>2, <1>3, <1>4 DEF AtHome
  <1>5. ASSUME \A x \in Dep : \A e \in deps'[s][x] : Owner[e[2]] = s,
               \/ HttpQueue'[s] = HttpQueue[s]
               \/ \E r \in Request : /\ HttpQueue'[s] = Append(HttpQueue[s], r)
                                    /\ \A e \in r.entries : Owner[e[2]] = s,
               t = s
        PROVE  AtHome(t)'
    <2>1. \A i \in 1..Len(HttpQueue'[s]) : \A e \in HttpQueue'[s][i].entries : Owner[e[2]] = s
      <3>1. CASE HttpQueue'[s] = HttpQueue[s]
        BY <1>1, <3>1 DEF AtHome
      <3>2. ASSUME NEW r \in Request, HttpQueue'[s] = Append(HttpQueue[s], r),
                   \A e \in r.entries : Owner[e[2]] = s
            PROVE  \A i \in 1..Len(HttpQueue'[s]) : \A e \in HttpQueue'[s][i].entries :
                      Owner[e[2]] = s
        <4>1. \A i \in 1..Len(HttpQueue'[s]) :
                 \/ i \in 1..Len(HttpQueue[s]) /\ HttpQueue'[s][i] = HttpQueue[s][i]
                 \/ HttpQueue'[s][i] = r
          BY <1>1, <3>2, AppendFacts
        <4>. QED
          BY <1>1, <3>2, <4>1 DEF AtHome
      <3>. QED
        BY <1>5, <3>1, <3>2
    <2>. QED
      BY <1>1, <1>2, <1>3, <1>5, <2>1 DEF AtHome
  <1>6. CASE ProcessStart(s) \/ ProcessSave(s)
    BY <1>4, <1>6 DEF ProcessStart, ProcessSave
  <1>7. CASE ProcessEnd(s)
    <2>1. CASE t # s
      BY <1>4, <1>7, <2>1, EndSends DEF TypeInv
    <2>2. CASE t = s /\ HttpQueue'[s] = HttpQueue[s] /\ deps'[s] = deps[s]
      BY <1>4, <2>2
    <2>3. ASSUME t = s, NEW m, m = Head(WQ[s]), m.type = "end", NEW r \in Request,
                 HttpQueue'[s] = Append(HttpQueue[s], r),
                 r.entries = {<<m.caller, m.call>>},
                 \A x \in Dep : deps'[s][x] =
                    IF x \in m.used THEN deps[s][x] \cup {<<m.caller, m.call>>}
                    ELSE deps[s][x]
          PROVE  AtHome(t)'
      <3>1. Owner[m.call] = s
        BY <1>3, <2>3
      <3>2. ASSUME NEW x \in Dep, NEW e \in deps'[s][x] PROVE Owner[e[2]] = s
        <4>1. e \in deps[s][x] \/ e = <<m.caller, m.call>>
          BY <2>3
        <4>2. e = <<m.caller, m.call>> => e[2] = m.call
          OBVIOUS
        <4>. QED
          BY <1>1, <3>1, <4>1, <4>2 DEF AtHome
      <3>3. \A e \in r.entries : Owner[e[2]] = s
        BY <2>3, <3>1
      <3>. QED
        BY <1>5, <2>3, <3>2, <3>3
    <2>. QED
      BY <1>7, <2>1, <2>2, <2>3, EndSends DEF TypeInv
  <1>8. ASSUME NEW names \in SUBSET Dep, NEW entries, entries = Popped(deps[s], names),
               deps' = [deps EXCEPT ![s] = PopDeps(deps[s], names)],
               SendInvsToCallers(s, entries)
        PROVE  AtHome(t)'
    <2>1. /\ t # s => deps'[t] = deps[t] /\ HttpQueue'[t] = HttpQueue[t]
          /\ \A x \in Dep : deps'[s][x] = IF x \in names THEN {} ELSE deps[s][x]
          /\ \/ HttpQueue'[s] = HttpQueue[s]
             \/ \E r \in Request :
                   /\ HttpQueue'[s] = Append(HttpQueue[s], r)
                   /\ \A e : e \in r.entries <=> \E x \in names : e \in deps[s][x]
      <3>1. Tells(s, names)
        BY <1>8, Invalidates DEF TypeInv
      <3>. QED
        BY <3>1 DEF Tells
    <2>2. \A x \in Dep : \A e \in deps'[s][x] : Owner[e[2]] = s
      BY <1>1, <2>1 DEF AtHome
    <2>3. \A x \in names : \A e \in deps[s][x] : Owner[e[2]] = s
      BY <1>1 DEF AtHome
    <2>. QED
      BY <1>4, <1>5, <2>1, <2>2, <2>3
  <1>9. CASE ProcessInvalidateKey(s)
    <2>1. {Head(WQ[s]).key} \in SUBSET Dep
      BY <1>9, TakeFacts, MessageFacts DEF ProcessInvalidateKey, TypeInv, Dep
    <2>. QED
      BY <1>8, <1>9, <2>1 DEF ProcessInvalidateKey
  <1>10. CASE ProcessInvalidateCalls(s)
    <2>1. Head(WQ[s]).calls \in SUBSET Dep
      BY <1>10, TakeFacts, MessageFacts DEF ProcessInvalidateCalls, TypeInv, Dep
    <2>. QED
      BY <1>8, <1>10, <2>1 DEF ProcessInvalidateCalls
  <1>. QED
    BY <1>6, <1>7, <1>9, <1>10 DEF Process

LEMMA HomeNext == TypeInv /\ Home /\ [Next]_vars => Home'
  <1>. SUFFICES ASSUME TypeInv, Home, [Next]_vars PROVE Home'
    OBVIOUS
  <1>1. CASE UNCHANGED vars
    BY <1>1 DEF Home, AtHome, vars, manager, sender
  <1>2. ASSUME NEW s \in Service, Receive(s), NEW t \in Service PROVE AtHome(t)'
    <2>1. /\ AtHome(t) /\ UNCHANGED <<WQ, deps>>
          /\ HttpQueue[s] \in Seq(Request) /\ HttpQueue[s] # <<>> /\ buffer[s] \in Buffer
      BY <1>2 DEF Home, Receive, manager, TypeInv, TypeOK
    <2>2. CASE t # s
      BY <1>2, <2>1, <2>2 DEF AtHome, Receive, TypeInv, TypeOK
    <2>3. CASE t = s
      <3>1. PICK r : r = Head(HttpQueue[s])
        OBVIOUS
      <3>2. /\ HttpQueue'[s] = Tail(HttpQueue[s]) /\ buffer'[s] = AddRequest(buffer[s], r)
        BY <1>2, <3>1 DEF Receive, TypeInv, TypeOK
      <3>3. /\ r \in Request /\ 1 \in 1..Len(HttpQueue[s]) /\ HttpQueue[s][1] = r
            /\ \A i \in 1..Len(HttpQueue'[s]) :
                  i + 1 \in 1..Len(HttpQueue[s]) /\ HttpQueue'[s][i] = HttpQueue[s][i + 1]
        BY <2>1, <3>1, <3>2, TailFacts
      <3>4. /\ buffer'[s] \in Buffer
            /\ \A e \in Entry : e \in Buffered(buffer'[s]) =>
                  e \in Buffered(buffer[s]) \/ e \in r.entries
        BY <2>1, <3>2, <3>3, AddRequestFacts
      <3>5. Buffered(buffer'[s]) \subseteq Entry
        BY <3>4 DEF Buffered, Saved, Buffer
      <3>. QED
        BY SMTT(30), <2>1, <2>3, <3>3, <3>4, <3>5 DEF AtHome
    <2>. QED
      BY <2>2, <2>3
  <1>3. ASSUME NEW s \in Service, Flush(s), NEW t \in Service PROVE AtHome(t)'
    <2>1. AtHome(t) /\ UNCHANGED <<deps, HttpQueue>>
      BY <1>3, FlushAdds DEF Home
    <2>2. \A i \in 1..Len(WQ'[t]) : WQ'[t][i].type = "end" =>
             i \in 1..Len(WQ[t]) /\ WQ'[t][i] = WQ[t][i]
      <3>. DEFINE p == Posts(buffer[s], t)
                  q == WQ[t]
                  g == WQ'[t]
      <3>1. /\ Len(q) \in Nat
            /\ \A i \in 1..Len(q) : g[i] = q[i]
            /\ \A i \in 1..Len(p) : g[Len(q) + i] = p[i] /\ p[i].type \in {"invcalls", "save"}
            /\ \A i \in 1..Len(g) : i \in 1..Len(q) \/ i - Len(q) \in 1..Len(p)
        BY <1>3, FlushAdds
      <3>. HIDE DEF p, q, g
      <3>2. ASSUME NEW i \in 1..Len(g), i - Len(q) \in 1..Len(p) PROVE g[i].type # "end"
        <4>1. Len(q) + (i - Len(q)) = i
          BY <3>1
        <4>. QED
          BY <3>1, <3>2, <4>1
      <3>. QED
        BY <3>1, <3>2 DEF q, g
    <2>3. Buffered(buffer'[t]) \subseteq Buffered(buffer[t])
      <3>1. buffer'[t] = buffer[t] \/ buffer'[t] = Empty
        BY <1>3 DEF Flush, TypeInv, TypeOK
      <3>2. Buffered(Empty) = {}
        BY DEF Buffered, Saved, Empty
      <3>. QED
        BY <3>1, <3>2
    <2>. QED
      BY <2>1, <2>2, <2>3 DEF AtHome
  <1>. QED
    BY <1>1, <1>2, <1>3, HomeServices, HomeProcess DEF Next, Managers, Home

-----------------------------------------------------------------------------
\* What is said of a line, when its queues and the cache keep, grow or move on.

\* Written and good values of s and d stay so.
Keeps(s, d, Old) ==
    /\ \A val : Written(val, d) => Written(val, d)'
    /\ \A val : Good(val, s, d, Old) => Good(val, s, d, Old)'

LEMMA QueueSame ==
    ASSUME NEW s \in Service, NEW d \in Call, NEW Old, QueueGood(s, d, Old),
           HttpQueue'[Owner[d]] = HttpQueue[Owner[d]], buffer'[Owner[d]] = buffer[Owner[d]],
           Keeps(s, d, Old)
    PROVE  QueueGood(s, d, Old)' /\ More(s, d)' = More(s, d)
  <1>1. Queued(s, d)' = Queued(s, d) /\ (Merged(s, d)' <=> Merged(s, d))
    BY DEF Queued, Merged
  <1>2. ASSUME NEW i \in Queued(s, d), NEW val, val = HttpQueue'[Owner[d]][i].val
        PROVE  Written(val, d)' /\ (Good(val, s, d, Old)' \/ \E j \in Queued(s, d) : j > i)
    BY <1>2 DEF QueueGood, Keeps
  <1>3. ASSUME Merged(s, d), NEW val, val = buffer'[Owner[d]].save[<<s, d>>]
        PROVE  Written(val, d)' /\ (Good(val, s, d, Old)' \/ Queued(s, d) # {})
    BY <1>3 DEF QueueGood, Keeps
  <1>4. QueueGood(s, d, Old)'
    BY <1>1, <1>2, <1>3 DEF QueueGood
  <1>. QED
    BY <1>1, <1>4 DEF More

LEMMA QueueGrows ==
    ASSUME NEW s \in Service, NEW d \in Call, NEW Old, QueueGood(s, d, Old),
           HttpQueue[Owner[d]] \in Seq(Request), NEW r \in Request,
           HttpQueue'[Owner[d]] = Append(HttpQueue[Owner[d]], r),
           buffer'[Owner[d]] = buffer[Owner[d]],
           \A val : Written(val, d) => Written(val, d)',
           <<s, d>> \in r.entries => Written(r.val, d)' /\ Good(r.val, s, d, Old)',
           <<s, d>> \notin r.entries => Keeps(s, d, Old)
    PROVE  /\ QueueGood(s, d, Old)'
           /\ More(s, d) => More(s, d)'
           /\ <<s, d>> \in r.entries => More(s, d)'
  <1>. DEFINE q == HttpQueue[Owner[d]]
              g == HttpQueue'[Owner[d]]
              last == Len(q) + 1
  <1>1. /\ Len(q) \in Nat /\ Len(g) = last /\ g[last] = r
        /\ \A i \in 1..Len(q) : g[i] = q[i] /\ i \in 1..Len(g) /\ i < last
        /\ \A i \in 1..Len(g) : i \in 1..Len(q) \/ i = last
    BY AppendFacts
  <1>2. /\ Queued(s, d) = {i \in 1..Len(q) : <<s, d>> \in q[i].entries}
        /\ Queued(s, d)' = {i \in 1..Len(g) : <<s, d>> \in g[i].entries}
        /\ Merged(s, d)' <=> Merged(s, d)
    BY DEF Queued, Merged
  <1>. HIDE DEF q, g, last
  <1>3. /\ Queued(s, d) \subseteq Queued(s, d)'
        /\ \A i \in Queued(s, d)' : i \in Queued(s, d) \/ (i = last /\ <<s, d>> \in r.entries)
        /\ \A i \in Queued(s, d) : i < last
        /\ <<s, d>> \in r.entries => last \in Queued(s, d)'
    <2>1. last \in 1..Len(g)
      BY <1>1 DEF last
    <2>. QED
      BY <1>1, <1>2, <2>1
  <1>4. ASSUME NEW i \in Queued(s, d)', NEW val, val = g[i].val
        PROVE  Written(val, d)' /\ (Good(val, s, d, Old)' \/ \E j \in Queued(s, d)' : j > i)
    <2>1. CASE i \in Queued(s, d)
      <3>1. i \in 1..Len(q) /\ val = q[i].val
        BY <1>1, <1>2, <1>4, <2>1
      <3>2. Written(val, d) /\ (Good(val, s, d, Old) \/ \E j \in Queued(s, d) : j > i)
        BY <2>1, <3>1 DEF QueueGood, q
      <3>3. CASE <<s, d>> \in r.entries
        <4>1. last \in Queued(s, d)' /\ last > i
          BY <1>3, <2>1, <3>3, <1>1, <3>1 DEF last
        <4>. QED
          BY <3>2, <4>1
      <3>4. CASE <<s, d>> \notin r.entries
        BY <1>3, <3>2, <3>4 DEF Keeps
      <3>. QED
        BY <3>3, <3>4
    <2>2. CASE i = last /\ <<s, d>> \in r.entries
      BY <1>1, <1>4, <2>2
    <2>. QED
      BY <1>3, <2>1, <2>2
  <1>5. ASSUME Merged(s, d), NEW val, val = buffer'[Owner[d]].save[<<s, d>>]
        PROVE  Written(val, d)' /\ (Good(val, s, d, Old)' \/ Queued(s, d)' # {})
    <2>1. Written(val, d) /\ (Good(val, s, d, Old) \/ Queued(s, d) # {})
      BY <1>5 DEF QueueGood
    <2>. QED
      BY <1>3, <2>1 DEF Keeps
  <1>6. QueueGood(s, d, Old)'
    BY <1>2, <1>4, <1>5 DEF QueueGood, g
  <1>. QED
    BY <1>2, <1>3, <1>6 DEF More

LEMMA CacheSame ==
    ASSUME NEW s \in Service, NEW d \in Call, NEW Old, CacheGood(s, d, Old),
           Posted(s, d)' = Posted(s, d),
           \A i \in Posted(s, d) : WQ'[s][i] = WQ[s][i],
           cache'[s][d] = cache[s][d],
           More(s, d) => More(s, d)',
           \A val : Written(val, d) => Written(val, d)',
           Keeps(s, d, Old) \/ More(s, d)'
    PROVE  CacheGood(s, d, Old)'
  <1>1. ASSUME NEW i \in Posted(s, d), NEW val, val = Word(WQ'[s][i], d)
        PROVE  /\ Written(val, d)'
               /\ Good(val, s, d, Old)' \/ (\E j \in Posted(s, d) : j > i) \/ More(s, d)'
    BY <1>1 DEF CacheGood, Keeps
  <1>2. ASSUME NEW val, val = cache'[s][d]
        PROVE  /\ Written(val, d)'
               /\ Good(val, s, d, Old)' \/ Posted(s, d) # {} \/ More(s, d)'
    BY <1>2 DEF CacheGood, Keeps
  <1>. QED
    BY <1>1, <1>2 DEF CacheGood, Word

LEMMA CacheTakes ==
    ASSUME NEW s \in Service, NEW d \in Call, NEW Old, CacheGood(s, d, Old),
           WQ[s] \in Seq(Message), WQ[s] # <<>>, WQ'[s] = Tail(WQ[s]),
           cache'[s][d] = IF Says(Head(WQ[s]), d) THEN Word(Head(WQ[s]), d) ELSE cache[s][d],
           More(s, d) => More(s, d)',
           \A val : Written(val, d) => Written(val, d)',
           Keeps(s, d, Old) \/ More(s, d)'
    PROVE  CacheGood(s, d, Old)'
  <1>. DEFINE q == WQ[s]
              g == WQ'[s]
  <1>1. /\ Len(q) \in Nat \ {0} /\ Len(g) = Len(q) - 1 /\ q[1] = Head(q)
        /\ \A i \in 1..Len(g) : g[i] = q[i + 1]
    BY TailFacts
  <1>2. /\ Posted(s, d) = {i \in 1..Len(q) : Says(q[i], d)}
        /\ Posted(s, d)' = {i \in 1..Len(g) : Says(g[i], d)}
    BY DEF Posted, Says
  <1>. HIDE DEF q, g
  <1>3. /\ \A i \in Posted(s, d)' : i + 1 \in Posted(s, d) /\ g[i] = q[i + 1]
        /\ \A i \in Posted(s, d) : i = 1 \/ (i - 1 \in Posted(s, d)')
        /\ Posted(s, d) \subseteq Nat /\ Posted(s, d)' \subseteq Nat
        /\ 1 \in Posted(s, d) <=> Says(Head(q), d)
    <2>1. \A i \in 1..Len(g) : i + 1 \in 1..Len(q)
      BY <1>1
    <2>2. \A i \in 1..Len(q) : i = 1 \/ (i - 1 \in 1..Len(g) /\ (i - 1) + 1 = i)
      BY <1>1
    <2>. QED
      BY SMTT(30), <1>1, <1>2, <2>1, <2>2
  <1>4. ASSUME NEW i \in Posted(s, d)', NEW val, val = Word(g[i], d)
        PROVE  /\ Written(val, d)'
               /\ Good(val, s, d, Old)' \/ (\E j \in Posted(s, d)' : j > i) \/ More(s, d)'
    <2>1. /\ Written(val, d)
          /\ Good(val, s, d, Old) \/ (\E j \in Posted(s, d) : j > i + 1) \/ More(s, d)
      BY <1>3, <1>4 DEF CacheGood, q
    <2>2. (\E j \in Posted(s, d) : j > i + 1) => \E j \in Posted(s, d)' : j > i
      <3>1. ASSUME NEW j \in Posted(s, d), j > i + 1 PROVE j - 1 \in Posted(s, d)' /\ j - 1 > i
        BY <1>3, <3>1
      <3>. QED
        BY <3>1
    <2>. QED
      BY <2>1, <2>2 DEF Keeps
  <1>5. ASSUME NEW val, val = cache'[s][d]
        PROVE  /\ Written(val, d)'
               /\ Good(val, s, d, Old)' \/ Posted(s, d)' # {} \/ More(s, d)'
    <2>1. CASE Says(Head(q), d)
      <3>1. 1 \in Posted(s, d) /\ val = Word(q[1], d)
        BY <1>1, <1>3, <1>5, <2>1 DEF q
      <3>2. /\ Written(val, d)
            /\ Good(val, s, d, Old) \/ (\E j \in Posted(s, d) : j > 1) \/ More(s, d)
        BY <3>1 DEF CacheGood, q
      <3>3. (\E j \in Posted(s, d) : j > 1) => Posted(s, d)' # {}
        BY <1>3
      <3>. QED
        BY <3>2, <3>3 DEF Keeps
    <2>2. CASE ~Says(Head(q), d)
      <3>1. val = cache[s][d]
        BY <1>5, <2>2 DEF q
      <3>2. /\ Written(val, d)
            /\ Good(val, s, d, Old) \/ Posted(s, d) # {} \/ More(s, d)
        BY <3>1 DEF CacheGood
      <3>3. Posted(s, d) # {} => Posted(s, d)' # {}
        BY <1>3, <2>2
      <3>. QED
        BY <3>2, <3>3 DEF Keeps
    <2>. QED
      BY <2>1, <2>2
  <1>. QED
    BY <1>4, <1>5 DEF CacheGood, Word, g

\* A line's values stay good where its versions and its index entries do.
LEMMA KeepsGood ==
    ASSUME TypeInv, [Next]_vars, NEW s \in Service, NEW d \in Call, NEW Old,
           (\A k \in Reads[d] : <<s, d>> \in deps[Owner[d]][k]) =>
              \A k \in Reads[d] :
                 /\ Coming(k)' \/ (db'[k] = db[k] /\ ~Coming(k))
                 /\ <<s, d>> \in deps'[Owner[d]][k]
    PROVE  Keeps(s, d, Old)
  <1>1. Reads[d] \subseteq Key
    BY GraphAssumption
  <1>2. ASSUME NEW val, Written(val, d) PROVE Written(val, d)'
    BY <1>1, <1>2, DbGrows DEF Written
  <1>3. ASSUME NEW val, Good(val, s, d, Old) PROVE Good(val, s, d, Old)'
    BY <1>3 DEF Good, Excused, Right
  <1>. QED
    BY <1>2, <1>3 DEF Keeps

\* An invalidation that is coming comes on, and that of a write begins to.
LEMMA ComingServices ==
    ASSUME TypeInv, Writers \/ Clients \/ Handlers, NEW k \in Key
    PROVE  Coming(k)' \/ (db'[k] = db[k] /\ ~Coming(k))
  <1>1. Owner[k] \in Service
    BY GraphAssumption
  <1>2. /\ Len(WQ[Owner[k]]) \in Nat /\ Len(WQ'[Owner[k]]) \in Nat
        /\ Len(WQ[Owner[k]]) <= Len(WQ'[Owner[k]])
        /\ \A i \in 1..Len(WQ[Owner[k]]) : WQ'[Owner[k]][i] = WQ[Owner[k]][i]
    <2>1. \A u \in Service : WQ[u] \in Seq(Message) /\ Announces(WQ[u], WQ'[u])
      BY ServiceStep DEF TypeInv, TypeOK
    <2>. QED
      BY <1>1, <2>1, AnnounceFacts
  <1>3. \/ unsent'[k] > 0
        \/ unsent'[k] = unsent[k] /\ db'[k] = db[k]
        \/ WQ'[Owner[k]] = Append(WQ[Owner[k]], [type |-> "inv", key |-> k])
    BY ServiceStep
  <1>4. CASE unsent'[k] > 0
    BY <1>4 DEF Coming
  <1>5. CASE unsent'[k] = unsent[k] /\ db'[k] = db[k]
    <2>1. 1..Len(WQ[Owner[k]]) \subseteq 1..Len(WQ'[Owner[k]])
      BY <1>2
    <2>. QED
      BY <1>2, <1>5, <2>1 DEF Coming
  <1>6. CASE WQ'[Owner[k]] = Append(WQ[Owner[k]], [type |-> "inv", key |-> k])
    <2>. DEFINE m == [type |-> "inv", key |-> k]
    <2>1. m \in Message /\ WQ[Owner[k]] \in Seq(Message) /\ IsInv(m, k)
      BY <1>1 DEF Message, TypeInv, TypeOK, IsInv
    <2>. HIDE DEF m
    <2>2. /\ Len(WQ'[Owner[k]]) = Len(WQ[Owner[k]]) + 1 /\ Len(WQ[Owner[k]]) \in Nat
          /\ WQ'[Owner[k]][Len(WQ[Owner[k]]) + 1] = m
      BY <1>6, <2>1, AppendFacts DEF m
    <2>3. Len(WQ[Owner[k]]) + 1 \in 1..Len(WQ'[Owner[k]])
      BY <2>2
    <2>. QED
      BY <2>1, <2>2, <2>3 DEF Coming
  <1>. QED
    BY <1>3, <1>4, <1>5, <1>6

LEMMA ServiceLines ==
    ASSUME TypeInv, Writers \/ Clients \/ Handlers, NEW Old, LinesGood(Old)
    PROVE  LinesGood(Old)'
  <1>. SUFFICES ASSUME NEW s \in Service, NEW d \in Call, Leaf(d)
                PROVE  QueueGood(s, d, Old)' /\ CacheGood(s, d, Old)'
    BY DEF LinesGood, Leaf
  <1>1. QueueGood(s, d, Old) /\ CacheGood(s, d, Old)
    BY DEF LinesGood
  <1>2. UNCHANGED <<deps, cache, HttpQueue, buffer>> /\ [Next]_vars
    BY ServiceStep DEF Next
  <1>3. ASSUME NEW t \in Service
        PROVE  /\ Len(WQ[t]) \in Nat /\ Len(WQ'[t]) \in Nat /\ Len(WQ[t]) <= Len(WQ'[t])
               /\ \A i \in 1..Len(WQ[t]) : WQ'[t][i] = WQ[t][i]
               /\ \A i \in 1..Len(WQ'[t]) : ~(i \in 1..Len(WQ[t])) =>
                     WQ'[t][i].type \in {"start", "end", "inv"}
    BY QueuesGrow
  <1>4. ASSUME NEW k \in Reads[d]
        PROVE  /\ Coming(k)' \/ (db'[k] = db[k] /\ ~Coming(k))
               /\ <<s, d>> \in deps[Owner[d]][k] => <<s, d>> \in deps'[Owner[d]][k]
    BY <1>2, ComingServices, GraphAssumption
  <1>5. Keeps(s, d, Old)
    BY <1>2, <1>4, KeepsGood
  <1>6. Posted(s, d)' = Posted(s, d) /\ \A i \in Posted(s, d) : WQ'[s][i] = WQ[s][i]
    BY <1>3 DEF Posted, Says
  <1>7. QueueGood(s, d, Old)' /\ More(s, d)' = More(s, d)
    BY <1>1, <1>2, <1>5, QueueSame
  <1>8. CacheGood(s, d, Old)'
    <2>1. \A val : Written(val, d) => Written(val, d)'
      BY <1>5 DEF Keeps
    <2>. QED
      BY <1>1, <1>2, <1>5, <1>6, <1>7, <2>1, CacheSame
  <1>. QED
    BY <1>7, <1>8

LEMMA SingletonsConcat ==
    ASSUME NEW x, NEW y
    PROVE  <<x>> \o <<y>> = <<x, y>>
  <1>1. /\ <<x>> \in Seq({x, y}) /\ <<y>> \in Seq({x, y}) /\ <<x, y>> \in Seq({x, y})
        /\ Len(<<x>>) = 1 /\ Len(<<y>>) = 1 /\ Len(<<x, y>>) = 2
    OBVIOUS
  <1>2. /\ <<x>> \o <<y>> \in Seq({x, y})
        /\ Len(<<x>> \o <<y>>) = 2
        /\ \A i \in 1..2 : (<<x>> \o <<y>>)[i] = <<x, y>>[i]
    BY <1>1, ConcatProperties
  <1>. QED
    BY <1>1, <1>2, SeqEqual

\* A flush by the manager of d's service posts what is merged for the line; one
\* by another manager posts nothing about it.
LEMMA PostsSay ==
    ASSUME NEW b \in Buffer, NEW s \in Service, NEW d \in Call
    PROVE  LET p == Posts(b, s)
           IN  /\ \A i \in 1..Len(p) : Says(p[i], d) =>
                     /\ <<s, d>> \in Buffered(b)
                     /\ Word(p[i], d) \in {NoVal, b.save[<<s, d>>]}
                     /\ Word(p[i], d) = NoVal => <<s, d>> \in b.inv
               /\ <<s, d>> \in Buffered(b) => \E i \in 1..Len(p) : Says(p[i], d)
  <1>. DEFINE inv == {e[2] : e \in InvOf(b, s)}
              m == [type |-> "invcalls", calls |-> inv]
              n == [type |-> "save", lines |-> [c \in Call |-> b.save[<<s, c>>]]]
              e == <<s, d>>
  <1>1. e \in Entry /\ e[1] = s /\ e[2] = d
    BY DEF Entry
  <1>2. d \in inv <=> e \in b.inv
    <2>1. ASSUME NEW x \in b.inv, x[1] = s, x[2] = d PROVE x = e
      BY <2>1 DEF Buffer, Entry
    <2>. QED
      BY <1>1, <2>1 DEF InvOf
  <1>3. e \in SaveOf(b, s) <=> b.save[e] # NoVal
    BY <1>1 DEF SaveOf, Saved
  <1>4. /\ Says(m, d) <=> d \in inv
        /\ Word(m, d) = NoVal
        /\ Says(n, d) <=> b.save[e] # NoVal
        /\ Word(n, d) = b.save[e]
    BY DEF Says, Word
  <1>5. Posts(b, s) = (IF inv = {} THEN <<>> ELSE <<m>>)
                        \o (IF SaveOf(b, s) = {} THEN <<>> ELSE <<n>>)
    BY DEF Posts
  <1>6. e \in Buffered(b) <=> d \in inv \/ b.save[e] # NoVal
    BY <1>1, <1>2 DEF Buffered, Saved
  <1>. HIDE DEF m, n, inv, e
  <1>7. CASE inv = {} /\ SaveOf(b, s) = {}
    <2>1. Posts(b, s) = <<>>
      BY <1>5, <1>7
    <2>. QED
      BY <1>3, <1>6, <1>7, <2>1 DEF e
  <1>8. CASE inv = {} /\ SaveOf(b, s) # {}
    <2>1. Posts(b, s) = <<n>>
      BY <1>5, <1>8
    <2>2. Len(<<n>>) = 1 /\ <<n>>[1] = n
      OBVIOUS
    <2>. QED
      BY <1>2, <1>4, <1>6, <1>8, <2>1, <2>2 DEF e
  <1>9. CASE inv # {} /\ SaveOf(b, s) = {}
    <2>1. Posts(b, s) = <<m>>
      BY <1>5, <1>9
    <2>2. Len(<<m>>) = 1 /\ <<m>>[1] = m
      OBVIOUS
    <2>. QED
      BY <1>2, <1>3, <1>4, <1>6, <1>9, <2>1, <2>2 DEF e
  <1>10. CASE inv # {} /\ SaveOf(b, s) # {}
    <2>1. Posts(b, s) = <<m, n>>
      <3>1. Posts(b, s) = <<m>> \o <<n>>
        BY <1>5, <1>10
      <3>2. <<m>> \o <<n>> = <<m, n>>
        BY SingletonsConcat
      <3>. QED
        BY <3>1, <3>2
    <2>2. Len(<<m, n>>) = 2 /\ <<m, n>>[1] = m /\ <<m, n>>[2] = n
      OBVIOUS
    <2>3. 1..2 = {1, 2}
      OBVIOUS
    <2>. QED
      BY <1>2, <1>4, <1>6, <2>1, <2>2, <2>3 DEF e
  <1>. QED
    BY <1>7, <1>8, <1>9, <1>10

LEMMA FlushLines ==
    ASSUME TypeInv, Home, NEW t \in Service, Flush(t), NEW Old, LinesGood(Old)
    PROVE  LinesGood(Old)'
  <1>. SUFFICES ASSUME NEW s \in Service, NEW d \in Call, Leaf(d)
                PROVE  QueueGood(s, d, Old)' /\ CacheGood(s, d, Old)'
    BY DEF LinesGood, Leaf
  <1>1. QueueGood(s, d, Old) /\ CacheGood(s, d, Old)
    BY DEF LinesGood
  <1>2. UNCHANGED <<db, unsent, deps, cache, HttpQueue>> /\ [Next]_vars
    BY FlushAdds DEF Next, Managers
  <1>3. ASSUME NEW u \in Service
        PROVE  /\ 1..Len(WQ[u]) \subseteq 1..Len(WQ'[u])
               /\ \A i \in 1..Len(WQ[u]) : WQ'[u][i] = WQ[u][i]
    <2>. DEFINE p == Posts(buffer[t], u)
    <2>1. /\ Len(WQ[u]) \in Nat /\ Len(p) \in Nat /\ Len(WQ'[u]) = Len(WQ[u]) + Len(p)
          /\ \A i \in 1..Len(WQ[u]) : WQ'[u][i] = WQ[u][i]
      BY FlushAdds
    <2>. HIDE DEF p
    <2>. QED
      BY <2>1
  <1>4. Keeps(s, d, Old)
    <2>1. ASSUME NEW k \in Reads[d]
          PROVE  /\ Coming(k)' \/ (db'[k] = db[k] /\ ~Coming(k))
                 /\ <<s, d>> \in deps[Owner[d]][k] => <<s, d>> \in deps'[Owner[d]][k]
      <3>1. Owner[k] \in Service
        BY GraphAssumption
      <3>. QED
        BY <1>2, <1>3, <3>1 DEF Coming
    <2>. QED
      BY <1>2, <2>1, KeepsGood
  <1>. DEFINE o == Owner[d]
              e == <<s, d>>
              b == buffer[t]
              p == Posts(b, s)
              q == WQ[s]
              g == WQ'[s]
  <1>5. /\ o \in Service /\ b \in Buffer /\ e \in Entry /\ e[2] = d
        /\ buffer' = [buffer EXCEPT ![t] = Empty] /\ buffer \in [Service -> Buffer]
        /\ Buffered(Empty) = {} /\ \A x \in Entry : Empty.save[x] = NoVal
    BY GraphAssumption DEF TypeInv, TypeOK, Flush, Entry, Empty, Buffered, Saved
  <1>6. e \in Buffered(b) => t = o
    BY <1>5 DEF Home, AtHome
  <1>7. /\ Len(q) \in Nat /\ Len(p) \in Nat /\ Len(g) = Len(q) + Len(p)
        /\ \A i \in 1..Len(q) : g[i] = q[i]
        /\ \A i \in 1..Len(p) : g[Len(q) + i] = p[i]
        /\ \A i \in 1..Len(g) : i \in 1..Len(q) \/ i - Len(q) \in 1..Len(p)
    BY FlushAdds
  <1>8. /\ \A i \in 1..Len(p) : Says(p[i], d) =>
              e \in Buffered(b) /\ Word(p[i], d) \in {NoVal, b.save[e]}
        /\ e \in Buffered(b) => \E i \in 1..Len(p) : Says(p[i], d)
    BY <1>5, PostsSay
  <1>9. /\ Posted(s, d) = {i \in 1..Len(q) : Says(q[i], d)}
        /\ Posted(s, d)' = {i \in 1..Len(g) : Says(g[i], d)}
    BY DEF Posted, Says
  <1>. HIDE DEF p, q, g, b, e
  <1>10. /\ Posted(s, d) \subseteq Posted(s, d)' /\ Posted(s, d) \subseteq 1..Len(q)
         /\ \A i \in Posted(s, d)' :
               \/ i \in Posted(s, d)
               \/ e \in Buffered(b) /\ Word(g[i], d) \in {NoVal, b.save[e]}
         /\ e \in Buffered(b) => \E i \in Posted(s, d)' : i > Len(q)
    <2>1. Posted(s, d) \subseteq Posted(s, d)' /\ Posted(s, d) \subseteq 1..Len(q)
      <3>1. 1..Len(q) \subseteq 1..Len(g)
        BY <1>7
      <3>. QED
        BY <1>7, <1>9, <3>1
    <2>2. ASSUME NEW i \in Posted(s, d)', i \notin Posted(s, d)
          PROVE  e \in Buffered(b) /\ Word(g[i], d) \in {NoVal, b.save[e]}
      <3>1. i \in 1..Len(g) /\ ~(i \in 1..Len(q)) /\ Says(g[i], d)
        BY <1>7, <1>9, <2>2
      <3>2. i - Len(q) \in 1..Len(p) /\ Len(q) + (i - Len(q)) = i
        BY <1>7, <3>1
      <3>3. p[i - Len(q)] = g[i]
        BY <1>7, <3>2
      <3>. QED
        BY <1>8, <3>1, <3>2, <3>3
    <2>3. ASSUME NEW i \in 1..Len(p), Says(p[i], d)
          PROVE  Len(q) + i \in Posted(s, d)' /\ Len(q) + i > Len(q)
      <3>1. Len(q) + i \in 1..Len(g) /\ Len(q) + i > Len(q)
        BY <1>7
      <3>. QED
        BY <1>7, <1>9, <2>3, <3>1
    <2>. QED
      BY <1>8, <2>1, <2>2, <2>3
  <1>11. CASE t = o
    <2>1. /\ Queued(s, d)' = Queued(s, d) /\ ~Merged(s, d)' /\ (Merged(s, d) <=> e \in Buffered(b))
          /\ e \in Buffered(b) => b.save[e] = buffer[o].save[<<s, d>>]
      BY <1>2, <1>5, <1>11 DEF Queued, Merged, b, e, Flush
    <2>2. QueueGood(s, d, Old)'
      <3>1. ASSUME NEW i \in Queued(s, d), NEW val, val = HttpQueue'[o][i].val
            PROVE  Written(val, d)' /\ (Good(val, s, d, Old)' \/ \E j \in Queued(s, d) : j > i)
        BY <1>1, <1>2, <1>4, <3>1 DEF QueueGood, Keeps
      <3>. QED
        BY <2>1, <3>1 DEF QueueGood
    <2>3. ASSUME NEW i \in Posted(s, d)', NEW val, val = Word(g[i], d)
          PROVE  /\ Written(val, d)'
                 /\ Good(val, s, d, Old)' \/ (\E j \in Posted(s, d)' : j > i) \/ More(s, d)'
      <3>1. CASE i \in Posted(s, d)
        <4>1. g[i] = q[i] /\ i <= Len(q) /\ i \in Nat
          BY <1>7, <1>10, <3>1
        <4>2. /\ Written(val, d)
              /\ Good(val, s, d, Old) \/ (\E j \in Posted(s, d) : j > i) \/ More(s, d)
          BY <1>1, <2>3, <3>1, <4>1 DEF CacheGood, q
        <4>3. Merged(s, d) => \E j \in Posted(s, d)' : j > i
          <5>1. \A j : j \in Posted(s, d)' /\ j > Len(q) => j \in Nat /\ j > i
            <6>1. Posted(s, d)' \subseteq Nat
              BY <1>9
            <6>. QED
              BY <1>7, <4>1, <6>1
          <5>. QED
            BY <1>10, <2>1, <5>1
        <4>. QED
          BY <1>4, <1>10, <2>1, <4>2, <4>3 DEF Keeps, More
      <3>2. CASE i \notin Posted(s, d)
        <4>1. Merged(s, d) /\ val \in {NoVal, buffer[o].save[<<s, d>>]}
          BY <1>10, <2>1, <2>3, <3>2
        <4>2. Written(val, d) /\ (Good(val, s, d, Old) \/ Queued(s, d) # {})
          BY <1>1, <4>1 DEF QueueGood, Written, Good
        <4>. QED
          BY <1>4, <2>1, <4>2 DEF Keeps, More
      <3>. QED
        BY <3>1, <3>2
    <2>4. ASSUME NEW val, val = cache'[s][d]
          PROVE  /\ Written(val, d)'
                 /\ Good(val, s, d, Old)' \/ Posted(s, d)' # {} \/ More(s, d)'
      <3>1. /\ Written(val, d)
            /\ Good(val, s, d, Old) \/ Posted(s, d) # {} \/ More(s, d)
        BY <1>1, <1>2, <2>4 DEF CacheGood
      <3>. QED
        BY <1>4, <1>10, <2>1, <3>1 DEF Keeps, More
    <2>. QED
      BY <2>2, <2>3, <2>4 DEF CacheGood, Word, g
  <1>12. CASE t # o
    <2>1. Posted(s, d)' = Posted(s, d) /\ \A i \in Posted(s, d) : WQ'[s][i] = WQ[s][i]
      BY <1>3, <1>6, <1>10, <1>12, <1>7 DEF q, g
    <2>2. QueueGood(s, d, Old)' /\ More(s, d)' = More(s, d)
      BY <1>1, <1>2, <1>4, <1>5, <1>12, QueueSame
    <2>3. \A val : Written(val, d) => Written(val, d)'
      BY <1>4 DEF Keeps
    <2>. QED
      BY <1>1, <1>2, <1>4, <2>1, <2>2, <2>3, CacheSame
  <1>. QED
    BY <1>11, <1>12

LEMMA ReceiveLines ==
    ASSUME TypeInv, NEW t \in Service, Receive(t), NEW Old, LinesGood(Old)
    PROVE  LinesGood(Old)'
  <1>. SUFFICES ASSUME NEW s \in Service, NEW d \in Call, Leaf(d)
                PROVE  QueueGood(s, d, Old)' /\ CacheGood(s, d, Old)'
    BY DEF LinesGood, Leaf
  <1>. DEFINE o == Owner[d]
              e == <<s, d>>
  <1>1. QueueGood(s, d, Old) /\ CacheGood(s, d, Old)
    BY DEF LinesGood
  <1>2. UNCHANGED <<db, unsent, WQ, deps, cache>> /\ [Next]_vars
    BY DEF Receive, app, manager, Next, Managers
  <1>3. Keeps(s, d, Old)
    BY <1>2, KeepsGood DEF Coming
  <1>4. Posted(s, d)' = Posted(s, d) /\ \A i \in Posted(s, d) : WQ'[s][i] = WQ[s][i]
    BY <1>2 DEF Posted, Says
  <1>5. /\ o \in Service /\ e \in Entry /\ buffer[t] \in Buffer
        /\ HttpQueue[t] \in Seq(Request) /\ HttpQueue[t] # <<>>
        /\ \A u \in Service : u # t => HttpQueue'[u] = HttpQueue[u] /\ buffer'[u] = buffer[u]
        /\ HttpQueue'[t] = Tail(HttpQueue[t])
        /\ buffer'[t] = AddRequest(buffer[t], Head(HttpQueue[t]))
    BY GraphAssumption DEF TypeInv, TypeOK, Receive, Entry
  <1>6. QueueGood(s, d, Old)' /\ (More(s, d) => More(s, d)')
    <2>1. CASE t # o
      BY <1>1, <1>3, <1>5, <2>1, QueueSame
    <2>2. CASE t = o
      <3>. DEFINE q == HttpQueue[o]
                  g == HttpQueue'[o]
      <3>1. PICK r : r = Head(q)
        OBVIOUS
      <3>2. /\ Len(q) \in Nat \ {0} /\ Len(g) = Len(q) - 1 /\ q[1] = r /\ r \in Request
            /\ \A i \in 1..Len(g) : g[i] = q[i + 1] /\ i + 1 \in 1..Len(q)
        <4>1. q \in Seq(Request) /\ q # <<>> /\ g = Tail(q)
          BY <1>5, <2>2
        <4>. HIDE DEF q, g
        <4>2. /\ Len(q) \in Nat \ {0} /\ Len(g) = Len(q) - 1 /\ q[1] = r /\ r \in Request
              /\ \A i \in 1..Len(g) : g[i] = q[i + 1]
          BY <3>1, <4>1, TailFacts
        <4>. QED
          BY <4>2
      <3>3. /\ e \in r.entries => /\ e \in Buffered(buffer'[o])
                                  /\ buffer'[o].save[e] = r.val
            /\ e \notin r.entries => /\ e \in Buffered(buffer'[o]) <=> e \in Buffered(buffer[o])
                                     /\ buffer'[o].save[e] = buffer[o].save[e]
        <4>1. buffer'[o] = AddRequest(buffer[o], r) /\ buffer[o] \in Buffer
          BY <1>5, <2>2, <3>1
        <4>2. PICK b : b = AddRequest(buffer[o], r)
          OBVIOUS
        <4>3. \A x \in Entry :
                 /\ x \in r.entries => x \in Buffered(b) /\ b.save[x] = r.val
                 /\ x \notin r.entries =>
                       /\ x \in Buffered(b) <=> x \in Buffered(buffer[o])
                       /\ b.save[x] = buffer[o].save[x]
          BY <3>2, <4>1, <4>2, AddRequestFacts
        <4>. QED
          BY <1>5, <4>1, <4>2, <4>3
      <3>4. /\ Queued(s, d) = {i \in 1..Len(q) : e \in q[i].entries}
            /\ Queued(s, d)' = {i \in 1..Len(g) : e \in g[i].entries}
            /\ Merged(s, d) <=> e \in Buffered(buffer[o])
            /\ Merged(s, d)' <=> e \in Buffered(buffer'[o])
        BY DEF Queued, Merged
      <3>. HIDE DEF q, g, e
      <3>5. /\ \A i \in Queued(s, d)' : i + 1 \in Queued(s, d) /\ g[i] = q[i + 1]
            /\ \A i \in Queued(s, d) : i = 1 \/ i - 1 \in Queued(s, d)'
            /\ Queued(s, d) \subseteq Nat /\ Queued(s, d)' \subseteq Nat
            /\ 1 \in Queued(s, d) <=> e \in r.entries
        <4>1. \A i \in 1..Len(q) : i = 1 \/ (i - 1 \in 1..Len(g) /\ (i - 1) + 1 = i)
          BY <3>2
        <4>. QED
          BY <3>2, <3>4, <4>1
      <3>6. ASSUME NEW i \in Queued(s, d)', NEW val, val = g[i].val
            PROVE  Written(val, d)' /\ (Good(val, s, d, Old)' \/ \E j \in Queued(s, d)' : j > i)
        <4>1. /\ Written(val, d)
              /\ Good(val, s, d, Old) \/ \E j \in Queued(s, d) : j > i + 1
          BY <1>1, <3>5, <3>6 DEF QueueGood, q
        <4>2. ASSUME NEW j \in Queued(s, d), j > i + 1 PROVE j - 1 \in Queued(s, d)' /\ j - 1 > i
          BY <3>5, <4>2
        <4>. QED
          BY <1>3, <4>1, <4>2 DEF Keeps
      <3>7. ASSUME Merged(s, d)', NEW val, val = buffer'[o].save[<<s, d>>]
            PROVE  Written(val, d)' /\ (Good(val, s, d, Old)' \/ Queued(s, d)' # {})
        <4>1. CASE e \in r.entries
          <5>1. 1 \in Queued(s, d) /\ val = q[1].val
            BY <3>2, <3>3, <3>5, <3>7, <4>1 DEF e
          <5>2. Written(val, d) /\ (Good(val, s, d, Old) \/ \E j \in Queued(s, d) : j > 1)
            BY <1>1, <5>1 DEF QueueGood, q
          <5>3. (\E j \in Queued(s, d) : j > 1) => Queued(s, d)' # {}
            BY <3>5
          <5>. QED
            BY <1>3, <5>2, <5>3 DEF Keeps
        <4>2. CASE e \notin r.entries
          <5>1. Merged(s, d) /\ val = buffer[o].save[<<s, d>>]
            BY <3>3, <3>4, <3>7, <4>2 DEF e
          <5>2. Written(val, d) /\ (Good(val, s, d, Old) \/ Queued(s, d) # {})
            BY <1>1, <5>1 DEF QueueGood
          <5>3. Queued(s, d) # {} => Queued(s, d)' # {}
            BY <3>5, <4>2
          <5>. QED
            BY <1>3, <5>2, <5>3 DEF Keeps
        <4>. QED
          BY <4>1, <4>2
      <3>8. QueueGood(s, d, Old)'
        BY <3>6, <3>7 DEF QueueGood, g
      <3>9. More(s, d) => More(s, d)'
        BY <3>3, <3>4, <3>5 DEF More
      <3>. QED
        BY <3>8, <3>9
    <2>. QED
      BY <2>1, <2>2
  <1>7. \A val : Written(val, d) => Written(val, d)'
    BY <1>3 DEF Keeps
  <1>. QED
    BY <1>1, <1>2, <1>3, <1>4, <1>6, <1>7, CacheSame

-----------------------------------------------------------------------------
\* The managers' Process.

LEMMA KeyTells ==
    ASSUME TypeOK, NEW s \in Service, ProcessInvalidateKey(s)
    PROVE  /\ Head(WQ[s]).type = "inv" /\ Head(WQ[s]).key \in Key
           /\ Tells(s, {Head(WQ[s]).key})
  <1>1. Head(WQ[s]) \in Message /\ Head(WQ[s]).type = "inv"
    BY TakeFacts DEF ProcessInvalidateKey
  <1>2. Head(WQ[s]).key \in Key
    BY <1>1, MessageFacts
  <1>3. PICK names : names = {Head(WQ[s]).key}
    OBVIOUS
  <1>4. names \in SUBSET Dep
    BY <1>2, <1>3 DEF Dep
  <1>5. PICK entries : entries = Popped(deps[s], names)
    OBVIOUS
  <1>6. /\ deps' = [deps EXCEPT ![s] = PopDeps(deps[s], names)]
        /\ SendInvsToCallers(s, entries)
    BY <1>3, <1>5 DEF ProcessInvalidateKey
  <1>. QED
    BY <1>1, <1>2, <1>3, <1>4, <1>5, <1>6, Invalidates

LEMMA CallsTell ==
    ASSUME TypeOK, NEW s \in Service, ProcessInvalidateCalls(s)
    PROVE  /\ Head(WQ[s]).type = "invcalls" /\ Head(WQ[s]).calls \subseteq Call
           /\ Tells(s, Head(WQ[s]).calls)
  <1>1. Head(WQ[s]) \in Message /\ Head(WQ[s]).type = "invcalls"
    BY TakeFacts DEF ProcessInvalidateCalls
  <1>2. Head(WQ[s]).calls \subseteq Call
    BY <1>1, MessageFacts
  <1>3. PICK names : names = Head(WQ[s]).calls
    OBVIOUS
  <1>4. names \in SUBSET Dep
    BY <1>2, <1>3 DEF Dep
  <1>5. PICK entries : entries = Popped(deps[s], names)
    OBVIOUS
  <1>6. /\ deps' = [deps EXCEPT ![s] = PopDeps(deps[s], names)]
        /\ SendInvsToCallers(s, entries)
    BY <1>3, <1>5 DEF ProcessInvalidateCalls
  <1>. QED
    BY <1>1, <1>2, <1>3, <1>4, <1>5, <1>6, Invalidates

\* An announced invalidation stays until it is taken.
LEMMA ComingTail ==
    ASSUME TypeInv, NEW t \in Service, Process(t), NEW k \in Key, Coming(k),
           ~(Owner[k] = t /\ IsInv(Head(WQ[t]), k))
    PROVE  Coming(k)'
  <1>1. /\ UNCHANGED unsent /\ WQ[t] \in Seq(Message) /\ WQ[t] # <<>>
        /\ WQ'[t] = Tail(WQ[t]) /\ \A u \in Service : u # t => WQ'[u] = WQ[u]
    BY ProcessTakes
  <1>2. Owner[k] \in Service
    BY GraphAssumption
  <1>3. CASE unsent[k] > 0 \/ Owner[k] # t
    BY <1>1, <1>2, <1>3 DEF Coming
  <1>4. ASSUME Owner[k] = t, NEW i \in 1..Len(WQ[t]), IsInv(WQ[t][i], k) PROVE Coming(k)'
    <2>1. /\ Len(WQ[t]) \in Nat \ {0} /\ Len(WQ'[t]) = Len(WQ[t]) - 1 /\ WQ[t][1] = Head(WQ[t])
          /\ \A j \in 1..Len(WQ'[t]) : WQ'[t][j] = WQ[t][j + 1]
      BY <1>1, TailFacts
    <2>2. i # 1
      BY <1>4, <2>1
    <2>3. i - 1 \in 1..Len(WQ'[t]) /\ (i - 1) + 1 = i
      BY <2>1, <2>2
    <2>. QED
      BY <1>4, <2>1, <2>3 DEF Coming
  <1>. QED
    BY <1>3, <1>4 DEF Coming

\* Only an invalidation of the key takes entries from under it.
LEMMA DepsKept ==
    ASSUME TypeInv, NEW t \in Service, Process(t), NEW k \in Key, NEW u \in Service,
           ~(u = t /\ IsInv(Head(WQ[t]), k))
    PROVE  deps[u][k] \subseteq deps'[u][k]
  <1>. k \in Dep /\ k \notin Call
    BY CallsAndKeysApart DEF Dep
  <1>1. CASE ProcessStart(t) \/ ProcessSave(t)
    BY <1>1 DEF ProcessStart, ProcessSave
  <1>2. CASE ProcessEnd(t)
    BY <1>2, EndSends DEF TypeInv
  <1>3. CASE ProcessInvalidateKey(t)
    <2>1. /\ Head(WQ[t]).type = "inv" /\ Tells(t, {Head(WQ[t]).key})
      BY <1>3, KeyTells DEF TypeInv
    <2>2. u = t => k # Head(WQ[t]).key
      BY <2>1 DEF IsInv
    <2>. QED
      BY <2>1, <2>2 DEF Tells
  <1>4. CASE ProcessInvalidateCalls(t)
    <2>1. Head(WQ[t]).calls \subseteq Call /\ Tells(t, Head(WQ[t]).calls)
      BY <1>4, CallsTell DEF TypeInv
    <2>. QED
      BY <2>1 DEF Tells
  <1>. QED
    BY <1>1, <1>2, <1>3, <1>4 DEF Process

\* A step of a manager keeps what is said of a line, unless it takes an
\* invalidation of a key under which the line is found.
LEMMA ProcessKeeps ==
    ASSUME TypeInv, NEW t \in Service, Process(t), NEW s \in Service, NEW d \in Call, NEW Old,
           ~(t = Owner[d] /\ \E k \in Reads[d] :
                IsInv(Head(WQ[t]), k) /\ <<s, d>> \in deps[t][k])
    PROVE  Keeps(s, d, Old)
  <1>1. /\ UNCHANGED <<db, unsent>> /\ [Next]_vars /\ Owner[d] \in Service
        /\ \A k \in Reads[d] : k \in Key /\ Owner[k] = Owner[d]
    BY ProcessTakes, GraphAssumption DEF Next, Managers
  <1>2. ASSUME \A k \in Reads[d] : <<s, d>> \in deps[Owner[d]][k], NEW k \in Reads[d]
        PROVE  /\ Coming(k)' \/ (db'[k] = db[k] /\ ~Coming(k))
               /\ <<s, d>> \in deps'[Owner[d]][k]
    <2>1. ~(t = Owner[d] /\ IsInv(Head(WQ[t]), k))
      BY <1>2
    <2>2. Coming(k) => Coming(k)'
      BY <1>1, <2>1, ComingTail
    <2>3. deps[Owner[d]][k] \subseteq deps'[Owner[d]][k]
      BY <1>1, <2>1, DepsKept
    <2>. QED
      BY <1>1, <1>2, <2>2, <2>3
  <1>. QED
    BY <1>1, <1>2, KeepsGood

\* The value a valid run ends with is good: each version that was overwritten
\* since would have made the run invalid, or its invalidation is coming and
\* finds the line in the index.
LEMMA EndGood ==
    ASSUME TypeInv, NEW t \in Service, ProcessEnd(t), NEW Old, NEW Unseen,
           AllJudged(Old, Unseen), NEW s \in Service, NEW d \in Call, Leaf(d), Owner[d] = t,
           NEW m, m = Head(WQ[t]), m.call = d, ValidCall(history[t], d, m.used),
           \A k \in m.used : <<s, d>> \in deps'[t][k]
    PROVE  Written(m.val, d)' /\ Good(m.val, s, d, Old)'
  <1>1. /\ Process(t) /\ UNCHANGED <<db, unsent>>
        /\ WQ[t] \in Seq(Message) /\ WQ[t] # <<>> /\ WQ'[t] = Tail(WQ[t])
    BY ProcessTakes DEF Process
  <1>2. m.type = "end" /\ IsEnd(WQ[t][1], d) /\ m = WQ[t][1] /\ 1 \in 1..Len(WQ[t])
    BY <1>1, EndSends, TailFacts DEF IsEnd, TypeInv
  <1>3. EndsJudged(d, Old)
    BY DEF AllJudged
  <1>4. /\ m.used = Reads[d] /\ Covers(m.val, Reads[d])
        /\ Judged(1, d, m.val, Reads[d], Old)
    BY <1>2, <1>3 DEF EndsJudged
  <1>5. Covers(m.val, Reads[d])'
    BY <1>1, <1>4 DEF Covers
  <1>6. CASE Excused(d, m.val, Old)
    BY <1>5, <1>6 DEF Written, Good, Excused
  <1>7. CASE Sound(history[t], WQ[t], 1, d, Overwritten(m.val, Reads[d]))
    <2>1. StartsBefore(WQ[t], 1, d) = {}
      BY DEF StartsBefore
    <2>2. ASSUME NEW k \in Reads[d]
          PROVE  (<<k, db[k]>> \in m.val \/ Coming(k))' /\ <<s, d>> \in deps'[t][k]
      <3>1. k \in Key /\ Owner[k] = t
        BY GraphAssumption
      <3>2. ~IsInv(Head(WQ[t]), k)
        BY <1>2 DEF IsInv
      <3>3. Coming(k) => Coming(k)'
        BY <1>1, <3>1, <3>2, ComingTail
      <3>4. k \in Overwritten(m.val, Reads[d]) => Coming(k)
        <4>1. k \notin InvalidatedSince(history[t], d)
          BY <1>4 DEF ValidCall
        <4>2. k \in Overwritten(m.val, Reads[d]) =>
                 \E i \in 1..Len(WQ[t]) : IsInv(WQ[t][i], k)
          BY <1>7, <4>1 DEF Sound, Noticed
        <4>. QED
          BY <3>1, <4>2 DEF Coming
      <3>5. <<k, db[k]>> \in m.val \/ Coming(k)
        <4>1. unsent[k] \in Nat
          BY <3>1, BoundAssumption DEF TypeInv, TypeOK
        <4>. QED
          BY <3>4, <4>1 DEF Overwritten, Coming
      <3>. QED
        BY <1>1, <1>4, <3>3, <3>5
    <2>3. Right(m.val, s, d)'
      BY <2>2 DEF Right
    <2>. QED
      BY <1>5, <2>3 DEF Written, Good
  <1>. QED
    BY <1>4, <1>6, <1>7 DEF Judged

LEMMA ProcessQueue ==
    ASSUME TypeInv, NEW t \in Service, Process(t), NEW Old, NEW Unseen,
           AllJudged(Old, Unseen), NEW s \in Service, NEW d \in Call, Leaf(d),
           QueueGood(s, d, Old)
    PROVE  /\ QueueGood(s, d, Old)'
           /\ More(s, d) => More(s, d)'
           /\ Keeps(s, d, Old) \/ More(s, d)'
  <1>. DEFINE o == Owner[d]
              e == <<s, d>>
  <1>1. /\ UNCHANGED <<db, unsent, buffer>> /\ o \in Service
        /\ HttpQueue[o] \in Seq(Request) /\ Head(WQ[t]) \in Message
    <2>1. WQ[t] \in Seq(Message) /\ WQ[t] # <<>>
      BY ProcessTakes
    <2>2. Head(WQ[t]) \in Message
      BY <2>1, TailFacts
    <2>. QED
      BY <2>2, ProcessTakes, GraphAssumption DEF TypeInv, TypeOK
  <1>2. \A val : Written(val, d) => Written(val, d)'
    BY <1>1 DEF Written, Covers
  <1>3. Written(NoVal, d)' /\ Good(NoVal, s, d, Old)'
    BY DEF Written, Good
  <1>4. ASSUME HttpQueue'[o] = HttpQueue[o], Keeps(s, d, Old)
        PROVE  /\ QueueGood(s, d, Old)'
               /\ More(s, d) => More(s, d)'
               /\ Keeps(s, d, Old) \/ More(s, d)'
    BY <1>1, <1>4, QueueSame
  <1>5. ASSUME NEW r \in Request, HttpQueue'[o] = Append(HttpQueue[o], r),
               e \in r.entries => Written(r.val, d)' /\ Good(r.val, s, d, Old)',
               e \notin r.entries => Keeps(s, d, Old)
        PROVE  /\ QueueGood(s, d, Old)'
               /\ More(s, d) => More(s, d)'
               /\ Keeps(s, d, Old) \/ More(s, d)'
    BY <1>1, <1>2, <1>5, QueueGrows
  <1>6. CASE t # o
    <2>1. HttpQueue'[o] = HttpQueue[o]
      <3>1. CASE ProcessStart(t) \/ ProcessSave(t)
        BY <3>1 DEF ProcessStart, ProcessSave
      <3>2. CASE ProcessEnd(t)
        BY <1>1, <1>6, <3>2, EndSends DEF TypeInv
      <3>3. CASE ProcessInvalidateKey(t)
        BY <1>1, <1>6, <3>3, KeyTells DEF TypeInv, Tells
      <3>4. CASE ProcessInvalidateCalls(t)
        BY <1>1, <1>6, <3>4, CallsTell DEF TypeInv, Tells
      <3>. QED
        BY <3>1, <3>2, <3>3, <3>4 DEF Process
    <2>. QED
      BY <1>4, <1>6, <2>1, ProcessKeeps
  <1>7. (\A k \in Reads[d] : ~IsInv(Head(WQ[t]), k)) => Keeps(s, d, Old)
    BY ProcessKeeps
  <1>8. CASE t = o /\ (ProcessStart(t) \/ ProcessSave(t))
    <2>1. HttpQueue' = HttpQueue /\ Head(WQ[t]).type # "inv"
      BY <1>8, TakeFacts DEF ProcessStart, ProcessSave, TypeInv
    <2>. QED
      BY <1>4, <1>7, <2>1 DEF IsInv
  <1>9. CASE t = o /\ ProcessInvalidateCalls(t)
    <2>1. Head(WQ[t]).type = "invcalls" /\ Tells(t, Head(WQ[t]).calls)
      BY <1>9, CallsTell DEF TypeInv
    <2>2. Keeps(s, d, Old)
      BY <1>7, <2>1 DEF IsInv
    <2>3. \/ HttpQueue'[o] = HttpQueue[o]
          \/ \E r \in Request : HttpQueue'[o] = Append(HttpQueue[o], r) /\ r.val = NoVal
      BY <1>9, <2>1 DEF Tells
    <2>. QED
      BY <1>3, <1>4, <1>5, <2>2, <2>3
  <1>10. CASE t = o /\ ProcessInvalidateKey(t)
    <2>1. PICK k : k = Head(WQ[t]).key
      OBVIOUS
    <2>2. Head(WQ[t]).type = "inv" /\ Tells(t, {k})
      BY <1>10, <2>1, KeyTells DEF TypeInv
    <2>0. PICK D : D = deps[t][k]
      OBVIOUS
    <2>3. (k \in Reads[d] => e \notin D) => Keeps(s, d, Old)
      BY <2>0, <2>1, ProcessKeeps DEF IsInv
    <2>4. CASE HttpQueue'[o] = HttpQueue[o]
      <3>1. D = {}
        <4>1. \A r \in Request : HttpQueue'[o] # Append(HttpQueue[o], r)
          BY <1>1, <2>4
        <4>. QED
          BY <1>10, <2>0, <2>2, <4>1 DEF Tells
      <3>. QED
        BY <1>4, <2>3, <2>4, <3>1
    <2>5. CASE HttpQueue'[o] # HttpQueue[o]
      <3>1. PICK r \in Request : /\ HttpQueue'[o] = Append(HttpQueue[o], r)
                                 /\ r.val = NoVal
                                 /\ e \in D => e \in r.entries
        BY <1>10, <2>0, <2>2, <2>5 DEF Tells
      <3>2. e \in r.entries => Written(r.val, d)' /\ Good(r.val, s, d, Old)'
        BY <1>3, <3>1
      <3>3. e \notin r.entries => Keeps(s, d, Old)
        BY <2>3, <3>1
      <3>. QED
        BY <1>5, <3>1, <3>2, <3>3
    <2>. QED
      BY <2>4, <2>5
  <1>11. CASE t = o /\ ProcessEnd(t)
    <2>1. PICK m : m = Head(WQ[t])
      OBVIOUS
    <2>2. /\ m.type = "end" /\ m.used \subseteq Dep
          /\ \/ HttpQueue'[t] = HttpQueue[t]
             \/ \E r \in Request :
                   /\ ValidCall(history[t], m.call, m.used)
                   /\ HttpQueue'[t] = Append(HttpQueue[t], r)
                   /\ r.val = m.val
                   /\ r.entries = {<<m.caller, m.call>>}
                   /\ \A x \in Dep : deps'[t][x] =
                         IF x \in m.used THEN deps[t][x] \cup {<<m.caller, m.call>>}
                         ELSE deps[t][x]
      BY ZenonT(40), <1>1, <1>11, <2>1, EndSends, MessageFacts DEF TypeInv
    <2>3. Keeps(s, d, Old)
      BY <1>7, <2>1, <2>2 DEF IsInv
    <2>4. ASSUME NEW r \in Request, ValidCall(history[t], m.call, m.used),
                 HttpQueue'[t] = Append(HttpQueue[t], r), r.val = m.val,
                 r.entries = {<<m.caller, m.call>>},
                 \A x \in Dep : deps'[t][x] =
                    IF x \in m.used THEN deps[t][x] \cup {<<m.caller, m.call>>} ELSE deps[t][x],
                 e \in r.entries
          PROVE  Written(m.val, d)' /\ Good(m.val, s, d, Old)'
      <3>1. m.call = d /\ <<m.caller, m.call>> = e
        BY <2>4
      <3>2. \A x \in m.used : e \in deps'[t][x]
        BY <2>2, <2>4, <3>1
      <3>. QED
        BY SMTT(60), <1>11, <2>1, <2>4, <3>1, <3>2, EndGood
    <2>5. CASE HttpQueue'[t] = HttpQueue[t]
      BY <1>4, <1>11, <2>3, <2>5
    <2>6. ASSUME NEW r \in Request, ValidCall(history[t], m.call, m.used),
                 HttpQueue'[t] = Append(HttpQueue[t], r), r.val = m.val,
                 r.entries = {<<m.caller, m.call>>},
                 \A x \in Dep : deps'[t][x] =
                    IF x \in m.used THEN deps[t][x] \cup {<<m.caller, m.call>>} ELSE deps[t][x]
          PROVE  /\ QueueGood(s, d, Old)'
                 /\ More(s, d) => More(s, d)'
                 /\ Keeps(s, d, Old) \/ More(s, d)'
      <3>1. e \in r.entries => Written(r.val, d)' /\ Good(r.val, s, d, Old)'
        BY <2>4, <2>6
      <3>. QED
        BY <1>5, <1>11, <2>3, <2>6, <3>1
    <2>. QED
      BY <2>2, <2>5, <2>6
  <1>. QED
    BY <1>6, <1>8, <1>9, <1>10, <1>11 DEF Process

\* What a manager takes from its work queue goes into its service's cache.
LEMMA CacheTaken ==
    ASSUME TypeInv, NEW t \in Service, Process(t), NEW s \in Service, NEW d \in Call
    PROVE  cache'[s][d] = IF t = s /\ Says(Head(WQ[t]), d) THEN Word(Head(WQ[t]), d)
                          ELSE cache[s][d]
  <1>1. cache \in [Service -> [Call -> Value \cup {NoVal}]]
    BY DEF TypeInv, TypeOK
  <1>2. PICK m : m = Head(WQ[t])
    OBVIOUS
  <1>3. CASE ProcessStart(t) \/ ProcessEnd(t) \/ ProcessInvalidateKey(t)
    <2>1. m.type \in {"start", "end", "inv"} /\ cache' = cache
      BY <1>2, <1>3, TakeFacts DEF ProcessStart, ProcessEnd, ProcessInvalidateKey, TypeInv
    <2>. QED
      BY <1>2, <2>1 DEF Says
  <1>4. CASE ProcessInvalidateCalls(t)
    <2>1. m.type = "invcalls"
      BY <1>2, <1>4, CallsTell DEF TypeInv
    <2>2. cache' = [cache EXCEPT ![t] =
                      [c \in Call |-> IF c \in m.calls THEN NoVal ELSE @[c]]]
      BY <1>2, <1>4 DEF ProcessInvalidateCalls
    <2>3. cache'[s][d] = IF t = s /\ d \in m.calls THEN NoVal ELSE cache[s][d]
      BY <1>1, <2>2
    <2>. QED
      BY <1>2, <2>1, <2>3 DEF Says, Word
  <1>5. CASE ProcessSave(t)
    <2>1. m.type = "save"
      BY <1>2, <1>5, TakeFacts DEF TypeInv, ProcessSave
    <2>2. cache' = [cache EXCEPT ![t] =
                      [c \in Call |-> IF m.lines[c] # NoVal THEN m.lines[c] ELSE @[c]]]
      BY <1>2, <1>5 DEF ProcessSave
    <2>3. cache'[s][d] = IF t = s /\ m.lines[d] # NoVal THEN m.lines[d] ELSE cache[s][d]
      BY <1>1, <2>2
    <2>. QED
      BY <1>2, <2>1, <2>3 DEF Says, Word
  <1>. QED
    BY <1>3, <1>4, <1>5 DEF Process

LEMMA ProcessLines ==
    ASSUME TypeInv, NEW t \in Service, Process(t), NEW Old, NEW Unseen,
           AllJudged(Old, Unseen), LinesGood(Old)
    PROVE  LinesGood(Old)'
  <1>. SUFFICES ASSUME NEW s \in Service, NEW d \in Call, Leaf(d)
                PROVE  QueueGood(s, d, Old)' /\ CacheGood(s, d, Old)'
    BY DEF LinesGood, Leaf
  <1>1. QueueGood(s, d, Old) /\ CacheGood(s, d, Old)
    BY DEF LinesGood
  <1>2. /\ QueueGood(s, d, Old)'
        /\ More(s, d) => More(s, d)'
        /\ Keeps(s, d, Old) \/ More(s, d)'
    BY <1>1, ProcessQueue
  <1>3. /\ UNCHANGED db /\ WQ[t] \in Seq(Message) /\ WQ[t] # <<>>
        /\ WQ'[t] = Tail(WQ[t]) /\ \A u \in Service : u # t => WQ'[u] = WQ[u]
    BY ProcessTakes
  <1>4. \A val : Written(val, d) => Written(val, d)'
    BY <1>3 DEF Written, Covers
  <1>5. cache'[s][d] = IF t = s /\ Says(Head(WQ[t]), d) THEN Word(Head(WQ[t]), d)
                       ELSE cache[s][d]
    BY CacheTaken
  <1>6. CASE t # s
    <2>1. Posted(s, d)' = Posted(s, d) /\ \A i \in Posted(s, d) : WQ'[s][i] = WQ[s][i]
      BY <1>3, <1>6 DEF Posted, Says
    <2>. QED
      BY <1>1, <1>2, <1>4, <1>5, <1>6, <2>1, CacheSame
  <1>7. CASE t = s
    BY <1>1, <1>2, <1>3, <1>4, <1>5, <1>7, CacheTakes
  <1>. QED
    BY <1>2, <1>6, <1>7

-----------------------------------------------------------------------------
\* The invariant as a whole.

LEMMA LeafInit ==
    ASSUME Init, NEW Old, NEW Unseen
    PROVE  LeafInv(Old, Unseen)
  <1>1. Shaped /\ Home
    BY ShapedInit, HomeInit
  <1>2. \A t \in Service : /\ WQ[t] = <<>> /\ HttpQueue[t] = <<>> /\ buffer[t] = Empty
                           /\ Len(WQ[t]) = 0 /\ Len(HttpQueue[t]) = 0
    BY DEF Init
  <1>3. \A d \in Call : Owner[d] \in Service
    BY GraphAssumption
  <1>4. AllJudged(Old, Unseen)
    BY <1>2, <1>3 DEF Init, Idle, AllJudged, RunJudged, EndsJudged
  <1>5. ASSUME NEW s \in Service, NEW d \in Call
        PROVE  QueueGood(s, d, Old) /\ CacheGood(s, d, Old)
    <2>1. Queued(s, d) = {} /\ ~Merged(s, d) /\ Posted(s, d) = {}
      BY <1>2, <1>3 DEF Queued, Merged, Posted, Buffered, Saved, Empty
    <2>2. cache[s][d] = NoVal
      BY DEF Init
    <2>. QED
      BY <2>1, <2>2 DEF QueueGood, CacheGood, Written, Good
  <1>. QED
    BY <1>1, <1>4, <1>5 DEF LeafInv, LinesGood

LEMMA LeafNext ==
    ASSUME TypeInv, [Next]_vars, NEW Old, NEW Unseen, LeafInv(Old, Unseen),
           \A c \in Call : PreReqEnd(c) => c \notin Unseen
    PROVE  LeafInv(Old, Unseen)'
  <1>1. Shaped' /\ Home'
    BY ShapedNext, HomeNext DEF LeafInv
  <1>2. CASE Writers \/ Clients \/ Handlers
    BY <1>1, <1>2, ServicesJudge, ServiceLines DEF LeafInv
  <1>3. CASE Managers
    <2>1. AllJudged(Old, Unseen)'
      BY <1>3, ManagersJudge DEF LeafInv
    <2>2. LinesGood(Old)'
      BY <1>3, ProcessLines, ReceiveLines, FlushLines DEF Managers, LeafInv
    <2>. QED
      BY <1>1, <2>1, <2>2 DEF LeafInv
  <1>4. CASE UNCHANGED vars
    <2>. USE <1>4 DEF vars, app, manager, sender
    <2>1. AllJudged(Old, Unseen)'
      <3>1. \A d \in Call : RunJudged(d, Old, Unseen) => RunJudged(d, Old, Unseen)'
        BY DEF RunJudged, Judged, Excused, Overwritten
      <3>2. \A d \in Call : EndsJudged(d, Old) => EndsJudged(d, Old)'
        BY ZenonT(40) DEF EndsJudged, Judged, Excused, Overwritten, Covers
      <3>. QED
        BY <3>1, <3>2 DEF LeafInv, AllJudged, Leaf
    <2>2. LinesGood(Old)'
      <3>1. ASSUME NEW s \in Service, NEW d \in Call, QueueGood(s, d, Old), CacheGood(s, d, Old)
            PROVE  QueueGood(s, d, Old)' /\ CacheGood(s, d, Old)'
        <4>1. Keeps(s, d, Old)
          BY KeepsGood DEF Coming
        <4>2. QueueGood(s, d, Old)' /\ More(s, d)' = More(s, d)
          BY <3>1, <4>1, QueueSame
        <4>3. Posted(s, d)' = Posted(s, d)
          BY DEF Posted, Says
        <4>4. \A val : Written(val, d) => Written(val, d)'
          BY <4>1 DEF Keeps
        <4>. QED
          BY <3>1, <4>1, <4>2, <4>3, <4>4, CacheSame
      <3>. QED
        BY <3>1 DEF LeafInv, LinesGood, Leaf
    <2>. QED
      BY <1>1, <2>1, <2>2 DEF LeafInv
  <1>. QED
    BY <1>2, <1>3, <1>4 DEF Next

\* Without faults nothing is excused: a value of the line that misses a version
\* of the database has an invalidation of that version on its way.
LEMMA LeafInvPending == TypeInv /\ LeafInv({}, {}) => LeafStaleIsPending
  <1>. SUFFICES ASSUME TypeInv, LeafInv({}, {}), NEW s \in Service, NEW c \in Call,
                       Leaf(c), Stale(s, c)
                PROVE  InvPending(s, c)
    BY DEF LeafStaleIsPending
  <1>1. CacheGood(s, c, {})
    BY DEF LeafInv, LinesGood
  <1>2. PICK val : val = cache[s][c]
    OBVIOUS
  <1>3. Footprint[c] = Reads[c]
    BY FootprintAssumption DEF Leaf
  <1>4. PICK k \in Reads[c] : <<k, db[k]>> \notin val
    BY <1>2, <1>3 DEF Stale
  <1>5. \/ Good(val, s, c, {})
        \/ Posted(s, c) # {}
        \/ More(s, c)
    BY <1>1, <1>2 DEF CacheGood
  <1>6. CASE Posted(s, c) # {}
    BY <1>6 DEF Posted, Says, InvPending
  <1>7. CASE More(s, c)
    BY <1>7 DEF More, Merged, Queued, InvPending
  <1>8. CASE Good(val, s, c, {})
    <2>1. val # NoVal /\ ~Excused(c, val, {})
      BY <1>2, <1>4 DEF Stale, Excused
    <2>2. Coming(k)
      BY <1>4, <1>8, <2>1 DEF Good, Right
    <2>3. k \in Key /\ WQ[Owner[k]] \in Seq(Message)
      BY GraphAssumption DEF TypeInv, TypeOK
    <2>4. \A m \in Message : IsInv(m, k) => m = [type |-> "inv", key |-> k]
      BY DEF Message, IsInv
    <2>5. \A i \in 1..Len(WQ[Owner[k]]) : WQ[Owner[k]][i] \in Message
      BY <2>3
    <2>. QED
      BY <1>3, <2>2, <2>4, <2>5 DEF Coming, InvPending
  <1>. QED
    BY <1>5, <1>6, <1>7, <1>8

\* Between a service and the database owner it calls, the system never forgets
\* to invalidate: for every call graph in which a leaf call's handler reads keys
\* of its own service, in whatever order the managers, the senders and the
\* handlers move, a stale line of a leaf call has a request that will replace it
\* on its way.
THEOREM LeafPending == Spec => []LeafStaleIsPending
  <1>1. Init => TypeInv /\ LeafInv({}, {})
    BY TypingInit, LeafInit
  <1>2. TypeInv /\ LeafInv({}, {}) /\ [Next]_vars => (TypeInv /\ LeafInv({}, {}))'
    <2>1. \A c \in Call : c \notin {}
      OBVIOUS
    <2>. QED
      BY <2>1, TypingNext, LeafNext
  <1>3. TypeInv /\ LeafInv({}, {}) => LeafStaleIsPending
    BY LeafInvPending
  <1>. QED
    BY <1>1, <1>2, <1>3, PTL DEF Spec

-----------------------------------------------------------------------------
(***************************************************************************)
(* A chain of calls.  Without the races of NoRaceSpec the transitive       *)
(* invalidation of upstream lines misses none.                             *)
(*                                                                         *)
(* A step of the system is in one of two phases: nothing runs, or nothing  *)
(* is being invalidated.  L is a set of lines whose values are indexed     *)
(* under all they depend on, M one of lines that will be told to go: by a  *)
(* word on its way, by a write of a key they are indexed under, or by the  *)
(* invalidation of a line of M that they were computed from.               *)
(***************************************************************************)
Phases == NothingRuns \/ NothingInvalidated

\* All that is still to reach the line of d in the cache of s.
Words(s, d) ==
    {HttpQueue[Owner[d]][i].val : i \in Queued(s, d)}
        \cup (IF Merged(s, d) THEN {buffer[Owner[d]].save[<<s, d>>]} ELSE {})
        \cup {Word(WQ[s][i], d) : i \in Posted(s, d)}

\* Nothing is saved behind an invalidation.
Ordered(s, d) ==
    /\ \A i, j \in Queued(s, d) :
          i < j /\ HttpQueue[Owner[d]][i].val = NoVal => HttpQueue[Owner[d]][j].val = NoVal
    /\ Merged(s, d) /\ buffer[Owner[d]].save[<<s, d>>] = NoVal =>
          \A j \in Queued(s, d) : HttpQueue[Owner[d]][j].val = NoVal
    /\ \A i \in Posted(s, d) : Word(WQ[s][i], d) = NoVal =>
          /\ \A j \in Posted(s, d) : i < j => Word(WQ[s][j], d) = NoVal
          /\ Merged(s, d) => buffer[Owner[d]].save[<<s, d>>] = NoVal
          /\ \A j \in Queued(s, d) : HttpQueue[Owner[d]][j].val = NoVal

Fresh(val, d) == \A k \in Footprint[d] : <<k, db[k]>> \in val

\* The end of a run of d for t is waiting to be judged.
Ending(t, d) ==
    \E i \in 1..Len(WQ[Owner[d]]) : IsEnd(WQ[Owner[d]][i], d) /\ WQ[Owner[d]][i].caller = t

Linked(t, d, L, M) == <<t, d>> \in L \/ <<t, d>> \in M \/ Ending(t, d)

Indexed(s, d, x) == <<s, d>> \in deps[Owner[d]][x]

Warned(s, d, M) ==
    \/ NoVal \in Words(s, d)
    \/ \E k \in Reads[d] : Coming(k) /\ Indexed(s, d, k)
    \/ \E x \in Calls[d] : <<Owner[d], x>> \in M /\ Indexed(s, d, x)

Line(s, d, L, M) ==
    /\ <<s, d>> \in L => /\ \A x \in Reads[d] \cup Calls[d] : Indexed(s, d, x)
                         /\ \A x \in Calls[d] : Linked(Owner[d], x, L, M)
    /\ <<s, d>> \in M => Warned(s, d, M)
    /\ NoVal \in Words(s, d) => <<s, d>> \in M
    /\ \A val \in Words(s, d) \cup {cache[s][d]} :
          val # NoVal => <<s, d>> \in M \/ (<<s, d>> \in L /\ Fresh(val, d))
    /\ Ordered(s, d)

Lines(L, M) == \A s \in Service, d \in Call : Line(s, d, L, M)

\* A run has only read what is in the databases, ...
RunFresh(c, L, M) ==
    run[c].phase # "idle" =>
       /\ \A k \in Reads[c] \ run[c].todo : <<k, db[k]>> \in run[c].got
       /\ \A x \in Calls[c] \ run[c].todo : Fresh(run[c].got, x)
       /\ run[c].parent \in Call =>
             /\ run[c].used = (Reads[c] \cup Calls[c]) \ run[c].todo
             /\ \A x \in Calls[c] \ run[c].todo : Linked(Owner[c], x, L, M)

\* ... and so has one that has ended.
EndsFresh(c, L, M) ==
    \A j \in 1..Len(WQ[Owner[c]]) : IsEnd(WQ[Owner[c]][j], c) =>
       LET m == WQ[Owner[c]][j]
       IN  /\ m.used = Reads[c] \cup Calls[c]
           /\ Fresh(m.val, c)
           /\ \A x \in Calls[c] : Linked(Owner[c], x, L, M)

AllFresh(L, M) == \A c \in Call : RunFresh(c, L, M) /\ EndsFresh(c, L, M)

\* Nothing is invalidated between the start of a run and its judgement.
Undisturbed(h, q, j, d) ==
    /\ Sound(h, q, j, d, {})
    /\ StartsBefore(q, j, d) = {} => InvalidatedSince(h, d) = {}

RunUndisturbed(d) ==
    run[d].phase = "on" /\ run[d].parent \in Call =>
       Undisturbed(history[Owner[d]], WQ[Owner[d]], Len(WQ[Owner[d]]) + 1, d)

EndsUndisturbed(d) ==
    \A j \in 1..Len(WQ[Owner[d]]) : IsEnd(WQ[Owner[d]][j], d) =>
       Undisturbed(history[Owner[d]], WQ[Owner[d]], j, d)

AllUndisturbed == \A d \in Call : RunUndisturbed(d) /\ EndsUndisturbed(d)

\* What a sender saves it does not invalidate.
Apart == \A t \in Service : DisjointBuffer(buffer[t])

ChainInv ==
    /\ TypeInv /\ Shaped /\ Home /\ Apart
    /\ Phases
    /\ AllUndisturbed
    /\ \E L, M \in SUBSET Entry : Lines(L, M) /\ AllFresh(L, M)

-----------------------------------------------------------------------------
\* With no invalidation on its way nothing will be told to go.
LEMMA NoWordToGo ==
    ASSUME TypeInv, NothingInvalidated
    PROVE  /\ \A s \in Service, d \in Call : NoVal \notin Words(s, d)
           /\ \A k \in Key : ~Coming(k)
  <1>1. ASSUME NEW s \in Service, NEW d \in Call, NoVal \in Words(s, d) PROVE FALSE
    <2>1. /\ Owner[d] \in Service /\ <<s, d>> \in Entry
          /\ HttpQueue[Owner[d]] \in Seq(Request) /\ buffer[Owner[d]] \in Buffer
          /\ WQ[s] \in Seq(Message)
      BY GraphAssumption DEF TypeInv, TypeOK, Entry
    <2>2. ASSUME NEW i \in Queued(s, d), HttpQueue[Owner[d]][i].val = NoVal PROVE FALSE
      <3>1. i \in 1..Len(HttpQueue[Owner[d]]) /\ HttpQueue[Owner[d]][i].save
        BY <2>1 DEF Queued, NothingInvalidated
      <3>2. HttpQueue[Owner[d]][i] \in Request
        BY <2>1, <3>1
      <3>3. HttpQueue[Owner[d]][i].val \in Value
        BY <3>1, <3>2, RequestFacts
      <3>. QED
        BY <2>2, <3>3, AbsenceAssumption
    <2>3. ASSUME Merged(s, d), buffer[Owner[d]].save[<<s, d>>] = NoVal PROVE FALSE
      BY <2>1, <2>3 DEF Merged, Buffered, Saved, NothingInvalidated
    <2>4. ASSUME NEW i \in Posted(s, d), Word(WQ[s][i], d) = NoVal PROVE FALSE
      BY <2>4 DEF Posted, Says, Word, NothingInvalidated
    <2>. QED
      BY <1>1, <2>2, <2>3, <2>4 DEF Words
  <1>2. ASSUME NEW k \in Key, Coming(k) PROVE FALSE
    <2>1. Owner[k] \in Service
      BY GraphAssumption
    <2>. QED
      BY <1>2, <2>1 DEF Coming, IsInv, NothingInvalidated
  <1>. QED
    BY <1>1, <1>2

\* Where calls make no cycle some call of a set makes no call of the set.
LEMMA LastCalled ==
    ASSUME Acyclic, NEW S \in SUBSET Call, S # {}
    PROVE  \E c \in S : Calls[c] \cap S = {}
  <1>1. PICK depth \in [Call -> 0..Cardinality(Call)] :
           \A c \in Call : \A d \in Calls[c] : depth[d] < depth[c]
    BY DEF Acyclic
  <1>2. \A c \in Call : depth[c] \in Nat
    BY <1>1, GraphAssumption, FS_CardinalityType
  <1>. DEFINE D == {depth[c] : c \in S}
              R == OpToRel(<, Nat)
  <1>3. D \subseteq Nat /\ D # {}
    BY <1>2
  <1>4. R = {p \in Nat \X Nat : p[1] < p[2]}
    BY DEF OpToRel
  <1>5. IsWellFoundedOn(R, Nat)
    BY NatLessThanWellFounded
  <1>6. \A n \in D : \E c \in S : depth[c] = n
    OBVIOUS
  <1>7. \A c \in S : depth[c] \in D
    OBVIOUS
  <1>. HIDE DEF R, D
  <1>8. PICK n \in D : \A m \in D : <<m, n>> \notin R
    BY <1>3, <1>5, WFMin
  <1>9. \A m \in D : ~(m < n)
    <2>. SUFFICES ASSUME NEW m \in D, m < n PROVE FALSE
      OBVIOUS
    <2>1. <<m, n>> \notin R /\ m \in Nat /\ n \in Nat
      BY <1>3, <1>8
    <2>. QED
      BY <1>4, <2>1
  <1>10. PICK c \in S : depth[c] = n
    BY <1>6
  <1>. QED
    BY <1>1, <1>7, <1>9, <1>10

\* So no line waits for another to be told to go.
LEMMA NoneToGo ==
    ASSUME Acyclic, TypeInv, NothingInvalidated, NEW L, NEW M \in SUBSET Entry, Lines(L, M)
    PROVE  M = {}
  <1>1. ASSUME NEW e \in M
        PROVE  /\ e[2] \in Call
               /\ \E x \in Calls[e[2]] : \E f \in M : f[2] = x
    <2>1. PICK s \in Service, d \in Call : e = <<s, d>>
      BY DEF Entry
    <2>2. Warned(s, d, M)
      BY <2>1 DEF Lines, Line
    <2>3. NoVal \notin Words(s, d) /\ \A k \in Reads[d] : ~Coming(k)
      BY NoWordToGo, GraphAssumption
    <2>4. PICK x \in Calls[d] : <<Owner[d], x>> \in M
      BY <2>2, <2>3 DEF Warned
    <2>5. <<Owner[d], x>>[2] = x
      OBVIOUS
    <2>. QED
      BY <2>1, <2>4, <2>5
  <1>. DEFINE S == {e[2] : e \in M}
  <1>2. S \subseteq Call
    BY <1>1
  <1>3. \A c \in S : Calls[c] \cap S # {}
    BY <1>1
  <1>. HIDE DEF S
  <1>4. S = {}
    BY <1>2, <1>3, LastCalled
  <1>. QED
    BY <1>4 DEF S

\* The answer to a call depends on keys.
LEMMA FootprintKeys ==
    ASSUME Acyclic
    PROVE  \A c \in Call : Footprint[c] \subseteq Key
  <1>. DEFINE S == {c \in Call : ~(Footprint[c] \subseteq Key)}
  <1>1. ASSUME NEW c \in S, Calls[c] \cap S = {} PROVE FALSE
    <2>1. \A d \in Calls[c] : Footprint[d] \subseteq Key
      BY <1>1, GraphAssumption
    <2>2. UNION {Footprint[d] : d \in Calls[c]} \subseteq Key
      BY <2>1
    <2>3. Reads[c] \subseteq Key
      BY GraphAssumption
    <2>. QED
      BY <2>2, <2>3, FootprintAssumption
  <1>2. S \subseteq Call
    OBVIOUS
  <1>3. S = {} => \A c \in Call : Footprint[c] \subseteq Key
    OBVIOUS
  <1>. HIDE DEF S
  <1>. QED
    BY <1>1, <1>2, <1>3, LastCalled

-----------------------------------------------------------------------------
\* The steps without races are steps, and the phases alternate.
LEMMA NoRaceSteps == [NoRaceNext]_vars => [Next]_vars
  BY DEF NoRaceNext, WritesAlone, ReadsAlone, Next, Writers

\* A handler moves only while something runs.
LEMMA HandlersRun ==
    ASSUME TypeInv, Handlers
    PROVE  ~NothingRuns
  <1>1. PICK c \in Call : run[c].phase \in {"asked", "on"}
    BY DEF Handlers, PreReqStart, PreReqEnd, GetState, InvokeHit, InvokeMiss, Active
  <1>. QED
    BY <1>1 DEF NothingRuns, Idle

\* What a request without an invalidation does to a buffer without one.
LEMMA SaveRequest ==
    ASSUME NEW b \in Buffer, NEW r \in Request, r.save, b.inv = {}
    PROVE  AddRequest(b, r).inv = {}
  <1>1. PICK x : AddRequest(b, r) = AddSave(b, x, r.val)
    BY DEF AddRequest
  <1>. QED
    BY <1>1 DEF AddSave

LEMMA PhasesProcess ==
    ASSUME TypeInv, NEW t \in Service, Process(t)
    PROVE  /\ NothingRuns => NothingRuns'
           /\ NothingInvalidated => NothingInvalidated'
  <1>1. /\ UNCHANGED <<unsent, run, buffer>>
        /\ WQ[t] \in Seq(Message) /\ WQ[t] # <<>>
        /\ WQ'[t] = Tail(WQ[t])
        /\ \A u \in Service : u # t => WQ'[u] = WQ[u]
    BY ProcessTakes
  <1>2. /\ Len(WQ[t]) \in Nat \ {0} /\ Len(WQ'[t]) = Len(WQ[t]) - 1 /\ WQ[t][1] = Head(WQ[t])
        /\ \A j \in 1..Len(WQ'[t]) : WQ'[t][j] = WQ[t][j + 1]
    BY <1>1, TailFacts
  <1>3. \A u \in Service : \A i \in 1..Len(WQ'[u]) :
           \E j \in 1..Len(WQ[u]) : WQ'[u][i] = WQ[u][j]
    <2>1. \A i \in 1..Len(WQ'[t]) : i + 1 \in 1..Len(WQ[t])
      BY <1>2
    <2>. QED
      BY ZenonT(40), <1>1, <1>2, <2>1
  <1>4. NothingRuns => NothingRuns'
    BY <1>1, <1>3 DEF NothingRuns
  <1>5. ASSUME NothingInvalidated PROVE NothingInvalidated'
    <2>1. 1 \in 1..Len(WQ[t])
      BY <1>2
    <2>2. Head(WQ[t]).type \notin {"inv", "invcalls"}
      BY <1>2, <1>5, <2>1 DEF NothingInvalidated
    <2>3. ~ProcessInvalidateKey(t) /\ ~ProcessInvalidateCalls(t)
      BY <2>2 DEF ProcessInvalidateKey, ProcessInvalidateCalls, Take
    <2>4. HttpQueue' = HttpQueue \/ \E r : r.save /\ Send(t, r) /\ r \in Request
      <3>1. CASE ProcessStart(t) \/ ProcessSave(t)
        BY <3>1 DEF ProcessStart, ProcessSave
      <3>2. CASE ProcessEnd(t)
        <4>1. PICK m : m = Head(WQ[t])
          OBVIOUS
        <4>2. m \in Message /\ m.type = "end"
          BY <3>2, <4>1, TakeFacts DEF TypeInv, ProcessEnd
        <4>3. [save |-> TRUE, entries |-> {<<m.caller, m.call>>}, val |-> m.val] \in Request
          BY <4>2, MessageFacts DEF Request, Entry
        <4>. QED
          BY <3>2, <4>1, <4>3 DEF ProcessEnd
      <3>. QED
        BY <2>3, <3>1, <3>2 DEF Process
    <2>5. ASSUME NEW u \in Service, NEW i \in 1..Len(HttpQueue'[u])
          PROVE  HttpQueue'[u][i].save
      <3>1. CASE HttpQueue' = HttpQueue
        BY <1>5, <3>1 DEF NothingInvalidated
      <3>2. ASSUME NEW r \in Request, r.save, Send(t, r)
            PROVE  HttpQueue'[u][i].save
        <4>1. /\ HttpQueue'[t] = Append(HttpQueue[t], r)
              /\ \A w \in Service : w # t => HttpQueue'[w] = HttpQueue[w]
          BY <3>2, SendFacts DEF TypeInv
        <4>2. HttpQueue[t] \in Seq(Request)
          BY DEF TypeInv, TypeOK
        <4>3. CASE u = t
          <5>1. /\ Len(HttpQueue[t]) \in Nat /\ Len(HttpQueue'[t]) = Len(HttpQueue[t]) + 1
                /\ \A j \in 1..Len(HttpQueue[t]) : HttpQueue'[t][j] = HttpQueue[t][j]
                /\ HttpQueue'[t][Len(HttpQueue[t]) + 1] = r
            BY <4>1, <4>2, AppendFacts
          <5>2. i \in 1..Len(HttpQueue[t]) \/ i = Len(HttpQueue[t]) + 1
            BY <4>3, <5>1
          <5>. QED
            BY <1>5, <3>2, <4>3, <5>1, <5>2 DEF NothingInvalidated
        <4>4. CASE u # t
          BY <1>5, <4>1, <4>4 DEF NothingInvalidated
        <4>. QED
          BY <4>3, <4>4
      <3>. QED
        BY <2>4, <3>1, <3>2
    <2>6. \A u \in Service : \A i \in 1..Len(WQ'[u]) : WQ'[u][i].type \notin {"inv", "invcalls"}
      <3>1. \A u \in Service : \A j \in 1..Len(WQ[u]) : WQ[u][j].type \notin {"inv", "invcalls"}
        BY <1>5 DEF NothingInvalidated
      <3>. SUFFICES ASSUME NEW u \in Service, NEW i \in 1..Len(WQ'[u])
                    PROVE  WQ'[u][i].type \notin {"inv", "invcalls"}
        BY Zenon
      <3>2. PICK j \in 1..Len(WQ[u]) : WQ'[u][i] = WQ[u][j]
        BY <1>3
      <3>. QED
        BY <3>1, <3>2
    <2>. QED
      BY <1>1, <1>5, <2>5, <2>6 DEF NothingInvalidated
  <1>. QED
    BY <1>4, <1>5

\* Where a message is appended, the others stay.
LEMMA Appended ==
    ASSUME TypeInv, NEW t \in Service, NEW m \in Message,
           WQ' = [WQ EXCEPT ![t] = Append(@, m)], NEW s \in Service, NEW i \in 1..Len(WQ'[s])
    PROVE  (i \in 1..Len(WQ[s]) /\ WQ'[s][i] = WQ[s][i]) \/ WQ'[s][i] = m
  <1>1. WQ[s] \in Seq(Message) /\ WQ \in [Service -> Seq(Message)]
    BY DEF TypeInv, TypeOK
  <1>2. CASE s # t
    BY <1>1, <1>2
  <1>3. CASE s = t
    <2>1. /\ Len(WQ[s]) \in Nat /\ Len(WQ'[s]) = Len(WQ[s]) + 1
          /\ \A j \in 1..Len(WQ[s]) : WQ'[s][j] = WQ[s][j]
          /\ WQ'[s][Len(WQ[s]) + 1] = m
      BY <1>1, <1>3, AppendFacts
    <2>2. i \in 1..Len(WQ[s]) \/ i = Len(WQ[s]) + 1
      BY <2>1
    <2>. QED
      BY <2>1, <2>2
  <1>. QED
    BY <1>2, <1>3

LEMMA PhasesHandlers ==
    ASSUME TypeInv, Handlers, NothingInvalidated
    PROVE  NothingInvalidated'
  <1>1. UNCHANGED <<unsent, HttpQueue, buffer>>
    BY DEF Handlers, PreReqStart, PreReqEnd, GetState, InvokeHit, InvokeMiss, sender
  <1>2. \/ UNCHANGED WQ
        \/ \E t \in Service, m \in Message :
              m.type \in {"start", "end"} /\ WQ' = [WQ EXCEPT ![t] = Append(@, m)]
    <2>1. ASSUME NEW c \in Call, PreReqStart(c)
          PROVE  \E t \in Service, m \in Message :
                    m.type \in {"start", "end"} /\ WQ' = [WQ EXCEPT ![t] = Append(@, m)]
      <3>. DEFINE m == [type |-> "start", call |-> c]
      <3>1. m \in Message /\ m.type \in {"start", "end"} /\ Owner[c] \in Service
        BY GraphAssumption DEF Message
      <3>2. WQ' = [WQ EXCEPT ![Owner[c]] = Append(@, m)]
        BY <2>1 DEF PreReqStart
      <3>. HIDE DEF m
      <3>. QED
        BY <3>1, <3>2
    <2>2. ASSUME NEW c \in Call, PreReqEnd(c), ~ByClient(c)
          PROVE  \E t \in Service, m \in Message :
                    m.type \in {"start", "end"} /\ WQ' = [WQ EXCEPT ![t] = Append(@, m)]
      <3>. DEFINE m == [type |-> "end", call |-> c, caller |-> Owner[run[c].parent],
                        used |-> run[c].used, val |-> run[c].got]
      <3>1. run[c].parent \in Call /\ run[c].got \in Value /\ run[c].used \in SUBSET Dep
        BY <2>2 DEF ByClient, Run, TypeInv, TypeOK
      <3>2. m \in Message /\ m.type \in {"start", "end"} /\ Owner[c] \in Service
        BY <3>1, GraphAssumption DEF Message
      <3>3. WQ' = [WQ EXCEPT ![Owner[c]] = Append(@, m)]
        BY <2>2 DEF PreReqEnd
      <3>. HIDE DEF m
      <3>. QED
        BY <3>2, <3>3
    <2>3. ASSUME NEW c \in Call, PreReqEnd(c), ByClient(c) PROVE UNCHANGED WQ
      BY <2>3 DEF PreReqEnd
    <2>. QED
      BY <2>1, <2>2, <2>3 DEF Handlers, GetState, InvokeHit, InvokeMiss
  <1>3. ASSUME NEW s \in Service, NEW i \in 1..Len(WQ'[s])
        PROVE  WQ'[s][i].type \notin {"inv", "invcalls"}
    <2>1. \A j \in 1..Len(WQ[s]) : WQ[s][j].type \notin {"inv", "invcalls"}
      BY DEF NothingInvalidated
    <2>2. ASSUME NEW t \in Service, NEW m \in Message, m.type \in {"start", "end"},
                 WQ' = [WQ EXCEPT ![t] = Append(@, m)]
          PROVE  WQ'[s][i].type \notin {"inv", "invcalls"}
      <3>1. (i \in 1..Len(WQ[s]) /\ WQ'[s][i] = WQ[s][i]) \/ WQ'[s][i] = m
        BY <2>2, Appended
      <3>. QED
        BY <2>1, <2>2, <3>1
    <2>. QED
      BY <1>2, <2>1, <2>2
  <1>. QED
    BY <1>1, <1>3 DEF NothingInvalidated

LEMMA PhasesNext ==
    ASSUME TypeInv, [NoRaceNext]_vars, Phases
    PROVE  Phases'
  <1>1. ASSUME NEW k \in Key, NothingRuns, Write(k) PROVE Phases'
    BY <1>1 DEF Phases, NothingRuns, Write
  <1>2. ASSUME NEW k \in Key, PostWrite(k) PROVE Phases'
    <2>. DEFINE m == [type |-> "inv", key |-> k]
    <2>1. NothingRuns
      <3>1. unsent[k] # 0
        BY <1>2 DEF PostWrite
      <3>. QED
        BY <3>1 DEF Phases, NothingInvalidated
    <2>2. m \in Message /\ m.type = "inv" /\ Owner[k] \in Service
      BY GraphAssumption DEF Message
    <2>3. run' = run /\ WQ' = [WQ EXCEPT ![Owner[k]] = Append(@, m)]
      BY <1>2 DEF PostWrite
    <2>. HIDE DEF m
    <2>4. ASSUME NEW s \in Service, NEW i \in 1..Len(WQ'[s])
          PROVE  WQ'[s][i].type \notin {"start", "end"}
      <3>1. (i \in 1..Len(WQ[s]) /\ WQ'[s][i] = WQ[s][i]) \/ WQ'[s][i] = m
        BY <2>2, <2>3, Appended
      <3>. QED
        BY <2>1, <2>2, <3>1 DEF NothingRuns
    <2>. QED
      BY <2>1, <2>3, <2>4 DEF Phases, NothingRuns
  <1>3. CASE ReadsAlone
    BY <1>3 DEF ReadsAlone, Clients, ClientRequest, Phases, NothingInvalidated, sender
  <1>4. CASE Handlers
    BY <1>4, HandlersRun, PhasesHandlers DEF Phases
  <1>5. ASSUME NEW t \in Service, Receive(t) PROVE Phases'
    <2>1. UNCHANGED <<unsent, run, WQ>>
      BY <1>5 DEF Receive, app, manager
    <2>2. /\ buffer \in [Service -> Buffer] /\ HttpQueue \in [Service -> Seq(Request)]
          /\ HttpQueue[t] # <<>> /\ HttpQueue' = [HttpQueue EXCEPT ![t] = Tail(@)]
          /\ buffer' = [buffer EXCEPT ![t] = AddRequest(@, Head(HttpQueue[t]))]
      BY <1>5 DEF Receive, TypeInv, TypeOK
    <2>3. PICK q : q = HttpQueue[t]
      OBVIOUS
    <2>4. /\ Len(q) \in Nat \ {0} /\ Len(Tail(q)) = Len(q) - 1 /\ Head(q) = q[1]
          /\ q[1] \in Request
          /\ \A i \in 1..Len(Tail(q)) : Tail(q)[i] = q[i + 1]
      <3>1. q \in Seq(Request) /\ q # <<>>
        BY <2>2, <2>3
      <3>. QED
        BY <3>1, TailFacts
    <2>5. ASSUME NothingInvalidated PROVE NothingInvalidated'
      <3>1. \A i \in 1..Len(q) : q[i].save
        BY <2>3, <2>5 DEF NothingInvalidated
      <3>2. 1 \in 1..Len(q) /\ \A i \in 1..Len(Tail(q)) : i + 1 \in 1..Len(q)
        BY <2>4
      <3>3. AddRequest(buffer[t], Head(q)).inv = {}
        BY <2>2, <2>4, <2>5, <3>1, <3>2, SaveRequest DEF NothingInvalidated
      <3>4. \A s \in Service : buffer'[s].inv = {}
        BY <2>2, <2>3, <2>5, <3>3 DEF NothingInvalidated
      <3>5. \A s \in Service : \A i \in 1..Len(HttpQueue'[s]) : HttpQueue'[s][i].save
        <4>1. \A i \in 1..Len(Tail(q)) : Tail(q)[i].save
          BY <2>4, <3>1, <3>2
        <4>2. \A s \in Service : HttpQueue'[s] = IF s = t THEN Tail(q) ELSE HttpQueue[s]
          BY <2>2, <2>3
        <4>. QED
          BY <2>5, <4>1, <4>2 DEF NothingInvalidated
      <3>. QED
        BY <2>1, <2>5, <3>4, <3>5 DEF NothingInvalidated
    <2>. QED
      BY <2>1, <2>5 DEF Phases, NothingRuns
  <1>6. ASSUME NEW t \in Service, Flush(t) PROVE Phases'
    <2>1. UNCHANGED <<unsent, run, HttpQueue>>
      BY <1>6 DEF Flush, app, manager
    <2>2. ASSUME NEW s \in Service, NEW i \in 1..Len(WQ'[s])
          PROVE  \/ i \in 1..Len(WQ[s]) /\ WQ'[s][i] = WQ[s][i]
                 \/ \E j \in 1..Len(Posts(buffer[t], s)) : WQ'[s][i] = Posts(buffer[t], s)[j]
      <3>. DEFINE p == Posts(buffer[t], s)
      <3>1. /\ Len(WQ[s]) \in Nat
            /\ \A j \in 1..Len(WQ[s]) : WQ'[s][j] = WQ[s][j]
            /\ \A j \in 1..Len(p) : WQ'[s][Len(WQ[s]) + j] = p[j]
            /\ i \in 1..Len(WQ[s]) \/ i - Len(WQ[s]) \in 1..Len(p)
        BY <1>6, FlushAdds
      <3>. HIDE DEF p
      <3>2. ASSUME i - Len(WQ[s]) \in 1..Len(p) PROVE WQ'[s][i] = p[i - Len(WQ[s])]
        <4>1. Len(WQ[s]) + (i - Len(WQ[s])) = i
          BY <3>1
        <4>. QED
          BY <3>1, <3>2, <4>1
      <3>. QED
        BY <3>1, <3>2 DEF p
    <2>3. \A s \in Service : \A i \in 1..Len(Posts(buffer[t], s)) :
             /\ Posts(buffer[t], s)[i].type \in {"invcalls", "save"}
             /\ buffer[t].inv = {} => Posts(buffer[t], s)[i].type = "save"
      <3>. SUFFICES ASSUME NEW s \in Service, NEW b \in Buffer, b = buffer[t],
                           NEW i \in 1..Len(Posts(b, s))
                    PROVE  /\ Posts(b, s)[i].type \in {"invcalls", "save"}
                           /\ b.inv = {} => Posts(b, s)[i].type = "save"
        BY DEF TypeInv, TypeOK
      <3>1. Posts(b, s)[i].type \in {"invcalls", "save"}
        BY PostsFacts
      <3>2. ASSUME b.inv = {} PROVE Posts(b, s)[i].type = "save"
        <4>. DEFINE n == [type |-> "save", lines |-> [c \in Call |-> b.save[<<s, c>>]]]
        <4>1. {e[2] : e \in InvOf(b, s)} = {}
          BY <3>2 DEF InvOf
        <4>2. Posts(b, s) = <<>> \o (IF SaveOf(b, s) = {} THEN <<>> ELSE <<n>>)
          BY <4>1 DEF Posts
        <4>3. n.type = "save"
          OBVIOUS
        <4>. HIDE DEF n
        <4>4. Posts(b, s) = <<>> \/ Posts(b, s) = <<n>>
          BY <4>2
        <4>5. Len(<<>>) = 0 /\ Len(<<n>>) = 1 /\ <<n>>[1] = n
          OBVIOUS
        <4>6. Posts(b, s) = <<n>> /\ i = 1
          <5>1. Posts(b, s) # <<>>
            <6>1. SUFFICES ASSUME Posts(b, s) = <<>> PROVE FALSE
              OBVIOUS
            <6>2. i \in 1..0
              BY <4>5, <6>1
            <6>. QED
              BY <6>2
          <5>2. Posts(b, s) = <<n>>
            BY <4>4, <5>1
          <5>3. i \in 1..1
            BY <4>5, <5>2
          <5>. QED
            BY <5>2, <5>3
        <4>. QED
          BY <4>3, <4>5, <4>6
      <3>. QED
        BY <3>1, <3>2
    <2>4. NothingRuns => NothingRuns'
      <3>. SUFFICES ASSUME NothingRuns, NEW s \in Service, NEW i \in 1..Len(WQ'[s])
                    PROVE  WQ'[s][i].type \notin {"start", "end"}
        BY <2>1 DEF NothingRuns
      <3>. QED
        BY SMTT(30), <2>2, <2>3 DEF NothingRuns
    <2>5. ASSUME NothingInvalidated PROVE NothingInvalidated'
      <3>1. ASSUME NEW s \in Service, NEW i \in 1..Len(WQ'[s])
            PROVE  WQ'[s][i].type \notin {"inv", "invcalls"}
        BY SMTT(30), <2>2, <2>3, <2>5, <3>1 DEF NothingInvalidated
      <3>2. \A s \in Service : buffer'[s].inv = {}
        BY <1>6, <2>5 DEF Flush, Empty, NothingInvalidated, TypeInv, TypeOK
      <3>. QED
        BY <2>1, <2>5, <3>1, <3>2 DEF NothingInvalidated
    <2>. QED
      BY <2>4, <2>5 DEF Phases
  <1>7. CASE UNCHANGED vars
    BY <1>7 DEF vars, app, manager, sender, Phases, NothingRuns, NothingInvalidated
  <1>. QED
    BY <1>1, <1>2, <1>3, <1>4, <1>5, <1>6, <1>7, PhasesProcess
       DEF NoRaceNext, WritesAlone, Managers, Phases

\* Nothing is both saved and invalidated by a sender.
LEMMA ApartNext == TypeInv /\ Apart /\ [Next]_vars => Apart'
  <1>. SUFFICES ASSUME TypeInv, Apart, [Next]_vars, NEW s \in Service
                PROVE  DisjointBuffer(buffer'[s])
    BY DEF Apart, DisjointBuffer, Saved
  <1>1. DisjointBuffer(buffer[s]) /\ buffer[s] \in Buffer
    BY DEF Apart, TypeInv, TypeOK
  <1>2. ASSUME NEW t \in Service, Receive(t) PROVE DisjointBuffer(buffer'[s])
    <2>1. PICK r : r = Head(HttpQueue[t])
      OBVIOUS
    <2>2. r \in Request
      BY <1>2, <2>1, TailFacts DEF Receive, TypeInv, TypeOK
    <2>3. buffer'[s] = buffer[s] \/ buffer'[s] = AddRequest(buffer[s], r)
      BY <1>2, <2>1 DEF Receive, TypeInv, TypeOK
    <2>4. CASE r.save
      <3>1. PICK x : AddRequest(buffer[s], r) = AddSave(buffer[s], x, r.val)
        BY <2>4 DEF AddRequest
      <3>. QED
        BY <1>1, <2>3, <3>1 DEF AddSave, DisjointBuffer, Saved, Buffer
    <2>5. CASE ~r.save
      <3>1. AddRequest(buffer[s], r) = AddInvalidate(buffer[s], r.entries)
        BY <2>5 DEF AddRequest
      <3>. QED
        BY <1>1, <2>3, <3>1 DEF AddInvalidate, DisjointBuffer, Saved, Buffer
    <2>. QED
      BY <2>4, <2>5
  <1>3. ASSUME NEW t \in Service, Flush(t) PROVE DisjointBuffer(buffer'[s])
    <2>1. buffer'[s] = buffer[s] \/ buffer'[s] = Empty
      BY <1>3 DEF Flush, TypeInv, TypeOK
    <2>. QED
      BY <1>1, <2>1 DEF DisjointBuffer, Empty
  <1>4. CASE UNCHANGED buffer
    BY <1>1, <1>4
  <1>5. ASSUME NEW t \in Service, Process(t) PROVE UNCHANGED buffer
    BY <1>5, ProcessTakes
  <1>6. (Writers \/ Clients \/ Handlers \/ UNCHANGED vars) => UNCHANGED buffer
    BY ServiceStep DEF vars, sender
  <1>. QED
    BY <1>2, <1>3, <1>4, <1>5, <1>6 DEF Next, Managers

-----------------------------------------------------------------------------
\* Between its start and its judgement nothing disturbs a run.
LEMMA UndisturbedExtend ==
    ASSUME NEW h, NEW q \in Seq(Message), NEW g \in Seq(Message), NEW d,
           Len(q) <= Len(g), \A i \in 1..Len(q) : g[i] = q[i],
           NEW j \in 1..(Len(q) + 1), NEW n \in j..(Len(g) + 1),
           \A i \in 1..Len(g) : j <= i /\ i < n => ~IsStart(g[i], d) /\ ~IsEnd(g[i], d),
           Undisturbed(h, q, j, d)
    PROVE  Undisturbed(h, g, n, d)
  <1>1. Sound(h, g, n, d, {})
    BY SoundExtend DEF Undisturbed
  <1>2. StartsBefore(g, n, d) = StartsBefore(q, j, d)
    <2>1. Len(q) \in Nat /\ Len(g) \in Nat
      OBVIOUS
    <2>. QED
      BY <2>1 DEF StartsBefore
  <1>. QED
    BY <1>1, <1>2 DEF Undisturbed

LEMMA UndisturbedTail ==
    ASSUME NEW h, NEW f, NEW q \in Seq(Message), q # <<>>, NEW d,
           NEW j \in 2..(Len(q) + 1),
           Undisturbed(h, q, j, d),
           ~IsEnd(Head(q), d) /\ ~IsStart(Head(q), d) /\ StartsOf(h, d) # {} =>
               StartsOf(f, d) # {} /\ InvalidatedSince(f, d) = InvalidatedSince(h, d),
           IsStart(Head(q), d) => StartsOf(f, d) # {} /\ InvalidatedSince(f, d) = {}
    PROVE  Undisturbed(f, Tail(q), j - 1, d)
  <1>1. Sound(f, Tail(q), j - 1, d, {})
    BY SoundTail DEF Undisturbed
  <1>2. ASSUME StartsBefore(Tail(q), j - 1, d) = {} PROVE InvalidatedSince(f, d) = {}
    <2>1. CASE StartsBefore(q, j, d) = {}
      <3>1. StartsOf(h, d) # {} /\ InvalidatedSince(h, d) = {}
        BY <2>1 DEF Undisturbed, Sound, StartKept
      <3>2. EndsBefore(q, j, d) = {}
        BY <2>1 DEF Undisturbed, Sound, StartKept
      <3>3. ~IsStart(Head(q), d) /\ ~IsEnd(Head(q), d)
        BY <2>1, <3>2, TailPlaces
      <3>. QED
        BY <3>1, <3>3
    <2>2. CASE StartsBefore(q, j, d) # {}
      <3>1. PICK i \in StartsBefore(q, j, d) : TRUE
        BY <2>2
      <3>2. i = 1
        BY <1>2, TailPlaces
      <3>3. IsStart(Head(q), d)
        BY <3>1, <3>2, TailPlaces
      <3>. QED
        BY <3>3
    <2>. QED
      BY <2>1, <2>2
  <1>. QED
    BY <1>1, <1>2 DEF Undisturbed

\* With no invalidation to process, the history takes up starts and ends only.
LEMMA CalmHistory ==
    ASSUME TypeInv, NothingInvalidated, NEW s \in Service, Process(s), NEW d
    PROVE  LET m == Head(WQ[s])
               h == history[s]
               f == history'[s]
           IN  /\ ~IsEnd(m, d) /\ ~IsStart(m, d) /\ StartsOf(h, d) # {} =>
                     StartsOf(f, d) # {} /\ InvalidatedSince(f, d) = InvalidatedSince(h, d)
               /\ IsStart(m, d) => StartsOf(f, d) # {} /\ InvalidatedSince(f, d) = {}
  <1>. DEFINE m == Head(WQ[s])
              h == history[s]
              f == history'[s]
  <1>1. h \in Seq(HistoryItem) /\ history \in [Service -> Seq(HistoryItem)]
    BY DEF TypeInv, TypeOK
  <1>2. CASE ProcessStart(s)
    <2>1. m \in Message /\ m.type = "start"
      BY <1>2, TakeFacts DEF TypeInv, ProcessStart
    <2>2. f = AppendCall(h, m.call) /\ m.call \in Call
      BY <1>1, <1>2, <2>1, MessageFacts DEF ProcessStart
    <2>. HIDE DEF m, h, f
    <2>3. m.call # d =>
             StartsOf(f, d) = StartsOf(h, d) /\ InvalidatedSince(f, d) = InvalidatedSince(h, d)
      BY ZenonT(40), <1>1, <2>2, HistoryFacts
    <2>4. m.call = d => StartsOf(f, d) # {} /\ InvalidatedSince(f, d) = {}
      BY <1>1, <2>2, SameOperators, CallsAndKeysApart, P!AppendCallOwn
    <2>. QED
      BY <2>1, <2>3, <2>4 DEF IsStart, m, h, f
  <1>3. CASE ProcessEnd(s)
    <2>1. m \in Message /\ m.type = "end"
      BY <1>3, TakeFacts DEF TypeInv, ProcessEnd
    <2>2. PICK g \in Forgotten(h, m.call) : history' = [history EXCEPT ![s] = g]
      BY <1>3 DEF ProcessEnd
    <2>3. f = g
      BY <1>1, <2>2
    <2>4. ~IsStart(m, d) /\ (~IsEnd(m, d) => m.call # d)
      BY <2>1 DEF IsStart, IsEnd
    <2>. HIDE DEF m, h, f
    <2>5. d # m.call /\ StartsOf(h, d) # {} =>
             StartsOf(f, d) # {} /\ InvalidatedSince(f, d) = InvalidatedSince(h, d)
      BY <1>1, <2>3, HistoryFacts
    <2>. QED
      BY <2>4, <2>5 DEF m, h, f
  <1>4. CASE ProcessSave(s)
    <2>1. m.type = "save" /\ history' = history
      BY <1>4, TakeFacts DEF TypeInv, ProcessSave
    <2>. QED
      BY <2>1 DEF IsStart
  <1>5. CASE ProcessInvalidateKey(s) \/ ProcessInvalidateCalls(s)
    <2>1. WQ[s] \in Seq(Message) /\ WQ[s] # <<>> /\ Head(WQ[s]).type \in {"inv", "invcalls"}
      BY <1>5 DEF ProcessInvalidateKey, ProcessInvalidateCalls, Take, TypeInv, TypeOK
    <2>2. WQ[s][1].type \in {"inv", "invcalls"} /\ 1 \in 1..Len(WQ[s])
      BY <2>1, TailFacts
    <2>. QED
      BY <2>2 DEF NothingInvalidated
  <1>. QED
    BY <1>2, <1>3, <1>4, <1>5 DEF Process

\* What a step of a service is for one of the calls.
LEMMA RunStep ==
    ASSUME TypeInv, Shaped, Writers \/ Clients \/ Handlers, NEW d \in Call
    PROVE  LET q == WQ[Owner[d]]
               g == WQ'[Owner[d]]
           IN  \/ /\ run'[d].phase = run[d].phase /\ run'[d].parent = run[d].parent
                  /\ \A i \in 1..Len(g) : ~(i \in 1..Len(q)) => ~IsStart(g[i], d) /\ ~IsEnd(g[i], d)
               \/ PreReqStart(d)
               \/ PreReqEnd(d)
               \/ (run'[d].phase = "asked" \/ run'[d].parent = None) /\ g = q
  <1>. DEFINE q == WQ[Owner[d]]
              g == WQ'[Owner[d]]
              New == \A i \in 1..Len(g) : ~(i \in 1..Len(q)) => ~IsStart(g[i], d) /\ ~IsEnd(g[i], d)
              Same == run'[d].phase = run[d].phase /\ run'[d].parent = run[d].parent
  <1>1. /\ run \in [Call -> Run] /\ q \in Seq(Message) /\ Owner[d] \in Service
        /\ WQ \in [Service -> Seq(Message)]
    BY GraphAssumption DEF TypeInv, TypeOK
  <1>2. g = q => New
    OBVIOUS
  <1>3. ASSUME NEW t \in Service, NEW m \in Message, ~IsStart(m, d), ~IsEnd(m, d),
               WQ' = [WQ EXCEPT ![t] = Append(@, m)]
        PROVE  New
    BY <1>1, <1>3, Appended
  <1>4. \A c \in Call : Shape(c)
    BY DEF Shaped
  <1>5. ASSUME NEW k \in Key, Write(k) PROVE Same /\ New
    BY <1>2, <1>5 DEF Write
  <1>6. ASSUME NEW k \in Key, PostWrite(k) PROVE Same /\ New
    <2>. DEFINE m == [type |-> "inv", key |-> k]
    <2>1. m \in Message /\ ~IsStart(m, d) /\ ~IsEnd(m, d) /\ Owner[k] \in Service
      BY GraphAssumption DEF Message, IsStart, IsEnd
    <2>2. WQ' = [WQ EXCEPT ![Owner[k]] = Append(@, m)] /\ run' = run
      BY <1>6 DEF PostWrite
    <2>. HIDE DEF m, New
    <2>. QED
      BY <1>3, <2>1, <2>2
  <1>7. ASSUME NEW c \in Call, ClientRequest(c)
        PROVE  (Same /\ New) \/ (run'[d].parent = None /\ g = q)
    <2>1. run' = [run EXCEPT ![c] = [Asked(None, c) EXCEPT !.phase = "on"]] /\ g = q
      BY <1>7 DEF ClientRequest
    <2>2. CASE c = d
      BY <1>1, <2>1, <2>2 DEF Asked
    <2>3. CASE c # d
      BY <1>1, <1>2, <2>1, <2>3
    <2>. QED
      BY <2>2, <2>3
  <1>8. ASSUME NEW c \in Call, PreReqStart(c), c # d PROVE Same /\ New
    <2>. DEFINE m == [type |-> "start", call |-> c]
    <2>1. m \in Message /\ ~IsStart(m, d) /\ ~IsEnd(m, d) /\ Owner[c] \in Service
      BY <1>8, GraphAssumption DEF Message, IsStart, IsEnd
    <2>2. WQ' = [WQ EXCEPT ![Owner[c]] = Append(@, m)] /\ run' = [run EXCEPT ![c].phase = "on"]
      BY <1>8 DEF PreReqStart
    <2>3. run'[d] = run[d]
      BY <1>1, <1>8, <2>2
    <2>. HIDE DEF m, New
    <2>. QED
      BY <1>3, <2>1, <2>2, <2>3
  <1>9. ASSUME NEW c \in Call, PreReqEnd(c), c # d PROVE Same /\ New
    <2>1. CASE ByClient(c)
      <3>1. run' = [run EXCEPT ![c] = Idle] /\ WQ' = WQ
        BY <1>9, <2>1 DEF PreReqEnd
      <3>. QED
        BY <1>1, <1>2, <1>9, <3>1
    <2>2. CASE ~ByClient(c)
      <3>. DEFINE p == run[c].parent
                  m == [type |-> "end", call |-> c, caller |-> Owner[p],
                        used |-> run[c].used, val |-> run[c].got]
                  r == [run EXCEPT ![c] = Idle]
      <3>1. /\ p \in Call /\ run[c].got \in Value /\ run[c].used \in SUBSET Dep
        BY <1>1, <2>2 DEF ByClient, Run
      <3>2. /\ WQ' = [WQ EXCEPT ![Owner[c]] = Append(@, m)]
            /\ run' = [r EXCEPT ![p] = Got(@, c, run[c].got, ByClient(p))]
        BY <1>9, <2>2 DEF PreReqEnd
      <3>3. m \in Message /\ ~IsStart(m, d) /\ ~IsEnd(m, d) /\ Owner[c] \in Service
        BY <1>9, <3>1, GraphAssumption DEF Message, IsStart, IsEnd
      <3>4. Same
        <4>1. r \in [Call -> Run] /\ r[d] = run[d]
          BY <1>1, <1>9, RunFacts
        <4>2. run'[d] = IF d = p THEN Got(r[d], c, run[c].got, ByClient(p)) ELSE r[d]
          BY <3>2, <4>1
        <4>3. c \in Dep /\ run[d] \in Run
          BY <1>1 DEF Dep
        <4>4. /\ Got(run[d], c, run[c].got, ByClient(p)).phase = run[d].phase
              /\ Got(run[d], c, run[c].got, ByClient(p)).parent = run[d].parent
          BY <3>1, <4>3, GotFacts
        <4>. QED
          BY <4>1, <4>2, <4>4
      <3>. HIDE DEF m, New, Same
      <3>. QED
        BY <1>3, <3>2, <3>3, <3>4
    <2>. QED
      BY <2>1, <2>2
  <1>10. ASSUME NEW c \in Call, NEW x \in Dep, NEW v \in Value, NEW b,
                run' = [run EXCEPT ![c] = Got(@, x, v, b)], WQ' = WQ
         PROVE  Same /\ New
    <2>1. run[c] \in Run
      BY <1>1
    <2>2. Got(run[c], x, v, b).phase = run[c].phase /\ Got(run[c], x, v, b).parent = run[c].parent
      BY <1>10, <2>1, GotFacts
    <2>. QED
      BY <1>1, <1>2, <1>10, <2>2
  <1>11. ASSUME NEW c \in Call, NEW k \in Key, GetState(c, k) PROVE Same /\ New
    <2>1. {<<k, db[k]>>} \in Value /\ k \in Dep
      BY DEF TypeInv, TypeOK, Value, Dep
    <2>. HIDE DEF Same, New
    <2>. QED
      BY <1>10, <1>11, <2>1 DEF GetState
  <1>12. ASSUME NEW c \in Call, NEW e \in Call, InvokeHit(c, e) PROVE Same /\ New
    <2>1. cache[Owner[c]][e] \in Value /\ e \in Dep
      BY <1>12, GraphAssumption DEF InvokeHit, TypeInv, TypeOK, Dep
    <2>. HIDE DEF Same, New
    <2>. QED
      BY <1>10, <1>12, <2>1 DEF InvokeHit
  <1>13. ASSUME NEW c \in Call, NEW e \in Call, InvokeMiss(c, e)
         PROVE  (Same /\ New) \/ (run'[d].phase = "asked" /\ g = q)
    <2>1. run' = [run EXCEPT ![e] = Asked(c, e)] /\ g = q
      BY <1>13 DEF InvokeMiss
    <2>2. CASE e = d
      BY <1>1, <2>1, <2>2 DEF Asked
    <2>3. CASE e # d
      BY <1>1, <1>2, <2>1, <2>3
    <2>. QED
      BY <2>2, <2>3
  <1>. HIDE DEF New, Same
  <1>14. \/ Same /\ New
         \/ PreReqStart(d)
         \/ PreReqEnd(d)
         \/ (run'[d].phase = "asked" \/ run'[d].parent = None) /\ g = q
    BY <1>5, <1>6, <1>7, <1>8, <1>9, <1>11, <1>12, <1>13, GraphAssumption
       DEF Writers, Clients, Handlers
  <1>. QED
    BY <1>14 DEF New, Same

\* A step of a service keeps what is undisturbed so.
LEMMA ServicesUndisturbed ==
    ASSUME TypeInv, Shaped, Writers \/ Clients \/ Handlers, AllUndisturbed
    PROVE  AllUndisturbed'
  <1>. SUFFICES ASSUME NEW d \in Call
                PROVE  RunUndisturbed(d)' /\ EndsUndisturbed(d)'
    BY DEF AllUndisturbed
  <1>. DEFINE q == WQ[Owner[d]]
              g == WQ'[Owner[d]]
              h == history[Owner[d]]
  <1>1. RunUndisturbed(d) /\ EndsUndisturbed(d)
    BY DEF AllUndisturbed
  <1>2. /\ run \in [Call -> Run] /\ Owner[d] \in Service /\ q \in Seq(Message)
        /\ history'[Owner[d]] = h
    BY ServiceStep, GraphAssumption DEF TypeInv, TypeOK
  <1>3. /\ g \in Seq(Message) /\ Len(q) \in Nat /\ Len(g) \in Nat
        /\ Len(q) <= Len(g) /\ Len(g) <= Len(q) + 1
        /\ \A i \in 1..Len(q) : g[i] = q[i]
    BY <1>2, ServiceStep, AnnounceFacts
  <1>4. ASSUME NEW j \in 1..(Len(q) + 1), NEW n \in j..(Len(g) + 1),
               \A i \in 1..Len(g) : j <= i /\ i < n => ~IsStart(g[i], d) /\ ~IsEnd(g[i], d),
               Undisturbed(h, q, j, d)
        PROVE  Undisturbed(h, g, n, d)
    <2>. HIDE DEF q, g, h
    <2>. QED
      BY <1>2, <1>3, <1>4, UndisturbedExtend DEF q
  <1>5. ASSUME NEW j \in 1..Len(q), IsEnd(g[j], d)
        PROVE  Undisturbed(h, g, j, d)
    <2>1. q[j] = g[j] /\ Undisturbed(h, q, j, d)
      BY <1>1, <1>3, <1>5 DEF EndsUndisturbed
    <2>2. j \in 1..(Len(q) + 1) /\ j \in j..(Len(g) + 1) /\ \A i \in 1..Len(g) : ~(j <= i /\ i < j)
      BY <1>3
    <2>. HIDE DEF q, g, h
    <2>. QED
      BY <1>4, <2>1, <2>2
  <1>6. ASSUME \A i \in 1..Len(g) : ~(i \in 1..Len(q)) => ~IsEnd(g[i], d)
        PROVE  EndsUndisturbed(d)'
    BY <1>2, <1>5, <1>6 DEF EndsUndisturbed
  <1>7. CASE /\ run'[d].phase = run[d].phase /\ run'[d].parent = run[d].parent
             /\ \A i \in 1..Len(g) : ~(i \in 1..Len(q)) => ~IsStart(g[i], d) /\ ~IsEnd(g[i], d)
    <2>1. RunUndisturbed(d)'
      <3>1. SUFFICES ASSUME run[d].phase = "on", run[d].parent \in Call
                     PROVE  Undisturbed(h, g, Len(g) + 1, d)
        BY <1>2, <1>7 DEF RunUndisturbed
      <3>2. Undisturbed(h, q, Len(q) + 1, d)
        BY <1>1, <3>1 DEF RunUndisturbed
      <3>3. /\ Len(q) + 1 \in 1..(Len(q) + 1) /\ Len(g) + 1 \in (Len(q) + 1)..(Len(g) + 1)
            /\ \A i \in 1..Len(g) : Len(q) + 1 <= i /\ i < Len(g) + 1 => ~(i \in 1..Len(q))
        BY <1>3
      <3>. HIDE DEF q, g, h
      <3>. QED
        BY <1>4, <1>7, <3>2, <3>3
    <2>. QED
      BY <1>6, <1>7, <2>1
  <1>8. CASE PreReqStart(d)
    <2>. DEFINE m == [type |-> "start", call |-> d]
    <2>1. WQ' = [WQ EXCEPT ![Owner[d]] = Append(@, m)]
      BY <1>8 DEF PreReqStart
    <2>2. m \in Message /\ IsStart(m, d) /\ ~IsEnd(m, d)
      BY DEF Message, IsStart, IsEnd
    <2>3. g = Append(q, m)
      BY <1>2, <2>1 DEF TypeInv, TypeOK
    <2>. HIDE DEF m
    <2>4. /\ Len(g) = Len(q) + 1 /\ g[Len(g)] = m /\ g # <<>>
          /\ \A i \in 1..Len(g) : ~(i \in 1..Len(q)) => g[i] = m
      <3>. HIDE DEF q, g
      <3>1. Len(g) = Len(q) + 1 /\ g[Len(q) + 1] = m
        BY <1>2, <2>2, <2>3, AppendFacts DEF q
      <3>2. g # <<>>
        BY <1>3, <3>1
      <3>. QED
        BY <1>3, <3>1, <3>2
    <2>5. EndsUndisturbed(d)'
      BY <1>6, <2>2, <2>4
    <2>6. Sound(h, g, Len(g) + 1, d, {})
      BY <1>3, <2>2, <2>4, SoundStart
    <2>7. StartsBefore(g, Len(g) + 1, d) # {}
      <3>1. Len(g) \in 1..Len(g) /\ Len(g) < Len(g) + 1
        BY <1>3, <2>4
      <3>. QED
        BY <2>2, <2>4, <3>1 DEF StartsBefore
    <2>8. RunUndisturbed(d)'
      BY <1>2, <2>6, <2>7 DEF RunUndisturbed, Undisturbed
    <2>. QED
      BY <2>5, <2>8
  <1>9. CASE PreReqEnd(d)
    <2>1. run'[d] = Idle
      <3>1. CASE ByClient(d)
        BY <1>2, <1>9, <3>1 DEF PreReqEnd
      <3>2. CASE ~ByClient(d)
        <4>. DEFINE p == run[d].parent
                    r == [run EXCEPT ![d] = Idle]
        <4>1. p \in Call /\ p # d
          BY <1>2, <3>2 DEF Shaped, Shape, ByClient, Run
        <4>2. run' = [r EXCEPT ![p] = Got(@, d, run[d].got, ByClient(p))]
          BY <1>9, <3>2 DEF PreReqEnd
        <4>. QED
          BY <1>2, <4>1, <4>2
      <3>. QED
        BY <3>1, <3>2
    <2>2. RunUndisturbed(d)'
      BY <2>1 DEF RunUndisturbed, Idle
    <2>3. ASSUME NEW j \in 1..Len(g), IsEnd(g[j], d), ~(j \in 1..Len(q))
          PROVE  Undisturbed(h, g, j, d)
      <3>1. ~ByClient(d)
        <4>1. g # q
          BY <2>3
        <4>. QED
          BY <1>9, <4>1 DEF PreReqEnd
      <3>2. run[d].phase = "on" /\ run[d].parent \in Call
        BY <1>2, <1>9, <3>1 DEF PreReqEnd, Active, ByClient, Run
      <3>3. Undisturbed(h, q, Len(q) + 1, d)
        BY <1>1, <3>2 DEF RunUndisturbed
      <3>4. j = Len(q) + 1
        BY <1>3, <2>3
      <3>5. j \in 1..(Len(q) + 1) /\ j \in j..(Len(g) + 1) /\ \A i \in 1..Len(g) : ~(j <= i /\ i < j)
        BY <1>3, <3>4
      <3>. HIDE DEF q, g, h
      <3>. QED
        BY <1>4, <3>3, <3>4, <3>5
    <2>4. EndsUndisturbed(d)'
      BY <1>2, <1>5, <2>3 DEF EndsUndisturbed
    <2>. QED
      BY <2>2, <2>4
  <1>10. CASE (run'[d].phase = "asked" \/ run'[d].parent = None) /\ g = q
    <2>1. RunUndisturbed(d)'
      BY <1>10, AbsenceAssumption DEF RunUndisturbed
    <2>. QED
      BY <1>6, <1>10, <2>1
  <1>. QED
    BY <1>7, <1>8, <1>9, <1>10, RunStep

\* Nothing runs: nothing can be disturbed.
LEMMA NothingToDisturb == NothingRuns => AllUndisturbed
  <1>1. ASSUME NothingRuns, NEW d \in Call PROVE RunUndisturbed(d) /\ EndsUndisturbed(d)
    <2>1. run[d].phase = "idle" /\ Owner[d] \in Service
      BY <1>1, GraphAssumption DEF NothingRuns, Idle
    <2>. QED
      BY <1>1, <2>1 DEF NothingRuns, RunUndisturbed, EndsUndisturbed, IsEnd
  <1>. QED
    BY <1>1 DEF AllUndisturbed

LEMMA ManagersUndisturbed ==
    ASSUME TypeInv, Managers, Phases, AllUndisturbed
    PROVE  AllUndisturbed'
  <1>1. ASSUME NEW s \in Service, Process(s), NothingInvalidated PROVE AllUndisturbed'
    <2>. SUFFICES ASSUME NEW d \in Call
                  PROVE  RunUndisturbed(d)' /\ EndsUndisturbed(d)'
      BY DEF AllUndisturbed
    <2>. DEFINE q == WQ[Owner[d]]
                g == WQ'[Owner[d]]
                h == history[Owner[d]]
                f == history'[Owner[d]]
    <2>1. /\ UNCHANGED run
          /\ WQ[s] \in Seq(Message) /\ WQ[s] # <<>>
          /\ WQ'[s] = Tail(WQ[s])
          /\ \A t \in Service : t # s => WQ'[t] = WQ[t] /\ history'[t] = history[t]
          /\ Owner[d] \in Service /\ RunUndisturbed(d) /\ EndsUndisturbed(d)
      BY <1>1, ProcessTakes, ProcessHistory, GraphAssumption DEF AllUndisturbed
    <2>2. CASE Owner[d] # s
      <3>1. g = q /\ f = h
        BY <2>1, <2>2
      <3>. QED
        BY <2>1, <3>1 DEF RunUndisturbed, EndsUndisturbed
    <2>3. CASE Owner[d] = s
      <3>1. ASSUME NEW j \in 2..(Len(q) + 1), Undisturbed(h, q, j, d)
            PROVE  Undisturbed(f, g, j - 1, d)
        <4>1. g = Tail(q) /\ q \in Seq(Message) /\ q # <<>>
          BY <2>1, <2>3
        <4>2. /\ ~IsEnd(Head(q), d) /\ ~IsStart(Head(q), d) /\ StartsOf(h, d) # {} =>
                    StartsOf(f, d) # {} /\ InvalidatedSince(f, d) = InvalidatedSince(h, d)
              /\ IsStart(Head(q), d) => StartsOf(f, d) # {} /\ InvalidatedSince(f, d) = {}
          BY <1>1, <2>3, CalmHistory
        <4>. HIDE DEF q, g, h, f
        <4>. QED
          BY <3>1, <4>1, <4>2, UndisturbedTail
      <3>2. /\ Len(q) \in Nat \ {0} /\ Len(g) = Len(q) - 1
            /\ \A i \in 1..Len(g) : g[i] = q[i + 1] /\ i + 1 \in 1..Len(q)
        <4>1. g = Tail(q) /\ q # <<>> /\ q \in Seq(Message)
          BY <2>1, <2>3
        <4>. HIDE DEF q, g
        <4>2. /\ Len(q) \in Nat \ {0} /\ Len(g) = Len(q) - 1
              /\ \A i \in 1..Len(g) : g[i] = q[i + 1]
          BY <4>1, TailFacts
        <4>. QED
          BY <4>2
      <3>3. EndsUndisturbed(d)'
        <4>1. SUFFICES ASSUME NEW i \in 1..Len(g), IsEnd(g[i], d)
                       PROVE  Undisturbed(f, g, i, d)
          BY DEF EndsUndisturbed
        <4>2. PICK j \in 2..(Len(q) + 1) : j = i + 1
          BY <3>2
        <4>3. j \in 1..Len(q) /\ q[j] = g[i] /\ i = j - 1
          BY <3>2, <4>1, <4>2
        <4>4. Undisturbed(h, q, j, d)
          BY <2>1, <4>1, <4>3 DEF EndsUndisturbed
        <4>. HIDE DEF q, g, h, f
        <4>. QED
          BY <3>1, <4>3, <4>4
      <3>4. RunUndisturbed(d)'
        <4>1. SUFFICES ASSUME run[d].phase = "on", run[d].parent \in Call
                       PROVE  Undisturbed(f, g, Len(g) + 1, d)
          BY <2>1 DEF RunUndisturbed
        <4>2. Undisturbed(h, q, Len(q) + 1, d)
          BY <2>1, <4>1 DEF RunUndisturbed
        <4>3. Len(q) + 1 \in 2..(Len(q) + 1) /\ (Len(q) + 1) - 1 = Len(g) + 1
          BY <3>2
        <4>. HIDE DEF q, g, h, f
        <4>4. PICK j \in 2..(Len(q) + 1) : j = Len(q) + 1
          BY <4>3
        <4>. QED
          BY <3>1, <4>2, <4>3, <4>4
      <3>. QED
        BY <3>3, <3>4
    <2>. QED
      BY <2>2, <2>3
  <1>2. ASSUME NEW s \in Service, Process(s), NothingRuns PROVE AllUndisturbed'
    <2>1. NothingRuns'
      BY <1>2, PhasesProcess
    <2>2. NothingRuns' => AllUndisturbed'
      BY NothingToDisturb, PTL
    <2>. QED
      BY <2>1, <2>2
  <1>3. ASSUME NEW s \in Service, Receive(s) PROVE AllUndisturbed'
    BY <1>3 DEF Receive, app, manager, AllUndisturbed, RunUndisturbed, EndsUndisturbed
  <1>4. ASSUME NEW s \in Service, Flush(s) PROVE AllUndisturbed'
    <2>. SUFFICES ASSUME NEW d \in Call
                  PROVE  RunUndisturbed(d)' /\ EndsUndisturbed(d)'
      BY DEF AllUndisturbed
    <2>. DEFINE q == WQ[Owner[d]]
                g == WQ'[Owner[d]]
                h == history[Owner[d]]
                p == Posts(buffer[s], Owner[d])
    <2>1. RunUndisturbed(d) /\ EndsUndisturbed(d) /\ Owner[d] \in Service
      BY GraphAssumption DEF AllUndisturbed
    <2>2. /\ UNCHANGED <<run, history>>
          /\ q \in Seq(Message) /\ g \in Seq(Message)
          /\ Len(q) \in Nat /\ Len(p) \in Nat /\ Len(g) = Len(q) + Len(p)
          /\ \A i \in 1..Len(q) : g[i] = q[i]
          /\ \A i \in 1..Len(p) : g[Len(q) + i] = p[i] /\ p[i].type \in {"invcalls", "save"}
          /\ \A i \in 1..Len(g) : i \in 1..Len(q) \/ i - Len(q) \in 1..Len(p)
      BY <1>4, <2>1, FlushAdds
    <2>. HIDE DEF p
    <2>3. ASSUME NEW i \in 1..Len(g), ~(i \in 1..Len(q))
          PROVE  ~IsStart(g[i], d) /\ ~IsEnd(g[i], d)
      <3>1. i - Len(q) \in 1..Len(p) /\ Len(q) + (i - Len(q)) = i
        BY <2>2, <2>3
      <3>2. g[i].type \in {"invcalls", "save"}
        BY <2>2, <3>1
      <3>. QED
        BY <3>2 DEF IsStart, IsEnd
    <2>4. ASSUME NEW j \in 1..(Len(q) + 1), NEW n \in j..(Len(g) + 1),
                 \A i \in 1..Len(g) : j <= i /\ i < n => ~(i \in 1..Len(q)),
                 Undisturbed(h, q, j, d)
          PROVE  Undisturbed(h, g, n, d)
      <3>. HIDE DEF q, g, h
      <3>1. Len(q) <= Len(g)
        BY <2>2
      <3>. QED
        BY <2>2, <2>3, <2>4, <3>1, UndisturbedExtend
    <2>5. EndsUndisturbed(d)'
      <3>1. SUFFICES ASSUME NEW j \in 1..Len(g), IsEnd(g[j], d)
                     PROVE  Undisturbed(h, g, j, d)
        BY <2>2 DEF EndsUndisturbed
      <3>2. j \in 1..Len(q) /\ q[j] = g[j]
        BY <2>2, <2>3, <3>1
      <3>3. Undisturbed(h, q, j, d)
        BY <2>1, <3>1, <3>2 DEF EndsUndisturbed
      <3>4. j \in 1..(Len(q) + 1) /\ j \in j..(Len(g) + 1) /\ \A i \in 1..Len(g) : ~(j <= i /\ i < j)
        BY <2>2, <3>2
      <3>. HIDE DEF q, g, h
      <3>. QED
        BY <2>4, <3>3, <3>4
    <2>6. RunUndisturbed(d)'
      <3>1. SUFFICES ASSUME run[d].phase = "on", run[d].parent \in Call
                     PROVE  Undisturbed(h, g, Len(g) + 1, d)
        BY <2>2 DEF RunUndisturbed
      <3>2. Undisturbed(h, q, Len(q) + 1, d)
        BY <2>1, <3>1 DEF RunUndisturbed
      <3>3. /\ Len(q) + 1 \in 1..(Len(q) + 1) /\ Len(g) + 1 \in (Len(q) + 1)..(Len(g) + 1)
            /\ \A i \in 1..Len(g) : Len(q) + 1 <= i /\ i < Len(g) + 1 => ~(i \in 1..Len(q))
        BY <2>2
      <3>. HIDE DEF q, g, h
      <3>. QED
        BY <2>4, <3>2, <3>3
    <2>. QED
      BY <2>5, <2>6
  <1>. QED
    BY <1>1, <1>2, <1>3, <1>4 DEF Managers, Phases

-----------------------------------------------------------------------------
\* What becomes of the words about a line.

LEMMA WordsSame ==
    ASSUME NEW s \in Service, NEW d \in Call,
           Posted(s, d)' = Posted(s, d), \A i \in Posted(s, d) : WQ'[s][i] = WQ[s][i],
           HttpQueue'[Owner[d]] = HttpQueue[Owner[d]], buffer'[Owner[d]] = buffer[Owner[d]]
    PROVE  Words(s, d)' = Words(s, d) /\ (Ordered(s, d) => Ordered(s, d)')
  <1>1. Queued(s, d)' = Queued(s, d) /\ (Merged(s, d)' <=> Merged(s, d))
    BY DEF Queued, Merged
  <1>2. \A i \in Posted(s, d) : Word(WQ[s][i], d)' = Word(WQ[s][i], d)
    BY DEF Word
  <1>3. {Word(WQ[s][i], d) : i \in Posted(s, d)}' = {Word(WQ[s][i], d) : i \in Posted(s, d)}
    BY <1>2
  <1>4. Words(s, d)' = Words(s, d)
    BY <1>1, <1>3 DEF Words
  <1>5. Ordered(s, d) => Ordered(s, d)'
    BY <1>1, <1>2 DEF Ordered
  <1>. QED
    BY <1>4, <1>5

LEMMA ServiceWords ==
    ASSUME TypeInv, Writers \/ Clients \/ Handlers, NEW s \in Service, NEW d \in Call
    PROVE  /\ Words(s, d)' = Words(s, d) /\ cache' = cache
           /\ Ordered(s, d) => Ordered(s, d)'
  <1>1. UNCHANGED <<cache, HttpQueue, buffer>>
    BY ServiceStep
  <1>2. /\ Len(WQ[s]) \in Nat /\ Len(WQ'[s]) \in Nat /\ Len(WQ[s]) <= Len(WQ'[s])
        /\ \A i \in 1..Len(WQ[s]) : WQ'[s][i] = WQ[s][i]
        /\ \A i \in 1..Len(WQ'[s]) : ~(i \in 1..Len(WQ[s])) =>
              WQ'[s][i].type \in {"start", "end", "inv"}
    BY QueuesGrow
  <1>3. Posted(s, d)' = Posted(s, d) /\ \A i \in Posted(s, d) : WQ'[s][i] = WQ[s][i]
    BY <1>2 DEF Posted, Says
  <1>. QED
    BY <1>1, <1>3, WordsSame

\* The sender takes a request: a later word for the line replaces an earlier.
LEMMA ReceiveWords ==
    ASSUME TypeInv, NEW t \in Service, Receive(t), NEW s \in Service, NEW d \in Call,
           Ordered(s, d)
    PROVE  /\ Words(s, d)' \subseteq Words(s, d)
           /\ NoVal \in Words(s, d) => NoVal \in Words(s, d)'
           /\ Ordered(s, d)'
  <1>. DEFINE o == Owner[d]
              e == <<s, d>>
              q == HttpQueue[o]
              g == HttpQueue'[o]
              b == buffer[o].save[e]
              c == buffer'[o].save[e]
  <1>1. Posted(s, d)' = Posted(s, d) /\ \A i \in Posted(s, d) : WQ'[s][i] = WQ[s][i]
    BY DEF Receive, app, manager, Posted, Says
  <1>2. /\ o \in Service /\ e \in Entry /\ buffer[t] \in Buffer
        /\ HttpQueue[t] \in Seq(Request) /\ HttpQueue[t] # <<>>
        /\ \A u \in Service : u # t => HttpQueue'[u] = HttpQueue[u] /\ buffer'[u] = buffer[u]
        /\ HttpQueue'[t] = Tail(HttpQueue[t])
        /\ buffer'[t] = AddRequest(buffer[t], Head(HttpQueue[t]))
    BY GraphAssumption DEF TypeInv, TypeOK, Receive, Entry
  <1>3. CASE t # o
    BY <1>1, <1>2, <1>3, WordsSame
  <1>4. CASE t = o
    <2>1. PICK r : r = Head(q)
      OBVIOUS
    <2>2. /\ Len(q) \in Nat \ {0} /\ Len(g) = Len(q) - 1 /\ q[1] = r /\ r \in Request
          /\ \A i \in 1..Len(g) : g[i] = q[i + 1] /\ i + 1 \in 1..Len(q)
      <3>1. q \in Seq(Request) /\ q # <<>> /\ g = Tail(q)
        BY <1>2, <1>4
      <3>. HIDE DEF q, g
      <3>2. /\ Len(q) \in Nat \ {0} /\ Len(g) = Len(q) - 1 /\ q[1] = r /\ r \in Request
            /\ \A i \in 1..Len(g) : g[i] = q[i + 1]
        BY <2>1, <3>1, TailFacts
      <3>. QED
        BY <3>2
    <2>3. /\ e \in r.entries => e \in Buffered(buffer'[o]) /\ c = r.val
          /\ e \notin r.entries => /\ e \in Buffered(buffer'[o]) <=> e \in Buffered(buffer[o])
                                   /\ c = b
      <3>1. buffer'[o] = AddRequest(buffer[o], r) /\ buffer[o] \in Buffer
        BY <1>2, <1>4, <2>1
      <3>2. PICK x : x = AddRequest(buffer[o], r)
        OBVIOUS
      <3>3. \A y \in Entry :
               /\ y \in r.entries => y \in Buffered(x) /\ x.save[y] = r.val
               /\ y \notin r.entries =>
                     /\ y \in Buffered(x) <=> y \in Buffered(buffer[o])
                     /\ x.save[y] = buffer[o].save[y]
        BY <2>2, <3>1, <3>2, AddRequestFacts
      <3>. QED
        BY <1>2, <3>1, <3>2, <3>3
    <2>4. /\ Queued(s, d) = {i \in 1..Len(q) : e \in q[i].entries}
          /\ Queued(s, d)' = {i \in 1..Len(g) : e \in g[i].entries}
          /\ Merged(s, d) <=> e \in Buffered(buffer[o])
          /\ Merged(s, d)' <=> e \in Buffered(buffer'[o])
      BY DEF Queued, Merged
    <2>. DEFINE W == {Word(WQ[s][i], d) : i \in Posted(s, d)}
    <2>5. W' = W /\ \A i \in Posted(s, d) : Word(WQ[s][i], d)' = Word(WQ[s][i], d)
      BY <1>1 DEF Word
    <2>6. /\ Words(s, d) = {q[i].val : i \in Queued(s, d)} \cup (IF Merged(s, d) THEN {b} ELSE {}) \cup W
          /\ Words(s, d)' = {g[i].val : i \in Queued(s, d)'}
                               \cup (IF Merged(s, d)' THEN {c} ELSE {}) \cup W
      BY <2>5 DEF Words
    <2>7. /\ \A i, j \in Queued(s, d) : i < j /\ q[i].val = NoVal => q[j].val = NoVal
          /\ Merged(s, d) /\ b = NoVal => \A j \in Queued(s, d) : q[j].val = NoVal
          /\ \A i \in Posted(s, d) : Word(WQ[s][i], d) = NoVal =>
                /\ \A j \in Posted(s, d) : i < j => Word(WQ[s][j], d) = NoVal
                /\ Merged(s, d) => b = NoVal
                /\ \A j \in Queued(s, d) : q[j].val = NoVal
      BY DEF Ordered
    <2>. HIDE DEF q, g, e, b, c, W
    <2>8. /\ \A i \in Queued(s, d)' : i + 1 \in Queued(s, d) /\ g[i] = q[i + 1]
          /\ \A i \in Queued(s, d) : i = 1 \/ (i - 1 \in Queued(s, d)' /\ g[i - 1] = q[i])
          /\ Queued(s, d) \subseteq Nat \ {0} /\ Queued(s, d)' \subseteq Nat \ {0}
          /\ 1 \in Queued(s, d) <=> e \in r.entries
      <3>1. \A i \in 1..Len(q) : i = 1 \/ (i - 1 \in 1..Len(g) /\ (i - 1) + 1 = i)
        BY <2>2
      <3>. QED
        BY SMTT(30), <2>2, <2>4, <3>1
    <2>9. Merged(s, d)' => \/ 1 \in Queued(s, d) /\ c = q[1].val
                           \/ 1 \notin Queued(s, d) /\ Merged(s, d) /\ c = b
      BY <2>2, <2>3, <2>4, <2>8
    <2>10. Words(s, d)' \subseteq Words(s, d)
      BY <2>6, <2>8, <2>9
    <2>11. ASSUME NoVal \in Words(s, d) PROVE NoVal \in Words(s, d)'
      <3>1. ASSUME NEW i \in Queued(s, d), q[i].val = NoVal PROVE NoVal \in Words(s, d)'
        <4>1. CASE i = 1
          <5>1. Merged(s, d)' /\ c = NoVal
            BY <2>2, <2>3, <2>4, <2>8, <3>1, <4>1
          <5>. QED
            BY <2>6, <5>1
        <4>2. CASE i # 1
          BY <2>6, <2>8, <3>1, <4>2
        <4>. QED
          BY <4>1, <4>2
      <3>2. ASSUME Merged(s, d), b = NoVal PROVE NoVal \in Words(s, d)'
        <4>1. CASE 1 \in Queued(s, d)
          BY <2>7, <3>1, <3>2, <4>1
        <4>2. CASE 1 \notin Queued(s, d)
          <5>1. Merged(s, d)' /\ c = NoVal
            BY <2>3, <2>4, <2>8, <3>2, <4>2
          <5>. QED
            BY <2>6, <5>1
        <4>. QED
          BY <4>1, <4>2
      <3>. QED
        BY <2>6, <2>11, <3>1, <3>2
    <2>12. Ordered(s, d)'
      <3>1. \A i, j \in Queued(s, d)' : i < j /\ g[i].val = NoVal => g[j].val = NoVal
        <4>. SUFFICES ASSUME NEW i \in Queued(s, d)', NEW j \in Queued(s, d)', i < j, g[i].val = NoVal
                      PROVE  g[j].val = NoVal
          OBVIOUS
        <4>1. i + 1 \in Queued(s, d) /\ j + 1 \in Queued(s, d) /\ i + 1 < j + 1
          BY <2>8
        <4>. QED
          BY <2>7, <2>8, <4>1
      <3>2. Merged(s, d)' /\ c = NoVal => \A j \in Queued(s, d)' : g[j].val = NoVal
        <4>. SUFFICES ASSUME Merged(s, d)', c = NoVal, NEW j \in Queued(s, d)'
                      PROVE  g[j].val = NoVal
          OBVIOUS
        <4>1. j + 1 \in Queued(s, d) /\ 1 < j + 1 /\ g[j] = q[j + 1]
          BY <2>8
        <4>. QED
          BY <2>7, <2>9, <4>1
      <3>3. \A i \in Posted(s, d) : Word(WQ[s][i], d) = NoVal =>
               /\ \A j \in Posted(s, d) : i < j => Word(WQ[s][j], d) = NoVal
               /\ Merged(s, d)' => c = NoVal
               /\ \A j \in Queued(s, d)' : g[j].val = NoVal
        BY <2>7, <2>8, <2>9
      <3>. QED
        BY <1>1, <2>5, <3>1, <3>2, <3>3 DEF Ordered, g, c, e
    <2>. QED
      BY <2>10, <2>11, <2>12
  <1>. QED
    BY <1>3, <1>4

\* A flush posts what is merged.
LEMMA FlushWords ==
    ASSUME TypeInv, Home, Apart, NEW t \in Service, Flush(t), NEW s \in Service, NEW d \in Call,
           Ordered(s, d)
    PROVE  /\ Words(s, d)' \subseteq Words(s, d)
           /\ NoVal \in Words(s, d) => NoVal \in Words(s, d)'
           /\ Ordered(s, d)'
  <1>. DEFINE o == Owner[d]
              e == <<s, d>>
              b == buffer[t]
              p == Posts(b, s)
              q == WQ[s]
              g == WQ'[s]
              h == HttpQueue[o]
  <1>1. /\ o \in Service /\ b \in Buffer /\ e \in Entry /\ e[2] = d
        /\ buffer' = [buffer EXCEPT ![t] = Empty] /\ buffer \in [Service -> Buffer]
        /\ Buffered(Empty) = {} /\ HttpQueue' = HttpQueue
        /\ b.inv \cap Saved(b) = {}
    BY GraphAssumption
       DEF TypeInv, TypeOK, Flush, Entry, Empty, Buffered, Saved, Apart, DisjointBuffer
  <1>2. e \in Buffered(b) => t = o
    BY <1>1 DEF Home, AtHome
  <1>3. /\ Len(q) \in Nat /\ Len(p) \in Nat /\ Len(g) = Len(q) + Len(p)
        /\ \A i \in 1..Len(q) : g[i] = q[i]
        /\ \A i \in 1..Len(p) : g[Len(q) + i] = p[i]
        /\ \A i \in 1..Len(g) : i \in 1..Len(q) \/ i - Len(q) \in 1..Len(p)
    BY FlushAdds
  <1>4. /\ \A i \in 1..Len(p) : Says(p[i], d) =>
              e \in Buffered(b) /\ Word(p[i], d) = b.save[e]
        /\ e \in Buffered(b) => \E i \in 1..Len(p) : Says(p[i], d)
    <2>1. /\ \A i \in 1..Len(p) : Says(p[i], d) =>
                /\ e \in Buffered(b)
                /\ Word(p[i], d) \in {NoVal, b.save[e]}
                /\ Word(p[i], d) = NoVal => e \in b.inv
          /\ e \in Buffered(b) => \E i \in 1..Len(p) : Says(p[i], d)
      BY <1>1, PostsSay
    <2>2. e \in b.inv => b.save[e] = NoVal
      BY <1>1 DEF Saved
    <2>. HIDE DEF p, b, e
    <2>. QED
      BY <2>1, <2>2
  <1>5. /\ Posted(s, d) = {i \in 1..Len(q) : Says(q[i], d)}
        /\ Posted(s, d)' = {i \in 1..Len(g) : Says(g[i], d)}
    BY DEF Posted, Says
  <1>6. Queued(s, d)' = Queued(s, d) /\ h' = h
    BY <1>1 DEF Queued
  <1>. HIDE DEF p, q, g, b, e, h
  <1>7. /\ Posted(s, d) \subseteq Posted(s, d)' /\ Posted(s, d) \subseteq 1..Len(q)
        /\ \A i \in Posted(s, d) : g[i] = q[i]
        /\ \A i \in Posted(s, d)' :
              \/ i \in Posted(s, d)
              \/ e \in Buffered(b) /\ Word(g[i], d) = b.save[e] /\ i > Len(q) /\ i \in Nat
        /\ e \in Buffered(b) => \E i \in Posted(s, d)' : Word(g[i], d) = b.save[e]
    <2>1. /\ Posted(s, d) \subseteq Posted(s, d)' /\ Posted(s, d) \subseteq 1..Len(q)
          /\ \A i \in Posted(s, d) : g[i] = q[i]
      <3>1. 1..Len(q) \subseteq 1..Len(g)
        BY <1>3
      <3>. QED
        BY <1>3, <1>5, <3>1
    <2>2. ASSUME NEW i \in Posted(s, d)', i \notin Posted(s, d)
          PROVE  e \in Buffered(b) /\ Word(g[i], d) = b.save[e] /\ i > Len(q) /\ i \in Nat
      <3>1. i \in 1..Len(g) /\ ~(i \in 1..Len(q)) /\ Says(g[i], d)
        BY <1>3, <1>5, <2>2
      <3>2. i - Len(q) \in 1..Len(p) /\ Len(q) + (i - Len(q)) = i
        BY <1>3, <3>1
      <3>3. p[i - Len(q)] = g[i]
        BY <1>3, <3>2
      <3>4. i > Len(q) /\ i \in Nat
        BY <1>3, <3>1
      <3>. QED
        BY <1>4, <3>1, <3>2, <3>3, <3>4
    <2>3. ASSUME NEW i \in 1..Len(p), Says(p[i], d)
          PROVE  Len(q) + i \in Posted(s, d)' /\ Word(g[Len(q) + i], d) = b.save[e]
      <3>1. Len(q) + i \in 1..Len(g)
        BY <1>3
      <3>. QED
        BY <1>3, <1>4, <1>5, <2>3, <3>1
    <2>. QED
      BY <1>4, <2>1, <2>2, <2>3
  <1>8. CASE t = o
    <2>1. ~Merged(s, d)' /\ (Merged(s, d) <=> e \in Buffered(b)) /\ b.save[e] = buffer[o].save[e]
      BY <1>1, <1>8 DEF Merged, b, e
    <2>. DEFINE W == {Word(q[i], d) : i \in Posted(s, d)}
                X == {Word(g[i], d) : i \in Posted(s, d)'}
    <2>2. /\ Words(s, d) = {h[i].val : i \in Queued(s, d)} \cup (IF Merged(s, d) THEN {b.save[e]} ELSE {}) \cup W
          /\ Words(s, d)' = {h[i].val : i \in Queued(s, d)} \cup X
      <3>1. {Word(WQ[s][i], d) : i \in Posted(s, d)}' = X
        BY DEF g, Word
      <3>. QED
        BY <1>6, <2>1, <3>1 DEF Words, h, e, q
    <2>3. X = (IF Merged(s, d) THEN {b.save[e]} ELSE {}) \cup W
      <3>1. \A x \in X : x \in W \/ (Merged(s, d) /\ x = b.save[e])
        BY <1>7, <2>1
      <3>2. \A x \in W : x \in X
        BY <1>7
      <3>3. Merged(s, d) => b.save[e] \in X
        BY <1>7, <2>1
      <3>. HIDE DEF X, W
      <3>. QED
        BY <3>1, <3>2, <3>3
    <2>4. Words(s, d)' = Words(s, d)
      <3>. HIDE DEF X, W
      <3>. QED
        BY <2>2, <2>3
    <2>5. /\ \A i, j \in Queued(s, d) : i < j /\ h[i].val = NoVal => h[j].val = NoVal
          /\ Merged(s, d) /\ b.save[e] = NoVal => \A j \in Queued(s, d) : h[j].val = NoVal
          /\ \A i \in Posted(s, d) : Word(q[i], d) = NoVal =>
                /\ \A j \in Posted(s, d) : i < j => Word(q[j], d) = NoVal
                /\ Merged(s, d) => b.save[e] = NoVal
                /\ \A j \in Queued(s, d) : h[j].val = NoVal
      BY <2>1 DEF Ordered, h, q, e
    <2>6. \A i \in Posted(s, d)' : Word(g[i], d) = NoVal =>
             /\ \A j \in Posted(s, d)' : i < j => Word(g[j], d) = NoVal
             /\ \A j \in Queued(s, d) : h[j].val = NoVal
      <3>. SUFFICES ASSUME NEW i \in Posted(s, d)', Word(g[i], d) = NoVal
                    PROVE  /\ \A j \in Posted(s, d)' : i < j => Word(g[j], d) = NoVal
                           /\ \A j \in Queued(s, d) : h[j].val = NoVal
        OBVIOUS
      <3>1. CASE i \in Posted(s, d)
        BY <1>7, <2>1, <2>5, <3>1
      <3>2. CASE i \notin Posted(s, d)
        <4>1. Merged(s, d) /\ b.save[e] = NoVal /\ i > Len(q) /\ i \in Nat
          BY <1>7, <2>1, <3>2
        <4>2. ASSUME NEW j \in Posted(s, d)', i < j PROVE j \notin Posted(s, d)
          BY <1>3, <1>7, <4>1, <4>2
        <4>. QED
          BY <1>7, <2>5, <4>1, <4>2
      <3>. QED
        BY <3>1, <3>2
    <2>7. Ordered(s, d)'
      <3>1. \A i \in Posted(s, d)' : Word(WQ'[s][i], d) = NoVal =>
               /\ \A j \in Posted(s, d)' : i < j => Word(WQ'[s][j], d) = NoVal
               /\ \A j \in Queued(s, d)' : HttpQueue'[o][j].val = NoVal
        BY <1>6, <2>6 DEF g, h
      <3>2. \A i, j \in Queued(s, d)' :
               i < j /\ HttpQueue'[o][i].val = NoVal => HttpQueue'[o][j].val = NoVal
        BY <1>6, <2>5 DEF h
      <3>. QED
        BY <2>1, <3>1, <3>2 DEF Ordered, Word
    <2>. QED
      BY <2>4, <2>7
  <1>9. CASE t # o
    <2>1. Posted(s, d)' = Posted(s, d) /\ \A i \in Posted(s, d) : WQ'[s][i] = WQ[s][i]
      BY <1>2, <1>7, <1>9 DEF q, g
    <2>2. Words(s, d)' = Words(s, d) /\ (Ordered(s, d) => Ordered(s, d)')
      BY <1>1, <1>9, <2>1, WordsSame
    <2>. QED
      BY <2>2
  <1>. QED
    BY <1>8, <1>9

\* A manager takes a word about the line, tells a new one, or both.
LEMMA ProcessWords ==
    ASSUME TypeInv, NEW t \in Service, Process(t), NEW s \in Service, NEW d \in Call,
           Ordered(s, d), NEW new,
           \/ HttpQueue'[Owner[d]] = HttpQueue[Owner[d]] /\ new = {}
           \/ \E r \in Request :
                 /\ HttpQueue'[Owner[d]] = Append(HttpQueue[Owner[d]], r)
                 /\ new = IF <<s, d>> \in r.entries THEN {r.val} ELSE {},
           new \subseteq {NoVal} \/ NoVal \notin Words(s, d)
    PROVE  /\ Words(s, d)' \subseteq Words(s, d) \cup new
           /\ new \subseteq Words(s, d)'
           /\ cache'[s][d] \in Words(s, d) \cup {cache[s][d]}
           /\ NoVal \in Words(s, d) =>
                 \/ NoVal \in Words(s, d)'
                 \/ /\ s = t /\ Says(Head(WQ[t]), d) /\ Word(Head(WQ[t]), d) = NoVal
                    /\ \A val \in Words(s, d)' \cup {cache'[s][d]} : val = NoVal
           /\ Ordered(s, d)'
           /\ s = t /\ Says(Head(WQ[t]), d) => Word(Head(WQ[t]), d) \in Words(s, d)
  <1>. DEFINE o == Owner[d]
              e == <<s, d>>
              q == HttpQueue[o]
              g == HttpQueue'[o]
              b == buffer[o].save[e]
              w == WQ[s]
              v == WQ'[s]
              last == Len(q) + 1
  <1>1. /\ UNCHANGED buffer /\ WQ[t] \in Seq(Message) /\ WQ[t] # <<>>
        /\ WQ'[t] = Tail(WQ[t]) /\ \A u \in Service : u # t => WQ'[u] = WQ[u]
    BY ProcessTakes
  <1>2. o \in Service /\ q \in Seq(Request) /\ Len(q) \in Nat
    BY GraphAssumption DEF TypeInv, TypeOK
  <1>3. Merged(s, d)' <=> Merged(s, d)
    BY <1>1 DEF Merged
  <1>4. /\ Queued(s, d) \subseteq Queued(s, d)'
        /\ Queued(s, d) \subseteq Nat /\ Queued(s, d)' \subseteq Nat
        /\ \A i \in Queued(s, d) : g[i].val = q[i].val /\ i < last
        /\ \A i \in Queued(s, d)' : i \in Queued(s, d) \/ (i = last /\ new = {g[i].val})
        /\ \A x \in new : \E i \in Queued(s, d)' : g[i].val = x
    <2>1. /\ Queued(s, d) = {i \in 1..Len(q) : e \in q[i].entries}
          /\ Queued(s, d)' = {i \in 1..Len(g) : e \in g[i].entries}
      BY DEF Queued
    <2>2. CASE g = q /\ new = {}
      <3>. HIDE DEF q, g
      <3>. QED
        BY <1>2, <2>1, <2>2 DEF last
    <2>3. ASSUME NEW r \in Request, g = Append(q, r), new = IF e \in r.entries THEN {r.val} ELSE {}
          PROVE  /\ Queued(s, d) \subseteq Queued(s, d)'
                 /\ Queued(s, d) \subseteq Nat /\ Queued(s, d)' \subseteq Nat
                 /\ \A i \in Queued(s, d) : g[i].val = q[i].val /\ i < last
                 /\ \A i \in Queued(s, d)' : i \in Queued(s, d) \/ (i = last /\ new = {g[i].val})
                 /\ \A x \in new : \E i \in Queued(s, d)' : g[i].val = x
      <3>. HIDE DEF q, g, e
      <3>1. /\ Len(g) = last /\ g[last] = r
            /\ \A i \in 1..Len(q) : g[i] = q[i]
        BY <1>2, <2>3, AppendFacts DEF last
      <3>2. /\ \A i \in 1..Len(q) : i \in 1..Len(g) /\ i < last
            /\ \A i \in 1..Len(g) : i \in 1..Len(q) \/ i = last
            /\ last \in 1..Len(g)
        BY <1>2, <3>1 DEF last
      <3>3. Queued(s, d) \subseteq Nat /\ Queued(s, d)' \subseteq Nat
        BY <2>1
      <3>. HIDE DEF last
      <3>4. \A i \in Queued(s, d) : i \in Queued(s, d)' /\ g[i].val = q[i].val /\ i < last
        BY <2>1, <3>1, <3>2
      <3>5. \A i \in Queued(s, d)' : i \in Queued(s, d) \/ (i = last /\ new = {g[i].val})
        BY <2>1, <2>3, <3>1, <3>2
      <3>6. e \in r.entries => last \in Queued(s, d)'
        BY <2>1, <3>1, <3>2
      <3>7. \A x \in new : \E i \in Queued(s, d)' : g[i].val = x
        BY <2>3, <3>1, <3>6
      <3>. QED
        BY <3>3, <3>4, <3>5, <3>7
    <2>. QED
      BY <2>2, <2>3
  <1>5. PICK n \in {0, 1} :
           /\ \A i \in Posted(s, d)' : i + n \in Posted(s, d) /\ v[i] = w[i + n]
           /\ \A i \in Posted(s, d) : i <= n \/ (i - n \in Posted(s, d)' /\ v[i - n] = w[i])
           /\ Posted(s, d) \subseteq Nat \ {0} /\ Posted(s, d)' \subseteq Nat \ {0}
           /\ n = 1 <=> s = t
           /\ s = t => (1 \in Posted(s, d) <=> Says(Head(WQ[t]), d)) /\ w[1] = Head(WQ[t])
    <2>1. /\ Posted(s, d) = {i \in 1..Len(w) : Says(w[i], d)}
          /\ Posted(s, d)' = {i \in 1..Len(v) : Says(v[i], d)}
      BY DEF Posted, Says
    <2>2. CASE s # t
      <3>1. v = w
        BY <1>1, <2>2
      <3>. HIDE DEF v, w
      <3>2. Posted(s, d)' = Posted(s, d) /\ Posted(s, d) \subseteq Nat \ {0}
        BY <2>1, <3>1
      <3>3. \A i \in Posted(s, d) : i + 0 = i /\ i - 0 = i
        BY <3>2
      <3>4. \A i \in Posted(s, d) : i + 0 \in Posted(s, d) /\ v[i] = w[i + 0]
        BY <3>1, <3>3
      <3>5. \A i \in Posted(s, d) : i - 0 \in Posted(s, d)' /\ v[i - 0] = w[i]
        BY <3>1, <3>2, <3>3
      <3>. QED
        BY <2>2, <3>2, <3>4, <3>5
    <2>3. CASE s = t
      <3>1. /\ Len(w) \in Nat \ {0} /\ Len(v) = Len(w) - 1 /\ w[1] = Head(w)
            /\ \A i \in 1..Len(v) : v[i] = w[i + 1]
        <4>1. w \in Seq(Message) /\ w # <<>> /\ v = Tail(w)
          BY <1>1, <2>3
        <4>. HIDE DEF w, v
        <4>. QED
          BY <4>1, TailFacts
      <3>2. Head(w) = Head(WQ[t])
        BY <2>3
      <3>. HIDE DEF v, w
      <3>3. \A i \in 1..Len(v) : i + 1 \in 1..Len(w)
        BY <3>1
      <3>4. \A i \in 1..Len(w) : i <= 1 \/ (i - 1 \in 1..Len(v) /\ (i - 1) + 1 = i)
        BY <3>1
      <3>5. Posted(s, d) \subseteq Nat \ {0} /\ Posted(s, d)' \subseteq Nat \ {0}
        BY <2>1
      <3>6. \A i \in Posted(s, d)' : i + 1 \in Posted(s, d) /\ v[i] = w[i + 1]
        BY <2>1, <3>1, <3>3
      <3>7. \A i \in Posted(s, d) : i <= 1 \/ (i - 1 \in Posted(s, d)' /\ v[i - 1] = w[i])
        <4>. SUFFICES ASSUME NEW i \in Posted(s, d), ~(i <= 1)
                      PROVE  i - 1 \in Posted(s, d)' /\ v[i - 1] = w[i]
          OBVIOUS
        <4>1. i - 1 \in 1..Len(v) /\ (i - 1) + 1 = i
          BY <2>1, <3>4
        <4>2. v[i - 1] = w[i]
          BY <3>1, <4>1
        <4>. QED
          BY <2>1, <4>1, <4>2
      <3>8. 1 \in Posted(s, d) <=> Says(Head(WQ[t]), d)
        BY <2>1, <3>1, <3>2
      <3>. QED
        BY <2>3, <3>1, <3>2, <3>5, <3>6, <3>7, <3>8
    <2>. QED
      BY <2>2, <2>3
  <1>6. cache'[s][d] = IF t = s /\ Says(Head(WQ[t]), d) THEN Word(Head(WQ[t]), d)
                       ELSE cache[s][d]
    BY CacheTaken
  <1>. DEFINE W == {Word(w[i], d) : i \in Posted(s, d)}
              X == {Word(v[i], d) : i \in Posted(s, d)'}
              B == IF Merged(s, d) THEN {b} ELSE {}
              Q == {q[i].val : i \in Queued(s, d)}
              R == {g[i].val : i \in Queued(s, d)'}
  <1>7. Words(s, d) = Q \cup B \cup W /\ Words(s, d)' = R \cup B \cup X
    <2>1. {Word(WQ[s][i], d) : i \in Posted(s, d)}' = X
      BY DEF Word
    <2>. QED
      BY <1>1, <1>3, <2>1 DEF Words
  <1>8. /\ \A i, j \in Queued(s, d) : i < j /\ q[i].val = NoVal => q[j].val = NoVal
        /\ Merged(s, d) /\ b = NoVal => \A j \in Queued(s, d) : q[j].val = NoVal
        /\ \A i \in Posted(s, d) : Word(w[i], d) = NoVal =>
              /\ \A j \in Posted(s, d) : i < j => Word(w[j], d) = NoVal
              /\ Merged(s, d) => b = NoVal
              /\ \A j \in Queued(s, d) : q[j].val = NoVal
    BY DEF Ordered
  <1>. HIDE DEF q, g, e, b, w, v, o, last
  <1>9. Q \subseteq R /\ R \subseteq Q \cup new /\ new \subseteq R
    BY <1>4
  <1>10. X \subseteq W
    BY <1>5
  <1>11. s = t /\ Says(Head(WQ[t]), d) => Word(Head(WQ[t]), d) \in W
    BY <1>5
  <1>12. cache'[s][d] \in Words(s, d) \cup {cache[s][d]}
    BY <1>6, <1>7, <1>11
  <1>13. ASSUME NoVal \in W, NoVal \notin X
         PROVE  /\ s = t /\ Says(Head(WQ[t]), d) /\ Word(Head(WQ[t]), d) = NoVal
                /\ \A val \in Q \cup B \cup X : val = NoVal
    <2>1. PICK i \in Posted(s, d) : Word(w[i], d) = NoVal
      BY <1>13
    <2>2. i <= n
      BY <1>5, <1>13, <2>1
    <2>3. n = 1 /\ i = 1
      BY <1>5, <2>2
    <2>4. s = t /\ Says(Head(WQ[t]), d) /\ Word(Head(WQ[t]), d) = NoVal
      BY <1>5, <2>1, <2>3
    <2>5. \A j \in Posted(s, d)' : Word(v[j], d) = NoVal
      <3>. SUFFICES ASSUME NEW j \in Posted(s, d)' PROVE Word(v[j], d) = NoVal
        OBVIOUS
      <3>1. j + 1 \in Posted(s, d) /\ 1 < j + 1 /\ v[j] = w[j + 1]
        BY <1>5, <2>3
      <3>. QED
        BY <1>8, <2>1, <2>3, <3>1
    <2>6. (\A val \in Q : val = NoVal) /\ (\A val \in B : val = NoVal)
      BY <1>8, <2>1
    <2>7. \A val \in X : val = NoVal
      BY <2>5
    <2>. HIDE DEF Q, B, X
    <2>. QED
      BY <2>4, <2>6, <2>7
  <1>14. \A i \in Queued(s, d)' :
            (g[i].val \in new /\ i = last) \/ (i \in Queued(s, d) /\ g[i].val = q[i].val)
    BY <1>4
  <1>15. NoVal \in Words(s, d) => new \subseteq {NoVal}
    OBVIOUS
  <1>16. Ordered(s, d)'
    <2>1. \A i, j \in Queued(s, d)' : i < j /\ g[i].val = NoVal => g[j].val = NoVal
      <3>. SUFFICES ASSUME NEW i \in Queued(s, d)', NEW j \in Queued(s, d)', i < j,
                           g[i].val = NoVal
                    PROVE  g[j].val = NoVal
        OBVIOUS
      <3>1. i \in Queued(s, d) /\ q[i].val = NoVal
        <4>1. i # last
          BY <1>2, <1>4, <1>14 DEF last
        <4>. QED
          BY <1>14, <4>1
      <3>2. NoVal \in Words(s, d)
        BY <1>7, <3>1
      <3>. QED
        BY <1>8, <1>14, <1>15, <3>1, <3>2
    <2>2. Merged(s, d) /\ b = NoVal => \A j \in Queued(s, d)' : g[j].val = NoVal
      <3>1. Merged(s, d) /\ b = NoVal => NoVal \in Words(s, d)
        BY <1>7
      <3>. QED
        BY <1>8, <1>14, <1>15, <3>1
    <2>3. \A i \in Posted(s, d)' : Word(v[i], d) = NoVal =>
             /\ \A j \in Posted(s, d)' : i < j => Word(v[j], d) = NoVal
             /\ Merged(s, d) => b = NoVal
             /\ \A j \in Queued(s, d)' : g[j].val = NoVal
      <3>. SUFFICES ASSUME NEW i \in Posted(s, d)', Word(v[i], d) = NoVal
                    PROVE  /\ \A j \in Posted(s, d)' : i < j => Word(v[j], d) = NoVal
                           /\ Merged(s, d) => b = NoVal
                           /\ \A j \in Queued(s, d)' : g[j].val = NoVal
        OBVIOUS
      <3>1. i + n \in Posted(s, d) /\ Word(w[i + n], d) = NoVal
        BY <1>5
      <3>2. NoVal \in Words(s, d)
        BY <1>7, <3>1
      <3>3. ASSUME NEW j \in Posted(s, d)', i < j PROVE Word(v[j], d) = NoVal
        <4>1. j + n \in Posted(s, d) /\ v[j] = w[j + n] /\ i + n < j + n
          BY <1>5, <3>3
        <4>. QED
          BY <1>8, <3>1, <4>1
      <3>. QED
        BY <1>8, <1>14, <1>15, <3>1, <3>2, <3>3
    <2>. QED
      BY <1>1, <1>3, <2>1, <2>2, <2>3 DEF Ordered, Word, q, g, b, w, v, e, o
  <1>. HIDE DEF Q, R, B, X, W
  <1>17. ASSUME NoVal \in Words(s, d), NoVal \notin Words(s, d)'
         PROVE  /\ s = t /\ Says(Head(WQ[t]), d) /\ Word(Head(WQ[t]), d) = NoVal
                /\ \A val \in Words(s, d)' \cup {cache'[s][d]} : val = NoVal
    <2>1. NoVal \in W /\ NoVal \notin X
      BY <1>7, <1>9, <1>17
    <2>2. /\ s = t /\ Says(Head(WQ[t]), d) /\ Word(Head(WQ[t]), d) = NoVal
          /\ \A val \in Q \cup B \cup X : val = NoVal
      BY <1>13, <2>1
    <2>3. \A val \in R : val = NoVal
      BY <1>9, <1>15, <1>17, <2>2
    <2>. QED
      BY <1>6, <1>7, <2>2, <2>3
  <1>. QED
    BY <1>7, <1>9, <1>10, <1>11, <1>12, <1>16, <1>17

-----------------------------------------------------------------------------
\* The lines of L and M, step by step.

\* An end that waits to be judged waits on when others are put behind it, ...
LEMMA EndingGrows ==
    ASSUME NEW t, NEW d, Len(WQ[Owner[d]]) \in Nat, Len(WQ'[Owner[d]]) \in Nat,
           Len(WQ[Owner[d]]) <= Len(WQ'[Owner[d]]),
           \A i \in 1..Len(WQ[Owner[d]]) : WQ'[Owner[d]][i] = WQ[Owner[d]][i],
           Ending(t, d)
    PROVE  Ending(t, d)'
  <1>1. PICK i \in 1..Len(WQ[Owner[d]]) :
           IsEnd(WQ[Owner[d]][i], d) /\ WQ[Owner[d]][i].caller = t
    BY DEF Ending
  <1>2. i \in 1..Len(WQ'[Owner[d]]) /\ WQ'[Owner[d]][i] = WQ[Owner[d]][i]
    BY <1>1
  <1>. QED
    BY <1>1, <1>2 DEF Ending, IsEnd

\* ... until it is the head that is taken.
LEMMA EndingTail ==
    ASSUME TypeInv, NEW t \in Service, Process(t), NEW u, NEW d \in Call, Ending(u, d)
    PROVE  \/ Ending(u, d)'
           \/ t = Owner[d] /\ IsEnd(Head(WQ[t]), d) /\ Head(WQ[t]).caller = u
  <1>1. Owner[d] \in Service
    BY GraphAssumption
  <1>2. /\ WQ[t] \in Seq(Message) /\ WQ[t] # <<>> /\ WQ'[t] = Tail(WQ[t])
        /\ \A v \in Service : v # t => WQ'[v] = WQ[v]
    BY ProcessTakes
  <1>3. PICK i \in 1..Len(WQ[Owner[d]]) :
           IsEnd(WQ[Owner[d]][i], d) /\ WQ[Owner[d]][i].caller = u
    BY DEF Ending
  <1>4. CASE Owner[d] # t
    BY <1>1, <1>2, <1>3, <1>4 DEF Ending, IsEnd
  <1>5. CASE Owner[d] = t
    <2>1. /\ Len(WQ[t]) \in Nat \ {0} /\ Len(WQ'[t]) = Len(WQ[t]) - 1 /\ WQ[t][1] = Head(WQ[t])
          /\ \A j \in 1..Len(WQ'[t]) : WQ'[t][j] = WQ[t][j + 1]
      BY <1>2, TailFacts
    <2>2. CASE i = 1
      BY <1>3, <1>5, <2>1, <2>2
    <2>3. CASE i # 1
      <3>1. i - 1 \in 1..Len(WQ'[t]) /\ (i - 1) + 1 = i
        BY <1>3, <1>5, <2>1, <2>3
      <3>2. WQ'[t][i - 1] = WQ[t][i]
        BY <2>1, <3>1
      <3>. QED
        BY <1>3, <1>5, <3>1, <3>2 DEF Ending, IsEnd
    <2>. QED
      BY <2>2, <2>3
  <1>. QED
    BY <1>4, <1>5

\* Most steps change neither L nor M.
LEMMA LineKept ==
    ASSUME NEW s \in Service, NEW d \in Call, NEW L, NEW M, Line(s, d, L, M),
           Words(s, d)' \subseteq Words(s, d),
           NoVal \in Words(s, d) => NoVal \in Words(s, d)',
           Ordered(s, d)',
           cache'[s][d] \in Words(s, d) \cup {cache[s][d]},
           UNCHANGED <<db, deps>>,
           \A k \in Reads[d] : Coming(k) => Coming(k)',
           \A x \in Calls[d] : Ending(Owner[d], x) => Ending(Owner[d], x)'
    PROVE  Line(s, d, L, M)'
  <1>1. \A x : Indexed(s, d, x)' <=> Indexed(s, d, x)
    BY DEF Indexed
  <1>2. \A x \in Calls[d] : Linked(Owner[d], x, L, M) => Linked(Owner[d], x, L, M)'
    BY DEF Linked
  <1>3. \A val : Fresh(val, d)' <=> Fresh(val, d)
    BY DEF Fresh
  <1>4. Warned(s, d, M) => Warned(s, d, M)'
    BY <1>1 DEF Warned
  <1>5. <<s, d>> \in L => /\ \A x \in Reads[d] \cup Calls[d] : Indexed(s, d, x)'
                          /\ \A x \in Calls[d] : Linked(Owner[d], x, L, M)'
    BY <1>1, <1>2 DEF Line
  <1>6. \A val \in Words(s, d)' \cup {cache'[s][d]} :
           val # NoVal => <<s, d>> \in M \/ (<<s, d>> \in L /\ Fresh(val, d)')
    BY <1>3 DEF Line
  <1>. QED
    BY <1>4, <1>5, <1>6 DEF Line

LEMMA ServicesKeepLines ==
    ASSUME TypeInv, Writers \/ Clients \/ Handlers, UNCHANGED db,
           NEW L, NEW M, Lines(L, M)
    PROVE  Lines(L, M)'
  <1>. SUFFICES ASSUME NEW s \in Service, NEW d \in Call
                PROVE  Line(s, d, L, M)'
    BY DEF Lines
  <1>1. Line(s, d, L, M)
    BY DEF Lines
  <1>2. Words(s, d)' = Words(s, d) /\ cache' = cache /\ Ordered(s, d)'
    BY <1>1, ServiceWords DEF Line
  <1>3. UNCHANGED <<db, deps>>
    BY ServiceStep
  <1>4. \A u \in Service :
           /\ Len(WQ[u]) \in Nat /\ Len(WQ'[u]) \in Nat /\ Len(WQ[u]) <= Len(WQ'[u])
           /\ \A i \in 1..Len(WQ[u]) : WQ'[u][i] = WQ[u][i]
    BY QueuesGrow
  <1>5. ASSUME NEW k \in Reads[d], Coming(k) PROVE Coming(k)'
    BY <1>5, ComingServices, GraphAssumption
  <1>6. \A x \in Calls[d] : Ending(Owner[d], x) => Ending(Owner[d], x)'
    BY <1>4, EndingGrows, GraphAssumption
  <1>. QED
    BY <1>1, <1>2, <1>3, <1>5, <1>6, LineKept

\* A write: the lines that depend on the key are to go.
LEMMA WriteLines ==
    ASSUME Acyclic, TypeInv, NothingRuns, NEW k \in Key, Write(k), NEW L, NEW M, Lines(L, M)
    PROVE  LET N == {e \in L : k \in Footprint[e[2]]}
           IN  Lines(L, M \cup N)'
  <1>. DEFINE N == {e \in L : k \in Footprint[e[2]]}
  <1>1. PICK P2 : P2 = M \cup N
    OBVIOUS
  <1>. SUFFICES ASSUME NEW s \in Service, NEW d \in Call
                PROVE  Line(s, d, L, P2)'
    BY <1>1 DEF Lines
  <1>2. Line(s, d, L, M)
    BY DEF Lines
  <1>3. Writers
    BY DEF Writers
  <1>4. Words(s, d)' = Words(s, d) /\ cache' = cache /\ Ordered(s, d)'
    BY <1>2, <1>3, ServiceWords DEF Line
  <1>5. /\ UNCHANGED <<deps, WQ>>
        /\ db \in [Key -> 0..MaxWrites] /\ db' = [db EXCEPT ![k] = @ + 1]
        /\ unsent'[k] > 0
    BY DEF Write, manager, TypeInv, TypeOK
  <1>6. \A x : Indexed(s, d, x)' <=> Indexed(s, d, x)
    BY <1>5 DEF Indexed
  <1>7. \A e : e \in P2 <=> (e \in M \/ (e \in L /\ k \in Footprint[e[2]]))
    BY <1>1
  <1>8. \A x \in Calls[d] :
           /\ ~Ending(Owner[d], x)
           /\ Linked(Owner[d], x, L, M) => Linked(Owner[d], x, L, P2)'
    BY <1>7, GraphAssumption DEF NothingRuns, Ending, IsEnd, Linked
  <1>9. ASSUME <<s, d>> \in P2 PROVE Warned(s, d, P2)'
    <2>1. CASE <<s, d>> \in M
      <3>1. \A j \in Reads[d] : Coming(j) => Coming(j)'
        BY <1>3, ComingServices, GraphAssumption
      <3>. QED
        BY <1>2, <1>4, <1>6, <1>7, <2>1, <3>1 DEF Line, Warned
    <2>2. CASE <<s, d>> \in L /\ k \in Footprint[d]
      <3>1. k \in Reads[d] \/ \E x \in Calls[d] : k \in Footprint[x]
        BY <2>2, FootprintAssumption
      <3>2. CASE k \in Reads[d]
        <4>1. Coming(k)'
          BY <1>5 DEF Coming
        <4>. QED
          BY <1>2, <1>6, <2>2, <3>2, <4>1 DEF Line, Warned
      <3>3. ASSUME NEW x \in Calls[d], k \in Footprint[x] PROVE Warned(s, d, P2)'
        <4>1. <<Owner[d], x>> \in L \/ <<Owner[d], x>> \in M
          BY <1>2, <1>8, <2>2 DEF Line, Linked
        <4>2. <<Owner[d], x>> \in P2
          BY <1>7, <3>3, <4>1
        <4>. QED
          BY <1>2, <1>6, <2>2, <4>2 DEF Line, Warned
      <3>. QED
        BY <3>1, <3>2, <3>3
    <2>. QED
      BY <1>7, <1>9, <2>1, <2>2
  <1>10. ASSUME NEW val \in Words(s, d) \cup {cache[s][d]}, val # NoVal
         PROVE  <<s, d>> \in P2 \/ (<<s, d>> \in L /\ Fresh(val, d)')
    <2>1. CASE <<s, d>> \in M
      BY <1>7, <2>1
    <2>2. CASE <<s, d>> \in L /\ Fresh(val, d) /\ k \notin Footprint[d]
      <3>1. \A j \in Footprint[d] : db'[j] = db[j]
        BY <1>5, <2>2, FootprintKeys
      <3>. QED
        BY <2>2, <3>1 DEF Fresh
    <2>. QED
      BY <1>2, <1>7, <1>10, <2>1, <2>2 DEF Line
  <1>11. <<s, d>> \in L => /\ \A x \in Reads[d] \cup Calls[d] : Indexed(s, d, x)'
                           /\ \A x \in Calls[d] : Linked(Owner[d], x, L, P2)'
    BY <1>2, <1>6, <1>8 DEF Line
  <1>12. NoVal \in Words(s, d)' => <<s, d>> \in P2
    BY <1>2, <1>4, <1>7 DEF Line
  <1>. QED
    BY <1>4, <1>9, <1>10, <1>11, <1>12 DEF Line

LEMMA SendersKeepLines ==
    ASSUME TypeInv, Home, Apart, NEW t \in Service, Receive(t) \/ Flush(t),
           NEW L, NEW M, Lines(L, M)
    PROVE  Lines(L, M)'
  <1>. SUFFICES ASSUME NEW s \in Service, NEW d \in Call
                PROVE  Line(s, d, L, M)'
    BY DEF Lines
  <1>1. Line(s, d, L, M)
    BY DEF Lines
  <1>2. /\ Words(s, d)' \subseteq Words(s, d)
        /\ NoVal \in Words(s, d) => NoVal \in Words(s, d)'
        /\ Ordered(s, d)'
    BY <1>1, ReceiveWords, FlushWords DEF Line
  <1>3. UNCHANGED <<db, unsent, deps, cache>>
    BY DEF Receive, Flush, app, manager
  <1>4. \A u \in Service :
           /\ Len(WQ[u]) \in Nat /\ Len(WQ'[u]) \in Nat /\ Len(WQ[u]) <= Len(WQ'[u])
           /\ \A i \in 1..Len(WQ[u]) : WQ'[u][i] = WQ[u][i]
    <2>1. ASSUME Flush(t), NEW u \in Service
          PROVE  /\ Len(WQ[u]) \in Nat /\ Len(WQ'[u]) \in Nat /\ Len(WQ[u]) <= Len(WQ'[u])
                 /\ \A i \in 1..Len(WQ[u]) : WQ'[u][i] = WQ[u][i]
      <3>1. PICK n \in Nat : /\ Len(WQ[u]) \in Nat /\ Len(WQ'[u]) = Len(WQ[u]) + n
                             /\ \A i \in 1..Len(WQ[u]) : WQ'[u][i] = WQ[u][i]
        BY <2>1, FlushAdds
      <3>. QED
        BY <3>1
    <2>2. CASE Receive(t)
      BY <2>2 DEF Receive, TypeInv, TypeOK
    <2>. QED
      BY <2>1, <2>2
  <1>5. ASSUME NEW k \in Reads[d], Coming(k) PROVE Coming(k)'
    <2>1. Owner[k] \in Service
      BY GraphAssumption
    <2>2. 1..Len(WQ[Owner[k]]) \subseteq 1..Len(WQ'[Owner[k]])
      BY <1>4, <2>1
    <2>. QED
      BY <1>3, <1>4, <1>5, <2>1, <2>2 DEF Coming
  <1>6. \A x \in Calls[d] : Ending(Owner[d], x) => Ending(Owner[d], x)'
    BY <1>4, EndingGrows, GraphAssumption
  <1>. QED
    BY <1>1, <1>2, <1>3, <1>5, <1>6, LineKept

\* A manager takes a start, or a line to save.
LEMMA ProcessKeepsLines ==
    ASSUME TypeInv, NEW t \in Service, ProcessStart(t) \/ ProcessSave(t),
           NEW L, NEW M, Lines(L, M)
    PROVE  Lines(L, M)'
  <1>. SUFFICES ASSUME NEW s \in Service, NEW d \in Call
                PROVE  Line(s, d, L, M)'
    BY DEF Lines
  <1>1. Line(s, d, L, M)
    BY DEF Lines
  <1>2. Process(t) /\ UNCHANGED <<db, deps, HttpQueue>>
    BY DEF Process, ProcessStart, ProcessSave, app
  <1>3. Head(WQ[t]).type \in {"start", "save"}
    BY TakeFacts DEF ProcessStart, ProcessSave, TypeInv
  <1>4. Says(Head(WQ[t]), d) => Word(Head(WQ[t]), d) # NoVal
    BY <1>3 DEF Says, Word
  <1>5. /\ Words(s, d)' \subseteq Words(s, d) \cup {}
        /\ cache'[s][d] \in Words(s, d) \cup {cache[s][d]}
        /\ NoVal \in Words(s, d) =>
              NoVal \in Words(s, d)' \/ (Says(Head(WQ[t]), d) /\ Word(Head(WQ[t]), d) = NoVal)
        /\ Ordered(s, d)'
    <2>1. HttpQueue'[Owner[d]] = HttpQueue[Owner[d]] /\ Ordered(s, d)
      BY <1>1, <1>2 DEF Line
    <2>2. PICK new : new = {}
      OBVIOUS
    <2>3. /\ \/ HttpQueue'[Owner[d]] = HttpQueue[Owner[d]] /\ new = {}
             \/ \E r \in Request :
                   /\ HttpQueue'[Owner[d]] = Append(HttpQueue[Owner[d]], r)
                   /\ new = IF <<s, d>> \in r.entries THEN {r.val} ELSE {}
          /\ new \subseteq {NoVal} \/ NoVal \notin Words(s, d)
      BY <2>1, <2>2
    <2>4. /\ Words(s, d)' \subseteq Words(s, d) \cup new
          /\ cache'[s][d] \in Words(s, d) \cup {cache[s][d]}
          /\ NoVal \in Words(s, d) =>
                \/ NoVal \in Words(s, d)'
                \/ Says(Head(WQ[t]), d) /\ Word(Head(WQ[t]), d) = NoVal
          /\ Ordered(s, d)'
      BY <1>2, <2>1, <2>3, ProcessWords, ZenonT(40)
    <2>. QED
      BY <2>2, <2>4
  <1>6. \A k \in Reads[d] : Coming(k) => Coming(k)'
    BY <1>2, <1>3, ComingTail, GraphAssumption DEF IsInv
  <1>7. \A x \in Calls[d] : Ending(Owner[d], x) => Ending(Owner[d], x)'
    BY <1>2, <1>3, EndingTail, GraphAssumption DEF IsEnd
  <1>. QED
    BY <1>1, <1>2, <1>4, <1>5, <1>6, <1>7, LineKept

\* A run is judged: undisturbed it is valid, and its caller is told.
LEMMA EndLines ==
    ASSUME TypeInv, Home, NothingInvalidated, AllUndisturbed,
           NEW t \in Service, ProcessEnd(t), NEW m, m = Head(WQ[t]),
           NEW L, Lines(L, {}), AllFresh(L, {}), NEW N, N = L \cup {<<m.caller, m.call>>}
    PROVE  /\ Lines(N, {})'
           /\ \A u, d : d \in Call /\ Linked(u, d, L, {}) => Linked(u, d, N, {})'
  <1>1. /\ m \in Message /\ m.type = "end" /\ m.call \in Call /\ m.val \in Value
        /\ m.caller \in Service
        /\ \A u \in Service : u # t => deps'[u] = deps[u] /\ HttpQueue'[u] = HttpQueue[u]
    BY EndSends, MessageFacts DEF TypeInv
  <1>2. Process(t) /\ UNCHANGED db /\ WQ[t] \in Seq(Message) /\ WQ[t] # <<>>
    BY ProcessTakes DEF Process
  <1>3. WQ[t][1] = m /\ 1 \in 1..Len(WQ[t])
    <2>1. Len(WQ[t]) \in Nat \ {0} /\ WQ[t][1] = Head(WQ[t])
      BY <1>2, TailFacts
    <2>. QED
      BY <2>1
  <1>4. Owner[m.call] = t
    BY <1>1, <1>3 DEF Home, AtHome
  <1>5. /\ m.used = Reads[m.call] \cup Calls[m.call]
        /\ Fresh(m.val, m.call)
        /\ \A x \in Calls[m.call] : Linked(t, x, L, {})
    <2>1. EndsFresh(m.call, L, {}) /\ IsEnd(WQ[t][1], m.call)
      BY <1>1, <1>3 DEF AllFresh, IsEnd
    <2>. QED
      BY <1>3, <1>4, <2>1 DEF EndsFresh
  <1>6. ValidCall(history[t], m.call, m.used)
    <2>1. IsEnd(WQ[t][1], m.call) /\ EndsUndisturbed(m.call)
      BY <1>1, <1>3 DEF IsEnd, AllUndisturbed
    <2>2. Undisturbed(history[t], WQ[t], 1, m.call)
      BY <1>3, <1>4, <2>1 DEF EndsUndisturbed
    <2>3. StartsBefore(WQ[t], 1, m.call) = {}
      BY DEF StartsBefore
    <2>4. InvalidatedSince(history[t], m.call) = {}
      BY <2>2, <2>3 DEF Undisturbed
    <2>. QED
      BY <2>4 DEF ValidCall
  <1>7. PICK r \in Request :
           /\ HttpQueue'[t] = Append(HttpQueue[t], r)
           /\ r.val = m.val
           /\ r.entries = {<<m.caller, m.call>>}
           /\ \A x \in Dep : deps'[t][x] =
                 IF x \in m.used THEN deps[t][x] \cup {<<m.caller, m.call>>} ELSE deps[t][x]
    BY <1>1, <1>6, EndSends DEF TypeInv
  <1>8. ASSUME NEW u, NEW d \in Call, Linked(u, d, L, {}) PROVE Linked(u, d, N, {})'
    <2>1. CASE <<u, d>> \in L
      BY <2>1 DEF Linked
    <2>2. CASE Ending(u, d)
      <3>1. Ending(u, d)' \/ (IsEnd(m, d) /\ m.caller = u)
        BY <1>2, <2>2, EndingTail
      <3>. QED
        BY <3>1 DEF Linked, IsEnd
    <2>. QED
      BY <1>8, <2>1, <2>2 DEF Linked
  <1>9. ASSUME NEW s \in Service, NEW d \in Call PROVE Line(s, d, N, {})'
    <2>1. Line(s, d, L, {}) /\ Ordered(s, d) /\ Owner[d] \in Service
      BY GraphAssumption DEF Lines, Line
    <2>2. PICK new : new = IF <<s, d>> = <<m.caller, m.call>> THEN {m.val} ELSE {}
      OBVIOUS
    <2>3. \/ HttpQueue'[Owner[d]] = HttpQueue[Owner[d]] /\ new = {}
          \/ \E x \in Request :
                /\ HttpQueue'[Owner[d]] = Append(HttpQueue[Owner[d]], x)
                /\ new = IF <<s, d>> \in x.entries THEN {x.val} ELSE {}
      <3>1. CASE Owner[d] = t
        BY <1>7, <2>2, <3>1
      <3>2. CASE Owner[d] # t
        <4>1. d # m.call
          BY <1>4, <3>2
        <4>. QED
          BY <1>1, <2>1, <2>2, <3>2, <4>1
      <3>. QED
        BY <3>1, <3>2
    <2>4. NoVal \notin Words(s, d) /\ NoVal \notin new
      BY <1>1, <2>2, NoWordToGo, AbsenceAssumption
    <2>5. /\ Words(s, d)' \subseteq Words(s, d) \cup new
          /\ cache'[s][d] \in Words(s, d) \cup {cache[s][d]}
          /\ Ordered(s, d)'
      <3>1. new \subseteq {NoVal} \/ NoVal \notin Words(s, d)
        BY <2>4
      <3>2. Process(t) /\ Ordered(s, d)
        BY <1>2, <2>1
      <3>. QED
        BY <2>3, <3>1, <3>2, ProcessWords, ZenonT(40)
    <2>6. \A x \in Dep : Indexed(s, d, x) => Indexed(s, d, x)'
      BY <1>1, <1>7, <2>1 DEF Indexed
    <2>7. ASSUME <<s, d>> \in N
          PROVE  /\ \A x \in Reads[d] \cup Calls[d] : Indexed(s, d, x)'
                 /\ \A x \in Calls[d] : Linked(Owner[d], x, N, {})'
      <3>0. Reads[d] \cup Calls[d] \subseteq Dep /\ Calls[d] \subseteq Call
        BY GraphAssumption DEF Dep
      <3>1. CASE <<s, d>> \in L
        BY SMTT(30), <1>8, <2>1, <2>6, <3>0, <3>1 DEF Line
      <3>2. CASE s = m.caller /\ d = m.call
        <4>1. \A x \in Reads[d] \cup Calls[d] : Indexed(s, d, x)'
          BY <1>4, <1>5, <1>7, <3>0, <3>2 DEF Indexed
        <4>. QED
          BY <1>4, <1>5, <1>8, <3>0, <3>2, <4>1
      <3>. QED
        BY <2>7, <3>1, <3>2
    <2>8. \A val : Fresh(val, d)' <=> Fresh(val, d)
      BY <1>2 DEF Fresh
    <2>9. ASSUME NEW val \in Words(s, d)' \cup {cache'[s][d]}, val # NoVal
          PROVE  <<s, d>> \in N /\ Fresh(val, d)'
      <3>1. CASE val \in new
        BY <1>5, <2>2, <2>8, <3>1
      <3>2. CASE val \in Words(s, d) \cup {cache[s][d]}
        BY <2>1, <2>8, <2>9, <3>2 DEF Line
      <3>. QED
        BY <2>5, <3>1, <3>2
    <2>. QED
      BY <2>4, <2>5, <2>7, <2>9 DEF Line
  <1>. QED
    BY <1>8, <1>9 DEF Lines

\* An invalidation: the lines indexed under its names are told to go, and the
\* lines it drops, with nothing left to be said of them, have gone.
LEMMA InvalidateLines ==
    ASSUME TypeInv, Home, NothingRuns,
           NEW t \in Service, ProcessInvalidateKey(t) \/ ProcessInvalidateCalls(t),
           NEW L \in SUBSET Entry, NEW M \in SUBSET Entry, Lines(L, M)
    PROVE  \E N, O \in SUBSET Entry : Lines(N, O)'
  <1>. DEFINE m == Head(WQ[t])
  <1>1. Process(t) /\ UNCHANGED db
    BY ProcessTakes DEF Process
  <1>2. m.type \in {"inv", "invcalls"}
    BY KeyTells, CallsTell DEF TypeInv
  <1>3. PICK names : names = IF m.type = "inv" THEN {m.key} ELSE m.calls
    OBVIOUS
  <1>4. names \subseteq Dep /\ Tells(t, names)
    <2>1. ASSUME ProcessInvalidateKey(t) PROVE names \subseteq Dep /\ Tells(t, names)
      BY <1>3, <2>1, KeyTells DEF TypeInv, Dep
    <2>2. ASSUME ProcessInvalidateCalls(t) PROVE names \subseteq Dep /\ Tells(t, names)
      BY <1>3, <2>2, CallsTell DEF TypeInv, Dep
    <2>. QED
      BY <2>1, <2>2
  <1>5. PICK popped : popped = {e \in Entry : \E x \in names : e \in deps[t][x]}
    OBVIOUS
  <1>6. PICK cleared : cleared = {e \in Entry : /\ NoVal \in Words(e[1], e[2])
                                                /\ NoVal \notin Words(e[1], e[2])'}
    OBVIOUS
  <1>7. PICK N : N = L \ popped
    OBVIOUS
  <1>8. PICK O : O = (M \cup popped) \ cleared
    OBVIOUS
  <1>. SUFFICES ASSUME NEW s \in Service, NEW d \in Call
                PROVE  Line(s, d, N, O)'
    BY <1>5, <1>7, <1>8 DEF Lines
  <1>9. ASSUME NEW u \in Service, NEW x \in Call
        PROVE  /\ <<u, x>> \in popped <=> \E y \in names : <<u, x>> \in deps[t][y]
               /\ <<u, x>> \in popped => Owner[x] = t
               /\ <<u, x>> \in cleared <=> NoVal \in Words(u, x) /\ NoVal \notin Words(u, x)'
    <2>1. <<u, x>> \in Entry /\ <<u, x>>[1] = u /\ <<u, x>>[2] = x
      BY DEF Entry
    <2>2. \A y \in Dep : \A e \in deps[t][y] : Owner[e[2]] = t
      BY DEF Home, AtHome
    <2>3. ASSUME NEW y \in names, <<u, x>> \in deps[t][y] PROVE Owner[x] = t
      <3>1. Owner[<<u, x>>[2]] = t
        BY <1>4, <2>2, <2>3
      <3>. QED
        BY <2>1, <3>1
    <2>4. <<u, x>> \in cleared <=> NoVal \in Words(u, x) /\ NoVal \notin Words(u, x)'
      BY <1>6, <2>1
    <2>. QED
      BY <1>5, <2>1, <2>3, <2>4
  <1>10. ASSUME NEW u \in Service, NEW x \in Call
         PROVE  LET new == IF <<u, x>> \in popped THEN {NoVal} ELSE {}
                IN  /\ Words(u, x)' \subseteq Words(u, x) \cup new
                    /\ new \subseteq Words(u, x)'
                    /\ cache'[u][x] \in Words(u, x) \cup {cache[u][x]}
                    /\ <<u, x>> \in cleared =>
                          /\ u = t /\ x \in names
                          /\ \A val \in Words(u, x)' \cup {cache'[u][x]} : val = NoVal
                    /\ Ordered(u, x)'
    <2>1. Ordered(u, x) /\ Owner[x] \in Service
      BY GraphAssumption DEF Lines, Line
    <2>2. PICK new : new = IF <<u, x>> \in popped THEN {NoVal} ELSE {}
      OBVIOUS
    <2>3. \/ HttpQueue'[Owner[x]] = HttpQueue[Owner[x]] /\ new = {}
          \/ \E r \in Request :
                /\ HttpQueue'[Owner[x]] = Append(HttpQueue[Owner[x]], r)
                /\ new = IF <<u, x>> \in r.entries THEN {r.val} ELSE {}
      <3>1. CASE Owner[x] # t
        BY <1>4, <1>9, <2>1, <2>2, <3>1 DEF Tells
      <3>2. CASE Owner[x] = t
        BY <1>4, <1>9, <2>2, <3>2 DEF Tells
      <3>. QED
        BY <3>1, <3>2
    <2>4. new \subseteq {NoVal}
      BY <2>2
    <2>5. /\ Words(u, x)' \subseteq Words(u, x) \cup new
          /\ new \subseteq Words(u, x)'
          /\ cache'[u][x] \in Words(u, x) \cup {cache[u][x]}
          /\ NoVal \in Words(u, x) =>
                \/ NoVal \in Words(u, x)'
                \/ /\ u = t /\ Says(m, x) /\ Word(m, x) = NoVal
                   /\ \A val \in Words(u, x)' \cup {cache'[u][x]} : val = NoVal
          /\ Ordered(u, x)'
      BY <1>1, <2>1, <2>3, <2>4, ProcessWords, ZenonT(40)
    <2>6. Says(m, x) => x \in names
      BY <1>2, <1>3 DEF Says
    <2>. QED
      BY <1>9, <2>2, <2>5, <2>6
  <1>11. Line(s, d, L, M) /\ Owner[d] \in Service
    BY GraphAssumption DEF Lines
  <1>12. ASSUME <<s, d>> \notin popped, NEW x \in Dep, Indexed(s, d, x)
         PROVE  Indexed(s, d, x)' /\ ~(Owner[d] = t /\ x \in names)
    BY <1>4, <1>9, <1>11, <1>12 DEF Indexed, Tells
  <1>13. Reads[d] \cup Calls[d] \subseteq Dep /\ Calls[d] \subseteq Call /\ Reads[d] \subseteq Key
    BY GraphAssumption DEF Dep
  <1>14. \A x \in Call : <<s, x>> \in popped => <<s, x>> \notin cleared
    BY <1>9, <1>10
  <1>15. ASSUME <<s, d>> \notin popped, NEW x \in Calls[d], Indexed(s, d, x)
         PROVE  <<Owner[d], x>> \notin cleared
    BY <1>10, <1>11, <1>12, <1>13, <1>15
  <1>16. ASSUME <<s, d>> \in N
         PROVE  /\ \A x \in Reads[d] \cup Calls[d] : Indexed(s, d, x)'
                /\ \A x \in Calls[d] : Linked(Owner[d], x, N, O)'
    <2>1. <<s, d>> \in L /\ <<s, d>> \notin popped
      BY <1>7, <1>16
    <2>2. ASSUME NEW x \in Calls[d] PROVE <<Owner[d], x>> \in N \/ <<Owner[d], x>> \in O
      <3>1. Linked(Owner[d], x, L, M) /\ Indexed(s, d, x)
        BY <1>11, <2>1 DEF Line
      <3>2. ~Ending(Owner[d], x)
        BY <1>13, GraphAssumption DEF NothingRuns, Ending, IsEnd
      <3>3. <<Owner[d], x>> \notin cleared
        BY <1>15, <2>1, <3>1
      <3>. QED
        BY <1>7, <1>8, <3>1, <3>2, <3>3 DEF Linked
    <2>3. \A x \in Reads[d] \cup Calls[d] : Indexed(s, d, x)'
      BY <1>11, <1>12, <1>13, <2>1 DEF Line
    <2>. QED
      BY <2>2, <2>3 DEF Linked
  <1>17. ASSUME <<s, d>> \in O PROVE Warned(s, d, O)'
    <2>1. CASE <<s, d>> \in popped
      BY <1>10, <2>1 DEF Warned
    <2>2. CASE <<s, d>> \in M /\ <<s, d>> \notin popped
      <3>1. NoVal \in Words(s, d) => NoVal \in Words(s, d)'
        BY <1>8, <1>9, <1>17
      <3>2. ASSUME NEW k \in Reads[d], Coming(k), Indexed(s, d, k)
            PROVE  Coming(k)' /\ Indexed(s, d, k)'
        <4>1. Indexed(s, d, k)' /\ ~(Owner[d] = t /\ k \in names)
          BY <1>12, <1>13, <2>2, <3>2
        <4>2. Owner[k] = Owner[d] /\ k \in Key
          BY GraphAssumption
        <4>3. ~(Owner[k] = t /\ IsInv(m, k))
          BY <1>3, <4>1, <4>2 DEF IsInv
        <4>. QED
          BY <1>1, <3>2, <4>1, <4>2, <4>3, ComingTail
      <3>3. ASSUME NEW x \in Calls[d], <<Owner[d], x>> \in M, Indexed(s, d, x)
            PROVE  <<Owner[d], x>> \in O /\ Indexed(s, d, x)'
        BY <1>8, <1>12, <1>13, <1>15, <2>2, <3>3
      <3>4. Warned(s, d, M)
        BY <1>11, <2>2 DEF Line
      <3>. QED
        BY <3>1, <3>2, <3>3, <3>4 DEF Warned
    <2>. QED
      BY <1>8, <1>17, <2>1, <2>2
  <1>18. ASSUME NoVal \in Words(s, d)' PROVE <<s, d>> \in O
    <2>1. <<s, d>> \notin cleared
      BY <1>9, <1>18
    <2>2. NoVal \in Words(s, d) \/ <<s, d>> \in popped
      BY <1>10, <1>18
    <2>. QED
      BY <1>8, <1>11, <2>1, <2>2 DEF Line
  <1>19. ASSUME NEW val \in Words(s, d)' \cup {cache'[s][d]}, val # NoVal
         PROVE  <<s, d>> \in O \/ (<<s, d>> \in N /\ Fresh(val, d)')
    <2>1. val \in Words(s, d) \cup {cache[s][d]}
      <3>1. Words(s, d)' \subseteq Words(s, d) \cup {NoVal}
        BY <1>10
      <3>2. cache'[s][d] \in Words(s, d) \cup {cache[s][d]}
        BY <1>10
      <3>. QED
        BY <1>19, <3>1, <3>2
    <2>2. <<s, d>> \in M \/ (<<s, d>> \in L /\ Fresh(val, d))
      BY <1>11, <1>19, <2>1 DEF Line
    <2>3. <<s, d>> \notin cleared
      BY <1>10, <1>19
    <2>4. Fresh(val, d)' <=> Fresh(val, d)
      BY <1>1 DEF Fresh
    <2>. QED
      BY <1>7, <1>8, <2>2, <2>3, <2>4
  <1>. QED
    BY <1>10, <1>16, <1>17, <1>18, <1>19 DEF Line

-----------------------------------------------------------------------------
\* What the runs have read, step by step.

LEMMA NoneReads ==
    ASSUME NothingRuns', NEW L, NEW M
    PROVE  AllFresh(L, M)'
  BY GraphAssumption DEF NothingRuns, AllFresh, RunFresh, EndsFresh, Idle, IsEnd

LEMMA FreshKept ==
    ASSUME UNCHANGED <<db, run>>, NEW L, NEW M, NEW N, NEW O, AllFresh(L, M),
           \A u, d : d \in Call /\ Linked(u, d, L, M) => Linked(u, d, N, O)',
           \A s \in Service : \A i \in 1..Len(WQ'[s]) : WQ'[s][i].type = "end" =>
              \E j \in 1..Len(WQ[s]) : WQ[s][j] = WQ'[s][i]
    PROVE  AllFresh(N, O)'
  <1>. SUFFICES ASSUME NEW c \in Call PROVE RunFresh(c, N, O)' /\ EndsFresh(c, N, O)'
    BY DEF AllFresh
  <1>1. RunFresh(c, L, M) /\ EndsFresh(c, L, M) /\ Owner[c] \in Service /\ Calls[c] \subseteq Call
    BY GraphAssumption DEF AllFresh
  <1>2. \A val, d : Fresh(val, d)' <=> Fresh(val, d)
    BY DEF Fresh
  <1>3. RunFresh(c, N, O)'
    BY <1>1, <1>2 DEF RunFresh
  <1>4. ASSUME NEW i \in 1..Len(WQ'[Owner[c]]), IsEnd(WQ'[Owner[c]][i], c),
               NEW m, m = WQ'[Owner[c]][i]
        PROVE  /\ m.used = Reads[c] \cup Calls[c]
               /\ Fresh(m.val, c)'
               /\ \A x \in Calls[c] : Linked(Owner[c], x, N, O)'
    <2>1. PICK j \in 1..Len(WQ[Owner[c]]) : WQ[Owner[c]][j] = m
      BY <1>1, <1>4 DEF IsEnd
    <2>2. IsEnd(m, c)
      BY <1>4 DEF IsEnd
    <2>3. /\ m.used = Reads[c] \cup Calls[c]
          /\ Fresh(m.val, c)
          /\ \A x \in Calls[c] : Linked(Owner[c], x, L, M)
      BY <1>1, <2>1, <2>2 DEF EndsFresh
    <2>. QED
      BY <1>1, <1>2, <2>3
  <1>5. EndsFresh(c, N, O)'
    BY <1>4 DEF EndsFresh, IsEnd
  <1>. QED
    BY <1>3, <1>5

\* While nothing is invalidated the handlers read what is in the databases.
LEMMA HandlersFresh ==
    ASSUME TypeInv, Shaped, Clients \/ Handlers, NEW L, Lines(L, {}), AllFresh(L, {})
    PROVE  AllFresh(L, {})'
  <1>1. db' = db
    BY DEF Clients, Handlers, ClientRequest, PreReqStart, PreReqEnd, GetState, InvokeHit,
           InvokeMiss
  <1>2. \A u \in Service :
           /\ WQ[u] \in Seq(Message)
           /\ Len(WQ[u]) \in Nat /\ Len(WQ'[u]) \in Nat /\ Len(WQ[u]) <= Len(WQ'[u])
           /\ \A i \in 1..Len(WQ[u]) : WQ'[u][i] = WQ[u][i]
    BY QueuesGrow
  <1>3. \A u, d : d \in Call /\ Linked(u, d, L, {}) => Linked(u, d, L, {})'
    BY <1>2, EndingGrows, GraphAssumption DEF Linked
  <1>4. \A val, d : Fresh(val, d)' <=> Fresh(val, d)
    BY <1>1 DEF Fresh
  <1>5. /\ run \in [Call -> Run]
        /\ \A c \in Call : RunFresh(c, L, {}) /\ EndsFresh(c, L, {}) /\ Shape(c)
        /\ \A c \in Call : /\ Owner[c] \in Service
                           /\ Calls[c] \subseteq Call /\ Reads[c] \subseteq Key
    BY GraphAssumption DEF TypeInv, TypeOK, AllFresh, Shaped
  <1>6. ASSUME NEW c \in Call, run'[c] = run[c] PROVE RunFresh(c, L, {})'
    BY <1>1, <1>3, <1>4, <1>5, <1>6 DEF RunFresh
  <1>7. ASSUME NEW c \in Call,
               \A i \in 1..Len(WQ'[Owner[c]]) :
                  i \in 1..Len(WQ[Owner[c]]) \/ ~IsEnd(WQ'[Owner[c]][i], c)
        PROVE  EndsFresh(c, L, {})'
    <2>1. ASSUME NEW i \in 1..Len(WQ'[Owner[c]]), IsEnd(WQ'[Owner[c]][i], c),
                 NEW m, m = WQ'[Owner[c]][i]
          PROVE  /\ m.used = Reads[c] \cup Calls[c]
                 /\ Fresh(m.val, c)'
                 /\ \A x \in Calls[c] : Linked(Owner[c], x, L, {})'
      <3>1. i \in 1..Len(WQ[Owner[c]]) /\ WQ[Owner[c]][i] = m /\ IsEnd(m, c)
        BY <1>2, <1>5, <1>7, <2>1 DEF IsEnd
      <3>2. /\ m.used = Reads[c] \cup Calls[c]
            /\ Fresh(m.val, c)
            /\ \A x \in Calls[c] : Linked(Owner[c], x, L, {})
        BY <1>5, <3>1 DEF EndsFresh
      <3>. QED
        BY <1>3, <1>4, <1>5, <3>2
    <2>. QED
      BY <2>1 DEF EndsFresh, IsEnd
  <1>8. ASSUME NEW c \in Call, run[c].phase # "idle", NEW d \in Reads[c] \cup Calls[c],
               NEW value \in Value, run'[c] = Got(run[c], d, value, ByClient(c)),
               d \in Reads[c] => <<d, db[d]>> \in value,
               d \in Calls[c] => Fresh(value, d) /\ Linked(Owner[c], d, L, {})'
        PROVE  RunFresh(c, L, {})'
    <2>1. PICK r \in Run : r = run[c]
      BY <1>5
    <2>2. PICK g : g = run'[c]
      OBVIOUS
    <2>3. d \in Dep /\ ByClient(c) \in BOOLEAN
      BY <1>5 DEF Dep, ByClient
    <2>4. /\ g.parent = r.parent /\ g.todo = r.todo \ {d} /\ g.got = r.got \cup value
          /\ r.parent \in Call => g.used = r.used \cup {d}
      <3>1. PICK b : b = ByClient(c)
        OBVIOUS
      <3>2. g = Got(r, d, value, b) /\ (r.parent \in Call => ~b)
        BY <1>8, <2>1, <2>2, <3>1, AbsenceAssumption DEF ByClient
      <3>. QED
        BY <2>3, <3>2, GotFacts
    <2>5. /\ \A k \in Reads[c] \ r.todo : <<k, db[k]>> \in r.got
          /\ \A x \in Calls[c] \ r.todo : Fresh(r.got, x)
          /\ r.parent \in Call =>
                /\ r.used = (Reads[c] \cup Calls[c]) \ r.todo
                /\ \A x \in Calls[c] \ r.todo : Linked(Owner[c], x, L, {})
      BY <1>5, <1>8, <2>1 DEF RunFresh
    <2>6. \A k \in Reads[c] \ g.todo : <<k, db[k]>> \in g.got
      BY <1>8, <2>4, <2>5
    <2>7. \A x \in Calls[c] \ g.todo : Fresh(g.got, x)
      BY <1>8, <2>4, <2>5 DEF Fresh
    <2>8. ASSUME g.parent \in Call
          PROVE  /\ g.used = (Reads[c] \cup Calls[c]) \ g.todo
                 /\ \A x \in Calls[c] \ g.todo : Linked(Owner[c], x, L, {})'
      <3>1. g.used = (Reads[c] \cup Calls[c]) \ g.todo
        BY <2>4, <2>5, <2>8
      <3>2. \A x \in Calls[c] \ g.todo : Linked(Owner[c], x, L, {})'
        BY <1>3, <1>5, <1>8, <2>4, <2>5, <2>8
      <3>. QED
        BY <3>1, <3>2
    <2>. QED
      BY <1>1, <1>4, <2>2, <2>6, <2>7, <2>8 DEF RunFresh
  <1>9. ASSUME NEW c \in Call, NEW p, run'[c].todo = Reads[c] \cup Calls[c],
               run'[c].used = {}
        PROVE  RunFresh(c, L, {})'
    BY <1>9 DEF RunFresh
  <1>10. ASSUME UNCHANGED WQ, NEW c \in Call PROVE EndsFresh(c, L, {})'
    BY <1>7, <1>10
  <1>11. ASSUME NEW c \in Call, ClientRequest(c) PROVE AllFresh(L, {})'
    <2>1. run'[c] = [Asked(None, c) EXCEPT !.phase = "on"] /\ UNCHANGED WQ
      BY <1>5, <1>11 DEF ClientRequest
    <2>2. run'[c].todo = Reads[c] \cup Calls[c] /\ run'[c].used = {}
      BY <2>1 DEF Asked
    <2>3. \A d \in Call : d # c => run'[d] = run[d]
      BY <1>5, <1>11 DEF ClientRequest
    <2>. QED
      BY <1>6, <1>9, <1>10, <2>1, <2>2, <2>3 DEF AllFresh
  <1>12. ASSUME NEW c \in Call, PreReqStart(c) PROVE AllFresh(L, {})'
    <2>. DEFINE m == [type |-> "start", call |-> c]
    <2>1. m \in Message /\ m.type = "start" /\ Owner[c] \in Service
      BY GraphAssumption DEF Message
    <2>2. /\ run' = [run EXCEPT ![c].phase = "on"] /\ run[c].phase = "asked"
          /\ WQ' = [WQ EXCEPT ![Owner[c]] = Append(@, m)]
      BY <1>12 DEF PreReqStart
    <2>. HIDE DEF m
    <2>3. \A d \in Call : d # c => run'[d] = run[d]
      BY <1>5, <2>2
    <2>4. RunFresh(c, L, {})'
      <3>1. run[c] \in Run
        BY <1>5
      <3>2. /\ run'[c].todo = run[c].todo /\ run'[c].used = run[c].used
            /\ run'[c].got = run[c].got /\ run'[c].parent = run[c].parent
        BY <1>5, <2>2, <3>1 DEF Run
      <3>. QED
        BY <1>1, <1>3, <1>4, <1>5, <2>2, <3>2 DEF RunFresh
    <2>5. ASSUME NEW d \in Call PROVE EndsFresh(d, L, {})'
      <3>1. \A i \in 1..Len(WQ'[Owner[d]]) :
               i \in 1..Len(WQ[Owner[d]]) \/ WQ'[Owner[d]][i] = m
        BY <1>5, <2>1, <2>2, Appended
      <3>. QED
        BY <1>7, <2>1, <3>1 DEF IsEnd
    <2>. QED
      BY <1>6, <2>3, <2>4, <2>5 DEF AllFresh
  <1>13. ASSUME NEW c \in Call, NEW k \in Key, GetState(c, k) PROVE AllFresh(L, {})'
    <2>1. /\ run' = [run EXCEPT ![c] = Got(@, k, {<<k, db[k]>>}, ByClient(c))]
          /\ UNCHANGED WQ /\ run[c].phase = "on" /\ k \in run[c].todo
      BY <1>13 DEF GetState, Active
    <2>2. \A d \in Call : d # c => run'[d] = run[d]
      BY <1>5, <2>1
    <2>3. RunFresh(c, L, {})'
      <3>1. {<<k, db[k]>>} \in Value
        BY DEF Value, TypeInv, TypeOK
      <3>2. k \in Reads[c] \cup Calls[c] /\ k \notin Calls[c]
        BY <1>5, <2>1, CallsAndKeysApart DEF Shape
      <3>3. run'[c] = Got(run[c], k, {<<k, db[k]>>}, ByClient(c))
        BY <1>5, <2>1
      <3>. QED
        BY <1>8, <2>1, <3>1, <3>2, <3>3
    <2>. QED
      BY <1>6, <1>10, <2>1, <2>2, <2>3 DEF AllFresh
  <1>14. ASSUME NEW c \in Call, NEW d \in Call, InvokeHit(c, d) PROVE AllFresh(L, {})'
    <2>1. /\ run' = [run EXCEPT ![c] = Got(@, d, cache[Owner[c]][d], ByClient(c))]
          /\ UNCHANGED WQ /\ run[c].phase = "on" /\ d \in run[c].todo
          /\ cache[Owner[c]][d] # NoVal
      BY <1>14 DEF InvokeHit, Active
    <2>2. \A x \in Call : x # c => run'[x] = run[x]
      BY <1>5, <2>1
    <2>3. RunFresh(c, L, {})'
      <3>1. cache[Owner[c]][d] \in Value
        BY <1>5, <2>1 DEF TypeInv, TypeOK
      <3>2. d \in Reads[c] \cup Calls[c] /\ d \notin Reads[c]
        BY <1>5, <2>1, CallsAndKeysApart DEF Shape
      <3>3. <<Owner[c], d>> \in L /\ Fresh(cache[Owner[c]][d], d)
        BY <1>5, <2>1 DEF Lines, Line
      <3>4. run'[c] = Got(run[c], d, cache[Owner[c]][d], ByClient(c))
        BY <1>5, <2>1
      <3>5. Linked(Owner[c], d, L, {})'
        BY <3>3 DEF Linked
      <3>. QED
        BY <1>8, <2>1, <3>1, <3>2, <3>3, <3>4, <3>5
    <2>. QED
      BY <1>6, <1>10, <2>1, <2>2, <2>3 DEF AllFresh
  <1>15. ASSUME NEW c \in Call, NEW d \in Call, InvokeMiss(c, d) PROVE AllFresh(L, {})'
    <2>1. run' = [run EXCEPT ![d] = Asked(c, d)] /\ UNCHANGED WQ
      BY <1>15 DEF InvokeMiss
    <2>2. run'[d].todo = Reads[d] \cup Calls[d] /\ run'[d].used = {}
      BY <1>5, <2>1 DEF Asked
    <2>3. \A x \in Call : x # d => run'[x] = run[x]
      BY <1>5, <2>1
    <2>. QED
      BY <1>6, <1>9, <1>10, <2>1, <2>2, <2>3 DEF AllFresh
  <1>16. ASSUME NEW c \in Call, PreReqEnd(c) PROVE AllFresh(L, {})'
    <2>1. run[c].phase = "on" /\ run[c].todo = {}
      BY <1>16 DEF PreReqEnd, Active
    <2>2. Fresh(run[c].got, c)
      <3>1. /\ \A k \in Reads[c] : <<k, db[k]>> \in run[c].got
            /\ \A x \in Calls[c] : Fresh(run[c].got, x)
        BY <1>5, <2>1 DEF RunFresh
      <3>2. \A k \in Footprint[c] : k \in Reads[c] \/ \E x \in Calls[c] : k \in Footprint[x]
        BY FootprintAssumption
      <3>. QED
        BY <3>1, <3>2 DEF Fresh
    <2>3. CASE ByClient(c)
      <3>1. run' = [run EXCEPT ![c] = Idle] /\ UNCHANGED WQ
        BY <1>16, <2>3 DEF PreReqEnd
      <3>2. run'[c].phase = "idle" /\ \A d \in Call : d # c => run'[d] = run[d]
        BY <1>5, <3>1 DEF Idle
      <3>3. RunFresh(c, L, {})'
        BY <3>2 DEF RunFresh
      <3>. QED
        BY <1>6, <1>10, <3>1, <3>2, <3>3 DEF AllFresh
    <2>4. CASE ~ByClient(c)
      <3>1. PICK p : p = run[c].parent
        OBVIOUS
      <3>2. /\ p \in Call /\ p # c /\ c \in Calls[p] /\ run[p].phase = "on"
            /\ run[c].got \in Value /\ run[c].used \in SUBSET Dep
        <4>1. run[c] \in Run
          BY <1>5
        <4>2. p \in Call
          BY <2>4, <3>1, <4>1 DEF ByClient, Run
        <4>. QED
          BY <1>5, <3>1, <4>1, <4>2 DEF Shape, Run
      <3>. DEFINE m == [type |-> "end", call |-> c, caller |-> Owner[p],
                        used |-> run[c].used, val |-> run[c].got]
      <3>3. /\ m \in Message /\ m.type = "end" /\ m.call = c /\ m.caller = Owner[p]
            /\ m.used = run[c].used /\ m.val = run[c].got
        BY <1>5, <3>2 DEF Message
      <3>4. /\ run' = [[run EXCEPT ![c] = Idle] EXCEPT
                         ![p] = Got(@, c, run[c].got, ByClient(p))]
            /\ WQ' = [WQ EXCEPT ![Owner[c]] = Append(@, m)]
        BY <1>16, <2>4, <3>1 DEF PreReqEnd
      <3>. HIDE DEF m
      <3>5. /\ run'[c].phase = "idle" /\ run'[p] = Got(run[p], c, run[c].got, ByClient(p))
            /\ \A d \in Call : d # c /\ d # p => run'[d] = run[d]
        BY <1>5, <3>2, <3>4 DEF Idle
      <3>6. /\ Len(WQ'[Owner[c]]) = Len(WQ[Owner[c]]) + 1
            /\ WQ'[Owner[c]][Len(WQ[Owner[c]]) + 1] = m
        <4>1. WQ'[Owner[c]] = Append(WQ[Owner[c]], m) /\ WQ[Owner[c]] \in Seq(Message)
          BY <1>5, <3>4 DEF TypeInv, TypeOK
        <4>. QED
          BY <3>3, <4>1, AppendFacts
      <3>7. Linked(Owner[p], c, L, {})'
        <4>1. Len(WQ[Owner[c]]) + 1 \in 1..Len(WQ'[Owner[c]])
          BY <1>2, <1>5, <3>6
        <4>2. IsEnd(m, c) /\ m.caller = Owner[p]
          BY <3>3 DEF IsEnd
        <4>3. Ending(Owner[p], c)'
          BY <3>6, <4>1, <4>2 DEF Ending, IsEnd
        <4>. QED
          BY <4>3 DEF Linked
      <3>8. RunFresh(p, L, {})'
        <4>1. c \in Reads[p] \cup Calls[p] /\ c \notin Reads[p]
          BY <1>5, <3>2, CallsAndKeysApart
        <4>. QED
          BY <1>8, <2>2, <3>2, <3>5, <3>7, <4>1
      <3>9. RunFresh(c, L, {})'
        BY <3>5 DEF RunFresh
      <3>10. ASSUME NEW d \in Call PROVE EndsFresh(d, L, {})'
        <4>1. \A i \in 1..Len(WQ'[Owner[d]]) :
                 \/ i \in 1..Len(WQ[Owner[d]]) /\ WQ'[Owner[d]][i] = WQ[Owner[d]][i]
                 \/ WQ'[Owner[d]][i] = m
          BY <1>5, <3>3, <3>4, Appended
        <4>2. CASE d # c
          BY <1>7, <3>3, <4>1, <4>2 DEF IsEnd
        <4>3. CASE d = c
          <5>1. /\ m.used = Reads[c] \cup Calls[c]
                /\ Fresh(m.val, c)
                /\ \A x \in Calls[c] : Linked(Owner[c], x, L, {})
            BY <1>5, <2>1, <2>2, <3>1, <3>2, <3>3 DEF RunFresh
          <5>2. ASSUME NEW i \in 1..Len(WQ'[Owner[c]]), IsEnd(WQ'[Owner[c]][i], c),
                       NEW n, n = WQ'[Owner[c]][i]
                PROVE  /\ n.used = Reads[c] \cup Calls[c]
                       /\ Fresh(n.val, c)'
                       /\ \A x \in Calls[c] : Linked(Owner[c], x, L, {})'
            <6>1. /\ n.used = Reads[c] \cup Calls[c]
                  /\ Fresh(n.val, c)
                  /\ \A x \in Calls[c] : Linked(Owner[c], x, L, {})
              <7>1. CASE n = m
                BY <5>1, <7>1
              <7>2. CASE i \in 1..Len(WQ[Owner[c]]) /\ n = WQ[Owner[c]][i]
                <8>1. IsEnd(WQ[Owner[c]][i], c)
                  BY <5>2, <7>2 DEF IsEnd
                <8>. QED
                  BY <1>5, <7>2, <8>1 DEF EndsFresh
              <7>. QED
                BY <4>1, <4>3, <5>2, <7>1, <7>2
            <6>. QED
              BY <1>3, <1>4, <1>5, <6>1
          <5>. QED
            BY <4>3, <5>2 DEF EndsFresh, IsEnd
        <4>. QED
          BY <4>2, <4>3
      <3>. QED
        BY <1>6, <3>5, <3>8, <3>9, <3>10 DEF AllFresh
    <2>. QED
      BY <2>3, <2>4
  <1>. QED
    BY <1>11, <1>12, <1>13, <1>14, <1>15, <1>16, GraphAssumption DEF Clients, Handlers

\* The managers put no ends into a work queue.
LEMMA ManagersFresh ==
    ASSUME TypeInv, Managers, NEW L, NEW M, NEW N, NEW O, AllFresh(L, M),
           \A u, d : d \in Call /\ Linked(u, d, L, M) => Linked(u, d, N, O)'
    PROVE  AllFresh(N, O)'
  <1>1. ASSUME NEW t \in Service, Process(t), NEW s \in Service, NEW i \in 1..Len(WQ'[s])
        PROVE  \E j \in 1..Len(WQ[s]) : WQ[s][j] = WQ'[s][i]
    <2>1. /\ WQ[t] \in Seq(Message) /\ WQ[t] # <<>> /\ WQ'[t] = Tail(WQ[t])
          /\ \A u \in Service : u # t => WQ'[u] = WQ[u]
      BY <1>1, ProcessTakes
    <2>2. /\ Len(WQ[t]) \in Nat \ {0} /\ Len(WQ'[t]) = Len(WQ[t]) - 1
          /\ \A j \in 1..Len(WQ'[t]) : WQ'[t][j] = WQ[t][j + 1]
      BY <2>1, TailFacts
    <2>3. \A j \in 1..Len(WQ'[t]) : j + 1 \in 1..Len(WQ[t])
      BY <2>2
    <2>. QED
      BY <2>1, <2>2, <2>3
  <1>2. ASSUME NEW t \in Service, Flush(t), NEW s \in Service, NEW i \in 1..Len(WQ'[s]),
               WQ'[s][i].type = "end"
        PROVE  \E j \in 1..Len(WQ[s]) : WQ[s][j] = WQ'[s][i]
    <2>. DEFINE p == Posts(buffer[t], s)
    <2>1. /\ Len(WQ[s]) \in Nat
          /\ \A j \in 1..Len(WQ[s]) : WQ'[s][j] = WQ[s][j]
          /\ \A j \in 1..Len(p) : /\ WQ'[s][Len(WQ[s]) + j] = p[j]
                                  /\ p[j].type \in {"invcalls", "save"}
          /\ i \in 1..Len(WQ[s]) \/ i - Len(WQ[s]) \in 1..Len(p)
      BY <1>2, FlushAdds
    <2>. HIDE DEF p
    <2>2. i - Len(WQ[s]) \notin 1..Len(p)
      <3>. SUFFICES ASSUME i - Len(WQ[s]) \in 1..Len(p) PROVE FALSE
        OBVIOUS
      <3>1. Len(WQ[s]) + (i - Len(WQ[s])) = i
        BY <2>1
      <3>2. WQ'[s][i] = p[i - Len(WQ[s])]
        BY <2>1, <3>1
      <3>. QED
        BY <1>2, <2>1, <3>2
    <2>. QED
      BY <2>1, <2>2
  <1>3. ASSUME NEW t \in Service, Receive(t) PROVE UNCHANGED WQ
    BY <1>3 DEF Receive
  <1>4. UNCHANGED <<db, run>>
    BY ProcessTakes DEF Managers, Receive, Flush, app
  <1>5. \A s \in Service : \A i \in 1..Len(WQ'[s]) : WQ'[s][i].type = "end" =>
           \E j \in 1..Len(WQ[s]) : WQ[s][j] = WQ'[s][i]
    BY <1>1, <1>2, <1>3 DEF Managers
  <1>. QED
    BY <1>4, <1>5, FreshKept

-----------------------------------------------------------------------------
LEMMA ChainServices ==
    ASSUME Acyclic, TypeInv, Shaped, Phases, WritesAlone \/ ReadsAlone \/ Handlers,
           NEW L \in SUBSET Entry, NEW M \in SUBSET Entry, Lines(L, M), AllFresh(L, M)
    PROVE  \E N, O \in SUBSET Entry : Lines(N, O)' /\ AllFresh(N, O)'
  <1>1. ASSUME NEW k \in Key, NothingRuns, Write(k)
        PROVE  \E N, O \in SUBSET Entry : Lines(N, O)' /\ AllFresh(N, O)'
    <2>1. PICK O : O = M \cup {e \in L : k \in Footprint[e[2]]}
      OBVIOUS
    <2>2. Lines(L, O)'
      BY <1>1, <2>1, WriteLines
    <2>3. AllFresh(L, O)'
      <3>1. NothingRuns'
        BY <1>1 DEF Write, NothingRuns
      <3>. QED
        BY <3>1, NoneReads
    <2>4. O \in SUBSET Entry
      BY <2>1
    <2>. QED
      BY <2>2, <2>3, <2>4
  <1>2. ASSUME NEW k \in Key, PostWrite(k)
        PROVE  Lines(L, M)' /\ AllFresh(L, M)'
    <2>. DEFINE m == [type |-> "inv", key |-> k]
    <2>1. Writers /\ UNCHANGED <<db, run>>
      BY <1>2 DEF Writers, PostWrite
    <2>2. \A u \in Service :
             /\ Len(WQ[u]) \in Nat /\ Len(WQ'[u]) \in Nat /\ Len(WQ[u]) <= Len(WQ'[u])
             /\ \A i \in 1..Len(WQ[u]) : WQ'[u][i] = WQ[u][i]
      BY <2>1, QueuesGrow
    <2>3. \A u, d : d \in Call /\ Linked(u, d, L, M) => Linked(u, d, L, M)'
      BY <2>2, EndingGrows, GraphAssumption DEF Linked
    <2>4. \A s \in Service : \A i \in 1..Len(WQ'[s]) : WQ'[s][i].type = "end" =>
             \E j \in 1..Len(WQ[s]) : WQ[s][j] = WQ'[s][i]
      <3>1. /\ m \in Message /\ m.type = "inv" /\ Owner[k] \in Service
            /\ WQ' = [WQ EXCEPT ![Owner[k]] = Append(@, m)]
        BY <1>2, GraphAssumption DEF Message, PostWrite
      <3>. HIDE DEF m
      <3>. QED
        BY <3>1, Appended
    <2>5. AllFresh(L, M)'
      BY <2>1, <2>3, <2>4, FreshKept
    <2>. QED
      BY <2>1, <2>5, ServicesKeepLines
  <1>3. ASSUME NothingInvalidated, Clients \/ Handlers
        PROVE  Lines(L, M)' /\ AllFresh(L, M)'
    <2>1. M = {}
      BY <1>3, NoneToGo
    <2>2. UNCHANGED db
      BY <1>3 DEF Clients, Handlers, ClientRequest, PreReqStart, PreReqEnd, GetState,
                  InvokeHit, InvokeMiss
    <2>3. Lines(L, M)'
      BY <1>3, <2>2, ServicesKeepLines
    <2>4. AllFresh(L, {})'
      BY <1>3, <2>1, HandlersFresh
    <2>. QED
      BY <2>1, <2>3, <2>4
  <1>4. CASE WritesAlone
    BY <1>1, <1>2, <1>4 DEF WritesAlone
  <1>5. CASE ReadsAlone
    BY <1>3, <1>5 DEF ReadsAlone
  <1>6. CASE Handlers
    BY <1>3, <1>6, HandlersRun DEF Phases
  <1>. QED
    BY <1>4, <1>5, <1>6

LEMMA ChainManagers ==
    ASSUME Acyclic, TypeInv, Home, Apart, Phases, AllUndisturbed, Managers,
           NEW L \in SUBSET Entry, NEW M \in SUBSET Entry, Lines(L, M), AllFresh(L, M)
    PROVE  \E N, O \in SUBSET Entry : Lines(N, O)' /\ AllFresh(N, O)'
  <1>1. ASSUME NEW t \in Service, Receive(t) \/ Flush(t)
        PROVE  Lines(L, M)' /\ AllFresh(L, M)'
    <2>1. Lines(L, M)'
      BY <1>1, SendersKeepLines
    <2>2. ASSUME NEW u \in Service
          PROVE  /\ Len(WQ[u]) \in Nat /\ Len(WQ'[u]) \in Nat /\ Len(WQ[u]) <= Len(WQ'[u])
                 /\ \A i \in 1..Len(WQ[u]) : WQ'[u][i] = WQ[u][i]
      <3>1. CASE Receive(t)
        BY <3>1 DEF Receive, TypeInv, TypeOK
      <3>2. CASE Flush(t)
        <4>1. PICK n \in Nat : /\ Len(WQ[u]) \in Nat /\ Len(WQ'[u]) = Len(WQ[u]) + n
                               /\ \A i \in 1..Len(WQ[u]) : WQ'[u][i] = WQ[u][i]
          BY <3>2, FlushAdds
        <4>. QED
          BY <4>1
      <3>. QED
        BY <1>1, <3>1, <3>2
    <2>3. \A u, d : d \in Call /\ Linked(u, d, L, M) => Linked(u, d, L, M)'
      BY <2>2, EndingGrows, GraphAssumption DEF Linked
    <2>. QED
      BY <2>1, <2>3, ManagersFresh
  <1>2. ASSUME NEW t \in Service, ProcessStart(t) \/ ProcessSave(t)
        PROVE  Lines(L, M)' /\ AllFresh(L, M)'
    <2>1. Process(t) /\ Head(WQ[t]).type \in {"start", "save"}
      BY <1>2, TakeFacts DEF Process, ProcessStart, ProcessSave, TypeInv
    <2>2. \A u, d : d \in Call /\ Linked(u, d, L, M) => Linked(u, d, L, M)'
      BY <2>1, EndingTail DEF Linked, IsEnd
    <2>. QED
      BY <1>2, <2>2, ProcessKeepsLines, ManagersFresh
  <1>3. ASSUME NEW t \in Service, ProcessEnd(t)
        PROVE  \E N, O \in SUBSET Entry : Lines(N, O)' /\ AllFresh(N, O)'
    <2>1. PICK m : m = Head(WQ[t])
      OBVIOUS
    <2>2. /\ m \in Message /\ m.type = "end" /\ m.call \in Call /\ m.caller \in Service
          /\ m = WQ[t][1] /\ 1 \in 1..Len(WQ[t])
      <3>1. m \in Message /\ m.type = "end" /\ WQ[t] \in Seq(Message) /\ WQ[t] # <<>>
        BY <1>3, <2>1, TakeFacts DEF ProcessEnd, TypeInv
      <3>2. Len(WQ[t]) \in Nat \ {0} /\ m = WQ[t][1]
        BY <2>1, <3>1, TailFacts
      <3>3. 1 \in 1..Len(WQ[t])
        BY <3>2
      <3>. QED
        BY <3>1, <3>2, <3>3, MessageFacts
    <2>3. NothingInvalidated
      BY <2>2 DEF Phases, NothingRuns
    <2>4. M = {}
      BY <2>3, NoneToGo
    <2>5. PICK N : N = L \cup {<<m.caller, m.call>>}
      OBVIOUS
    <2>6. Lines(L, {}) /\ AllFresh(L, {})
      BY <2>4
    <2>7. /\ Lines(N, {})'
          /\ \A u, d : d \in Call /\ Linked(u, d, L, {}) => Linked(u, d, N, {})'
      BY <1>3, <2>1, <2>3, <2>5, <2>6, EndLines
    <2>8. AllFresh(N, {})'
      BY <2>6, <2>7, ManagersFresh
    <2>9. N \in SUBSET Entry /\ {} \in SUBSET Entry
      BY <2>2, <2>5 DEF Entry
    <2>. QED
      BY <2>7, <2>8, <2>9
  <1>4. ASSUME NEW t \in Service, ProcessInvalidateKey(t) \/ ProcessInvalidateCalls(t)
        PROVE  \E N, O \in SUBSET Entry : Lines(N, O)' /\ AllFresh(N, O)'
    <2>1. Process(t) /\ Head(WQ[t]).type \in {"inv", "invcalls"}
      BY <1>4, KeyTells, CallsTell DEF Process, TypeInv
    <2>2. 1 \in 1..Len(WQ[t]) /\ WQ[t][1] = Head(WQ[t])
      <3>1. WQ[t] \in Seq(Message) /\ WQ[t] # <<>>
        BY <2>1, ProcessTakes
      <3>2. Len(WQ[t]) \in Nat \ {0} /\ Head(WQ[t]) = WQ[t][1]
        BY <3>1, TailFacts
      <3>. QED
        BY <3>2
    <2>3. NothingRuns
      BY <2>1, <2>2 DEF Phases, NothingInvalidated
    <2>4. PICK N, O \in SUBSET Entry : Lines(N, O)'
      BY <1>4, <2>3, InvalidateLines
    <2>5. AllFresh(N, O)'
      BY <2>1, <2>3, PhasesProcess, NoneReads
    <2>. QED
      BY <2>4, <2>5
  <1>. QED
    BY <1>1, <1>2, <1>3, <1>4 DEF Managers, Process

LEMMA ChainInit == Init => ChainInv
  <1>. SUFFICES ASSUME Init PROVE ChainInv
    OBVIOUS
  <1>1. TypeInv /\ Shaped /\ Home
    BY TypingInit, ShapedInit, HomeInit
  <1>2. NothingRuns
    BY DEF Init, NothingRuns
  <1>3. Apart
    BY DEF Init, Apart, DisjointBuffer, Empty
  <1>4. Lines({}, {})
    <2>. SUFFICES ASSUME NEW s \in Service, NEW d \in Call PROVE Line(s, d, {}, {})
      BY DEF Lines
    <2>1. Owner[d] \in Service
      BY GraphAssumption
    <2>2. Queued(s, d) = {} /\ ~Merged(s, d) /\ Posted(s, d) = {} /\ cache[s][d] = NoVal
      BY <2>1 DEF Init, Queued, Merged, Posted, Buffered, Saved, Empty
    <2>3. Words(s, d) = {}
      BY <2>2 DEF Words
    <2>. QED
      BY <2>2, <2>3 DEF Line, Ordered
  <1>5. AllFresh({}, {})
    BY GraphAssumption DEF Init, AllFresh, RunFresh, EndsFresh, Idle
  <1>. QED
    BY <1>1, <1>2, <1>3, <1>4, <1>5, NothingToDisturb DEF ChainInv, Phases

LEMMA ChainNext == Acyclic /\ ChainInv /\ [NoRaceNext]_vars => ChainInv'
  <1>. SUFFICES ASSUME Acyclic, ChainInv, [NoRaceNext]_vars PROVE ChainInv'
    OBVIOUS
  <1>1. TypeInv /\ Shaped /\ Home /\ Apart /\ Phases /\ AllUndisturbed
    BY DEF ChainInv
  <1>2. TypeInv' /\ Shaped' /\ Home' /\ Apart' /\ Phases'
    BY <1>1, NoRaceSteps, TypingNext, ShapedNext, HomeNext, ApartNext, PhasesNext
  <1>3. PICK L, M \in SUBSET Entry : Lines(L, M) /\ AllFresh(L, M)
    BY DEF ChainInv
  <1>4. CASE WritesAlone \/ ReadsAlone \/ Handlers
    <2>1. Writers \/ Clients \/ Handlers
      BY <1>4 DEF WritesAlone, ReadsAlone, Writers
    <2>2. AllUndisturbed'
      BY <1>1, <2>1, ServicesUndisturbed
    <2>. QED
      BY <1>1, <1>2, <1>3, <1>4, <2>2, ChainServices DEF ChainInv
  <1>5. CASE Managers
    <2>1. AllUndisturbed'
      BY <1>1, <1>5, ManagersUndisturbed
    <2>. QED
      BY <1>1, <1>2, <1>3, <1>5, <2>1, ChainManagers DEF ChainInv
  <1>6. CASE UNCHANGED vars
    <2>1. UNCHANGED <<db, unsent, run, cache, WQ, history, deps, HttpQueue, buffer>>
      BY <1>6 DEF vars, app, manager, sender
    <2>2. AllUndisturbed'
      BY <1>1, <2>1 DEF AllUndisturbed, RunUndisturbed, EndsUndisturbed, IsEnd
    <2>3. \A u, d : Ending(u, d)' <=> Ending(u, d)
      BY <2>1 DEF Ending, IsEnd
    <2>4. ASSUME NEW s \in Service, NEW d \in Call PROVE Line(s, d, L, M)'
      <3>1. Posted(s, d)' = Posted(s, d) /\ Line(s, d, L, M)
        BY <1>3, <2>1 DEF Posted, Says, Lines
      <3>2. Words(s, d)' = Words(s, d) /\ Ordered(s, d)'
        BY <2>1, <3>1, WordsSame DEF Line
      <3>3. \A k \in Reads[d] : Coming(k) => Coming(k)'
        BY <2>1 DEF Coming, IsInv
      <3>. QED
        BY <2>1, <2>3, <3>1, <3>2, <3>3, LineKept
    <2>5. AllFresh(L, M)'
      BY <1>3, <2>1, <2>3 DEF AllFresh, RunFresh, EndsFresh, Fresh, Linked, IsEnd
    <2>. QED
      BY <1>2, <1>3, <2>2, <2>4, <2>5 DEF ChainInv, Lines
  <1>. QED
    BY <1>4, <1>5, <1>6 DEF NoRaceNext

LEMMA ChainQuiet == Acyclic /\ ChainInv => QuietCoherent
  <1>. SUFFICES ASSUME Acyclic, ChainInv, Quiet, NEW s \in Service, NEW c \in Call
                PROVE  ~Stale(s, c)
    BY DEF QuietCoherent
  <1>1. PICK L, M \in SUBSET Entry : Lines(L, M)
    BY DEF ChainInv
  <1>2. NothingInvalidated
    BY DEF Quiet, NothingInvalidated, Buffered
  <1>3. M = {}
    BY <1>1, <1>2, NoneToGo DEF ChainInv
  <1>4. cache[s][c] # NoVal => Fresh(cache[s][c], c)
    BY <1>1, <1>3 DEF Lines, Line
  <1>. QED
    BY <1>4 DEF Stale, Fresh

\* Along a chain of calls of any length: where writes wait for the runs and
\* clients for the invalidations, no cache holds a stale line once all that
\* the managers have to pass on has arrived.
THEOREM ChainCoherent ==
    ASSUME Acyclic
    PROVE  NoRaceSpec => []QuietCoherent
  <1>1. Init => ChainInv
    BY ChainInit
  <1>2. ChainInv /\ [NoRaceNext]_vars => ChainInv'
    BY ChainNext
  <1>3. ChainInv => QuietCoherent
    BY ChainQuiet
  <1>. QED
    BY <1>1, <1>2, <1>3, PTL DEF NoRaceSpec

-----------------------------------------------------------------------------
(***************************************************************************)
(* Lost messages and restarted managers.  The invariant is the same: what  *)
(* may be stale is what holds a version from before the last damage, and   *)
(* nothing is claimed of the runs of which the manager knows no start.     *)
(***************************************************************************)
\* The pairs not newer than the given versions.
Before(versions) == {x \in Key \X (0..MaxWrites) : x[2] <= versions[x[1]]}

FaultInv ==
    /\ TypeInv
    /\ \A k \in Key : damaged[k] \in Int /\ damaged[k] <= db[k]
    /\ \E Old, Unseen : Old = Before(damaged) /\ Unseen = unseen /\ LeafInv(Old, Unseen)

-----------------------------------------------------------------------------
\* A queue that loses an item.

LEMMA RemoveFacts ==
    ASSUME NEW S, NEW q \in Seq(S), NEW i \in 1..Len(q), NEW g, g = RemoveAt(q, i)
    PROVE  /\ g \in Seq(S) /\ Len(q) \in Nat \ {0} /\ Len(g) = Len(q) - 1
           /\ \A x \in 1..Len(g) : IF x < i THEN g[x] = q[x] ELSE g[x] = q[x + 1]
           /\ \A x \in 1..Len(q) : /\ x < i => x \in 1..Len(g) /\ g[x] = q[x]
                                   /\ x > i => x - 1 \in 1..Len(g) /\ g[x - 1] = q[x]
           /\ \A x \in 1..Len(g) : \E y \in 1..Len(q) : y # i /\ g[x] = q[y]
  <1>. DEFINE p == SubSeq(q, 1, i - 1)
              r == SubSeq(q, i + 1, Len(q))
  <1>1. Len(q) \in Nat \ {0} /\ i \in Nat \ {0} /\ i <= Len(q)
    OBVIOUS
  <1>2. /\ p \in Seq(S) /\ Len(p) = i - 1 /\ \A x \in 1..(i - 1) : p[x] = q[x]
    BY <1>1
  <1>3. /\ r \in Seq(S) /\ Len(r) = Len(q) - i
        /\ \A x \in 1..(Len(q) - i) : r[x] = q[x + i]
    BY <1>1
  <1>. HIDE DEF p, r
  <1>4. g = p \o r
    BY DEF RemoveAt, p, r
  <1>5. /\ g \in Seq(S) /\ Len(g) = Len(q) - 1
        /\ \A x \in 1..(i - 1) : g[x] = p[x]
        /\ \A x \in 1..Len(g) : x >= i => g[x] = r[x - (i - 1)]
    BY <1>1, <1>2, <1>3, <1>4
  <1>6. ASSUME NEW x \in 1..Len(g) PROVE IF x < i THEN g[x] = q[x] ELSE g[x] = q[x + 1]
    <2>1. CASE x < i
      BY <1>1, <1>2, <1>5, <2>1
    <2>2. CASE x >= i
      <3>1. x - (i - 1) \in 1..(Len(q) - i) /\ (x - (i - 1)) + i = x + 1
        BY <1>1, <1>5, <2>2
      <3>. QED
        BY <1>1, <1>3, <1>5, <2>2, <3>1
    <2>. QED
      BY <1>1, <2>1, <2>2
  <1>7. ASSUME NEW x \in 1..Len(q)
        PROVE  /\ x < i => x \in 1..Len(g) /\ g[x] = q[x]
               /\ x > i => x - 1 \in 1..Len(g) /\ g[x - 1] = q[x]
    <2>1. CASE x < i
      BY <1>1, <1>5, <1>6, <2>1
    <2>2. CASE x > i
      <3>1. x - 1 \in 1..Len(g) /\ ~(x - 1 < i) /\ (x - 1) + 1 = x
        BY <1>1, <1>5, <2>2
      <3>. QED
        BY <1>6, <2>2, <3>1
    <2>. QED
      BY <1>1, <2>1, <2>2
  <1>8. ASSUME NEW x \in 1..Len(g) PROVE \E y \in 1..Len(q) : y # i /\ g[x] = q[y]
    <2>1. CASE x < i
      BY <1>1, <1>5, <1>6, <2>1
    <2>2. CASE x >= i
      <3>1. x + 1 \in 1..Len(q) /\ x + 1 # i /\ g[x] = q[x + 1]
        BY <1>1, <1>5, <1>6, <2>2
      <3>. QED
        BY <3>1
    <2>. QED
      BY <1>1, <2>1, <2>2
  <1>. QED
    BY <1>1, <1>5, <1>6, <1>7, <1>8

\* A judgement keeps sound when an item is lost that is no start of its call
\* and no invalidation of its keys.
LEMMA SoundRemove ==
    ASSUME NEW h, NEW q \in Seq(Message), NEW i \in 1..Len(q), NEW g, g = RemoveAt(q, i),
           NEW d, ~IsStart(q[i], d), NEW keys, \A k \in keys : ~IsInv(q[i], k),
           NEW j \in 1..(Len(q) + 1), j # i, NEW n, n = IF j < i THEN j ELSE j - 1,
           Sound(h, q, j, d, keys)
    PROVE  Sound(h, g, n, d, keys)
  <1>. DEFINE S == StartsBefore(q, j, d)
              T == StartsBefore(g, n, d)
  <1>1. /\ Len(q) \in Nat \ {0} /\ Len(g) = Len(q) - 1 /\ n \in 1..(Len(g) + 1)
        /\ \A x \in 1..Len(g) : IF x < i THEN g[x] = q[x] ELSE g[x] = q[x + 1]
        /\ \A x \in 1..Len(q) : /\ x < i => x \in 1..Len(g) /\ g[x] = q[x]
                                /\ x > i => x - 1 \in 1..Len(g) /\ g[x - 1] = q[x]
    <2>1. /\ Len(q) \in Nat \ {0} /\ Len(g) = Len(q) - 1
          /\ \A x \in 1..Len(g) : IF x < i THEN g[x] = q[x] ELSE g[x] = q[x + 1]
          /\ \A x \in 1..Len(q) : /\ x < i => x \in 1..Len(g) /\ g[x] = q[x]
                                  /\ x > i => x - 1 \in 1..Len(g) /\ g[x - 1] = q[x]
      BY SMTT(30), RemoveFacts
    <2>2. n \in 1..(Len(g) + 1)
      BY <2>1
    <2>. QED
      BY <2>1, <2>2
  <1>2. /\ \A x \in T : x \in Nat /\ IF x < i THEN x \in S ELSE x + 1 \in S
        /\ \A x \in S : x \in Nat /\ x # i /\ IF x < i THEN x \in T ELSE x - 1 \in T
    BY <1>1 DEF StartsBefore
  <1>3. \A x \in EndsBefore(g, n, d) :
           x \in Nat /\ IF x < i THEN x \in EndsBefore(q, j, d) ELSE x + 1 \in EndsBefore(q, j, d)
    BY <1>1 DEF EndsBefore
  <1>4. S = {} <=> T = {}
    BY <1>2
  <1>. HIDE DEF S, T
  <1>5. StartKept(h, q, j, d)
    BY DEF Sound
  <1>6. ASSUME NEW x \in EndsBefore(g, n, d) PROVE \E m \in T : x < m
    <2>1. PICK y \in EndsBefore(q, j, d) : y = IF x < i THEN x ELSE x + 1
      BY <1>3
    <2>2. PICK m \in S : y < m
      BY <1>5 DEF StartKept, S
    <2>3. x \in Nat /\ m \in Nat /\ i \in Nat
      BY <1>2, <1>3
    <2>4. CASE m < i
      BY <1>2, <2>1, <2>2, <2>3, <2>4
    <2>5. CASE m > i
      <3>1. m - 1 \in T /\ x < m - 1
        BY <1>2, <2>1, <2>2, <2>3, <2>5
      <3>. QED
        BY <3>1
    <2>. QED
      BY <1>2, <2>3, <2>4, <2>5
  <1>7. StartKept(h, g, n, d)
    BY <1>4, <1>5, <1>6 DEF StartKept, S, T
  <1>8. ASSUME NEW k \in keys PROVE Noticed(h, g, n, d, k)
    <2>1. Noticed(h, q, j, d, k)
      BY DEF Sound
    <2>2. CASE S = {} /\ k \in InvalidatedSince(h, d)
      BY <1>4, <2>2 DEF Noticed, T
    <2>3. ASSUME NEW y \in 1..Len(q), IsInv(q[y], k), \A m \in S : m < y
          PROVE  Noticed(h, g, n, d, k)
      <3>1. y # i /\ y \in Nat /\ i \in Nat
        BY <2>3
      <3>2. PICK z : z = IF y < i THEN y ELSE y - 1
        OBVIOUS
      <3>3. z \in 1..Len(g) /\ IsInv(g[z], k)
        BY <1>1, <2>3, <3>1, <3>2
      <3>4. \A m \in T : m < z
        <4>1. SUFFICES ASSUME NEW m \in T PROVE m < z
          OBVIOUS
        <4>2. m \in Nat /\ IF m < i THEN m < y ELSE m + 1 < y
          BY <1>2, <2>3
        <4>. QED
          BY <3>1, <3>2, <4>2
      <3>. QED
        BY <3>3, <3>4 DEF Noticed, T
    <2>. QED
      BY <2>1, <2>2, <2>3 DEF Noticed, S
  <1>. QED
    BY <1>7, <1>8 DEF Sound

-----------------------------------------------------------------------------
\* What the invariant still says after a fault.

\* More may be excused, and fewer runs claimed something of.
LEMMA LeafInvMono ==
    ASSUME NEW Old, NEW Wider, Old \subseteq Wider, NEW Unseen, NEW Fewer, LeafInv(Old, Unseen),
           \A d \in Call : Leaf(d) /\ d \in Unseen => RunJudged(d, Wider, Fewer)
    PROVE  LeafInv(Wider, Fewer)
  <1>1. \A d, val : Excused(d, val, Old) => Excused(d, val, Wider)
    BY DEF Excused
  <1>2. ASSUME NEW d \in Call, Leaf(d) PROVE RunJudged(d, Wider, Fewer)
    <2>1. CASE d \in Unseen
      BY <1>2, <2>1
    <2>2. CASE d \notin Unseen
      BY <1>1, <1>2, <2>2 DEF LeafInv, AllJudged, RunJudged, Judged
    <2>. QED
      BY <2>1, <2>2
  <1>3. ASSUME NEW d \in Call, Leaf(d) PROVE EndsJudged(d, Wider)
    <2>1. EndsJudged(d, Old)
      BY <1>3 DEF LeafInv, AllJudged
    <2>2. \A j, val, used : Judged(j, d, val, used, Old) => Judged(j, d, val, used, Wider)
      BY <1>1 DEF Judged
    <2>. QED
      BY <2>1, <2>2 DEF EndsJudged
  <1>4. ASSUME NEW s \in Service, NEW d \in Call, Leaf(d)
        PROVE  QueueGood(s, d, Wider) /\ CacheGood(s, d, Wider)
    <2>1. \A val : Good(val, s, d, Old) => Good(val, s, d, Wider)
      BY <1>1 DEF Good
    <2>2. QueueGood(s, d, Old) /\ CacheGood(s, d, Old)
      BY <1>4 DEF LeafInv, LinesGood
    <2>3. QueueGood(s, d, Wider)
      BY <2>1, <2>2 DEF QueueGood
    <2>4. CacheGood(s, d, Wider)
      BY <2>1, <2>2 DEF CacheGood
    <2>. QED
      BY <2>3, <2>4
  <1>. QED
    BY <1>2, <1>3, <1>4 DEF LeafInv, AllJudged, LinesGood

\* A value that tells of the keys that were read is not newer than the database.
LEMMA CoveredIsOld ==
    ASSUME TypeInv, NEW d \in Call, NEW keys, keys \subseteq Key, keys # {}, NEW val,
           Covers(val, keys)
    PROVE  Excused(d, val, Before(db))
  <1>1. PICK k \in keys : TRUE
    OBVIOUS
  <1>2. PICK v \in 0..db[k] : <<k, v>> \in val
    BY <1>1 DEF Covers
  <1>3. k \in Key /\ db[k] \in 0..MaxWrites /\ MaxWrites \in Nat
    BY <1>1, BoundAssumption DEF TypeInv, TypeOK
  <1>4. v \in 0..MaxWrites /\ v <= db[k]
    BY <1>2, <1>3
  <1>5. <<k, v>> \in Before(db)
    BY <1>3, <1>4 DEF Before
  <1>. QED
    BY <1>2, <1>5 DEF Excused

\* A run under way has read something, and may be stale, or it has read
\* nothing, and its start is kept.
LEMMA FaultRuns ==
    ASSUME TypeInv, Shaped, UNCHANGED <<db, unsent, run>>, NEW Unseen, NEW Old, Old = Before(db),
           NEW d \in Call, Leaf(d), RunJudged(d, Old, Unseen),
           NEW Fewer,
           run[d].phase = "on" /\ run[d].parent \in Call /\ d \notin Fewer =>
               /\ d \notin Unseen
               /\ StartKept(history[Owner[d]], WQ[Owner[d]], Len(WQ[Owner[d]]) + 1, d)
                     => StartKept(history'[Owner[d]], WQ'[Owner[d]], Len(WQ'[Owner[d]]) + 1, d)
    PROVE  RunJudged(d, Old, Fewer)'
  <1>. SUFFICES ASSUME run[d].phase = "on", run[d].parent \in Call, d \notin Fewer,
                       NEW r, r = run[d], NEW n, n = Len(WQ'[Owner[d]]) + 1
                PROVE  Judged(n, d, r.got, r.used, Old)'
    BY DEF RunJudged
  <1>1. r.used \subseteq Reads[d] /\ Reads[d] \subseteq Key /\ Covers(r.got, r.used)
    BY GraphAssumption DEF Shaped, Shape
  <1>2. CASE r.used # {}
    <2>1. Excused(d, r.got, Old)
      BY <1>1, <1>2, CoveredIsOld
    <2>. QED
      BY <2>1 DEF Judged
  <1>3. CASE r.used = {}
    <2>1. Judged(Len(WQ[Owner[d]]) + 1, d, r.got, r.used, Old)
      BY DEF RunJudged
    <2>2. CASE Excused(d, r.got, Old)
      BY <2>2 DEF Judged
    <2>3. CASE ~Excused(d, r.got, Old)
      <3>1. StartKept(history[Owner[d]], WQ[Owner[d]], Len(WQ[Owner[d]]) + 1, d)
        BY <2>1, <2>3 DEF Judged, Sound
      <3>2. StartKept(history'[Owner[d]], WQ'[Owner[d]], n, d)
        BY <3>1
      <3>3. Overwritten(r.got, r.used)' = {}
        BY <1>3 DEF Overwritten
      <3>4. Sound(history'[Owner[d]], WQ'[Owner[d]], n, d, {})
        BY <3>2 DEF Sound
      <3>. QED
        BY <3>3, <3>4 DEF Judged
    <2>. QED
      BY <2>2, <2>3
  <1>. QED
    BY <1>2, <1>3

LEMMA FaultEnds ==
    ASSUME TypeInv, UNCHANGED db, NEW Old, Old = Before(db), NEW d \in Call, EndsJudged(d, Old),
           \A x \in 1..Len(WQ'[Owner[d]]) :
              \E y \in 1..Len(WQ[Owner[d]]) : WQ'[Owner[d]][x] = WQ[Owner[d]][y]
    PROVE  EndsJudged(d, Old)'
  <1>. SUFFICES ASSUME NEW x \in 1..Len(WQ'[Owner[d]]), NEW m, m = WQ'[Owner[d]][x], IsEnd(m, d)
                PROVE  /\ m.used = Reads[d]
                       /\ Covers(m.val, Reads[d])'
                       /\ Judged(x, d, m.val, m.used, Old)'
    BY DEF EndsJudged
  <1>1. m.used = Reads[d] /\ Covers(m.val, Reads[d])
    BY DEF EndsJudged
  <1>2. Reads[d] \subseteq Key
    BY GraphAssumption
  <1>3. Excused(d, m.val, Old)
    <2>1. CASE Reads[d] = {}
      BY <2>1 DEF Excused
    <2>2. CASE Reads[d] # {}
      BY <1>1, <1>2, <2>2, CoveredIsOld
    <2>. QED
      BY <2>1, <2>2
  <1>. QED
    BY <1>1, <1>3 DEF Covers, Judged

\* All that is left is good after a fault, being as old as the fault.
LEMMA FaultLines ==
    ASSUME TypeInv, UNCHANGED <<db, cache>>, NEW Old, Old = Before(db),
           NEW s \in Service, NEW d \in Call, QueueGood(s, d, Old), CacheGood(s, d, Old),
           \A x \in Queued(s, d)' : \E y \in Queued(s, d) :
              HttpQueue'[Owner[d]][x] = HttpQueue[Owner[d]][y],
           Merged(s, d)' =>
              Merged(s, d) /\ buffer'[Owner[d]].save[<<s, d>>] = buffer[Owner[d]].save[<<s, d>>],
           \A x \in Posted(s, d)' : \E y \in Posted(s, d) : WQ'[s][x] = WQ[s][y]
    PROVE  QueueGood(s, d, Old)' /\ CacheGood(s, d, Old)'
  <1>1. ASSUME NEW val, Written(val, d) PROVE Written(val, d)' /\ Good(val, s, d, Old)'
    <2>1. Reads[d] \subseteq Key
      BY GraphAssumption
    <2>2. CASE val = NoVal
      BY <2>2 DEF Written, Good
    <2>3. CASE val # NoVal /\ Reads[d] = {}
      BY <2>3 DEF Written, Covers, Good, Excused
    <2>4. CASE val # NoVal /\ Reads[d] # {}
      <3>1. Covers(val, Reads[d])
        BY <1>1, <2>4 DEF Written
      <3>2. Excused(d, val, Old)
        BY <2>1, <2>4, <3>1, CoveredIsOld
      <3>. QED
        BY <3>1, <3>2 DEF Written, Covers, Good
    <2>. QED
      BY <2>2, <2>3, <2>4
  <1>2. ASSUME NEW x \in Queued(s, d)', NEW val, val = HttpQueue'[Owner[d]][x].val
        PROVE  Written(val, d)' /\ Good(val, s, d, Old)'
    BY <1>1, <1>2 DEF QueueGood
  <1>3. ASSUME Merged(s, d)', NEW val, val = buffer'[Owner[d]].save[<<s, d>>]
        PROVE  Written(val, d)' /\ Good(val, s, d, Old)'
    BY <1>1, <1>3 DEF QueueGood
  <1>4. ASSUME NEW x \in Posted(s, d)', NEW val, val = Word(WQ'[s][x], d)
        PROVE  Written(val, d)' /\ Good(val, s, d, Old)'
    BY <1>1, <1>4 DEF CacheGood
  <1>5. ASSUME NEW val, val = cache'[s][d] PROVE Written(val, d)' /\ Good(val, s, d, Old)'
    BY <1>1, <1>5 DEF CacheGood
  <1>6. QueueGood(s, d, Old)'
    BY <1>2, <1>3 DEF QueueGood
  <1>7. CacheGood(s, d, Old)'
    BY <1>4, <1>5 DEF CacheGood, Word
  <1>. QED
    BY <1>6, <1>7

-----------------------------------------------------------------------------
\* The steps.

\* A run ends by PreReqEnd, and nothing else.
LEMMA EndedRuns ==
    ASSUME TypeInv, Shaped, Next, NEW c \in Call, run[c].phase = "on", run'[c].phase = "idle"
    PROVE  PreReqEnd(c)
  <1>. SUFFICES ASSUME ~PreReqEnd(c) PROVE FALSE
    OBVIOUS
  <1>1. run \in [Call -> Run]
    BY DEF TypeInv, TypeOK
  <1>2. CASE Writers \/ Managers
    BY <1>2 DEF Writers, Managers, Write, PostWrite, Process, ProcessStart, ProcessEnd,
           ProcessInvalidateKey, ProcessInvalidateCalls, ProcessSave, Receive, Flush, app
  <1>3. ASSUME NEW x \in Call, ClientRequest(x) PROVE FALSE
    BY <1>1, <1>3 DEF ClientRequest, Asked, Idle
  <1>4. ASSUME NEW x \in Call, PreReqStart(x) PROVE FALSE
    BY <1>1, <1>4 DEF PreReqStart, Run
  <1>5. ASSUME NEW x \in Call, NEW r, r.phase = run[x].phase, run' = [run EXCEPT ![x] = r]
        PROVE  FALSE
    BY <1>1, <1>5
  <1>6. ASSUME NEW x \in Call, NEW k \in Key, GetState(x, k) PROVE FALSE
    BY <1>1, <1>5, <1>6 DEF GetState, Got, Run
  <1>7. ASSUME NEW x \in Call, NEW e \in Call, InvokeHit(x, e) PROVE FALSE
    BY <1>1, <1>5, <1>7 DEF InvokeHit, Got, Run
  <1>8. ASSUME NEW x \in Call, NEW e \in Call, InvokeMiss(x, e) PROVE FALSE
    BY <1>1, <1>8 DEF InvokeMiss, Idle, Asked
  <1>9. ASSUME NEW x \in Call, PreReqEnd(x) PROVE FALSE
    <2>1. x # c
      BY <1>9
    <2>2. CASE ByClient(x)
      BY <1>1, <1>9, <2>1, <2>2 DEF PreReqEnd
    <2>3. CASE ~ByClient(x)
      <3>1. PICK p : p = run[x].parent
        OBVIOUS
      <3>2. p \in Call /\ p # x
        BY <1>1, <2>3, <3>1 DEF ByClient, Run, Shaped, Shape
      <3>3. PICK r : r.phase = run[p].phase /\ run' = [[run EXCEPT ![x] = Idle] EXCEPT ![p] = r]
        <4>1. PICK r : r = Got(run[p], x, run[x].got, ByClient(p))
          OBVIOUS
        <4>2. r.phase = run[p].phase
          BY <1>1, <3>2, <4>1 DEF Got, Run
        <4>3. run' = [[run EXCEPT ![x] = Idle] EXCEPT ![p] = r]
          BY <1>1, <1>9, <2>3, <3>1, <3>2, <4>1 DEF PreReqEnd
        <4>. QED
          BY <4>2, <4>3
      <3>. QED
        BY <1>1, <2>1, <3>2, <3>3
    <2>. QED
      BY <2>2, <2>3
  <1>. QED
    BY <1>2, <1>3, <1>4, <1>6, <1>7, <1>8, <1>9, GraphAssumption DEF Next, Clients, Handlers

LEMMA EndIsIdle ==
    ASSUME TypeInv, Shaped, NEW c \in Call, PreReqEnd(c)
    PROVE  run'[c].phase = "idle"
  <1>1. run \in [Call -> Run]
    BY DEF TypeInv, TypeOK
  <1>2. SUFFICES run'[c] = Idle
    BY DEF Idle
  <1>3. CASE ByClient(c)
    BY <1>1, <1>3 DEF PreReqEnd
  <1>4. CASE ~ByClient(c)
    <2>1. PICK p : p = run[c].parent
      OBVIOUS
    <2>2. p \in Call /\ p # c
      BY <1>1, <1>4, <2>1 DEF ByClient, Run, Shaped, Shape
    <2>3. PICK r : run' = [[run EXCEPT ![c] = Idle] EXCEPT ![p] = r]
      BY <1>4, <2>1 DEF PreReqEnd
    <2>. QED
      BY <1>1, <2>2, <2>3
  <1>. QED
    BY <1>3, <1>4

\* At its end a run of a leaf call tells of all its keys, and may be stale.
LEMMA EndedCovers ==
    ASSUME TypeInv, Shaped, NEW d \in Call, Leaf(d), PreReqEnd(d), NEW Old, Old = Before(db),
           NEW Fewer
    PROVE  RunJudged(d, Old, Fewer)
  <1>. SUFFICES ASSUME run[d].parent \in Call, NEW r, r = run[d]
                PROVE  Excused(d, r.got, Old)
    BY DEF RunJudged, Judged
  <1>1. r.used = Reads[d] /\ Reads[d] \subseteq Key /\ Covers(r.got, r.used)
    <2>1. r.todo = {}
      BY DEF PreReqEnd
    <2>2. Shape(d) /\ Reads[d] \subseteq Key
      BY GraphAssumption DEF Shaped
    <2>3. r.todo \cup r.used = Reads[d] /\ Covers(r.got, r.used)
      BY <2>2 DEF Shape
    <2>. QED
      BY <2>1, <2>2, <2>3
  <1>2. CASE Reads[d] = {}
    BY <1>2 DEF Excused
  <1>3. CASE Reads[d] # {}
    BY <1>1, <1>3, CoveredIsOld
  <1>. QED
    BY <1>2, <1>3

LEMMA DamageInDb ==
    ASSUME TypeInv, \A k \in Key : damaged[k] \in Int /\ damaged[k] <= db[k]
    PROVE  Before(damaged) \subseteq Before(db)
  <1>1. \A k \in Key : db[k] \in Nat
    BY BoundAssumption DEF TypeInv, TypeOK
  <1>2. MaxWrites \in Nat
    BY BoundAssumption
  <1>3. ASSUME NEW x \in Before(damaged) PROVE x \in Before(db)
    <2>1. x \in Key \X (0..MaxWrites) /\ x[2] <= damaged[x[1]]
      BY DEF Before
    <2>2. x[1] \in Key /\ x[2] \in Nat
      BY <1>2, <2>1
    <2>. QED
      BY <1>1, <2>1, <2>2 DEF Before
  <1>. QED
    BY <1>3

\* What a fault has to establish.
LEMMA FaultedInv ==
    ASSUME TypeInv, TypeInv', UNCHANGED db, damaged' = db,
           NEW Old, Old = Before(db), NEW Unseen, Unseen = unseen', LeafInv(Old, Unseen)'
    PROVE  FaultInv'
  <1>1. \A k \in Key : damaged'[k] \in Int /\ damaged'[k] <= db'[k]
    BY BoundAssumption DEF TypeInv, TypeOK
  <1>2. Old = Before(damaged)'
    BY DEF Before
  <1>. QED
    BY <1>1, <1>2 DEF FaultInv

LEMMA FaultFreeStep ==
    ASSUME FaultInv, Next, unseen' = unseen \ Ended,
           damaged' = IF Ended = {} THEN damaged ELSE db
    PROVE  FaultInv'
  <1>1. /\ TypeInv /\ TypeInv'
        /\ \A k \in Key : damaged[k] \in Int /\ damaged[k] <= db[k]
    BY TypingNext DEF FaultInv
  <1>2. \A k \in Key : db[k] \in Nat /\ db'[k] \in Nat /\ db[k] <= db'[k]
    BY <1>1, DbGrows
  <1>3. PICK Old, Unseen : Old = Before(damaged) /\ Unseen = unseen /\ LeafInv(Old, Unseen)
    BY DEF FaultInv
  <1>4. Shaped
    BY <1>3 DEF LeafInv
  <1>5. PICK Now, Fewer : Now = damaged' /\ Fewer = unseen'
    OBVIOUS
  <1>6. \A k \in Key : Now[k] \in Int /\ Now[k] <= db'[k]
    BY <1>1, <1>2, <1>5
  <1>7. \A c \in Call : PreReqEnd(c) => run'[c].phase = "idle"
    BY <1>1, <1>4, EndIsIdle
  <1>8. \A c \in Call : PreReqEnd(c) => c \notin Fewer
    BY <1>5, <1>7 DEF Ended
  <1>9. LeafInv(Before(Now), Fewer)
    <2>1. CASE Ended = {}
      BY <1>3, <1>5, <2>1
    <2>2. CASE Ended # {}
      <3>1. PICK All : All = Before(db)
        OBVIOUS
      <3>2. Old \subseteq All /\ Before(Now) = All
        BY <1>1, <1>3, <1>5, <2>2, <3>1, DamageInDb
      <3>3. ASSUME NEW d \in Call, Leaf(d), d \in Unseen PROVE RunJudged(d, All, Fewer)
        <4>1. CASE d \in Fewer \/ run[d].phase # "on"
          BY <4>1 DEF RunJudged
        <4>2. CASE d \notin Fewer /\ run[d].phase = "on"
          <5>1. run'[d].phase = "idle"
            BY <1>3, <1>5, <3>3, <4>2 DEF Ended
          <5>2. PreReqEnd(d)
            BY <1>1, <1>4, <4>2, <5>1, EndedRuns
          <5>. QED
            BY <1>1, <1>4, <3>1, <3>3, <5>2, EndedCovers
        <4>. QED
          BY <4>1, <4>2
      <3>4. LeafInv(All, Fewer)
        BY <1>3, <3>2, <3>3, LeafInvMono
      <3>. QED
        BY <3>2, <3>4
    <2>. QED
      BY <2>1, <2>2
  <1>10. PICK Set : Set = Before(Now)
    OBVIOUS
  <1>11. LeafInv(Set, Fewer)'
    BY <1>1, <1>8, <1>9, <1>10, LeafNext
  <1>12. Set = Before(damaged)'
    BY <1>5, <1>10 DEF Before
  <1>. QED
    BY <1>1, <1>5, <1>6, <1>11, <1>12 DEF FaultInv

\* A lost message leaves the types, the shapes and the homes as they are.
LEMMA LoseTyped ==
    ASSUME TypeInv, Home, NEW s \in Service, NEW i \in 1..Len(WQ[s]),
           WQ' = [WQ EXCEPT ![s] = RemoveAt(@, i)],
           UNCHANGED <<app, manager, sender, HttpQueue>>
    PROVE  /\ TypeInv' /\ Home'
           /\ \A t \in Service : \A x \in 1..Len(WQ'[t]) :
                 \E y \in 1..Len(WQ[t]) : (t = s => y # i) /\ WQ'[t][x] = WQ[t][y]
           /\ \A t \in Service : t # s => WQ'[t] = WQ[t]
  <1>1. /\ WQ \in [Service -> Seq(Message)]
        /\ UNCHANGED <<db, unsent, run, requests, cache, history, deps, HttpQueue, buffer, batch>>
    BY DEF TypeInv, TypeOK, app, manager, sender
  <1>2. PICK q, g : q = WQ[s] /\ g = RemoveAt(q, i)
    OBVIOUS
  <1>3. q \in Seq(Message) /\ i \in 1..Len(q) /\ WQ' = [WQ EXCEPT ![s] = g]
    BY <1>1, <1>2
  <1>4. g \in Seq(Message) /\ \A x \in 1..Len(g) : \E y \in 1..Len(q) : y # i /\ g[x] = q[y]
    <2>1. PICK S : S = Message
      OBVIOUS
    <2>2. q \in Seq(S) /\ i \in 1..Len(q) /\ g = RemoveAt(q, i)
      BY <1>2, <1>3, <2>1
    <2>3. g \in Seq(S) /\ \A x \in 1..Len(g) : \E y \in 1..Len(q) : y # i /\ g[x] = q[y]
      BY <2>2, RemoveFacts
    <2>. QED
      BY <2>1, <2>3
  <1>5. WQ'[s] = g /\ \A t \in Service : t # s => WQ'[t] = WQ[t]
    BY <1>1, <1>3
  <1>6. TypeInv'
    BY <1>1, <1>3, <1>4 DEF TypeInv, TypeOK
  <1>7. ASSUME NEW t \in Service, NEW x \in 1..Len(WQ'[t])
        PROVE  \E y \in 1..Len(WQ[t]) : (t = s => y # i) /\ WQ'[t][x] = WQ[t][y]
    <2>1. CASE t = s
      <3>1. PICK y \in 1..Len(q) : y # i /\ g[x] = q[y]
        BY <1>4, <1>5, <2>1
      <3>. QED
        BY <1>2, <1>5, <2>1, <3>1
    <2>2. CASE t # s
      <3>1. x \in 1..Len(WQ[t]) /\ WQ'[t][x] = WQ[t][x]
        BY <1>5, <1>7, <2>2
      <3>. QED
        BY <2>2, <3>1
    <2>. QED
      BY <2>1, <2>2
  <1>8. Home'
    <2>1. ASSUME NEW t \in Service, NEW x \in 1..Len(WQ'[t]), WQ'[t][x].type = "end"
          PROVE  Owner[WQ'[t][x].call] = t
      BY <1>7, <2>1 DEF Home, AtHome
    <2>. QED
      BY <1>1, <2>1 DEF Home, AtHome
  <1>. QED
    BY <1>5, <1>6, <1>7, <1>8

LEMMA ShapedSame ==
    ASSUME Shaped, UNCHANGED <<db, run>>
    PROVE  Shaped'
  BY DEF Shaped, Shape, Covers, Leaf

\* A start or an invalidation is lost.
LEMMA LoseDamages ==
    ASSUME FaultInv, NEW s \in Service, NEW i \in 1..Len(WQ[s]), NEW m, m = WQ[s][i],
           m.type # "end", m.type \in FromService,
           WQ' = [WQ EXCEPT ![s] = RemoveAt(@, i)], damaged' = db,
           unseen' = unseen \cup {c \in Announced(s) : m.type = "start" /\ m.call = c},
           UNCHANGED <<app, manager, sender, HttpQueue>>
    PROVE  FaultInv'
  <1>1. /\ TypeInv
        /\ UNCHANGED <<db, unsent, run, requests, cache, history, deps, HttpQueue, buffer, batch>>
        /\ Before(damaged) \subseteq Before(db)
    BY DamageInDb DEF FaultInv, app, manager, sender
  <1>2. PICK Old, Unseen : Old = Before(db) /\ Unseen = unseen /\ LeafInv(Old, Unseen)
    <2>1. PICK O, U : O = Before(damaged) /\ U = unseen /\ LeafInv(O, U)
      BY DEF FaultInv
    <2>2. \A d \in Call : d \in U => RunJudged(d, Before(db), U)
      BY DEF RunJudged
    <2>. QED
      BY <1>1, <2>1, <2>2, LeafInvMono
  <1>3. PICK Fewer : Fewer = unseen'
    OBVIOUS
  <1>4. Shaped /\ Home /\ Shaped'
    BY <1>1, <1>2, ShapedSame DEF LeafInv
  <1>5. /\ TypeInv' /\ Home'
        /\ \A t \in Service : \A x \in 1..Len(WQ'[t]) :
              \E y \in 1..Len(WQ[t]) : (t = s => y # i) /\ WQ'[t][x] = WQ[t][y]
        /\ \A t \in Service : t # s => WQ'[t] = WQ[t]
    BY <1>1, <1>4, LoseTyped
  <1>6. ASSUME NEW d \in Call, Leaf(d) PROVE RunJudged(d, Old, Fewer)' /\ EndsJudged(d, Old)'
    <2>1. RunJudged(d, Old, Unseen) /\ EndsJudged(d, Old) /\ Owner[d] \in Service
      BY <1>2, <1>6, GraphAssumption DEF LeafInv, AllJudged
    <2>2. EndsJudged(d, Old)'
      BY <1>1, <1>2, <1>5, <2>1, FaultEnds
    <2>3. ASSUME run[d].phase = "on", run[d].parent \in Call, d \notin Fewer,
                 StartKept(history[Owner[d]], WQ[Owner[d]], Len(WQ[Owner[d]]) + 1, d)
          PROVE  StartKept(history'[Owner[d]], WQ'[Owner[d]], Len(WQ'[Owner[d]]) + 1, d)
      <3>1. CASE Owner[d] # s
        BY <1>1, <1>5, <2>1, <2>3, <3>1
      <3>2. CASE Owner[d] = s
        <4>1. PICK q, g, h : q = WQ[s] /\ g = RemoveAt(q, i) /\ h = history[s]
          OBVIOUS
        <4>2. q \in Seq(Message) /\ i \in 1..Len(q) /\ WQ'[s] = g /\ q[i] = m
          BY <1>1, <4>1 DEF TypeInv, TypeOK
        <4>3. ~IsStart(m, d)
          BY <1>3, <2>3, <3>2, AbsenceAssumption DEF Announced, ByClient, IsStart
        <4>4. Sound(h, q, Len(q) + 1, d, {})
          BY <2>3, <3>2, <4>1 DEF Sound
        <4>5. Len(q) \in Nat /\ i <= Len(q) /\ Len(g) = Len(q) - 1
          BY <4>1, <4>2, RemoveFacts
        <4>6. PICK j, n : j = Len(q) + 1 /\ n = IF j < i THEN j ELSE j - 1
          OBVIOUS
        <4>7. j \in 1..(Len(q) + 1) /\ j # i /\ n = Len(g) + 1
          BY <4>2, <4>5, <4>6
        <4>8. Sound(h, g, n, d, {})
          BY <4>1, <4>2, <4>3, <4>4, <4>6, <4>7, SoundRemove
        <4>. QED
          BY <1>1, <3>2, <4>1, <4>2, <4>7, <4>8 DEF Sound
      <3>. QED
        BY <3>1, <3>2
    <2>4. d \notin Fewer => d \notin Unseen
      BY <1>2, <1>3
    <2>5. RunJudged(d, Old, Fewer)'
      BY <1>1, <1>2, <1>4, <1>6, <2>1, <2>3, <2>4, FaultRuns
    <2>. QED
      BY <2>2, <2>5
  <1>7. ASSUME NEW t \in Service, NEW d \in Call, Leaf(d)
        PROVE  QueueGood(t, d, Old)' /\ CacheGood(t, d, Old)'
    <2>1. QueueGood(t, d, Old) /\ CacheGood(t, d, Old)
      BY <1>2, <1>7 DEF LeafInv, LinesGood
    <2>2. Queued(t, d)' = Queued(t, d) /\ (Merged(t, d)' <=> Merged(t, d))
      BY <1>1 DEF Queued, Merged
    <2>3. \A x \in Posted(t, d)' : \E y \in Posted(t, d) : WQ'[t][x] = WQ[t][y]
      BY <1>5 DEF Posted, Says
    <2>4. \A x \in Queued(t, d)' : \E y \in Queued(t, d) :
             HttpQueue'[Owner[d]][x] = HttpQueue[Owner[d]][y]
      BY <1>1, <2>2
    <2>. QED
      BY <1>1, <1>2, <2>1, <2>2, <2>3, <2>4, FaultLines
  <1>8. LeafInv(Old, Fewer)'
    BY <1>4, <1>5, <1>6, <1>7 DEF LeafInv, AllJudged, LinesGood, Leaf
  <1>. QED
    BY <1>1, <1>2, <1>3, <1>5, <1>8, FaultedInv

\* What is said of a line after an item that says nothing of it is lost.
LEMMA CacheRemove ==
    ASSUME NEW s \in Service, NEW d \in Call, NEW Old, CacheGood(s, d, Old),
           WQ[s] \in Seq(Message), NEW i \in 1..Len(WQ[s]), ~Says(WQ[s][i], d),
           WQ'[s] = RemoveAt(WQ[s], i), cache'[s][d] = cache[s][d],
           More(s, d)' = More(s, d), Keeps(s, d, Old)
    PROVE  CacheGood(s, d, Old)'
  <1>. DEFINE q == WQ[s]
              g == WQ'[s]
  <1>1. /\ i \in Nat /\ Len(q) \in Nat
        /\ \A x \in 1..Len(g) : IF x < i THEN g[x] = q[x] ELSE g[x] = q[x + 1]
        /\ \A x \in 1..Len(q) : /\ x < i => x \in 1..Len(g) /\ g[x] = q[x]
                                /\ x > i => x - 1 \in 1..Len(g) /\ g[x - 1] = q[x]
        /\ Len(g) = Len(q) - 1
    <2>1. PICK S, w : S = Message /\ w = g
      OBVIOUS
    <2>2. q \in Seq(S) /\ w = RemoveAt(q, i)
      BY <2>1
    <2>. QED
      BY <2>1, <2>2, RemoveFacts
  <1>2. /\ Posted(s, d) = {x \in 1..Len(q) : Says(q[x], d)}
        /\ Posted(s, d)' = {x \in 1..Len(g) : Says(g[x], d)}
    BY DEF Posted, Says
  <1>. HIDE DEF q, g
  <1>3. /\ \A x \in Posted(s, d)' :
              x \in Nat /\ IF x < i THEN x \in Posted(s, d) ELSE x + 1 \in Posted(s, d)
        /\ \A x \in Posted(s, d) :
              x \in Nat /\ x # i /\ IF x < i THEN x \in Posted(s, d)' ELSE x - 1 \in Posted(s, d)'
    BY SMTT(30), <1>1, <1>2 DEF q
  <1>4. ASSUME NEW x \in Posted(s, d)', NEW val, val = Word(g[x], d)
        PROVE  /\ Written(val, d)'
               /\ Good(val, s, d, Old)' \/ (\E y \in Posted(s, d)' : y > x) \/ More(s, d)'
    <2>1. PICK z \in Posted(s, d) : z = (IF x < i THEN x ELSE x + 1) /\ g[x] = q[z]
      BY <1>1, <1>2, <1>3
    <2>2. /\ Written(val, d)
          /\ Good(val, s, d, Old) \/ (\E y \in Posted(s, d) : y > z) \/ More(s, d)
      BY <1>4, <2>1 DEF CacheGood, q
    <2>3. ASSUME NEW y \in Posted(s, d), y > z PROVE \E v \in Posted(s, d)' : v > x
      <3>1. x \in Nat /\ y \in Nat /\ y # i
        BY <1>3
      <3>2. CASE y < i
        BY <1>1, <1>3, <2>1, <2>3, <3>1, <3>2
      <3>3. CASE y > i
        <4>1. y - 1 \in Posted(s, d)' /\ y - 1 > x
          BY <1>1, <1>3, <2>1, <2>3, <3>1, <3>3
        <4>. QED
          BY <4>1
      <3>. QED
        BY <1>1, <3>1, <3>2, <3>3
    <2>. QED
      BY <2>2, <2>3 DEF Keeps
  <1>5. ASSUME NEW val, val = cache'[s][d]
        PROVE  /\ Written(val, d)'
               /\ Good(val, s, d, Old)' \/ Posted(s, d)' # {} \/ More(s, d)'
    <2>1. /\ Written(val, d)
          /\ Good(val, s, d, Old) \/ Posted(s, d) # {} \/ More(s, d)
      BY <1>5 DEF CacheGood
    <2>2. Posted(s, d) # {} => Posted(s, d)' # {}
      BY <1>3
    <2>. QED
      BY <2>1, <2>2 DEF Keeps
  <1>. QED
    BY <1>4, <1>5 DEF CacheGood, Word, g

\* An end is lost: nothing needs to be excused.
LEMMA LoseEnd ==
    ASSUME FaultInv, NEW s \in Service, NEW i \in 1..Len(WQ[s]), NEW m, m = WQ[s][i],
           m.type = "end", WQ' = [WQ EXCEPT ![s] = RemoveAt(@, i)],
           UNCHANGED <<app, manager, sender, HttpQueue, damaged, unseen>>
    PROVE  FaultInv'
  <1>1. /\ TypeInv
        /\ UNCHANGED <<db, unsent, run, requests, cache, history, deps, HttpQueue, buffer, batch>>
    BY DEF FaultInv, app, manager, sender
  <1>2. PICK Old, Unseen : Old = Before(damaged) /\ Unseen = unseen /\ LeafInv(Old, Unseen)
    BY DEF FaultInv
  <1>3. Shaped /\ Home /\ Shaped'
    BY <1>1, <1>2, ShapedSame DEF LeafInv
  <1>4. /\ TypeInv' /\ Home' /\ \A t \in Service : t # s => WQ'[t] = WQ[t]
    BY <1>1, <1>3, LoseTyped
  <1>5. PICK q, g, h : q = WQ[s] /\ g = RemoveAt(q, i) /\ h = history[s]
    OBVIOUS
  <1>6. /\ q \in Seq(Message) /\ i \in 1..Len(q) /\ WQ'[s] = g /\ q[i] = m /\ history'[s] = h
        /\ \A d, k : ~IsStart(m, d) /\ ~IsInv(m, k) /\ ~Says(m, d)
    <2>1. \A d, k : ~IsStart(m, d) /\ ~IsInv(m, k) /\ ~Says(m, d)
      BY DEF IsStart, IsInv, Says
    <2>. QED
      BY <1>1, <1>5, <2>1 DEF TypeInv, TypeOK
  <1>7. /\ i \in Nat /\ Len(q) \in Nat \ {0} /\ Len(g) = Len(q) - 1
        /\ \A x \in 1..Len(g) : IF x < i THEN g[x] = q[x] ELSE g[x] = q[x + 1]
        /\ \A x \in 1..Len(q) : /\ x < i => x \in 1..Len(g) /\ g[x] = q[x]
                                /\ x > i => x - 1 \in 1..Len(g) /\ g[x - 1] = q[x]
    <2>1. PICK S : S = Message
      OBVIOUS
    <2>2. q \in Seq(S)
      BY <1>6, <2>1
    <2>. QED
      BY <1>5, <1>6, <2>2, RemoveFacts
  <1>8. ASSUME NEW d \in Call, Owner[d] = s, NEW j \in 1..(Len(q) + 1), j # i,
               NEW n, n = (IF j < i THEN j ELSE j - 1), NEW val, NEW used,
               Judged(j, d, val, used, Old)
        PROVE  Judged(n, d, val, used, Old)'
    <2>1. CASE Excused(d, val, Old)
      BY <2>1 DEF Judged
    <2>2. CASE ~Excused(d, val, Old)
      <3>1. PICK keys : keys = Overwritten(val, used)
        OBVIOUS
      <3>2. Sound(h, q, j, d, keys)
        BY <1>5, <1>8, <2>2, <3>1 DEF Judged
      <3>3. ~IsStart(q[i], d) /\ \A k \in keys : ~IsInv(q[i], k)
        BY <1>6
      <3>5. /\ q \in Seq(Message) /\ i \in 1..Len(q) /\ g = RemoveAt(q, i)
            /\ j \in 1..(Len(q) + 1) /\ j # i /\ n = IF j < i THEN j ELSE j - 1
        BY <1>5, <1>6, <1>8
      <3>6. Sound(h, g, n, d, keys)
        BY <3>2, <3>3, <3>5, SoundRemove
      <3>4. keys = Overwritten(val, used)'
        BY <1>1, <3>1 DEF Overwritten
      <3>. QED
        BY <1>6, <1>8, <3>4, <3>6 DEF Judged
    <2>. QED
      BY <2>1, <2>2
  <1>9. ASSUME NEW d \in Call, Leaf(d)
        PROVE  RunJudged(d, Old, Unseen)' /\ EndsJudged(d, Old)'
    <2>1. RunJudged(d, Old, Unseen) /\ EndsJudged(d, Old)
      BY <1>2, <1>9 DEF LeafInv, AllJudged
    <2>2. CASE Owner[d] # s
      <3>1. Owner[d] \in Service
        BY GraphAssumption
      <3>2. WQ'[Owner[d]] = WQ[Owner[d]] /\ history'[Owner[d]] = history[Owner[d]]
        BY <1>1, <1>4, <2>2, <3>1
      <3>3. \A j, val, used : Judged(j, d, val, used, Old) => Judged(j, d, val, used, Old)'
        BY <1>1, <3>2 DEF Judged, Overwritten
      <3>4. RunJudged(d, Old, Unseen)'
        BY <1>1, <2>1, <3>2, <3>3 DEF RunJudged
      <3>5. EndsJudged(d, Old)'
        BY <1>1, <2>1, <3>2, <3>3 DEF EndsJudged, Covers
      <3>. QED
        BY <3>4, <3>5
    <2>3. CASE Owner[d] = s
      <3>1. RunJudged(d, Old, Unseen)'
        <4>1. SUFFICES ASSUME run[d].phase = "on", run[d].parent \in Call, d \notin Unseen,
                              NEW r, r = run[d], NEW n, n = Len(g) + 1
                       PROVE  Judged(n, d, r.got, r.used, Old)'
          BY <1>1, <1>6, <2>3 DEF RunJudged
        <4>2. PICK j : j = Len(q) + 1
          OBVIOUS
        <4>3. Judged(j, d, r.got, r.used, Old)
          BY <1>5, <2>1, <2>3, <4>1, <4>2 DEF RunJudged
        <4>4. j \in 1..(Len(q) + 1) /\ j # i /\ n = IF j < i THEN j ELSE j - 1
          BY <1>6, <1>7, <4>1, <4>2
        <4>. QED
          BY <1>8, <2>3, <4>3, <4>4
      <3>2. EndsJudged(d, Old)'
        <4>1. SUFFICES ASSUME NEW n \in 1..Len(g), NEW e, e = g[n], IsEnd(e, d)
                       PROVE  /\ e.used = Reads[d]
                              /\ Covers(e.val, Reads[d])'
                              /\ Judged(n, d, e.val, e.used, Old)'
          BY <1>6, <2>3 DEF EndsJudged
        <4>2. PICK j : j = IF n < i THEN n ELSE n + 1
          OBVIOUS
        <4>3. /\ j \in 1..Len(q) /\ j \in 1..(Len(q) + 1) /\ j # i /\ q[j] = e
              /\ n = IF j < i THEN j ELSE j - 1
          BY <1>7, <4>1, <4>2
        <4>4. e.used = Reads[d] /\ Covers(e.val, Reads[d]) /\ Judged(j, d, e.val, e.used, Old)
          BY <1>5, <2>1, <2>3, <4>1, <4>3 DEF EndsJudged
        <4>5. Judged(n, d, e.val, e.used, Old)'
          BY <1>8, <2>3, <4>3, <4>4
        <4>. QED
          BY <1>1, <4>4, <4>5 DEF Covers
      <3>. QED
        BY <3>1, <3>2
    <2>. QED
      BY <2>2, <2>3
  <1>10. \A k \in Key : Coming(k)' <=> Coming(k)
    <2>1. SUFFICES ASSUME NEW k \in Key, unsent[k] = 0 PROVE Coming(k)' <=> Coming(k)
      BY SMTT(30), <1>1, BoundAssumption DEF Coming, TypeInv, TypeOK
    <2>2. CASE Owner[k] # s
      BY <1>1, <1>4, <2>2, GraphAssumption DEF Coming
    <2>3. CASE Owner[k] = s
      <3>1. /\ Coming(k) <=> \E x \in 1..Len(q) : IsInv(q[x], k)
            /\ Coming(k)' <=> \E x \in 1..Len(g) : IsInv(g[x], k)
        BY <1>1, <1>5, <1>6, <2>1, <2>3 DEF Coming, IsInv
      <3>2. ASSUME NEW x \in 1..Len(q), IsInv(q[x], k) PROVE \E y \in 1..Len(g) : IsInv(g[y], k)
        <4>1. x < i \/ x > i
          <5>1. x # i
            BY <1>6, <3>2
          <5>. QED
            BY <1>7, <5>1
        <4>. QED
          BY <1>7, <3>2, <4>1
      <3>3. ASSUME NEW x \in 1..Len(g), IsInv(g[x], k) PROVE \E y \in 1..Len(q) : IsInv(q[y], k)
        <4>1. x \in 1..Len(q) /\ x + 1 \in 1..Len(q)
          BY <1>7
        <4>. QED
          BY <1>7, <3>3, <4>1
      <3>. QED
        BY <3>1, <3>2, <3>3
    <2>. QED
      BY <2>2, <2>3
  <1>11. ASSUME NEW t \in Service, NEW d \in Call, Leaf(d)
         PROVE  QueueGood(t, d, Old)' /\ CacheGood(t, d, Old)'
    <2>1. QueueGood(t, d, Old) /\ CacheGood(t, d, Old)
      BY <1>2, <1>11 DEF LeafInv, LinesGood
    <2>2. Keeps(t, d, Old)
      <3>1. \A val : Written(val, d) => Written(val, d)'
        BY <1>1 DEF Written, Covers
      <3>2. Reads[d] \subseteq Key
        BY GraphAssumption
      <3>3. \A val : Right(val, t, d) => Right(val, t, d)'
        BY <1>1, <1>10, <3>2 DEF Right
      <3>4. \A val : Good(val, t, d, Old) => Good(val, t, d, Old)'
        BY <3>3 DEF Good, Excused
      <3>. QED
        BY <3>1, <3>4 DEF Keeps
    <2>3. QueueGood(t, d, Old)' /\ More(t, d)' = More(t, d)
      BY <1>1, <2>1, <2>2, QueueSame
    <2>4. CASE t # s
      <3>1. WQ'[t] = WQ[t] /\ cache'[t][d] = cache[t][d]
        BY <1>1, <1>4, <2>4
      <3>2. Posted(t, d)' = Posted(t, d)
        BY <3>1 DEF Posted, Says
      <3>3. \A val : Written(val, d) => Written(val, d)'
        BY <2>2 DEF Keeps
      <3>. QED
        BY <2>1, <2>2, <2>3, <3>1, <3>2, <3>3, CacheSame
    <2>5. CASE t = s
      <3>1. ~Says(WQ[s][i], d) /\ WQ[s] \in Seq(Message) /\ WQ'[s] = RemoveAt(WQ[s], i)
        BY <1>5, <1>6
      <3>2. cache'[s][d] = cache[s][d]
        BY <1>1
      <3>. QED
        BY <2>1, <2>2, <2>3, <2>5, <3>1, <3>2, CacheRemove
    <2>. QED
      BY <2>3, <2>4, <2>5
  <1>12. LeafInv(Old, Unseen)'
    BY <1>3, <1>4, <1>9, <1>11 DEF LeafInv, AllJudged, LinesGood, Leaf
  <1>13. \A k \in Key : damaged'[k] \in Int /\ damaged'[k] <= db'[k]
    BY <1>1 DEF FaultInv
  <1>14. Old = Before(damaged)' /\ Unseen = unseen'
    BY <1>2 DEF Before
  <1>. QED
    BY <1>4, <1>12, <1>13, <1>14 DEF FaultInv

\* A manager restarts: the runs of its service are unseen, the rest is as old
\* as the restart.
LEMMA RestartDamages ==
    ASSUME FaultInv, NEW s \in Service, Restart(s)
    PROVE  FaultInv'
  <1>1. /\ TypeInv
        /\ UNCHANGED <<db, unsent, run, requests, cache>>
        /\ Before(damaged) \subseteq Before(db)
        /\ damaged' = db /\ unseen' = unseen \cup Announced(s)
    BY DamageInDb DEF FaultInv, Restart, app
  <1>2. PICK Old, Unseen : Old = Before(db) /\ Unseen = unseen /\ LeafInv(Old, Unseen)
    <2>1. PICK O, U : O = Before(damaged) /\ U = unseen /\ LeafInv(O, U)
      BY DEF FaultInv
    <2>2. \A d \in Call : d \in U => RunJudged(d, Before(db), U)
      BY DEF RunJudged
    <2>. QED
      BY <1>1, <2>1, <2>2, LeafInvMono
  <1>3. PICK Fewer : Fewer = unseen'
    OBVIOUS
  <1>4. Shaped /\ Home /\ Shaped'
    BY <1>1, <1>2, ShapedSame DEF LeafInv
  <1>5. /\ WQ'[s] = <<>> /\ HttpQueue'[s] = <<>> /\ buffer'[s] = Empty /\ deps'[s] = NoDeps
        /\ \A t \in Service : t # s =>
              /\ WQ'[t] = WQ[t] /\ HttpQueue'[t] = HttpQueue[t] /\ buffer'[t] = buffer[t]
              /\ deps'[t] = deps[t] /\ history'[t] = history[t]
    BY <1>1 DEF Restart, TypeInv, TypeOK
  <1>6. TypeInv'
    <2>1. Empty \in Buffer /\ NoDeps \in [Dep -> SUBSET Entry]
      BY DEF Empty, Buffer, NoDeps
    <2>2. \A S, f, v : f \in [Service -> S] /\ v \in S => [f EXCEPT ![s] = v] \in [Service -> S]
      OBVIOUS
    <2>3. /\ <<>> \in Seq(Message) /\ <<>> \in Seq(HistoryItem) /\ <<>> \in Seq(Request)
          /\ 0 \in 0..(HttpBatchLimit + 1)
      BY BoundAssumption
    <2>4. /\ WQ' = [WQ EXCEPT ![s] = <<>>] /\ history' = [history EXCEPT ![s] = <<>>]
          /\ HttpQueue' = [HttpQueue EXCEPT ![s] = <<>>]
          /\ deps' = [deps EXCEPT ![s] = NoDeps]
          /\ buffer' = [buffer EXCEPT ![s] = Empty] /\ batch' = [batch EXCEPT ![s] = 0]
      BY DEF Restart
    <2>5. /\ WQ \in [Service -> Seq(Message)] /\ history \in [Service -> Seq(HistoryItem)]
          /\ HttpQueue \in [Service -> Seq(Request)]
          /\ deps \in [Service -> [Dep -> SUBSET Entry]]
          /\ buffer \in [Service -> Buffer] /\ batch \in [Service -> 0..(HttpBatchLimit + 1)]
      BY <1>1 DEF TypeInv, TypeOK
    <2>6. /\ WQ' \in [Service -> Seq(Message)] /\ history' \in [Service -> Seq(HistoryItem)]
          /\ HttpQueue' \in [Service -> Seq(Request)]
      BY <2>2, <2>3, <2>4, <2>5
    <2>7. /\ deps' \in [Service -> [Dep -> SUBSET Entry]]
          /\ buffer' \in [Service -> Buffer] /\ batch' \in [Service -> 0..(HttpBatchLimit + 1)]
      BY <2>1, <2>2, <2>3, <2>4, <2>5
    <2>. QED
      BY <1>1, <2>6, <2>7 DEF TypeInv, TypeOK
  <1>7. Home'
    <2>1. ASSUME NEW t \in Service PROVE AtHome(t)'
      <3>1. CASE t # s
        BY <1>4, <1>5, <3>1 DEF Home, AtHome
      <3>2. CASE t = s
        <4>1. Len(WQ'[t]) = 0 /\ Len(HttpQueue'[t]) = 0
          BY <1>5, <3>2
        <4>2. Buffered(buffer'[t]) = {}
          BY <1>5, <3>2 DEF Buffered, Saved, Empty
        <4>3. \A x \in Dep : deps'[t][x] = {}
          BY <1>5, <3>2 DEF NoDeps
        <4>. QED
          BY <4>1, <4>2, <4>3 DEF AtHome
      <3>. QED
        BY <3>1, <3>2
    <2>. QED
      BY <2>1 DEF Home
  <1>8. ASSUME NEW d \in Call, Leaf(d) PROVE RunJudged(d, Old, Fewer)' /\ EndsJudged(d, Old)'
    <2>1. RunJudged(d, Old, Unseen) /\ EndsJudged(d, Old) /\ Owner[d] \in Service
      BY <1>2, <1>8, GraphAssumption DEF LeafInv, AllJudged
    <2>2. \A x \in 1..Len(WQ'[Owner[d]]) :
             \E y \in 1..Len(WQ[Owner[d]]) : WQ'[Owner[d]][x] = WQ[Owner[d]][y]
      <3>1. CASE Owner[d] # s
        BY <1>5, <2>1, <3>1
      <3>2. CASE Owner[d] = s
        <4>1. Len(WQ'[Owner[d]]) = 0
          BY <1>5, <3>2
        <4>. QED
          BY <4>1
      <3>. QED
        BY <3>1, <3>2
    <2>3. EndsJudged(d, Old)'
      BY <1>1, <1>2, <2>1, <2>2, FaultEnds
    <2>4. ASSUME run[d].phase = "on", run[d].parent \in Call, d \notin Fewer
          PROVE  /\ d \notin Unseen
                 /\ StartKept(history[Owner[d]], WQ[Owner[d]], Len(WQ[Owner[d]]) + 1, d)
                       => StartKept(history'[Owner[d]], WQ'[Owner[d]], Len(WQ'[Owner[d]]) + 1, d)
      <3>1. d \notin Unseen /\ Owner[d] # s
        BY <1>1, <1>2, <1>3, <2>4, AbsenceAssumption DEF Announced, ByClient
      <3>. QED
        BY <1>5, <2>1, <3>1
    <2>5. RunJudged(d, Old, Fewer)'
      BY <1>1, <1>2, <1>4, <1>8, <2>1, <2>4, FaultRuns
    <2>. QED
      BY <2>3, <2>5
  <1>9. ASSUME NEW t \in Service, NEW d \in Call, Leaf(d)
        PROVE  QueueGood(t, d, Old)' /\ CacheGood(t, d, Old)'
    <2>1. QueueGood(t, d, Old) /\ CacheGood(t, d, Old) /\ Owner[d] \in Service
      BY <1>2, <1>9, GraphAssumption DEF LeafInv, LinesGood
    <2>2. /\ \A x \in Queued(t, d)' : \E y \in Queued(t, d) :
                HttpQueue'[Owner[d]][x] = HttpQueue[Owner[d]][y]
          /\ Merged(t, d)' => /\ Merged(t, d)
                              /\ buffer'[Owner[d]].save[<<t, d>>] = buffer[Owner[d]].save[<<t, d>>]
      <3>1. CASE Owner[d] # s
        <4>1. Queued(t, d)' = Queued(t, d) /\ (Merged(t, d)' <=> Merged(t, d))
          BY <1>5, <2>1, <3>1 DEF Queued, Merged
        <4>. QED
          BY <1>5, <2>1, <3>1, <4>1
      <3>2. CASE Owner[d] = s
        <4>1. Len(HttpQueue'[Owner[d]]) = 0 /\ Buffered(buffer'[Owner[d]]) = {}
          BY <1>5, <3>2 DEF Buffered, Saved, Empty
        <4>2. Queued(t, d)' = {} /\ ~Merged(t, d)'
          BY <4>1 DEF Queued, Merged
        <4>. QED
          BY <4>2
      <3>. QED
        BY <3>1, <3>2
    <2>3. \A x \in Posted(t, d)' : \E y \in Posted(t, d) : WQ'[t][x] = WQ[t][y]
      <3>1. CASE t # s
        <4>1. Posted(t, d)' = Posted(t, d)
          BY <1>5, <3>1 DEF Posted, Says
        <4>. QED
          BY <1>5, <3>1, <4>1
      <3>2. CASE t = s
        <4>1. Len(WQ'[t]) = 0
          BY <1>5, <3>2
        <4>2. Posted(t, d)' = {}
          BY <4>1 DEF Posted
        <4>. QED
          BY <4>2
      <3>. QED
        BY <3>1, <3>2
    <2>. QED
      BY <1>1, <1>2, <2>1, <2>2, <2>3, FaultLines
  <1>10. LeafInv(Old, Fewer)'
    BY <1>4, <1>7, <1>8, <1>9 DEF LeafInv, AllJudged, LinesGood, Leaf
  <1>. QED
    BY <1>1, <1>2, <1>3, <1>6, <1>10, FaultedInv

-----------------------------------------------------------------------------
LEMMA FaultInvInit == FaultInit => FaultInv
  <1>. SUFFICES ASSUME FaultInit PROVE FaultInv
    OBVIOUS
  <1>1. TypeInv
    BY TypingInit DEF FaultInit
  <1>2. \A k \in Key : damaged[k] \in Int /\ damaged[k] <= db[k]
    BY <1>1, BoundAssumption DEF FaultInit, Init
  <1>3. PICK Old, Unseen : Old = Before(damaged) /\ Unseen = unseen
    OBVIOUS
  <1>4. LeafInv(Old, Unseen)
    BY LeafInit DEF FaultInit
  <1>. QED
    BY <1>1, <1>2, <1>3, <1>4 DEF FaultInv

LEMMA FaultInvNext == FaultInv /\ [FaultNext]_<<vars, faultVars>> => FaultInv'
  <1>. SUFFICES ASSUME FaultInv, [FaultNext]_<<vars, faultVars>> PROVE FaultInv'
    OBVIOUS
  <1>1. CASE /\ Next /\ unseen' = unseen \ Ended
             /\ damaged' = IF Ended = {} THEN damaged ELSE db
    BY <1>1, FaultFreeStep
  <1>2. ASSUME NEW s \in Service, Lose(s) PROVE FaultInv'
    <2>1. PICK i \in 1..Len(WQ[s]) :
             /\ WQ[s][i].type \in FromService
             /\ WQ' = [WQ EXCEPT ![s] = RemoveAt(@, i)]
             /\ damaged' = Damage(WQ[s][i].type)
             /\ unseen' = unseen \cup {c \in Announced(s) :
                                          WQ[s][i].type = "start" /\ WQ[s][i].call = c}
             /\ UNCHANGED <<app, manager, sender, HttpQueue>>
      BY <1>2 DEF Lose
    <2>2. PICK m : m = WQ[s][i]
      OBVIOUS
    <2>3. CASE m.type = "end"
      <3>1. UNCHANGED <<damaged, unseen>>
        BY <2>1, <2>2, <2>3 DEF Damage
      <3>. QED
        BY <2>1, <2>2, <2>3, <3>1, LoseEnd
    <2>4. CASE m.type # "end"
      <3>1. damaged' = db
        BY <2>1, <2>2, <2>4 DEF Damage
      <3>. QED
        BY <2>1, <2>2, <2>4, <3>1, LoseDamages
    <2>. QED
      BY <2>3, <2>4
  <1>3. ASSUME NEW s \in Service, Restart(s) PROVE FaultInv'
    BY <1>3, RestartDamages
  <1>4. CASE UNCHANGED <<vars, faultVars>>
    <2>1. PICK Old, Unseen : Old = Before(damaged) /\ Unseen = unseen /\ LeafInv(Old, Unseen)
      BY DEF FaultInv
    <2>2. TypeInv /\ Shaped /\ UNCHANGED <<run, damaged, unseen, db>> /\ [Next]_vars
      BY <1>4, <2>1 DEF FaultInv, LeafInv, vars, app, faultVars
    <2>3. \A c \in Call : ~PreReqEnd(c)
      BY <2>2, EndIsIdle DEF PreReqEnd, Active
    <2>4. LeafInv(Old, Unseen)' /\ TypeInv'
      BY <2>1, <2>2, <2>3, LeafNext, TypingNext
    <2>5. Old = Before(damaged)' /\ Unseen = unseen'
      BY <2>1, <2>2 DEF Before
    <2>6. \A k \in Key : damaged'[k] \in Int /\ damaged'[k] <= db'[k]
      BY <2>2 DEF FaultInv
    <2>. QED
      BY <2>4, <2>5, <2>6 DEF FaultInv
  <1>. QED
    BY <1>1, <1>2, <1>3, <1>4 DEF FaultNext

LEMMA FaultInvOlder == FaultInv => StaleIsOlder
  <1>. SUFFICES ASSUME FaultInv, NEW s \in Service, NEW c \in Call, Leaf(c), Stale(s, c),
                       ~InvPending(s, c)
                PROVE  Older(s, c)
    BY DEF StaleIsOlder
  <1>1. PICK Old, Unseen : Old = Before(damaged) /\ Unseen = unseen /\ LeafInv(Old, Unseen)
    BY DEF FaultInv
  <1>2. CacheGood(s, c, Old) /\ TypeInv
    BY <1>1 DEF LeafInv, LinesGood, FaultInv
  <1>3. PICK val : val = cache[s][c]
    OBVIOUS
  <1>4. Footprint[c] = Reads[c]
    BY FootprintAssumption DEF Leaf
  <1>5. PICK k \in Reads[c] : <<k, db[k]>> \notin val
    BY <1>3, <1>4 DEF Stale
  <1>6. Posted(s, c) = {} /\ ~More(s, c)
    <2>1. Posted(s, c) = {}
      BY DEF Posted, Says, InvPending
    <2>2. ~More(s, c)
      BY DEF More, Merged, Queued, InvPending
    <2>. QED
      BY <2>1, <2>2
  <1>7. Good(val, s, c, Old) /\ val # NoVal
    BY <1>2, <1>3, <1>6 DEF CacheGood, Stale
  <1>8. ~Right(val, s, c)
    <2>1. SUFFICES ASSUME Coming(k) PROVE FALSE
      BY <1>5 DEF Right
    <2>2. k \in Key /\ WQ[Owner[k]] \in Seq(Message)
      BY <1>2, GraphAssumption DEF TypeInv, TypeOK
    <2>3. \A m \in Message : IsInv(m, k) => m = [type |-> "inv", key |-> k]
      BY DEF Message, IsInv
    <2>4. \A i \in 1..Len(WQ[Owner[k]]) : WQ[Owner[k]][i] \in Message
      BY <2>2
    <2>. QED
      BY <1>4, <2>1, <2>3, <2>4 DEF Coming, InvPending
  <1>9. val \cap Old # {}
    BY <1>5, <1>7, <1>8 DEF Good, Excused
  <1>10. PICK x \in Key \X (0..MaxWrites) : x \in val /\ x[2] <= damaged[x[1]]
    BY <1>1, <1>9 DEF Before
  <1>11. x[1] \in Key /\ x[2] \in 0..MaxWrites /\ <<x[1], x[2]>> = x
    BY <1>10
  <1>. QED
    BY <1>3, <1>10, <1>11 DEF Older

\* A fault does no harm to what is computed after it: for every call graph, with
\* any number of lost messages and restarts of any manager at any time, a stale
\* line of a leaf call that nothing on its way will drop holds a version from
\* before the last damage.
THEOREM FaultsHarmTheOlder == FaultSpec => []StaleIsOlder
  <1>1. FaultInit => FaultInv
    BY FaultInvInit
  <1>2. FaultInv /\ [FaultNext]_<<vars, faultVars>> => FaultInv'
    BY FaultInvNext
  <1>3. FaultInv => StaleIsOlder
    BY FaultInvOlder
  <1>. QED
    BY <1>1, <1>2, <1>3, PTL DEF FaultSpec

=============================================================================
