--------------------------- MODULE Shards_proofs ---------------------------
(***************************************************************************)
(* Theorems of the sharded service (module Shards), for any number of      *)
(* shards and callers, any calls and keys, any capacity of the queues.     *)
(***************************************************************************)
EXTENDS Shards, SequenceTheorems, TLAPS

P == INSTANCE CMState_proofs WITH Served <- Call, Called <- {}

\* What the constants of Shards are; None is neither a key nor a version.
Wiring ==
    /\ HashShard \in [Call -> Shard]
    /\ KeyOf \in [Call -> Key]
    /\ None \notin Key
    /\ None \notin Nat

-----------------------------------------------------------------------------
\* The types of the variables.

Run == [phase : {"idle", "asked", "on", "read"}, caller : Caller \cup {None}, got : Nat]

Message ==
    [type : {"start"}, call : Call]
        \cup [type : {"end"}, call : Call, caller : Caller, val : Nat]
        \cup [type : {"inv"}, key : Key, fromCM : BOOLEAN]

Word == [save : {TRUE}, call : Call, val : Nat] \cup [save : {FALSE}, calls : SUBSET Call]

\* A manager hears of the runs its own shard serves, and of no others.
Home(s, m) == m.type \in {"start", "end"} => HashShard[m.call] = s

TypeInv ==
    /\ Wiring
    /\ db \in [Key -> Nat]
    /\ unsent \in [Shard -> SUBSET Key]
    /\ run \in [Call -> Run]
    /\ \A c \in Call : run[c].phase # "idle" => run[c].caller \in Caller
    /\ runs \in Nat
    /\ WQ \in [Shard -> Seq(Message)]
    /\ \A s \in Shard : \A i \in 1..Len(WQ[s]) : Home(s, WQ[s][i])
    /\ forwarding \in [Shard -> SUBSET Shard]
    /\ inhand \in [Shard -> Key \cup {None}]
    /\ \A s \in Shard : inhand[s] = None => forwarding[s] = {}
    /\ history \in [Shard -> Seq(HistoryItem)]
    /\ deps \in [Shard -> [Dep -> SUBSET Entry]]
    /\ upstream \in [Caller -> Seq(Word)]
    /\ cache \in [Call -> Nat \cup {None}]

-----------------------------------------------------------------------------
(***************************************************************************)
(* The judgement of a run of call c.  j is a place in the work queue q of  *)
(* the manager that will judge it: that of the end of the run, or the one  *)
(* after the last if the run has not ended.  h is the manager's history    *)
(* and hand the key it has in hand.                                        *)
(***************************************************************************)
IsStart(m, c) == m.type = "start" /\ m.call = c
IsEnd(m, c) == m.type = "end" /\ m.call = c
IsInv(m, k) == m.type = "inv" /\ m.key = k

StartsBefore(q, j, c) == {i \in 1..Len(q) : i < j /\ IsStart(q[i], c)}
EndsBefore(q, j, c) == {i \in 1..Len(q) : i < j /\ IsEnd(q[i], c)}

\* The start of the run is in the queue, after the end of any earlier run of
\* the call, or it has been processed and is in the history.
StartKept(h, q, j, c) ==
    /\ \A i \in EndsBefore(q, j, c) : \E m \in StartsBefore(q, j, c) : i < m
    /\ StartsBefore(q, j, c) = {} => StartsOf(h, c) # {}

\* The manager knows of an invalidation of k since the start of call c, or is
\* about to write it in the history.
Seen(h, hand, c, k) == hand = k \/ k \in InvalidatedSince(h, c)

\* The judgement comes to know of an invalidation of k since the start, or
\* the invalidation is still behind it in the queue.
Noticed(h, hand, q, j, c, k) ==
    \/ \E i \in 1..Len(q) : /\ IsInv(q[i], k)
                            /\ \A m \in StartsBefore(q, j, c) : m < i
    \/ StartsBefore(q, j, c) = {} /\ Seen(h, hand, c, k)

\* Nothing of an invalidation of k has reached the manager of s, but it will.
Outside(s, k) ==
    \/ \E t \in Shard : k \in unsent[t]
    \/ \E t \in Shard : inhand[t] = k /\ s \in forwarding[t]
    \/ \E t \in Shard : /\ t # s
                        /\ \E i \in 1..Len(WQ[t]) : IsInv(WQ[t][i], k) /\ ~WQ[t][i].fromCM

Kept(j, c) == StartKept(history[HashShard[c]], WQ[HashShard[c]], j, c)

\* A run that read version v will be judged invalid or was right to, unless an
\* invalidation is behind it.
Judged(j, c, v) ==
    LET s == HashShard[c]
        k == KeyOf[c]
    IN  \/ v = db[k]
        \/ Outside(s, k)
        \/ Noticed(history[s], inhand[s], WQ[s], j, c, k)

\* The run under way, and those that have ended.
RunJudged(c) ==
    LET j == Len(WQ[HashShard[c]]) + 1
    IN  /\ run[c].phase \in {"on", "read"} => Kept(j, c)
        /\ run[c].phase = "read" => Judged(j, c, run[c].got)

EndsJudged(c) ==
    LET q == WQ[HashShard[c]]
    IN  \A j \in 1..Len(q) : IsEnd(q[j], c) => Kept(j, c) /\ Judged(j, c, q[j].val)

-----------------------------------------------------------------------------
\* What is on its way to the line of a call, or in it.

About(m, c) == IF m.save THEN m.call = c ELSE c \in m.calls

Told(a, c) == {i \in 1..Len(upstream[a]) : About(upstream[a][i], c)}

\* The value is of the version in the database, or the invalidation of the key
\* is coming; and it finds the line in the index.
Right(v, a, c) ==
    /\ <<a, c>> \in deps[HashShard[c]][KeyOf[c]]
    /\ v = db[KeyOf[c]] \/ Coming(HashShard[c], KeyOf[c])

\* A word to caller a is right unless another follows it.
WordsGood(a, c) ==
    \A i \in Told(a, c) :
       \/ ~upstream[a][i].save
       \/ Right(upstream[a][i].val, a, c)
       \/ \E j \in Told(a, c) : i < j

\* The line is right by one of the callers that share it, or a word follows.
LineGood(c) ==
    \/ cache[c] = None
    \/ \E a \in Caller : Right(cache[c], a, c) \/ Told(a, c) # {}

LinesGood == \A c \in Call : LineGood(c) /\ \A a \in Caller : WordsGood(a, c)

AllJudged == \A c \in Call : RunJudged(c) /\ EndsJudged(c)

ShardInv == TypeInv /\ AllJudged /\ LinesGood

-----------------------------------------------------------------------------
\* The lemmas on histories are about the same operators.
LEMMA NoCalls == {} \cap Key = {}
  OBVIOUS

LEMMA SameOperators ==
    /\ P!HistoryItem = HistoryItem /\ P!Dep = Dep
    /\ \A h, ca : /\ P!AppendCall(h, ca) = AppendCall(h, ca)
                  /\ P!StartsOf(h, ca) = StartsOf(h, ca)
                  /\ P!InvalidatedSince(h, ca) = InvalidatedSince(h, ca)
                  /\ P!Forgotten(h, ca) = Forgotten(h, ca)
  <1>1. P!HistoryItem = HistoryItem /\ P!Dep = Dep
    BY DEF P!HistoryItem, HistoryItem, P!Dep, Dep
  <1>2. ASSUME NEW h, NEW ca
        PROVE  /\ P!AppendCall(h, ca) = AppendCall(h, ca)
               /\ P!StartsOf(h, ca) = StartsOf(h, ca)
    BY DEF P!AppendCall, AppendCall, P!StartsOf, StartsOf, P!IsCallArgSet, IsCallArgSet
  <1>3. ASSUME NEW h, NEW ca PROVE P!Walked(h, ca) = Walked(h, ca)
    BY <1>2 DEF P!Walked, Walked
  <1>4. ASSUME NEW h, NEW ca PROVE P!InvalidatedSince(h, ca) = InvalidatedSince(h, ca)
    BY <1>3 DEF P!InvalidatedSince, InvalidatedSince, P!IsCallArgSet, IsCallArgSet
  <1>5. ASSUME NEW h, NEW ca PROVE P!RemoveStart(h, ca) = RemoveStart(h, ca)
    BY <1>3 DEF P!RemoveStart, RemoveStart, P!IsCallArgSet, IsCallArgSet
  <1>6. ASSUME NEW h, NEW j PROVE P!CollectsFrom(h, j) = CollectsFrom(h, j)
    BY DEF P!CollectsFrom, CollectsFrom, P!HasCalls, HasCalls, P!IsCallArgSet, IsCallArgSet
  <1>7. ASSUME NEW h, NEW ca PROVE P!Forgotten(h, ca) = Forgotten(h, ca)
    BY <1>2, <1>5, <1>6 DEF P!Forgotten, Forgotten
  <1>. QED
    BY <1>1, <1>2, <1>4, <1>7

\* What each way to extend or forget a history does to the walk of a call.
LEMMA HistoryFacts ==
    ASSUME NEW h \in Seq(HistoryItem), NEW ca
    PROVE  /\ InvalidatedSince(h, ca) \subseteq Dep
           /\ \A k \in Key :
                 /\ AppendWrite(h, k) \in Seq(HistoryItem)
                 /\ StartsOf(AppendWrite(h, k), ca) = StartsOf(h, ca)
                 /\ InvalidatedSince(AppendWrite(h, k), ca) = InvalidatedSince(h, ca) \cup {k}
           /\ \A cb \in Call :
                 /\ AppendCall(h, cb) \in Seq(HistoryItem)
                 /\ cb = ca => StartsOf(AppendCall(h, cb), ca) # {}
                 /\ cb # ca =>
                       /\ StartsOf(AppendCall(h, cb), ca) = StartsOf(h, ca)
                       /\ InvalidatedSince(AppendCall(h, cb), ca) = InvalidatedSince(h, ca)
           /\ \A cb : \A g \in Forgotten(h, cb) :
                 /\ g \in Seq(HistoryItem)
                 /\ ca # cb /\ StartsOf(h, ca) # {} =>
                       /\ StartsOf(g, ca) # {}
                       /\ InvalidatedSince(g, ca) = InvalidatedSince(h, ca)
  <1>1. InvalidatedSince(h, ca) \subseteq Dep
    BY SameOperators, NoCalls, P!InvalidatedSinceType
  <1>2. ASSUME NEW k \in Key
        PROVE  /\ AppendWrite(h, k) \in Seq(HistoryItem)
               /\ StartsOf(AppendWrite(h, k), ca) = StartsOf(h, ca)
               /\ InvalidatedSince(AppendWrite(h, k), ca) = InvalidatedSince(h, ca) \cup {k}
    <2>. DEFINE item == [kind |-> "write", names |-> {k}]
    <2>1. item \in HistoryItem /\ item.names = {k} /\ ~P!IsCallArgSet(item)
      BY DEF HistoryItem, Dep, P!IsCallArgSet
    <2>. HIDE DEF item
    <2>2. /\ Append(h, item) \in Seq(HistoryItem)
          /\ StartsOf(Append(h, item), ca) = StartsOf(h, ca)
          /\ InvalidatedSince(Append(h, item), ca) = InvalidatedSince(h, ca) \cup item.names
      BY <2>1, SameOperators, NoCalls, P!AppendInvalidation
    <2>. QED
      BY <2>1, <2>2 DEF AppendWrite, item
  <1>3. ASSUME NEW cb \in Call
        PROVE  /\ AppendCall(h, cb) \in Seq(HistoryItem)
               /\ cb = ca => StartsOf(AppendCall(h, cb), ca) # {}
               /\ cb # ca =>
                     /\ StartsOf(AppendCall(h, cb), ca) = StartsOf(h, ca)
                     /\ InvalidatedSince(AppendCall(h, cb), ca) = InvalidatedSince(h, ca)
    <2>1. AppendCall(h, cb) \in Seq(HistoryItem) /\ StartsOf(AppendCall(h, cb), cb) # {}
      BY SameOperators, NoCalls, P!AppendCallOwn
    <2>2. cb # ca =>
             /\ StartsOf(AppendCall(h, cb), ca) = StartsOf(h, ca)
             /\ InvalidatedSince(AppendCall(h, cb), ca) = InvalidatedSince(h, ca)
      BY SameOperators, NoCalls, P!AppendCallOther
    <2>. QED
      BY <2>1, <2>2
  <1>4. ASSUME NEW cb, NEW g \in Forgotten(h, cb)
        PROVE  /\ g \in Seq(HistoryItem)
               /\ ca # cb /\ StartsOf(h, ca) # {} =>
                     /\ StartsOf(g, ca) # {}
                     /\ InvalidatedSince(g, ca) = InvalidatedSince(h, ca)
    BY SameOperators, NoCalls, P!ForgottenFacts
  <1>. QED
    BY <1>1, <1>2, <1>3, <1>4

-----------------------------------------------------------------------------
\* Sequences.
LEMMA AppendFacts ==
    ASSUME NEW S, NEW q \in Seq(S), NEW m \in S
    PROVE  /\ Append(q, m) \in Seq(S)
           /\ Len(q) \in Nat
           /\ Len(Append(q, m)) = Len(q) + 1
           /\ \A i \in 1..Len(q) : Append(q, m)[i] = q[i]
           /\ Append(q, m)[Len(q) + 1] = m
  BY AppendProperties

LEMMA TailFacts ==
    ASSUME NEW S, NEW q \in Seq(S), q # <<>>
    PROVE  /\ Tail(q) \in Seq(S)
           /\ Len(q) \in Nat \ {0}
           /\ Len(Tail(q)) = Len(q) - 1
           /\ \A i \in 1..Len(Tail(q)) : Tail(q)[i] = q[i + 1]
           /\ Head(q) = q[1]
           /\ q[1] \in S
  BY HeadTailProperties, EmptySeq

\* What the fields of a message are.
LEMMA MessageFacts ==
    ASSUME NEW m \in Message
    PROVE  /\ m.type \in {"start", "end", "inv"}
           /\ m.type = "start" => m.call \in Call
           /\ m.type = "end" => m.call \in Call /\ m.caller \in Caller /\ m.val \in Nat
           /\ m.type = "inv" => m.key \in Key /\ m.fromCM \in BOOLEAN
  BY DEF Message

LEMMA WordFacts ==
    ASSUME NEW m \in Word
    PROVE  /\ m.save \in BOOLEAN
           /\ m.save => m.call \in Call /\ m.val \in Nat
           /\ ~m.save => m.calls \subseteq Call
  BY DEF Word

\* A manager takes the head of its queue only with nothing in hand.
LEMMA TakeFacts ==
    ASSUME TypeInv, NEW s \in Shard, NEW type, Take(s, type)
    PROVE  /\ inhand[s] = None
           /\ WQ[s] \in Seq(Message) /\ WQ[s] # <<>>
           /\ Head(WQ[s]) \in Message /\ Head(WQ[s]).type = type
           /\ Home(s, Head(WQ[s]))
           /\ WQ' \in [Shard -> Seq(Message)]
           /\ WQ'[s] = Tail(WQ[s])
           /\ \A t \in Shard : t # s => WQ'[t] = WQ[t]
           /\ \A t \in Shard : \A i \in 1..Len(WQ'[t]) : Home(t, WQ'[t][i])
  <1>1. WQ \in [Shard -> Seq(Message)] /\ WQ[s] \in Seq(Message) /\ WQ[s] # <<>>
    BY DEF TypeInv, Take
  <1>2. /\ Tail(WQ[s]) \in Seq(Message) /\ Len(WQ[s]) \in Nat \ {0}
        /\ Len(Tail(WQ[s])) = Len(WQ[s]) - 1
        /\ \A i \in 1..Len(Tail(WQ[s])) : Tail(WQ[s])[i] = WQ[s][i + 1]
        /\ Head(WQ[s]) = WQ[s][1] /\ WQ[s][1] \in Message
    BY <1>1, TailFacts
  <1>3. WQ' = [WQ EXCEPT ![s] = Tail(WQ[s])] /\ inhand[s] = None /\ Head(WQ[s]).type = type
    BY DEF Take
  <1>4. /\ WQ' \in [Shard -> Seq(Message)] /\ WQ'[s] = Tail(WQ[s])
        /\ \A t \in Shard : t # s => WQ'[t] = WQ[t]
    BY <1>1, <1>2, <1>3
  <1>5. Home(s, Head(WQ[s]))
    <2>1. 1 \in 1..Len(WQ[s])
      BY <1>2
    <2>. QED
      BY <1>2, <2>1 DEF TypeInv
  <1>6. ASSUME NEW t \in Shard, NEW i \in 1..Len(WQ'[t]) PROVE Home(t, WQ'[t][i])
    <2>1. CASE t = s
      <3>1. i \in 1..Len(Tail(WQ[s])) /\ WQ'[t][i] = Tail(WQ[s])[i]
        BY <1>4, <2>1
      <3>2. WQ'[t][i] = WQ[s][i + 1]
        BY <1>2, <3>1
      <3>3. i + 1 \in 1..Len(WQ[s])
        BY <1>2, <3>1
      <3>. QED
        BY <2>1, <3>2, <3>3 DEF TypeInv
    <2>2. CASE t # s
      BY <1>4, <2>2 DEF TypeInv
    <2>. QED
      BY <2>1, <2>2
  <1>. QED
    BY <1>1, <1>2, <1>3, <1>4, <1>5, <1>6

LEMMA PostFacts ==
    ASSUME TypeInv, NEW s \in Shard, NEW m \in Message, Post(s, m), Home(s, m)
    PROVE  /\ WQ' \in [Shard -> Seq(Message)]
           /\ WQ'[s] = Append(WQ[s], m)
           /\ \A t \in Shard : t # s => WQ'[t] = WQ[t]
           /\ \A t \in Shard : \A i \in 1..Len(WQ'[t]) : Home(t, WQ'[t][i])
  <1>1. WQ \in [Shard -> Seq(Message)] /\ WQ' = [WQ EXCEPT ![s] = Append(WQ[s], m)]
    BY DEF TypeInv, Post
  <1>2. /\ Append(WQ[s], m) \in Seq(Message) /\ Len(WQ[s]) \in Nat
        /\ Len(Append(WQ[s], m)) = Len(WQ[s]) + 1
        /\ \A i \in 1..Len(WQ[s]) : Append(WQ[s], m)[i] = WQ[s][i]
        /\ Append(WQ[s], m)[Len(WQ[s]) + 1] = m
    BY <1>1, AppendFacts
  <1>3. /\ WQ' \in [Shard -> Seq(Message)] /\ WQ'[s] = Append(WQ[s], m)
        /\ \A t \in Shard : t # s => WQ'[t] = WQ[t]
    BY <1>1, <1>2
  <1>4. ASSUME NEW t \in Shard, NEW i \in 1..Len(WQ'[t]) PROVE Home(t, WQ'[t][i])
    <2>1. CASE t = s /\ i \in 1..Len(WQ[s])
      BY <1>2, <1>3, <2>1 DEF TypeInv
    <2>2. CASE t = s /\ i \notin 1..Len(WQ[s])
      <3>1. i = Len(WQ[s]) + 1
        BY <1>2, <1>3, <2>2
      <3>. QED
        BY <1>2, <1>3, <2>2, <3>1
    <2>3. CASE t # s
      BY <1>3, <2>3 DEF TypeInv
    <2>. QED
      BY <2>1, <2>2, <2>3
  <1>. QED
    BY <1>3, <1>4

\* What a word to one caller does to the queues of the callers.
LEMMA TellFacts ==
    ASSUME TypeInv, NEW a \in Caller, NEW m \in Word, Tell(a, m)
    PROVE  /\ upstream' \in [Caller -> Seq(Word)]
           /\ upstream'[a] = Append(upstream[a], m)
           /\ \A b \in Caller : b # a => upstream'[b] = upstream[b]
  BY DEF TypeInv, Tell

-----------------------------------------------------------------------------
LEMMA TypingInit == Wiring /\ Init => TypeInv
  <1>. SUFFICES ASSUME Wiring, Init PROVE TypeInv
    OBVIOUS
  <1>1. Idle \in Run /\ Idle.phase = "idle"
    BY DEF Idle, Run
  <1>2. NoDeps \in [Dep -> SUBSET Entry]
    BY DEF NoDeps
  <1>3. \A s \in Shard : Len(WQ[s]) = 0
    BY DEF Init
  <1>. QED
    BY <1>1, <1>2, <1>3 DEF Init, TypeInv

LEMMA TypingService ==
    ASSUME TypeInv,
           \/ \E a \in Caller, c \in Call : ShardInvoke(a, c)
           \/ \E c \in Call : Start(c) \/ GetState(c) \/ End(c)
           \/ \E s \in Shard, k \in Key : SetState(s, k) \/ PostWrite(s, k)
    PROVE  TypeInv'
  <1>1. ASSUME NEW a \in Caller, NEW c \in Call, ShardInvoke(a, c) PROVE TypeInv'
    BY SMTT(30), <1>1 DEF ShardInvoke, TypeInv, Wiring, Run, manager
  <1>2. ASSUME NEW c \in Call, Start(c) PROVE TypeInv'
    <2>1. /\ HashShard[c] \in Shard /\ [type |-> "start", call |-> c] \in Message
          /\ Home(HashShard[c], [type |-> "start", call |-> c])
      BY DEF TypeInv, Wiring, Message, Home
    <2>2. /\ WQ' \in [Shard -> Seq(Message)]
          /\ \A t \in Shard : \A i \in 1..Len(WQ'[t]) : Home(t, WQ'[t][i])
      BY <1>2, <2>1, PostFacts DEF Start
    <2>3. run' = [run EXCEPT ![c].phase = "on"] /\ run[c].phase = "asked"
      BY <1>2 DEF Start
    <2>4. run' \in [Call -> Run] /\ \A d \in Call : run'[d].phase # "idle" => run'[d].caller \in Caller
      BY <2>3 DEF TypeInv, Run
    <2>. QED
      BY <1>2, <2>2, <2>4 DEF Start, TypeInv, Wiring, manager
  <1>3. ASSUME NEW c \in Call, GetState(c) PROVE TypeInv'
    <2>1. db[KeyOf[c]] \in Nat
      BY DEF TypeInv, Wiring
    <2>2. run' = [run EXCEPT ![c].phase = "read", ![c].got = db[KeyOf[c]]] /\ run[c].phase = "on"
      BY <1>3 DEF GetState
    <2>3. PICK old \in Run : old = run[c]
      BY DEF TypeInv
    <2>4. run' = [run EXCEPT ![c] = [old EXCEPT !.phase = "read", !.got = db[KeyOf[c]]]]
      BY <2>2, <2>3
    <2>5. [old EXCEPT !.phase = "read", !.got = db[KeyOf[c]]] \in Run
      BY <2>1 DEF Run
    <2>6. run' \in [Call -> Run] /\ \A d \in Call : run'[d].phase # "idle" => run'[d].caller \in Caller
      BY <2>2, <2>3, <2>4, <2>5 DEF TypeInv, Run
    <2>. QED
      BY <1>3, <2>6 DEF GetState, TypeInv, Wiring, manager
  <1>4. ASSUME NEW c \in Call, End(c) PROVE TypeInv'
    <2>. DEFINE m == [type |-> "end", call |-> c, caller |-> run[c].caller, val |-> run[c].got]
    <2>1. run[c] \in Run /\ run[c].phase = "read" /\ run[c].caller \in Caller
      BY <1>4 DEF TypeInv, End
    <2>2. HashShard[c] \in Shard /\ m \in Message /\ Home(HashShard[c], m)
      BY <2>1 DEF TypeInv, Wiring, Message, Home, Run
    <2>3. /\ WQ' \in [Shard -> Seq(Message)]
          /\ \A t \in Shard : \A i \in 1..Len(WQ'[t]) : Home(t, WQ'[t][i])
      BY <1>4, <2>2, PostFacts DEF End
    <2>4. run' = [run EXCEPT ![c] = Idle] /\ Idle \in Run /\ Idle.phase = "idle"
      BY <1>4 DEF End, Idle, Run
    <2>5. run' \in [Call -> Run] /\ \A d \in Call : run'[d].phase # "idle" => run'[d].caller \in Caller
      BY <2>4 DEF TypeInv
    <2>. QED
      BY <1>4, <2>3, <2>5 DEF End, TypeInv, Wiring, manager
  <1>5. ASSUME NEW s \in Shard, NEW k \in Key, SetState(s, k) PROVE TypeInv'
    BY <1>5 DEF SetState, TypeInv, Wiring, manager
  <1>6. ASSUME NEW s \in Shard, NEW k \in Key, PostWrite(s, k) PROVE TypeInv'
    <2>1. /\ [type |-> "inv", key |-> k, fromCM |-> FALSE] \in Message
          /\ Home(s, [type |-> "inv", key |-> k, fromCM |-> FALSE])
      BY DEF Message, Home
    <2>2. /\ WQ' \in [Shard -> Seq(Message)]
          /\ \A t \in Shard : \A i \in 1..Len(WQ'[t]) : Home(t, WQ'[t][i])
      BY <1>6, <2>1, PostFacts DEF PostWrite
    <2>. QED
      BY <1>6, <2>2 DEF PostWrite, TypeInv, Wiring, manager
  <1>. QED
    BY <1>1, <1>2, <1>3, <1>4, <1>5, <1>6

\* The calls of a set of entries that belong to one caller.
CallsOf(entries, a) == {e[2] : e \in {x \in entries : x[1] = a}}

LEMMA TypingManagers ==
    ASSUME TypeInv,
           \/ \E a \in Caller : Deliver(a)
           \/ \E s \in Shard :
                 \/ ProcessStart(s) \/ ProcessEnd(s)
                 \/ TakeInvalidation(s) \/ Invalidate(s)
                 \/ \E n \in Shard : Forward(s, n)
    PROVE  TypeInv'
  <1>1. ASSUME NEW a \in Caller, Deliver(a) PROVE TypeInv'
    <2>1. upstream[a] \in Seq(Word) /\ upstream[a] # <<>>
      BY <1>1 DEF Deliver, TypeInv
    <2>2. Tail(upstream[a]) \in Seq(Word) /\ Head(upstream[a]) \in Word
      BY <2>1, TailFacts
    <2>3. PICK m \in Word : m = Head(upstream[a])
      BY <2>2
    <2>4. /\ upstream' = [upstream EXCEPT ![a] = Tail(upstream[a])]
          /\ cache' = IF m.save THEN [cache EXCEPT ![m.call] = m.val]
                      ELSE [c \in Call |-> IF c \in m.calls THEN None ELSE cache[c]]
          /\ UNCHANGED <<db, unsent, run, runs, WQ, forwarding, inhand, history, deps>>
      BY <1>1, <2>3 DEF Deliver, manager
    <2>5. upstream' \in [Caller -> Seq(Word)]
      BY <2>2, <2>4 DEF TypeInv
    <2>6. cache' \in [Call -> Nat \cup {None}]
      BY <2>4, WordFacts DEF TypeInv
    <2>. QED
      BY <2>4, <2>5, <2>6 DEF TypeInv, Wiring
  <1>2. ASSUME NEW s \in Shard, ProcessStart(s) PROVE TypeInv'
    <2>1. /\ WQ' \in [Shard -> Seq(Message)] /\ Head(WQ[s]).call \in Call
          /\ \A t \in Shard : \A i \in 1..Len(WQ'[t]) : Home(t, WQ'[t][i])
      BY <1>2, TakeFacts, MessageFacts DEF ProcessStart
    <2>2. PICK c \in Call : c = Head(WQ[s]).call
      BY <2>1
    <2>3. history' = [history EXCEPT ![s] = AppendCall(history[s], c)]
      BY <1>2, <2>2 DEF ProcessStart
    <2>4. AppendCall(history[s], c) \in Seq(HistoryItem)
      BY HistoryFacts DEF TypeInv
    <2>5. history' \in [Shard -> Seq(HistoryItem)]
      BY <2>3, <2>4 DEF TypeInv
    <2>. QED
      BY <1>2, <2>1, <2>5 DEF ProcessStart, TypeInv, Wiring
  <1>3. ASSUME NEW s \in Shard, ProcessEnd(s) PROVE TypeInv'
    <2>1. PICK m : m = Head(WQ[s])
      OBVIOUS
    <2>2. /\ WQ' \in [Shard -> Seq(Message)]
          /\ \A t \in Shard : \A i \in 1..Len(WQ'[t]) : Home(t, WQ'[t][i])
          /\ m \in Message /\ m.call \in Call /\ m.caller \in Caller /\ m.val \in Nat
      BY <1>3, <2>1, TakeFacts, MessageFacts DEF ProcessEnd
    <2>3. PICK rest \in Forgotten(history[s], m.call) : history' = [history EXCEPT ![s] = rest]
      BY <1>3, <2>1 DEF ProcessEnd
    <2>4. rest \in Seq(HistoryItem)
      BY HistoryFacts DEF TypeInv
    <2>5. history' \in [Shard -> Seq(HistoryItem)]
      BY <2>3, <2>4 DEF TypeInv
    <2>6. CASE UNCHANGED <<upstream, deps>>
      BY <1>3, <2>2, <2>5, <2>6 DEF ProcessEnd, TypeInv, Wiring
    <2>7. CASE /\ Tell(m.caller, [save |-> TRUE, call |-> m.call, val |-> m.val])
               /\ deps' = [deps EXCEPT ![s] =
                             StoreDeps(deps[s], <<m.caller, m.call>>, {KeyOf[m.call]})]
      <3>1. [save |-> TRUE, call |-> m.call, val |-> m.val] \in Word
        BY <2>2 DEF Word
      <3>2. upstream' \in [Caller -> Seq(Word)]
        BY <2>2, <2>7, <3>1, TellFacts
      <3>3. <<m.caller, m.call>> \in Entry
        BY <2>2 DEF Entry
      <3>4. StoreDeps(deps[s], <<m.caller, m.call>>, {KeyOf[m.call]}) \in [Dep -> SUBSET Entry]
        <4>1. \A d \in Dep : deps[s][d] \in SUBSET Entry
          BY DEF TypeInv
        <4>. QED
          BY <3>3, <4>1 DEF StoreDeps
      <3>5. deps' \in [Shard -> [Dep -> SUBSET Entry]]
        BY <2>7, <3>4 DEF TypeInv
      <3>. QED
        BY <1>3, <2>2, <2>5, <3>2, <3>5 DEF ProcessEnd, TypeInv, Wiring
    <2>. QED
      BY <1>3, <2>1, <2>6, <2>7 DEF ProcessEnd
  <1>4. ASSUME NEW s \in Shard, TakeInvalidation(s) PROVE TypeInv'
    <2>1. /\ WQ' \in [Shard -> Seq(Message)] /\ Head(WQ[s]).key \in Key
          /\ \A t \in Shard : \A i \in 1..Len(WQ'[t]) : Home(t, WQ'[t][i])
      BY <1>4, TakeFacts, MessageFacts DEF TakeInvalidation
    <2>2. inhand' \in [Shard -> Key \cup {None}] /\ forwarding' \in [Shard -> SUBSET Shard]
      BY <1>4, <2>1 DEF TakeInvalidation, TypeInv, Neighbors
    <2>3. \A t \in Shard : inhand'[t] = None => forwarding'[t] = {}
      BY <1>4, <2>1 DEF TakeInvalidation, TypeInv, Wiring
    <2>. QED
      BY <1>4, <2>1, <2>2, <2>3 DEF TakeInvalidation, TypeInv, Wiring, manager
  <1>5. ASSUME NEW s \in Shard, Invalidate(s) PROVE TypeInv'
    <2>1. PICK k \in Key : k = inhand[s]
      BY <1>5 DEF Invalidate, TypeInv
    <2>2. PICK dropped : dropped = Popped(deps[s], {k})
      OBVIOUS
    <2>3. dropped \subseteq Entry
      BY <2>2 DEF Popped, TypeInv, Dep
    <2>4. /\ inhand' = [inhand EXCEPT ![s] = None]
          /\ history' = [history EXCEPT ![s] = AppendWrite(history[s], k)]
          /\ deps' = [deps EXCEPT ![s] = PopDeps(deps[s], {k})]
          /\ upstream' = [a \in Caller |->
                IF CallsOf(dropped, a) = {} THEN upstream[a]
                ELSE Append(upstream[a], [save |-> FALSE, calls |-> CallsOf(dropped, a)])]
          /\ forwarding[s] = {}
          /\ UNCHANGED <<db, unsent, run, runs, WQ, forwarding, cache>>
      BY <1>5, <2>1, <2>2 DEF Invalidate, CallsOf
    <2>5. AppendWrite(history[s], k) \in Seq(HistoryItem)
      BY HistoryFacts DEF TypeInv
    <2>6. PopDeps(deps[s], {k}) \in [Dep -> SUBSET Entry]
      BY DEF PopDeps, TypeInv
    <2>7. ASSUME NEW a \in Caller
          PROVE  [save |-> FALSE, calls |-> CallsOf(dropped, a)] \in Word
      BY <2>3 DEF Word, CallsOf, Entry
    <2>8. upstream' \in [Caller -> Seq(Word)]
      BY <2>4, <2>7 DEF TypeInv
    <2>9. /\ inhand' \in [Shard -> Key \cup {None}]
          /\ history' \in [Shard -> Seq(HistoryItem)]
          /\ deps' \in [Shard -> [Dep -> SUBSET Entry]]
      BY <2>4, <2>5, <2>6 DEF TypeInv
    <2>. QED
      BY <2>4, <2>8, <2>9 DEF TypeInv, Wiring
  <1>6. ASSUME NEW s \in Shard, NEW n \in Shard, Forward(s, n) PROVE TypeInv'
    <2>1. PICK k \in Key : k = inhand[s]
      BY <1>6 DEF Forward, TypeInv
    <2>2. /\ [type |-> "inv", key |-> k, fromCM |-> TRUE] \in Message
          /\ Home(n, [type |-> "inv", key |-> k, fromCM |-> TRUE])
      BY DEF Message, Home
    <2>3. /\ WQ' \in [Shard -> Seq(Message)]
          /\ \A t \in Shard : \A i \in 1..Len(WQ'[t]) : Home(t, WQ'[t][i])
      BY <1>6, <2>1, <2>2, PostFacts DEF Forward
    <2>4. /\ forwarding' \in [Shard -> SUBSET Shard]
          /\ \A t \in Shard : forwarding'[t] \subseteq forwarding[t]
      BY <1>6 DEF Forward, TypeInv
    <2>. QED
      BY <1>6, <2>3, <2>4 DEF Forward, TypeInv, Wiring, manager
  <1>. QED
    BY <1>1, <1>2, <1>3, <1>4, <1>5, <1>6

LEMMA TypingNext == TypeInv /\ [Next]_vars => TypeInv'
  <1>1. TypeInv /\ UNCHANGED vars => TypeInv'
    BY DEF vars, manager, TypeInv, Wiring
  <1>. QED
    BY <1>1, TypingService, TypingManagers DEF Next

-----------------------------------------------------------------------------
\* A judgement keeps while its queue grows, as long as neither a start nor an
\* end of the call comes between.
LEMMA KeptExtend ==
    ASSUME NEW q \in Seq(Message), NEW g \in Seq(Message), NEW c,
           Len(q) <= Len(g), \A i \in 1..Len(q) : g[i] = q[i],
           NEW j \in 1..(Len(q) + 1), NEW n \in j..(Len(g) + 1),
           \A i \in 1..Len(g) : j <= i /\ i < n => ~IsStart(g[i], c) /\ ~IsEnd(g[i], c)
    PROVE  /\ StartsBefore(g, n, c) = StartsBefore(q, j, c)
           /\ \A h : StartKept(h, q, j, c) => StartKept(h, g, n, c)
           /\ \A h, hand, k : Noticed(h, hand, q, j, c, k) => Noticed(h, hand, g, n, c, k)
  <1>1. Len(q) \in Nat /\ Len(g) \in Nat
    OBVIOUS
  <1>2. StartsBefore(g, n, c) = StartsBefore(q, j, c) /\ EndsBefore(g, n, c) = EndsBefore(q, j, c)
    BY SMTT(30), <1>1 DEF StartsBefore, EndsBefore
  <1>3. \A h : StartKept(h, q, j, c) => StartKept(h, g, n, c)
    BY <1>2 DEF StartKept
  <1>4. ASSUME NEW h, NEW hand, NEW k, Noticed(h, hand, q, j, c, k)
        PROVE  Noticed(h, hand, g, n, c, k)
    BY <1>1, <1>2, <1>4 DEF Noticed
  <1>. QED
    BY <1>2, <1>3, <1>4

\* An invalidation at the end of the queue is behind every start.
LEMMA NoticedLast ==
    ASSUME NEW q \in Seq(Message), NEW k, Len(q) > 0, IsInv(q[Len(q)], k),
           NEW h, NEW hand, NEW j, NEW c
    PROVE  Noticed(h, hand, q, j, c, k)
  <1>1. Len(q) \in 1..Len(q)
    OBVIOUS
  <1>2. ASSUME NEW m \in StartsBefore(q, j, c) PROVE m < Len(q)
    <2>1. m # Len(q)
      BY DEF StartsBefore, IsStart, IsInv
    <2>. QED
      BY <2>1 DEF StartsBefore
  <1>. QED
    BY <1>1, <1>2 DEF Noticed

\* Where starts and ends are once the head of the queue is taken.
LEMMA TailPlaces ==
    ASSUME NEW q \in Seq(Message), q # <<>>, NEW c, NEW j \in 2..(Len(q) + 1)
    PROVE  LET g == Tail(q)
           IN  /\ \A i \in StartsBefore(g, j - 1, c) : i \in Nat /\ i + 1 \in StartsBefore(q, j, c)
               /\ \A i \in StartsBefore(q, j, c) :
                     i \in Nat /\ (i # 1 => i - 1 \in StartsBefore(g, j - 1, c))
               /\ \A i \in EndsBefore(g, j - 1, c) : i \in Nat /\ i + 1 \in EndsBefore(q, j, c)
               /\ 1 \in StartsBefore(q, j, c) <=> IsStart(Head(q), c)
               /\ 1 \in EndsBefore(q, j, c) <=> IsEnd(Head(q), c)
  <1>1. /\ Len(q) \in Nat \ {0}
        /\ Len(Tail(q)) = Len(q) - 1
        /\ \A i \in 1..Len(Tail(q)) : Tail(q)[i] = q[i + 1]
        /\ Head(q) = q[1]
    BY TailFacts
  <1>. QED
    BY <1>1 DEF StartsBefore, EndsBefore

\* A judgement keeps while its queue is processed, provided the manager takes
\* up what the head of the queue was.
LEMMA JudgementTail ==
    ASSUME NEW h, NEW hand, NEW f, NEW held, NEW q \in Seq(Message), q # <<>>, NEW c, NEW k,
           NEW j \in 2..(Len(q) + 1),
           StartKept(h, q, j, c),
           ~IsEnd(Head(q), c) /\ StartsOf(h, c) # {} =>
               /\ StartsOf(f, c) # {}
               /\ ~IsStart(Head(q), c) /\ Seen(h, hand, c, k) => Seen(f, held, c, k),
           IsStart(Head(q), c) => StartsOf(f, c) # {},
           IsInv(Head(q), k) => Seen(f, held, c, k)
    PROVE  /\ StartKept(f, Tail(q), j - 1, c)
           /\ Noticed(h, hand, q, j, c, k) => Noticed(f, held, Tail(q), j - 1, c, k)
  <1>. DEFINE g == Tail(q)
              S == StartsBefore(q, j, c)
              T == StartsBefore(g, j - 1, c)
  <1>1. /\ Len(q) \in Nat \ {0}
        /\ Len(g) = Len(q) - 1
        /\ \A i \in 1..Len(g) : g[i] = q[i + 1]
        /\ Head(q) = q[1]
    BY TailFacts
  <1>2. /\ \A i \in T : i \in Nat /\ i + 1 \in S
        /\ \A i \in S : i \in Nat /\ (i # 1 => i - 1 \in T)
        /\ \A i \in EndsBefore(g, j - 1, c) : i \in Nat /\ i + 1 \in EndsBefore(q, j, c)
        /\ 1 \in S <=> IsStart(Head(q), c)
        /\ 1 \in EndsBefore(q, j, c) <=> IsEnd(Head(q), c)
        /\ T \subseteq Nat \ {0}
    <2>1. T \subseteq Nat \ {0}
      BY <1>1 DEF StartsBefore
    <2>. QED
      BY <2>1, TailPlaces
  <1>. HIDE DEF S, T, g
  <1>4. ASSUME NEW i \in EndsBefore(g, j - 1, c) PROVE \E m \in T : i < m
    <2>1. PICK m \in S : i + 1 < m
      BY <1>2 DEF StartKept, S
    <2>2. m - 1 \in T /\ i < m - 1
      BY <2>1, <1>2
    <2>. QED
      BY <2>2
  <1>5. ASSUME T = {} PROVE StartsOf(f, c) # {}
    <2>1. CASE S = {}
      <3>1. ~IsEnd(Head(q), c)
        BY <2>1, <1>2 DEF StartKept, S
      <3>. QED
        BY <2>1, <3>1 DEF StartKept, S
    <2>2. CASE S # {}
      BY <2>2, <1>2, <1>5
    <2>. QED
      BY <2>1, <2>2
  <1>6. ASSUME Noticed(h, hand, q, j, c, k) PROVE Noticed(f, held, g, j - 1, c, k)
    <2>1. CASE \E i \in 1..Len(q) : IsInv(q[i], k) /\ \A m \in S : m < i
      <3>1. PICK i \in 1..Len(q) : IsInv(q[i], k) /\ \A m \in S : m < i
        BY <2>1
      <3>2. CASE i = 1
        <4>1. S = {}
          BY <3>1, <3>2, <1>2 DEF S, StartsBefore
        <4>2. T = {}
          BY <4>1, <1>2
        <4>3. Seen(f, held, c, k)
          BY <3>1, <3>2, <1>1
        <4>. QED
          BY <4>2, <4>3 DEF Noticed, T
      <3>3. CASE i # 1
        <4>1. i - 1 \in 1..Len(g) /\ g[i - 1] = q[i]
          <5>1. i - 1 \in 1..Len(g) /\ (i - 1) + 1 = i
            BY <3>3, <1>1
          <5>. QED
            BY <5>1, <1>1
        <4>2. \A m \in T : m < i - 1
          <5>1. \A m \in T : m \in Nat /\ m + 1 < i
            BY <3>1, <1>2
          <5>. QED
            BY <5>1
        <4>. QED
          BY <3>1, <4>1, <4>2 DEF Noticed, T
      <3>. QED
        BY <3>2, <3>3
    <2>2. CASE S = {} /\ Seen(h, hand, c, k)
      <3>1. T = {} /\ ~IsStart(Head(q), c) /\ ~IsEnd(Head(q), c) /\ StartsOf(h, c) # {}
        BY <2>2, <1>2 DEF StartKept, S
      <3>2. Seen(f, held, c, k)
        BY <2>2, <3>1
      <3>. QED
        BY <3>1, <3>2 DEF Noticed, T
    <2>. QED
      BY <1>6, <2>1, <2>2 DEF Noticed, S
  <1>. QED
    BY <1>4, <1>5, <1>6 DEF StartKept, T, g

-----------------------------------------------------------------------------
\* What becomes of an invalidation on its way.

\* What a step does to the queue of one manager.
QueueKept(s) == WQ'[s] = WQ[s]
QueueGrown(s) == \E m \in Message : WQ'[s] = Append(WQ[s], m)
QueueTaken(s) ==
    /\ WQ[s] # <<>> /\ WQ'[s] = Tail(WQ[s]) /\ inhand[s] = None
    /\ ProcessStart(s) \/ ProcessEnd(s) \/ TakeInvalidation(s)

LEMMA QueueStep ==
    ASSUME TypeInv, [Next]_vars, NEW s \in Shard
    PROVE  QueueKept(s) \/ QueueGrown(s) \/ QueueTaken(s)
  <1>1. ASSUME NEW t \in Shard, NEW m \in Message, Post(t, m)
        PROVE  QueueKept(s) \/ QueueGrown(s)
    BY <1>1 DEF TypeInv, Post, QueueKept, QueueGrown
  <1>2. ASSUME NEW t \in Shard, ProcessStart(t) \/ ProcessEnd(t) \/ TakeInvalidation(t)
        PROVE  QueueKept(s) \/ QueueTaken(s)
    BY <1>2, TakeFacts DEF ProcessStart, ProcessEnd, TakeInvalidation, QueueKept, QueueTaken
  <1>3. ASSUME UNCHANGED WQ PROVE QueueKept(s)
    BY <1>3 DEF QueueKept
  <1>4. ASSUME NEW c \in Call, Start(c) PROVE QueueGrown(s) \/ QueueKept(s)
    <2>1. HashShard[c] \in Shard /\ [type |-> "start", call |-> c] \in Message
      BY DEF TypeInv, Wiring, Message
    <2>. QED
      BY <1>1, <1>4, <2>1 DEF Start
  <1>5. ASSUME NEW c \in Call, End(c) PROVE QueueGrown(s) \/ QueueKept(s)
    <2>1. run[c] \in Run /\ run[c].caller \in Caller
      BY <1>5 DEF End, TypeInv
    <2>2. /\ HashShard[c] \in Shard
          /\ [type |-> "end", call |-> c, caller |-> run[c].caller, val |-> run[c].got] \in Message
      BY <2>1 DEF TypeInv, Wiring, Message, Run
    <2>. QED
      BY <1>1, <1>5, <2>2 DEF End
  <1>6. ASSUME NEW t \in Shard, NEW k \in Key, PostWrite(t, k) PROVE QueueGrown(s) \/ QueueKept(s)
    <2>1. [type |-> "inv", key |-> k, fromCM |-> FALSE] \in Message
      BY DEF Message
    <2>. QED
      BY <1>1, <1>6, <2>1 DEF PostWrite
  <1>7. ASSUME NEW t \in Shard, NEW n \in Shard, Forward(t, n) PROVE QueueGrown(s) \/ QueueKept(s)
    <2>1. inhand[t] \in Key
      BY <1>7 DEF Forward, TypeInv
    <2>2. [type |-> "inv", key |-> inhand[t], fromCM |-> TRUE] \in Message
      BY <2>1 DEF Message
    <2>. QED
      BY <1>1, <1>7, <2>2 DEF Forward
  <1>. QED
    BY <1>2, <1>3, <1>4, <1>5, <1>6, <1>7
       DEF Next, vars, ShardInvoke, GetState, SetState, Invalidate, Deliver

\* A key written stays so until it is posted, a key in hand until it is
\* invalidated, and a neighbour is told before it is crossed out.
LEMMA HandsKept ==
    ASSUME TypeInv, [Next]_vars, NEW t \in Shard, NEW k \in Key
    PROVE  /\ k \in unsent[t] => k \in unsent'[t] \/ PostWrite(t, k)
           /\ inhand[t] = k => inhand'[t] = k \/ Invalidate(t)
           /\ \A n \in forwarding[t] : inhand[t] = k => n \in forwarding'[t] \/ Forward(t, n)
  <1>. USE DEF TypeInv, Wiring
  <1>1. CASE UNCHANGED <<unsent, inhand, forwarding>>
    BY <1>1
  <1>2. ASSUME NEW s \in Shard, NEW d \in Key, SetState(s, d) \/ PostWrite(s, d)
        PROVE  /\ k \in unsent[t] => k \in unsent'[t] \/ PostWrite(t, k)
               /\ UNCHANGED <<inhand, forwarding>>
    <2>1. CASE SetState(s, d)
      BY <2>1 DEF SetState
    <2>2. CASE PostWrite(s, d)
      <3>1. unsent' = [unsent EXCEPT ![s] = unsent[s] \ {d}] /\ UNCHANGED <<inhand, forwarding>>
        BY <2>2 DEF PostWrite
      <3>2. CASE t = s /\ k = d
        BY <2>2, <3>1, <3>2
      <3>3. CASE ~(t = s /\ k = d)
        BY <3>1, <3>3
      <3>. QED
        BY <3>2, <3>3
    <2>. QED
      BY <1>2, <2>1, <2>2
  <1>3. ASSUME NEW s \in Shard, TakeInvalidation(s)
        PROVE  /\ UNCHANGED unsent
               /\ inhand[t] = k => inhand'[t] = k /\ forwarding'[t] = forwarding[t]
    BY <1>3 DEF TakeInvalidation, Take
  <1>4. ASSUME NEW s \in Shard, Invalidate(s)
        PROVE  /\ UNCHANGED <<unsent, forwarding>>
               /\ inhand[t] = k => inhand'[t] = k \/ Invalidate(t)
    BY <1>4 DEF Invalidate
  <1>5. ASSUME NEW s \in Shard, NEW n \in Shard, Forward(s, n)
        PROVE  /\ UNCHANGED <<unsent, inhand>>
               /\ \A m \in forwarding[t] : m \in forwarding'[t] \/ Forward(t, m)
    BY <1>5 DEF Forward
  <1>. QED
    BY <1>1, <1>2, <1>3, <1>4, <1>5
       DEF Next, vars, ShardInvoke, Start, GetState, End, Deliver, ProcessStart, ProcessEnd

\* An invalidation stays in its queue until its manager takes it in hand; one
\* that its service posted goes to all the others then.
LEMMA QueuedKept ==
    ASSUME TypeInv, [Next]_vars, NEW t \in Shard, NEW k \in Key,
           NEW i \in 1..Len(WQ[t]), IsInv(WQ[t][i], k)
    PROVE  \/ \E n \in 1..Len(WQ'[t]) : WQ'[t][n] = WQ[t][i]
           \/ /\ inhand'[t] = k
              /\ ~WQ[t][i].fromCM => forwarding'[t] = Shard \ {t}
  <1>. DEFINE q == WQ[t]
  <1>1. q \in Seq(Message)
    BY DEF TypeInv
  <1>2. CASE QueueKept(t)
    BY <1>2 DEF QueueKept
  <1>3. CASE QueueGrown(t)
    <2>1. PICK m \in Message : WQ'[t] = Append(q, m)
      BY <1>3 DEF QueueGrown
    <2>2. Len(WQ'[t]) = Len(q) + 1 /\ WQ'[t][i] = q[i] /\ Len(q) \in Nat
      BY <1>1, <2>1, AppendFacts
    <2>. QED
      BY <2>2
  <1>4. CASE QueueTaken(t) /\ i # 1
    <2>1. /\ WQ'[t] = Tail(q) /\ Len(q) \in Nat \ {0} /\ Len(Tail(q)) = Len(q) - 1
          /\ \A n \in 1..Len(Tail(q)) : Tail(q)[n] = q[n + 1]
      BY <1>1, <1>4, TailFacts DEF QueueTaken
    <2>2. i - 1 \in 1..Len(Tail(q)) /\ (i - 1) + 1 = i
      BY <1>4, <2>1
    <2>. QED
      BY <2>1, <2>2
  <1>5. CASE QueueTaken(t) /\ i = 1
    <2>1. Head(q) = q[i]
      BY <1>1, <1>5, TailFacts DEF QueueTaken
    <2>2. TakeInvalidation(t)
      BY <1>5, <2>1 DEF QueueTaken, ProcessStart, ProcessEnd, Take, IsInv
    <2>. QED
      BY <2>1, <2>2 DEF TakeInvalidation, IsInv, TypeInv, Neighbors
  <1>. QED
    BY <1>2, <1>3, <1>4, <1>5, QueueStep

LEMMA OutsideKept ==
    ASSUME TypeInv, [Next]_vars, NEW s \in Shard, NEW k \in Key, Outside(s, k)
    PROVE  \/ Outside(s, k)'
           \/ \E m \in Message : WQ'[s] = Append(WQ[s], m) /\ IsInv(m, k)
  <1>1. ASSUME NEW t \in Shard, k \in unsent[t]
        PROVE  \/ Outside(s, k)'
               \/ \E m \in Message : WQ'[s] = Append(WQ[s], m) /\ IsInv(m, k)
    <2>1. CASE k \in unsent'[t]
      BY <2>1 DEF Outside
    <2>2. CASE PostWrite(t, k)
      <3>1. PICK m \in Message : m = [type |-> "inv", key |-> k, fromCM |-> FALSE]
        BY DEF Message
      <3>2. IsInv(m, k) /\ ~m.fromCM /\ Home(t, m)
        BY <3>1 DEF IsInv, Home
      <3>3. WQ'[t] = Append(WQ[t], m)
        BY <2>2, <3>1, <3>2, PostFacts DEF PostWrite
      <3>4. CASE t # s
        <4>1. WQ[t] \in Seq(Message)
          BY DEF TypeInv
        <4>2. WQ'[t][Len(WQ[t]) + 1] = m /\ Len(WQ[t]) + 1 \in 1..Len(WQ'[t])
          BY <3>3, <4>1, AppendFacts
        <4>. QED
          BY <3>2, <3>4, <4>2 DEF Outside
      <3>. QED
        BY <3>2, <3>3, <3>4
    <2>. QED
      BY <1>1, <2>1, <2>2, HandsKept
  <1>2. ASSUME NEW t \in Shard, inhand[t] = k, s \in forwarding[t]
        PROVE  \/ Outside(s, k)'
               \/ \E m \in Message : WQ'[s] = Append(WQ[s], m) /\ IsInv(m, k)
    <2>1. CASE Forward(t, s)
      <3>1. PICK m \in Message : m = [type |-> "inv", key |-> k, fromCM |-> TRUE]
        BY DEF Message
      <3>2. IsInv(m, k) /\ Home(s, m)
        BY <3>1 DEF IsInv, Home
      <3>. QED
        BY <1>2, <2>1, <3>1, <3>2, PostFacts DEF Forward
    <2>2. CASE ~Forward(t, s)
      <3>1. s \in forwarding'[t] /\ (inhand'[t] = k \/ Invalidate(t))
        BY <1>2, <2>2, HandsKept
      <3>2. ~Invalidate(t)
        BY <1>2 DEF Invalidate
      <3>. QED
        BY <3>1, <3>2 DEF Outside
    <2>. QED
      BY <2>1, <2>2
  <1>3. ASSUME NEW t \in Shard, t # s, NEW i \in 1..Len(WQ[t]),
               IsInv(WQ[t][i], k), ~WQ[t][i].fromCM
        PROVE  Outside(s, k)'
    <2>1. \/ \E n \in 1..Len(WQ'[t]) : WQ'[t][n] = WQ[t][i]
          \/ inhand'[t] = k /\ forwarding'[t] = Shard \ {t}
      BY <1>3, QueuedKept
    <2>. QED
      BY <1>3, <2>1 DEF Outside
  <1>. QED
    BY <1>1, <1>2, <1>3 DEF Outside

\* Everything that is coming to the manager of s, in other words.
LEMMA ComingIs ==
    ASSUME TypeInv, NEW s \in Shard, NEW k \in Key
    PROVE  Coming(s, k) <=> \/ Outside(s, k)
                            \/ inhand[s] = k
                            \/ \E i \in 1..Len(WQ[s]) : IsInv(WQ[s][i], k)
  BY DEF Coming, Outside, IsInv

LEMMA ComingKept ==
    ASSUME TypeInv, TypeInv', [Next]_vars, NEW s \in Shard, NEW k \in Key, Coming(s, k)
    PROVE  Coming(s, k)' \/ (Invalidate(s) /\ inhand[s] = k)
  <1>1. Coming(s, k)' <=> \/ Outside(s, k)'
                          \/ inhand'[s] = k
                          \/ \E i \in 1..Len(WQ'[s]) : IsInv(WQ'[s][i], k)
    BY DEF Coming, Outside, IsInv
  <1>2. CASE Outside(s, k)
    <2>1. ASSUME NEW m \in Message, WQ'[s] = Append(WQ[s], m), IsInv(m, k) PROVE Coming(s, k)'
      <3>1. WQ[s] \in Seq(Message)
        BY DEF TypeInv
      <3>2. Len(WQ[s]) + 1 \in 1..Len(WQ'[s]) /\ WQ'[s][Len(WQ[s]) + 1] = m
        BY <2>1, <3>1, AppendFacts
      <3>. QED
        BY <1>1, <2>1, <3>2
    <2>. QED
      BY <1>1, <1>2, <2>1, OutsideKept
  <1>3. CASE inhand[s] = k
    BY <1>1, <1>3, HandsKept
  <1>4. ASSUME NEW i \in 1..Len(WQ[s]), IsInv(WQ[s][i], k) PROVE Coming(s, k)'
    BY <1>1, <1>4, QueuedKept
  <1>. QED
    BY <1>2, <1>3, <1>4, ComingIs

\* A version is overwritten by a shard that will announce it.
LEMMA WriteIsOutside ==
    ASSUME TypeInv, [Next]_vars, NEW s \in Shard, NEW k \in Key
    PROVE  db'[k] = db[k] \/ Outside(s, k)'
  <1>1. ASSUME NEW t \in Shard, NEW d \in Key, SetState(t, d)
        PROVE  db'[k] = db[k] \/ Outside(s, k)'
    <2>1. db'[k] # db[k] => d = k /\ k \in unsent'[t]
      BY <1>1 DEF SetState, TypeInv
    <2>. QED
      BY <2>1 DEF Outside
  <1>. QED
    BY <1>1 DEF Next, vars, ShardInvoke, Start, GetState, End, PostWrite, Deliver, ProcessStart,
           ProcessEnd, TakeInvalidation, Invalidate, Forward

-----------------------------------------------------------------------------
\* What becomes of the judgements of call c.

LEMMA Lengths ==
    ASSUME TypeInv, NEW s \in Shard
    PROVE  /\ Len(WQ[s]) \in Nat
           /\ QueueTaken(s) => Len(WQ[s]) > 0 /\ Len(WQ'[s]) = Len(WQ[s]) - 1
           /\ QueueGrown(s) => Len(WQ'[s]) = Len(WQ[s]) + 1
           /\ QueueKept(s) => Len(WQ'[s]) = Len(WQ[s])
  <1>1. WQ[s] \in Seq(Message)
    BY DEF TypeInv
  <1>2. QueueTaken(s) => Len(WQ[s]) > 0 /\ Len(WQ'[s]) = Len(WQ[s]) - 1
    BY <1>1, TailFacts DEF QueueTaken
  <1>3. QueueGrown(s) => Len(WQ'[s]) = Len(WQ[s]) + 1
    BY <1>1, AppendFacts DEF QueueGrown
  <1>. QED
    BY <1>1, <1>2, <1>3 DEF QueueKept

\* While nothing is taken from its queue, a manager at most writes what it has
\* in hand in the history.
LEMMA Remembers ==
    ASSUME TypeInv, [Next]_vars, NEW s \in Shard, ~QueueTaken(s), NEW c, NEW k \in Key
    PROVE  /\ StartsOf(history'[s], c) = StartsOf(history[s], c)
           /\ Seen(history[s], inhand[s], c, k) => Seen(history'[s], inhand'[s], c, k)
  <1>1. CASE history'[s] = history[s] /\ inhand'[s] = inhand[s]
    BY <1>1
  <1>2. CASE Invalidate(s)
    <2>1. PICK d \in Key : d = inhand[s]
      BY <1>2 DEF Invalidate, TypeInv
    <2>2. history'[s] = AppendWrite(history[s], d)
      BY <1>2, <2>1 DEF Invalidate, TypeInv
    <2>3. /\ StartsOf(AppendWrite(history[s], d), c) = StartsOf(history[s], c)
          /\ InvalidatedSince(AppendWrite(history[s], d), c) =
                InvalidatedSince(history[s], c) \cup {d}
      <3>1. history[s] \in Seq(HistoryItem)
        BY DEF TypeInv
      <3>2. \A x \in Key :
               /\ StartsOf(AppendWrite(history[s], x), c) = StartsOf(history[s], c)
               /\ InvalidatedSince(AppendWrite(history[s], x), c) =
                     InvalidatedSince(history[s], c) \cup {x}
        BY <3>1, HistoryFacts
      <3>. QED
        BY <3>2
    <2>. QED
      BY <2>1, <2>2, <2>3 DEF Seen
  <1>3. ASSUME NEW t \in Shard, ProcessStart(t) \/ ProcessEnd(t) \/ TakeInvalidation(t)
        PROVE  history'[s] = history[s] /\ inhand'[s] = inhand[s]
    <2>1. t # s
      BY <1>3, TakeFacts DEF ProcessStart, ProcessEnd, TakeInvalidation, QueueTaken
    <2>2. history \in [Shard -> Seq(HistoryItem)]
      BY DEF TypeInv
    <2>3. CASE ProcessStart(t)
      BY <2>1, <2>2, <2>3 DEF ProcessStart
    <2>4. CASE ProcessEnd(t)
      <3>1. PICK rest : history' = [history EXCEPT ![t] = rest]
        BY <2>4 DEF ProcessEnd
      <3>. QED
        BY <2>1, <2>2, <2>4, <3>1 DEF ProcessEnd
    <2>5. CASE TakeInvalidation(t)
      BY <2>1, <2>5 DEF TakeInvalidation, TypeInv, manager
    <2>. QED
      BY <1>3, <2>3, <2>4, <2>5
  <1>4. ASSUME NEW t \in Shard, Invalidate(t)
        PROVE  t = s \/ (history'[s] = history[s] /\ inhand'[s] = inhand[s])
    BY <1>4 DEF Invalidate, TypeInv
  <1>5. ASSUME UNCHANGED <<history, inhand>> PROVE history'[s] = history[s] /\ inhand'[s] = inhand[s]
    BY <1>5
  <1>6. \/ UNCHANGED <<history, inhand>>
        \/ \E t \in Shard : ProcessStart(t) \/ ProcessEnd(t) \/ TakeInvalidation(t)
        \/ \E t \in Shard : Invalidate(t)
    BY DEF Next, vars, manager, ShardInvoke, Start, GetState, End, SetState, PostWrite, Deliver,
           Forward
  <1>. QED
    BY <1>1, <1>2, <1>3, <1>4, <1>5, <1>6

\* A manager that takes the head of its queue takes up what it says of call c
\* and of key k.
LEMMA TakesUp ==
    ASSUME TypeInv, NEW s \in Shard, QueueTaken(s), NEW c \in Call, NEW k \in Key
    PROVE  LET m == Head(WQ[s])
               h == history[s]
               f == history'[s]
           IN  /\ ~IsEnd(m, c) /\ StartsOf(h, c) # {} =>
                     /\ StartsOf(f, c) # {}
                     /\ ~IsStart(m, c) /\ Seen(h, inhand[s], c, k) => Seen(f, inhand'[s], c, k)
               /\ IsStart(m, c) => StartsOf(f, c) # {}
               /\ IsInv(m, k) => Seen(f, inhand'[s], c, k)
  <1>. DEFINE m == Head(WQ[s])
              h == history[s]
              f == history'[s]
  <1>1. h \in Seq(HistoryItem) /\ history \in [Shard -> Seq(HistoryItem)]
    BY DEF TypeInv
  <1>2. CASE ProcessStart(s)
    <2>1. m \in Message /\ m.type = "start" /\ m.call \in Call
      BY <1>2, TakeFacts, MessageFacts DEF ProcessStart
    <2>2. f = AppendCall(h, m.call) /\ inhand' = inhand
      BY <1>1, <1>2 DEF ProcessStart
    <2>3. ~IsInv(m, k) /\ (IsStart(m, c) <=> m.call = c)
      BY <2>1 DEF IsInv, IsStart
    <2>. HIDE DEF m, h, f
    <2>4. /\ m.call = c => StartsOf(f, c) # {}
          /\ m.call # c =>
                StartsOf(f, c) = StartsOf(h, c) /\ InvalidatedSince(f, c) = InvalidatedSince(h, c)
      BY <1>1, <2>1, <2>2, HistoryFacts
    <2>. QED
      BY <2>2, <2>3, <2>4 DEF Seen, m, h, f
  <1>3. CASE ProcessEnd(s)
    <2>1. m \in Message /\ m.type = "end"
      BY <1>3, TakeFacts DEF ProcessEnd
    <2>2. PICK g \in Forgotten(h, m.call) : history' = [history EXCEPT ![s] = g]
      BY <1>3 DEF ProcessEnd
    <2>3. f = g /\ inhand' = inhand
      BY <1>1, <1>3, <2>2 DEF ProcessEnd
    <2>4. ~IsInv(m, k) /\ ~IsStart(m, c) /\ (~IsEnd(m, c) => m.call # c)
      BY <2>1 DEF IsInv, IsStart, IsEnd
    <2>. HIDE DEF m, h, f
    <2>5. c # m.call /\ StartsOf(h, c) # {} =>
             StartsOf(f, c) # {} /\ InvalidatedSince(f, c) = InvalidatedSince(h, c)
      BY <1>1, <2>2, <2>3, HistoryFacts
    <2>. QED
      BY <2>3, <2>4, <2>5 DEF Seen, m, h, f
  <1>4. CASE TakeInvalidation(s)
    <2>1. m \in Message /\ m.type = "inv" /\ m.key \in Key /\ inhand[s] = None
      BY <1>4, TakeFacts, MessageFacts DEF TakeInvalidation
    <2>2. history' = history /\ inhand'[s] = m.key
      BY <1>4 DEF TakeInvalidation, TypeInv, manager
    <2>3. ~IsStart(m, c) /\ (IsInv(m, k) => m.key = k) /\ inhand[s] # k
      BY <2>1 DEF IsStart, IsInv, TypeInv, Wiring
    <2>. QED
      BY <2>2, <2>3 DEF Seen
  <1>. QED
    BY <1>2, <1>3, <1>4 DEF QueueTaken

LEMMA JudgementGrows ==
    ASSUME TypeInv, TypeInv', [Next]_vars, NEW c \in Call, NEW s \in Shard, s = HashShard[c],
           QueueKept(s) \/ QueueGrown(s),
           NEW j \in 1..(Len(WQ[s]) + 1), NEW n \in j..(Len(WQ'[s]) + 1),
           \A i \in 1..Len(WQ'[s]) :
              j <= i /\ i < n => ~IsStart(WQ'[s][i], c) /\ ~IsEnd(WQ'[s][i], c)
    PROVE  /\ Kept(j, c) => Kept(n, c)'
           /\ \A v : Judged(j, c, v) => Judged(n, c, v)'
  <1>1. PICK k \in Key : k = KeyOf[c]
    BY DEF TypeInv, Wiring
  <1>2. PICK q \in Seq(Message), g \in Seq(Message) : q = WQ[s] /\ g = WQ'[s]
    BY DEF TypeInv
  <1>3. ~QueueTaken(s)
    BY Lengths
  <1>4. Len(q) <= Len(g) /\ \A i \in 1..Len(q) : g[i] = q[i]
    <2>1. CASE QueueGrown(s)
      <3>1. PICK m \in Message : g = Append(q, m)
        BY <1>2, <2>1 DEF QueueGrown
      <3>. QED
        BY <3>1, AppendFacts
    <2>. QED
      BY <1>2, <2>1 DEF QueueKept
  <1>5. /\ \A h : StartKept(h, q, j, c) => StartKept(h, g, n, c)
        /\ \A h, hand : Noticed(h, hand, q, j, c, k) => Noticed(h, hand, g, n, c, k)
    BY ZenonT(40), <1>2, <1>4, KeptExtend
  <1>6. /\ StartsOf(history'[s], c) = StartsOf(history[s], c)
        /\ Seen(history[s], inhand[s], c, k) => Seen(history'[s], inhand'[s], c, k)
    BY <1>3, Remembers
  <1>7. Kept(j, c) => Kept(n, c)'
    BY <1>2, <1>5, <1>6 DEF Kept, StartKept
  <1>8. Noticed(history[s], inhand[s], q, j, c, k) =>
           Noticed(history'[s], inhand'[s], g, n, c, k)
    BY <1>5, <1>6 DEF Noticed
  <1>9. ASSUME Outside(s, k)
        PROVE  Outside(s, k)' \/ Noticed(history'[s], inhand'[s], g, n, c, k)
    <2>1. ASSUME NEW m \in Message, g = Append(q, m), IsInv(m, k)
          PROVE  Noticed(history'[s], inhand'[s], g, n, c, k)
      <3>1. Len(g) > 0 /\ g[Len(g)] = m
        BY <2>1, AppendFacts
      <3>. QED
        BY <2>1, <3>1, NoticedLast
    <2>. QED
      BY <1>2, <1>9, <2>1, OutsideKept
  <1>10. ASSUME NEW v, Judged(j, c, v) PROVE Judged(n, c, v)'
    <2>1. v = db[k] \/ Outside(s, k) \/ Noticed(history[s], inhand[s], q, j, c, k)
      BY <1>1, <1>2, <1>10 DEF Judged
    <2>2. v = db'[k] \/ Outside(s, k)' \/ Noticed(history'[s], inhand'[s], g, n, c, k)
      BY <1>8, <1>9, <2>1, WriteIsOutside
    <2>. QED
      BY <1>1, <1>2, <2>2 DEF Judged
  <1>. QED
    BY <1>7, <1>10

LEMMA JudgementTaken ==
    ASSUME TypeInv, TypeInv', [Next]_vars, NEW c \in Call, NEW s \in Shard, s = HashShard[c],
           QueueTaken(s), NEW j \in 2..(Len(WQ[s]) + 1), NEW n \in 1..Len(WQ[s]), n = j - 1,
           Kept(j, c)
    PROVE  /\ Kept(n, c)'
           /\ \A v : Judged(j, c, v) => Judged(n, c, v)'
  <1>1. PICK k \in Key : k = KeyOf[c]
    BY DEF TypeInv, Wiring
  <1>2. PICK q \in Seq(Message) : q = WQ[s]
    BY DEF TypeInv
  <1>3. PICK h, f, hand, held :
           h = history[s] /\ f = history'[s] /\ hand = inhand[s] /\ held = inhand'[s]
    OBVIOUS
  <1>4. q # <<>> /\ WQ'[s] = Tail(q)
    BY <1>2 DEF QueueTaken
  <1>5. /\ ~IsEnd(Head(q), c) /\ StartsOf(h, c) # {} =>
              /\ StartsOf(f, c) # {}
              /\ ~IsStart(Head(q), c) /\ Seen(h, hand, c, k) => Seen(f, held, c, k)
        /\ IsStart(Head(q), c) => StartsOf(f, c) # {}
        /\ IsInv(Head(q), k) => Seen(f, held, c, k)
    BY <1>2, <1>3, TakesUp
  <1>6. StartKept(h, q, j, c)
    BY <1>2, <1>3 DEF Kept
  <1>7. /\ StartKept(f, Tail(q), j - 1, c)
        /\ Noticed(h, hand, q, j, c, k) => Noticed(f, held, Tail(q), j - 1, c, k)
    BY <1>2, <1>4, <1>5, <1>6, JudgementTail
  <1>8. Kept(n, c)'
    BY <1>3, <1>4, <1>7 DEF Kept
  <1>9. Outside(s, k) => Outside(s, k)'
    <2>1. ~QueueGrown(s)
      BY Lengths
    <2>. QED
      BY <2>1, OutsideKept DEF QueueGrown
  <1>10. ASSUME NEW v, Judged(j, c, v) PROVE Judged(n, c, v)'
    <2>1. v = db[k] \/ Outside(s, k) \/ Noticed(h, hand, q, j, c, k)
      BY <1>1, <1>2, <1>3, <1>10 DEF Judged
    <2>2. v = db'[k] \/ Outside(s, k)' \/ Noticed(f, held, Tail(q), n, c, k)
      BY <1>7, <1>9, <2>1, WriteIsOutside
    <2>. QED
      BY <1>1, <1>3, <1>4, <2>2 DEF Judged
  <1>. QED
    BY <1>8, <1>10

\* The queue of a call's manager grows by a start or an end of the call in its
\* own actions only.
LEMMA GrownBy ==
    ASSUME TypeInv, [Next]_vars, NEW c \in Call, NEW s \in Shard, s = HashShard[c],
           NEW m \in Message, WQ'[s] = Append(WQ[s], m)
    PROVE  /\ IsStart(m, c) => Start(c)
           /\ IsEnd(m, c) => End(c) /\ m.val = run[c].got
  <1>. DEFINE Own(x) == /\ IsStart(x, c) => Start(c)
                        /\ IsEnd(x, c) => End(c) /\ x.val = run[c].got
  <1>1. WQ[s] \in Seq(Message)
    BY DEF TypeInv
  <1>2. WQ'[s] # WQ[s] /\ QueueGrown(s) /\ ~QueueTaken(s)
    <2>1. QueueGrown(s)
      BY DEF QueueGrown
    <2>. QED
      BY <2>1, Lengths
  <1>3. ASSUME NEW t \in Shard, NEW x, WQ' = [WQ EXCEPT ![t] = Append(WQ[t], x)] PROVE x = m
    <2>1. t = s
      BY <1>2, <1>3 DEF TypeInv
    <2>2. Append(WQ[s], x) = Append(WQ[s], m)
      BY <1>3, <2>1 DEF TypeInv
    <2>. QED
      BY <1>1, <2>2, AppendProperties
  <1>4. ASSUME NEW d \in Call, Start(d) PROVE Own(m)
    <2>1. m = [type |-> "start", call |-> d]
      BY <1>3, <1>4 DEF Start, Post, TypeInv, Wiring
    <2>. QED
      BY <1>4, <2>1 DEF IsStart, IsEnd
  <1>5. ASSUME NEW d \in Call, End(d) PROVE Own(m)
    <2>1. m = [type |-> "end", call |-> d, caller |-> run[d].caller, val |-> run[d].got]
      BY <1>3, <1>5 DEF End, Post, TypeInv, Wiring
    <2>. QED
      BY <1>5, <2>1 DEF IsStart, IsEnd
  <1>6. ASSUME NEW t \in Shard, NEW k \in Key, PostWrite(t, k) PROVE Own(m)
    <2>1. m = [type |-> "inv", key |-> k, fromCM |-> FALSE]
      BY <1>3, <1>6 DEF PostWrite, Post
    <2>. QED
      BY <2>1 DEF IsStart, IsEnd
  <1>7. ASSUME NEW t \in Shard, NEW n \in Shard, Forward(t, n) PROVE Own(m)
    <2>1. m = [type |-> "inv", key |-> inhand[t], fromCM |-> TRUE]
      BY <1>3, <1>7 DEF Forward, Post
    <2>. QED
      BY <2>1 DEF IsStart, IsEnd
  <1>8. ASSUME NEW t \in Shard PROVE ~ProcessStart(t) /\ ~ProcessEnd(t) /\ ~TakeInvalidation(t)
    <2>1. ASSUME ProcessStart(t) \/ ProcessEnd(t) \/ TakeInvalidation(t) PROVE FALSE
      <3>1. \/ QueueTaken(t)
            \/ FALSE
        BY <2>1, TakeFacts DEF ProcessStart, ProcessEnd, TakeInvalidation, QueueTaken
      <3>2. t = s \/ WQ'[s] = WQ[s]
        BY <2>1, TakeFacts DEF ProcessStart, ProcessEnd, TakeInvalidation
      <3>. QED
        BY <1>2, <3>1, <3>2
    <2>. QED
      BY <2>1
  <1>. QED
    BY <1>2, <1>4, <1>5, <1>6, <1>7, <1>8
       DEF Next, vars, ShardInvoke, GetState, SetState, Invalidate, Deliver

\* What a step makes of the run of a call.
LEMMA RunStep ==
    ASSUME TypeInv, [Next]_vars, NEW c \in Call
    PROVE  \/ run'[c] = run[c] /\ ~Start(c) /\ ~End(c)
           \/ run'[c].phase \in {"asked", "idle"}
           \/ run[c].phase = "asked" /\ Start(c) /\ run'[c].phase = "on"
           \/ GetState(c) /\ run[c].phase = "on" /\ run'[c].got = db'[KeyOf[c]]
  <1>1. run \in [Call -> Run]
    BY DEF TypeInv
  <1>2. CASE UNCHANGED run
    <2>1. ~Start(c)
      BY <1>1, <1>2 DEF Start, Run
    <2>2. ~End(c)
      BY <1>1, <1>2 DEF End, Run, Idle
    <2>. QED
      BY <1>2, <2>1, <2>2
  <1>3. ASSUME NEW a \in Caller, NEW d \in Call, ShardInvoke(a, d)
        PROVE  \/ run'[c] = run[c] /\ ~Start(c) /\ ~End(c)
               \/ run'[c].phase = "asked"
    <2>1. CASE d = c
      BY <1>1, <1>3, <2>1 DEF ShardInvoke
    <2>2. CASE d # c
      <3>1. run'[c] = run[c]
        BY <1>1, <1>3, <2>2 DEF ShardInvoke
      <3>2. ~Start(c)
        BY <1>1, <3>1 DEF Start, Run
      <3>3. ~End(c)
        BY <1>1, <3>1 DEF End, Run, Idle
      <3>. QED
        BY <3>1, <3>2, <3>3
    <2>. QED
      BY <2>1, <2>2
  <1>4. ASSUME NEW d \in Call, Start(d) \/ GetState(d) \/ End(d), d # c
        PROVE  run'[c] = run[c] /\ ~Start(c) /\ ~End(c)
    <2>1. run'[c] = run[c]
      BY <1>1, <1>4 DEF Start, GetState, End
    <2>2. ~Start(c)
      BY <1>1, <2>1 DEF Start, Run
    <2>3. ~End(c)
      BY <1>1, <2>1 DEF End, Run, Idle
    <2>. QED
      BY <2>1, <2>2, <2>3
  <1>5. CASE Start(c)
    BY <1>1, <1>5 DEF Start, Run
  <1>6. CASE GetState(c)
    BY <1>1, <1>6 DEF GetState, Run
  <1>7. CASE End(c)
    BY <1>1, <1>7 DEF End, Idle
  <1>. QED
    BY <1>2, <1>3, <1>4, <1>5, <1>6, <1>7
       DEF Next, vars, SetState, PostWrite, Deliver, ProcessStart, ProcessEnd, TakeInvalidation,
           Invalidate, Forward

\* The place after the last of a queue, in any step but a start of the call or
\* an end.
LEMMA LastPlace ==
    ASSUME TypeInv, TypeInv', [Next]_vars, NEW c \in Call, NEW s \in Shard, s = HashShard[c],
           ~Start(c), ~End(c),
           NEW j \in Nat, j = Len(WQ[s]) + 1, NEW n \in Nat, n = Len(WQ'[s]) + 1, Kept(j, c)
    PROVE  /\ Kept(n, c)'
           /\ \A v : Judged(j, c, v) => Judged(n, c, v)'
  <1>1. Len(WQ[s]) \in Nat
    BY Lengths
  <1>2. CASE QueueKept(s)
    <2>1. n = j /\ n \in j..(Len(WQ'[s]) + 1) /\ j \in 1..(Len(WQ[s]) + 1)
      BY <1>1, <1>2, Lengths
    <2>2. \A i \in 1..Len(WQ'[s]) : ~(j <= i /\ i < n)
      BY <1>1, <1>2, <2>1, Lengths
    <2>. QED
      BY <1>2, <2>1, <2>2, JudgementGrows
  <1>3. CASE QueueGrown(s)
    <2>1. PICK m \in Message : WQ'[s] = Append(WQ[s], m)
      BY <1>3 DEF QueueGrown
    <2>2. n = j + 1 /\ n \in j..(Len(WQ'[s]) + 1) /\ j \in 1..(Len(WQ[s]) + 1)
      BY <1>1, <1>3, Lengths
    <2>3. WQ'[s][j] = m
      <3>1. WQ[s] \in Seq(Message)
        BY DEF TypeInv
      <3>. QED
        BY <2>1, <3>1, AppendFacts
    <2>4. ~IsStart(m, c) /\ ~IsEnd(m, c)
      BY <2>1, GrownBy
    <2>5. ASSUME NEW i \in 1..Len(WQ'[s]), j <= i, i < n
          PROVE  ~IsStart(WQ'[s][i], c) /\ ~IsEnd(WQ'[s][i], c)
      <3>1. i = j
        BY <2>2, <2>5
      <3>. QED
        BY <2>3, <2>4, <3>1
    <2>. QED
      BY <1>3, <2>2, <2>5, JudgementGrows
  <1>4. CASE QueueTaken(s)
    <2>1. j \in 2..(Len(WQ[s]) + 1) /\ n \in 1..Len(WQ[s]) /\ n = j - 1
      BY <1>1, <1>4, Lengths
    <2>. QED
      BY <1>4, <2>1, JudgementTaken
  <1>. QED
    BY <1>2, <1>3, <1>4, QueueStep

LEMMA RunsJudged ==
    ASSUME TypeInv, TypeInv', [Next]_vars, NEW c \in Call, RunJudged(c)
    PROVE  RunJudged(c)'
  <1>1. PICK s \in Shard : s = HashShard[c]
    BY DEF TypeInv, Wiring
  <1>2. PICK j \in Nat, n \in Nat : j = Len(WQ[s]) + 1 /\ n = Len(WQ'[s]) + 1
    <2>1. Len(WQ[s]) \in Nat /\ Len(WQ'[s]) \in Nat
      BY DEF TypeInv
    <2>. QED
      BY <2>1
  <1>3. PICK v, w : v = run[c].got /\ w = run'[c].got
    OBVIOUS
  <1>4. /\ run[c].phase \in {"on", "read"} => Kept(j, c)
        /\ run[c].phase = "read" => Judged(j, c, v)
    BY <1>1, <1>2, <1>3 DEF RunJudged, Kept, Judged
  <1>5. ASSUME run'[c].phase \in {"on", "read"} => Kept(n, c)',
               run'[c].phase = "read" => Judged(n, c, w)'
        PROVE  RunJudged(c)'
    BY <1>1, <1>2, <1>3, <1>5 DEF RunJudged, Kept, Judged
  <1>6. CASE run'[c] = run[c] /\ ~Start(c) /\ ~End(c)
    BY <1>1, <1>2, <1>3, <1>4, <1>5, <1>6, LastPlace
  <1>7. CASE run'[c].phase \in {"asked", "idle"}
    BY <1>5, <1>7
  <1>8. CASE run[c].phase = "asked" /\ Start(c) /\ run'[c].phase = "on"
    <2>1. PICK m \in Message : m = [type |-> "start", call |-> c]
      BY DEF Message
    <2>2. PICK q \in Seq(Message), g \in Seq(Message) : q = WQ[s] /\ g = WQ'[s]
      BY DEF TypeInv
    <2>3. g = Append(q, m)
      BY <1>1, <1>8, <2>1, <2>2 DEF Start, Post, TypeInv
    <2>4. Len(q) \in Nat /\ Len(g) = Len(q) + 1 /\ g[Len(q) + 1] = m /\ n = Len(q) + 2
      BY <1>2, <2>2, <2>3, AppendFacts
    <2>5. Len(q) + 1 \in StartsBefore(g, n, c)
      BY <2>1, <2>4 DEF StartsBefore, IsStart
    <2>6. ASSUME NEW i \in EndsBefore(g, n, c) PROVE i < Len(q) + 1
      <3>1. i # Len(q) + 1
        BY <2>1, <2>4 DEF EndsBefore, IsEnd
      <3>. QED
        BY <2>4, <3>1 DEF EndsBefore
    <2>7. \A h : StartKept(h, g, n, c)
      BY <2>5, <2>6 DEF StartKept
    <2>8. Kept(n, c)'
      BY <1>1, <2>2, <2>7 DEF Kept
    <2>. QED
      BY <1>5, <1>8, <2>8
  <1>9. CASE GetState(c) /\ run[c].phase = "on" /\ run'[c].got = db'[KeyOf[c]]
    <2>1. ~Start(c) /\ ~End(c)
      BY <1>9 DEF Start, End
    <2>2. Kept(n, c)'
      BY <1>1, <1>2, <1>4, <1>9, <2>1, LastPlace
    <2>3. Judged(n, c, w)'
      BY <1>3, <1>9 DEF Judged
    <2>. QED
      BY <1>5, <2>2, <2>3
  <1>. QED
    BY <1>6, <1>7, <1>8, <1>9, RunStep

\* Ends wait in the queue of their manager: an end there was there before, or
\* is that of the run which ends.
LEMMA EndsStay ==
    ASSUME TypeInv, TypeInv', [Next]_vars, NEW c \in Call, RunJudged(c), EndsJudged(c)
    PROVE  EndsJudged(c)'
  <1>1. PICK s \in Shard : s = HashShard[c]
    BY DEF TypeInv, Wiring
  <1>2. PICK q \in Seq(Message), g \in Seq(Message) : q = WQ[s] /\ g = WQ'[s]
    BY DEF TypeInv
  <1>3. Len(q) \in Nat /\ Len(g) \in Nat
    BY <1>2
  <1>4. \A j \in 1..Len(q) : IsEnd(q[j], c) => Kept(j, c) /\ \A v : v = q[j].val => Judged(j, c, v)
    BY <1>1, <1>2 DEF EndsJudged, Judged
  <1>5. ASSUME \A n \in 1..Len(g) :
                  IsEnd(g[n], c) => Kept(n, c)' /\ \A v : v = g[n].val => Judged(n, c, v)'
        PROVE  EndsJudged(c)'
    BY <1>1, <1>2, <1>5 DEF EndsJudged, Kept, Judged
  <1>6. SUFFICES ASSUME NEW n \in 1..Len(g), IsEnd(g[n], c), NEW v, v = g[n].val
                 PROVE  Kept(n, c)' /\ Judged(n, c, v)'
    BY <1>5
  <1>7. ASSUME QueueKept(s) \/ QueueGrown(s), n \in 1..(Len(q) + 1), Len(q) <= Len(g),
               Kept(n, c), Judged(n, c, v)
        PROVE  Kept(n, c)' /\ Judged(n, c, v)'
    <2>1. n \in n..(Len(g) + 1) /\ \A i \in 1..Len(g) : ~(n <= i /\ i < n)
      BY <1>3
    <2>. QED
      BY <1>1, <1>2, <1>7, <2>1, JudgementGrows
  <1>8. CASE QueueKept(s)
    <2>1. g = q
      BY <1>2, <1>8 DEF QueueKept
    <2>2. Kept(n, c) /\ Judged(n, c, v) /\ n \in 1..(Len(q) + 1) /\ Len(q) <= Len(g)
      BY <1>3, <1>4, <1>6, <2>1
    <2>. QED
      BY <1>7, <1>8, <2>2
  <1>9. CASE QueueGrown(s)
    <2>1. PICK m \in Message : g = Append(q, m)
      BY <1>2, <1>9 DEF QueueGrown
    <2>2. Len(g) = Len(q) + 1 /\ g[Len(q) + 1] = m /\ \A i \in 1..Len(q) : g[i] = q[i]
      BY <2>1, AppendFacts
    <2>3. CASE n \in 1..Len(q)
      <3>1. Kept(n, c) /\ Judged(n, c, v) /\ n \in 1..(Len(q) + 1) /\ Len(q) <= Len(g)
        BY <1>3, <1>4, <1>6, <2>2, <2>3
      <3>. QED
        BY <1>7, <1>9, <3>1
    <2>4. CASE n = Len(q) + 1
      <3>1. IsEnd(m, c) /\ v = m.val
        BY <1>6, <2>2, <2>4
      <3>2. End(c) /\ m.val = run[c].got
        BY <1>1, <1>2, <2>1, <3>1, GrownBy
      <3>3. run[c].phase = "read" /\ v = run[c].got
        BY <3>1, <3>2 DEF End
      <3>4. Kept(n, c) /\ Judged(n, c, v)
        BY <1>1, <1>2, <2>4, <3>3 DEF RunJudged, Kept, Judged
      <3>5. n \in 1..(Len(q) + 1) /\ Len(q) <= Len(g)
        BY <1>3, <2>2, <2>4
      <3>. QED
        BY <1>7, <1>9, <3>4, <3>5
    <2>. QED
      BY <1>3, <2>2, <2>3, <2>4
  <1>10. CASE QueueTaken(s)
    <2>1. g = Tail(q) /\ q # <<>>
      BY <1>2, <1>10 DEF QueueTaken
    <2>2. Len(g) = Len(q) - 1 /\ \A i \in 1..Len(g) : g[i] = q[i + 1]
      BY <2>1, TailFacts
    <2>3. PICK j \in Nat : j = n + 1
      OBVIOUS
    <2>4. /\ j \in 2..(Len(q) + 1) /\ j \in 1..Len(q) /\ n \in 1..Len(q) /\ n = j - 1
          /\ g[n] = q[j]
      BY <1>3, <2>2, <2>3
    <2>5. Kept(j, c) /\ Judged(j, c, v)
      BY <1>4, <1>6, <2>4
    <2>. QED
      BY <1>1, <1>2, <1>10, <2>4, <2>5, JudgementTaken
  <1>. QED
    BY <1>8, <1>9, <1>10, QueueStep

LEMMA JudgedNext ==
    ASSUME TypeInv, TypeInv', [Next]_vars, AllJudged
    PROVE  AllJudged'
  <1>1. \A c \in Call : RunJudged(c)'
    BY RunsJudged DEF AllJudged
  <1>2. \A c \in Call : EndsJudged(c)'
    BY EndsStay DEF AllJudged
  <1>. QED
    BY <1>1, <1>2 DEF AllJudged

-----------------------------------------------------------------------------
\* What becomes of the lines of the cache.

\* A step adds m to what is on its way to caller a.
TellsOf(a, m) == upstream'[a] = Append(upstream[a], m)

\* The manager of shard t tells caller a of the run of call c: it accepted it,
\* and indexes it under the key it read.
Accepts(t, a, c, v) ==
    /\ ProcessEnd(t)
    /\ IsEnd(Head(WQ[t]), c) /\ Head(WQ[t]).caller = a /\ Head(WQ[t]).val = v
    /\ KeyOf[c] \notin InvalidatedSince(history[t], c)
    /\ <<a, c>> \in deps'[t][KeyOf[c]]

LEMMA EntryKept ==
    ASSUME TypeInv, [Next]_vars, NEW s \in Shard, NEW k \in Key, NEW e \in deps[s][k]
    PROVE  e \in deps'[s][k] \/ (Invalidate(s) /\ inhand[s] = k)
  <1>1. deps \in [Shard -> [Dep -> SUBSET Entry]] /\ k \in Dep
    BY DEF TypeInv, Dep
  <1>2. ASSUME NEW t \in Shard, ProcessEnd(t) PROVE e \in deps'[s][k]
    <2>1. PICK entry, used :
             \/ deps' = deps
             \/ deps' = [deps EXCEPT ![t] = StoreDeps(deps[t], entry, used)]
      BY <1>2 DEF ProcessEnd
    <2>2. CASE t = s /\ deps' = [deps EXCEPT ![t] = StoreDeps(deps[t], entry, used)]
      <3>1. deps'[s] = StoreDeps(deps[s], entry, used)
        BY <1>1, <2>2
      <3>. QED
        BY <1>1, <3>1 DEF StoreDeps
    <2>. QED
      BY <1>1, <2>1, <2>2
  <1>3. ASSUME NEW t \in Shard, Invalidate(t)
        PROVE  e \in deps'[s][k] \/ (Invalidate(s) /\ inhand[s] = k)
    <2>1. PICK d : d = inhand[t]
      OBVIOUS
    <2>2. deps' = [deps EXCEPT ![t] = PopDeps(deps[t], {d})]
      BY <1>3, <2>1 DEF Invalidate
    <2>3. CASE t # s
      BY <1>1, <2>2, <2>3
    <2>4. CASE t = s /\ d # k
      <3>1. deps'[s] = PopDeps(deps[s], {d})
        BY <1>1, <2>2, <2>4
      <3>. QED
        BY <1>1, <2>4, <3>1 DEF PopDeps
    <2>. QED
      BY <1>3, <2>1, <2>3, <2>4
  <1>. QED
    BY <1>2, <1>3 DEF Next, vars, manager, ShardInvoke, Start, GetState, End, SetState, PostWrite,
                      Deliver, ProcessStart, TakeInvalidation, Forward

\* An invalidation tells every caller that has a line indexed under the key.
LEMMA Drops ==
    ASSUME TypeInv, NEW s \in Shard, Invalidate(s), NEW a \in Caller, NEW c \in Call,
           <<a, c>> \in deps[s][inhand[s]]
    PROVE  \E m \in Word : TellsOf(a, m) /\ ~m.save /\ About(m, c)
  <1>1. PICK k \in Key : k = inhand[s]
    BY DEF Invalidate, TypeInv
  <1>2. PICK dropped : dropped = Popped(deps[s], {k})
    OBVIOUS
  <1>3. upstream' = [b \in Caller |->
           IF CallsOf(dropped, b) = {} THEN upstream[b]
           ELSE Append(upstream[b], [save |-> FALSE, calls |-> CallsOf(dropped, b)])]
    BY <1>1, <1>2 DEF Invalidate, CallsOf
  <1>4. dropped \subseteq Entry /\ <<a, c>> \in dropped
    BY <1>1, <1>2 DEF Popped, TypeInv, Dep
  <1>5. PICK calls : calls = CallsOf(dropped, a)
    OBVIOUS
  <1>6. c \in calls /\ calls \subseteq Call
    BY <1>4, <1>5 DEF CallsOf, Entry
  <1>7. PICK m \in Word : m = [save |-> FALSE, calls |-> calls]
    BY <1>6 DEF Word
  <1>8. upstream'[a] = Append(upstream[a], m)
    BY <1>3, <1>5, <1>6, <1>7
  <1>. QED
    BY <1>6, <1>7, <1>8 DEF TellsOf, About

\* What is right stays right until its line is dropped.
LEMMA RightKept ==
    ASSUME TypeInv, TypeInv', [Next]_vars, NEW a \in Caller, NEW c \in Call, NEW v, Right(v, a, c)
    PROVE  Right(v, a, c)' \/ \E m \in Word : TellsOf(a, m) /\ ~m.save /\ About(m, c)
  <1>1. PICK s \in Shard, k \in Key : s = HashShard[c] /\ k = KeyOf[c]
    BY DEF TypeInv, Wiring
  <1>2. <<a, c>> \in deps[s][k] /\ (v = db[k] \/ Coming(s, k))
    BY <1>1 DEF Right
  <1>3. CASE Invalidate(s) /\ inhand[s] = k
    BY <1>2, <1>3, Drops
  <1>4. CASE ~(Invalidate(s) /\ inhand[s] = k)
    <2>1. <<a, c>> \in deps'[s][k]
      BY <1>2, <1>4, EntryKept
    <2>2. Coming(s, k) => Coming(s, k)'
      BY <1>4, ComingKept
    <2>3. db'[k] = db[k] \/ Coming(s, k)'
      <3>1. Outside(s, k)' => Coming(s, k)'
        BY DEF Outside, Coming, IsInv
      <3>. QED
        BY <3>1, WriteIsOutside
    <2>. QED
      BY <1>1, <1>2, <2>1, <2>2, <2>3 DEF Right
  <1>. QED
    BY <1>3, <1>4

\* An accepted run is right: what it did not see is coming.
LEMMA AcceptedRight ==
    ASSUME TypeInv, TypeInv', [Next]_vars, AllJudged,
           NEW t \in Shard, NEW a \in Caller, NEW c \in Call, NEW v, Accepts(t, a, c, v)
    PROVE  Right(v, a, c)'
  <1>1. PICK k \in Key : k = KeyOf[c]
    BY DEF TypeInv, Wiring
  <1>2. PICK q \in Seq(Message) : q = WQ[t]
    BY DEF TypeInv
  <1>3. /\ q # <<>> /\ Home(t, Head(q)) /\ inhand[t] = None
    BY <1>2, TakeFacts DEF Accepts, ProcessEnd
  <1>4. q[1] = Head(q) /\ 1 \in 1..Len(q)
    BY <1>3, TailFacts
  <1>5. HashShard[c] = t /\ IsEnd(q[1], c) /\ q[1].val = v
    BY <1>2, <1>3, <1>4 DEF Accepts, Home, IsEnd
  <1>6. Judged(1, c, v)
    BY <1>2, <1>4, <1>5 DEF AllJudged, EndsJudged
  <1>7. ~Seen(history[t], inhand[t], c, k)
    BY <1>1, <1>3 DEF Seen, Accepts, TypeInv, Wiring
  <1>8. v = db[k] \/ Coming(t, k)
    <2>1. v = db[k] \/ Outside(t, k) \/ \E i \in 1..Len(q) : IsInv(q[i], k)
      BY <1>1, <1>2, <1>5, <1>6, <1>7 DEF Judged, Noticed
    <2>. QED
      BY <1>2, <2>1, ComingIs
  <1>9. db' = db /\ ~(Invalidate(t) /\ inhand[t] = k)
    BY <1>3 DEF Accepts, ProcessEnd, TypeInv, Wiring
  <1>10. v = db'[k] \/ Coming(t, k)'
    BY <1>8, <1>9, ComingKept
  <1>. QED
    BY <1>1, <1>5, <1>10 DEF Right, Accepts

\* What a step does to the queue of one caller.
LEMMA UpstreamStep ==
    ASSUME TypeInv, [Next]_vars, NEW a \in Caller
    PROVE  \/ upstream'[a] = upstream[a] /\ ~Deliver(a)
           \/ Deliver(a)
           \/ \E m \in Word : /\ TellsOf(a, m)
                              /\ m.save => \E t \in Shard : Accepts(t, a, m.call, m.val)
  <1>1. ASSUME NEW b \in Caller, Deliver(b) PROVE upstream'[a] = upstream[a] \/ Deliver(a)
    BY <1>1 DEF Deliver, TypeInv
  <1>2. ASSUME NEW t \in Shard, ProcessEnd(t)
        PROVE  \/ upstream'[a] = upstream[a]
               \/ \E m \in Word : TellsOf(a, m) /\ (m.save => Accepts(t, a, m.call, m.val))
    <2>1. PICK m \in Message : m = Head(WQ[t])
      BY <1>2, TakeFacts DEF ProcessEnd
    <2>2. m.type = "end" /\ m.call \in Call /\ m.caller \in Caller /\ m.val \in Nat
      BY <1>2, <2>1, TakeFacts, MessageFacts DEF ProcessEnd
    <2>3. PICK k \in Key : k = KeyOf[m.call]
      BY <2>2 DEF TypeInv, Wiring
    <2>4. CASE /\ ValidCall(history[t], m.call, {k})
               /\ Tell(m.caller, [save |-> TRUE, call |-> m.call, val |-> m.val])
               /\ deps' = [deps EXCEPT ![t] = StoreDeps(deps[t], <<m.caller, m.call>>, {k})]
               /\ m.caller = a
      <3>1. PICK w \in Word : w = [save |-> TRUE, call |-> m.call, val |-> m.val]
        BY <2>2 DEF Word
      <3>2. TellsOf(a, w)
        BY <2>4, <3>1, TellFacts DEF TellsOf
      <3>3. deps'[t] = StoreDeps(deps[t], <<a, m.call>>, {k})
        BY <2>4 DEF TypeInv
      <3>4. <<a, m.call>> \in deps'[t][k]
        BY <3>3 DEF StoreDeps, Dep
      <3>5. k \notin InvalidatedSince(history[t], m.call)
        BY <2>4 DEF ValidCall
      <3>6. Accepts(t, a, w.call, w.val)
        BY <1>2, <2>1, <2>2, <2>3, <2>4, <3>1, <3>4, <3>5 DEF Accepts, IsEnd
      <3>. QED
        BY <3>2, <3>6
    <2>5. CASE /\ Tell(m.caller, [save |-> TRUE, call |-> m.call, val |-> m.val])
               /\ m.caller # a
      <3>1. [save |-> TRUE, call |-> m.call, val |-> m.val] \in Word
        BY <2>2 DEF Word
      <3>. QED
        BY <2>2, <2>5, <3>1, TellFacts
    <2>6. CASE UNCHANGED upstream
      BY <2>6
    <2>. QED
      BY <1>2, <2>1, <2>3, <2>4, <2>5, <2>6 DEF ProcessEnd
  <1>3. ASSUME NEW t \in Shard, Invalidate(t)
        PROVE  upstream'[a] = upstream[a] \/ \E m \in Word : TellsOf(a, m) /\ ~m.save
    <2>1. PICK k \in Key : k = inhand[t]
      BY <1>3 DEF Invalidate, TypeInv
    <2>2. PICK dropped : dropped = Popped(deps[t], {k})
      OBVIOUS
    <2>3. upstream' = [b \in Caller |->
             IF CallsOf(dropped, b) = {} THEN upstream[b]
             ELSE Append(upstream[b], [save |-> FALSE, calls |-> CallsOf(dropped, b)])]
      BY <1>3, <2>1, <2>2 DEF Invalidate, CallsOf
    <2>4. dropped \subseteq Entry
      BY <2>1, <2>2 DEF Popped, TypeInv, Dep
    <2>5. PICK calls : calls = CallsOf(dropped, a)
      OBVIOUS
    <2>6. [save |-> FALSE, calls |-> calls] \in Word
      BY ZenonT(40), <2>4, <2>5 DEF CallsOf, Entry, Word
    <2>. QED
      BY <2>3, <2>5, <2>6 DEF TellsOf
  <1>. QED
    BY <1>1, <1>2, <1>3 DEF Next, vars, ShardInvoke, Start, GetState, End, SetState, PostWrite,
                            ProcessStart, TakeInvalidation, Forward

\* What is right stays right, or the last word that the step leaves to the
\* caller is about the line.
LEMMA RightOrTold ==
    ASSUME TypeInv, TypeInv', [Next]_vars, NEW a \in Caller, NEW c \in Call, NEW v, Right(v, a, c)
    PROVE  \/ Right(v, a, c)'
           \/ /\ Len(upstream'[a]) = Len(upstream[a]) + 1
              /\ About(upstream'[a][Len(upstream[a]) + 1], c)
  <1>1. CASE Right(v, a, c)'
    BY <1>1
  <1>2. ASSUME NEW m \in Word, TellsOf(a, m), About(m, c)
        PROVE  /\ Len(upstream'[a]) = Len(upstream[a]) + 1
               /\ About(upstream'[a][Len(upstream[a]) + 1], c)
    <2>1. PICK q \in Seq(Word) : q = upstream[a]
      BY DEF TypeInv
    <2>2. upstream'[a] = Append(q, m)
      BY <1>2, <2>1 DEF TellsOf
    <2>3. Len(Append(q, m)) = Len(q) + 1 /\ Append(q, m)[Len(q) + 1] = m
      BY AppendFacts
    <2>. QED
      BY <1>2, <2>1, <2>2, <2>3
  <1>. QED
    BY <1>1, <1>2, RightKept

LEMMA WordsKept ==
    ASSUME TypeInv, TypeInv', [Next]_vars, AllJudged,
           NEW a \in Caller, NEW c \in Call, WordsGood(a, c)
    PROVE  WordsGood(a, c)'
  <1>1. PICK q \in Seq(Word) : q = upstream[a]
    BY DEF TypeInv
  <1>2. PICK r \in Seq(Word) : r = upstream'[a]
    BY DEF TypeInv
  <1>3. \A i \in 1..Len(q) : About(q[i], c) =>
           \/ ~q[i].save
           \/ Right(q[i].val, a, c)
           \/ \E j \in 1..Len(q) : About(q[j], c) /\ i < j
    BY <1>1 DEF WordsGood, Told
  <1>4. ASSUME NEW i \in 1..Len(q), About(q[i], c), NEW v, v = q[i].val
        PROVE  \/ ~q[i].save
               \/ Right(v, a, c)'
               \/ Len(r) = Len(q) + 1 /\ About(r[Len(q) + 1], c)
               \/ \E j \in 1..Len(q) : About(q[j], c) /\ i < j
    <2>1. CASE Right(v, a, c)
      BY <1>1, <1>2, <2>1, RightOrTold
    <2>. QED
      BY <1>3, <1>4, <2>1
  <1>5. SUFFICES ASSUME NEW i \in 1..Len(r), About(r[i], c), r[i].save, NEW v, v = r[i].val
                 PROVE  Right(v, a, c)' \/ \E j \in 1..Len(r) : About(r[j], c) /\ i < j
    <2>1. ASSUME NEW i \in 1..Len(r), About(r[i], c)
          PROVE  \/ ~r[i].save
                 \/ Right(r[i].val, a, c)'
                 \/ \E j \in 1..Len(r) : About(r[j], c) /\ i < j
      <3>1. PICK v : v = r[i].val
        OBVIOUS
      <3>2. ~r[i].save \/ Right(v, a, c)' \/ \E j \in 1..Len(r) : About(r[j], c) /\ i < j
        BY <1>5, <2>1, <3>1
      <3>. QED
        BY <3>1, <3>2 DEF Right
    <2>. QED
      BY <1>2, <2>1 DEF WordsGood, Told, Right
  <1>6. CASE r = q
    <2>1. Len(q) \in Nat
      BY LenProperties
    <2>. QED
      BY <1>4, <1>5, <1>6, <2>1
  <1>7. CASE Deliver(a)
    <2>1. q # <<>> /\ r = Tail(q)
      BY <1>1, <1>2, <1>7 DEF Deliver, TypeInv
    <2>2. /\ Len(q) \in Nat \ {0} /\ Len(r) = Len(q) - 1
          /\ \A j \in 1..Len(r) : r[j] = q[j + 1]
      BY <2>1, TailFacts
    <2>3. i + 1 \in 1..Len(q) /\ r[i] = q[i + 1]
      BY <2>2
    <2>4. ASSUME NEW j \in 1..Len(q), About(q[j], c), i + 1 < j
          PROVE  \E n \in 1..Len(r) : About(r[n], c) /\ i < n
      <3>1. j - 1 \in 1..Len(r) /\ i < j - 1 /\ (j - 1) + 1 = j
        BY <2>2, <2>4
      <3>2. r[j - 1] = q[j]
        BY <2>2, <3>1
      <3>. QED
        BY <2>4, <3>1, <3>2
    <2>5. PICK n \in 1..Len(q) : n = i + 1
      BY <2>3
    <2>6. About(q[n], c) /\ q[n].save /\ v = q[n].val
      BY <1>5, <2>3, <2>5
    <2>7. \/ Right(v, a, c)'
          \/ Len(r) = Len(q) + 1
          \/ \E j \in 1..Len(q) : About(q[j], c) /\ n < j
      BY <1>4, <2>6
    <2>8. ASSUME NEW j \in 1..Len(q), About(q[j], c), n < j
          PROVE  \E o \in 1..Len(r) : About(r[o], c) /\ i < o
      BY <2>4, <2>5, <2>8
    <2>9. Len(r) # Len(q) + 1
      BY <2>2
    <2>. QED
      BY <2>7, <2>8, <2>9
  <1>8. ASSUME NEW m \in Word, TellsOf(a, m),
               m.save => \E t \in Shard : Accepts(t, a, m.call, m.val)
        PROVE  Right(v, a, c)' \/ \E j \in 1..Len(r) : About(r[j], c) /\ i < j
    <2>1. /\ Len(q) \in Nat /\ Len(r) = Len(q) + 1
          /\ \A j \in 1..Len(q) : r[j] = q[j]
          /\ r[Len(q) + 1] = m
      BY <1>1, <1>2, <1>8, AppendFacts DEF TellsOf
    <2>2. CASE i = Len(q) + 1
      <3>1. m = r[i] /\ m.save /\ m.call = c /\ m.val = v
        BY <1>5, <2>1, <2>2 DEF About
      <3>2. PICK t \in Shard : Accepts(t, a, c, v)
        BY <1>8, <3>1
      <3>3. Right(v, a, c)'
        BY <3>2, AcceptedRight
      <3>. QED
        BY <3>3
    <2>3. CASE i \in 1..Len(q)
      <3>1. \A j \in 1..Len(q) : j \in 1..Len(r) /\ r[j] = q[j]
        BY <2>1
      <3>2. i < Len(q) + 1 /\ Len(q) + 1 \in 1..Len(r)
        BY <2>1, <2>3
      <3>. QED
        BY <1>4, <1>5, <2>3, <3>1, <3>2
    <2>. QED
      BY <2>1, <2>2, <2>3
  <1>. QED
    BY <1>1, <1>2, <1>6, <1>7, <1>8, UpstreamStep

\* A word on its way stays so, except the one that is delivered.
LEMMA ToldKept ==
    ASSUME TypeInv, TypeInv', [Next]_vars, NEW a \in Caller, NEW c \in Call,
           NEW i \in Told(a, c), Deliver(a) => i # 1
    PROVE  Told(a, c)' # {}
  <1>1. PICK q \in Seq(Word) : q = upstream[a]
    BY DEF TypeInv
  <1>2. PICK r \in Seq(Word) : r = upstream'[a]
    BY DEF TypeInv
  <1>3. i \in 1..Len(q) /\ About(q[i], c)
    BY <1>1 DEF Told
  <1>4. SUFFICES \E j \in 1..Len(r) : About(r[j], c)
    BY <1>2 DEF Told
  <1>5. CASE r = q
    BY <1>3, <1>5
  <1>6. CASE Deliver(a)
    <2>1. q # <<>> /\ r = Tail(q)
      BY <1>1, <1>2, <1>6 DEF Deliver, TypeInv
    <2>2. /\ Len(q) \in Nat \ {0} /\ Len(r) = Len(q) - 1
          /\ \A j \in 1..Len(r) : r[j] = q[j + 1]
      BY <2>1, TailFacts
    <2>3. i - 1 \in 1..Len(r) /\ (i - 1) + 1 = i
      BY <1>3, <1>6, <2>2
    <2>4. r[i - 1] = q[i]
      BY <2>2, <2>3
    <2>. QED
      BY <1>3, <2>3, <2>4
  <1>7. ASSUME NEW m \in Word, TellsOf(a, m) PROVE \E j \in 1..Len(r) : About(r[j], c)
    <2>1. Len(q) \in Nat /\ Len(r) = Len(q) + 1 /\ r[i] = q[i]
      BY <1>1, <1>2, <1>3, <1>7, AppendFacts DEF TellsOf
    <2>. QED
      BY <1>3, <2>1
  <1>. QED
    BY <1>1, <1>2, <1>5, <1>6, <1>7, UpstreamStep

\* Who was right about a line that stays as it is, or had a word for it.
LEMMA LineAsItIs ==
    ASSUME TypeInv, TypeInv', [Next]_vars, NEW c \in Call, LineGood(c), cache'[c] = cache[c],
           \A a \in Caller : Deliver(a) => ~About(Head(upstream[a]), c)
    PROVE  LineGood(c)'
  <1>1. PICK v : v = cache[c]
    OBVIOUS
  <1>2. CASE v = None
    BY <1>1, <1>2 DEF LineGood
  <1>3. ASSUME NEW a \in Caller, Right(v, a, c) \/ Told(a, c) # {}
        PROVE  Right(v, a, c)' \/ Told(a, c)' # {}
    <2>1. CASE Right(v, a, c)
      <3>1. CASE /\ Len(upstream'[a]) = Len(upstream[a]) + 1
                 /\ About(upstream'[a][Len(upstream[a]) + 1], c)
        <4>1. PICK n \in Nat : n = Len(upstream[a])
          BY LenProperties DEF TypeInv
        <4>2. n + 1 \in 1..Len(upstream'[a]) /\ About(upstream'[a][n + 1], c)
          BY <3>1, <4>1
        <4>. QED
          BY <4>2 DEF Told
      <3>. QED
        BY <2>1, <3>1, RightOrTold
    <2>2. ASSUME NEW i \in Told(a, c) PROVE Told(a, c)' # {}
      <3>1. PICK q \in Seq(Word) : q = upstream[a]
        BY DEF TypeInv
      <3>2. q # <<>> => Head(q) = q[1]
        BY TailFacts
      <3>3. Deliver(a) => q # <<>> /\ ~About(Head(q), c)
        BY <3>1 DEF Deliver
      <3>4. Deliver(a) => i # 1
        BY <2>2, <3>1, <3>2, <3>3 DEF Told
      <3>. QED
        BY <3>4, ToldKept
    <2>. QED
      BY <1>3, <2>1, <2>2
  <1>4. (\E a \in Caller : Right(v, a, c)' \/ Told(a, c)' # {}) => LineGood(c)'
    BY <1>1 DEF LineGood, Right
  <1>. QED
    BY <1>1, <1>2, <1>3, <1>4 DEF LineGood

LEMMA LineKept ==
    ASSUME TypeInv, TypeInv', [Next]_vars, NEW c \in Call, LineGood(c),
           \A a \in Caller : WordsGood(a, c)
    PROVE  LineGood(c)'
  <1>1. CASE \A a \in Caller : ~Deliver(a)
    <2>1. cache' = cache
      BY <1>1 DEF Next, vars, manager, ShardInvoke, Start, GetState, End, SetState, PostWrite,
                  ProcessStart, ProcessEnd, TakeInvalidation, Invalidate, Forward
    <2>. QED
      BY <1>1, <2>1, LineAsItIs
  <1>2. ASSUME NEW a \in Caller, Deliver(a) PROVE LineGood(c)'
    <2>1. PICK q \in Seq(Word) : q = upstream[a]
      BY DEF TypeInv
    <2>2. q # <<>> /\ upstream' = [upstream EXCEPT ![a] = Tail(q)]
      BY <1>2, <2>1 DEF Deliver
    <2>3. PICK m \in Word : m = q[1] /\ m = Head(q) /\ 1 \in 1..Len(q)
      BY <2>2, TailFacts
    <2>4. cache' = IF m.save THEN [cache EXCEPT ![m.call] = m.val]
                   ELSE [d \in Call |-> IF d \in m.calls THEN None ELSE cache[d]]
      BY <1>2, <2>1, <2>3 DEF Deliver
    <2>5. CASE ~About(m, c)
      <3>1. cache'[c] = cache[c]
        BY <2>3, <2>4, <2>5 DEF About, TypeInv
      <3>2. ASSUME NEW b \in Caller, Deliver(b) PROVE b = a
        <4>1. upstream' = [upstream EXCEPT ![b] = Tail(upstream[b])] /\ upstream[b] # <<>>
          BY <3>2 DEF Deliver
        <4>2. upstream \in [Caller -> Seq(Word)]
          BY DEF TypeInv
        <4>3. Tail(q) # q
          BY <2>2, TailFacts
        <4>4. b # a => upstream'[a] = q /\ upstream'[a] = Tail(q)
          BY <2>1, <2>2, <4>1, <4>2
        <4>. QED
          BY <4>3, <4>4
      <3>. QED
        BY <2>1, <2>3, <2>5, <3>1, <3>2, LineAsItIs
    <2>6. CASE About(m, c) /\ ~m.save
      <3>1. cache'[c] = None
        BY <2>4, <2>6 DEF About
      <3>. QED
        BY <3>1 DEF LineGood
    <2>7. CASE About(m, c) /\ m.save
      <3>1. PICK v : v = m.val
        OBVIOUS
      <3>2. cache'[c] = v
        BY <2>3, <2>4, <2>7, <3>1 DEF About, TypeInv
      <3>3. ASSUME NEW j \in Told(a, c), 1 < j PROVE LineGood(c)'
        <4>1. Told(a, c)' # {}
          BY <3>3, ToldKept
        <4>. QED
          BY <4>1 DEF LineGood
      <3>4. CASE Right(v, a, c)
        <4>1. Len(upstream'[a]) # Len(upstream[a]) + 1
          BY <2>1, <2>2, TailFacts DEF TypeInv
        <4>2. Right(v, a, c)'
          BY <3>4, <4>1, RightOrTold
        <4>. QED
          BY <3>2, <4>2 DEF LineGood, Right
      <3>5. Right(v, a, c) \/ \E j \in Told(a, c) : 1 < j
        BY <2>1, <2>3, <2>7, <3>1 DEF WordsGood, Told
      <3>. QED
        BY <3>3, <3>4, <3>5
    <2>. QED
      BY <2>5, <2>6, <2>7
  <1>. QED
    BY <1>1, <1>2

-----------------------------------------------------------------------------
\* The invariant.

LEMMA InvInit == Wiring /\ Init => ShardInv
  <1>. SUFFICES ASSUME Wiring, Init PROVE ShardInv
    OBVIOUS
  <1>1. TypeInv
    BY TypingInit
  <1>2. \A c \in Call : HashShard[c] \in Shard
    BY DEF Wiring
  <1>3. ASSUME NEW c \in Call PROVE RunJudged(c) /\ EndsJudged(c)
    BY <1>2 DEF Init, Idle, RunJudged, EndsJudged
  <1>4. ASSUME NEW c \in Call PROVE LineGood(c) /\ \A a \in Caller : WordsGood(a, c)
    BY DEF Init, LineGood, WordsGood, Told
  <1>. QED
    BY <1>1, <1>3, <1>4 DEF ShardInv, AllJudged, LinesGood

LEMMA InvNext == ShardInv /\ [Next]_vars => ShardInv'
  <1>. SUFFICES ASSUME ShardInv, [Next]_vars PROVE ShardInv'
    OBVIOUS
  <1>1. TypeInv /\ TypeInv'
    BY TypingNext DEF ShardInv
  <1>2. AllJudged'
    BY <1>1, JudgedNext DEF ShardInv
  <1>3. ASSUME NEW c \in Call PROVE LineGood(c)'
    BY <1>1, LineKept DEF ShardInv, LinesGood
  <1>4. ASSUME NEW c \in Call, NEW a \in Caller PROVE WordsGood(a, c)'
    BY <1>1, WordsKept DEF ShardInv, LinesGood
  <1>. QED
    BY <1>1, <1>2, <1>3, <1>4 DEF ShardInv, LinesGood

LEMMA InvPending == ShardInv => ShardStaleIsPending
  BY DEF ShardInv, LinesGood, LineGood, ShardStaleIsPending, Stale, Right, Told, About

(***************************************************************************)
(* Whichever shard wrote, and however the managers interleave: a stale     *)
(* line of the caller's shared cache has an invalidation on its way to the *)
(* shard that answered the call, or a message that replaces or drops it on *)
(* its way to a manager of the caller.                                     *)
(***************************************************************************)
THEOREM ShardPending == ASSUME Wiring PROVE Spec => []ShardStaleIsPending
  <1>1. Init => ShardInv
    BY InvInit
  <1>. QED
    BY <1>1, InvNext, InvPending, PTL DEF Spec
=============================================================================
