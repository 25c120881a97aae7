------------------------------- MODULE Shards -------------------------------
(***************************************************************************)
(* A sharded service: its shards answer the same calls from one database,  *)
(* each beside a cache manager of its own.  A caller sends a read-only     *)
(* call to the shard its hash chooses and any other request to a random    *)
(* shard, so the manager told of a write passes it on to the managers of   *)
(* the other shards.  Each manager's state is CMState; the HttpSender is a *)
(* queue per upstream caller (module HttpSender: it keeps the order of     *)
(* what concerns one line).  The shards of the caller share one cache.     *)
(***************************************************************************)
EXTENDS Naturals, Sequences, FiniteSets

CONSTANTS
    Shard,          \* shards of the service
    Caller,         \* shards of its caller
    Call,           \* read-only calls, each of which reads ...
    KeyOf,          \* ... the key KeyOf[c]
    Key,
    HashShard,      \* HashShard[c]: the shard chosen by the hash of c
    None,
    QueueSize,      \* capacity of a manager's work queue
    MaxWrites,      \* bound: writes of each key
    MaxRuns         \* bound: calls made

INSTANCE CMState WITH Served <- Call, Called <- {}

VARIABLES
    db,         \* db[k]: the version of key k
    unsent,     \* unsent[s]: keys shard s wrote, PostWrite still to come
    run,        \* run[c]: the run of call c
    runs,       \* calls made so far
    WQ,         \* WQ[s]: the work queue of the manager of shard s
    forwarding, \* forwarding[s]: shards it has yet to tell of the key in hand
    inhand,     \* inhand[s]: the key invalidated that Process holds, or None
    history, deps,
    upstream,   \* upstream[a]: what is on its way to the manager of caller a
    cache       \* the cache of the caller: cache[c] is a version or None

manager == <<history, deps>>
vars == <<db, unsent, run, runs, WQ, forwarding, inhand, manager, upstream, cache>>

Idle == [phase |-> "idle", caller |-> None, got |-> 0]

Init ==
    /\ db = [k \in Key |-> 0]
    /\ unsent = [s \in Shard |-> {}]
    /\ run = [c \in Call |-> Idle]
    /\ runs = 0
    /\ WQ = [s \in Shard |-> <<>>]
    /\ forwarding = [s \in Shard |-> {}]
    /\ inhand = [s \in Shard |-> None]
    /\ history = [s \in Shard |-> <<>>]
    /\ deps = [s \in Shard |-> NoDeps]
    /\ upstream = [a \in Caller |-> <<>>]
    /\ cache = [c \in Call |-> None]

\* A post returns once the message is in the work queue.
Post(s, message) ==
    /\ Len(WQ[s]) < QueueSize
    /\ WQ' = [WQ EXCEPT ![s] = Append(@, message)]

-----------------------------------------------------------------------------
\* The shards.

\* CheckCacheShard: the caller missed, and asks the shard the hash chooses.
ShardInvoke(a, c) ==
    /\ run[c] = Idle /\ cache[c] = None
    /\ runs < MaxRuns
    /\ runs' = runs + 1
    /\ run' = [run EXCEPT ![c] = [phase |-> "asked", caller |-> a, got |-> 0]]
    /\ UNCHANGED <<db, unsent, WQ, forwarding, inhand, manager, upstream, cache>>

Start(c) ==
    /\ run[c].phase = "asked"
    /\ run' = [run EXCEPT ![c].phase = "on"]
    /\ Post(HashShard[c], [type |-> "start", call |-> c])
    /\ UNCHANGED <<db, unsent, runs, forwarding, inhand, manager, upstream, cache>>

GetState(c) ==
    /\ run[c].phase = "on"
    /\ run' = [run EXCEPT ![c].phase = "read", ![c].got = db[KeyOf[c]]]
    /\ UNCHANGED <<db, unsent, runs, WQ, forwarding, inhand, manager, upstream, cache>>

End(c) ==
    /\ run[c].phase = "read"
    /\ run' = [run EXCEPT ![c] = Idle]
    /\ Post(HashShard[c], [type |-> "end", call |-> c, caller |-> run[c].caller,
                           val |-> run[c].got])
    /\ UNCHANGED <<db, unsent, runs, forwarding, inhand, manager, upstream, cache>>

\* A request that is not read-only reached shard s, any of them.
SetState(s, k) ==
    /\ db[k] < MaxWrites
    /\ k \notin unsent[s]
    /\ db' = [db EXCEPT ![k] = @ + 1]
    /\ unsent' = [unsent EXCEPT ![s] = @ \cup {k}]
    /\ UNCHANGED <<run, runs, WQ, forwarding, inhand, manager, upstream, cache>>

PostWrite(s, k) ==
    /\ k \in unsent[s]
    /\ unsent' = [unsent EXCEPT ![s] = @ \ {k}]
    /\ Post(s, [type |-> "inv", key |-> k, fromCM |-> FALSE])
    /\ UNCHANGED <<db, run, runs, forwarding, inhand, manager, upstream, cache>>

-----------------------------------------------------------------------------
\* The managers: Process.

Take(s, type) ==
    /\ inhand[s] = None
    /\ WQ[s] # <<>> /\ Head(WQ[s]).type = type
    /\ WQ' = [WQ EXCEPT ![s] = Tail(@)]

Tell(a, message) == upstream' = [upstream EXCEPT ![a] = Append(@, message)]

\* Faulty: the names are compared with their shard numbers.
NoNeighbors(s) == {}

\* GetNeighbors: the managers of the same name up to the shard number.
Neighbors(s) == Shard \ {s}

ProcessStart(s) ==
    /\ Take(s, "start")
    /\ history' = [history EXCEPT ![s] = AppendCall(@, Head(WQ[s]).call)]
    /\ UNCHANGED <<db, unsent, run, runs, forwarding, inhand, deps, upstream, cache>>

ProcessEnd(s) ==
    LET m == Head(WQ[s])
        used == {KeyOf[m.call]}
    IN  /\ Take(s, "end")
        /\ \E rest \in Forgotten(history[s], m.call) :
              history' = [history EXCEPT ![s] = rest]
        /\ IF ValidCall(history[s], m.call, used)
           THEN /\ Tell(m.caller, [save |-> TRUE, call |-> m.call, val |-> m.val])
                /\ deps' = [deps EXCEPT ![s] = StoreDeps(@, <<m.caller, m.call>>, used)]
           ELSE UNCHANGED <<upstream, deps>>
        /\ UNCHANGED <<db, unsent, run, runs, forwarding, inhand, cache>>

\* An invalidation that a service posted goes to the other shards first.
TakeInvalidation(s) ==
    /\ Take(s, "inv")
    /\ inhand' = [inhand EXCEPT ![s] = Head(WQ[s]).key]
    /\ forwarding' = [forwarding EXCEPT ![s] =
                         IF Head(WQ[s]).fromCM THEN {} ELSE Neighbors(s)]
    /\ UNCHANGED <<db, unsent, run, runs, manager, upstream, cache>>

\* SendInvRequestHttp: the loop stands still while the other queue is full.
Forward(s, n) ==
    /\ n \in forwarding[s]
    /\ Post(n, [type |-> "inv", key |-> inhand[s], fromCM |-> TRUE])
    /\ forwarding' = [forwarding EXCEPT ![s] = @ \ {n}]
    /\ UNCHANGED <<db, unsent, run, runs, inhand, manager, upstream, cache>>

Invalidate(s) ==
    LET k == inhand[s]
        dropped == Popped(deps[s], {k})
    IN  /\ k # None /\ forwarding[s] = {}
        /\ inhand' = [inhand EXCEPT ![s] = None]
        /\ history' = [history EXCEPT ![s] = AppendWrite(@, k)]
        /\ deps' = [deps EXCEPT ![s] = PopDeps(@, {k})]
        /\ upstream' = [a \in Caller |->
              LET calls == {e[2] : e \in {x \in dropped : x[1] = a}}
              IN  IF calls = {} THEN upstream[a]
                  ELSE Append(upstream[a], [save |-> FALSE, calls |-> calls])]
        /\ UNCHANGED <<db, unsent, run, runs, WQ, forwarding, cache>>

\* The manager of caller a saves or drops lines of the cache they share.
Deliver(a) ==
    LET m == Head(upstream[a])
    IN  /\ upstream[a] # <<>>
        /\ upstream' = [upstream EXCEPT ![a] = Tail(@)]
        /\ cache' = IF m.save THEN [cache EXCEPT ![m.call] = m.val]
                    ELSE [c \in Call |-> IF c \in m.calls THEN None ELSE cache[c]]
        /\ UNCHANGED <<db, unsent, run, runs, WQ, forwarding, inhand, manager>>

Next ==
    \/ \E a \in Caller : Deliver(a) \/ \E c \in Call : ShardInvoke(a, c)
    \/ \E c \in Call : Start(c) \/ GetState(c) \/ End(c)
    \/ \E s \in Shard, k \in Key : SetState(s, k) \/ PostWrite(s, k)
    \/ \E s \in Shard :
          \/ ProcessStart(s) \/ ProcessEnd(s)
          \/ TakeInvalidation(s) \/ Invalidate(s)
          \/ \E n \in Shard : Forward(s, n)

Spec == Init /\ [][Next]_vars

-----------------------------------------------------------------------------
Stale(c) == cache[c] # None /\ cache[c] # db[KeyOf[c]]

\* On its way: an invalidation of key k to shard s, from any shard.
Coming(s, k) ==
    \/ k \in UNION {unsent[t] : t \in Shard}
    \/ inhand[s] = k
    \/ \E i \in 1..Len(WQ[s]) : WQ[s][i].type = "inv" /\ WQ[s][i].key = k
    \/ \E t \in Shard :
          \/ inhand[t] = k /\ s \in forwarding[t]
          \/ \E i \in 1..Len(WQ[t]) :
                WQ[t][i].type = "inv" /\ WQ[t][i].key = k /\ ~WQ[t][i].fromCM

(***************************************************************************)
(* Whichever shard wrote: while the caller's cache holds a stale line, an  *)
(* invalidation is on its way to the shard that answered the call, or a    *)
(* message that replaces or drops the line to a manager of the caller.     *)
(***************************************************************************)
ShardStaleIsPending ==
    \A c \in Call :
       Stale(c) =>
          \/ Coming(HashShard[c], KeyOf[c])
          \/ \E a \in Caller : \E i \in 1..Len(upstream[a]) :
                LET m == upstream[a][i]
                IN  IF m.save THEN m.call = c ELSE c \in m.calls
=============================================================================
