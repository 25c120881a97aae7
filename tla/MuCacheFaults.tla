--------------------------- MODULE MuCacheFaults ---------------------------
(***************************************************************************)
(* MuCache when messages are lost and managers restart.  The ZMQ publisher *)
(* goes on after a message it could not send (pkg/cm/conn.go); a manager   *)
(* that panics, as its sender does when a post fails, comes back with an   *)
(* empty history, no index and nothing queued, while the caches in Redis   *)
(* keep their lines.                                                       *)
(***************************************************************************)
EXTENDS MuCache, Integers

CONSTANT MaxFaults      \* bound: faults of each kind

VARIABLES
    damaged,    \* damaged[k]: the version of k at the last damage, -1 before
    unseen,     \* calls that run although their manager knows of no start
    faults      \* faults so far, by kind

faultVars == <<damaged, unseen, faults>>

FaultInit ==
    /\ Init
    /\ damaged = [k \in Key |-> -1]
    /\ unseen = {}
    /\ faults = [kind \in {"lost", "restarts"} |-> 0]

Fault(kind) ==
    /\ faults[kind] < MaxFaults
    /\ faults' = [faults EXCEPT ![kind] = @ + 1]

\* What a service tells its manager goes through the publisher.
FromService == {"start", "end", "inv"}

\* What the lost message of this type may leave unnoticed.
Damage(type) == IF type = "end" THEN damaged ELSE db

\* Runs whose start was sent, in s.
Announced(s) == {c \in Call : Owner[c] = s /\ run[c].phase = "on" /\ ~ByClient(c)}

Lose(s) ==
    \E i \in 1..Len(WQ[s]) :
       LET m == WQ[s][i]
       IN  /\ m.type \in FromService
           /\ Fault("lost")
           /\ WQ' = [WQ EXCEPT ![s] = RemoveAt(@, i)]
           /\ damaged' = Damage(m.type)
           /\ unseen' = unseen \cup {c \in Announced(s) : m.type = "start" /\ m.call = c}
           /\ UNCHANGED <<app, manager, sender, HttpQueue>>

Restart(s) ==
    /\ Fault("restarts")
    /\ history' = [history EXCEPT ![s] = <<>>]
    /\ deps' = [deps EXCEPT ![s] = NoDeps]
    /\ WQ' = [WQ EXCEPT ![s] = <<>>]
    /\ HttpQueue' = [HttpQueue EXCEPT ![s] = <<>>]
    /\ buffer' = [buffer EXCEPT ![s] = Empty]
    /\ batch' = [batch EXCEPT ![s] = 0]
    /\ damaged' = db
    /\ unseen' = unseen \cup Announced(s)
    /\ UNCHANGED <<app, cache>>

(***************************************************************************)
(* The end of a run of which the manager knows no start does damage of its *)
(* own: whatever was invalidated during the run may have been collected.   *)
(***************************************************************************)
Ended == {c \in unseen : run'[c].phase = "idle"}

FaultNext ==
    \/ /\ Next
       /\ unseen' = unseen \ Ended
       /\ damaged' = IF Ended = {} THEN damaged ELSE db
       /\ UNCHANGED faults
    \/ \E s \in Service : Lose(s) \/ Restart(s)

FaultSpec == FaultInit /\ [][FaultNext]_<<vars, faultVars>>

-----------------------------------------------------------------------------
\* A line was computed from what a key held at the last damage, or before.
Older(s, c) ==
    \E k \in Key : \E v \in 0..MaxWrites :
       <<k, v>> \in cache[s][c] /\ v <= damaged[k]

(***************************************************************************)
(* A fault does no harm to what is computed after it: a stale line of a    *)
(* leaf call that nothing on its way will drop holds a version from before *)
(* the last lost invalidation, restart or lost start, or from before the   *)
(* end of a run whose start was lost.  The loss of an end does no harm at  *)
(* all, although its start stays in the history.                           *)
(***************************************************************************)
StaleIsOlder ==
    \A s \in Service, c \in Call :
       Leaf(c) /\ Stale(s, c) /\ ~InvPending(s, c) => Older(s, c)
=============================================================================
