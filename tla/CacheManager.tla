---------------------------- MODULE CacheManager ----------------------------
(***************************************************************************)
(* One cache manager: the loop of Process in internal/cm/server.go over    *)
(* its work queue, with invalidations unbatched and one shard.  An action  *)
(* is one request taken from the queue and handled to the end; requests    *)
(* arrive in any order the handlers of the service can produce.            *)
(***************************************************************************)
EXTENDS CMState

CONSTANTS
    Rid,            \* runs of read-only handlers, by the call id of the request
    None,
    Duplicates,     \* may two runs of the same call arguments overlap?
    MaxBatch,       \* bound: calls in one InvalidateCallsRequest
    MaxHistory      \* bound: items of the history

ASSUME NoneIsNoCall == None \notin Served
ASSUME DuplicatesAssumption == Duplicates \in BOOLEAN
ASSUME BoundsAssumption == MaxBatch \in Nat \ {0} /\ MaxHistory \in Nat

VARIABLES
    history,    \* State.history
    deps,       \* State.keyDeps and State.callDeps
    cached,     \* calls with a line in this service's own cache (Redis)
    serving,    \* serving[r]: the call run r is of, None when r is not running
    since,      \* ghost, since[r]: what was invalidated since r started
    line,       \* ghost, line[e]: the last word put in HttpQueue about line e
    verdict     \* ghost: what the step just taken decided of a run that ended

vars == <<history, deps, cached, serving, since, line, verdict>>

Abstract == INSTANCE CallValidity

Names(calls) == {calls[i] : i \in 1..Len(calls)}

\* The calls of a request come from a Go map: distinct, in any order.
Batches ==
    UNION {{calls \in [1..n -> Called] :
               \A i, j \in 1..n : i # j => calls[i] # calls[j]} : n \in 1..MaxBatch}

Init ==
    /\ history = <<>>
    /\ deps = NoDeps
    /\ cached = {}
    /\ serving = [r \in Rid |-> None]
    /\ since = [r \in Rid |-> {}]
    /\ line = [e \in Entry |-> Abstract!Dropped]
    /\ verdict = Abstract!NoVerdict

-----------------------------------------------------------------------------
StartRequest(r, ca) ==
    /\ serving[r] = None
    /\ Duplicates \/ \A q \in Rid : serving[q] # ca
    /\ history' = AppendCall(history, ca)
    /\ Len(history') <= MaxHistory
    /\ serving' = [serving EXCEPT ![r] = ca]
    /\ since' = [since EXCEPT ![r] = {}]
    /\ verdict' = Abstract!NoVerdict
    /\ UNCHANGED <<deps, cached, line>>

Leave(r) ==
    /\ serving[r] # None
    /\ serving' = [serving EXCEPT ![r] = None]
    /\ since' = [since EXCEPT ![r] = {}]

EndRequest(r, caller, used) ==
    LET ca == serving[r]
        entry == <<caller, ca>>
    IN  /\ Leave(r)
        /\ history' \in Forgotten(history, ca)
        /\ IF ValidCall(history, ca, used)
           THEN /\ verdict' = [outcome |-> "saved", used |-> used]
                /\ line' = [line EXCEPT ![entry] =
                               [held |-> TRUE, used |-> used,
                                stale |-> since[r] \cap used]]
                /\ deps' = StoreDeps(deps, entry, used)
           ELSE /\ verdict' = [outcome |-> "refused", used |-> used]
                /\ UNCHANGED <<line, deps>>
        /\ UNCHANGED cached

\* A handler that panics, or whose answer does not marshal, never ends: its
\* start stays in the history.
Abandon(r) ==
    /\ Leave(r)
    /\ verdict' = Abstract!NoVerdict
    /\ UNCHANGED <<history, deps, cached, line>>

\* sendInvsToCallers with everything popped for names, as the ghosts see it.
Invalidated(names) ==
    /\ deps' = PopDeps(deps, names)
    /\ since' = [r \in Rid |-> IF serving[r] = None THEN {} ELSE since[r] \cup names]
    /\ line' = [e \in Entry |->
                  IF e \in Popped(deps, names) THEN Abstract!Dropped
                  ELSE [line[e] EXCEPT !.stale = @ \cup (line[e].used \cap names)]]
    /\ verdict' = Abstract!NoVerdict
    /\ UNCHANGED serving

InvalidateKeyRequest(k) ==
    /\ history' = AppendWrite(history, k)
    /\ Len(history') <= MaxHistory
    /\ Invalidated({k})
    /\ UNCHANGED cached

InvalidateCallsRequest(calls) ==
    /\ history' = AppendInvCalls(history, calls)
    /\ Len(history') <= MaxHistory
    /\ Invalidated(Names(calls))
    /\ cached' = cached \ Names(calls)

SaveCallsRequest(calls) ==
    /\ cached' = cached \cup Names(calls)
    /\ verdict' = Abstract!NoVerdict
    /\ UNCHANGED <<history, deps, serving, since, line>>

Next ==
    \/ \E r \in Rid, ca \in Served : StartRequest(r, ca)
    \/ \E r \in Rid, caller \in Caller, used \in SUBSET Dep : EndRequest(r, caller, used)
    \/ \E r \in Rid : Abandon(r)
    \/ \E k \in Key : InvalidateKeyRequest(k)
    \/ \E calls \in Batches : InvalidateCallsRequest(calls)
    \/ \E calls \in Batches : SaveCallsRequest(calls)

Spec == Init /\ [][Next]_vars

-----------------------------------------------------------------------------
\* Types of all variables.
TypeOK ==
    /\ history \in Seq(HistoryItem)
    /\ deps \in [Dep -> SUBSET Entry]
    /\ cached \in SUBSET Called
    /\ serving \in [Rid -> Served \cup {None}]
    /\ since \in [Rid -> SUBSET Dep]
    /\ line \in [Entry -> Abstract!Line]
    /\ verdict \in Abstract!Verdict

(***************************************************************************)
(* The start of every run is still in the history when its end comes: the  *)
(* walk of validCall never falls off the beginning (state.go:206-211).     *)
(***************************************************************************)
StartFound ==
    \A r \in Rid : serving[r] # None => StartsOf(history, serving[r]) # {}

(***************************************************************************)
(* The walk sees exactly what was invalidated while the run was on: marks  *)
(* of other runs, orphaned starts and collections in between neither hide  *)
(* an invalidation from it nor show it an older one.                       *)
(***************************************************************************)
HistoryExact ==
    \A r \in Rid : serving[r] # None =>
        InvalidatedSince(history, serving[r]) = since[r]

(***************************************************************************)
(* Every line a caller holds is indexed under every dependency of the run  *)
(* that produced it, so that no invalidation can miss it (storeDeps        *)
(* against popKeyDeps and popCallDeps).                                    *)
(***************************************************************************)
Registered ==
    \A e \in Entry : line[e].held => \A d \in line[e].used : e \in deps[d]

(***************************************************************************)
(* The purpose of the cache manager: no caller holds a line one of whose   *)
(* dependencies was invalidated at any time since the run that produced    *)
(* the line started, before its end or after.                              *)
(***************************************************************************)
Fresh == \A e \in Entry : line[e].stale = {}

(***************************************************************************)
(* The manager implements CallValidity: it accepts exactly the runs that   *)
(* nothing invalidated, and drops at least what each invalidation hits.    *)
(***************************************************************************)
Implements == Abstract!Spec
=============================================================================
