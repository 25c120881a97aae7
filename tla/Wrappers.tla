------------------------------ MODULE Wrappers ------------------------------
(***************************************************************************)
(* What a service tells its manager about its runs: pkg/wrappers.  Each    *)
(* request gets a new call id; under that id Deps collects what the        *)
(* handler reads and calls, and PreReqEnd pops it and reports it.  Some    *)
(* handlers leave a goroutine behind that prefetches under the same id.    *)
(***************************************************************************)
EXTENDS Naturals, FiniteSets

CONSTANTS
    Id,             \* call ids, each used once
    Args,           \* call arguments
    Name,           \* keys and call arguments a handler may depend on
    None

VARIABLES
    runs,       \* runs[id]: the context and the progress of run id
    deps,       \* deps[x]: the dependencies stored under x, None when absent
    prefetch,   \* prefetch[id]: the goroutine that run id left behind
    read,       \* ghost, read[id]: what the handler of run id read and called
    told        \* start and end requests sent to the manager

vars == <<runs, deps, prefetch, read, told>>

NoRun == [phase |-> "new", ca |-> None, caller |-> None, ro |-> FALSE, map |-> {}]
NoPrefetch == [phase |-> "none", todo |-> {}]

Init ==
    /\ runs = [id \in Id |-> NoRun]
    /\ deps = [x \in Id \cup Args |-> None]
    /\ prefetch = [id \in Id |-> NoPrefetch]
    /\ read = [id \in Id |-> {}]
    /\ told = {}

\* Faulty: runs of the same call share their dependencies.
IndexByArgs(id) == runs[id].ca

\* Deps "are now using CallIds instead of call arguments".
Index(id) == id

Tracked(id) == runs[id].ro /\ runs[id].caller # "client"
On(id) == runs[id].phase = "on"
To(id, phase) == runs' = [runs EXCEPT ![id].phase = phase]

\* A header without caller is the client's; then InitReqCtx and InitDep.
SetupCtxFromHTTPReq(id, ca, caller, ro) ==
    /\ runs[id] = NoRun
    /\ runs' = [runs EXCEPT ![id] = [phase |-> "arrived", ca |-> ca, caller |-> caller,
                                     ro |-> ro, map |-> {}]]
    /\ UNCHANGED <<deps, prefetch, read, told>>

PreReqStart(id) ==
    /\ runs[id].phase = "arrived"
    /\ To(id, "on")
    /\ IF Tracked(id)
       THEN /\ deps' = [deps EXCEPT ![Index(id)] = {}]
            /\ told' = told \cup {[type |-> "start", id |-> id]}
       ELSE UNCHANGED <<deps, told>>
    /\ UNCHANGED <<prefetch, read>>

\* PreRead and PreCall, by the handler itself; the assertion fails when
\* nothing is stored under the index.
AddDep(id, name) ==
    /\ On(id)
    /\ IF ~Tracked(id)
       THEN UNCHANGED <<runs, deps, read>>
       ELSE IF deps[Index(id)] = None
       THEN To(id, "panicked") /\ UNCHANGED <<deps, read>>
       ELSE /\ deps' = [deps EXCEPT ![Index(id)] = @ \cup {name}]
            /\ read' = [read EXCEPT ![id] = @ \cup {name}]
            /\ UNCHANGED runs
    /\ UNCHANGED <<prefetch, told>>

\* A goroutine with a copy of the context reads other names.
LeavePrefetch(id, names) ==
    /\ On(id)
    /\ prefetch[id] = NoPrefetch
    /\ prefetch' = [prefetch EXCEPT ![id] = [phase |-> "on", todo |-> names]]
    /\ UNCHANGED <<runs, deps, read, told>>

\* Load; when the run has ended the assertion fails, and recover ends it.
PrefetchLoad(id) ==
    /\ prefetch[id].phase = "on" /\ prefetch[id].todo # {}
    /\ prefetch' = [prefetch EXCEPT ![id].phase =
                       IF ~Tracked(id) \/ deps[Index(id)] = None THEN "ended" ELSE "loaded"]
    /\ UNCHANGED <<runs, deps, read, told>>

\* Store in the map loaded, which PopDeps may have taken out meanwhile.
PrefetchStore(id) ==
    /\ prefetch[id].phase = "loaded"
    /\ \E name \in prefetch[id].todo :
          /\ prefetch' = [prefetch EXCEPT ![id] = [phase |-> "on", todo |-> @.todo \ {name}]]
          /\ IF deps[Index(id)] # None
             THEN deps' = [deps EXCEPT ![Index(id)] = @ \cup {name}] /\ UNCHANGED runs
             ELSE runs' = [runs EXCEPT ![id].map = @ \cup {name}] /\ UNCHANGED deps
    /\ UNCHANGED <<read, told>>

\* The handler, or the encoding of its answer, fails: no PreReqEnd.
Panic(id) ==
    /\ On(id)
    /\ To(id, "panicked")
    /\ UNCHANGED <<deps, prefetch, read, told>>

\* PopDeps: Load and Delete, before the Range.
PopDeps(id) ==
    /\ On(id)
    /\ IF ~Tracked(id) THEN To(id, "ended") /\ UNCHANGED deps
       ELSE IF deps[Index(id)] = None THEN To(id, "panicked") /\ UNCHANGED deps
       ELSE /\ runs' = [runs EXCEPT ![id].phase = "popped", ![id].map = deps[Index(id)]]
            /\ deps' = [deps EXCEPT ![Index(id)] = None]
    /\ UNCHANGED <<prefetch, read, told>>

\* The Range of PopDeps, and the end request.
PreReqEnd(id) ==
    /\ runs[id].phase = "popped"
    /\ To(id, "ended")
    /\ told' = told \cup {[type |-> "end", id |-> id, ca |-> runs[id].ca,
                           names |-> runs[id].map]}
    /\ UNCHANGED <<deps, prefetch, read>>

Next ==
    \E id \in Id :
       \/ \E ca \in Args, caller \in {"client", "service"}, ro \in BOOLEAN :
             SetupCtxFromHTTPReq(id, ca, caller, ro)
       \/ PreReqStart(id)
       \/ \E name \in Name : AddDep(id, name)
       \/ \E names \in SUBSET Name : LeavePrefetch(id, names)
       \/ PrefetchLoad(id)
       \/ PrefetchStore(id)
       \/ Panic(id)
       \/ PopDeps(id)
       \/ PreReqEnd(id)

Spec == Init /\ [][Next]_vars

-----------------------------------------------------------------------------
Ends == {m \in told : m.type = "end"}

(***************************************************************************)
(* An end request names everything its own handler read, however many runs *)
(* of the same call overlap and whatever goroutines are left, and nothing  *)
(* else but what a goroutine left behind by this very run could add.       *)
(***************************************************************************)
EndsReportReads ==
    \A m \in Ends :
       /\ read[m.id] \subseteq m.names
       /\ prefetch[m.id] = NoPrefetch => m.names = read[m.id]
       /\ [type |-> "start", id |-> m.id] \in told
=============================================================================
