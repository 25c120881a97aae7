---------------------------- MODULE CallValidity ----------------------------
(***************************************************************************)
(* What a cache manager promises the caches upstream of it, without the    *)
(* history and the indexes it keeps for that: a run of a handler is cached *)
(* upstream exactly when nothing it used was invalidated while it ran, and *)
(* an invalidation drops at least every line computed from what it names.  *)
(***************************************************************************)
CONSTANTS Rid, None, Served, Dep, Caller

VARIABLES
    serving,    \* serving[r]: the call request r is a run of, or None
    since,      \* since[r]: what was invalidated since the start of r
    line,       \* line[e]: what the caller was last told of line e
    verdict     \* what the step just taken decided of a run that ended, and
                \* what that run had used

vars == <<serving, since, line, verdict>>

Entry == Caller \X Served

\* stale: the dependencies of a held line invalidated since its run started.
Line == [held : BOOLEAN, used : SUBSET Dep, stale : SUBSET Dep]
Dropped == [held |-> FALSE, used |-> {}, stale |-> {}]

Verdict == [outcome : {"none", "saved", "refused"}, used : SUBSET Dep]
NoVerdict == [outcome |-> "none", used |-> {}]

Init ==
    /\ serving = [r \in Rid |-> None]
    /\ since = [r \in Rid |-> {}]
    /\ line = [e \in Entry |-> Dropped]
    /\ verdict = NoVerdict

Start(r, ca) ==
    /\ serving[r] = None
    /\ serving' = [serving EXCEPT ![r] = ca]
    /\ since' = [since EXCEPT ![r] = {}]
    /\ verdict' = NoVerdict
    /\ UNCHANGED line

Leave(r) ==
    /\ serving[r] # None
    /\ serving' = [serving EXCEPT ![r] = None]
    /\ since' = [since EXCEPT ![r] = {}]

Save(r, caller, used) ==
    /\ Leave(r)
    /\ since[r] \cap used = {}
    /\ verdict' = [outcome |-> "saved", used |-> used]
    /\ line' = [line EXCEPT ![<<caller, serving[r]>>] =
                   [held |-> TRUE, used |-> used, stale |-> {}]]

Reject(r, used) ==
    /\ Leave(r)
    /\ since[r] \cap used # {}
    /\ verdict' = [outcome |-> "refused", used |-> used]
    /\ UNCHANGED line

Abandon(r) ==
    /\ Leave(r)
    /\ verdict' = NoVerdict
    /\ UNCHANGED line

Invalidate(names) ==
    /\ since' = [r \in Rid |-> IF serving[r] = None THEN {} ELSE since[r] \cup names]
    /\ \E drop \in SUBSET Entry :
          /\ \A e \in Entry : line[e].used \cap names # {} => e \in drop
          /\ line' = [e \in Entry |-> IF e \in drop THEN Dropped ELSE line[e]]
    /\ verdict' = NoVerdict
    /\ UNCHANGED serving

\* Anything that concerns no run and no line.
Other ==
    /\ verdict' = NoVerdict
    /\ UNCHANGED <<serving, since, line>>

Next ==
    \/ \E r \in Rid, ca \in Served : Start(r, ca)
    \/ \E r \in Rid, caller \in Caller, used \in SUBSET Dep : Save(r, caller, used)
    \/ \E r \in Rid, used \in SUBSET Dep : Reject(r, used)
    \/ \E r \in Rid : Abandon(r)
    \/ \E names \in SUBSET Dep : Invalidate(names)
    \/ Other

Spec == Init /\ [][Next]_vars
=============================================================================
