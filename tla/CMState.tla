------------------------------ MODULE CMState ------------------------------
(***************************************************************************)
(* The data a cache manager keeps and the functions on it, translated from *)
(* internal/cm/state.go.                                                   *)
(*                                                                         *)
(* A history is the sequence of call starts and invalidations the manager  *)
(* has processed, oldest first.  deps merges the Go maps keyDeps and       *)
(* callDeps: the Go types cm.Key and cm.CallArgs keep their entries apart, *)
(* which NamesApart says here.  An entry absent from a Go map is {} here.  *)
(***************************************************************************)
EXTENDS Naturals, Sequences

CONSTANTS
    Served,     \* call arguments (app, method, input) this service answers
    Called,     \* call arguments this service invokes on other services
    Key,        \* keys of this service's database
    Caller      \* services that call this one

ASSUME NamesApart == Called \cap Key = {}

\* What a run of a handler can depend on.
Dep == Called \cup Key

\* A line of an upstream cache: the service that holds it and the call.
Entry == Caller \X Served

HistoryItem ==
    [kind : {"calls"}, names : SUBSET Served]
        \cup [kind : {"write", "invcall"}, names : SUBSET Dep]

NoDeps == [d \in Dep |-> {}]

-----------------------------------------------------------------------------
\* Growing the history

IsCallArgSet(item) == item.kind = "calls"

\* Faulty: the start is recorded as a write.
AppendCallAsWrite(history, ca) ==
    Append(history, [kind |-> "write", names |-> {ca}])

\* Faulty: the start joins the latest call set, however much was invalidated
\* after that set.
AppendCallToLatestSet(history, ca) ==
    LET sets == {i \in 1..Len(history) : IsCallArgSet(history[i])}
    IN  IF sets # {}
        THEN [history EXCEPT ![CHOOSE i \in sets : \A j \in sets : j <= i].names = @ \cup {ca}]
        ELSE Append(history, [kind |-> "calls", names |-> {ca}])

AppendCall(history, ca) ==
    LET last == Len(history)
    IN  IF last > 0 /\ IsCallArgSet(history[last])
        THEN [history EXCEPT ![last].names = @ \cup {ca}]
        ELSE Append(history, [kind |-> "calls", names |-> {ca}])

\* Faulty: writes leave no trace.
AppendNoWrite(history, k) == history

AppendWrite(history, k) == Append(history, [kind |-> "write", names |-> {k}])

(***************************************************************************)
(* "for _, ca := range calls { state.appendInvCall(&ca) }": the module is  *)
(* go 1.19, so the loop has one variable ca, every item appended points to *)
(* it, and after the loop all of them read the last call of the list.      *)
(***************************************************************************)
AppendInvCalls(history, calls) ==
    history \o [i \in 1..Len(calls) |->
                   [kind |-> "invcall", names |-> {calls[Len(calls)]}]]

-----------------------------------------------------------------------------
\* Reading the history: validCall walks it backwards to the latest start of
\* the call, or to its beginning when no start of the call is left.

StartsOf(history, ca) ==
    {i \in 1..Len(history) : IsCallArgSet(history[i]) /\ ca \in history[i].names}

Walked(history, ca) ==
    {i \in 1..Len(history) : \A s \in StartsOf(history, ca) : s <= i}

InvalidatedSince(history, ca) ==
    UNION {history[i].names :
              i \in {j \in Walked(history, ca) : ~IsCallArgSet(history[j])}}

\* Faulty: only writes of keys count.
ValidByWrites(history, ca, used) ==
    InvalidatedSince(history, ca) \cap used \cap Key = {}

\* Faulty: any invalidation counts.
ValidIfUndisturbed(history, ca, used) == InvalidatedSince(history, ca) = {}

ValidCall(history, ca, used) == InvalidatedSince(history, ca) \cap used = {}

\* The walk deletes ca from the set it stops at; the sets it passed on the
\* way do not hold ca.
RemoveStart(history, ca) ==
    [i \in 1..Len(history) |->
        IF i \in Walked(history, ca) /\ IsCallArgSet(history[i])
        THEN [history[i] EXCEPT !.names = @ \ {ca}]
        ELSE history[i]]

\* The collection drops everything before the first set with a call in it,
\* and the whole history when there is none.
HasCalls(item) == IsCallArgSet(item) /\ item.names # {}

\* Faulty: drops that first set too.
CollectsPast(history, j) ==
    /\ j \in 2..(Len(history) + 1)
    /\ \A i \in 1..(j - 2) : ~HasCalls(history[i])
    /\ HasCalls(history[j - 1])

CollectsFrom(history, j) ==
    /\ j \in 1..(Len(history) + 1)
    /\ \A i \in 1..(j - 1) : ~HasCalls(history[i])
    /\ j <= Len(history) => HasCalls(history[j])

\* The histories validCall can leave behind: the start is gone, and if the
\* walk found one and 5s passed since the last collection, so is the garbage.
Forgotten(history, ca) ==
    LET rest == RemoveStart(history, ca)
    IN  {rest} \cup {SubSeq(rest, j, Len(rest)) :
                        j \in {i \in 1..(Len(rest) + 1) :
                                 StartsOf(history, ca) # {} /\ CollectsFrom(rest, i)}}

-----------------------------------------------------------------------------
\* The dependency index

\* Faulty: calls are not indexed.
StoreDepsKeysOnly(deps, entry, used) ==
    [d \in Dep |-> IF d \in used \cap Key THEN deps[d] \cup {entry} ELSE deps[d]]

StoreDeps(deps, entry, used) ==
    [d \in Dep |-> IF d \in used THEN deps[d] \cup {entry} ELSE deps[d]]

PopDeps(deps, names) == [d \in Dep |-> IF d \in names THEN {} ELSE deps[d]]

\* Faulty: invalidated calls pop nothing.
PoppedByKeys(deps, names) == UNION {deps[d] : d \in names \cap Key}

Popped(deps, names) == UNION {deps[d] : d \in names}
=============================================================================
