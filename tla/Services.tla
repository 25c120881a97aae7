------------------------------ MODULE Services ------------------------------
(***************************************************************************)
(* The programs of Routes serving requests through pkg/wrappers and        *)
(* pkg/invoke: which runs are announced to the cache managers, which       *)
(* answers end up in whose cache, and which calls are answered from there. *)
(* One client request at a time; the lines stay from one to the next, and  *)
(* any of them may go at any time.                                         *)
(***************************************************************************)
EXTENDS Routes, SequencesExt

CONSTANT MaxLines       \* bound: lines in all caches; one more, and one must go first

VARIABLES
    app,        \* the deployed application
    stack,      \* the handlers on, the client's first
    lines,      \* the lines held in the caches of the services
    asked,      \* <<caller, callee>> of the read-only calls of this request
    unserved    \* the last call that found no handler, or None

vars == <<app, stack, lines, asked, unserved>>

None == <<>>
Service == DOMAIN Apps[app]
Routes(s) == Apps[app][s]
Top == Last(stack)

IsCallReadOnly(method) == Len(method) >= 3 /\ SubSeq(method, 1, 3) = "ro_"

\* Faulty: the callee is left out.
HashMethodOnly(callee, method) == method

\* The bytes hashed, with nothing between them; the arguments are left out.
HashCallArgs(callee, method) == callee \o method

\* Faulty: the client's requests are announced as well.
AnnouncedToAll(f) == Routes(f.service)[f.method].ro

\* PreReqStart and PreReqEnd tell the manager of read-only runs that another
\* service asked for.
Announced(f) == Routes(f.service)[f.method].ro /\ f.caller # "client"

Frame(s, m, caller) ==
    [service |-> s, method |-> m, caller |-> caller, todo |-> Routes(s)[m].steps, wrote |-> FALSE]

Init ==
    /\ app \in DOMAIN Apps
    /\ stack = <<>>
    /\ lines = {}
    /\ asked = {}
    /\ unserved = None

-----------------------------------------------------------------------------
ClientRequest ==
    /\ stack = <<>>
    /\ \E s \in Service : \E m \in DOMAIN Routes(s) : stack' = <<Frame(s, m, "client")>>
    /\ asked' = {}
    /\ unserved' = None
    /\ UNCHANGED <<app, lines>>

\* The handler on top is at its next step.
At(do) == stack # <<>> /\ Top.todo # <<>> /\ Head(Top.todo).do = do
Next1 == Head(Top.todo)
Rest == [Top EXCEPT !.todo = Tail(@)]
WithTop(f) == [stack EXCEPT ![Len(stack)] = f]

\* PreCall looks in the cache of the service itself.
Cached(callee) ==
    \E l \in lines : l.at = Top.service /\ l.key = HashCallArgs(callee, Next1.path)

SetState ==
    /\ At("store")
    /\ stack' = WithTop([Rest EXCEPT !.wrote = TRUE])
    /\ UNCHANGED <<app, lines, asked, unserved>>

\* The loop ends, or the handler returns early.
LeaveLoop ==
    /\ At("some")
    /\ stack' = WithTop(Rest)
    /\ UNCHANGED <<app, lines, asked, unserved>>
ReturnOrNot ==
    /\ At("maystop")
    /\ \E todo \in {<<>>, Tail(Top.todo)} : stack' = WithTop([Top EXCEPT !.todo = todo])
    /\ UNCHANGED <<app, lines, asked, unserved>>

\* The handler goes on after the call, or stays in the loop that makes it.
After == IF Next1.do = "some" THEN Top ELSE Rest

Reads(callee) ==
    IF IsCallReadOnly(Next1.path) THEN asked \cup {<<Top.service, callee>>} ELSE asked

\* CheckCache finds the line.
InvokeHit ==
    /\ At("call") \/ At("some")
    /\ \E callee \in Next1.to :
          /\ IsCallReadOnly(Next1.path)
          /\ Cached(callee)
          /\ stack' = WithTop(After)
          /\ asked' = Reads(callee)
    /\ UNCHANGED <<app, lines, unserved>>

\* InvokeHit looks and takes the answer for given; AssertInvokeHit wants the
\* hit; PollUntilMiss looks until the line is gone or its time is over.
Lookup ==
    /\ \/ At("hit")
       \/ At("dice")
       \/ At("asserthit") /\ \E c \in Next1.to : Cached(c)
       \/ At("pollmiss")
    /\ stack' = WithTop(Rest)
    /\ UNCHANGED <<app, lines, asked, unserved>>

\* performRequest: the caller is named in the header; a path that is not
\* registered answers 404 and the assertion on the status fails.
PerformRequest ==
    /\ \/ At("call") \/ At("some")
       \/ At("dice") \/ At("miss")
    /\ \E callee \in Next1.to :
          /\ Next1.do \in {"call", "some"} /\ IsCallReadOnly(Next1.path) => ~Cached(callee)
          /\ asked' = Reads(callee)
          /\ IF Next1.path \in DOMAIN Routes(callee)
             THEN /\ stack' = Append(WithTop(After), Frame(callee, Next1.path, Top.service))
                  /\ UNCHANGED unserved
             ELSE /\ stack' = <<>>
                  /\ unserved' = <<callee, Next1.path>>
    /\ UNCHANGED <<app, lines>>

\* A panic in a handler closes its connection, and every caller panics in turn.
Panic ==
    /\ stack # <<>>
    /\ stack' = <<>>
    /\ UNCHANGED <<app, lines, asked, unserved>>

\* The wrapper's end; what it announces is saved in the caller's cache.
PreReqEnd ==
    /\ stack # <<>>
    /\ Top.todo = <<>>
    /\ Announced(Top) => Cardinality(lines) < MaxLines
    /\ LET below == Front(stack)
       IN  stack' = IF below = <<>> THEN <<>>
                    ELSE [below EXCEPT ![Len(below)].wrote = @ \/ Top.wrote]
    /\ lines' = IF Announced(Top)
                THEN {l \in lines : l.at # Top.caller
                                    \/ l.key # HashCallArgs(Top.service, Top.method)}
                     \cup {[at |-> Top.caller, key |-> HashCallArgs(Top.service, Top.method),
                            of |-> <<Top.service, Top.method>>, wrote |-> Top.wrote]}
                ELSE lines
    /\ UNCHANGED <<app, asked, unserved>>

\* Invalidated, or pushed out of the cache.
DropLine ==
    /\ \E l \in lines : lines' = lines \ {l}
    /\ UNCHANGED <<app, stack, asked, unserved>>

Next ==
    \/ ClientRequest \/ SetState \/ LeaveLoop \/ ReturnOrNot \/ InvokeHit \/ Lookup
    \/ PerformRequest \/ Panic \/ PreReqEnd \/ DropLine

Spec == Init /\ [][Next]_vars

-----------------------------------------------------------------------------
\* The line a handler is about to take for the answer to its call was computed
\* for that call, although the services of an application share method names
\* and HashCallArgs puts nothing between the parts it hashes.
HitsAnswerTheCall ==
    At("call") \/ At("some") \/ At("asserthit") =>
       \A callee \in Next1.to : \A l \in lines :
          l.at = Top.service /\ l.key = HashCallArgs(callee, Next1.path)
             => l.of = <<callee, Next1.path>>

\* A hit skips the callee's handler.  No line that a lookup can find comes
\* from a run that wrote, itself or further down: no effect is ever skipped.
HitsSkipNoWrite ==
    \A l \in lines : IsCallReadOnly(l.of[2]) => ~l.wrote

\* A line is dropped because of what its run and the runs below it announced.
\* A run above an announced one is announced as well, so that no announced
\* run depends on reads the managers never hear of.
TrackedAllTheWay ==
    \A i \in DOMAIN stack : Announced(stack[i]) =>
       \A j \in (i + 1)..Len(stack) : Announced(stack[j])

\* The note at invoke.go:83: a request that reads one service through the
\* caches of two others may see a fresh answer and then an older one.  No
\* application here has such a diamond.
NoDiamond ==
    \A r1, r2 \in asked : r1[2] = r2[2] => r1[1] = r2[1]

\* Every call of a handler finds its path registered, but for the last hop of
\* ro_hitormiss in the chains of three and four.
Served ==
    unserved # None => app \in {"chain3", "chain4"} /\ unserved = <<"backend", "ro_hitormiss">>
=============================================================================
