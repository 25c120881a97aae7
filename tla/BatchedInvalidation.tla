------------------------ MODULE BatchedInvalidation ------------------------
(***************************************************************************)
(* One cache manager with -batch_call_invalidation: Process of             *)
(* internal/cm/server.go hands InvalidateCallsRequests to a channel that a *)
(* second goroutine, woken by a ticker, empties.  The two share State      *)
(* without a lock.  A step here ends where the other goroutine can see or  *)
(* undo what was done: the slice header state.history is read in one step  *)
(* and written in another, entries of the LRU maps are read, changed and   *)
(* written back.                                                           *)
(*                                                                         *)
(* The items of a Go history are pointers (or immutable keys): [kind, ref] *)
(* here, with the names they point to in heap.  Two copies of the header   *)
(* share their items.                                                      *)
(***************************************************************************)
EXTENDS CMState

CONSTANTS
    Rid,            \* runs of read-only handlers
    None,
    Interleaved,    \* may a tick come while Process handles a request?
    BufferSize,     \* capacity of invalidateBuffer, 100 in the code
    MaxHistory,     \* bound: no new request with this many items in history
    Ref             \* bound: addresses of history items, 1..n

ASSUME NoneIsNoCall == None \notin Served
ASSUME InterleavedAssumption == Interleaved \in BOOLEAN
ASSUME BoundsAssumption == BufferSize \in Nat \ {0} /\ MaxHistory \in Nat
ASSUME AddressAssumption == Ref \subseteq Nat

VARIABLES
    history,    \* State.history
    heap,       \* heap[ref]: the names the item at ref holds
    deps,       \* State.keyDeps and State.callDeps
    cached,     \* calls with a line in this service's own cache (Redis)
    buffer,     \* invalidateBuffer
    process,    \* where Process is in the request it handles
    ticker,     \* where the ticker goroutine is in its tick
    serving,    \* serving[r]: the call run r is of, None when r is not running
    since,      \* ghost, since[r]: what was invalidated while r could read it,
                \* calls from when Process received their invalidation
    line        \* ghost, line[e]: the last word put in HttpQueue about line e

shared == <<history, heap, deps, cached, buffer>>
ghosts == <<serving, since, line>>
vars == <<shared, process, ticker, ghosts>>

Dropped == [held |-> FALSE, used |-> {}, stale |-> {}]

Idle == [at |-> "idle"]
Waiting == [at |-> "wait"]

Init ==
    /\ history = <<>>
    /\ heap = [ref \in Ref |-> {}]
    /\ deps = NoDeps
    /\ cached = {}
    /\ buffer = <<>>
    /\ process = Idle
    /\ ticker = Waiting
    /\ serving = [r \in Rid |-> None]
    /\ since = [r \in Rid |-> {}]
    /\ line = [e \in Entry |-> Dropped]

-----------------------------------------------------------------------------
\* Pointers

\* What CMState calls a history.
Deref(items) == [i \in 1..Len(items) |-> [kind |-> items[i].kind, names |-> heap[items[i].ref]]]

RefsOf(items) == {items[i].ref : i \in 1..Len(items)}

Copies == {p.history : p \in {q \in {process, ticker} : q.at = "write"}}

Live ==
    RefsOf(history) \cup (UNION {RefsOf(copy) : copy \in Copies})
        \cup (IF ticker.at = "append" THEN {ticker.ref} ELSE {})

NewRef == CHOOSE ref \in Ref \ Live : \A other \in Ref \ Live : ref <= other

\* heap with a new item for names; the garbage is cleared.
Alloc(names) ==
    [ref \in Ref |-> IF ref = NewRef THEN names ELSE IF ref \in Live THEN heap[ref] ELSE {}]

Extended(kind) == Append(history, [kind |-> kind, ref |-> NewRef])

\* append has read the header and made the new one; it is written next.
Writing(items, next) == [at |-> "write", history |-> items, next |-> next]

-----------------------------------------------------------------------------
\* Process

\* Calls whose invalidation Process has received and no tick carried out yet.
Buffered == UNION {buffer[i] : i \in 1..Len(buffer)}

InProcess == IF process.at = "buffer" THEN process.calls ELSE {}

InTicker ==
    IF ticker.at = "wait" THEN {}
    ELSE IF ticker.at = "write" THEN ticker.next.calls
    ELSE ticker.calls

Received == Buffered \cup InProcess \cup InTicker

Request ==
    /\ process = Idle
    /\ Interleaved \/ ticker = Waiting
    /\ \A items \in Copies \cup {history} : Len(items) < MaxHistory

StartRequest(r, ca) ==
    LET last == Len(history)
    IN  /\ Request
        /\ serving[r] = None
        /\ \A q \in Rid : serving[q] # ca
        /\ serving' = [serving EXCEPT ![r] = ca]
        /\ since' = [since EXCEPT ![r] = Received]
        /\ IF last > 0 /\ IsCallArgSet(history[last])
           THEN /\ heap' = [heap EXCEPT ![history[last].ref] = @ \cup {ca}]
                /\ UNCHANGED process
           ELSE /\ heap' = Alloc({ca})
                /\ process' = Writing(Extended("calls"), Idle)
        /\ UNCHANGED <<history, deps, cached, buffer, ticker, line>>

\* A handler that panics never ends.
Abandon(r) ==
    /\ serving[r] # None
    /\ serving' = [serving EXCEPT ![r] = None]
    /\ since' = [since EXCEPT ![r] = {}]
    /\ UNCHANGED <<shared, process, ticker, line>>

Saving(entry, used, stale) ==
    [at |-> "save", entry |-> entry, used |-> used, stale |-> stale]

\* validCall deletes the start in place; the collection writes the header.
EndRequest(r, caller, used) ==
    LET ca == serving[r]
        past == Deref(history)
        rest == RemoveStart(past, ca)
        next == IF ValidCall(past, ca, used)
                THEN Saving(<<caller, ca>>, used, since[r] \cap used) ELSE Idle
    IN  /\ process = Idle
        /\ Interleaved \/ ticker = Waiting
        /\ serving[r] # None
        /\ serving' = [serving EXCEPT ![r] = None]
        /\ since' = [since EXCEPT ![r] = {}]
        /\ heap' = [ref \in Ref |->
                       IF \E i \in 1..Len(history) : history[i].ref = ref
                       THEN rest[CHOOSE i \in 1..Len(history) : history[i].ref = ref].names
                       ELSE heap[ref]]
        /\ \/ process' = next
           \/ /\ StartsOf(past, ca) # {}
              /\ \E j \in 1..(Len(history) + 1) :
                    /\ CollectsFrom(rest, j)
                    /\ process' = Writing(SubSeq(history, j, Len(history)), next)
        /\ UNCHANGED <<history, deps, cached, buffer, ticker, line>>

InvalidateKeyRequest(k) ==
    /\ Request
    /\ heap' = Alloc({k})
    /\ process' = Writing(Extended("write"), [at |-> "pop", key |-> k])
    /\ UNCHANGED <<history, deps, cached, buffer, ticker, ghosts>>

\* What runs and lines depended on when names were invalidated.
Noticed(names) ==
    since' = [r \in Rid |-> IF serving[r] = None THEN {} ELSE since[r] \cup names]

InvalidateCallsRequest(calls) ==
    /\ Request
    /\ process' = [at |-> "buffer", calls |-> calls]
    /\ Noticed(calls)
    /\ line' = [e \in Entry |-> [line[e] EXCEPT !.stale = @ \cup (line[e].used \cap calls)]]
    /\ UNCHANGED <<shared, ticker, serving>>

SaveCallsRequest(calls) ==
    /\ Request
    /\ cached' = cached \cup calls
    /\ UNCHANGED <<history, heap, deps, buffer, process, ticker, ghosts>>

WriteHistory ==
    /\ process.at = "write"
    /\ history' = process.history
    /\ process' = process.next
    /\ UNCHANGED <<heap, deps, cached, buffer, ticker, ghosts>>

\* popKeyDeps and sendInvsToCallers; the ticker goroutine has no part in keyDeps.
PopKeyDeps ==
    /\ process.at = "pop"
    /\ LET names == {process.key}
       IN  /\ deps' = PopDeps(deps, names)
           /\ Noticed(names)
           /\ line' = [e \in Entry |-> IF e \in Popped(deps, names) THEN Dropped
                         ELSE [line[e] EXCEPT !.stale = @ \cup (line[e].used \cap names)]]
    /\ process' = Idle
    /\ UNCHANGED <<history, heap, cached, buffer, ticker, serving>>

Store(todo) ==
    IF todo = {} THEN Idle ELSE [at |-> "get", entry |-> process.entry, todo |-> todo]

\* sendSaveToCaller and storeKeyDeps
SendSave ==
    /\ process.at = "save"
    /\ line' = [line EXCEPT ![process.entry] =
                   [held |-> TRUE, used |-> process.used, stale |-> process.stale]]
    /\ deps' = StoreDeps(deps, process.entry, process.used \cap Key)
    /\ process' = Store(process.used \cap Called)
    /\ UNCHANGED <<history, heap, cached, buffer, ticker, serving, since>>

\* storeCallDeps, one dependency: Get the callers of d,
GetCallDep(d) ==
    /\ process.at = "get"
    /\ d \in process.todo
    /\ process' = [at |-> "mark", entry |-> process.entry, todo |-> process.todo,
                   dep |-> d, callers |-> deps[d]]
    /\ UNCHANGED <<shared, ticker, ghosts>>

\* add to them in place, which the map sees unless they were popped,
MarkCallDep ==
    /\ process.at = "mark"
    /\ deps' = [deps EXCEPT ![process.dep] =
                   IF @ = {} THEN {} ELSE @ \cup {process.entry}]
    /\ process' = [process EXCEPT !.at = "add", !.callers = @ \cup {process.entry}]
    /\ UNCHANGED <<history, heap, cached, buffer, ticker, ghosts>>

\* Faulty: the callers of the dependency are started anew.
AddCallDepAnew ==
    /\ process.at = "add"
    /\ deps' = [deps EXCEPT ![process.dep] = {process.entry}]
    /\ process' = Store(process.todo \ {process.dep})
    /\ UNCHANGED <<history, heap, cached, buffer, ticker, ghosts>>

\* and put them into the map.
AddCallDep ==
    /\ process.at = "add"
    /\ deps' = [deps EXCEPT ![process.dep] = process.callers]
    /\ process' = Store(process.todo \ {process.dep})
    /\ UNCHANGED <<history, heap, cached, buffer, ticker, ghosts>>

\* Faulty: sends to a full channel do not block.
BufferCallsUnlimited ==
    /\ process.at = "buffer"
    /\ buffer' = Append(buffer, process.calls)
    /\ process' = Idle
    /\ UNCHANGED <<history, heap, deps, cached, ticker, ghosts>>

BufferCalls ==
    /\ process.at = "buffer"
    /\ Len(buffer) < BufferSize
    /\ buffer' = Append(buffer, process.calls)
    /\ process' = Idle
    /\ UNCHANGED <<history, heap, deps, cached, ticker, ghosts>>

-----------------------------------------------------------------------------
\* The ticker goroutine

\* Faulty: a tick waits until Process is done with its request.
TickWhenIdle ==
    /\ ticker = Waiting
    /\ process = Idle
    /\ ticker' = [at |-> "drain", calls |-> {}]
    /\ UNCHANGED <<shared, process, ghosts>>

Tick ==
    /\ ticker = Waiting
    /\ Interleaved \/ process.at \in {"idle", "buffer"}
    /\ ticker' = [at |-> "drain", calls |-> {}]
    /\ UNCHANGED <<shared, process, ghosts>>

Drain ==
    /\ ticker.at = "drain"
    /\ buffer # <<>>
    /\ buffer' = Tail(buffer)
    /\ ticker' = [ticker EXCEPT !.calls = @ \cup Head(buffer)]
    /\ UNCHANGED <<history, heap, deps, cached, process, ghosts>>

\* The loop variable, to which all the items of the loop will point, is
\* allocated with the first of them.
Appending(calls, todo, ref) == [at |-> "append", calls |-> calls, todo |-> todo, ref |-> ref]

Popping(calls, todo, popped) == [at |-> "pop", calls |-> calls, todo |-> todo, popped |-> popped]

Drained ==
    /\ ticker.at = "drain"
    /\ buffer = <<>>
    /\ ticker' = IF ticker.calls = {} THEN Waiting
                 ELSE Appending(ticker.calls, ticker.calls, None)
    /\ UNCHANGED <<shared, process, ghosts>>

\* Faulty: the calls leave no mark in the history.
PopOnly(c) ==
    /\ ticker.at = "append"
    /\ ticker' = Popping(ticker.calls, ticker.calls, {})
    /\ UNCHANGED <<shared, process, ghosts>>

AppendInvCall(c) ==
    LET ref == IF ticker.ref = None THEN NewRef ELSE ticker.ref
    IN  /\ ticker.at = "append"
        /\ c \in ticker.todo
        /\ heap' = IF ticker.ref = None THEN Alloc({c}) ELSE [heap EXCEPT ![ref] = {c}]
        /\ ticker' = Writing(Append(history, [kind |-> "invcall", ref |-> ref]),
                             Appending(ticker.calls, ticker.todo \ {c}, ref))
        /\ UNCHANGED <<history, deps, cached, buffer, process, ghosts>>

WriteInvCall ==
    /\ ticker.at = "write"
    /\ history' = ticker.history
    /\ ticker' = IF ticker.next.todo = {}
                 THEN Popping(ticker.next.calls, ticker.next.calls, {})
                 ELSE ticker.next
    /\ UNCHANGED <<heap, deps, cached, buffer, process, ghosts>>

PopCallDep(c) ==
    /\ ticker.at = "pop"
    /\ c \in ticker.todo
    /\ deps' = PopDeps(deps, {c})
    /\ ticker' = Popping(ticker.calls, ticker.todo \ {c}, ticker.popped \cup deps[c])
    /\ UNCHANGED <<history, heap, cached, buffer, process, ghosts>>

\* Faulty: with nobody to tell, the tick is over.
SendInvsOrReturn ==
    /\ ticker.at = "pop"
    /\ ticker.todo = {}
    /\ line' = [e \in Entry |-> IF e \in ticker.popped THEN Dropped ELSE line[e]]
    /\ ticker' = IF ticker.popped = {} THEN Waiting
                 ELSE [at |-> "remove", calls |-> ticker.calls]
    /\ UNCHANGED <<shared, process, serving, since>>

SendInvs ==
    /\ ticker.at = "pop"
    /\ ticker.todo = {}
    /\ line' = [e \in Entry |-> IF e \in ticker.popped THEN Dropped ELSE line[e]]
    /\ ticker' = [at |-> "remove", calls |-> ticker.calls]
    /\ UNCHANGED <<shared, process, serving, since>>

CacheRemoveCalls ==
    /\ ticker.at = "remove"
    /\ cached' = cached \ ticker.calls
    /\ ticker' = Waiting
    /\ UNCHANGED <<history, heap, deps, buffer, process, ghosts>>

-----------------------------------------------------------------------------
NewRequest ==
    \/ \E r \in Rid, ca \in Served : StartRequest(r, ca)
    \/ \E r \in Rid : Abandon(r)
    \/ \E r \in Rid, caller \in Caller, used \in SUBSET Dep : EndRequest(r, caller, used)
    \/ \E k \in Key : InvalidateKeyRequest(k)
    \/ \E calls \in (SUBSET Called) \ {{}} :
          InvalidateCallsRequest(calls) \/ SaveCallsRequest(calls)

Process ==
    \/ WriteHistory
    \/ PopKeyDeps
    \/ SendSave
    \/ \E d \in Called : GetCallDep(d)
    \/ MarkCallDep
    \/ AddCallDep
    \/ BufferCalls

Ticker ==
    \/ Tick
    \/ Drain
    \/ Drained
    \/ \E c \in Called : AppendInvCall(c) \/ PopCallDep(c)
    \/ WriteInvCall
    \/ SendInvs
    \/ CacheRemoveCalls

Next == NewRequest \/ Process \/ Ticker

Spec == Init /\ [][Next]_vars

(***************************************************************************)
(* Both goroutines keep running and the ticker keeps ticking.  Requests    *)
(* may stop coming.                                                        *)
(***************************************************************************)
FairSpec == Spec /\ WF_vars(Process) /\ WF_vars(Ticker)

-----------------------------------------------------------------------------
Item == [kind : {"calls", "write", "invcall"}, ref : Ref]

Reading ==
    {Idle} \cup [at : {"pop"}, key : Key]
        \cup [at : {"save"}, entry : Entry, used : SUBSET Dep, stale : SUBSET Dep]

\* Types of all variables; the addresses suffice and the channel keeps to its
\* capacity.
TypeOK ==
    /\ history \in Seq(Item)
    /\ heap \in [Ref -> SUBSET (Served \cup Dep)]
    /\ deps \in [Dep -> SUBSET Entry]
    /\ cached \in SUBSET Called
    /\ buffer \in Seq(SUBSET Called) /\ Len(buffer) <= BufferSize
    /\ \/ process \in Reading
       \/ process.at = "write" /\ process.history \in Seq(Item) /\ process.next \in Reading
       \/ process \in [at : {"buffer"}, calls : SUBSET Called]
       \/ process \in [at : {"get"}, entry : Entry, todo : SUBSET Called]
       \/ process \in [at : {"mark", "add"}, entry : Entry, todo : SUBSET Called,
                        dep : Called, callers : SUBSET Entry]
    /\ \/ ticker = Waiting
       \/ ticker \in [at : {"drain", "remove"}, calls : SUBSET Called]
       \/ ticker.at \in {"append", "pop"} /\ ticker.todo \subseteq ticker.calls
       \/ ticker.at = "write" /\ ticker.history \in Seq(Item)
    /\ serving \in [Rid -> Served \cup {None}]
    /\ since \in [Rid -> SUBSET Dep]
    /\ line \in [Entry -> [held : BOOLEAN, used : SUBSET Dep, stale : SUBSET Dep]]

(***************************************************************************)
(* When Process comes to a request, the starts of the runs that are on are *)
(* in the history: state.go:210, "This must never be reachable (except if  *)
(* we start dropping requests)", of the end of the walk of validCall.      *)
(***************************************************************************)
StartFound ==
    process = Idle =>
        \A r \in Rid : serving[r] # None => StartsOf(Deref(history), serving[r]) # {}

(***************************************************************************)
(* While the two goroutines get and put the same entries of callDeps       *)
(* without a lock, no line a caller holds drops out of the index: it is    *)
(* there under all the run used, or Process is about to put it there, or   *)
(* the ticker goroutine is about to tell the caller.                       *)
(***************************************************************************)
Storing(e) == process.at \in {"get", "mark", "add"} /\ process.entry = e

Dropping(e) == ticker.at = "pop" /\ e \in ticker.popped

Registered ==
    \A e \in Entry : line[e].held =>
        \/ \A d \in line[e].used : e \in deps[d]
        \/ Storing(e)
        \/ Dropping(e)

(***************************************************************************)
(* Delaying invalidations does no harm as long as a tick is not mixed with *)
(* a request: a line held upstream that may be out of date waits for a     *)
(* call some tick will invalidate, although until then runs start, read    *)
(* the old line from the cache, end, and are judged valid.                 *)
(***************************************************************************)
StaleIsReceived == \A e \in Entry : line[e].stale \subseteq Received

(***************************************************************************)
(* Once invalidations stop coming, what was received is carried out: the   *)
(* call leaves the cache.  (While they come, the loop that drains the      *)
(* channel need not end: server.go:124-137 has no limit.)                  *)
(***************************************************************************)
Quiet == <>[][~BufferCalls]_vars

Applied == Quiet => \A c \in Called : (c \in Received) ~> (c \notin cached)

(***************************************************************************)
(* Process, blocked on the full channel, is let go.                        *)
(***************************************************************************)
Unblocked == (process.at = "buffer") ~> (process.at # "buffer")
=============================================================================
