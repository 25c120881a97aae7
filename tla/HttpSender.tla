----------------------------- MODULE HttpSender -----------------------------
(***************************************************************************)
(* The HttpSender goroutine of a cache manager: it takes what Process puts *)
(* in HttpQueue, merges it in an HttpSendBuffer and posts the buffer,      *)
(* caller by caller, to the cache managers upstream.  A POST returns when  *)
(* the request is in the remote work queue; told is what the requests      *)
(* posted so far made of each upstream line.                               *)
(***************************************************************************)
EXTENDS Naturals, Sequences

CONSTANTS
    Caller, Call,
    Val, NoVal,         \* return values of calls
    HttpBatchLimit,
    QueueSize           \* capacity of the channel HttpQueue

ASSUME NoValAssumption == NoVal \notin Val
ASSUME QueueSizeAssumption == QueueSize \in Nat \ {0}
ASSUME BatchLimitAssumption == HttpBatchLimit \in Nat

Entry == Caller \X Call

INSTANCE SendBuffer

VARIABLES
    HttpQueue,
    buffer,
    sinceLastFlush,
    flushing,       \* inside flushBuffer
    posting,        \* requests of the caller being flushed, not yet posted
    told,           \* told[e]: what the callers' managers were last told of e
    last            \* ghost, last[e]: what Process last put in HttpQueue on e

vars == <<HttpQueue, buffer, sinceLastFlush, flushing, posting, told, last>>

\* NoVal stands for an invalidated (or never saved) line.
Request ==
    [save : {TRUE}, entries : {{e} : e \in Entry}, val : Val]
        \cup [save : {FALSE}, entries : SUBSET Entry, val : {NoVal}]

Post == [inv : SUBSET Entry, save : [Entry -> Val \cup {NoVal}]]

Init ==
    /\ HttpQueue = <<>>
    /\ buffer = Empty
    /\ sinceLastFlush = 0
    /\ flushing = FALSE
    /\ posting = <<>>
    /\ told = [e \in Entry |-> NoVal]
    /\ last = [e \in Entry |-> NoVal]

-----------------------------------------------------------------------------
\* Process: sendSaveToCaller and sendInvsToCallers block while the channel is
\* full.

Enqueue(request) ==
    /\ Len(HttpQueue) < QueueSize
    /\ HttpQueue' = Append(HttpQueue, request)
    /\ last' = [e \in Entry |-> IF e \in request.entries THEN request.val ELSE last[e]]
    /\ UNCHANGED <<buffer, sinceLastFlush, flushing, posting, told>>

SendSaveToCaller(e, v) == Enqueue([save |-> TRUE, entries |-> {e}, val |-> v])

\* What is popped from the index is never empty.
SendInvsToCallers(entries) ==
    /\ entries # {}
    /\ Enqueue([save |-> FALSE, entries |-> entries, val |-> NoVal])

-----------------------------------------------------------------------------
\* HttpSender

Receive ==
    /\ ~flushing
    /\ HttpQueue # <<>>
    /\ buffer' = AddRequest(buffer, Head(HttpQueue))
    /\ HttpQueue' = Tail(HttpQueue)
    /\ sinceLastFlush' = sinceLastFlush + 1
    /\ flushing' = (sinceLastFlush' > HttpBatchLimit)
    /\ UNCHANGED <<posting, told, last>>

\* Faulty: the timer is only heeded when the batch is full.
TimeoutWhenFull ==
    /\ ~flushing
    /\ sinceLastFlush > HttpBatchLimit
    /\ flushing' = TRUE
    /\ UNCHANGED <<HttpQueue, buffer, sinceLastFlush, posting, told, last>>

\* No request for HttpTimeoutDuration, or the timer won the select.
Timeout ==
    /\ ~flushing
    /\ flushing' = TRUE
    /\ UNCHANGED <<HttpQueue, buffer, sinceLastFlush, posting, told, last>>

InvPost(caller) ==
    LET inv == InvOf(buffer, caller)
    IN  IF inv = {} THEN <<>> ELSE <<[Empty EXCEPT !.inv = inv]>>

SavePost(caller) ==
    LET save == SaveOf(buffer, caller)
    IN  IF save = {} THEN <<>>
        ELSE <<[Empty EXCEPT !.save =
                   [e \in Entry |-> IF e \in save THEN buffer.save[e] ELSE NoVal]]>>

\* flushBuffer ranges over a Go map: the callers come in any order.
FlushCaller(caller) ==
    /\ flushing
    /\ posting = <<>>
    /\ caller \in Callers(buffer)
    /\ buffer' = Without(buffer, caller)
    /\ posting' = InvPost(caller) \o SavePost(caller)
    /\ UNCHANGED <<HttpQueue, sinceLastFlush, flushing, told, last>>

Deliver ==
    /\ posting # <<>>
    /\ posting' = Tail(posting)
    /\ LET post == Head(posting)
       IN  told' = [e \in Entry |-> IF e \in post.inv THEN NoVal
                                    ELSE IF e \in Saved(post) THEN post.save[e]
                                    ELSE told[e]]
    /\ UNCHANGED <<HttpQueue, buffer, sinceLastFlush, flushing, last>>

\* Faulty: the batch is not counted from zero again.
FlushDoneUncounted ==
    /\ flushing
    /\ posting = <<>>
    /\ Callers(buffer) = {}
    /\ flushing' = FALSE
    /\ UNCHANGED <<HttpQueue, buffer, sinceLastFlush, posting, told, last>>

\* Faulty: the flush goes on while there is something in the queue.
FlushDoneWhenDrained ==
    /\ flushing
    /\ posting = <<>>
    /\ Callers(buffer) = {}
    /\ HttpQueue = <<>>
    /\ flushing' = FALSE
    /\ sinceLastFlush' = 0
    /\ UNCHANGED <<HttpQueue, buffer, posting, told, last>>

FlushDone ==
    /\ flushing
    /\ posting = <<>>
    /\ Callers(buffer) = {}
    /\ flushing' = FALSE
    /\ sinceLastFlush' = 0
    /\ UNCHANGED <<HttpQueue, buffer, posting, told, last>>

Process ==
    \/ \E e \in Entry, v \in Val : SendSaveToCaller(e, v)
    \/ \E entries \in SUBSET Entry : SendInvsToCallers(entries)

Sender ==
    \/ Receive
    \/ Timeout
    \/ \E caller \in Caller : FlushCaller(caller)
    \/ Deliver
    \/ FlushDone

Next == Process \/ Sender

Spec == Init /\ [][Next]_vars

(***************************************************************************)
(* The goroutine keeps running, a POST is answered, and the timer fires    *)
(* once no request came for its duration.  A Go select picks at random     *)
(* among its ready cases, so that the timer cannot win for ever against a  *)
(* queue that is not empty: strong fairness.  Process may stop sending.    *)
(***************************************************************************)
FairSpec ==
    /\ Spec
    /\ SF_vars(Receive)
    /\ WF_vars(Timeout)
    /\ WF_vars(\E caller \in Caller : FlushCaller(caller))
    /\ WF_vars(Deliver)
    /\ WF_vars(FlushDone)

-----------------------------------------------------------------------------
\* Types of all variables.
TypeOK ==
    /\ HttpQueue \in Seq(Request)
    /\ buffer \in Buffer
    /\ sinceLastFlush \in 0..(HttpBatchLimit + 1)
    /\ flushing \in BOOLEAN
    /\ posting \in Seq(Post)
    /\ told \in [Entry -> Val \cup {NoVal}]
    /\ last \in [Entry -> Val \cup {NoVal}]

\* httpsender.go:133: "The save calls and invalidate should always be
\* disjoint so it doesn't matter which is sent first".
Disjoint ==
    /\ DisjointBuffer(buffer)
    /\ \A i, j \in 1..Len(posting) : posting[i].inv \cap Saved(posting[j]) = {}

(***************************************************************************)
(* Merging loses no last word: what the callers will be left with about a  *)
(* line once queue, buffer and posts have drained is what Process said     *)
(* last, whatever was overtaken, merged or cancelled in the buffer.        *)
(***************************************************************************)
Queued(e) == {i \in 1..Len(HttpQueue) : e \in HttpQueue[i].entries}
Posted(e) == {i \in 1..Len(posting) : e \in posting[i].inv \cup Saved(posting[i])}

LastWord ==
    \A e \in Entry :
        \/ \E i \in Queued(e) :
              /\ \A j \in Queued(e) : j <= i
              /\ last[e] = HttpQueue[i].val
        \/ /\ Queued(e) = {}
           /\ e \in Buffered(buffer)
           /\ last[e] = buffer.save[e]
        \/ /\ Queued(e) = {}
           /\ e \notin Buffered(buffer)
           /\ \E i \in Posted(e) : last[e] = posting[i].save[e]
        \/ /\ Queued(e) = {}
           /\ e \notin Buffered(buffer)
           /\ Posted(e) = {}
           /\ last[e] = told[e]

(***************************************************************************)
(* An invalidation never waits in the buffer for ever: below the batch     *)
(* limit the timeout flushes it, even if Process sends nothing more.       *)
(***************************************************************************)
Flushed ==
    \A e \in Entry : (e \in Buffered(buffer)) ~> (e \notin Buffered(buffer))

(***************************************************************************)
(* Back-pressure ends: while it is blocked on a full HttpQueue, Process is *)
(* let go again.                                                           *)
(***************************************************************************)
Unblocked == (Len(HttpQueue) = QueueSize) ~> (Len(HttpQueue) < QueueSize)
=============================================================================
