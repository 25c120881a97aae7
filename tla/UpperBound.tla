----------------------------- MODULE UpperBound -----------------------------
(***************************************************************************)
(* The UpperBound build of pkg/invoke: no cache manager; a caller saves    *)
(* the answers to its read-only calls itself, through the channel          *)
(* SavingQueue and one goroutine, OffloadSave, that writes them to the     *)
(* cache in batches.  Nothing invalidates; lines may expire.               *)
(***************************************************************************)
EXTENDS Naturals, Sequences, FiniteSets

CONSTANTS
    Caller,             \* handlers of the service that makes the calls
    Call,               \* its read-only calls
    SavingBatchSize,
    QueueSize,          \* capacity of SavingQueue
    None,
    MaxVersion,         \* bound: versions of what is called
    MaxAnswers          \* bound: answers given

VARIABLES
    expires,        \* EXPIRATION_TTL is given
    version,        \* the state of the services called
    asking,         \* asking[x]: the call of caller x, None when it makes none
    SavingQueue,
    pipe,           \* commands of the pipeline; counter is its length
    counter,
    cache,          \* cache[c]: the answer stored for c, None when there is none
    answers         \* ghost: all answers put in SavingQueue

vars == <<expires, version, asking, SavingQueue, pipe, counter, cache, answers>>

Init ==
    /\ expires \in BOOLEAN
    /\ version = 0
    /\ asking = [x \in Caller |-> None]
    /\ SavingQueue = <<>>
    /\ pipe = <<>>
    /\ counter = 0
    /\ cache = [c \in Call |-> None]
    /\ answers = <<>>

\* Environment: what is called changes, whether or not it was cached.
Change ==
    /\ version < MaxVersion
    /\ version' = version + 1
    /\ UNCHANGED <<expires, asking, SavingQueue, pipe, counter, cache, answers>>

\* Invoke and CheckCache: a hit ends here and changes nothing.
Invoke(x, c) ==
    /\ asking[x] = None
    /\ cache[c] = None
    /\ asking' = [asking EXCEPT ![x] = [call |-> c, answered |-> FALSE, value |-> 0]]
    /\ UNCHANGED <<expires, version, SavingQueue, pipe, counter, cache, answers>>

\* The service called answers, or fails: then performRequest panics.
Answer(x) ==
    /\ asking[x] # None /\ ~asking[x].answered
    /\ \/ asking' = [asking EXCEPT ![x].answered = TRUE, ![x].value = version]
       \/ asking' = [asking EXCEPT ![x] = None]
    /\ UNCHANGED <<expires, version, SavingQueue, pipe, counter, cache, answers>>

\* The caller waits while SavingQueue is full.
ParseJsonAndSaveToCache(x) ==
    /\ asking[x] # None /\ asking[x].answered
    /\ Len(SavingQueue) < QueueSize
    /\ Len(answers) < MaxAnswers
    /\ LET line == <<asking[x].call, asking[x].value>>
       IN  /\ SavingQueue' = Append(SavingQueue, line)
           /\ answers' = Append(answers, line)
    /\ asking' = [asking EXCEPT ![x] = None]
    /\ UNCHANGED <<expires, version, pipe, counter, cache>>

\* The lines left in the cache by the commands of p, one after another.
Executed(p, c) ==
    LET sets == {i \in 1..Len(p) : p[i][1] = c}
    IN  IF sets = {} THEN cache[c]
        ELSE p[CHOOSE i \in sets : \A j \in sets : j <= i][2]

\* Faulty: the count goes on after a batch.
OffloadSaveUncounted ==
    /\ SavingQueue # <<>>
    /\ SavingQueue' = Tail(SavingQueue)
    /\ counter' = counter + 1
    /\ LET p == Append(pipe, Head(SavingQueue))
       IN  IF counter' = SavingBatchSize
           THEN /\ cache' = [c \in Call |-> Executed(p, c)]
                /\ pipe' = <<>>
           ELSE pipe' = p /\ UNCHANGED cache
    /\ UNCHANGED <<expires, version, asking, answers>>

OffloadSave ==
    /\ SavingQueue # <<>>
    /\ SavingQueue' = Tail(SavingQueue)
    /\ LET p == Append(pipe, Head(SavingQueue))
       IN  IF counter + 1 = SavingBatchSize
           THEN /\ cache' = [c \in Call |-> Executed(p, c)]
                /\ pipe' = <<>>
                /\ counter' = 0
           ELSE /\ pipe' = p
                /\ counter' = counter + 1
                /\ UNCHANGED cache
    /\ UNCHANGED <<expires, version, asking, answers>>

\* Redis drops a line at its expiration time.
Expire(c) ==
    /\ expires
    /\ cache[c] # None
    /\ cache' = [cache EXCEPT ![c] = None]
    /\ UNCHANGED <<expires, version, asking, SavingQueue, pipe, counter, answers>>

Next ==
    \/ Change
    \/ \E x \in Caller, c \in Call : Invoke(x, c)
    \/ \E x \in Caller : Answer(x) \/ ParseJsonAndSaveToCache(x)
    \/ OffloadSave
    \/ \E c \in Call : Expire(c)

Spec == Init /\ [][Next]_vars

-----------------------------------------------------------------------------
(***************************************************************************)
(* The answers reach the cache in the order they were queued and in whole  *)
(* batches: fewer than SavingBatchSize have left the queue and wait, and   *)
(* a line holds the last answer to its call among all those before them,   *)
(* or has expired, or had no such answer.                                  *)
(***************************************************************************)
BatchesSaved ==
    LET left == Len(answers) - Len(SavingQueue)
        saved == left - (left % SavingBatchSize)
        for(c) == {i \in 1..saved : answers[i][1] = c}
    IN  \A c \in Call :
           \/ cache[c] = None /\ (expires \/ for(c) = {})
           \/ \E i \in for(c) :
                 cache[c] = answers[i][2] /\ \A j \in for(c) : j <= i
=============================================================================
