------------------------------ MODULE MuCache ------------------------------
(***************************************************************************)
(* The system: services that answer calls from their database and by       *)
(* calling each other, and beside each service a cache manager, its        *)
(* HttpSender and the cache of what the service called.  Composes CMState  *)
(* (the managers' state) and SendBuffer (what they have to tell upstream). *)
(*                                                                         *)
(* A handler is any order of its reads and calls.  A value is the set of   *)
(* (key, version) pairs it was computed from.  Runs are named by their     *)
(* call: at most one run of the same call arguments is on at a time.       *)
(***************************************************************************)
EXTENDS Naturals, Sequences, FiniteSets, SequencesExt

CONSTANTS
    Service, Call, Key,
    Owner,          \* Owner[x]: the service of call or key x
    Reads,          \* Reads[c]: the keys the handler of c reads
    Calls,          \* Calls[c]: the calls the handler of c makes
    Footprint,      \* Footprint[c]: the keys the answer to c depends on
    Top,            \* calls made by the client
    None, NoVal,
    HttpBatchLimit,
    MaxWrites,      \* bound: writes of each key
    MaxRequests     \* bound: requests of the client

ASSUME CallsAndKeysApart == Call \cap Key = {}

\* A handler reads the database of its own service.
ASSUME GraphAssumption ==
    /\ IsFiniteSet(Call)
    /\ \A x \in Call \cup Key : Owner[x] \in Service
    /\ \A c \in Call : /\ Reads[c] \subseteq {k \in Key : Owner[k] = Owner[c]}
                       /\ Calls[c] \subseteq Call
    /\ Top \subseteq Call

ASSUME FootprintAssumption ==
    \A c \in Call : Footprint[c] = Reads[c] \cup UNION {Footprint[d] : d \in Calls[c]}

ASSUME BoundAssumption == {HttpBatchLimit, MaxWrites, MaxRequests} \subseteq Nat

Value == SUBSET (Key \X (0..MaxWrites))

ASSUME AbsenceAssumption == None \notin Call /\ \A v \in Value : v # NoVal

INSTANCE CMState WITH Served <- Call, Called <- Call, Caller <- Service
INSTANCE SendBuffer WITH Val <- Value

VARIABLES
    db,         \* db[k]: the version of key k in the database
    unsent,     \* unsent[k]: writes of k whose PostWrite is still to come
    run,        \* run[c]: the handler running call c
    requests,   \* requests the client made so far
    cache,      \* cache[s][c]: the line of c in the cache of service s
    WQ,         \* WQ[s]: the work queue of the manager of s
    history,    \* history[s], deps[s]: the state of the manager of s
    deps,
    HttpQueue,  \* HttpQueue[s], buffer[s], batch[s]: its HttpSender
    buffer,
    batch       \* requests received since the last flush

app == <<db, unsent, run, requests>>
manager == <<history, deps, cache>>
sender == <<buffer, batch>>
vars == <<app, manager, sender, WQ, HttpQueue>>

Idle == [phase |-> "idle", parent |-> None, todo |-> {}, used |-> {}, got |-> {}]
Asked(parent, c) ==
    [phase |-> "asked", parent |-> parent, todo |-> Reads[c] \cup Calls[c],
     used |-> {}, got |-> {}]

Init ==
    /\ db = [k \in Key |-> 0]
    /\ unsent = [k \in Key |-> 0]
    /\ run = [c \in Call |-> Idle]
    /\ requests = 0
    /\ cache = [s \in Service |-> [c \in Call |-> NoVal]]
    /\ WQ = [s \in Service |-> <<>>]
    /\ history = [s \in Service |-> <<>>]
    /\ deps = [s \in Service |-> NoDeps]
    /\ HttpQueue = [s \in Service |-> <<>>]
    /\ buffer = [s \in Service |-> Empty]
    /\ batch = [s \in Service |-> 0]

-----------------------------------------------------------------------------
\* Writers: SetState writes the database, then tells the manager.

Write(k) ==
    /\ db[k] < MaxWrites
    /\ db' = [db EXCEPT ![k] = @ + 1]
    /\ unsent' = [unsent EXCEPT ![k] = @ + 1]
    /\ UNCHANGED <<run, requests, manager, sender, WQ, HttpQueue>>

PostWrite(k) ==
    /\ unsent[k] > 0
    /\ unsent' = [unsent EXCEPT ![k] = @ - 1]
    /\ WQ' = [WQ EXCEPT ![Owner[k]] = Append(@, [type |-> "inv", key |-> k])]
    /\ UNCHANGED <<db, run, requests, manager, sender, HttpQueue>>

-----------------------------------------------------------------------------
\* Handlers.  A run asked for by the client has no dependencies kept and is
\* not announced to the manager.

ByClient(c) == run[c].parent = None
Waiting(c) == \E d \in Call : run[d].parent = c
Active(c) == run[c].phase = "on" /\ ~Waiting(c)

Got(r, d, value, byClient) ==
    [r EXCEPT !.todo = @ \ {d}, !.got = @ \cup value,
              !.used = IF byClient THEN @ ELSE @ \cup {d}]

ClientRequest(c) ==
    /\ run[c] = Idle
    /\ requests < MaxRequests
    /\ requests' = requests + 1
    /\ run' = [run EXCEPT ![c] = [Asked(None, c) EXCEPT !.phase = "on"]]
    /\ UNCHANGED <<db, unsent, manager, sender, WQ, HttpQueue>>

PreReqStart(c) ==
    /\ run[c].phase = "asked"
    /\ run' = [run EXCEPT ![c].phase = "on"]
    /\ WQ' = [WQ EXCEPT ![Owner[c]] = Append(@, [type |-> "start", call |-> c])]
    /\ UNCHANGED <<db, unsent, requests, manager, sender, HttpQueue>>

GetState(c, k) ==
    /\ Active(c)
    /\ k \in run[c].todo
    /\ run' = [run EXCEPT ![c] = Got(@, k, {<<k, db[k]>>}, ByClient(c))]
    /\ UNCHANGED <<db, unsent, requests, manager, sender, WQ, HttpQueue>>

InvokeHit(c, d) ==
    /\ Active(c)
    /\ d \in run[c].todo
    /\ cache[Owner[c]][d] # NoVal
    /\ run' = [run EXCEPT ![c] = Got(@, d, cache[Owner[c]][d], ByClient(c))]
    /\ UNCHANGED <<db, unsent, requests, manager, sender, WQ, HttpQueue>>

InvokeMiss(c, d) ==
    /\ Active(c)
    /\ d \in run[c].todo
    /\ cache[Owner[c]][d] = NoVal
    /\ run[d] = Idle
    /\ run' = [run EXCEPT ![d] = Asked(c, d)]
    /\ UNCHANGED <<db, unsent, requests, manager, sender, WQ, HttpQueue>>

\* PreReqEnd, then the answer: to the client, or to the run that asked.
PreReqEnd(c) ==
    /\ Active(c)
    /\ run[c].todo = {}
    /\ IF ByClient(c)
       THEN /\ run' = [run EXCEPT ![c] = Idle]
            /\ UNCHANGED WQ
       ELSE LET p == run[c].parent
            IN  /\ run' = [[run EXCEPT ![c] = Idle] EXCEPT
                             ![p] = Got(@, c, run[c].got, ByClient(p))]
                /\ WQ' = [WQ EXCEPT ![Owner[c]] =
                             Append(@, [type |-> "end", call |-> c, caller |-> Owner[p],
                                        used |-> run[c].used, val |-> run[c].got])]
    /\ UNCHANGED <<db, unsent, requests, manager, sender, HttpQueue>>

-----------------------------------------------------------------------------
\* Cache managers: Process takes the head of the work queue.

Take(s, type) ==
    /\ WQ[s] # <<>>
    /\ Head(WQ[s]).type = type
    /\ WQ' = [WQ EXCEPT ![s] = Tail(@)]

Send(s, request) == HttpQueue' = [HttpQueue EXCEPT ![s] = Append(@, request)]

SendInvsToCallers(s, entries) ==
    IF entries = {} THEN UNCHANGED HttpQueue
    ELSE Send(s, [save |-> FALSE, entries |-> entries, val |-> NoVal])

ProcessStart(s) ==
    /\ Take(s, "start")
    /\ history' = [history EXCEPT ![s] = AppendCall(@, Head(WQ[s]).call)]
    /\ UNCHANGED <<app, deps, cache, sender, HttpQueue>>

ProcessEnd(s) ==
    LET m == Head(WQ[s])
        entry == <<m.caller, m.call>>
    IN  /\ Take(s, "end")
        /\ \E rest \in Forgotten(history[s], m.call) :
              history' = [history EXCEPT ![s] = rest]
        /\ IF ValidCall(history[s], m.call, m.used)
           THEN /\ Send(s, [save |-> TRUE, entries |-> {entry}, val |-> m.val])
                /\ deps' = [deps EXCEPT ![s] = StoreDeps(@, entry, m.used)]
           ELSE UNCHANGED <<HttpQueue, deps>>
        /\ UNCHANGED <<app, cache, sender>>

ProcessInvalidateKey(s) ==
    LET k == Head(WQ[s]).key
    IN  /\ Take(s, "inv")
        /\ history' = [history EXCEPT ![s] = AppendWrite(@, k)]
        /\ deps' = [deps EXCEPT ![s] = PopDeps(@, {k})]
        /\ SendInvsToCallers(s, Popped(deps[s], {k}))
        /\ UNCHANGED <<app, cache, sender>>

ProcessInvalidateCalls(s) ==
    LET names == Head(WQ[s]).calls
    IN  /\ Take(s, "invcalls")
        /\ \E calls \in SetToSeqs(names) :
              history' = [history EXCEPT ![s] = AppendInvCalls(@, calls)]
        /\ deps' = [deps EXCEPT ![s] = PopDeps(@, names)]
        /\ SendInvsToCallers(s, Popped(deps[s], names))
        /\ cache' = [cache EXCEPT ![s] =
                        [c \in Call |-> IF c \in names THEN NoVal ELSE @[c]]]
        /\ UNCHANGED <<app, sender>>

ProcessSave(s) ==
    LET lines == Head(WQ[s]).lines
    IN  /\ Take(s, "save")
        /\ cache' = [cache EXCEPT ![s] =
                        [c \in Call |-> IF lines[c] # NoVal THEN lines[c] ELSE @[c]]]
        /\ UNCHANGED <<app, history, deps, sender, HttpQueue>>

Process(s) ==
    \/ ProcessStart(s)
    \/ ProcessEnd(s)
    \/ ProcessInvalidateKey(s)
    \/ ProcessInvalidateCalls(s)
    \/ ProcessSave(s)

-----------------------------------------------------------------------------
\* HttpSender.  The posts of one flush go out one after another; here they
\* reach the work queues in one step, the order at each receiver being kept.

\* Faulty: a full batch is not flushed first.
ReceiveUnlimited(s) ==
    /\ HttpQueue[s] # <<>>
    /\ HttpQueue' = [HttpQueue EXCEPT ![s] = Tail(@)]
    /\ batch' = [batch EXCEPT ![s] = @ + 1]
    /\ buffer' = [buffer EXCEPT ![s] = AddRequest(@, Head(HttpQueue[s]))]
    /\ UNCHANGED <<app, manager, WQ>>

Receive(s) ==
    /\ HttpQueue[s] # <<>>
    /\ batch[s] <= HttpBatchLimit
    /\ HttpQueue' = [HttpQueue EXCEPT ![s] = Tail(@)]
    /\ batch' = [batch EXCEPT ![s] = @ + 1]
    /\ buffer' = [buffer EXCEPT ![s] = AddRequest(@, Head(HttpQueue[s]))]
    /\ UNCHANGED <<app, manager, WQ>>

Posts(b, caller) ==
    LET inv == {e[2] : e \in InvOf(b, caller)}
    IN  (IF inv = {} THEN <<>> ELSE <<[type |-> "invcalls", calls |-> inv]>>)
        \o (IF SaveOf(b, caller) = {} THEN <<>>
            ELSE <<[type |-> "save", lines |-> [c \in Call |-> b.save[<<caller, c>>]]]>>)

\* Faulty: what is buffered waits for a full batch.
FlushWhenFull(s) ==
    /\ Buffered(buffer[s]) # {}
    /\ batch[s] > HttpBatchLimit
    /\ WQ' = [t \in Service |-> WQ[t] \o Posts(buffer[s], t)]
    /\ buffer' = [buffer EXCEPT ![s] = Empty]
    /\ batch' = [batch EXCEPT ![s] = 0]
    /\ UNCHANGED <<app, manager, HttpQueue>>

Flush(s) ==
    /\ Buffered(buffer[s]) # {}
    /\ WQ' = [t \in Service |-> WQ[t] \o Posts(buffer[s], t)]
    /\ buffer' = [buffer EXCEPT ![s] = Empty]
    /\ batch' = [batch EXCEPT ![s] = 0]
    /\ UNCHANGED <<app, manager, HttpQueue>>

-----------------------------------------------------------------------------
Writers == \E k \in Key : Write(k) \/ PostWrite(k)

Clients == \E c \in Top : ClientRequest(c)

Handlers ==
    \/ \E c \in Call : PreReqStart(c) \/ PreReqEnd(c)
    \/ \E c \in Call, k \in Key : GetState(c, k)
    \/ \E c, d \in Call : InvokeHit(c, d) \/ InvokeMiss(c, d)

Managers == \E s \in Service : Process(s) \/ Receive(s) \/ Flush(s)

Next == Writers \/ Clients \/ Handlers \/ Managers

Spec == Init /\ [][Next]_vars

(***************************************************************************)
(* A writer that wrote tells its manager; the loops of Process and         *)
(* HttpSender run for ever.  Nothing makes clients come back.              *)
(***************************************************************************)
FairSpec ==
    /\ Spec
    /\ \A k \in Key : WF_vars(PostWrite(k))
    /\ \A s \in Service : WF_vars(Process(s)) /\ WF_vars(Receive(s)) /\ WF_vars(Flush(s))

-----------------------------------------------------------------------------
\* The environment in which neither race of a chain of calls can happen.

\* No run is on, and none waits to be judged.
NothingRuns ==
    /\ \A c \in Call : run[c] = Idle
    /\ \A s \in Service : \A i \in 1..Len(WQ[s]) : WQ[s][i].type \notin {"start", "end"}

\* No invalidation is on its way anywhere.
NothingInvalidated ==
    /\ \A k \in Key : unsent[k] = 0
    /\ \A s \in Service :
          /\ \A i \in 1..Len(WQ[s]) : WQ[s][i].type \notin {"inv", "invcalls"}
          /\ \A i \in 1..Len(HttpQueue[s]) : HttpQueue[s][i].save
          /\ buffer[s].inv = {}

\* Writes wait until every run was judged, clients until nothing is left to
\* invalidate.
WritesAlone == \E k \in Key : (NothingRuns /\ Write(k)) \/ PostWrite(k)
ReadsAlone == NothingInvalidated /\ Clients

NoRaceNext == WritesAlone \/ ReadsAlone \/ Handlers \/ Managers

NoRaceSpec == Init /\ [][NoRaceNext]_vars

\* A run waits for the runs it calls: on a cycle it would wait for ever.
Acyclic ==
    \E depth \in [Call -> 0..Cardinality(Call)] :
       \A c \in Call : \A d \in Calls[c] : depth[d] < depth[c]

-----------------------------------------------------------------------------
Run ==
    [phase : {"idle", "asked", "on"}, parent : Call \cup {None},
     todo : SUBSET Dep, used : SUBSET Dep, got : Value]

Message ==
    [type : {"start"}, call : Call]
        \cup [type : {"end"}, call : Call, caller : Service, used : SUBSET Dep, val : Value]
        \cup [type : {"inv"}, key : Key]
        \cup [type : {"invcalls"}, calls : (SUBSET Call) \ {{}}]
        \cup [type : {"save"}, lines : [Call -> Value \cup {NoVal}]]

Request ==
    [save : {FALSE}, entries : SUBSET Entry, val : {NoVal}]
        \cup [save : {TRUE}, entries : {{e} : e \in Entry}, val : Value]

\* Types of all variables.
TypeOK ==
    /\ db \in [Key -> 0..MaxWrites]
    /\ unsent \in [Key -> 0..MaxWrites]
    /\ run \in [Call -> Run]
    /\ requests \in 0..MaxRequests
    /\ cache \in [Service -> [Call -> Value \cup {NoVal}]]
    /\ WQ \in [Service -> Seq(Message)]
    /\ history \in [Service -> Seq(HistoryItem)]
    /\ deps \in [Service -> [Dep -> SUBSET Entry]]
    /\ HttpQueue \in [Service -> Seq(Request)]
    /\ buffer \in [Service -> Buffer]
    /\ batch \in [Service -> 0..(HttpBatchLimit + 1)]

\* A cached line is stale when it was computed from an overwritten version.
Stale(s, c) ==
    /\ cache[s][c] # NoVal
    /\ \E k \in Footprint[c] : <<k, db[k]>> \notin cache[s][c]

\* An invalidation that will drop the line of c in s is on its way: a write
\* not announced yet, or a request in a queue, a buffer or a work queue.
InvPending(s, c) ==
    \/ \E k \in Footprint[c] :
          \/ unsent[k] > 0
          \/ \E i \in 1..Len(WQ[Owner[k]]) : WQ[Owner[k]][i] = [type |-> "inv", key |-> k]
    \/ \E i \in 1..Len(HttpQueue[Owner[c]]) : <<s, c>> \in HttpQueue[Owner[c]][i].entries
    \/ <<s, c>> \in Buffered(buffer[Owner[c]])
    \/ \E i \in 1..Len(WQ[s]) :
          \/ WQ[s][i].type = "invcalls" /\ c \in WQ[s][i].calls
          \/ WQ[s][i].type = "save" /\ WQ[s][i].lines[c] # NoVal

Leaf(c) == Calls[c] = {}

(***************************************************************************)
(* Between a service and the database owner it calls, the system never     *)
(* forgets to invalidate: whenever a line of a leaf call is stale, some    *)
(* request that will replace it is still on its way.                       *)
(***************************************************************************)
LeafStaleIsPending ==
    \A s \in Service, c \in Call : Leaf(c) /\ Stale(s, c) => InvPending(s, c)

\* Nothing runs, and no write, queue or buffer has anything left to pass on.
Quiet ==
    /\ \A k \in Key : unsent[k] = 0
    /\ \A c \in Call : run[c] = Idle
    /\ \A s \in Service :
          WQ[s] = <<>> /\ HttpQueue[s] = <<>> /\ Buffered(buffer[s]) = {}

(***************************************************************************)
(* server.go:96, "Transitively invalidate upstream entries": once all      *)
(* requests have drained no cache, at any distance from the database that  *)
(* was written, holds a stale line.  This is so when writes wait for runs  *)
(* and clients for invalidations.                                          *)
(***************************************************************************)
QuietCoherent ==
    Quiet => \A s \in Service, c \in Call : ~Stale(s, c)

(***************************************************************************)
(* A stale line of a leaf call goes away, with no help from new requests.  *)
(***************************************************************************)
LeafStaleEnds ==
    \A s \in Service, c \in Call : Leaf(c) => (Stale(s, c) ~> ~Stale(s, c))
=============================================================================
