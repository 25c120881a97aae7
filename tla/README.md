# MuCache in TLA+

MuCache caches the answers of read-only calls between microservices. Beside
every service runs a *cache manager*. It hears of the starts and ends of the
service's read-only runs and of its database writes, decides which answers the
callers may cache, and tells the callers' managers what to save and what to
drop. This directory holds a formal model of the Go implementation, the TLC runs
that check it and the theorems TLAPS proves about it. All paths below are
relative to the repository, which is `src/` in `PROJECT.json`.

## 1. The system

| part | state | operations | talks to |
|---|---|---|---|
| request wrappers (`pkg/wrappers`) | per call id: the keys read and calls made so far (`deps.go`) | SetupCtxFromHTTPReq, PreReqStart, PreRead, PreCall, PostWrite, PreReqEnd | its manager (Start, End, InvalidateKey) |
| state API (`pkg/state`) | the service's Redis database | GetState, SetState and their bulk forms | wrappers |
| invocation (`pkg/invoke`) | none; in UpperBound mode `SavingQueue` | Invoke, CheckCache, ShardInvoke, OffloadSave | the service's cache, other services |
| service cache (`pkg/cm/cache.go`) | Redis: call arguments to answer | CacheGet by the service; CacheSaveCalls and CacheRemoveCalls by the manager | - |
| manager state (`internal/cm/state.go`) | `history`, `keyDeps`, `callDeps` | appendCall, appendWrite, appendInvCall, validCall, storeDeps, popKeyDeps, popCallDeps | - |
| manager loop (`internal/cm/server.go`) | `invalidateBuffer` when batching | Process, one case per request type; the ticker goroutine | work queue `WQ` in, `HttpQueue` out |
| HttpSender (`internal/cm/httpsender.go`) | an `HttpSendBuffer`, `sinceLastFlush` | addRequest, flushBuffer, timeout | posts to the managers of the callers |
| transport (`pkg/cm/conn.go`, `internal/cm/httpcm.go`, `zmqcm.go`) | `WQ` (100000 requests) | HTTP handlers; ZMQ proxy and subscriber | - |
| sharding (`config.go`, `server.go:70-77`) | - | GetNeighbors, forwarding of key invalidations | the other shards |
| applications (`internal/{hotel,social,movie,boutique,acmeair}`) | lists and records in the state API | their handlers | state API, invocation |
| benchmark services and drivers (`cmd`, `experiments`) | - | chains, stars, load | invocation |

**One request.** A caller misses its cache and posts the call. `PreReqStart`
puts a Start in the manager's queue; reads and calls of the handler are
collected as dependencies; `PreReqEnd` puts an End with them in the queue, and
the answer goes back. When the manager comes to the End it walks its history
backwards to the Start. If nothing the run used was invalidated in between, it
sends the answer upstream to be saved and indexes the new line under every
dependency. A write goes to the database first and then to the manager, which
appends it to the history, takes what the index has for the key and tells
those callers to drop their lines. The manager of a caller does the same with
the dropped call, so that an invalidation climbs the call graph.

**What is hard.** Nothing is locked between the database, the cache and the
queues. Starts, ends, writes and invalidations of many runs interleave in one
history, are merged in a buffer and posted in batches. `PROJECT.json` lists under
"hazards" every place where this bites, with its line and the properties that
watch it, or why none does.

**What makes each part correct.**

- *Manager state*: every End finds its Start, and sees exactly the invalidations
  processed since. Every line held upstream is indexed under all it depends on.
- *Manager*: no caller keeps a line that depends on something invalidated
  since the run behind it started. It refuses no run needlessly.
- *HttpSender*: what callers are told last about a line is what Process said
  last. Everything buffered is posted. A blocked Process gets going again.
- *System*: a stale line is always about to be replaced, and goes. Once all queues
  are empty, no cache is stale.
- *Batching*: an invalidation that waits for the next tick leaves nothing stale
  behind; what waits is carried out; a Process blocked on the channel gets going.
- *Faults*: after a lost message or a restart only what is older can stay stale.
- *Wrappers*: an End names all its own handler read, whatever else runs.
- *Sharding*: whichever shard wrote, the shard that answered a call hears of it.
- *UpperBound*: answers reach the cache in order, all but an unfinished batch.
- *Wiring*: no cached answer stands for a run that wrote or for another call; every
  path called is served; no request reads one service along two cached paths.
- *Applications*: records that belong together stay together, and what a client
  was told is done, as far as reads and writes without a lock allow.

## 2. The modules

| module | models | notes |
|---|---|---|
| `CMState` | `state.go`, as operators on a history and an index | no variables, no recursion |
| `CallValidity` | what a manager promises, with no history and no index | abstract |
| `CacheManager` | one manager: `Process` over an arbitrary stream of requests | extends `CMState`, implements `CallValidity` |
| `BatchedInvalidation` | one manager in batched mode: `Process` and the ticker goroutine, sharing the state | extends `CMState` |
| `CMState_proofs`, `CacheManager_proofs`, `BatchedInvalidation_proofs` | lemmas and theorems | |
| `SendBuffer` | `HttpSendBuffer`, as operators | no variables |
| `HttpSender` | the sender goroutine, its queue and its posts | uses `SendBuffer` |
| `HttpSender_proofs` | lemmas and theorems | |
| `MuCache` | services, databases, caches, managers and senders together | uses `CMState` and `SendBuffer` |
| `MuCacheFaults` | `MuCache` with lost messages and restarted managers | extends `MuCache` |
| `MuCacheFaults_proofs` | lemmas and theorems about both | extends `MuCacheFaults` |
| `Shards` | a sharded service, the managers of its shards, the cache of its caller | uses `CMState` |
| `Shards_proofs` | lemmas and theorems | |
| `Wrappers` | `pkg/wrappers`: contexts, dependencies by call id, prefetching goroutines | |
| `UpperBound` | the UpperBound build: `SavingQueue` and `OffloadSave` | |
| `Routes` | every program of `cmd`: its paths, and what their handlers store and call | no variables |
| `Services` | the programs of `Routes` serving requests through wrappers and invocation | extends `Routes` |
| `Hotel`, `Social`, `Movie`, `Boutique` | the databases of the applications under concurrent handlers | |
| `Programs_proofs` | theorems about `Wrappers`, `Shards`, `UpperBound`, `Hotel` and `Movie` as `MCPrograms` composes them | extends `MCPrograms` |
| `Stores_proofs` | the same for `Social` and `Boutique` | extends `MCPrograms` |
| `MCCacheManager`, `MCBatchedInvalidation`, `MCHttpSender`, `MCMuCache`, `MCMuCacheFaults`, `MCPrograms` | instances for TLC | |

Definitions that start with "Faulty" in their comment are variants of the
definition after them with a plausible bug. They are used by no specification;
"mutants" in `PROJECT.json` pairs each with a property that must reject it.

### CMState

The history is a sequence of items `[kind, names]`: `"calls"` is a Go
`CallArgSet` (starts that fell between the same invalidations), `"write"` a
`cm.Key`, `"invcall"` a `*cm.CallArgs`. `keyDeps` and `callDeps` are one function
`deps` from dependencies to sets of (caller, call) entries; keys and calls
have different Go types, which is the assumption `NamesApart`. The two LRU maps
are created with size 0, which means unbounded, and no eviction callback.

The loop of `validCall` is not translated step by step: `StartsOf` is where the
call has a start, `Walked` the indexes a backward walk visits, `InvalidatedSince`
all it meets. `ValidCall` is then one line. `Forgotten` gives the possible
histories afterwards: the start removed, and the garbage at the front collected
or not, because the 5 s clock of the collection is not modelled.

`AppendInvCalls` keeps a detail of the Go code: the address of the loop variable
is appended, and with `go 1.19` in `go.mod` there is one variable for the whole
loop, so all the items of one request name its last call.

### CacheManager

`history`, `deps`, `cached` are the manager's own. `serving` says which runs
are on. Three variables are ghosts: `since[r]`, what was invalidated during run
`r`; `line[e]`, the last word sent upstream about entry `e`, with the
dependencies it was computed from and those invalidated since (`stale`);
`verdict`, what the step just taken decided of a run and what that run had used. The actions are the cases of
`Process`, each taking one request and handling it to the end. `Abandon` is a
handler that panics or whose answer cannot be marshalled: its Start is never
matched.

Requests arrive in any order. Two constants say how much the environment does:
`Duplicates` allows overlapping runs of the same call arguments, which the
comment of `deps.go:13-15` expects to happen, and `MaxBatch` bounds the calls of
an InvalidateCallsRequest.

### BatchedInvalidation

The same manager started with `-batch_call_invalidation`. Process puts
InvalidateCallsRequests into a channel of `BufferSize`, and a goroutine woken by a
ticker drains it, appends to the history, pops the index, tells the callers and
removes the lines. Both use one `State` with no lock, so handlers are cut into
the steps between which the other goroutine can come in. `process` and `ticker`
say where each stands and what it has in its hands:

- `append` reads the slice header and writes it back later: `Writing` holds
  the new header, `WriteHistory` and `WriteInvCall` store it. The later write
  drops the earlier one's item. The collection writes the header too.
- Items are shared by all copies of the header, since they are pointers: call
  sets change in place, and all items of one tick's loop point to its one loop
  variable. `heap` holds what they point to; `Deref` gives the history of `CMState`.
- `storeCallDeps` gets an entry (`GetCallDep`), changes its map in place
  (`MarkCallDep`) and puts it back (`AddCallDep`). The pop of one call is one
  step: Get and Remove of an entry return the same map object, so what Process
  adds in between is seen or put back as if it came before or after. `keyDeps` is
  used by Process alone.

What is milder than the build: a header is written in one step, so that torn headers
and two appends into one spare slot of the backing array do not occur, nor the
runtime's abort on concurrent use of a map. The properties checked with
interleaving (`Registered`, `Applied`, `Unblocked`) do not depend on the
contents of the history.

`since` counts an invalidated call from the moment Process received its
request, and a run that starts before the tick has it from its start: the run may
read the old line from the cache.

### SendBuffer and HttpSender

The Go map from caller to (`InvSet`, `SaveMap`) is flattened to a set and a
function over (caller, call) entries. `Receive` and `Timeout` are the two cases
of the `select`; `FlushCaller` takes one caller out of the buffer (in any order:
it is a Go map) and `Deliver` posts one request. `told` is what the posts made of
each line, `last` a ghost: what Process said last. A POST returns when the
request is in the remote queue, so posts arrive in the order they are sent.

### MuCache

All services at once. A value is the set of (key, version) pairs it was
computed from, so that staleness is a comparison with `db`. A handler does its
reads and calls in any order, one at a time, like the services in `cmd`.
`Write` and `PostWrite` are the two halves of `SetState`. Between `InvokeMiss`
and `PreReqStart` the request is on its way; `PreReqEnd` also hands the answer to
the waiting caller, which can do nothing else meanwhile. A client's request is
announced to no manager and keeps no dependencies (`PreReqStart` tests for
`"client"`). The managers' actions are those of `CacheManager` without the
ghosts. A flush is one step here: its posts in between are `HttpSender`'s
concern, and the order at each receiver is kept. `ProcessInvalidateCalls` drops the lines in
the step in which it appends and sends, while `server.go:92-103` drops them last: a run that still
reads a line in between is announced behind the request that is being processed, as is one that read it
just before, and both are in the model. Runs are named by their call: at
most one run of the same arguments is on at a time, since overlapping runs are
already refuted on one manager.

### MuCacheFaults

`Lose` takes one message of a service out of a work queue: `zmqProxy`
(`conn.go:80-90`) goes on after a message the socket refuses. `Restart` is a
manager that panicked, as its sender does when a post fails (`conn.go:52`),
and came back: history, index, queues and buffer are gone, the cache in Redis is
not. `damaged` is a ghost that remembers which version each key had at the last
damage. A lost invalidation and a restart do damage when they happen; a lost End
does none, although its Start stays in the history.

A lost Start is the delicate case. The End of its run finds no start, walks the
whole history and is accepted if that holds no invalidation of what the run
used. But the collection may have dropped just that invalidation, since nothing
in the history held it back. So `unseen` has the runs whose start the manager
will never know of (lost, or forgotten in a restart), and the end of such a run
counts as damage of its own. Without this clause StaleIsOlder is false: with two calls b1
and b2 of one service, the start of b1 is lost, a write is processed, the End of
b2 collects the write, and b1's stale answer is accepted although it is younger than
the fault.

What is not claimed, and does not hold, is that an older line ever goes: nothing in
the code repairs it.

### Shards

`GetNeighbors` and the forwarding of `server.go:70-77`. A key invalidation from a
service is held by Process (`inhand`) until every other shard's queue has taken a
copy (`forwarding`), and only then entered into the history; copies are marked
`fromCM` and go no further. `Post` is not enabled while the work queue is full:
whoever posts stands still. The manager of a caller shard is a queue of what it was
sent (`upstream`); both caller shards share one cache.

Two managers whose work queues are full and which forward to each other wait for
ever in this model. In the code a queue has 100000 places and the post gives up after
the client's time-out, panics, and the manager restarts: `MuCacheFaults` says what that
costs. Two more things were seen in the source and are not in the instances.
`GetNeighbors` strips the digits at the end of a name, so that `service1` to
`service4` of the chains would count as shards of one service if they were started
in sharded mode. And `server.go:96` invalidates the call at its own manager: with
a shared cache a line may be saved through one caller shard and hit by another, whose
lines further up then stay; this needs a chain of sharded services.

### Wrappers

One run per call id. `deps` is the `sync.Map` of `deps.go`; `PopDeps` is cut between
Load-and-Delete and Range, since a prefetching goroutine (`user_timeline.go:94`,
`page.go`) that has loaded the inner map stores in it later: `runs[id].map` is
that map after the Delete. A goroutine that outlives its run fails the
assertion of the next Load and is caught by its own `recover`. A handler that
panics, or an answer that cannot be marshalled, leaves a Start without an End. The two
goroutines a run may leave are one here that goes through its names one after another.

### UpperBound

A caller waits while `SavingQueue` is full; `OffloadSave` takes one answer per step
and executes its pipeline when the batch is full. `expires` is whether a TTL is given.

### Routes and Services

`Routes` has one record per program with the paths it registers, whether the
wrapper is `ROWrapper` or `NonROWrapper`, and the stores and calls of each
handler in their order. Loops are `Some`, early returns `MayStop`; in the
asynchronous handlers of the star a goroutine may read the loop variable late
and call a later backend (`StarFrontend`).

`Services` runs one client request at a time as a stack of handlers over any of
these applications. A line in a cache is there with the call it was computed for, and
may be dropped at any time, which stands for every invalidation and eviction, so that
nothing here depends on when an invalidation comes. `HashCallArgs` glues service and method
together as the code does (`wrappers.go:24`), without the input; `IsCallReadOnly` is the
prefix test on the method name, which is a different thing from the wrapper chosen in
`main.go`; they disagree for `checkout` of the boutique and `read` of twoservices.
`Served` has one exception, as the code has it: `ro_hitormiss` of the last services of chain3
and chain4 asks the backend for a path it does not register, and panics.

### Hotel, Social, Movie, Boutique

Each has `db`, the databases of its services; `run[c]`, the handler that client `c`'s
request has reached and its local variables; `log`, a ghost of what was asked and
answered. Each database access is one action, so that the accesses of
concurrent requests interleave; a handler that panics ends its request and leaves what it
did.

A service asks another through `Invoke`, which looks into the caller's cache first
(`invoke.go:121-140`), and the invalidation of a line comes some time after the write. Two reads
feed a write that way, and have their cache in `db`: `checkout` reads the cart
(`getUserCart`) and `home_timeline` reads the followers (`GetFollowers`). `line[u]` is the line, if
there is one, and `answered[u]` what the service has answered. `CacheSave` writes any of these answers into
the line, `CacheRemove` drops it, both at any time: more than the managers do (an answer
may come back after it was dropped), so that nothing here depends on when they do it. The other
cached reads are of things that are stored once and stay (posts, reviews, profiles, products, rates,
quotes), or only answer a client (availability, lists of ids); an older answer of
the latter names less, never something that is not stored.

Abstractions: one location and one user name (hotel); days
are numbers; posts and reviews are numbered; `MaxKept` is 10 in the code; the
catalog limit is 1000; amounts are whole cents; rates are whole numbers.

The stores have no locks, so plain claims such as "a confirmed reservation is on
record" are false, and nothing in the repository makes them. Each property has
the premise under which the code does keep it, and the premise is the exact
overlap: another handler between its read and its write of the same record. For carts it has a
second half, which needs no overlap: an order made of a line of checkout's cache that is
older than the cart charges what is only in the line once more, and empties the cart of what is only
in the cart, unpaid. `Outdated` is those items and no others. That they are needed was tried: with
`Outdated(u) == {}` TLC finds ChargedOnce violated by one client that adds an item and orders twice, and
CartLosesNothing by an order made of an answer from before the item was added. An older list of followers needs no exception: PostReachesFollowers speaks of
the followers the request was given.

`compose_post_multi` passes `req.Number` on as it comes (`compose_post.go:30-34`), so `Numbers` has 0.
Such a request stores no post and writes its empty list: a timeline may become an
empty list, over which the MGET of the next reader panics (`ReadPosts`), and a full timeline loses its oldest post
to it. TimelinesListStored therefore says of a timeline that it names stored posts only, not
that it can be read, and PostReachesFollowers counts such a write as an arrival (`Arriving`).

Some behaviour of the boutique is kept as it is, because a reader would not expect it.
`prepOrderItems` stores the address of the loop variable (`checkout.go:97`), so every
order item has the last item's quantity (`OrderItems`). `multiplySlow` charges an item of
quantity 0 once. `_carry` (`currency.go:12-18`) adds a whole unit and drops the
fraction of the units it divides.

### MCPrograms

One instance for all of these: `part` says which module's states are
explored, the variables of the others are empty. The modules are independent, so
this is the sum of their state spaces, not the product.

## 3. The runs

| run | shows | instance |
|---|---|---|
| `manager_seq` | StartFound, HistoryExact, Registered, Fresh and the refinement hold without overlaps and with single-call invalidations | 2 runs, 2 calls served, 1 called, 1 key, history of 4 |
| `stale_overlap` | **violated**: a stale answer is saved | as `manager_seq`, with overlaps |
| `batch_alone` | StaleIsReceived with ticks between requests | 2 runs, 2 calls served, 1 called, 1 key, channel of 2, history of 3 |
| `batch_free` | Registered, Applied, Unblocked with ticks at any time | 2 callers, 1 run, 1 call served, 1 called, channel of 1, history of 2 |
| `batch_race` | **violated**: an End finds no Start | 1 run, 1 call served, 1 called, channel of 1, history of 2 |
| `sender` | Disjoint, LastWord, Flushed, Unblocked | 2 callers, 1 call each, 2 values, queue of 2 |
| `system_twotier` | LeafStaleIsPending with writes at any time, LeafStaleEnds | A calls b1 and b2, both read k1; 2 writes, 1 request |
| `system_chain` | QuietCoherent along three services, the two races excluded | A calls b calls c; 2 writes, 2 requests |
| `chain_write` | **violated**: QuietCoherent with the second race | 1 write, 1 request |
| `system_faults` | StaleIsOlder | a1 and a2 of A call b1 and b2 of B, which read k; 2 writes, 2 requests, 1 lost message, 1 restart; the two pairs are symmetric |
| `programs` | nineteen properties of the modules around the managers | see below |
| `recommended` | **violated**: recommendations beside given products are answered | as `programs`, 2 products |

`programs` has these parts.

| part | shows | instance |
|---|---|---|
| services | HitsAnswerTheCall, HitsSkipNoWrite, TrackedAllTheWay, NoDiamond, Served | every application of `Routes`, 2 lines cached at a time |
| hotel | RecordFits, ConfirmedIsOnRecord, SearchFindsStored | 2 clients, 1 hotel, 2 days, capacity 1 or 2, lists of 2, 4 requests |
| social | TimelinesListStored, PostReachesFollowers, FollowedBothWays | 2 clients, 2 users, 0 or 2 posts a request (two take the steps of one, and overfill a list), lists of 2, 4 requests |
| movie | ReviewsShownAreStored, ComposedIsListed | 2 clients, 2 users, 1 movie, lists of 2, 6 requests |
| boutique | CartLosesNothing, ChargedOnce, ChargeAddsUp | 2 clients, 1 shopper, 1 product, 1 currency, quantities 1 and 2, 4 requests |
| wrappers | EndsReportReads | 2 call ids, 2 call arguments, 2 names |
| upperbound | BatchesSaved | 2 callers, 2 calls, batches of 2, queue of 2, 4 answers |
| shards | ShardStaleIsPending | 2 shards, 2 caller shards, 1 call, 1 key, work queues of 2, 2 writes, 2 runs |

**Bounds.** `MaxHistory` bounds the history. A walk is about one run's start, a
younger start, and an invalidation before, between and after them: four items
hold all the orders of these, and the proofs remove the bound. Two runs are
enough for every pairwise interference; two served calls let a start of another
call stand in front. In batched mode the bound stops new requests, not the
ticks; `Ref` has more addresses than there can then be items alive, which every
run confirms, since an allocation without a free address is an error. With
`QueueSize` 2 there can be requests about one line in the queue, the buffer and
the posts at once. In the composed runs two requests and two writes are one
computation that fills the caches and one that reads them, each with a write
before, during or after. They bound the client and the writers only; the
managers are unbounded. Those runs set `CHECK_DEADLOCK FALSE` because a client
and a writer that have used up their bound leave nothing to do. `system_twotier` has one
request, which calls both b1 and b2: each line is then filled, hit by a write and possibly filled
stale by a run that overlaps the write.

In `programs` lists are two long, so that the third entry pushes one out, and the
requests suffice for two to overlap while a third fills the list. `MovieRequests`
is six because composing takes a registered movie and user first. The boutique starts
empty or as the populate script leaves it, since filling its catalog takes
most of the bound otherwise. Clients, users and call ids are symmetric: nothing orders
them. `MaxLines` of 2 is a line and the one it might be confused with. Two shards
are the two roles of forwarding; a queue of 2 is full while one more message is posted.

**Fairness.** `HttpSender!FairSpec`: the goroutine keeps running, a POST returns,
the timer fires (weak fairness). `Receive` gets strong fairness because Go's
`select` picks at random among ready cases, so that the timer cannot win for ever
against a queue that is not empty. Process has none. `BatchedInvalidation!FairSpec`:
both goroutines run on and the ticker ticks; requests may stop. The loop that
drains the channel has no limit (`server.go:124-137`) and goes on while requests
come, so Applied has the premise that they end. `MuCache!FairSpec`: the two
loops of each manager run for ever, and `SetState` goes on from the database
write to PostWrite. Clients and handlers have none, so that a stale line goes
away without the help of new requests.

### What the violations show

1. *One start for two runs* (`state.go:87` has the TODO "What to do if call
   already exists?"). Starts are kept as a set of call arguments. Two overlapping
   runs in the same set share a start, and the first End deletes it. If they are in
   different sets, the older run's walk stops at the younger one's start.
   The comments at `state.go:169` and `state.go:210` do not hold.
2. *Loop variable* (`server.go:92-94`): see `AppendInvCalls`. There is no run for
   it. With `Duplicates = FALSE`, `MaxBatch = 2` and `Called = {c1, c2}` in the cfg of
   `stale_overlap`, Fresh is violated: an invalidation of two calls leaves two items that
   both name the last, and a run that used the first is accepted.
3. *Lost append* (`batch_race`): the tick reads the history, a Start is
   appended, the tick writes the history back without it. `StaleIsReceived` fails
   for the same reason when `Interleaved` is TRUE, and with two calls in one tick
   because of the loop variable.
4. *Read race* (no run of its own; the cfg of `chain_write` with two requests and the next-state
   relation `WritesAlone \/ Clients \/ Handlers \/ Managers` violates QuietCoherent): B's manager still has InvCalls(c) in its queue when a run of b starts behind it and
   reads c's line from B's cache. The Start of b comes after the invalidation in the
   history, so b is judged valid; A saves it and nothing invalidates it afterwards.
5. *Write race* (`chain_write`): k is written while c runs. The run of c is
   judged invalid, so it is neither saved nor indexed, but its answer has already
   gone to b. B's manager never hears of c again, judges b valid and A keeps b's
   line for ever.
6. *Negative capacity* (`recommended`): `FetchCatalogRequest{}` asks for a catalog of
   size 0 (`recommendations.go:27`), the catalog answers `keys[:0]`, and
   `make([]string, 0, 0 - len(productIds))` panics when any product is given.

The races need a chain of two calls: for a direct caller of the service that owns
the database the protocol holds (`system_twotier`). For
`system_chain`, `WritesAlone` and `ReadsAlone` in `MuCache` rule the two
races out one by one; with both excluded (`NoRaceSpec`) QuietCoherent holds, so that
a violation needs a step they exclude; `ChainCoherent` proves it for chains and trees of
any depth.

## 4. The proofs

TLAPS checks the following for every value of the constants, under the named
assumptions of the modules. They say what the source says by its types and by
its configuration: calls and keys are different things (`NamesApart`,
`CallsAndKeysApart`), the absent value is not a value (`NoneIsNoCall`,
`AbsenceAssumption`), limits and bounds are numbers (`BoundsAssumption`,
`BoundAssumption`, those of `HttpSender`), so are addresses (`AddressAssumption`), a handler reads the database of its own service
(`GraphAssumption`), and the answer to a call depends on what its handler reads
and on what the answers it uses depend on (`FootprintAssumption`, the definition of
`Footprint`). Of the applications: a list keeps at least one entry (10 in the code) and the number of
posts a request composes is a natural number (`AmountsAssumption`; a negative one panics before anything is
stored), what a store
answers for a missing key is not one of its values (`MissingAssumption`), and the mark the
ghost puts on a failed order is no client (`ClientAssumption`). TLC evaluates them on every
instance.

*CacheManager.* `Typing` and `Indexing` hold of the code as it is. `Registered`
is not inductive by itself: an invalidation leaves the lines it does not pop,
which are indexed only if lines not held depend on nothing (`Tidy`).

The other theorems assume `Sequential`: no overlapping runs of one call and one
call per InvalidateCallsRequest; the run `stale_overlap` and the second violation
above show that each half is needed. `Walking` (StartFound and
HistoryExact) is proved with `Alone`, which says that no two runs are of
the same call. Its weight lies in the lemmas of `CMState_proofs`, which say what
each operation does to the walk of *another* call: an appended start and a
removed start change nothing, an appended invalidation adds its name, and a
collection drops only what lies before every start that is left. `Freshness`
joins the two lines of argument: a run is accepted only if nothing it used was
invalidated (`Accepted`, from HistoryExact), and an accepted line is in the index
under all it used (`Spared`, from Registered), so a later invalidation drops it.
`Refinement` maps every step to a step of `CallValidity`; the mapping is the
identity on the ghosts.

*BatchedInvalidation.* `Indexing` is Registered with a tick at any point of any
request, for any `Interleaved`. The invariant has two parts. `Indexed` says, of each
line and each dependency, who answers for it: the index, the ticker goroutine
that has popped it and has yet to tell, or Process that owes the entry (`Owed`).
`Carried` says that what Process holds between its Get and its Add covers
what the map has, since the other goroutine only takes away; without it the put
could lose somebody.

`Typing` covers ticks at any time as well. Its premise `[]Free` says that an address is left
whenever an item is made; `Unbounded` proves it of `Ref = Nat`, since what is in use is finite
(`AddressLeft`), and on the instances it is what lets TLC go on.

`Delaying` is StaleIsReceived and StartFound under `OneByOne`: ticks between requests
(`Interleaved` is FALSE) and one called name, so that the items of a tick's loop can share
their variable. Violation 3 above shows that both are needed. The number of
runs, calls served, keys, callers and requests in the channel is any. The invariant `AloneInv`
reads the history as it will be once the write under way is done (`Header`, `Past`), which is
where the lemmas of `CMState_proofs` apply; no two items of it share an address (`Distinct`),
so that adding to a call set and deleting from it in place is what `AppendCall` and
`RemoveStart` do (`SaidJoined`, `SaidRemoved`). `RunsSeen` is the heart: what was invalidated while a
run was on is behind its start in the history or in `Unmarked`, what was received and has no item yet. A
run that is judged valid has thus used stale answers of `Unmarked` only, which is part of `Received`. That
a tick leaves nothing stale behind when it is over is `TickGood` with `Indexed`: what
is popped is indexed no more, so every line that used it has been told.

*HttpSender.* `Typing` needs `Counted`: outside a flush the batch is within its
limit. `SendsDisjoint` proves the comment at `httpsender.go:133`; the posts are
parts of one buffer (`PostsFacts`) in which a line is never in both halves.
`LastWordKept` is that what callers are told last is what Process said last. The youngest
pending request of a line is found in the queue, else in the buffer, else in the
posts (`Told`), and moving a request one stage on does not change it. This needs
that one flush names a line at most once (`Once`), which rests on
`SendsDisjoint`: otherwise an older post could overtake.

*MuCache.* `Typing` has every message in the shape its handler relies on.
`LeafPending` holds for any call graph, with any number of services, runs, writes
and requests, and without a bound on any queue. `LeafInv` has four parts.

- `Shaped`: a run asks for what its handler reads and calls, and stands still
  while somebody answers.
- `Home`: a manager judges, indexes and invalidates the calls of its own service.
- `AllJudged`: wherever the End of a run of a leaf call is, or will be put, its
  Start is in the queue before it or in the history (`StartKept`), and of each key
  that the run read and that was overwritten since, the invalidation lies behind
  the Start, in the history or in the queue (`Noticed`). So either the walk refuses
  the run, or the invalidation is still to come behind the End.
- `LinesGood`: a word about a line, in the sender's queue, its buffer, the queue of
  the caller or the cache, is `Good` unless another one follows behind it.
  `Good` means that each key it is stale in has an invalidation coming, and that the
  line is in the index to be found by it.

`AllJudged` is what makes `LinesGood` inductive at an accepted End; the lemmas on
histories are those of `CMState_proofs`, and the buffer's those of `SendBuffer`. The
invariant is stated relative to a set `Old` of (key, version) pairs that may be
stale and a set `Unseen` of runs of which nothing is claimed; both are empty here.

`ChainCoherent` is QuietCoherent of `NoRaceSpec` for any call graph without a cycle
(`Acyclic`, the one further assumption: a run waits for the runs it calls, so that on a cycle it
would wait for ever; TLC evaluates it on the graphs of the runs). `NoRaceSpec` keeps the
two races out and nothing else: a write waits until no run is on or waits to be judged, and a
client waits until no invalidation is on its way. Handlers, managers and senders interleave
freely. Then the system is always in one of two phases (`Phases`), nothing runs or
nothing is invalidated, and `ChainInv` says of the lines of all caches, by two sets `L` and `M`:

- the lines of `L` are indexed under everything they depend on, and each line they were
  computed from is in `L`, in `M`, or comes from a run that waits to be judged
  (`Linked`);
- the lines of `M` are to go, and something sees to it (`Warned`): a word that they are
  invalid is on its way, or an invalidation is coming of a key they are indexed under, or they
  are indexed under a call whose line is in `M` itself;
- every value in a cache or on its way there is `Fresh` in the whole footprint of its
  call, unless its line is in `M`;
- nothing is saved behind an invalidation of the same line (`Ordered`).

A write moves the lines that depend on the key from `L` to `M`; an invalidation
taken by a manager moves what it pops, and takes from `M` the lines it drops. That a line which
`M` names is never forgotten is the transitive step of `server.go:96`: the call
invalidated at its caller's manager finds there the lines computed from it. While nothing is
invalidated `M` is empty, since a line of `M` could only wait for another one
further down (`NoneToGo`; here the graph must have no cycle). So runs read fresh
values only (`AllFresh`), and no walk finds an invalidation since their start
(`AllUndisturbed`), so that they are judged valid and their lines join `L`.

*MuCacheFaults.* `FaultsHarmTheOlder` uses the same invariant with
`Old` the pairs no newer than `damaged` and `Unseen` the ghost. Damage makes every version
that exists old, so all that is held is excused, and only what a lost
message leaves in place has to be shown again: a queue without one of its items keeps the
judgements of the others (`SoundRemove`).

*Shards.* `ShardPending` is the same argument where the invalidation of a key
may still be at another shard: not posted, in the queue of the shard that heard of it, or
in the hand of a Process that has yet to forward it here (`Outside`). `Wiring`
says that every call has a shard and a key. `ShardsPassItOn` carries it over
to the instance the run checks.

*Wrappers.* `ReportsAreOwn` needs of each run, by its phase, where what it read is
kept (`RunGood`): in `deps` under its id while it is on, in the map that was popped
afterwards. Prefetching goroutines only add to either.

*UpperBound.* `SavedInBatches`: with `Left` the number of answers that have left
the queue, `counter` is `Left` modulo the batch size, the pipeline is the last
`counter` of them, the queue is all after them, and the cache is what the answers
before the pipeline make of it (`SavingInv`).

*The applications.* The four theorems hold for any number of clients, users, hotels, movies and
requests, and for any interleaving of the database accesses. They share a pattern. What a
property says of a stored record, the invariant says too of every copy of it that a request
has read and not yet written back, since the write makes that copy the record. Where the copy
is older than the record, the ghost has marked what it lacks, and a copy that
is written marks what the others lack from then on.

A list that is bounded by `MaxKept` is described by distances from its end: the *i*-th of `n` ids
that were sent to it, unless lost, is at a place *k* of the list with `n - i` or fewer
entries behind it (`OnRecord`, `Covers`, `Lists`). The weaker claim that the youngest
`MaxKept` are in the list is not inductive: it does not say that dropping the first entry drops
the oldest. The distance is what a dropped entry and an added one keep (`BoundedFacts`,
`BoundedLists`, `ExtendedCovers`), and also what an older copy keeps, that lacks only lost entries.

- `HotelKeepsItsWord`. `Fits` is RecordFits of one availability. A reservation made later only
  takes from the list's front or adds at its end, so the number of reservations that count
  before an earlier one never grows (`ShiftedCount`); the added one fits because
  `checkAvailability` counted all of the same copy. A request that stores a hotel
  knows which of its records it has stored (`RequestGood`), the ground of SearchFindsStored.
- `SocialKeepsItsWord`. PostReachesFollowers needs the posts of a run that is still going through its
  followers: each is either still to come or has been sent every post of the run (`HasSent`). A write that
  brings no post is an id 0 in what was sent (`Arriving`): it moves the others one place further from
  the end, as it does in the list, and `Covers` does not ask the list to have it.
  FollowedBothWays needs what a Follow has done by halves: once the
  followee is written and no older copy of that vertex is held, the vertex and all copies of it have the
  new followee (`HalfDone`, `HasHalf`). TimelinesListStored is a matter of types in the
  invariant: a timeline, and what a run is about to write to one, names only posts that are stored.
  The line of the cache and the answers it comes from are lists of users, which is all the proof needs of
  them.
- `ReviewsKeepTheirWord`. A review is stored before it is listed, so a list and every copy of one
  name stored reviews of their movie or user (`About`). `Holding` says what a
  run has done by its step: its review is stored, is in what was sent to the movie's list, then to the
  user's, so that both lists have it when Compose returns.
- `CartsKeepTheirWord`. An item is in a cart, in an answer the cache may hold of one (`InCache`), in
  a copy a request holds, on its way into a cart, or in a charged order. `Apart` says that an item is of one shopper and that one
  on its way is nowhere else yet, `CopiesComplete` that a copy lacks nothing of the cart but what a
  race or an outdated line touched, and `ChargesHeld` that a charge is of what its order still holds until the
  order has emptied the cart. ChargedOnce then follows from `ChargesApart`: what such an order
  was charged for is in no cart, no copy and no later charge. CartLosesNothing needs all of them, because
  emptying a cart must find everything it drops in the charge.

**Only model-checked.** The liveness properties, which are out of the prover's
reach. The properties of `Services`: it runs the programs of
`Routes`, which is a table, so that they are facts about that table which TLC decides
by going through it; a proof would go through the same entries by hand. Of the boutique,
ChargeAddsUp, because the total of an order is a sum over a list, which needs induction over data.

## 5. What is not modelled, and the plan

Left out, because they carry no state of the protocol: logging, profiling, start-up
with the address file, the node index, deployment, load generators, the ZMQ test
driver and the Rust client. JSON is left out as a format. Call arguments are
abstract names, so collisions of the 32 bits of their hash are not seen;
`HitsAnswerTheCall` is about the bytes that are hashed.

Modelled in part:

- Bulk reads and writes are one access in the applications; a handler of `MuCache` makes
  its calls one at a time, so that the asynchronous star is in `Services` only.
- acmeair is one service with one writer. Its routes are in `Routes`; what its
  reads return is not modelled. Handlers that only read and can neither miss nor
  panic (cast infos, followees, viewing a cart) are routes alone.
- ZMQ: a lost message is modelled, the handshake of the sockets is not.
- Sharding: one sharded service below one cache. Chains of sharded services are not.
- Time-outs of posts: a post that fails is the restart of its manager in `MuCacheFaults`,
  since the sender panics; the time itself is not modelled.

What is left: chains of sharded services, if the line shared by two caller shards is to be
checked.
