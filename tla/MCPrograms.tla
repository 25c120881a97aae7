----------------------------- MODULE MCPrograms -----------------------------
(***************************************************************************)
(* The parts of the repository around the managers, one after the other:   *)
(* how the programs under src/cmd are wired (Services), the stores of four *)
(* applications, the runs a service reports (Wrappers), the UpperBound     *)
(* baseline and a sharded service.  part chooses the module whose states   *)
(* are explored; the variables of the others stay empty.                   *)
(***************************************************************************)
EXTENDS Naturals, Sequences, FiniteSets, TLC

CONSTANTS
    Client, Missing, MaxKept, MaxLines,
    HotelId, Day, Capacities, Rooms, HotelRequests,
    User, Numbers, SocialRequests,
    MovieId, MovieRequests,
    Shopper, ProductId, Currency, Quantity, NanosMod, CatalogSize, BoutiqueRequests,
    Id, Args, Name,
    Asker, Question, SavingBatchSize, SavingQueueSize, MaxVersion, MaxAnswers,
    Shard, CallerShard, ShardCall, ShardKey, ShardQueueSize, MaxWrites, MaxRuns

VARIABLES
    part,
    db, run, log,
    app, stack, lines, asked, unserved,
    runs, deps, prefetch, read, told,
    expires, version, asking, SavingQueue, pipe, counter, answers,
    unsent, WQ, forwarding, inhand, history, upstream, cache

storeVars == <<db, run, log>>
serviceVars == <<app, stack, lines, asked, unserved>>
wrapperVars == <<runs, deps, prefetch, read, told>>
savingVars == <<expires, version, asking, SavingQueue, pipe, counter, cache, answers>>
shardVars == <<db, unsent, run, runs, WQ, forwarding, inhand, history, deps,
               upstream, cache>>
vars == <<part, storeVars, serviceVars, wrapperVars, savingVars, shardVars>>

BoutiquePrice == [p \in ProductId |-> [units |-> 1, nanos |-> 60]]
BoutiqueRate == [x \in Currency |-> IF x = "USD" THEN 2 ELSE 1]
ShardHash == [c \in ShardCall |-> CHOOSE s \in Shard : TRUE]
ShardKeyOf == [c \in ShardCall |-> CHOOSE k \in ShardKey : TRUE]

Services == INSTANCE Services
Hotel == INSTANCE Hotel WITH MaxRequests <- HotelRequests
Social == INSTANCE Social WITH MaxRequests <- SocialRequests
Movie == INSTANCE Movie WITH MaxRequests <- MovieRequests
Boutique == INSTANCE Boutique WITH MaxRequests <- BoutiqueRequests, User <- Shopper,
               Price <- BoutiquePrice, Rate <- BoutiqueRate
Wrappers == INSTANCE Wrappers WITH None <- Missing
UpperBound == INSTANCE UpperBound WITH None <- Missing, Caller <- Asker, Call <- Question,
               QueueSize <- SavingQueueSize
Shards == INSTANCE Shards WITH None <- Missing, Caller <- CallerShard, Call <- ShardCall,
               Key <- ShardKey, HashShard <- ShardHash, KeyOf <- ShardKeyOf,
               QueueSize <- ShardQueueSize

\* Lists keep something; a request may compose nothing.
ASSUME AmountsAssumption ==
    /\ MaxKept \in Nat \ {0}
    /\ Numbers \subseteq Nat
    /\ MovieRequests \in Nat
    /\ Day \cup Capacities \cup Rooms \subseteq Nat

\* Missing is what a store answers for a key it does not have, and no value.
ASSUME MissingAssumption ==
    Missing \notin Nat \cup Seq(Nat) \cup [followers : Seq(User), followees : Seq(User)]
                     \cup Hotel!Availability \cup {"rate"}

\* What the log calls an order that failed is no client.
ASSUME ClientAssumption == "failed" \notin Client

\* A variable of no part that is explored.
Unused(v) == v = <<>>

NoServices == Unused(app) /\ Unused(stack) /\ Unused(lines) /\ Unused(asked) /\ Unused(unserved)
NoStores == Unused(db) /\ Unused(run) /\ Unused(log)
NoRuns == Unused(runs) /\ Unused(deps)
NoWrappers == Unused(prefetch) /\ Unused(read) /\ Unused(told)
NoSaving ==
    /\ Unused(expires) /\ Unused(version) /\ Unused(asking) /\ Unused(SavingQueue)
    /\ Unused(pipe) /\ Unused(counter) /\ Unused(answers)
NoShards ==
    /\ Unused(unsent) /\ Unused(WQ) /\ Unused(forwarding) /\ Unused(inhand)
    /\ Unused(history) /\ Unused(upstream)
NoCache == Unused(cache)
Around == NoWrappers /\ NoSaving /\ NoShards

Init ==
    \/ /\ part = "services" /\ Services!Init
       /\ NoStores /\ NoRuns /\ NoCache /\ Around
    \/ /\ \/ part = "hotel" /\ Hotel!Init
          \/ part = "social" /\ Social!Init
          \/ part = "movie" /\ Movie!Init
          \/ part = "boutique" /\ Boutique!Init
       /\ NoServices /\ NoRuns /\ NoCache /\ Around
    \/ /\ part = "wrappers" /\ Wrappers!Init
       /\ NoServices /\ NoStores /\ NoSaving /\ NoShards /\ NoCache
    \/ /\ part = "upperbound" /\ UpperBound!Init
       /\ NoServices /\ NoStores /\ NoRuns /\ NoWrappers /\ NoShards
    \/ /\ part = "shards" /\ Shards!Init
       /\ NoServices /\ NoWrappers /\ NoSaving /\ Unused(log)

AroundStores == <<part, serviceVars, wrapperVars, savingVars, unsent, WQ, forwarding,
                  inhand, history, upstream>>

Next ==
    \/ /\ part = "services" /\ Services!Next
       /\ UNCHANGED <<part, log, wrapperVars, savingVars, shardVars>>
    \/ part = "hotel" /\ Hotel!Next /\ UNCHANGED AroundStores
    \/ part = "social" /\ Social!Next /\ UNCHANGED AroundStores
    \/ part = "movie" /\ Movie!Next /\ UNCHANGED AroundStores
    \/ part = "boutique" /\ Boutique!Next /\ UNCHANGED AroundStores
    \/ /\ part = "wrappers" /\ Wrappers!Next
       /\ UNCHANGED <<part, storeVars, serviceVars, savingVars, unsent, WQ, forwarding,
                      inhand, history, upstream>>
    \/ /\ part = "upperbound" /\ UpperBound!Next
       /\ UNCHANGED <<part, storeVars, serviceVars, wrapperVars, unsent, WQ, forwarding,
                      inhand, history, upstream>>
    \/ /\ part = "shards" /\ Shards!Next
       /\ UNCHANGED <<part, log, serviceVars, prefetch, read, told, expires, version,
                      asking, SavingQueue, pipe, counter, answers>>

Spec == Init /\ [][Next]_vars

Symmetric == UNION {Permutations(x) : x \in {Client, User, Id}}

-----------------------------------------------------------------------------
\* The properties of the parts, each of the states of its part; the modules
\* say what they mean.

\* A hit answers the call it is taken for.
HitsAnswerTheCall == part = "services" => Services!HitsAnswerTheCall
\* No line stands for a run that wrote.
HitsSkipNoWrite == part = "services" => Services!HitsSkipNoWrite
\* The runs an announced run depends on are announced.
TrackedAllTheWay == part = "services" => Services!TrackedAllTheWay
\* No request reads one service through two others.
NoDiamond == part = "services" => Services!NoDiamond
\* Every call finds its path registered, two benchmarks apart.
Served == part = "services" => Services!Served

\* The reservations on record fit the capacity.
RecordFits == part = "hotel" => Hotel!RecordFits
\* A confirmed reservation is on record.
ConfirmedIsOnRecord == part = "hotel" => Hotel!ConfirmedIsOnRecord
\* A search finds the records of the hotels stored.
SearchFindsStored == part = "hotel" => Hotel!SearchFindsStored

\* Timelines list stored posts.
TimelinesListStored == part = "social" => Social!TimelinesListStored
\* A composed post is in the followers' timelines.
PostReachesFollowers == part = "social" => Social!PostReachesFollowers
\* A follow is on both records.
FollowedBothWays == part = "social" => Social!FollowedBothWays

\* Reviews shown are stored.
ReviewsShownAreStored == part = "movie" => Movie!ReviewsShownAreStored
\* A composed review is in both lists.
ComposedIsListed == part = "movie" => Movie!ComposedIsListed

\* An item added stays in the cart until it is paid.
CartLosesNothing == part = "boutique" => Boutique!CartLosesNothing
\* An item is paid once.
ChargedOnce == part = "boutique" => Boutique!ChargedOnce
\* The charge is the sum of the costs.
ChargeAddsUp == part = "boutique" => Boutique!ChargeAddsUp
\* Recommendations are answered once products are listed.
RecommendsOthers == part = "boutique" => Boutique!RecommendsOthers

\* An end request names what the handler read.
EndsReportReads == part = "wrappers" => Wrappers!EndsReportReads
\* Answers reach the cache in order, all but the last few.
BatchesSaved == part = "upperbound" => UpperBound!BatchesSaved
\* A stale line is about to be replaced, whichever shard wrote.
ShardStaleIsPending == part = "shards" => Shards!ShardStaleIsPending
=============================================================================
