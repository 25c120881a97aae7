SPECIFICATION Spec
CONSTANTS
    Client = {c1, c2}
    Missing = Missing
    MaxKept = 2
    MaxLines = 2
    HotelId = {h1}
    Day = {1, 2}
    Capacities = {1, 2}
    Rooms = {1}
    HotelRequests = 4
    User = {u1, u2}
    Numbers = {0, 2}
    SocialRequests = 4
    MovieId = {m1}
    MovieRequests = 6
    Shopper = {s1}
    ProductId = {p1}
    Currency = {"USD"}
    Quantity = {1, 2}
    NanosMod = 100
    CatalogSize = 2
    BoutiqueRequests = 4
    Id = {i1, i2}
    Args = {x1, x2}
    Name = {n1, n2}
    Asker = {q1, q2}
    Question = {a1, a2}
    SavingBatchSize = 2
    SavingQueueSize = 2
    MaxVersion = 1
    MaxAnswers = 4
    Shard = {1, 2}
    CallerShard = {A1, A2}
    ShardCall = {b}
    ShardKey = {k}
    ShardQueueSize = 2
    MaxWrites = 2
    MaxRuns = 2
SYMMETRY Symmetric
INVARIANTS
    HitsAnswerTheCall HitsSkipNoWrite TrackedAllTheWay NoDiamond Served
    RecordFits ConfirmedIsOnRecord SearchFindsStored
    TimelinesListStored PostReachesFollowers FollowedBothWays
    ReviewsShownAreStored ComposedIsListed
    CartLosesNothing ChargedOnce ChargeAddsUp
    EndsReportReads BatchesSaved ShardStaleIsPending
CHECK_DEADLOCK FALSE
