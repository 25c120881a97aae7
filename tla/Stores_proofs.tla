---------------------------- MODULE Stores_proofs ----------------------------
(***************************************************************************)
(* Theorems of two of the applications MCPrograms explores, for every      *)
(* value of its constants: what stays of what was posted and followed      *)
(* (Social), of what was put into a cart and charged (Boutique).  As in    *)
(* Programs_proofs, the invariant is proved of the part, and then of       *)
(* MCPrograms while the part is explored.                                  *)
(***************************************************************************)
EXTENDS MCPrograms, Integers, SequenceTheorems, FiniteSetTheorems, WellFoundedInduction,
        TLAPS

-----------------------------------------------------------------------------
(***************************************************************************)
(* Social: timelines and the graph of followers.                           *)
(***************************************************************************)
Vertices == [followers : Seq(User), followees : Seq(User)]

\* Lists of stored posts.
Stored == Seq(1..db.posts)

Timelines == Stored \cup {Missing}

AfterStore == {"readUserTimeline", "writeUserTimeline", "getFollowers", "readHomeTimeline",
               "writeHomeTimeline"}

ComposeRun == [at : AfterStore, creator : User, ids : Stored, got : Stored,
               followers : Seq(User), todo : Seq(User)]

FollowRun == [at : Social!Following, from : User, to : User, overlapped : BOOLEAN,
              got : Vertices]

SocialRun ==
    {Social!Idle} \cup ComposeRun \cup FollowRun
        \cup [at : {"storePost"}, creator : User, number : Numbers]
        \cup [at : {"readIds"}, of : User, kind : {"user", "home"}]
        \cup [at : {"readPosts"}, ids : Stored]

SocialDb == [posts : Nat, user : [User -> Timelines], home : [User -> Timelines],
             graph : [User -> Vertices \cup {Missing}],
             line : [User -> Seq(User) \cup {Missing}], answered : [User -> SUBSET Seq(User)]]

SocialLog == [requests : Nat, follows : SUBSET [from : User, to : User],
              done : SUBSET [post : Nat \ {0}, to : User], lost : SUBSET (Nat \X User),
              sent : [User -> Seq(Nat)]]

SocialTypes ==
    /\ db \in SocialDb
    /\ run \in [Client -> SocialRun]
    /\ log \in SocialLog
    /\ \A c \in Client : run[c].at = "writeHomeTimeline" => run[c].todo # <<>>

\* Run c will write its copy of the vertex of u.
Rewrites(c, u) ==
    \/ run[c].at = "writeFollowee" /\ run[c].from = u
    \/ run[c].at = "writeFollower" /\ run[c].to = u

\* A Follow whose first half is written, and known to be.
HalfDone(c) == run[c].at \in {"readFollowee", "writeFollower"} /\ ~run[c].overlapped

\* The halves of f, and the first half of what c does, in a vertex of u.
HasFollow(v, u, f) ==
    /\ f.from = u => f.to \in Social!Range(v.followees)
    /\ f.to = u => f.from \in Social!Range(v.followers)

HasHalf(v, u, c) == run[c].from = u => run[c].to \in Social!Range(v.followees)

FollowsKept ==
    /\ \A f \in log.follows : \A u \in {f.from, f.to} :
          db.graph[u] # Missing /\ HasFollow(db.graph[u], u, f)
    /\ \A f \in log.follows, d \in Client, u \in User :
          Rewrites(d, u) => HasFollow(run[d].got, u, f)
    /\ \A c \in Client : HalfDone(c) =>
          db.graph[run[c].from] # Missing /\ HasHalf(db.graph[run[c].from], run[c].from, c)
    /\ \A c, d \in Client, u \in User :
          HalfDone(c) /\ Rewrites(d, u) => HasHalf(run[d].got, u, c)

LEMMA SocialSteps ==
    ASSUME NEW c \in Client, NEW r,
           Social!Begin(c, r) \/ Social!Goto(c, r)
    PROVE  run' = [run EXCEPT ![c] = r]
  BY DEF Social!Begin, Social!Goto

\* A step that stores nothing keeps types as its run has one.
LEMMA SocialTypesKept ==
    ASSUME SocialTypes, NEW c \in Client, NEW r,
           db' = db, log' \in SocialLog, run' = [run EXCEPT ![c] = r],
           r \in SocialRun, r.at = "writeHomeTimeline" => r.todo # <<>>
    PROVE  SocialTypes'
  <1>1. Stored' = Stored
    BY DEF Stored
  <1>2. SocialRun' = SocialRun /\ SocialDb' = SocialDb
    BY <1>1 DEF SocialRun, ComposeRun, SocialDb, Timelines
  <1>3. SocialLog' = SocialLog
    BY DEF SocialLog
  <1>. HIDE DEF SocialRun, SocialDb, SocialLog
  <1>. QED
    BY <1>2, <1>3 DEF SocialTypes

LEMMA SocialInit == Social!Init => SocialTypes
  BY DEF Social!Init, SocialTypes, SocialDb, SocialRun, SocialLog, Timelines, Social!Idle

LEMMA TimelineFacts ==
    ASSUME SocialTypes, NEW u \in User
    PROVE  /\ db.user[u] \in Timelines /\ db.home[u] \in Timelines
           /\ Social!Listed(db.user[u]) \in Stored /\ Social!Listed(db.home[u]) \in Stored
  <1>1. db.user[u] \in Timelines /\ db.home[u] \in Timelines
    BY DEF SocialTypes, SocialDb
  <1>2. <<>> \in Stored
    BY DEF Stored
  <1>. QED
    BY <1>1, <1>2 DEF Social!Listed, Timelines

LEMMA StoredRange ==
    ASSUME NEW list \in Stored
    PROVE  Social!Range(list) \subseteq 1..db.posts
  <1>1. \A i \in 1..Len(list) : list[i] \in 1..db.posts
    BY ElementOfSeq, Zenon DEF Stored
  <1>2. DOMAIN list = 1..Len(list)
    BY DEF Stored
  <1>. QED
    BY <1>1, <1>2 DEF Social!Range

\* A request that begins.
LEMMA SocialBegins ==
    ASSUME SocialTypes, NEW c \in Client, NEW r, Social!Begin(c, r),
           r \in SocialRun, r.at # "writeHomeTimeline"
    PROVE  /\ SocialTypes'
           /\ db' = db
           /\ log' = [log EXCEPT !.requests = @ + 1]
  <1>1. log \in SocialLog /\ log.requests + 1 \in Nat
    BY DEF SocialTypes, SocialLog
  <1>2. log' \in SocialLog
    BY <1>1 DEF SocialLog, Social!Begin
  <1>. QED
    BY <1>2, SocialTypesKept DEF Social!Begin

\* The steps that only read, or begin or end a run.
LEMMA SocialReads ==
    ASSUME SocialTypes, NEW c \in Client,
           \/ Social!ComposePost(c) \/ Social!ReadUserIds(c)
           \/ Social!ReadHomeIds(c) \/ Social!ReadTimeline(c) \/ Social!ReadIds(c)
           \/ Social!ReadPosts(c) \/ Social!Follow(c) \/ Social!ReadFollower(c)
           \/ Social!ReadFollowee(c)
    PROVE  /\ SocialTypes'
           /\ db' = db
           /\ \/ log' = [log EXCEPT !.requests = @ + 1]
              \/ log' = log
              \/ Social!ReadHomeIds(c)
  <1>. DEFINE Step(r) == /\ run' = [run EXCEPT ![c] = r]
                         /\ r \in SocialRun
                         /\ r.at = "writeHomeTimeline" => r.todo # <<>>
  <1>. USE DEF Social!Goto, Social!End
  <1>1. Social!Idle \in SocialRun /\ Social!Idle.at = "idle"
    BY DEF SocialRun, Social!Idle
  <1>2. run[c] \in SocialRun
    BY DEF SocialTypes
  <1>3. CASE Social!ComposePost(c)
    <2>1. PICK u \in User, n \in Numbers :
             Social!Begin(c, [at |-> "storePost", creator |-> u, number |-> n])
      BY <1>3 DEF Social!ComposePost
    <2>2. [at |-> "storePost", creator |-> u, number |-> n] \in SocialRun
      BY DEF SocialRun
    <2>. QED
      BY <2>1, <2>2, SocialBegins
  <1>4. CASE Social!ReadTimeline(c)
    <2>1. PICK u \in User, kind \in {"user", "home"} :
             Social!Begin(c, [at |-> "readIds", of |-> u, kind |-> kind])
      BY <1>4 DEF Social!ReadTimeline
    <2>2. [at |-> "readIds", of |-> u, kind |-> kind] \in SocialRun
      BY DEF SocialRun
    <2>. QED
      BY <2>1, <2>2, SocialBegins
  <1>5. CASE Social!Follow(c)
    <2>1. PICK u \in User, v \in User :
             Social!Begin(c, [at |-> "readFollower", from |-> u, to |-> v,
                              overlapped |-> FALSE, got |-> Social!NoFollow])
      BY <1>5 DEF Social!Follow
    <2>2. [at |-> "readFollower", from |-> u, to |-> v, overlapped |-> FALSE,
           got |-> Social!NoFollow] \in SocialRun
      BY DEF SocialRun, FollowRun, Vertices, Social!NoFollow, Social!Following
    <2>. QED
      BY <2>1, <2>2, SocialBegins
  <1>6. CASE \/ Social!ReadUserIds(c) \/ Social!ReadHomeIds(c)
    <2>1. run[c] \in ComposeRun
      BY <1>2, <1>6 DEF Social!ReadUserIds, Social!ReadHomeIds,
         SocialRun, ComposeRun, FollowRun, Social!Following, Social!Idle
    <2>2. run[c].creator \in User /\ Social!Listed(db.user[run[c].creator]) \in Stored
      BY <2>1, TimelineFacts DEF ComposeRun
    <2>3. CASE Social!ReadUserIds(c)
      <3>1. [run[c] EXCEPT !.at = "writeUserTimeline",
                !.got = Social!Listed(db.user[run[c].creator])] \in ComposeRun
        BY <2>1, <2>2 DEF ComposeRun, AfterStore
      <3>. QED
        BY <2>1, <2>3, <3>1, SocialTypesKept
           DEF Social!ReadUserIds, SocialRun, SocialTypes, ComposeRun
    <2>5. CASE Social!ReadHomeIds(c)
      <3>0. /\ run[c].todo \in Seq(User) /\ run[c].followers \in Seq(User)
            /\ run[c].ids \in Stored
        BY <2>1 DEF ComposeRun
      <3>1. CASE run[c].todo = <<>>
        <4>1. Social!Range(run[c].ids) \subseteq Nat \ {0}
          BY <3>0, StoredRange DEF SocialTypes, SocialDb
        <4>2. Social!Range(run[c].followers) \subseteq User
          BY <3>0 DEF Social!Range
        <4>. DEFINE done == log.done \cup [post : Social!Range(run[c].ids),
                                           to : Social!Range(run[c].followers)]
        <4>3. log' \in SocialLog
          <5>1. log \in SocialLog /\ done \in SUBSET [post : Nat \ {0}, to : User]
            BY <4>1, <4>2 DEF SocialTypes, SocialLog
          <5>2. log' = [log EXCEPT !.done = done]
            BY <2>5, <3>1 DEF Social!ReadHomeIds
          <5>. HIDE DEF done
          <5>. QED
            BY <5>1, <5>2 DEF SocialLog
        <4>. QED
          BY <1>1, <2>5, <3>1, <4>3, SocialTypesKept DEF Social!ReadHomeIds, SocialTypes
      <3>2. CASE run[c].todo # <<>>
        <4>1. Head(run[c].todo) \in User
          BY <3>0, <3>2
        <4>2. Social!Listed(db.home[Head(run[c].todo)]) \in Stored
          BY <4>1, TimelineFacts
        <4>3. [run[c] EXCEPT !.at = "writeHomeTimeline",
                  !.got = Social!Listed(db.home[Head(run[c].todo)])] \in ComposeRun
          BY <2>1, <4>2 DEF ComposeRun, AfterStore
        <4>. DEFINE r == [run[c] EXCEPT !.at = "writeHomeTimeline",
                            !.got = Social!Listed(db.home[Head(run[c].todo)])]
        <4>4. r \in SocialRun /\ r.todo # <<>>
          BY <2>1, <3>2, <4>3 DEF SocialRun, ComposeRun
        <4>5. run' = [run EXCEPT ![c] = r] /\ db' = db /\ log' = log
          BY <2>5, <3>2 DEF Social!ReadHomeIds
        <4>6. log' \in SocialLog
          BY <4>5 DEF SocialTypes
        <4>. HIDE DEF r
        <4>. QED
          BY <4>4, <4>5, <4>6, SocialTypesKept
      <3>. QED
        BY <3>1, <3>2
    <2>. QED
      BY <1>6, <2>3, <2>5
  <1>7. CASE Social!ReadIds(c)
    <2>1. run[c].of \in User
      BY <1>2, <1>7 DEF Social!ReadIds, SocialRun, ComposeRun, FollowRun, Social!Following,
         AfterStore, Social!Idle
    <2>. DEFINE list == IF run[c].kind = "user" THEN db.user[run[c].of]
                        ELSE db.home[run[c].of]
    <2>2. list # Missing => list \in Stored
      BY <2>1 DEF SocialTypes, SocialDb, Timelines
    <2>3. list # Missing => [at |-> "readPosts", ids |-> list] \in SocialRun
      BY <2>2 DEF SocialRun
    <2>. QED
      BY <1>1, <1>7, <2>3, SocialTypesKept DEF Social!ReadIds, SocialTypes
  <1>8. CASE Social!ReadPosts(c)
    BY <1>1, <1>8, SocialTypesKept DEF Social!ReadPosts, SocialTypes
  <1>9. CASE Social!ReadFollower(c) \/ Social!ReadFollowee(c)
    <2>1. run[c] \in FollowRun
      BY <1>2, <1>9 DEF Social!ReadFollower, Social!ReadFollowee,
         SocialRun, ComposeRun, FollowRun, AfterStore, Social!Idle
    <2>2. Social!Vertex(run[c].from) \in Vertices /\ Social!Vertex(run[c].to) \in Vertices
      BY <2>1 DEF FollowRun, SocialTypes, SocialDb, Social!Vertex, Social!NoFollow, Vertices
    <2>3. [run[c] EXCEPT !.at = "writeFollowee", !.got = Social!Vertex(run[c].from)]
             \in FollowRun
      BY <2>1, <2>2 DEF FollowRun, Social!Following
    <2>4. [run[c] EXCEPT !.at = "writeFollower", !.got = Social!Vertex(run[c].to)]
             \in FollowRun
      BY <2>1, <2>2 DEF FollowRun, Social!Following
    <2>5. \E r \in FollowRun \cup {Social!Idle} :
             /\ run' = [run EXCEPT ![c] = r] /\ db' = db /\ log' = log
             /\ r.at # "writeHomeTimeline"
      BY <1>1, <1>9, <2>3, <2>4 DEF Social!ReadFollower, Social!ReadFollowee, FollowRun,
         Social!Following
    <2>. QED
      BY <2>5, SocialTypesKept DEF SocialRun, SocialTypes
  <1>. QED
    BY <1>3, <1>4, <1>5, <1>6, <1>7, <1>8, <1>9

LEMMA ExtendedFacts ==
    ASSUME NEW S, NEW list \in Seq(S), NEW ids \in Seq(S)
    PROVE  LET d == IF Len(list) >= MaxKept THEN 1 ELSE 0
               new == Social!Extended(list, ids)
           IN  /\ new \in Seq(S)
               /\ Len(new) = (Len(list) - d) + Len(ids)
               /\ \A k \in (d + 1)..Len(list) : new[k - d] = list[k]
               /\ \A k \in 1..Len(ids) : new[(Len(list) - d) + k] = ids[k]
  <1>. DEFINE kept == IF Len(list) >= MaxKept THEN Tail(list) ELSE list
              d == IF Len(list) >= MaxKept THEN 1 ELSE 0
              new == Social!Extended(list, ids)
  <1>1. new = kept \o ids
    BY DEF Social!Extended
  <1>2. /\ kept \in Seq(S) /\ Len(kept) = Len(list) - d
        /\ \A k \in 1..Len(kept) : kept[k] = list[k + d]
    <2>1. CASE Len(list) >= MaxKept
      <3>1. list # <<>>
        BY <2>1, AmountsAssumption
      <3>. QED
        BY <2>1, <3>1, HeadTailProperties, Zenon
    <2>2. CASE ~(Len(list) >= MaxKept)
      BY <2>2
    <2>. QED
      BY <2>1, <2>2
  <1>. HIDE DEF kept
  <1>3. /\ new \in Seq(S) /\ Len(new) = Len(kept) + Len(ids)
        /\ \A k \in 1..Len(kept) : new[k] = kept[k]
        /\ \A k \in 1..Len(ids) : new[Len(kept) + k] = ids[k]
    <2>. HIDE DEF new
    <2>1. Len(kept) \in Nat /\ Len(ids) \in Nat
      BY <1>2
    <2>2. /\ new \in Seq(S) /\ Len(new) = Len(kept) + Len(ids)
          /\ \A i \in 1..(Len(kept) + Len(ids)) :
                new[i] = IF i <= Len(kept) THEN kept[i] ELSE ids[i - Len(kept)]
      BY <1>1, <1>2, ConcatProperties, Zenon
    <2>3. ASSUME NEW k \in 1..Len(ids) PROVE new[Len(kept) + k] = ids[k]
      <3>1. Len(kept) + k \in 1..(Len(kept) + Len(ids)) /\ ~(Len(kept) + k <= Len(kept))
            /\ (Len(kept) + k) - Len(kept) = k
        BY <2>1
      <3>. QED
        BY <2>2, <3>1
    <2>. QED
      BY <2>1, <2>2, <2>3
  <1>4. \A k \in (d + 1)..Len(list) : new[k - d] = list[k]
    BY <1>2, <1>3
  <1>. QED
    BY <1>2, <1>3, <1>4

LEMMA StoredGrows ==
    ASSUME SocialTypes, db' \in SocialDb', db.posts <= db'.posts
    PROVE  Stored \subseteq Stored' /\ SocialRun \subseteq SocialRun' /\ Timelines \subseteq Timelines'
  <1>1. 1..db.posts \subseteq 1..db'.posts
    BY DEF SocialTypes, SocialDb
  <1>2. Stored \subseteq Stored'
    BY <1>1, SeqMonotonic, Zenon DEF Stored
  <1>. QED
    BY <1>2 DEF SocialRun, ComposeRun, Timelines

\* A step that stores.
LEMMA SocialTypesGrow ==
    ASSUME SocialTypes, NEW c \in Client, NEW r \in SocialRun',
           db' \in SocialDb', db.posts <= db'.posts, log' \in SocialLog,
           run' = [run EXCEPT ![c] = r], r.at # "writeHomeTimeline"
    PROVE  SocialTypes'
  <1>1. SocialRun \subseteq SocialRun'
    BY StoredGrows
  <1>. HIDE DEF SocialRun, SocialDb, SocialLog
  <1>. QED
    BY <1>1 DEF SocialTypes

LEMMA VertexFacts ==
    ASSUME NEW v \in Vertices, NEW u \in User
    PROVE  /\ v.followees \in Seq(User) /\ v.followers \in Seq(User)
           /\ LET w == [v EXCEPT !.followees = Append(@, u)]
              IN  /\ w \in Vertices /\ w.followers = v.followers
                  /\ w.followees = Append(v.followees, u)
           /\ LET w == [v EXCEPT !.followers = Append(@, u)]
              IN  /\ w \in Vertices /\ w.followees = v.followees
                  /\ w.followers = Append(v.followers, u)
  <1>1. v.followees \in Seq(User) /\ v.followers \in Seq(User)
    BY DEF Vertices
  <1>2. Append(v.followees, u) \in Seq(User) /\ Append(v.followers, u) \in Seq(User)
    BY <1>1
  <1>3. \A q \in Seq(User) :
           /\ [v EXCEPT !.followees = q] \in Vertices
           /\ [v EXCEPT !.followees = q].followees = q
           /\ [v EXCEPT !.followees = q].followers = v.followers
           /\ [v EXCEPT !.followers = q] \in Vertices
           /\ [v EXCEPT !.followers = q].followers = q
           /\ [v EXCEPT !.followers = q].followees = v.followees
    BY DEF Vertices
  <1>. QED
    BY <1>1, <1>2, <1>3

LEMMA SocialWrites ==
    ASSUME SocialTypes, NEW c \in Client,
           \/ Social!StorePost(c) \/ Social!WriteUserTimeline(c) \/ Social!WriteHomeTimeline(c)
           \/ Social!WriteFollowee(c) \/ Social!WriteFollower(c)
    PROVE  SocialTypes'
  <1>. USE DEF Social!Goto, Social!End
  <1>1. run[c] \in SocialRun
    BY DEF SocialTypes
  <1>2. Social!Idle \in SocialRun' /\ Social!Idle.at = "idle"
    BY DEF SocialRun, Social!Idle
  <1>3. CASE Social!StorePost(c)
    <2>1. run[c].creator \in User /\ run[c].number \in Numbers
      BY <1>1, <1>3 DEF Social!StorePost, SocialRun, ComposeRun, FollowRun,
         Social!Following, AfterStore, Social!Idle
    <2>. DEFINE n == run[c].number
                ids == [i \in 1..n |-> db.posts + i]
                r == Social!Posting(run[c].creator, ids)
    <2>2. n \in Nat /\ db.posts \in Nat
      BY <2>1, AmountsAssumption DEF SocialTypes, SocialDb
    <2>3. db'.posts = db.posts + n
      BY <1>3 DEF Social!StorePost, SocialTypes, SocialDb
    <2>4. Stored \subseteq Stored' /\ Timelines \subseteq Timelines'
      <3>1. 1..db.posts \subseteq 1..db'.posts
        BY <2>2, <2>3
      <3>2. Stored \subseteq Stored'
        BY <3>1, SeqMonotonic, Zenon DEF Stored
      <3>. QED
        BY <3>2 DEF Timelines
    <2>5. db' \in SocialDb'
      <3>1. /\ db.user \in [User -> Timelines'] /\ db.home \in [User -> Timelines']
            /\ db \in SocialDb /\ db.posts + n \in Nat
        BY <2>2, <2>4 DEF SocialTypes, SocialDb
      <3>2. db' = [db EXCEPT !.posts = db.posts + n]
        BY <1>3 DEF Social!StorePost
      <3>. HIDE DEF n
      <3>. QED
        BY <3>1, <3>2 DEF SocialDb
    <2>6. ids \in Stored'
      BY <2>2, <2>3 DEF Stored
    <2>7. <<>> \in Stored' /\ <<>> \in Seq(User)
      BY DEF Stored
    <2>. HIDE DEF ids
    <2>8. r \in SocialRun' /\ r.at # "writeHomeTimeline"
      BY <2>1, <2>6, <2>7 DEF Social!Posting, SocialRun, ComposeRun, AfterStore
    <2>9. run' = [run EXCEPT ![c] = r] /\ log' \in SocialLog
      BY <1>3 DEF Social!StorePost, SocialTypes, ids
    <2>10. db.posts <= db'.posts
      BY <2>2, <2>3
    <2>. HIDE DEF r, n
    <2>. QED
      BY <2>2, <2>3, <2>5, <2>8, <2>9, <2>10, SocialTypesGrow
  <1>4. CASE Social!WriteUserTimeline(c) \/ Social!WriteHomeTimeline(c)
    <2>1. run[c] \in ComposeRun
      BY <1>1, <1>4 DEF Social!WriteUserTimeline, Social!WriteHomeTimeline, SocialRun,
         FollowRun, Social!Following, Social!Idle
    <2>2. /\ run[c].creator \in User /\ run[c].ids \in Stored /\ run[c].got \in Stored
          /\ run[c].todo \in Seq(User) /\ run[c].followers \in Seq(User)
      BY <2>1 DEF ComposeRun
    <2>. DEFINE new == Social!Extended(run[c].got, run[c].ids)
    <2>3. new \in Stored
      BY <2>2, ExtendedFacts DEF Stored
    <2>4. run[c].at = "writeHomeTimeline" => run[c].todo # <<>> /\ Head(run[c].todo) \in User
      BY <2>2 DEF SocialTypes
    <2>5. new \in Timelines
      BY <2>3 DEF Timelines
    <2>6. db' \in SocialDb /\ db'.posts = db.posts
      <3>1. db \in SocialDb
        BY DEF SocialTypes
      <3>2. \/ db' = [db EXCEPT !.user = [db.user EXCEPT ![run[c].creator] = new]]
            \/ /\ Head(run[c].todo) \in User
               /\ db' = [db EXCEPT !.home = [db.home EXCEPT ![Head(run[c].todo)] = new]]
        BY <1>4, <2>4, <3>1
           DEF Social!WriteUserTimeline, Social!WriteHomeTimeline, SocialDb
      <3>. HIDE DEF new
      <3>3. /\ [db.user EXCEPT ![run[c].creator] = new] \in [User -> Timelines]
            /\ Head(run[c].todo) \in User =>
                  [db.home EXCEPT ![Head(run[c].todo)] = new] \in [User -> Timelines]
        BY <2>5, <3>1 DEF SocialDb
      <3>4. \A t \in [User -> Timelines] :
               /\ [db EXCEPT !.user = t] \in SocialDb /\ [db EXCEPT !.user = t].posts = db.posts
               /\ [db EXCEPT !.home = t] \in SocialDb /\ [db EXCEPT !.home = t].posts = db.posts
        BY <3>1 DEF SocialDb
      <3>5. CASE db' = [db EXCEPT !.user = [db.user EXCEPT ![run[c].creator] = new]]
        BY <3>3, <3>4, <3>5, Zenon
      <3>6. CASE /\ Head(run[c].todo) \in User
                 /\ db' = [db EXCEPT !.home = [db.home EXCEPT ![Head(run[c].todo)] = new]]
        BY <3>3, <3>4, <3>6, Zenon
      <3>. QED
        BY <3>2, <3>5, <3>6, Zenon
    <2>7. Stored' = Stored /\ SocialRun' = SocialRun /\ SocialDb' = SocialDb
      BY <2>6 DEF Stored, SocialRun, ComposeRun, SocialDb, Timelines
    <2>8. CASE Social!WriteUserTimeline(c)
      <3>. DEFINE r == [run[c] EXCEPT !.at = "getFollowers", !.got = <<>>]
      <3>1. <<>> \in Stored
        BY DEF Stored
      <3>2. r \in ComposeRun /\ r.at # "writeHomeTimeline"
        BY <2>1, <3>1 DEF ComposeRun, AfterStore
      <3>. QED
        BY <2>6, <2>7, <2>8, <3>2, SocialTypesGrow
           DEF Social!WriteUserTimeline, SocialTypes, SocialRun, SocialDb
    <2>9. CASE Social!WriteHomeTimeline(c)
      <3>. DEFINE r == [run[c] EXCEPT !.at = "readHomeTimeline", !.todo = Tail(@)]
                  f == Head(run[c].todo)
      <3>1. Tail(run[c].todo) \in Seq(User) /\ f \in User
        BY <2>2, <2>4, <2>9 DEF Social!WriteHomeTimeline
      <3>2. r \in ComposeRun /\ r.at # "writeHomeTimeline"
        BY <2>1, <3>1 DEF ComposeRun, AfterStore
      <3>3. run[c].ids \in Seq(Nat) /\ Social!Range(run[c].ids) \subseteq Nat
        <4>1. 1..db.posts \subseteq Nat
          BY DEF SocialTypes, SocialDb
        <4>2. run[c].ids \in Seq(Nat)
          BY <2>2, <4>1, SeqMonotonic, Zenon DEF Stored
        <4>. QED
          BY <4>2 DEF Social!Range
      <3>4. log.sent[f] \o Social!Arriving(run[c].ids) \in Seq(Nat)
        <4>1. Social!Arriving(run[c].ids) \in Seq(Nat)
          BY <3>3 DEF Social!Arriving
        <4>. QED
          BY <3>1, <4>1 DEF SocialTypes, SocialLog
      <3>5. {<<x, f>> : x \in Social!Range(run[c].ids)} \subseteq Nat \X User
        BY <3>1, <3>3
      <3>6. log' \in SocialLog
        BY <2>9, <3>1, <3>4, <3>5 DEF Social!WriteHomeTimeline, SocialTypes, SocialLog
      <3>. QED
        BY <2>6, <2>7, <2>9, <3>2, <3>6, SocialTypesGrow
           DEF Social!WriteHomeTimeline, SocialTypes, SocialRun, SocialDb
    <2>. QED
      BY <1>4, <2>8, <2>9
  <1>5. CASE Social!WriteFollowee(c) \/ Social!WriteFollower(c)
    <2>1. run[c] \in FollowRun
      BY <1>1, <1>5 DEF Social!WriteFollowee, Social!WriteFollower, SocialRun, ComposeRun,
         AfterStore, Social!Idle
    <2>2. /\ run[c].from \in User /\ run[c].to \in User /\ run[c].got \in Vertices
          /\ run[c].overlapped \in BOOLEAN
      BY <2>1 DEF FollowRun
    <2>3. /\ [run[c].got EXCEPT !.followees = Append(@, run[c].to)] \in Vertices
          /\ [run[c].got EXCEPT !.followers = Append(@, run[c].from)] \in Vertices
      BY <2>2, VertexFacts
    <2>4. db' \in SocialDb /\ db'.posts = db.posts
      BY <1>5, <2>2, <2>3
         DEF Social!WriteFollowee, Social!WriteFollower, SocialTypes, SocialDb
    <2>5. Stored' = Stored /\ SocialRun' = SocialRun /\ SocialDb' = SocialDb
      BY <2>4 DEF Stored, SocialRun, ComposeRun, SocialDb, Timelines
    <2>6. log' \in SocialLog
      <3>1. log \in SocialLog
        BY DEF SocialTypes
      <3>2. log' = log \/ log' = [log EXCEPT !.follows = @ \cup
                                     {[from |-> run[c].from, to |-> run[c].to]}]
        BY <1>5 DEF Social!WriteFollowee, Social!WriteFollower
      <3>3. [from |-> run[c].from, to |-> run[c].to] \in [from : User, to : User]
        BY <2>2
      <3>. DEFINE follows == log.follows \cup {[from |-> run[c].from, to |-> run[c].to]}
      <3>4. follows \in SUBSET [from : User, to : User]
        BY <3>1, <3>3 DEF SocialLog
      <3>5. log' = log \/ log' = [log EXCEPT !.follows = follows]
        BY <3>2
      <3>. HIDE DEF follows
      <3>. QED
        BY <3>1, <3>4, <3>5 DEF SocialLog
    <2>7. CASE Social!WriteFollowee(c)
      <3>. DEFINE r == [run[c] EXCEPT !.at = "readFollowee",
                          !.overlapped = @ \/ Social!GraphOverlapped(c, run[c].from)]
      <3>1. Social!GraphOverlapped(c, run[c].from) \in BOOLEAN
        BY DEF Social!GraphOverlapped
      <3>2. (run[c].overlapped \/ Social!GraphOverlapped(c, run[c].from)) \in BOOLEAN
        BY <2>2, <3>1, Zenon
      <3>3. r \in FollowRun /\ r.at # "writeHomeTimeline"
        BY <2>1, <3>2 DEF FollowRun, Social!Following
      <3>. QED
        BY <2>4, <2>5, <2>6, <2>7, <3>3, SocialTypesGrow
           DEF Social!WriteFollowee, SocialTypes, SocialRun, SocialDb
    <2>8. CASE Social!WriteFollower(c)
      BY <1>2, <2>4, <2>5, <2>6, <2>8, SocialTypesGrow
         DEF Social!WriteFollower, SocialTypes, SocialDb
    <2>. QED
      BY <1>5, <2>7, <2>8
  <1>. QED
    BY <1>3, <1>4, <1>5

\* The followers are those of a line of the cache, or of the vertex: then the
\* answer is one that may be saved.
LEMMA FollowersAnswered ==
    ASSUME SocialTypes, NEW c \in Client, Social!GetFollowers(c)
    PROVE  /\ db' \in SocialDb /\ db'.posts = db.posts /\ db'.user = db.user
           /\ db'.home = db.home /\ db'.graph = db.graph
           /\ log' = log
           /\ \E r \in ComposeRun \cup {Social!Idle} :
                 /\ run' = [run EXCEPT ![c] = r]
                 /\ \/ r.at = "idle"
                    \/ r.at = "readHomeTimeline" /\ r.todo = r.followers
  <1>. DEFINE u == run[c].creator
  <1>. USE DEF Social!Goto, Social!End
  <1>1. u \in User /\ db \in SocialDb
    BY DEF SocialTypes, SocialRun, ComposeRun, FollowRun, Social!Following, Social!Idle,
       Social!GetFollowers
  <1>2. /\ db.line[u] # Missing => db.line[u] \in Seq(User)
        /\ db.graph[u] # Missing => db.graph[u].followers \in Seq(User)
        /\ db.answered[u] \subseteq Seq(User)
    BY <1>1 DEF SocialDb, Vertices
  <1>3. \A q \in Seq(User) :
           LET d == [db EXCEPT !.answered[u] = @ \cup {q}]
           IN  /\ d \in SocialDb /\ d.posts = db.posts /\ d.user = db.user
               /\ d.home = db.home /\ d.graph = db.graph
    BY <1>1, <1>2 DEF SocialDb
  <1>4. run[c] \in ComposeRun
    BY DEF Social!GetFollowers, SocialTypes, SocialRun, FollowRun, Social!Following,
       Social!Idle
  <1>5. ASSUME NEW q \in Seq(User),
               Social!Goto(c, [run[c] EXCEPT !.at = "readHomeTimeline", !.todo = q,
                                             !.followers = q])
        PROVE  \E r \in ComposeRun \cup {Social!Idle} :
                  /\ run' = [run EXCEPT ![c] = r]
                  /\ r.at = "readHomeTimeline" /\ r.todo = r.followers
    <2>. DEFINE r == [run[c] EXCEPT !.at = "readHomeTimeline", !.todo = q, !.followers = q]
    <2>1. r \in ComposeRun /\ r.at = "readHomeTimeline" /\ r.todo = r.followers
      BY <1>4 DEF ComposeRun, AfterStore
    <2>2. run' = [run EXCEPT ![c] = r]
      BY <1>5
    <2>. HIDE DEF r
    <2>. QED
      BY <2>1, <2>2
  <1>. DEFINE Sent(q) == Social!Goto(c, [run[c] EXCEPT !.at = "readHomeTimeline", !.todo = q,
                                                       !.followers = q])
  <1>6. /\ log' = log
        /\ \/ db.line[u] # Missing /\ Sent(db.line[u]) /\ db' = db
           \/ Social!End(c) /\ db' = db
           \/ /\ db.graph[u] # Missing /\ Sent(db.graph[u].followers)
              /\ db' = [db EXCEPT !.answered[u] = @ \cup {db.graph[u].followers}]
    BY DEF Social!GetFollowers
  <1>7. CASE Social!End(c) /\ db' = db
    <2>1. Social!Idle.at = "idle"
      BY DEF Social!Idle
    <2>. QED
      BY <1>1, <1>6, <1>7, <2>1
  <1>. USE <1>5
  <1>8. CASE db.line[u] # Missing /\ Sent(db.line[u]) /\ db' = db
    BY <1>1, <1>2, <1>6, <1>8
  <1>9. CASE /\ db.graph[u] # Missing /\ Sent(db.graph[u].followers)
             /\ db' = [db EXCEPT !.answered[u] = @ \cup {db.graph[u].followers}]
    BY <1>2, <1>3, <1>6, <1>9
  <1>. QED
    BY <1>6, <1>7, <1>8, <1>9

LEMMA FollowersTyped ==
    ASSUME SocialTypes, NEW c \in Client, Social!GetFollowers(c)
    PROVE  SocialTypes'
  <1>1. /\ db' \in SocialDb /\ db'.posts = db.posts /\ log' = log /\ db.posts \in Nat
        /\ log \in SocialLog
    BY FollowersAnswered DEF SocialTypes, SocialDb
  <1>2. SocialRun' = SocialRun /\ SocialDb' = SocialDb /\ SocialLog' = SocialLog
    BY <1>1 DEF Stored, SocialRun, ComposeRun, SocialDb, SocialLog, Timelines
  <1>3. PICK r \in ComposeRun \cup {Social!Idle} :
           run' = [run EXCEPT ![c] = r] /\ r.at # "writeHomeTimeline"
    BY FollowersAnswered
  <1>4. r \in SocialRun'
    BY <1>2 DEF SocialRun
  <1>5. db.posts <= db'.posts /\ db' \in SocialDb' /\ log' \in SocialLog
    BY <1>1, <1>2
  <1>. HIDE DEF SocialRun, SocialDb, SocialLog
  <1>. QED
    BY <1>3, <1>4, <1>5, SocialTypesGrow

\* InsertUser and FollowMulti.
LEMMA SocialReplaces ==
    ASSUME SocialTypes, NEW u \in User, Social!InsertUser(u) \/ Social!FollowMulti(u)
    PROVE  /\ SocialTypes'
           /\ \E v \in Vertices : Social!Replace(u, v)
  <1>1. \E v \in Vertices : Social!Replace(u, v)
    <2>1. CASE Social!InsertUser(u)
      <3>1. Social!NoFollow \in Vertices
        BY DEF Social!NoFollow, Vertices
      <3>. QED
        BY <2>1, <3>1 DEF Social!InsertUser
    <2>2. CASE Social!FollowMulti(u)
      <3>1. PICK w \in User :
               Social!Replace(u,
                  [followers |-> SubSeq(<<w>>, 1, IF Len(<<w>>) >= MaxKept THEN MaxKept
                                                  ELSE Len(<<w>>)),
                   followees |-> SubSeq(<<w, u>>, 1, IF Len(<<w, u>>) >= MaxKept THEN MaxKept
                                                     ELSE Len(<<w, u>>))])
        BY <2>2 DEF Social!FollowMulti
      <3>2. ASSUME NEW list \in Seq(User)
            PROVE  SubSeq(list, 1, IF Len(list) >= MaxKept THEN MaxKept ELSE Len(list))
                      \in Seq(User)
        <4>. DEFINE n == IF Len(list) >= MaxKept THEN MaxKept ELSE Len(list)
        <4>1. n \in Int /\ \A i \in 1..n : list[i] \in User
          BY AmountsAssumption
        <4>. QED
          BY <4>1, SubSeqProperties
      <3>3. <<w>> \in Seq(User) /\ <<w, u>> \in Seq(User)
        OBVIOUS
      <3>. QED
        BY <3>1, <3>2, <3>3 DEF Vertices
    <2>. QED
      BY <2>1, <2>2
  <1>2. PICK v \in Vertices : Social!Replace(u, v)
    BY <1>1
  <1>3. db' \in SocialDb /\ db'.posts = db.posts
    BY <1>2 DEF Social!Replace, SocialTypes, SocialDb
  <1>4. log' \in SocialLog
    <2>1. log \in SocialLog /\ log.requests + 1 \in Nat
      BY DEF SocialTypes, SocialLog
    <2>. QED
      BY <1>2, <2>1 DEF Social!Replace, SocialLog
  <1>5. SocialDb' = SocialDb /\ SocialRun' = SocialRun
    BY <1>3 DEF Stored, SocialRun, ComposeRun, SocialDb, Timelines
  <1>6. ASSUME NEW c \in Client
        PROVE  /\ run'[c] \in SocialRun
               /\ run'[c].at = "writeHomeTimeline" => run'[c].todo # <<>>
    <2>0. run[c] \in SocialRun
      BY DEF SocialTypes
    <2>1. CASE run[c].at \in Social!Following
      <3>1. run[c] \in FollowRun
        BY <2>0, <2>1 DEF SocialRun, ComposeRun, AfterStore, Social!Following, Social!Idle
      <3>2. run'[c] = [run[c] EXCEPT !.overlapped = TRUE] \/ run'[c] = run[c]
        BY <1>2 DEF Social!Replace
      <3>3. run'[c] \in FollowRun
        BY <3>1, <3>2 DEF FollowRun
      <3>. QED
        BY <3>3 DEF SocialRun, FollowRun, Social!Following
    <2>2. CASE run[c].at \notin Social!Following
      BY <1>2, <2>0, <2>2 DEF Social!Replace, SocialTypes
    <2>. QED
      BY <2>1, <2>2
  <1>7. run' \in [Client -> SocialRun]
    BY <1>2, <1>6 DEF Social!Replace
  <1>. HIDE DEF SocialRun, SocialDb, SocialLog
  <1>. QED
    BY <1>1, <1>3, <1>4, <1>5, <1>6, <1>7 DEF SocialTypes

\* A run of something else changes nothing of this.
LEMMA FollowsBeside ==
    ASSUME SocialTypes, FollowsKept, NEW c \in Client,
           db'.graph = db.graph, log'.follows = log.follows,
           \A d \in Client \ {c} : run'[d] = run[d],
           run'[c].at \notin {"writeFollowee", "readFollowee", "writeFollower"}
    PROVE  FollowsKept'
  <1>2. \A d \in Client, u \in User : Rewrites(d, u)' => Rewrites(d, u) /\ run'[d] = run[d]
    BY DEF Rewrites
  <1>3. \A d \in Client : HalfDone(d)' => HalfDone(d) /\ run'[d] = run[d]
    BY DEF HalfDone
  <1>. QED
    BY <1>2, <1>3 DEF FollowsKept, HasFollow, HasHalf

\* What is known of a vertex is known of a copy read now.
LEMMA CopyIsGood ==
    ASSUME FollowsKept, NEW w \in User
    PROVE  /\ \A f \in log.follows : HasFollow(Social!Vertex(w), w, f)
           /\ \A c \in Client : HalfDone(c) => HasHalf(Social!Vertex(w), w, c)
  <1>1. ASSUME db.graph[w] # Missing
        PROVE  Social!Vertex(w) = db.graph[w]
    BY <1>1 DEF Social!Vertex
  <1>2. ASSUME NEW f \in log.follows PROVE HasFollow(Social!Vertex(w), w, f)
    BY <1>1 DEF FollowsKept, HasFollow
  <1>3. ASSUME NEW c \in Client, HalfDone(c) PROVE HasHalf(Social!Vertex(w), w, c)
    BY <1>1, <1>3 DEF FollowsKept, HasHalf
  <1>. QED
    BY <1>2, <1>3

LEMMA FollowsRead ==
    ASSUME SocialTypes, FollowsKept, NEW c \in Client,
           \/ Social!ReadFollower(c)
           \/ Social!ReadFollowee(c)
    PROVE  FollowsKept'
  <1>0. run[c] \in FollowRun
    BY DEF SocialTypes, SocialRun, ComposeRun, FollowRun, AfterStore, Social!Idle,
       Social!ReadFollower, Social!ReadFollowee
  <1>1. CASE Social!ReadFollowee(c) /\ db.graph[run[c].to] = Missing
    BY <1>1, FollowsBeside DEF Social!ReadFollowee, Social!End, Social!Goto, Social!Idle,
       SocialTypes
  <1>2. CASE \/ Social!ReadFollower(c)
             \/ Social!ReadFollowee(c) /\ db.graph[run[c].to] # Missing
    <2>. DEFINE w == IF run[c].at = "readFollower" THEN run[c].from ELSE run[c].to
                r == [run[c] EXCEPT !.at = IF run[c].at = "readFollower" THEN "writeFollowee"
                                           ELSE "writeFollower",
                                    !.got = Social!Vertex(w)]
    <2>1. run' = [run EXCEPT ![c] = r] /\ db' = db /\ log' = log
      BY <1>2 DEF Social!ReadFollower, Social!ReadFollowee, Social!Goto
    <2>2. /\ r.from = run[c].from /\ r.to = run[c].to /\ r.overlapped = run[c].overlapped
          /\ r.got = Social!Vertex(w) /\ w \in User
          /\ \/ run[c].at = "readFollower" /\ r.at = "writeFollowee" /\ w = r.from
             \/ run[c].at = "readFollowee" /\ r.at = "writeFollower" /\ w = r.to
      BY <1>0, <1>2 DEF FollowRun, Social!ReadFollower, Social!ReadFollowee
    <2>. HIDE DEF r, w
    <2>3. \A d \in Client : run'[d] = IF d = c THEN r ELSE run[d]
      BY <2>1 DEF SocialTypes
    <2>4. \A u \in User : Rewrites(c, u)' => u = w
      BY <2>2, <2>3 DEF Rewrites
    <2>5. \A d \in Client : HalfDone(d)' => /\ HalfDone(d) /\ run'[d].from = run[d].from
                                           /\ run'[d].to = run[d].to
      BY <2>2, <2>3 DEF HalfDone
    <2>6. \A d \in Client, u \in User :
             d # c /\ Rewrites(d, u)' => Rewrites(d, u) /\ run'[d] = run[d]
      BY <2>3 DEF Rewrites
    <2>7. run'[c].got = Social!Vertex(w)
      BY <2>2, <2>3
    <2>8. ASSUME NEW d \in Client, NEW u \in User, Rewrites(d, u)'
          PROVE  /\ \A f \in log'.follows : HasFollow(run'[d].got, u, f)
                 /\ \A e \in Client : HalfDone(e)' => HasHalf(run[d].got, u, e)'
      <3>1. CASE d = c
        <4>1. u = w /\ run'[d].got = Social!Vertex(w)
          BY <2>4, <2>7, <2>8, <3>1
        <4>. QED
          BY <2>1, <2>2, <2>5, <4>1, CopyIsGood DEF HasHalf
      <3>2. CASE d # c
        BY <2>1, <2>5, <2>6, <2>8, <3>2 DEF FollowsKept, HasHalf
      <3>. QED
        BY <3>1, <3>2
    <2>9. \A e \in Client : HalfDone(e)' =>
             /\ db'.graph[run'[e].from] # Missing
             /\ HasHalf(db.graph[run[e].from], run[e].from, e)'
      BY <2>1, <2>5 DEF FollowsKept, HasHalf
    <2>10. \A f \in log'.follows : \A u \in {f.from, f.to} :
              db'.graph[u] # Missing /\ HasFollow(db'.graph[u], u, f)
      BY <2>1 DEF FollowsKept
    <2>. QED
      BY <2>8, <2>9, <2>10 DEF FollowsKept, HasFollow
  <1>. QED
    BY <1>1, <1>2

LEMMA AppendRange ==
    ASSUME NEW S, NEW s \in Seq(S), NEW e \in S
    PROVE  Social!Range(Append(s, e)) = Social!Range(s) \cup {e}
  <1>1. /\ Append(s, e) \in Seq(S) /\ Len(Append(s, e)) = Len(s) + 1
        /\ \A i \in 1..Len(s) : Append(s, e)[i] = s[i]
        /\ Append(s, e)[Len(s) + 1] = e
    OBVIOUS
  <1>. DEFINE t == Append(s, e)
  <1>2. DOMAIN t = 1..(Len(s) + 1) /\ DOMAIN s = 1..Len(s) /\ Len(s) \in Nat
    BY <1>1
  <1>. HIDE DEF t
  <1>3. DOMAIN t = DOMAIN s \cup {Len(s) + 1}
    BY <1>2
  <1>. QED
    BY <1>1, <1>2, <1>3 DEF Social!Range, t

LEMMA RunGrows ==
    ASSUME SocialTypes, NEW c \in Client,
           run[c].at \in {"writeFollowee", "readFollowee", "writeFollower"}
    PROVE  run[c] \in FollowRun
  BY DEF SocialTypes, SocialRun, ComposeRun, AfterStore, Social!Idle

\* A vertex is written from a copy and keeps what was known of the copy.
LEMMA VertexWritten ==
    ASSUME SocialTypes, FollowsKept, NEW c \in Client, NEW w \in User, Rewrites(c, w),
           NEW v \in Vertices, db'.graph = [db.graph EXCEPT ![w] = v],
           Social!Range(run[c].got.followees) \subseteq Social!Range(v.followees),
           Social!Range(run[c].got.followers) \subseteq Social!Range(v.followers)
    PROVE  /\ \A f \in log.follows : \A u \in {f.from, f.to} :
                 db'.graph[u] # Missing /\ HasFollow(db'.graph[u], u, f)
           /\ \A e \in Client : HalfDone(e) =>
                 /\ db'.graph[run[e].from] # Missing
                 /\ HasHalf(db'.graph[run[e].from], run[e].from, e)
  <1>1. \A u \in User : db'.graph[u] = IF u = w THEN v ELSE db.graph[u]
    BY DEF SocialTypes, SocialDb
  <1>2. v # Missing
    BY MissingAssumption DEF Vertices
  <1>3. ASSUME NEW f \in log.follows, NEW u \in {f.from, f.to}
        PROVE  db'.graph[u] # Missing /\ HasFollow(db'.graph[u], u, f)
    <2>1. u \in User
      BY DEF SocialTypes, SocialLog
    <2>2. CASE u = w
      <3>1. HasFollow(run[c].got, w, f)
        BY DEF FollowsKept
      <3>. QED
        BY <1>1, <1>2, <2>1, <2>2, <3>1 DEF HasFollow
    <2>3. CASE u # w
      BY <1>1, <2>1, <2>3 DEF FollowsKept
    <2>. QED
      BY <2>2, <2>3
  <1>4. ASSUME NEW e \in Client, HalfDone(e)
        PROVE  /\ db'.graph[run[e].from] # Missing
               /\ HasHalf(db'.graph[run[e].from], run[e].from, e)
    <2>1. run[e].from \in User
      BY <1>4, RunGrows DEF FollowRun, HalfDone
    <2>2. CASE run[e].from = w
      <3>1. HasHalf(run[c].got, w, e)
        BY <1>4 DEF FollowsKept
      <3>. QED
        BY <1>1, <1>2, <2>1, <2>2, <3>1 DEF HasHalf
    <2>3. CASE run[e].from # w
      BY <1>1, <1>4, <2>1, <2>3 DEF FollowsKept
    <2>. QED
      BY <2>2, <2>3
  <1>. QED
    BY <1>3, <1>4

LEMMA FolloweeWritten ==
    ASSUME SocialTypes, FollowsKept, NEW c \in Client, Social!WriteFollowee(c)
    PROVE  FollowsKept'
  <1>. DEFINE w == run[c].from
              v == [run[c].got EXCEPT !.followees = Append(@, run[c].to)]
              r == [run[c] EXCEPT !.at = "readFollowee",
                       !.overlapped = @ \/ Social!GraphOverlapped(c, run[c].from)]
  <1>1. run[c] \in FollowRun /\ run[c].at = "writeFollowee"
    BY RunGrows DEF Social!WriteFollowee
  <1>2. w \in User /\ run[c].to \in User /\ run[c].got \in Vertices /\ Rewrites(c, w)
    BY <1>1 DEF FollowRun, Rewrites
  <1>3. /\ v \in Vertices /\ v.followers = run[c].got.followers
        /\ v.followees = Append(run[c].got.followees, run[c].to)
        /\ run[c].got.followees \in Seq(User)
    BY <1>2, VertexFacts
  <1>4. Social!Range(v.followees) = Social!Range(run[c].got.followees) \cup {run[c].to}
    BY <1>2, <1>3, AppendRange
  <1>5. db'.graph = [db.graph EXCEPT ![w] = v] /\ log' = log /\ run' = [run EXCEPT ![c] = r]
    BY DEF Social!WriteFollowee, Social!Goto, SocialTypes, SocialDb
  <1>6. /\ r.from = w /\ r.to = run[c].to /\ r.at = "readFollowee"
        /\ ~r.overlapped => ~Social!GraphOverlapped(c, w)
    BY <1>1 DEF FollowRun
  <1>. HIDE DEF v, r
  <1>7. \A d \in Client : run'[d] = IF d = c THEN r ELSE run[d]
    BY <1>5 DEF SocialTypes
  <1>8. \A d \in Client, u \in User :
           Rewrites(d, u)' => d # c /\ Rewrites(d, u) /\ run'[d] = run[d]
    BY <1>6, <1>7 DEF Rewrites
  <1>9. \A d \in Client : HalfDone(d)' /\ d # c => HalfDone(d) /\ run'[d] = run[d]
    BY <1>7 DEF HalfDone
  <1>10. HalfDone(c)' => \A d \in Client : ~Rewrites(d, w)'
    BY <1>6, <1>7, <1>8 DEF HalfDone, Rewrites, Social!GraphOverlapped
  <1>11. /\ \A f \in log.follows : \A u \in {f.from, f.to} :
               db'.graph[u] # Missing /\ HasFollow(db'.graph[u], u, f)
         /\ \A e \in Client : HalfDone(e) =>
               /\ db'.graph[run[e].from] # Missing
               /\ HasHalf(db'.graph[run[e].from], run[e].from, e)
    BY <1>2, <1>3, <1>4, <1>5, VertexWritten
  <1>12. db'.graph[w] = v /\ v # Missing
    BY <1>2, <1>3, <1>5, MissingAssumption DEF SocialTypes, SocialDb, Vertices
  <1>13. ASSUME NEW e \in Client, HalfDone(e)'
         PROVE  /\ db'.graph[run'[e].from] # Missing
                /\ run'[e].to \in Social!Range(db'.graph[run'[e].from].followees)
    <2>1. CASE e = c
      BY <1>4, <1>6, <1>7, <1>12, <2>1
    <2>2. CASE e # c
      BY <1>9, <1>11, <1>13, <2>2 DEF HasHalf
    <2>. QED
      BY <2>1, <2>2
  <1>14. ASSUME NEW e \in Client, NEW d \in Client, NEW u \in User,
                HalfDone(e)', Rewrites(d, u)', run'[e].from = u
         PROVE  run'[e].to \in Social!Range(run'[d].got.followees)
    <2>1. e # c
      BY <1>6, <1>7, <1>10, <1>14
    <2>. QED
      BY <1>8, <1>9, <1>14, <2>1 DEF FollowsKept, HasHalf
  <1>15. \A f \in log'.follows, d \in Client, u \in User :
            Rewrites(d, u)' => HasFollow(run'[d].got, u, f)
    BY <1>5, <1>8 DEF FollowsKept
  <1>. QED
    BY <1>5, <1>11, <1>13, <1>14, <1>15 DEF FollowsKept, HasHalf, HasFollow

LEMMA FollowerWritten ==
    ASSUME SocialTypes, FollowsKept, NEW c \in Client, Social!WriteFollower(c)
    PROVE  FollowsKept'
  <1>. DEFINE w == run[c].to
              v == [run[c].got EXCEPT !.followers = Append(@, run[c].from)]
              f0 == [from |-> run[c].from, to |-> run[c].to]
  <1>1. run[c] \in FollowRun /\ run[c].at = "writeFollower"
    BY RunGrows DEF Social!WriteFollower
  <1>2. w \in User /\ run[c].from \in User /\ run[c].got \in Vertices /\ Rewrites(c, w)
    BY <1>1 DEF FollowRun, Rewrites
  <1>3. /\ v \in Vertices /\ v.followees = run[c].got.followees
        /\ v.followers = Append(run[c].got.followers, run[c].from)
        /\ run[c].got.followers \in Seq(User)
    BY <1>2, VertexFacts
  <1>4. Social!Range(v.followers) = Social!Range(run[c].got.followers) \cup {run[c].from}
    BY <1>2, <1>3, AppendRange
  <1>5. /\ db'.graph = [db.graph EXCEPT ![w] = v]
        /\ run' = [run EXCEPT ![c] = Social!Idle]
        /\ \/ log'.follows = log.follows
           \/ /\ log'.follows = log.follows \cup {f0}
              /\ HalfDone(c) /\ ~Social!GraphOverlapped(c, w)
    BY <1>1 DEF Social!WriteFollower, Social!Goto, Social!End, SocialTypes, SocialDb,
       SocialLog, HalfDone
  <1>6. f0.from = run[c].from /\ f0.to = w
    OBVIOUS
  <1>. HIDE DEF v, f0
  <1>7. \A d \in Client : run'[d] = IF d = c THEN Social!Idle ELSE run[d]
    BY <1>5 DEF SocialTypes
  <1>8. \A d \in Client, u \in User :
           Rewrites(d, u)' => d # c /\ Rewrites(d, u) /\ run'[d] = run[d]
    BY <1>7 DEF Rewrites, Social!Idle
  <1>9. \A d \in Client : HalfDone(d)' => HalfDone(d) /\ run'[d] = run[d]
    BY <1>7 DEF HalfDone, Social!Idle
  <1>10. /\ \A f \in log.follows : \A u \in {f.from, f.to} :
               db'.graph[u] # Missing /\ HasFollow(db'.graph[u], u, f)
         /\ \A e \in Client : HalfDone(e) =>
               /\ db'.graph[run[e].from] # Missing
               /\ HasHalf(db'.graph[run[e].from], run[e].from, e)
    BY <1>2, <1>3, <1>4, <1>5, VertexWritten
  <1>11. db'.graph[w] = v /\ v # Missing
    BY <1>2, <1>3, <1>5, MissingAssumption DEF SocialTypes, SocialDb, Vertices
  <1>12. ASSUME HalfDone(c), ~Social!GraphOverlapped(c, w)
         PROVE  /\ \A u \in {f0.from, f0.to} :
                      db'.graph[u] # Missing /\ HasFollow(db'.graph[u], u, f0)
                /\ \A d \in Client, u \in User : Rewrites(d, u)' => HasFollow(run'[d].got, u, f0)
    <2>1. /\ db'.graph[run[c].from] # Missing
          /\ w \in Social!Range(db'.graph[run[c].from].followees)
      BY <1>10, <1>12 DEF HasHalf
    <2>2. run[c].from \in Social!Range(db'.graph[w].followers)
      BY <1>4, <1>11
    <2>3. \A d \in Client : d # c => ~Rewrites(d, w)
      BY <1>12 DEF Rewrites, Social!GraphOverlapped
    <2>4. ASSUME NEW d \in Client, NEW u \in User, Rewrites(d, u)'
          PROVE  HasFollow(run'[d].got, u, f0)
      <3>1. d # c /\ Rewrites(d, u) /\ run'[d] = run[d] /\ u # w
        BY <1>8, <2>3, <2>4
      <3>2. HasHalf(run[d].got, u, c)
        BY <1>12, <3>1 DEF FollowsKept
      <3>. QED
        BY <1>6, <3>1, <3>2 DEF HasFollow, HasHalf
    <2>. QED
      BY <1>6, <1>11, <2>1, <2>2, <2>4 DEF HasFollow
  <1>13. \A f \in log'.follows : \A u \in {f.from, f.to} :
            db'.graph[u] # Missing /\ HasFollow(db'.graph[u], u, f)
    BY <1>5, <1>10, <1>12
  <1>14. \A f \in log'.follows, d \in Client, u \in User :
            Rewrites(d, u)' => HasFollow(run'[d].got, u, f)
    <2>1. \A f \in log.follows, d \in Client, u \in User :
             Rewrites(d, u)' => HasFollow(run'[d].got, u, f)
      BY <1>8 DEF FollowsKept
    <2>. QED
      BY <1>5, <1>12, <2>1
  <1>15. \A e \in Client : HalfDone(e)' =>
            /\ db'.graph[run'[e].from] # Missing
            /\ run'[e].to \in Social!Range(db'.graph[run'[e].from].followees)
    BY <1>9, <1>10 DEF HasHalf
  <1>16. \A e, d \in Client, u \in User :
            HalfDone(e)' /\ Rewrites(d, u)' /\ run'[e].from = u
               => run'[e].to \in Social!Range(run'[d].got.followees)
    BY <1>8, <1>9 DEF FollowsKept, HasHalf
  <1>. QED
    BY <1>13, <1>14, <1>15, <1>16 DEF FollowsKept, HasHalf, HasFollow

LEMMA VertexReplaced ==
    ASSUME SocialTypes, FollowsKept, NEW w \in User, NEW v \in Vertices, Social!Replace(w, v)
    PROVE  FollowsKept'
  <1>1. /\ db'.graph = [db.graph EXCEPT ![w] = v]
        /\ log'.follows = {f \in log.follows : w \notin {f.from, f.to}}
    BY DEF Social!Replace, SocialTypes, SocialDb, SocialLog
  <1>2. \A u \in User : u # w => db'.graph[u] = db.graph[u]
    BY <1>1 DEF SocialTypes, SocialDb
  <1>3. ASSUME NEW d \in Client, run[d].at \in Social!Following
        PROVE  /\ run'[d].at = run[d].at /\ run'[d].from = run[d].from
               /\ run'[d].to = run[d].to /\ run'[d].got = run[d].got
               /\ run'[d].from \in User
               /\ ~run'[d].overlapped => ~run[d].overlapped /\ run[d].from # w
    <2>1. run[d] \in FollowRun
      BY <1>3 DEF SocialTypes, SocialRun, ComposeRun, AfterStore, Social!Following,
         Social!Idle
    <2>2. run'[d] = IF w \in {run[d].from, run[d].to}
                    THEN [run[d] EXCEPT !.overlapped = TRUE] ELSE run[d]
      BY <1>3 DEF Social!Replace
    <2>. QED
      BY <2>1, <2>2 DEF FollowRun
  <1>4. ASSUME NEW d \in Client, run[d].at \notin Social!Following
        PROVE  run'[d] = run[d]
    BY <1>4 DEF Social!Replace
  <1>5. \A d \in Client, u \in User : Rewrites(d, u)' => Rewrites(d, u) /\ run'[d].got = run[d].got
    BY <1>3, <1>4 DEF Rewrites, Social!Following
  <1>6. \A d \in Client : HalfDone(d)' =>
           /\ HalfDone(d) /\ run'[d].from = run[d].from /\ run'[d].to = run[d].to
           /\ run[d].from \in User \ {w}
    BY <1>3, <1>4 DEF HalfDone, Social!Following
  <1>7. \A f \in log'.follows : \A u \in {f.from, f.to} :
           /\ f \in log.follows /\ u \in User \ {w}
           /\ db'.graph[u] # Missing /\ HasFollow(db'.graph[u], u, f)
    BY <1>1, <1>2 DEF FollowsKept, SocialTypes, SocialLog
  <1>8. \A f \in log'.follows, d \in Client, u \in User :
           Rewrites(d, u)' => HasFollow(run'[d].got, u, f)
    BY <1>5, <1>7 DEF FollowsKept
  <1>9. \A e \in Client : HalfDone(e)' =>
           /\ db'.graph[run'[e].from] # Missing
           /\ run'[e].to \in Social!Range(db'.graph[run'[e].from].followees)
    BY <1>2, <1>6 DEF FollowsKept, HasHalf
  <1>10. \A e, d \in Client, u \in User :
            HalfDone(e)' /\ Rewrites(d, u)' /\ run'[e].from = u
               => run'[e].to \in Social!Range(run'[d].got.followees)
    BY <1>5, <1>6 DEF FollowsKept, HasHalf
  <1>. QED
    BY <1>7, <1>8, <1>9, <1>10 DEF FollowsKept, HasHalf, HasFollow

-----------------------------------------------------------------------------
\* list holds the posts sent to f last, one lost in a race aside, with at most
\* as many behind each of them as were sent after it.
Covers(list, f) ==
    LET sent == log.sent[f]
    IN  \A i \in 1..Len(sent) :
           Len(sent) - i < MaxKept /\ sent[i] # 0 /\ <<sent[i], f>> \notin log.lost =>
              \E k \in 1..Len(list) : list[k] = sent[i] /\ i + (Len(list) - k) <= Len(sent)

Sending(c) == run[c].at \in {"readHomeTimeline", "writeHomeTimeline"}

\* The posts of c have reached the followers c is through with.
HasSent(c) ==
    \A f \in Social!Range(run[c].followers) :
       \/ f \in Social!Range(run[c].todo)
       \/ Social!Range(run[c].ids) \subseteq Social!Range(log.sent[f])

PostsKept ==
    /\ \A f \in User : Covers(Social!Listed(db.home[f]), f)
    /\ \A c \in Client : run[c].at = "writeHomeTimeline" =>
          Covers(run[c].got, Head(run[c].todo))
    /\ \A c \in Client : Sending(c) => HasSent(c)
    /\ \A d \in log.done : d.post \in Social!Range(log.sent[d.to])

SendLog == <<log.sent, log.lost>>

LEMMA PostsBeside ==
    ASSUME SocialTypes, PostsKept, NEW c \in Client,
           db'.home = db.home, SendLog' = SendLog, log'.done = log.done,
           \A d \in Client \ {c} : run'[d] = run[d],
           run'[c].at \notin {"readHomeTimeline", "writeHomeTimeline"}
    PROVE  PostsKept'
  <1>2. \A d \in Client : Sending(d)' => Sending(d) /\ run'[d] = run[d]
    BY DEF Sending
  <1>3. \A list, f : Covers(list, f) => Covers(list, f)'
    BY DEF Covers, SendLog
  <1>. QED
    BY <1>2, <1>3 DEF PostsKept, HasSent, Sending, SendLog, Social!Listed

LEMMA SendersTyped ==
    ASSUME SocialTypes, NEW c \in Client, run[c].at \in AfterStore
    PROVE  /\ run[c] \in ComposeRun
           /\ run[c].creator \in User /\ run[c].ids \in Stored /\ run[c].got \in Stored
           /\ run[c].todo \in Seq(User) /\ run[c].followers \in Seq(User)
  <1>1. run[c] \in ComposeRun
    BY DEF SocialTypes, SocialRun, FollowRun, Social!Following, AfterStore, Social!Idle
  <1>. QED
    BY <1>1 DEF ComposeRun

LEMMA FollowersGot ==
    ASSUME SocialTypes, PostsKept, NEW c \in Client, Social!GetFollowers(c)
    PROVE  PostsKept'
  <1>1. db'.home = db.home /\ log' = log
    BY FollowersAnswered
  <1>2. PICK r \in ComposeRun \cup {Social!Idle} :
           /\ run' = [run EXCEPT ![c] = r]
           /\ \/ r.at = "idle"
              \/ r.at = "readHomeTimeline" /\ r.todo = r.followers
    BY FollowersAnswered
  <1>3. \A d \in Client : run'[d] = IF d = c THEN r ELSE run[d]
    BY <1>2 DEF SocialTypes
  <1>4. \A list, f : Covers(list, f) => Covers(list, f)'
    BY <1>1 DEF Covers
  <1>5. \A d \in Client : Sending(d)' => HasSent(d)'
    BY <1>1, <1>2, <1>3 DEF PostsKept, HasSent, Sending
  <1>6. \A d \in Client : run'[d].at = "writeHomeTimeline" => run'[d] = run[d]
    BY <1>2, <1>3
  <1>. QED
    BY <1>1, <1>4, <1>5, <1>6 DEF PostsKept, Social!Listed

LEMMA HomeRead ==
    ASSUME SocialTypes, PostsKept, NEW c \in Client, Social!ReadHomeIds(c)
    PROVE  PostsKept'
  <1>1. /\ run[c] \in ComposeRun /\ run[c].todo \in Seq(User) /\ run[c].followers \in Seq(User)
        /\ run[c].at = "readHomeTimeline" /\ log \in SocialLog
    BY SendersTyped DEF Social!ReadHomeIds, AfterStore, SocialTypes
  <1>2. HasSent(c)
    BY <1>1 DEF PostsKept, Sending
  <1>3. CASE run[c].todo = <<>>
    <2>1. Social!Range(run[c].todo) = {}
      BY <1>1, <1>3 DEF Social!Range
    <2>2. /\ log'.sent = log.sent /\ log'.lost = log.lost /\ db' = db
          /\ log'.done = log.done \cup [post : Social!Range(run[c].ids),
                                        to : Social!Range(run[c].followers)]
          /\ run' = [run EXCEPT ![c] = Social!Idle]
      BY <1>1, <1>3 DEF Social!ReadHomeIds, Social!End, Social!Goto, SocialLog
    <2>3. \A d \in log'.done : d.post \in Social!Range(log'.sent[d.to])
      BY <1>2, <2>1, <2>2 DEF PostsKept, HasSent
    <2>4. \A d \in Client : run'[d] = IF d = c THEN Social!Idle ELSE run[d]
      BY <2>2 DEF SocialTypes
    <2>5. \A d \in Client : Sending(d)' => Sending(d) /\ run'[d] = run[d]
      BY <2>4 DEF Sending, Social!Idle
    <2>6. \A list, f : Covers(list, f) => Covers(list, f)'
      BY <2>2 DEF Covers
    <2>. QED
      BY <2>2, <2>3, <2>5, <2>6 DEF PostsKept, HasSent, Sending, Social!Listed
  <1>4. CASE run[c].todo # <<>>
    <2>. DEFINE f == Head(run[c].todo)
                r == [run[c] EXCEPT !.at = "writeHomeTimeline",
                                    !.got = Social!Listed(db.home[f])]
    <2>1. f \in User
      BY <1>1, <1>4
    <2>2. run' = [run EXCEPT ![c] = r] /\ db' = db /\ log' = log
      BY <1>4 DEF Social!ReadHomeIds, Social!Goto
    <2>3. /\ r.at = "writeHomeTimeline" /\ r.todo = run[c].todo /\ r.ids = run[c].ids
          /\ r.followers = run[c].followers /\ r.got = Social!Listed(db.home[f])
      BY <1>1 DEF ComposeRun
    <2>. HIDE DEF r
    <2>4. \A d \in Client : run'[d] = IF d = c THEN r ELSE run[d]
      BY <2>2 DEF SocialTypes
    <2>5. \A list, g : Covers(list, g) => Covers(list, g)'
      BY <2>2 DEF Covers
    <2>6. ASSUME NEW d \in Client, Sending(d)' PROVE HasSent(d)'
      <3>1. HasSent(d)
        BY <1>2, <2>4, <2>6 DEF PostsKept, Sending
      <3>2. /\ run'[d].ids = run[d].ids /\ run'[d].todo = run[d].todo
            /\ run'[d].followers = run[d].followers
        BY <2>3, <2>4
      <3>. QED
        BY <2>2, <3>1, <3>2 DEF HasSent
    <2>7. ASSUME NEW d \in Client, run'[d].at = "writeHomeTimeline"
          PROVE  Covers(run[d].got, Head(run[d].todo))'
      <3>1. CASE d = c
        <4>1. PICK list, g : list = Social!Listed(db.home[f]) /\ g = f
          OBVIOUS
        <4>2. Covers(list, g)
          BY <2>1, <4>1 DEF PostsKept
        <4>3. Covers(list, g)'
          BY <2>5, <4>2
        <4>4. run'[d].got = list /\ Head(run'[d].todo) = g
          BY <2>3, <2>4, <3>1, <4>1
        <4>. QED
          BY <4>3, <4>4 DEF Covers
      <3>2. CASE d # c
        BY <2>4, <2>5, <2>7, <3>2 DEF PostsKept
      <3>. QED
        BY <3>1, <3>2
    <2>. QED
      BY <2>2, <2>5, <2>6, <2>7 DEF PostsKept, Social!Listed
  <1>. QED
    BY <1>3, <1>4

LEMMA Concatenated ==
    ASSUME NEW S, NEW s \in Seq(S), NEW t \in Seq(S)
    PROVE  /\ s \o t \in Seq(S) /\ Len(s \o t) = Len(s) + Len(t)
           /\ \A i \in 1..(Len(s) + Len(t)) :
                 (s \o t)[i] = IF i <= Len(s) THEN s[i] ELSE t[i - Len(s)]
  BY ConcatProperties, Zenon

\* A list that is extended covers what was sent then.
LEMMA ExtendedCovers ==
    ASSUME NEW S, NEW sent \in Seq(S), NEW list \in Seq(S), NEW ids \in Seq(S),
           NEW arriving \in Seq(S), NEW L, 0 \in L,
           (arriving = ids /\ ids # <<>>) \/ (ids = <<>> /\ arriving = << 0 >>),
           \A i \in 1..Len(sent) : Len(sent) - i < MaxKept /\ sent[i] \notin L =>
              \E k \in 1..Len(list) : list[k] = sent[i] /\ i + (Len(list) - k) <= Len(sent)
    PROVE  LET new == Social!Extended(list, ids)
               all == sent \o arriving
           IN  \A i \in 1..Len(all) : Len(all) - i < MaxKept /\ all[i] \notin L =>
                  \E k \in 1..Len(new) : new[k] = all[i] /\ i + (Len(new) - k) <= Len(all)
  <1>. DEFINE new == Social!Extended(list, ids)
              all == sent \o arriving
              d == IF Len(list) >= MaxKept THEN 1 ELSE 0
  <1>1. /\ new \in Seq(S)
        /\ Len(new) = (Len(list) - d) + Len(ids)
        /\ \A k \in (d + 1)..Len(list) : new[k - d] = list[k]
        /\ \A k \in 1..Len(ids) : new[(Len(list) - d) + k] = ids[k]
    BY ExtendedFacts
  <1>2. /\ all \in Seq(S) /\ Len(all) = Len(sent) + Len(arriving)
        /\ \A i \in 1..(Len(sent) + Len(arriving)) :
              all[i] = IF i <= Len(sent) THEN sent[i] ELSE arriving[i - Len(sent)]
    BY ONLY sent \in Seq(S), arriving \in Seq(S), Concatenated
  <1>3. /\ Len(list) \in Nat /\ Len(sent) \in Nat /\ Len(ids) \in Nat
        /\ Len(arriving) \in Nat \ {0} /\ Len(ids) <= Len(arriving) /\ MaxKept \in Nat \ {0}
    <2>1. Len(arriving) \in Nat \ {0} /\ Len(ids) <= Len(arriving)
      <3>1. CASE arriving = ids /\ ids # <<>>
        BY <3>1
      <3>2. CASE ids = <<>> /\ arriving = << 0 >>
        <4>1. Len(arriving) = 1 /\ Len(ids) = 0
          BY <3>2
        <4>. QED
          BY <4>1
      <3>. QED
        BY <3>1, <3>2
    <2>. QED
      BY <2>1, AmountsAssumption
  <1>. HIDE DEF new, all
  <1>4. Len(list) - d \in Nat
    BY <1>3
  <1>. SUFFICES ASSUME NEW i \in 1..Len(all), Len(all) - i < MaxKept, all[i] \notin L
                PROVE  \E k \in 1..Len(new) :
                          new[k] = all[i] /\ i + (Len(new) - k) <= Len(all)
    BY DEF new, all
  <1>5. i \in Nat /\ i <= Len(sent) + Len(arriving)
    BY <1>2, <1>3
  <1>6. CASE i <= Len(sent)
    <2>1. i \in 1..Len(sent) /\ all[i] = sent[i] /\ Len(sent) - i < MaxKept
      BY <1>2, <1>3, <1>5, <1>6
    <2>2. PICK k \in 1..Len(list) : list[k] = sent[i] /\ i + (Len(list) - k) <= Len(sent)
      BY <2>1
    <2>3. k >= d + 1
      BY <1>2, <1>3, <1>5, <2>2
    <2>4. /\ k - d \in 1..Len(new) /\ k \in (d + 1)..Len(list)
          /\ i + (Len(new) - (k - d)) <= Len(all)
      BY <1>1, <1>2, <1>3, <1>4, <1>5, <2>2, <2>3
    <2>5. new[k - d] = all[i]
      BY <1>1, <2>1, <2>2, <2>4
    <2>. QED
      BY <2>4, <2>5
  <1>7. CASE i > Len(sent)
    <2>. DEFINE m == i - Len(sent)
                k == (Len(list) - d) + m
    <2>0. m \in 1..Len(arriving) /\ all[i] = arriving[m]
      BY <1>2, <1>3, <1>5, <1>7
    <2>1. arriving = ids /\ m \in 1..Len(ids) /\ all[i] = ids[m]
      <3>1. ASSUME arriving = << 0 >> PROVE all[i] = 0
        BY <2>0, <3>1
      <3>. QED
        BY <2>0, <3>1
    <2>2. k \in 1..Len(new) /\ i + (Len(new) - k) <= Len(all)
      <3>1. PICK a \in Nat, b \in Nat, n \in Nat :
               a = Len(list) - d /\ b = Len(ids) /\ n = Len(sent)
        BY <1>3, <1>4
      <3>2. Len(new) = a + b /\ Len(all) = n + b /\ k = a + m /\ i = n + m
        BY <1>1, <1>2, <1>5, <2>1, <3>1
      <3>3. m \in Nat /\ 1 <= m /\ m <= b
        BY <2>1, <3>1
      <3>4. PICK h \in Nat : h = m
        BY <3>3
      <3>5. k = a + h /\ i = n + h /\ 1 <= h /\ h <= b
        BY <3>2, <3>3, <3>4
      <3>. HIDE DEF m, k, d
      <3>6. a + h \in 1..(a + b) /\ (n + h) + ((a + b) - (a + h)) <= n + b
        BY <3>5
      <3>. QED
        BY <3>2, <3>5, <3>6, Zenon
    <2>3. new[k] = ids[m]
      BY <1>1, <2>1
    <2>. QED
      BY <2>1, <2>2, <2>3
  <1>. QED
    BY <1>3, <1>5, <1>6, <1>7

\* A copy that others extend covers what it did: what they send is lost.
LEMMA CopyCovers ==
    ASSUME NEW S, NEW sent \in Seq(S), NEW list \in Seq(S), NEW ids \in Seq(S),
           NEW L, NEW M, L \subseteq M, Social!Range(ids) \subseteq M,
           \A i \in 1..Len(sent) : Len(sent) - i < MaxKept /\ sent[i] \notin L =>
              \E k \in 1..Len(list) : list[k] = sent[i] /\ i + (Len(list) - k) <= Len(sent)
    PROVE  LET all == sent \o ids
           IN  \A i \in 1..Len(all) : Len(all) - i < MaxKept /\ all[i] \notin M =>
                  \E k \in 1..Len(list) : list[k] = all[i] /\ i + (Len(list) - k) <= Len(all)
  <1>. DEFINE all == sent \o ids
  <1>1. /\ all \in Seq(S) /\ Len(all) = Len(sent) + Len(ids)
        /\ \A i \in 1..(Len(sent) + Len(ids)) :
              all[i] = IF i <= Len(sent) THEN sent[i] ELSE ids[i - Len(sent)]
    BY ConcatProperties, Zenon
  <1>2. Len(list) \in Nat /\ Len(sent) \in Nat /\ Len(ids) \in Nat /\ MaxKept \in Nat \ {0}
    BY AmountsAssumption
  <1>. HIDE DEF all
  <1>. SUFFICES ASSUME NEW i \in 1..Len(all), Len(all) - i < MaxKept, all[i] \notin M
                PROVE  \E k \in 1..Len(list) :
                          list[k] = all[i] /\ i + (Len(list) - k) <= Len(all)
    BY DEF all
  <1>3. i \in Nat /\ i <= Len(sent) + Len(ids)
    BY <1>1, <1>2
  <1>4. i <= Len(sent)
    <2>1. ASSUME i > Len(sent) PROVE FALSE
      <3>1. i - Len(sent) \in 1..Len(ids) /\ all[i] = ids[i - Len(sent)]
        BY <1>1, <1>2, <1>3, <2>1
      <3>2. DOMAIN ids = 1..Len(ids)
        OBVIOUS
      <3>. QED
        BY <3>1, <3>2 DEF Social!Range
    <2>. QED
      BY <1>2, <1>3, <2>1
  <1>5. i \in 1..Len(sent) /\ all[i] = sent[i] /\ Len(sent) - i < MaxKept
    BY <1>1, <1>2, <1>3, <1>4
  <1>6. PICK k \in 1..Len(list) : list[k] = sent[i] /\ i + (Len(list) - k) <= Len(sent)
    BY <1>5
  <1>. QED
    BY <1>1, <1>2, <1>3, <1>5, <1>6

LEMMA TailRange ==
    ASSUME NEW S, NEW s \in Seq(S), s # <<>>
    PROVE  Social!Range(s) = {Head(s)} \cup Social!Range(Tail(s))
  <1>1. /\ Tail(s) \in Seq(S) /\ Len(Tail(s)) = Len(s) - 1 /\ Len(s) \in Nat \ {0}
        /\ \A i \in 1..Len(Tail(s)) : Tail(s)[i] = s[i + 1]
    BY HeadTailProperties, EmptySeq
  <1>. DEFINE t == Tail(s)
  <1>2. DOMAIN s = 1..Len(s) /\ DOMAIN t = 1..(Len(s) - 1) /\ Head(s) = s[1]
    BY <1>1
  <1>. HIDE DEF t
  <1>3. \A i \in 1..Len(s) : i = 1 \/ (i - 1 \in DOMAIN t /\ t[i - 1] = s[i])
    BY <1>1, <1>2 DEF t
  <1>4. \A i \in DOMAIN t : i + 1 \in 1..Len(s) /\ t[i] = s[i + 1]
    BY <1>1, <1>2 DEF t
  <1>5. 1 \in 1..Len(s)
    BY <1>1
  <1>6. Social!Range(s) \subseteq {Head(s)} \cup Social!Range(t)
    BY <1>2, <1>3 DEF Social!Range
  <1>7. {Head(s)} \cup Social!Range(t) \subseteq Social!Range(s)
    BY <1>2, <1>4, <1>5 DEF Social!Range
  <1>. QED
    BY <1>6, <1>7 DEF t

LEMMA ConcatRange ==
    ASSUME NEW S, NEW s \in Seq(S), NEW t \in Seq(S)
    PROVE  Social!Range(s) \cup Social!Range(t) \subseteq Social!Range(s \o t)
  <1>. DEFINE all == s \o t
  <1>1. /\ all \in Seq(S) /\ Len(all) = Len(s) + Len(t)
        /\ \A i \in 1..(Len(s) + Len(t)) :
              all[i] = IF i <= Len(s) THEN s[i] ELSE t[i - Len(s)]
    BY ConcatProperties, Zenon
  <1>2. /\ Len(s) \in Nat /\ Len(t) \in Nat
        /\ DOMAIN s = 1..Len(s) /\ DOMAIN t = 1..Len(t)
    OBVIOUS
  <1>. HIDE DEF all
  <1>3. DOMAIN all = 1..(Len(s) + Len(t))
    BY <1>1
  <1>4. \A i \in 1..Len(s) : i \in DOMAIN all /\ all[i] = s[i]
    BY <1>1, <1>2, <1>3
  <1>5. \A i \in 1..Len(t) : Len(s) + i \in DOMAIN all /\ all[Len(s) + i] = t[i]
    <2>. SUFFICES ASSUME NEW i \in 1..Len(t)
                  PROVE  Len(s) + i \in DOMAIN all /\ all[Len(s) + i] = t[i]
      OBVIOUS
    <2>1. /\ Len(s) + i \in 1..(Len(s) + Len(t)) /\ ~(Len(s) + i <= Len(s))
          /\ (Len(s) + i) - Len(s) = i
      BY <1>2
    <2>. QED
      BY <1>1, <1>3, <2>1
  <1>. QED
    BY <1>2, <1>4, <1>5 DEF Social!Range, all

LEMMA HomeWritten ==
    ASSUME SocialTypes, PostsKept, NEW c \in Client, Social!WriteHomeTimeline(c)
    PROVE  PostsKept'
  <1>. DEFINE f == Head(run[c].todo)
              ids == run[c].ids
              arriving == Social!Arriving(ids)
              list == run[c].got
              r == [run[c] EXCEPT !.at = "readHomeTimeline", !.todo = Tail(@)]
  <1>1. /\ run[c] \in ComposeRun /\ run[c].todo \in Seq(User) /\ run[c].followers \in Seq(User)
        /\ run[c].at = "writeHomeTimeline" /\ run[c].todo # <<>> /\ log \in SocialLog
        /\ list \in Stored /\ ids \in Stored
    BY SendersTyped DEF Social!WriteHomeTimeline, AfterStore, SocialTypes
  <1>2. f \in User
    BY <1>1
  <1>3. 1..db.posts \subseteq Nat
    BY DEF SocialTypes, SocialDb
  <1>4. Stored \subseteq Seq(Nat)
    BY <1>3, SeqMonotonic, Zenon DEF Stored
  <1>5. list \in Seq(Nat) /\ ids \in Seq(Nat) /\ log.sent \in [User -> Seq(Nat)]
    BY <1>1, <1>4 DEF SocialLog
  <1>6. /\ run' = [run EXCEPT ![c] = r]
        /\ db'.home = [db.home EXCEPT ![f] = Social!Extended(list, ids)]
        /\ log'.sent = [log.sent EXCEPT ![f] = @ \o arriving]
        /\ log'.done = log.done
        /\ log.lost \subseteq log'.lost
        /\ Social!HomeOverlapped(c) => \A x \in Social!Range(ids) : <<x, f>> \in log'.lost
    BY <1>1 DEF Social!WriteHomeTimeline, Social!Goto, SocialTypes, SocialDb, SocialLog
  <1>7. /\ r.at = "readHomeTimeline" /\ r.todo = Tail(run[c].todo) /\ r.ids = ids
        /\ r.followers = run[c].followers
    BY <1>1 DEF ComposeRun
  <1>7a. /\ arriving \in Seq(Nat) /\ Social!Range(ids) \subseteq Social!Range(arriving)
         /\ (arriving = ids /\ ids # <<>>) \/ (ids = <<>> /\ arriving = << 0 >>)
    BY <1>5 DEF Social!Arriving, Social!Range
  <1>. HIDE DEF r, ids, list, f, arriving
  <1>8. \A d \in Client : run'[d] = IF d = c THEN r ELSE run[d]
    BY <1>6 DEF SocialTypes
  <1>9. /\ log'.sent[f] = log.sent[f] \o arriving
        /\ \A g \in User : g # f => log'.sent[g] = log.sent[g]
    BY <1>2, <1>5, <1>6
  <1>10. \A g \in User : Social!Range(log.sent[g]) \subseteq Social!Range(log'.sent[g])
    BY <1>5, <1>9, <1>7a, ConcatRange
  <1>11. Social!Range(ids) \subseteq Social!Range(log'.sent[f])
    BY <1>2, <1>5, <1>9, <1>7a, ConcatRange
  <1>12. ASSUME NEW g \in User, NEW l, g # f, Covers(l, g) PROVE Covers(l, g)'
    BY <1>6, <1>9, <1>12 DEF Covers
  <1>. DEFINE L == {x \in Nat : x = 0 \/ <<x, f>> \in log.lost}
              M == {x \in Nat : x = 0 \/ <<x, f>> \in log'.lost}
              all == log.sent[f] \o arriving
  <1>13. \A l : Covers(l, f) <=>
            LET sent == log.sent[f] IN
               \A i \in 1..Len(sent) :
                  Len(sent) - i < MaxKept /\ sent[i] \notin L =>
                     \E k \in 1..Len(l) : l[k] = sent[i] /\ i + (Len(l) - k) <= Len(sent)
    <2>1. \A i \in 1..Len(log.sent[f]) : log.sent[f][i] \in Nat
      BY <1>2, <1>5, ElementOfSeq
    <2>. QED
      BY <2>1 DEF Covers
  <1>14. /\ L \subseteq M /\ 0 \in L
         /\ Social!HomeOverlapped(c) => Social!Range(arriving) \subseteq M
    <2>1. Social!Range(ids) \subseteq Nat
      BY <1>5 DEF Social!Range
    <2>2. Social!Range(arriving) \subseteq Social!Range(ids) \cup {0}
      BY <1>7a DEF Social!Range
    <2>. QED
      BY <1>6, <2>1, <2>2
  <1>15. ASSUME NEW l,
                \A i \in 1..Len(all) : Len(all) - i < MaxKept /\ all[i] \notin M =>
                   \E k \in 1..Len(l) : l[k] = all[i] /\ i + (Len(l) - k) <= Len(all),
                NEW g, g = f
         PROVE  Covers(l, g)'
    <2>1. all \in Seq(Nat)
      BY <1>2, <1>5, <1>7a
    <2>2. \A i \in 1..Len(all) : all[i] \in Nat
      BY <2>1, ElementOfSeq
    <2>3. log'.sent[g] = all
      BY <1>9, <1>15
    <2>. HIDE DEF all
    <2>. QED
      BY <1>15, <2>2, <2>3 DEF Covers
  <1>16. Covers(list, f)
    BY <1>1 DEF PostsKept, list, f
  <1>17. ASSUME NEW g \in User PROVE Covers(Social!Listed(db.home[g]), g)'
    <2>1. CASE g = f
      <3>. DEFINE new == Social!Extended(list, ids)
      <3>1. new \in Seq(Nat)
        BY <1>5, ExtendedFacts
      <3>2. db'.home[g] = new
        BY <1>2, <1>6, <2>1 DEF SocialTypes, SocialDb
      <3>3. new # Missing
        BY <3>1, MissingAssumption
      <3>4. Social!Listed(db'.home[g]) = new
        BY <3>2, <3>3 DEF Social!Listed
      <3>. HIDE DEF new, all, M, L
      <3>5. \A i \in 1..Len(log.sent[f]) :
               Len(log.sent[f]) - i < MaxKept /\ log.sent[f][i] \notin L =>
                  \E k \in 1..Len(list) : list[k] = log.sent[f][i]
                                          /\ i + (Len(list) - k) <= Len(log.sent[f])
        BY <1>13, <1>16 DEF L
      <3>6. \A i \in 1..Len(all) : Len(all) - i < MaxKept /\ all[i] \notin L =>
               \E k \in 1..Len(new) : new[k] = all[i] /\ i + (Len(new) - k) <= Len(all)
        BY <1>2, <1>5, <1>14, <1>7a, <3>5, ExtendedCovers, Zenon DEF new, all
      <3>7. \A i \in 1..Len(all) : Len(all) - i < MaxKept /\ all[i] \notin M =>
               \E k \in 1..Len(new) : new[k] = all[i] /\ i + (Len(new) - k) <= Len(all)
        BY <1>14, <3>6
      <3>8. PICK l : l = new
        OBVIOUS
      <3>9. Covers(l, g)'
        BY <1>15, <2>1, <3>7, <3>8
      <3>. QED
        BY <3>4, <3>8, <3>9 DEF Social!Listed
    <2>2. CASE g # f
      <3>1. db'.home[g] = db.home[g]
        BY <1>6, <2>2 DEF SocialTypes, SocialDb
      <3>2. PICK l : l = Social!Listed(db.home[g])
        OBVIOUS
      <3>3. Covers(l, g)'
        BY <1>12, <2>2, <3>2 DEF PostsKept
      <3>. QED
        BY <3>1, <3>2, <3>3 DEF Social!Listed
    <2>. QED
      BY <2>1, <2>2
  <1>18. ASSUME NEW d \in Client, run'[d].at = "writeHomeTimeline"
         PROVE  Covers(run[d].got, Head(run[d].todo))'
    <2>1. d # c /\ run'[d] = run[d] /\ run[d].at = "writeHomeTimeline"
      BY <1>7, <1>8, <1>18
    <2>2. /\ run[d].got \in Seq(Nat) /\ Head(run[d].todo) \in User
      BY <1>4, <2>1, SendersTyped DEF AfterStore, SocialTypes
    <2>3. PICK l \in Seq(Nat), g \in User : l = run[d].got /\ g = Head(run[d].todo)
      BY <2>2
    <2>4. Covers(l, g)
      BY <2>1, <2>3 DEF PostsKept
    <2>5. CASE g = f
      <3>1. Social!HomeOverlapped(c)
        BY <2>1, <2>3, <2>5 DEF Social!HomeOverlapped, f
      <3>2. Social!Range(arriving) \subseteq M /\ L \subseteq M
        BY <1>14, <3>1
      <3>. HIDE DEF all, M, L
      <3>3. \A i \in 1..Len(log.sent[f]) :
               Len(log.sent[f]) - i < MaxKept /\ log.sent[f][i] \notin L =>
                  \E k \in 1..Len(l) : l[k] = log.sent[f][i]
                                       /\ i + (Len(l) - k) <= Len(log.sent[f])
        BY <1>13, <2>4, <2>5 DEF L
      <3>4. \A i \in 1..Len(all) : Len(all) - i < MaxKept /\ all[i] \notin M =>
               \E k \in 1..Len(l) : l[k] = all[i] /\ i + (Len(l) - k) <= Len(all)
        BY <1>2, <1>5, <1>7a, <2>3, <3>2, <3>3, CopyCovers, Zenon DEF all
      <3>5. Covers(l, g)'
        BY <1>15, <2>5, <3>4
      <3>. QED
        BY <2>1, <2>3, <3>5
    <2>6. CASE g # f
      <3>1. Covers(l, g)'
        BY <1>12, <2>4, <2>6
      <3>. QED
        BY <2>1, <2>3, <3>1
    <2>. QED
      BY <2>5, <2>6
  <1>19. ASSUME NEW d \in Client, Sending(d)' PROVE HasSent(d)'
    <2>1. Sending(d) /\ run'[d].ids = run[d].ids /\ run'[d].followers = run[d].followers
          /\ run[d].followers \in Seq(User)
      BY <1>1, <1>7, <1>8, <1>19, SendersTyped DEF Sending, AfterStore, ids
    <2>2. HasSent(d)
      BY <2>1 DEF PostsKept
    <2>3. Social!Range(run[d].followers) \subseteq User
      BY <2>1 DEF Social!Range
    <2>4. CASE d = c
      <3>1. Social!Range(run[c].todo) = {f} \cup Social!Range(run'[c].todo)
        BY <1>1, <1>7, <1>8, TailRange DEF f
      <3>2. run[c].ids = ids
        BY DEF ids
      <3>. QED
        BY <1>10, <1>11, <2>1, <2>2, <2>3, <2>4, <3>1, <3>2 DEF HasSent
    <2>5. CASE d # c
      BY <1>8, <1>10, <2>1, <2>2, <2>3, <2>5 DEF HasSent
    <2>. QED
      BY <2>4, <2>5
  <1>20. \A d \in log'.done : d.post \in Social!Range(log'.sent[d.to])
    <2>1. \A d \in log.done : d.to \in User
      BY <1>1 DEF SocialLog
    <2>. QED
      BY <1>6, <1>10, <2>1 DEF PostsKept
  <1>. QED
    BY <1>17, <1>18, <1>19, <1>20 DEF PostsKept

-----------------------------------------------------------------------------
SocialInv == SocialTypes /\ FollowsKept /\ PostsKept

LEMMA SocialStarts == Social!Init => SocialInv
  <1>. SUFFICES ASSUME Social!Init PROVE SocialInv
    OBVIOUS
  <1>1. FollowsKept
    BY DEF Social!Init, FollowsKept, HalfDone, Rewrites, Social!Idle
  <1>2. PostsKept
    BY DEF Social!Init, PostsKept, Covers, Sending, Social!Idle
  <1>. QED
    BY <1>1, <1>2, SocialInit DEF SocialInv

\* The steps that do not touch the graph, and those that do not send.
LEMMA SocialBeside ==
    ASSUME SocialInv, NEW c \in Client
    PROVE  /\ \/ Social!ComposePost(c) \/ Social!StorePost(c) \/ Social!ReadUserIds(c)
              \/ Social!WriteUserTimeline(c) \/ Social!GetFollowers(c) \/ Social!ReadHomeIds(c)
              \/ Social!WriteHomeTimeline(c) \/ Social!ReadTimeline(c) \/ Social!ReadIds(c)
              \/ Social!ReadPosts(c) \/ Social!Follow(c)
              => FollowsKept'
           /\ \/ Social!ComposePost(c) \/ Social!StorePost(c) \/ Social!ReadUserIds(c)
              \/ Social!WriteUserTimeline(c) \/ Social!ReadTimeline(c) \/ Social!ReadIds(c)
              \/ Social!ReadPosts(c) \/ Social!Follow(c) \/ Social!ReadFollower(c)
              \/ Social!WriteFollowee(c) \/ Social!ReadFollowee(c) \/ Social!WriteFollower(c)
              => PostsKept'
  <1>. USE DEF SocialInv
  <1>1. db \in SocialDb /\ log \in SocialLog /\ run \in [Client -> SocialRun]
    BY DEF SocialTypes
  <1>2. \A r : Social!Begin(c, r) =>
           /\ db'.graph = db.graph /\ db'.home = db.home /\ log'.follows = log.follows
           /\ SendLog' = SendLog /\ log'.done = log.done
           /\ run'[c] = r /\ \A d \in Client \ {c} : run'[d] = run[d]
    BY <1>1 DEF Social!Begin, SocialLog, SendLog, SocialTypes
  <1>3. CASE Social!ComposePost(c) \/ Social!ReadTimeline(c) \/ Social!Follow(c)
    <2>1. /\ db'.graph = db.graph /\ db'.home = db.home /\ log'.follows = log.follows
          /\ SendLog' = SendLog /\ log'.done = log.done
          /\ \A d \in Client \ {c} : run'[d] = run[d]
          /\ run'[c].at \in {"storePost", "readIds", "readFollower"}
      <3>1. CASE Social!ComposePost(c)
        BY <1>2, <3>1 DEF Social!ComposePost
      <3>2. CASE Social!ReadTimeline(c)
        BY <1>2, <3>2 DEF Social!ReadTimeline
      <3>3. CASE Social!Follow(c)
        BY <1>2, <3>3 DEF Social!Follow
      <3>. QED
        BY <1>3, <3>1, <3>2, <3>3
    <2>. QED
      BY <2>1, FollowsBeside, PostsBeside
  <1>. USE DEF Social!Goto, Social!End
  <1>4. CASE \/ Social!StorePost(c) \/ Social!ReadUserIds(c) \/ Social!WriteUserTimeline(c)
    <2>1. run[c] \in ComposeRun \/ run[c].at = "storePost"
      BY <1>4, SendersTyped DEF Social!ReadUserIds, Social!WriteUserTimeline, AfterStore,
         Social!StorePost
    <2>2. /\ \A d \in Client \ {c} : run'[d] = run[d]
          /\ run'[c].at \in {"readUserTimeline", "writeUserTimeline", "getFollowers"}
      <3>1. CASE Social!StorePost(c)
        BY <1>1, <2>1, <3>1 DEF Social!StorePost, Social!Posting, ComposeRun
      <3>2. CASE Social!ReadUserIds(c)
        BY <1>1, <2>1, <3>2 DEF Social!ReadUserIds, Social!Posting, ComposeRun
      <3>3. CASE Social!WriteUserTimeline(c)
        BY <1>1, <2>1, <3>3 DEF Social!WriteUserTimeline, Social!Posting, ComposeRun
      <3>. QED
        BY <1>4, <3>1, <3>2, <3>3
    <2>3. db'.graph = db.graph /\ db'.home = db.home /\ log' = log
      BY <1>1, <1>4 DEF Social!StorePost, Social!ReadUserIds, Social!WriteUserTimeline,
         SocialDb
    <2>. QED
      BY <2>2, <2>3, FollowsBeside, PostsBeside DEF SendLog
  <1>5. CASE \/ Social!GetFollowers(c) \/ Social!ReadHomeIds(c) \/ Social!WriteHomeTimeline(c)
    <2>1. run[c] \in ComposeRun
      BY <1>5, SendersTyped DEF Social!GetFollowers, Social!ReadHomeIds,
         Social!WriteHomeTimeline, AfterStore
    <2>2. /\ \A d \in Client \ {c} : run'[d] = run[d]
          /\ run'[c].at \in {"idle", "readHomeTimeline", "writeHomeTimeline"}
      <3>1. CASE Social!GetFollowers(c)
        <4>1. PICK r \in ComposeRun \cup {Social!Idle} :
                 run' = [run EXCEPT ![c] = r] /\ r.at \in {"idle", "readHomeTimeline"}
          BY <3>1, FollowersAnswered
        <4>. QED
          BY <1>1, <4>1
      <3>2. CASE Social!ReadHomeIds(c)
        <4>1. CASE run[c].todo = <<>>
          BY <1>1, <3>2, <4>1 DEF Social!ReadHomeIds, Social!Idle
        <4>2. CASE ~(run[c].todo = <<>>)
          <5>. DEFINE r == [run[c] EXCEPT !.at = "writeHomeTimeline",
                         !.got = Social!Listed(db.home[Head(run[c].todo)])]
          <5>1. run' = [run EXCEPT ![c] = r]
            BY <3>2, <4>2 DEF Social!ReadHomeIds
          <5>2. r.at = "writeHomeTimeline"
            BY <2>1 DEF ComposeRun
          <5>. HIDE DEF r
          <5>. QED
            BY <1>1, <5>1, <5>2
        <4>. QED
          BY <4>1, <4>2
      <3>3. CASE Social!WriteHomeTimeline(c)
        BY <1>1, <2>1, <3>3 DEF Social!WriteHomeTimeline, ComposeRun, Social!Idle
      <3>. QED
        BY <1>5, <3>1, <3>2, <3>3
    <2>3. db'.graph = db.graph /\ log'.follows = log.follows
      BY <1>1, <1>5, FollowersAnswered DEF Social!ReadHomeIds, Social!WriteHomeTimeline,
         SocialDb, SocialLog
    <2>4. FollowsKept'
      BY <2>2, <2>3, FollowsBeside
    <2>5. run[c].at \in {"getFollowers", "readHomeTimeline", "writeHomeTimeline"}
      BY ONLY <1>5 DEF Social!GetFollowers, Social!ReadHomeIds, Social!WriteHomeTimeline
    <2>6. ~(Social!ComposePost(c) \/ Social!ReadTimeline(c) \/ Social!Follow(c))
      BY ONLY <2>5 DEF Social!ComposePost, Social!ReadTimeline, Social!Follow, Social!Begin,
         Social!Idle
    <2>7. ~(\/ Social!StorePost(c) \/ Social!ReadUserIds(c) \/ Social!WriteUserTimeline(c)
            \/ Social!ReadIds(c) \/ Social!ReadPosts(c))
      BY ONLY <2>5 DEF Social!StorePost, Social!ReadUserIds, Social!WriteUserTimeline,
         Social!ReadIds, Social!ReadPosts
    <2>8. ~(\/ Social!ReadFollower(c) \/ Social!WriteFollowee(c)
            \/ Social!ReadFollowee(c) \/ Social!WriteFollower(c))
      BY ONLY <2>5 DEF Social!ReadFollower, Social!WriteFollowee, Social!ReadFollowee,
         Social!WriteFollower
    <2>. QED
      BY ONLY <2>4, <2>6, <2>7, <2>8
  <1>6. CASE Social!ReadIds(c) \/ Social!ReadPosts(c)
    <2>1. /\ \A d \in Client \ {c} : run'[d] = run[d]
          /\ run'[c].at \in {"idle", "readPosts"}
      BY <1>6 DEF SocialTypes, Social!ReadIds, Social!ReadPosts, Social!Idle
    <2>. QED
      BY <1>6, <2>1, FollowsBeside, PostsBeside DEF SendLog, Social!ReadIds, Social!ReadPosts
  <1>7. CASE \/ Social!ReadFollower(c) \/ Social!WriteFollowee(c)
             \/ Social!ReadFollowee(c) \/ Social!WriteFollower(c)
    <2>1. run[c] \in FollowRun
      BY <1>7, RunGrows DEF Social!WriteFollowee, Social!ReadFollowee, Social!WriteFollower,
         Social!ReadFollower, SocialTypes, SocialRun, ComposeRun, AfterStore, Social!Idle
    <2>2. /\ \A d \in Client \ {c} : run'[d] = run[d]
          /\ run'[c].at \in {"idle", "writeFollowee", "readFollowee", "writeFollower"}
      <3>1. CASE Social!ReadFollower(c)
        BY <1>1, <2>1, <3>1 DEF Social!ReadFollower, FollowRun, Social!Idle
      <3>2. CASE Social!WriteFollowee(c)
        BY <1>1, <2>1, <3>2 DEF Social!WriteFollowee, FollowRun, Social!Idle
      <3>3. CASE Social!ReadFollowee(c)
        <4>1. CASE db.graph[run[c].to] = Missing
          BY <1>1, <3>3, <4>1 DEF Social!ReadFollowee, Social!Idle
        <4>2. CASE ~(db.graph[run[c].to] = Missing)
          <5>. DEFINE r == [run[c] EXCEPT !.at = "writeFollower",
                         !.got = Social!Vertex(run[c].to)]
          <5>1. run' = [run EXCEPT ![c] = r]
            BY <3>3, <4>2 DEF Social!ReadFollowee
          <5>2. r.at = "writeFollower"
            BY <2>1 DEF FollowRun
          <5>. HIDE DEF r
          <5>. QED
            BY <1>1, <5>1, <5>2
        <4>. QED
          BY <4>1, <4>2
      <3>4. CASE Social!WriteFollower(c)
        BY <1>1, <2>1, <3>4 DEF Social!WriteFollower, FollowRun, Social!Idle
      <3>. QED
        BY <1>7, <3>1, <3>2, <3>3, <3>4
    <2>3. db'.home = db.home /\ SendLog' = SendLog /\ log'.done = log.done
      BY <1>1, <1>7 DEF Social!WriteFollowee, Social!ReadFollowee, Social!WriteFollower,
         Social!ReadFollower, SocialDb, SocialLog, SendLog
    <2>4. PostsKept'
      BY <2>2, <2>3, PostsBeside
    <2>5. run[c].at \in {"readFollower", "writeFollowee", "readFollowee", "writeFollower"}
      BY ONLY <1>7 DEF Social!ReadFollower, Social!WriteFollowee, Social!ReadFollowee,
         Social!WriteFollower
    <2>6. ~(Social!ComposePost(c) \/ Social!ReadTimeline(c) \/ Social!Follow(c))
      BY ONLY <2>5 DEF Social!ComposePost, Social!ReadTimeline, Social!Follow, Social!Begin,
         Social!Idle
    <2>7. ~(\/ Social!StorePost(c) \/ Social!ReadUserIds(c) \/ Social!WriteUserTimeline(c)
            \/ Social!ReadIds(c) \/ Social!ReadPosts(c))
      BY ONLY <2>5 DEF Social!StorePost, Social!ReadUserIds, Social!WriteUserTimeline,
         Social!ReadIds, Social!ReadPosts
    <2>8. ~(\/ Social!GetFollowers(c) \/ Social!ReadHomeIds(c) \/ Social!WriteHomeTimeline(c))
      BY ONLY <2>5 DEF Social!GetFollowers, Social!ReadHomeIds, Social!WriteHomeTimeline
    <2>. QED
      BY ONLY <2>4, <2>6, <2>7, <2>8
  <1>. QED
    BY <1>3, <1>4, <1>5, <1>6, <1>7

LEMMA PostsReplaced ==
    ASSUME SocialInv, NEW w \in User, NEW v \in Vertices, Social!Replace(w, v)
    PROVE  PostsKept'
  <1>1. db'.home = db.home /\ log'.sent = log.sent /\ log'.lost = log.lost
        /\ log'.done = log.done
    BY DEF Social!Replace, SocialInv, SocialTypes, SocialDb, SocialLog
  <1>2. \A d \in Client : Sending(d)' => Sending(d) /\ run'[d] = run[d]
    <2>1. ASSUME NEW d \in Client, run[d].at \in Social!Following
          PROVE  ~Sending(d)'
      <3>1. run[d] \in FollowRun
        BY <2>1 DEF SocialInv, SocialTypes, SocialRun, ComposeRun, AfterStore,
           Social!Following, Social!Idle
      <3>2. run'[d].at = run[d].at
        BY <3>1 DEF Social!Replace, FollowRun
      <3>. QED
        BY <2>1, <3>2 DEF Sending, Social!Following
    <2>2. ASSUME NEW d \in Client, run[d].at \notin Social!Following
          PROVE  run'[d] = run[d]
      BY <2>2 DEF Social!Replace
    <2>. QED
      BY <2>1, <2>2 DEF Sending
  <1>3. \A list, f : Covers(list, f) => Covers(list, f)'
    BY <1>1 DEF Covers
  <1>. QED
    BY <1>1, <1>2, <1>3 DEF SocialInv, PostsKept, HasSent, Sending, Social!Listed

\* A step of the managers changes what home_timeline has cached.
LEMMA LinesKept ==
    ASSUME SocialInv, NEW u \in User, Social!CacheSave(u) \/ Social!CacheRemove(u)
    PROVE  SocialInv'
  <1>1. db \in SocialDb
    BY DEF SocialInv, SocialTypes
  <1>2. \A q \in Seq(User) \cup {Missing} :
           LET d == [db EXCEPT !.line[u] = q]
           IN  /\ d \in SocialDb /\ d.posts = db.posts /\ d.home = db.home
               /\ d.graph = db.graph
    BY <1>1 DEF SocialDb
  <1>3. PICK q \in Seq(User) \cup {Missing} : db' = [db EXCEPT !.line[u] = q]
    BY <1>1 DEF Social!CacheSave, Social!CacheRemove, SocialDb
  <1>4. /\ db' \in SocialDb /\ db'.posts = db.posts /\ db'.home = db.home
        /\ db'.graph = db.graph /\ run' = run /\ log' = log
    BY <1>2, <1>3 DEF Social!CacheSave, Social!CacheRemove
  <1>5. SocialRun' = SocialRun /\ SocialDb' = SocialDb /\ SocialLog' = SocialLog
    BY <1>4 DEF Stored, SocialRun, ComposeRun, SocialDb, SocialLog, Timelines
  <1>6. SocialTypes'
    <2>. HIDE DEF SocialRun, SocialDb, SocialLog
    <2>. QED
      BY <1>4, <1>5 DEF SocialInv, SocialTypes
  <1>7. FollowsKept'
    BY <1>4 DEF SocialInv, FollowsKept, HasFollow, Rewrites, HalfDone, HasHalf
  <1>8. PostsKept'
    <2>1. \A list, f : Covers(list, f)' = Covers(list, f)
      BY <1>4 DEF Covers
    <2>2. \A c : HasSent(c)' = HasSent(c) /\ Sending(c)' = Sending(c)
      BY <1>4 DEF HasSent, Sending
    <2>. QED
      BY <1>4, <2>1, <2>2 DEF SocialInv, PostsKept, Social!Listed
  <1>. QED
    BY <1>6, <1>7, <1>8 DEF SocialInv

LEMMA SocialNext == SocialInv /\ [Social!Next]_(Social!vars) => SocialInv'
  <1>. SUFFICES ASSUME SocialInv, [Social!Next]_(Social!vars) PROVE SocialInv'
    OBVIOUS
  <1>1. ASSUME NEW c \in Client, Social!Step(c) PROVE SocialInv'
    <2>1. SocialTypes'
      BY <1>1, SocialReads, SocialWrites, FollowersTyped DEF SocialInv, Social!Step
    <2>2. FollowsKept'
      BY <1>1, SocialBeside, FollowsRead, FolloweeWritten, FollowerWritten
         DEF SocialInv, Social!Step
    <2>3. PostsKept'
      BY <1>1, SocialBeside, FollowersGot, HomeRead, HomeWritten DEF SocialInv, Social!Step
    <2>. QED
      BY <2>1, <2>2, <2>3 DEF SocialInv
  <1>2. ASSUME NEW u \in User, Social!InsertUser(u) \/ Social!FollowMulti(u) PROVE SocialInv'
    BY <1>2, SocialReplaces, VertexReplaced, PostsReplaced DEF SocialInv
  <1>3. ASSUME NEW u \in User, Social!CacheSave(u) \/ Social!CacheRemove(u) PROVE SocialInv'
    BY <1>3, LinesKept
  <1>4. CASE UNCHANGED Social!vars
    <2>1. db' = db /\ run' = run /\ log' = log
      BY <1>4 DEF Social!vars
    <2>2. SocialTypes'
      BY <2>1 DEF SocialInv, SocialTypes, SocialRun, SocialDb, ComposeRun, Timelines, Stored
    <2>3. FollowsKept'
      BY <2>1 DEF SocialInv, FollowsKept, Rewrites, HalfDone, HasHalf
    <2>4. PostsKept'
      <3>1. \A list, f : Covers(list, f)' = Covers(list, f)
        BY <2>1 DEF Covers
      <3>2. \A c : HasSent(c)' = HasSent(c) /\ Sending(c)' = Sending(c)
        BY <2>1 DEF HasSent, Sending
      <3>. QED
        BY <2>1, <3>1, <3>2 DEF SocialInv, PostsKept, Social!Listed
    <2>. QED
      BY <2>2, <2>3, <2>4 DEF SocialInv
  <1>. QED
    BY <1>1, <1>2, <1>3, <1>4 DEF Social!Next

LEMMA SocialShows ==
    SocialInv => /\ Social!TimelinesListStored
                 /\ Social!PostReachesFollowers
                 /\ Social!FollowedBothWays
  <1>. SUFFICES ASSUME SocialInv
                PROVE  /\ Social!TimelinesListStored
                       /\ Social!PostReachesFollowers
                       /\ Social!FollowedBothWays
    OBVIOUS
  <1>. USE DEF SocialInv
  <1>1. Social!TimelinesListStored
    BY StoredRange, TimelineFacts DEF Timelines, Social!TimelinesListStored
  <1>2. Social!FollowedBothWays
    BY DEF FollowsKept, HasFollow, Social!FollowedBothWays
  <1>3. ASSUME NEW d \in log.done
        PROVE  LET sent == log.sent[d.to]
               IN  /\ d.post \in Social!Range(sent)
                   /\ \A i \in DOMAIN sent :
                         sent[i] = d.post /\ Len(sent) - i < MaxKept
                            /\ <<d.post, d.to>> \notin log.lost
                            => d.post \in Social!Range(Social!Listed(db.home[d.to]))
    <2>. DEFINE sent == log.sent[d.to]
                list == Social!Listed(db.home[d.to])
    <2>1. d.to \in User /\ d.post # 0 /\ sent \in Seq(Nat)
      BY DEF SocialTypes, SocialLog
    <2>2. DOMAIN sent = 1..Len(sent)
      BY <2>1
    <2>3. list \in Stored /\ DOMAIN list = 1..Len(list)
      BY <2>1, TimelineFacts DEF Stored
    <2>4. d.post \in Social!Range(sent) /\ Covers(list, d.to)
      BY <2>1 DEF PostsKept
    <2>5. ASSUME NEW i \in DOMAIN sent, sent[i] = d.post, Len(sent) - i < MaxKept,
                 <<d.post, d.to>> \notin log.lost
          PROVE  d.post \in Social!Range(list)
      <3>1. PICK k \in 1..Len(list) : list[k] = sent[i]
        BY <2>1, <2>2, <2>4, <2>5 DEF Covers
      <3>. QED
        BY <2>3, <2>5, <3>1 DEF Social!Range
    <2>. QED
      BY <2>4, <2>5
  <1>. QED
    BY <1>1, <1>2, <1>3 DEF Social!PostReachesFollowers

(***************************************************************************)
(* StorePost, WriteUserTimeline, WriteHomeTimeline and Follow of the       *)
(* social application, whatever overlaps: what timelines hold and show.    *)
(***************************************************************************)
THEOREM SocialKeepsItsWord ==
    Spec => [](TimelinesListStored /\ PostReachesFollowers /\ FollowedBothWays)
  <1>. DEFINE Part == part = "social" => SocialInv
  <1>1. Init => Part
    BY SocialStarts DEF Init
  <1>2. Part /\ [Next]_vars => Part'
    <2>1. ASSUME Part, Next, part' = "social" PROVE SocialInv'
      <3>1. part = "social" /\ Social!Next
        BY <2>1 DEF Next, AroundStores
      <3>. QED
        BY <2>1, <3>1, SocialNext
    <2>2. ASSUME Part, UNCHANGED vars, part' = "social" PROVE SocialInv'
      <3>1. part = "social" /\ UNCHANGED Social!vars
        BY <2>2 DEF vars, Social!vars, storeVars
      <3>. QED
        BY <2>2, <3>1, SocialNext
    <2>. QED
      BY <2>1, <2>2
  <1>3. Part => TimelinesListStored /\ PostReachesFollowers /\ FollowedBothWays
    BY SocialShows DEF TimelinesListStored, PostReachesFollowers, FollowedBothWays
  <1>. HIDE DEF Part
  <1>. QED
    BY <1>1, <1>2, <1>3, PTL DEF Spec

-----------------------------------------------------------------------------
(***************************************************************************)
(* Boutique: what becomes of an item between the cart and the charge.      *)
(***************************************************************************)
Item == [id : Nat, product : ProductId, quantity : Quantity]

CartRun == [at : {"setCart"}, user : Shopper, got : Seq(Item), item : Item]

OrderRun(r) ==
    /\ r = [at |-> r.at, user |-> r.user, to |-> r.to, got |-> r.got, costs |-> r.costs,
            shipping |-> r.shipping]
    /\ r.at \in Boutique!Ordering
    /\ r.user \in Shopper
    /\ r.got \in Seq(Item)

HasCopy(c) == run[c].at \in Boutique!Ordering \cup {"setCart"}

Charge(x) ==
    /\ x = [of |-> x.of, items |-> x.items, costs |-> x.costs, shipping |-> x.shipping,
            total |-> x.total, emptied |-> x.emptied]
    /\ x.of \in Client \cup {"failed"}
    /\ x.items \in Seq(Item)
    /\ x.emptied \in BOOLEAN

BoutiqueTypes ==
    /\ db = [keys |-> db.keys, products |-> db.products, codes |-> db.codes,
             rates |-> db.rates, cart |-> db.cart, line |-> db.line,
             answered |-> db.answered]
    /\ db.cart \in [Shopper -> Seq(Item)]
    /\ db.answered \in [Shopper -> SUBSET Seq(Item)]
    /\ db.line = [u \in Shopper |-> db.line[u]]
    /\ \A u \in Shopper : db.line[u] # Missing => db.line[u] \in db.answered[u]
    /\ run = [c \in Client |-> run[c]]
    /\ \A c \in Client : HasCopy(c) => run[c] \in CartRun \/ OrderRun(run[c])
    /\ log = [requests |-> log.requests, added |-> log.added, raced |-> log.raced,
              charges |-> log.charges]
    /\ log.requests \in Nat
    /\ log.charges \in Seq(Boutique!Range(log.charges))
    /\ \A i \in DOMAIN log.charges : Charge(log.charges[i])

-----------------------------------------------------------------------------
\* Where items are: in a cart, in an answer the cache may hold of one, in the
\* copy a run holds of one, on their way into one, in a charged order.
InCart(u) == Boutique!Range(db.cart[u])
InCache(u) == UNION {Boutique!Range(cart) : cart \in db.answered[u]}
Copied(c) == IF HasCopy(c) THEN Boutique!Range(run[c].got) ELSE {}
OnItsWay(c) == IF run[c].at = "setCart" THEN {run[c].item} ELSE {}
Charged(i) == Boutique!Range(log.charges[i].items)

Carts == <<db.cart, db.line, db.answered>>
Charges == DOMAIN log.charges

\* Order c is charged, and has not emptied the cart yet.
Paid(c) == run[c].at \in {"shipOrder", "emptyCart"}

Near(x, u) ==
    \/ x \in InCart(u) \cup InCache(u)
    \/ \E c \in Client : HasCopy(c) /\ run[c].user = u /\ x \in Copied(c) \cup OnItsWay(c)

\* Items are numbered by the requests that add them.
Numbered ==
    /\ \A u \in Shopper : \A x \in InCart(u) \cup InCache(u) : x.id \in 0..(log.requests - 1)
    /\ \A c \in Client : \A x \in Copied(c) \cup OnItsWay(c) : x.id \in 0..(log.requests - 1)
    /\ \A i \in Charges : \A x \in Charged(i) : x.id \in 0..(log.requests - 1)

\* An item is of one shopper, and was not anywhere before it is stored.
Apart ==
    /\ \A x : \A u, v \in Shopper : Near(x, u) /\ Near(x, v) => u = v
    /\ \A c \in Client : \A x \in OnItsWay(c) :
          /\ \A u \in Shopper : x \notin InCart(u) \cup InCache(u)
          /\ \A d \in Client : x \notin Copied(d)
          /\ \A d \in Client \ {c} : x \notin OnItsWay(d)
          /\ \A i \in Charges : x \notin Charged(i)

\* A copy lacks no item of the cart but those of a race.
CopiesComplete ==
    \A c \in Client : HasCopy(c) => InCart(run[c].user) \ log.raced \subseteq Copied(c)

\* A charge is of what its order holds, until the order ends.
ChargesHeld ==
    /\ \A c \in Client : Paid(c) => \E i \in Charges : log.charges[i].items = run[c].got
    /\ \A i \in Charges, c \in Client : log.charges[i].of = c /\ ~log.charges[i].emptied =>
          Paid(c) /\ log.charges[i].items = run[c].got
    /\ \A i \in Charges : log.charges[i].emptied => log.charges[i].of # "failed"

\* What an order that emptied its cart was charged for is nowhere left, and in
\* no later order.
ChargesApart ==
    /\ \A i \in Charges : log.charges[i].emptied =>
          /\ \A u \in Shopper : InCart(u) \cap Charged(i) \subseteq log.raced
          /\ \A c \in Client : Copied(c) \cap Charged(i) \subseteq log.raced
    /\ \A i, j \in Charges : i < j /\ log.charges[i].of # "failed" =>
          Charged(i) \cap Charged(j) \subseteq log.raced

NothingLost ==
    \A x \in log.added \ log.raced :
       (\E u \in Shopper : x \in InCart(u)) \/ (\E i \in Charges : x \in Charged(i))

BoutiqueInv ==
    /\ BoutiqueTypes /\ Numbered /\ Apart /\ CopiesComplete
    /\ ChargesHeld /\ ChargesApart /\ NothingLost

-----------------------------------------------------------------------------
LEMMA BoutiqueStarts == Boutique!Init => BoutiqueInv
  <1>. SUFFICES ASSUME Boutique!Init PROVE BoutiqueInv
    OBVIOUS
  <1>1. /\ db.cart = [u \in Shopper |-> <<>>]
        /\ db.line = [u \in Shopper |-> Missing] /\ db.answered = [u \in Shopper |-> {}]
        /\ db = [keys |-> db.keys, products |-> db.products, codes |-> db.codes,
                 rates |-> db.rates, cart |-> db.cart, line |-> db.line,
                 answered |-> db.answered]
    <2>1. PICK populated \in BOOLEAN :
             db = [keys |-> IF populated THEN Boutique!SetToSeq(ProductId) ELSE Missing,
                   products |-> IF populated THEN ProductId ELSE {},
                   codes |-> IF populated THEN Boutique!SetToSeq(Currency) ELSE Missing,
                   rates |-> IF populated THEN Currency ELSE {},
                   cart |-> [u \in Shopper |-> <<>>], line |-> [u \in Shopper |-> Missing],
                   answered |-> [u \in Shopper |-> {}]]
      BY DEF Boutique!Init
    <2>2. \E k, p, o, r : db = [keys |-> k, products |-> p, codes |-> o, rates |-> r,
                                cart |-> [u \in Shopper |-> <<>>],
                                line |-> [u \in Shopper |-> Missing],
                                answered |-> [u \in Shopper |-> {}]]
      BY <2>1, Zenon
    <2>. QED
      BY <2>2
  <1>2. run = [c \in Client |-> Boutique!Idle]
        /\ log = [requests |-> 0, added |-> {}, raced |-> {}, charges |-> <<>>]
    BY DEF Boutique!Init
  <1>3. \A c \in Client : ~HasCopy(c) /\ run[c].at = "idle"
    BY <1>2 DEF HasCopy, Boutique!Idle, Boutique!Ordering
  <1>4. Charges = {}
    BY <1>2 DEF Charges
  <1>5. \A u \in Shopper : InCart(u) = {} /\ InCache(u) = {}
    BY <1>1 DEF InCart, InCache, Boutique!Range
  <1>6. \A c \in Client : Copied(c) = {} /\ OnItsWay(c) = {} /\ ~Paid(c)
    BY <1>3 DEF Copied, OnItsWay, Paid
  <1>7. BoutiqueTypes
    BY <1>1, <1>2, <1>3, <1>4 DEF BoutiqueTypes, Charges
  <1>8. Numbered /\ Apart /\ CopiesComplete
    BY <1>3, <1>4, <1>5, <1>6 DEF Numbered, Apart, CopiesComplete, Near
  <1>9. ChargesHeld /\ ChargesApart /\ NothingLost
    BY <1>2, <1>4, <1>6 DEF ChargesHeld, ChargesApart, NothingLost
  <1>. QED
    BY <1>7, <1>8, <1>9 DEF BoutiqueInv

\* What a run holds.
LEMMA CopyFacts ==
    ASSUME BoutiqueTypes, NEW c \in Client, HasCopy(c)
    PROVE  /\ run[c].user \in Shopper
           /\ run[c].got \in Seq(Item)
           /\ Copied(c) = Boutique!Range(run[c].got)
           /\ run[c].at = "setCart" => run[c] \in CartRun
           /\ run[c].at # "setCart" => OrderRun(run[c]) /\ OnItsWay(c) = {}
  <1>1. run[c] \in CartRun \/ OrderRun(run[c])
    BY DEF BoutiqueTypes
  <1>. QED
    BY <1>1 DEF CartRun, OrderRun, Copied, OnItsWay, HasCopy, Boutique!Ordering

\* What a step of c leaves of the others.
LEMMA OthersStay ==
    ASSUME BoutiqueTypes, NEW c \in Client, NEW r, run' = [run EXCEPT ![c] = r]
    PROVE  /\ run' = [d \in Client |-> run'[d]]
           /\ run'[c] = r
           /\ \A d \in Client \ {c} :
                 /\ run'[d] = run[d]
                 /\ HasCopy(d)' = HasCopy(d) /\ Copied(d)' = Copied(d)
                 /\ OnItsWay(d)' = OnItsWay(d) /\ Paid(d)' = Paid(d)
  <1>1. run = [d \in Client |-> run[d]]
    BY DEF BoutiqueTypes
  <1>2. run'[c] = r /\ \A d \in Client \ {c} : run'[d] = run[d]
    BY <1>1
  <1>3. run' = [d \in Client |-> run'[d]]
    BY <1>1
  <1>. QED
    BY <1>2, <1>3 DEF HasCopy, Copied, OnItsWay, Paid

LEMMA ChargesStay ==
    ASSUME log'.charges = log.charges
    PROVE  /\ Charges' = Charges
           /\ \A i : Charged(i)' = Charged(i)
  BY DEF Charges, Charged

LEMMA CartsStay ==
    ASSUME Carts' = Carts
    PROVE  \A u : InCart(u)' = InCart(u) /\ InCache(u)' = InCache(u)
  BY DEF Carts, InCart, InCache

\* A run reads a cart, to add an item of its own, or to order what it or a
\* line of the cache says: then what the two do not share is marked.
LEMMA CopyTaken ==
    ASSUME BoutiqueInv, NEW c \in Client, NEW u \in Shopper, NEW r,
           run[c].at = "idle", run' = [run EXCEPT ![c] = r],
           \/ r \in CartRun /\ r.item.id = log.requests
           \/ OrderRun(r) /\ r.at = "getProduct",
           r.user = u, r.got \in Seq(Item),
           NEW got, got = Boutique!Range(r.got), NEW marked,
           got \subseteq InCart(u) \cup InCache(u),
           got \subseteq InCart(u) \cup marked, InCart(u) \subseteq got \cup marked,
           NEW answered, db' = [db EXCEPT !.answered = answered],
           \/ answered = db.answered
           \/ answered = [db.answered EXCEPT ![u] = @ \cup {db.cart[u]}],
           log' = [Boutique!Counted EXCEPT !.raced = log.raced \cup marked]
    PROVE  BoutiqueInv'
  <1>. USE DEF BoutiqueInv
  <1>1. /\ run' = [d \in Client |-> run'[d]]
        /\ run'[c] = r
        /\ \A d \in Client \ {c} :
              /\ run'[d] = run[d]
              /\ HasCopy(d)' = HasCopy(d) /\ Copied(d)' = Copied(d)
              /\ OnItsWay(d)' = OnItsWay(d) /\ Paid(d)' = Paid(d)
    BY OthersStay
  <1>2. ~HasCopy(c) /\ ~Paid(c) /\ Copied(c) = {} /\ OnItsWay(c) = {}
    BY DEF HasCopy, Paid, Copied, OnItsWay, Boutique!Ordering
  <1>3. /\ HasCopy(c)' /\ ~Paid(c)' /\ Copied(c)' = got
        /\ \A x \in OnItsWay(c)' : x.id = log.requests
    BY <1>1 DEF HasCopy, Paid, Copied, OnItsWay, Boutique!Range, CartRun, Boutique!Ordering
  <1>4. /\ log' = [requests |-> log.requests + 1, added |-> log.added,
                   raced |-> log.raced \cup marked, charges |-> log.charges]
        /\ log.requests \in Nat
    BY DEF BoutiqueTypes, Boutique!Counted
  <1>a. /\ db' = [keys |-> db.keys, products |-> db.products, codes |-> db.codes,
                  rates |-> db.rates, cart |-> db.cart, line |-> db.line,
                  answered |-> answered]
        /\ answered \in [Shopper -> SUBSET Seq(Item)]
        /\ \A v \in Shopper : /\ db.answered[v] \subseteq answered[v]
                               /\ answered[v] \subseteq db.answered[v] \cup {db.cart[v]}
    <2>1. /\ db' = [keys |-> db.keys, products |-> db.products, codes |-> db.codes,
                    rates |-> db.rates, cart |-> db.cart, line |-> db.line,
                    answered |-> answered]
      BY DEF BoutiqueTypes
    <2>2. /\ db.cart \in [Shopper -> Seq(Item)]
          /\ db.answered \in [Shopper -> SUBSET Seq(Item)]
      BY DEF BoutiqueTypes
    <2>3. /\ answered \in [Shopper -> SUBSET Seq(Item)]
          /\ \A v \in Shopper : /\ db.answered[v] \subseteq answered[v]
                                 /\ answered[v] \subseteq db.answered[v] \cup {db.cart[v]}
      <3>1. PICK a, f : a = db.answered /\ f = db.cart
        OBVIOUS
      <3>2. a \in [Shopper -> SUBSET Seq(Item)] /\ f \in [Shopper -> Seq(Item)]
        BY <2>2, <3>1
      <3>3. answered = a \/ answered = [a EXCEPT ![u] = a[u] \cup {f[u]}]
        BY <3>1
      <3>4. CASE answered = a
        BY <3>1, <3>2, <3>4
      <3>5. CASE answered = [a EXCEPT ![u] = a[u] \cup {f[u]}]
        <4>1. \A v \in Shopper : answered[v] = IF v = u THEN a[u] \cup {f[u]} ELSE a[v]
          BY <3>2, <3>5
        <4>2. answered = [v \in Shopper |-> answered[v]]
          BY <3>2, <3>5
        <4>3. \A v \in Shopper : answered[v] \in SUBSET Seq(Item)
          BY <3>2, <4>1
        <4>. QED
          BY <3>1, <4>1, <4>2, <4>3
      <3>. QED
        BY <3>3, <3>4, <3>5
    <2>. QED
      BY <2>1, <2>3
  <1>5. /\ Charges' = Charges /\ \A i : Charged(i)' = Charged(i)
        /\ \A v \in Shopper : /\ InCart(v)' = InCart(v)
                               /\ InCache(v)' \subseteq InCart(v) \cup InCache(v)
    BY <1>4, <1>a, ChargesStay DEF InCart, InCache
  <1>6. /\ BoutiqueTypes'
    <2>1. \A d \in Client : HasCopy(d)' => run'[d] \in CartRun \/ OrderRun(run'[d])
      BY <1>1 DEF BoutiqueTypes
    <2>2. /\ db'.line = db.line /\ db'.cart = db.cart /\ db'.answered = answered
          /\ db' = [keys |-> db'.keys, products |-> db'.products, codes |-> db'.codes,
                    rates |-> db'.rates, cart |-> db'.cart, line |-> db'.line,
                    answered |-> db'.answered]
      BY <1>a
    <2>3. /\ db'.cart \in [Shopper -> Seq(Item)]
          /\ db'.answered \in [Shopper -> SUBSET Seq(Item)]
          /\ db'.line = [v \in Shopper |-> db'.line[v]]
          /\ \A v \in Shopper : db'.line[v] # Missing => db'.line[v] \in db'.answered[v]
      BY <1>a, <2>2 DEF BoutiqueTypes
    <2>4. /\ log' = [requests |-> log'.requests, added |-> log'.added, raced |-> log'.raced,
                     charges |-> log'.charges]
          /\ log'.requests \in Nat
          /\ log'.charges \in Seq(Boutique!Range(log'.charges))
          /\ \A i \in DOMAIN log'.charges : Charge(log'.charges[i])
      <3>1. log'.charges = log.charges /\ log'.requests = log.requests + 1
        BY <1>4
      <3>2. /\ log.charges \in Seq(Boutique!Range(log.charges))
            /\ \A i \in DOMAIN log.charges : Charge(log.charges[i])
        BY DEF BoutiqueTypes
      <3>3. /\ log' = [requests |-> log'.requests, added |-> log'.added, raced |-> log'.raced,
                       charges |-> log'.charges]
            /\ log'.requests \in Nat
        BY ONLY <1>4
      <3>. QED
        BY <3>1, <3>2, <3>3
    <2>. QED
      BY <1>1, <2>1, <2>2, <2>3, <2>4 DEF BoutiqueTypes, OrderRun, Charge
  <1>7. Numbered'
    <2>1. /\ \A v \in Shopper : \A x \in InCart(v) \cup InCache(v) : x.id \in 0..(log.requests - 1)
          /\ \A d \in Client : \A x \in Copied(d) \cup OnItsWay(d) : x.id \in 0..(log.requests - 1)
          /\ \A i \in Charges : \A x \in Charged(i) : x.id \in 0..(log.requests - 1)
      BY DEF Numbered
    <2>2. \A d \in Client : \A x \in Copied(d)' \cup OnItsWay(d)' :
             x.id \in 0..log.requests
      BY <1>1, <1>3, <1>4, <2>1
    <2>. QED
      BY <1>4, <1>5, <2>1, <2>2 DEF Numbered
  <1>8. \A x \in OnItsWay(c)' :
           /\ \A v \in Shopper : x \notin InCart(v) \cup InCache(v)
           /\ \A d \in Client : x \notin Copied(d) \cup OnItsWay(d)
           /\ \A i \in Charges : x \notin Charged(i)
    BY <1>3, <1>4 DEF Numbered
  <1>9. Apart'
    <2>1. ASSUME NEW x, NEW v \in Shopper, Near(x, v)'
          PROVE  Near(x, v) \/ (x \in OnItsWay(c)' /\ v = u)
      <3>1. CASE x \in InCart(v)' \cup InCache(v)'
        BY <1>5, <3>1 DEF Near
      <3>2. CASE x \notin InCart(v)' \cup InCache(v)'
        <4>1. PICK d \in Client : /\ HasCopy(d)' /\ run'[d].user = v
                                  /\ x \in Copied(d)' \cup OnItsWay(d)'
          BY <2>1, <3>2 DEF Near
        <4>. QED
          BY <1>1, <1>3, <4>1 DEF Near
      <3>. QED
        BY <3>1, <3>2
    <2>2. ASSUME NEW x, NEW v \in Shopper, Near(x, v)
          PROVE  x \notin OnItsWay(c)'
      BY <1>8, <2>2 DEF Near
    <2>3. ASSUME NEW x, NEW v \in Shopper, NEW w \in Shopper, Near(x, v)', Near(x, w)'
          PROVE  v = w
      BY <2>1, <2>2, <2>3 DEF Apart
    <2>4. ASSUME NEW d \in Client, NEW x \in OnItsWay(d)'
          PROVE  /\ \A v \in Shopper : x \notin InCart(v)' \cup InCache(v)'
                 /\ \A e \in Client : x \notin Copied(e)'
                 /\ \A e \in Client \ {d} : x \notin OnItsWay(e)'
                 /\ \A i \in Charges : x \notin Charged(i)'
      <3>1. CASE d = c
        BY <1>1, <1>3, <1>5, <1>8, <2>4, <3>1
      <3>2. CASE d # c
        <4>1. x \in OnItsWay(d)
          BY <1>1, <2>4, <3>2
        <4>2. x \notin OnItsWay(c)'
          BY <1>8, <4>1
        <4>. QED
          BY <1>1, <1>3, <1>5, <3>2, <4>1, <4>2 DEF Apart
      <3>. QED
        BY <3>1, <3>2
    <2>. QED
      BY <1>5, <2>3, <2>4 DEF Apart
  <1>10. CopiesComplete'
    <2>1. ASSUME NEW d \in Client, HasCopy(d)'
          PROVE  (InCart(run[d].user) \ log.raced \subseteq Copied(d))'
      <3>1. PICK v : v = run'[d].user
        OBVIOUS
      <3>2. InCart(v) \ (log.raced \cup marked) \subseteq Copied(d)' /\ v \in Shopper
        BY <1>1, <1>3, <2>1, <3>1, CopyFacts DEF CopiesComplete
      <3>. QED
        BY <1>4, <1>5, <3>1, <3>2
    <2>. QED
      BY <2>1 DEF CopiesComplete
  <1>11. ChargesHeld'
    BY <1>1, <1>2, <1>3, <1>4, <1>5 DEF ChargesHeld
  <1>12. ChargesApart'
    <2>1. \A i \in Charges : log.charges[i].emptied =>
             \A d \in Client : Copied(d)' \cap Charged(i) \subseteq log.raced \cup marked
      BY <1>1, <1>3 DEF ChargesApart
    <2>. QED
      BY <1>4, <1>5, <2>1 DEF ChargesApart
  <1>13. NothingLost'
    BY <1>4, <1>5 DEF NothingLost
  <1>. QED
    BY <1>6, <1>7, <1>9, <1>10, <1>11, <1>12, <1>13

\* A run goes on with its copy or ends, no cart is written and nothing charged.
LEMMA Moved ==
    ASSUME BoutiqueInv, NEW c \in Client, NEW r, run' = [run EXCEPT ![c] = r],
           \/ r.at \notin Boutique!Ordering \cup {"setCart"}
           \/ /\ OrderRun(r) /\ OrderRun(run[c])
              /\ r.user = run[c].user /\ r.got = run[c].got,
           db' = [keys |-> db'.keys, products |-> db'.products, codes |-> db'.codes,
                  rates |-> db'.rates, cart |-> db'.cart, line |-> db'.line,
                  answered |-> db'.answered],
           Carts' = Carts,
           log' = [requests |-> log'.requests, added |-> log'.added, raced |-> log'.raced,
                   charges |-> log'.charges],
           log'.requests \in {log.requests, log.requests + 1},
           log'.added = log.added, log'.raced = log.raced,
           log'.charges \in Seq(Boutique!Range(log'.charges)),
           Charges' = Charges,
           \A i \in Charges : /\ Charge(log'.charges[i])
                              /\ log'.charges[i].items = log.charges[i].items
                              /\ log'.charges[i].emptied = log.charges[i].emptied
                              /\ \/ log'.charges[i].of = log.charges[i].of
                                 \/ log'.charges[i].of = "failed" /\ ~log.charges[i].emptied,
           r.at \in {"shipOrder", "emptyCart"} => Paid(c),
           \/ Paid(c) => r.at \in {"shipOrder", "emptyCart"}
           \/ \A i \in Charges : log'.charges[i].of = c => log.charges[i].emptied
    PROVE  BoutiqueInv'
  <1>. USE DEF BoutiqueInv
  <1>1. /\ run' = [d \in Client |-> run'[d]]
        /\ run'[c] = r
        /\ \A d \in Client \ {c} :
              /\ run'[d] = run[d]
              /\ HasCopy(d)' = HasCopy(d) /\ Copied(d)' = Copied(d)
              /\ OnItsWay(d)' = OnItsWay(d) /\ Paid(d)' = Paid(d)
    BY OthersStay
  <1>2. /\ HasCopy(c)' =>
              /\ HasCopy(c) /\ run'[c].user = run[c].user /\ run'[c].got = run[c].got
              /\ OrderRun(run'[c]) /\ Copied(c)' = Copied(c)
        /\ ~HasCopy(c)' => Copied(c)' = {}
        /\ OnItsWay(c)' = {}
        /\ Paid(c)' => HasCopy(c)' /\ Paid(c)
    BY <1>1 DEF HasCopy, OrderRun, Copied, OnItsWay, Paid, Boutique!Ordering
  <1>3. /\ \A i \in Charges : Charged(i)' = Charged(i)
        /\ \A u : InCart(u)' = InCart(u) /\ InCache(u)' = InCache(u)
    BY CartsStay DEF Charged
  <1>4. BoutiqueTypes'
    <2>1. \A d \in Client : HasCopy(d)' => run'[d] \in CartRun \/ OrderRun(run'[d])
      BY <1>1, <1>2 DEF BoutiqueTypes
    <2>2. /\ log'.requests \in Nat
          /\ db'.cart = db.cart /\ db'.line = db.line /\ db'.answered = db.answered
      BY DEF BoutiqueTypes, Carts
    <2>3. \A i \in DOMAIN log'.charges : Charge(log'.charges[i])
      BY DEF Charges
    <2>. QED
      <3>1. /\ db'.cart \in [Shopper -> Seq(Item)]
            /\ db'.answered \in [Shopper -> SUBSET Seq(Item)]
            /\ db'.line = [u \in Shopper |-> db'.line[u]]
            /\ \A u \in Shopper : db'.line[u] # Missing => db'.line[u] \in db'.answered[u]
        BY <2>2 DEF BoutiqueTypes
      <3>. QED
        BY <1>1, <2>1, <2>2, <2>3, <3>1 DEF BoutiqueTypes, OrderRun, Charge
  <1>5. Numbered'
    <2>1. 0..(log.requests - 1) \subseteq 0..(log'.requests - 1)
      BY DEF BoutiqueTypes
    <2>. QED
      BY <1>1, <1>2, <1>3, <2>1 DEF Numbered
  <1>6. Apart'
    <2>1. ASSUME NEW x, NEW v \in Shopper, Near(x, v)' PROVE Near(x, v)
      <3>1. CASE x \in InCart(v)' \cup InCache(v)'
        BY <1>3, <3>1 DEF Near
      <3>2. CASE x \notin InCart(v)' \cup InCache(v)'
        <4>1. PICK d \in Client : /\ HasCopy(d)' /\ run'[d].user = v
                                  /\ x \in Copied(d)' \cup OnItsWay(d)'
          BY <2>1, <3>2 DEF Near
        <4>. QED
          BY <1>1, <1>2, <4>1 DEF Near
      <3>. QED
        BY <3>1, <3>2
    <2>2. \A d \in Client : Copied(d)' \subseteq Copied(d) /\ OnItsWay(d)' \subseteq OnItsWay(d)
      BY <1>1, <1>2
    <2>. QED
      BY <1>3, <2>1, <2>2 DEF Apart
  <1>7. CopiesComplete'
    <2>1. ASSUME NEW d \in Client, HasCopy(d)'
          PROVE  (InCart(run[d].user) \ log.raced \subseteq Copied(d))'
      <3>1. PICK v : v = run'[d].user
        OBVIOUS
      <3>2. InCart(v) \ log.raced \subseteq Copied(d)'
        BY <1>1, <1>2, <2>1, <3>1 DEF CopiesComplete
      <3>. QED
        BY <1>3, <3>1, <3>2
    <2>. QED
      BY <2>1 DEF CopiesComplete
  <1>8. ChargesHeld'
    <2>1. ASSUME NEW d \in Client, Paid(d)'
          PROVE  \E i \in Charges' : log'.charges[i].items = run'[d].got
      BY <1>1, <1>2, <2>1 DEF ChargesHeld
    <2>2. ASSUME NEW i \in Charges', NEW d \in Client,
                 log'.charges[i].of = d, ~log'.charges[i].emptied
          PROVE  Paid(d)' /\ log'.charges[i].items = run'[d].got
      <3>1. log.charges[i].of = d /\ ~log.charges[i].emptied
        BY <2>2, ClientAssumption
      <3>2. Paid(d) /\ log.charges[i].items = run[d].got
        BY <3>1 DEF ChargesHeld
      <3>3. d = c => Paid(c)'
        BY <1>1, <2>2, <3>1, <3>2 DEF Paid
      <3>. QED
        BY <1>1, <1>2, <3>2, <3>3
    <2>3. \A i \in Charges' : log'.charges[i].emptied => log'.charges[i].of # "failed"
      BY DEF ChargesHeld
    <2>. QED
      BY <2>1, <2>2, <2>3 DEF ChargesHeld
  <1>9. ChargesApart'
    <2>1. \A d \in Client : Copied(d)' \subseteq Copied(d)
      BY <1>1, <1>2
    <2>2. ASSUME NEW i \in Charges, log'.charges[i].emptied
          PROVE  /\ \A u \in Shopper : InCart(u)' \cap Charged(i)' \subseteq log'.raced
                 /\ \A d \in Client : Copied(d)' \cap Charged(i)' \subseteq log'.raced
      BY <1>3, <2>1, <2>2 DEF ChargesApart
    <2>3. ASSUME NEW i \in Charges, NEW j \in Charges, i < j, log'.charges[i].of # "failed"
          PROVE  Charged(i)' \cap Charged(j)' \subseteq log'.raced
      BY <1>3, <2>3 DEF ChargesApart
    <2>. QED
      BY <2>2, <2>3 DEF ChargesApart
  <1>10. NothingLost'
    BY <1>3 DEF NothingLost
  <1>. QED
    BY <1>4, <1>5, <1>6, <1>7, <1>8, <1>9, <1>10

LEMMA Rewritten ==
    ASSUME NEW s, s \in Seq(Boutique!Range(s)), NEW t, t = [i \in DOMAIN s |-> t[i]]
    PROVE  t \in Seq(Boutique!Range(t))
  <1>1. Len(s) \in Nat /\ DOMAIN s = 1..Len(s)
    OBVIOUS
  <1>2. t \in [1..Len(s) -> Boutique!Range(t)]
    BY <1>1 DEF Boutique!Range
  <1>. QED
    BY <1>1, <1>2

LEMMA OneMore ==
    ASSUME NEW s, s \in Seq(Boutique!Range(s)), NEW x
    PROVE  /\ Append(s, x) \in Seq(Boutique!Range(Append(s, x)))
           /\ Len(s) \in Nat /\ DOMAIN s = 1..Len(s)
           /\ DOMAIN Append(s, x) = 1..(Len(s) + 1)
           /\ \A i \in 1..Len(s) : Append(s, x)[i] = s[i]
           /\ Append(s, x)[Len(s) + 1] = x
           /\ Boutique!Range(Append(s, x)) = Boutique!Range(s) \cup {x}
  <1>. DEFINE S == Boutique!Range(s) \cup {x}
              t == Append(s, x)
  <1>1. s \in Seq(S)
    <2>1. Boutique!Range(s) \subseteq S
      OBVIOUS
    <2>. QED
      BY <2>1, SeqMonotonic, Zenon
  <1>2. /\ Len(s) \in Nat /\ DOMAIN s = 1..Len(s)
        /\ DOMAIN t = 1..(Len(s) + 1)
        /\ \A i \in 1..Len(s) : t[i] = s[i]
        /\ t[Len(s) + 1] = x
    <2>. HIDE DEF S
    <2>1. x \in S
      BY DEF S
    <2>. QED
      BY <1>1, <2>1
  <1>. HIDE DEF t
  <1>3. Boutique!Range(t) = S
    BY <1>2 DEF Boutique!Range
  <1>4. t = [i \in 1..(Len(s) + 1) |-> t[i]]
    <2>1. t \in Seq(S)
      BY <1>1 DEF t
    <2>. QED
      BY <1>2, <2>1
  <1>5. t \in [1..(Len(s) + 1) -> Boutique!Range(t)]
    BY <1>2, <1>4 DEF Boutique!Range
  <1>6. t \in Seq(Boutique!Range(t))
    BY <1>2, <1>5
  <1>. QED
    BY <1>2, <1>3, <1>6 DEF t

LEMMA AppendedRange ==
    ASSUME NEW S, NEW s \in Seq(S), NEW x \in S
    PROVE  Boutique!Range(Append(s, x)) = Boutique!Range(s) \cup {x}
  <1>. DEFINE t == Append(s, x)
  <1>1. /\ Len(s) \in Nat /\ DOMAIN s = 1..Len(s)
        /\ DOMAIN t = 1..(Len(s) + 1)
        /\ \A i \in 1..Len(s) : t[i] = s[i]
        /\ t[Len(s) + 1] = x
    OBVIOUS
  <1>. HIDE DEF t
  <1>2. Boutique!Range(t) = Boutique!Range(s) \cup {x}
    BY <1>1 DEF Boutique!Range
  <1>. QED
    BY <1>2 DEF t

\* What is marked when c, who holds a copy, writes list or charges.
LEMMA MarkedFacts ==
    ASSUME BoutiqueTypes, NEW c \in Client, HasCopy(c), NEW list
    PROVE  /\ log.raced \subseteq Boutique!Marked(c, list)
           /\ \A d \in Client \ {c} : HasCopy(d) /\ run[d].user = run[c].user =>
                 /\ Boutique!Range(list) \subseteq Boutique!Marked(c, list)
                 /\ Copied(c) \subseteq Boutique!Marked(c, list)
                 /\ Copied(d) \subseteq Boutique!Marked(c, list)
  <1>. DEFINE u == run[c].user
              others == {d \in Client \ {c} : Boutique!Holds(d, u)}
              marked == log.raced \cup Boutique!Range(list) \cup Boutique!Range(db.cart[u])
                           \cup UNION {Boutique!Range(run[d].got) : d \in others \cup {c}}
  <1>1. Boutique!Marked(c, list) = IF others = {} THEN log.raced ELSE marked
    BY DEF Boutique!Marked
  <1>2. ASSUME NEW d \in Client \ {c}, HasCopy(d), run[d].user = u
        PROVE  /\ Boutique!Range(list) \subseteq Boutique!Marked(c, list)
               /\ Copied(c) \subseteq Boutique!Marked(c, list)
               /\ Copied(d) \subseteq Boutique!Marked(c, list)
    <2>1. d \in others
      BY <1>2 DEF HasCopy, Boutique!Holds
    <2>2. Boutique!Marked(c, list) = marked
      BY <1>1, <2>1
    <2>3. /\ Boutique!Range(run[c].got) \subseteq marked
          /\ Boutique!Range(run[d].got) \subseteq marked
      BY <2>1
    <2>. QED
      BY <1>2, <2>2, <2>3 DEF Copied
  <1>. QED
    BY <1>1, <1>2

\* The copy with one more item is the cart.
LEMMA CartSet ==
    ASSUME BoutiqueInv, NEW c \in Client, Boutique!SetCart(c)
    PROVE  BoutiqueInv'
  <1>. USE DEF BoutiqueInv
  <1>a. PICK u : u = run[c].user
    OBVIOUS
  <1>b. PICK x : x = run[c].item
    OBVIOUS
  <1>c. PICK cart : cart = Append(run[c].got, x)
    OBVIOUS
  <1>d. PICK raced : raced = Boutique!Marked(c, cart)
    OBVIOUS
  <1>0. run[c].at = "setCart" /\ HasCopy(c)
    BY DEF Boutique!SetCart, Boutique!At, HasCopy
  <1>1. run[c] \in CartRun /\ u \in Shopper /\ x \in Item /\ run[c].got \in Seq(Item)
    BY <1>a, <1>b, <1>0, CopyFacts DEF CartRun
  <1>2. /\ db' = [db EXCEPT !.cart = [db.cart EXCEPT ![u] = cart]]
        /\ run' = [run EXCEPT ![c] = Boutique!Idle]
        /\ log' = [log EXCEPT !.added = log.added \cup {x}, !.raced = raced]
    BY <1>a, <1>b, <1>c, <1>d DEF Boutique!SetCart, Boutique!End, Boutique!Goto
  <1>3. /\ run' = [d \in Client |-> run'[d]]
        /\ run'[c] = Boutique!Idle
        /\ \A d \in Client \ {c} :
              /\ run'[d] = run[d]
              /\ HasCopy(d)' = HasCopy(d) /\ Copied(d)' = Copied(d)
              /\ OnItsWay(d)' = OnItsWay(d) /\ Paid(d)' = Paid(d)
    BY <1>2, OthersStay
  <1>4. ~HasCopy(c)' /\ Copied(c)' = {} /\ OnItsWay(c)' = {} /\ ~Paid(c)' /\ ~Paid(c)
    BY <1>0, <1>3 DEF HasCopy, Copied, OnItsWay, Paid, Boutique!Ordering, Boutique!Idle
  <1>5. /\ cart \in Seq(Item)
        /\ Boutique!Range(cart) = Copied(c) \cup {x}
        /\ OnItsWay(c) = {x}
    <2>1. cart \in Seq(Item)
      BY <1>c, <1>1
    <2>2. PICK got \in Seq(Item) : got = run[c].got
      BY <1>1
    <2>3. Boutique!Range(cart) = Boutique!Range(got) \cup {x}
      BY <1>c, <1>1, <2>2, AppendedRange
    <2>4. Copied(c) = Boutique!Range(got)
      BY <1>0, <2>2 DEF Copied
    <2>. QED
      BY <1>b, <1>0, <2>1, <2>3, <2>4 DEF OnItsWay
  <1>6. /\ db' = [keys |-> db'.keys, products |-> db'.products, codes |-> db'.codes,
                  rates |-> db'.rates, cart |-> db'.cart, line |-> db'.line,
                  answered |-> db'.answered]
        /\ db'.cart = [db.cart EXCEPT ![u] = cart]
        /\ db'.cart \in [Shopper -> Seq(Item)]
        /\ InCart(u)' = Copied(c) \cup {x}
        /\ \A v \in Shopper \ {u} : InCart(v)' = InCart(v)
        /\ db'.line = db.line /\ db'.answered = db.answered
        /\ \A v \in Shopper : InCache(v)' = InCache(v)
    <2>1. /\ db' = [keys |-> db.keys, products |-> db.products, codes |-> db.codes,
                    rates |-> db.rates, cart |-> [db.cart EXCEPT ![u] = cart],
                    line |-> db.line, answered |-> db.answered]
          /\ db.cart \in [Shopper -> Seq(Item)]
      BY <1>2 DEF BoutiqueTypes
    <2>. QED
      BY <1>1, <1>5, <2>1 DEF InCart, InCache
  <1>7. /\ log' = [requests |-> log.requests, added |-> log.added \cup {x}, raced |-> raced,
                   charges |-> log.charges]
        /\ Charges' = Charges /\ \A i : Charged(i)' = Charged(i)
    <2>1. log' = [requests |-> log.requests, added |-> log.added \cup {x}, raced |-> raced,
                  charges |-> log.charges]
      BY <1>2 DEF BoutiqueTypes
    <2>. QED
      BY <2>1, ChargesStay
  <1>8. /\ log.raced \subseteq raced
        /\ \A d \in Client \ {c} : HasCopy(d) /\ run[d].user = u =>
              Copied(c) \cup {x} \subseteq raced
    BY <1>a, <1>d, <1>0, <1>5, MarkedFacts
  <1>9. BoutiqueTypes'
    <2>1. \A d \in Client : HasCopy(d)' => run'[d] \in CartRun \/ OrderRun(run'[d])
      BY <1>3, <1>4 DEF BoutiqueTypes
    <2>. QED
      BY <1>3, <1>6, <1>7, <2>1 DEF BoutiqueTypes, OrderRun, Charge
  <1>10. Numbered'
    <2>1. \A y \in Copied(c) \cup {x} : y.id \in 0..(log.requests - 1)
      BY <1>5 DEF Numbered
    <2>. QED
      BY <1>3, <1>4, <1>6, <1>7, <2>1 DEF Numbered
  <1>11. Apart'
    <2>1. ASSUME NEW y, NEW v \in Shopper, Near(y, v)' PROVE Near(y, v)
      <3>1. CASE y \in InCart(v)' \cup InCache(v)'
        <4>1. CASE v = u
          BY <1>a, <1>0, <1>5, <1>6, <3>1, <4>1 DEF Near
        <4>2. CASE v # u
          BY <1>6, <3>1, <4>2 DEF Near
        <4>. QED
          BY <4>1, <4>2
      <3>2. CASE y \notin InCart(v)' \cup InCache(v)'
        <4>1. PICK d \in Client : /\ HasCopy(d)' /\ run'[d].user = v
                                  /\ y \in Copied(d)' \cup OnItsWay(d)'
          BY <2>1, <3>2 DEF Near
        <4>. QED
          BY <1>3, <1>4, <4>1 DEF Near
      <3>. QED
        BY <3>1, <3>2
    <2>2. ASSUME NEW d \in Client, NEW y \in OnItsWay(d)'
          PROVE  /\ \A v \in Shopper : y \notin InCart(v)' \cup InCache(v)'
                 /\ \A e \in Client : y \notin Copied(e)'
                 /\ \A e \in Client \ {d} : y \notin OnItsWay(e)'
                 /\ \A i \in Charges : y \notin Charged(i)'
      <3>1. d # c /\ y \in OnItsWay(d)
        BY <1>3, <1>4, <2>2
      <3>2. /\ \A v \in Shopper : y \notin InCart(v) \cup InCache(v)
            /\ \A e \in Client : y \notin Copied(e)
            /\ \A e \in Client \ {d} : y \notin OnItsWay(e)
            /\ \A i \in Charges : y \notin Charged(i)
        BY <3>1 DEF Apart
      <3>3. y # x
        BY <1>5, <3>1, <3>2
      <3>. QED
        BY <1>3, <1>4, <1>6, <1>7, <3>2, <3>3
    <2>. QED
      BY <1>7, <2>1, <2>2 DEF Apart
  <1>12. CopiesComplete'
    <2>1. ASSUME NEW d \in Client, HasCopy(d)'
          PROVE  (InCart(run[d].user) \ log.raced \subseteq Copied(d))'
      <3>1. PICK v : v = run'[d].user
        OBVIOUS
      <3>2. d # c /\ HasCopy(d) /\ run[d].user = v /\ v \in Shopper
        BY <1>3, <1>4, <2>1, <3>1, CopyFacts
      <3>3. InCart(v)' \ raced \subseteq Copied(d)'
        <4>1. CASE v = u
          BY <1>6, <1>8, <3>2, <4>1
        <4>2. CASE v # u
          <5>1. InCart(v) \ log.raced \subseteq Copied(d)
            BY <3>2 DEF CopiesComplete
          <5>2. InCart(v)' = InCart(v) /\ Copied(d)' = Copied(d)
            BY <1>3, <1>6, <3>2, <4>2
          <5>. QED
            BY <1>8, <5>1, <5>2
        <4>. QED
          BY <4>1, <4>2
      <3>. QED
        BY <1>7, <3>1, <3>3
    <2>. QED
      BY <2>1 DEF CopiesComplete
  <1>13. ChargesHeld'
    BY <1>3, <1>4, <1>7 DEF ChargesHeld
  <1>14. ChargesApart'
    <2>1. ASSUME NEW i \in Charges, log.charges[i].emptied
          PROVE  /\ \A v \in Shopper : InCart(v)' \cap Charged(i) \subseteq raced
                 /\ \A d \in Client : Copied(d)' \cap Charged(i) \subseteq raced
      <3>1. /\ \A v \in Shopper : InCart(v) \cap Charged(i) \subseteq raced
            /\ \A d \in Client : Copied(d) \cap Charged(i) \subseteq raced
        BY <1>8, <2>1 DEF ChargesApart
      <3>2. x \notin Charged(i)
        BY <1>5 DEF Apart
      <3>. QED
        BY <1>3, <1>4, <1>6, <3>1, <3>2
    <2>2. \A i, j \in Charges : i < j /\ log.charges[i].of # "failed" =>
             Charged(i) \cap Charged(j) \subseteq raced
      BY <1>8 DEF ChargesApart
    <2>. QED
      BY <1>7, <2>1, <2>2 DEF ChargesApart
  <1>15. NothingLost'
    <2>1. ASSUME NEW y \in log.added \cup {x}, y \notin raced
          PROVE  \/ \E v \in Shopper : y \in InCart(v)'
                 \/ \E i \in Charges : y \in Charged(i)
      <3>1. CASE y = x
        BY <1>1, <1>6, <3>1
      <3>2. CASE y # x
        <4>1. y \in log.added \ log.raced
          BY <1>8, <2>1, <3>2
        <4>2. InCart(u) \ log.raced \subseteq Copied(c)
          BY <1>a, <1>0 DEF CopiesComplete
        <4>. QED
          BY <1>1, <1>6, <4>1, <4>2 DEF NothingLost
      <3>. QED
        BY <3>1, <3>2
    <2>. QED
      BY <1>7, <2>1 DEF NothingLost
  <1>. QED
    BY <1>9, <1>10, <1>11, <1>12, <1>13, <1>14, <1>15

\* The card is charged for what the order holds.
LEMMA CardCharged ==
    ASSUME BoutiqueInv, NEW c \in Client, run[c].at = "chargeCard", NEW new, NEW raced,
           new.of = c, new.items = run[c].got, new.emptied = FALSE, Charge(new),
           raced = Boutique!Marked(c, <<>>),
           run' = [run EXCEPT ![c] = [run[c] EXCEPT !.at = "shipOrder"]],
           log' = [log EXCEPT !.raced = raced, !.charges = Append(log.charges, new)],
           db' = db
    PROVE  BoutiqueInv'
  <1>. USE DEF BoutiqueInv
  <1>a. PICK m : m = Len(log.charges) + 1
    OBVIOUS
  <1>. DEFINE r == [run[c] EXCEPT !.at = "shipOrder"]
  <1>0. HasCopy(c) /\ OrderRun(run[c]) /\ run[c].user \in Shopper /\ ~Paid(c)
        /\ OnItsWay(c) = {} /\ Copied(c) = Boutique!Range(run[c].got)
    <2>1. HasCopy(c)
      BY DEF HasCopy, Boutique!Ordering
    <2>. QED
      BY <2>1, CopyFacts DEF Paid
  <1>1. /\ OrderRun(r) /\ r.at = "shipOrder" /\ r.user = run[c].user /\ r.got = run[c].got
    BY <1>0 DEF OrderRun, Boutique!Ordering
  <1>. HIDE DEF r
  <1>2. /\ run' = [d \in Client |-> run'[d]]
        /\ run'[c] = r
        /\ \A d \in Client \ {c} :
              /\ run'[d] = run[d]
              /\ HasCopy(d)' = HasCopy(d) /\ Copied(d)' = Copied(d)
              /\ OnItsWay(d)' = OnItsWay(d) /\ Paid(d)' = Paid(d)
    <2>1. run' = [run EXCEPT ![c] = r]
      BY DEF r
    <2>. QED
      BY <2>1, OthersStay
  <1>3. HasCopy(c)' /\ Copied(c)' = Copied(c) /\ OnItsWay(c)' = {} /\ Paid(c)'
    <2>1. HasCopy(c)' /\ OnItsWay(c)' = {} /\ Paid(c)'
      BY <1>1, <1>2 DEF HasCopy, OnItsWay, Paid, Boutique!Ordering
    <2>2. Copied(c)' = Boutique!Range(run'[c].got)
      BY <2>1 DEF Copied, Boutique!Range
    <2>. QED
      BY <1>0, <1>1, <1>2, <2>1, <2>2
  <1>4. log' = [requests |-> log.requests, added |-> log.added, raced |-> raced,
                charges |-> Append(log.charges, new)]
    BY DEF BoutiqueTypes
  <1>5. /\ Charges' = Charges \cup {m}
        /\ \A i \in Charges : i \in Nat /\ i < m
        /\ m \in Nat
        /\ log'.charges \in Seq(Boutique!Range(log'.charges))
        /\ \A i \in Charges : log'.charges[i] = log.charges[i] /\ Charged(i)' = Charged(i)
        /\ log'.charges[m] = new /\ Charged(m)' = Copied(c)
    <2>1. PICK s : s = log.charges /\ s \in Seq(Boutique!Range(s))
      BY DEF BoutiqueTypes
    <2>2. /\ Append(s, new) \in Seq(Boutique!Range(Append(s, new)))
          /\ Len(s) \in Nat /\ DOMAIN s = 1..Len(s)
          /\ DOMAIN Append(s, new) = 1..(Len(s) + 1)
          /\ \A i \in 1..Len(s) : Append(s, new)[i] = s[i]
          /\ Append(s, new)[Len(s) + 1] = new
      BY <2>1, OneMore
    <2>3. PICK t : t = Append(s, new)
      OBVIOUS
    <2>4. log'.charges = t
      BY <1>4, <2>1, <2>3
    <2>5. Charges = 1..Len(s) /\ Charges' = 1..(Len(s) + 1) /\ m = Len(s) + 1
      BY <1>a, <2>1, <2>2, <2>3, <2>4 DEF Charges
    <2>6. \A i \in Charges : log'.charges[i] = log.charges[i]
      BY <2>1, <2>2, <2>3, <2>4, <2>5
    <2>7. log'.charges[m] = new
      BY <2>2, <2>3, <2>4, <2>5
    <2>8. Charged(m)' = Copied(c)
      BY <1>0, <2>7 DEF Charged
    <2>9. \A i \in Charges : Charged(i)' = Charged(i)
      BY <2>6 DEF Charged
    <2>10. /\ Charges' = Charges \cup {m} /\ m \in Nat
           /\ \A i \in Charges : i \in Nat /\ i < m
      BY <2>2, <2>5
    <2>11. log'.charges \in Seq(Boutique!Range(log'.charges))
      BY <2>2, <2>3, <2>4
    <2>. QED
      BY <2>6, <2>7, <2>8, <2>9, <2>10, <2>11
  <1>6. /\ log.raced \subseteq raced
        /\ \A d \in Client \ {c} : HasCopy(d) /\ run[d].user = run[c].user =>
              Copied(c) \subseteq raced
    BY <1>0, MarkedFacts
  <1>7. \A u : InCart(u)' = InCart(u) /\ InCache(u)' = InCache(u)
    BY CartsStay DEF Carts
  <1>8. \A x, u : Near(x, u)' = Near(x, u)
    <2>1. ASSUME NEW d \in Client
          PROVE  /\ HasCopy(d)' = HasCopy(d) /\ Copied(d)' = Copied(d)
                 /\ OnItsWay(d)' = OnItsWay(d) /\ run'[d].user = run[d].user
      <3>1. CASE d = c
        <4>1. HasCopy(c)' = HasCopy(c)
          BY <1>0, <1>3
        <4>. QED
          BY <1>0, <1>1, <1>2, <1>3, <3>1, <4>1
      <3>2. CASE d # c
        BY <1>2, <3>2
      <3>. QED
        BY <3>1, <3>2
    <2>. QED
      BY <1>7, <2>1 DEF Near
  <1>9. BoutiqueTypes'
    <2>1. \A d \in Client : HasCopy(d)' => run'[d] \in CartRun \/ OrderRun(run'[d])
      BY <1>1, <1>2 DEF BoutiqueTypes
    <2>3. \A i \in Charges' : Charge(log'.charges[i])
      BY <1>5 DEF BoutiqueTypes, Charges
    <2>. QED
      BY <1>2, <1>4, <1>5, <2>1, <2>3 DEF BoutiqueTypes, OrderRun, Charge, Charges
  <1>10. \A i \in Charges' : i \in Charges \/ i = m
    BY <1>5
  <1>11. Numbered'
    <2>1. \A i \in Charges' : \A x \in Charged(i)' : x.id \in 0..(log.requests - 1)
      BY <1>5, <1>10 DEF Numbered
    <2>2. \A d \in Client : \A x \in Copied(d)' \cup OnItsWay(d)' :
             x.id \in 0..(log.requests - 1)
      BY <1>2, <1>3 DEF Numbered
    <2>. QED
      BY <1>4, <1>7, <2>1, <2>2 DEF Numbered
  <1>12. Apart'
    <2>1. ASSUME NEW d \in Client, NEW y \in OnItsWay(d)'
          PROVE  /\ \A v \in Shopper : y \notin InCart(v)' \cup InCache(v)'
                 /\ \A e \in Client : y \notin Copied(e)'
                 /\ \A e \in Client \ {d} : y \notin OnItsWay(e)'
                 /\ \A i \in Charges' : y \notin Charged(i)'
      <3>1. y \in OnItsWay(d)
        BY <1>2, <1>3, <2>1
      <3>2. /\ \A v \in Shopper : y \notin InCart(v) \cup InCache(v)
            /\ \A e \in Client : y \notin Copied(e)
            /\ \A e \in Client \ {d} : y \notin OnItsWay(e)
            /\ \A i \in Charges : y \notin Charged(i)
        BY <3>1 DEF Apart
      <3>. QED
        BY <1>2, <1>3, <1>5, <1>7, <1>10, <3>2
    <2>. QED
      BY <1>8, <2>1 DEF Apart
  <1>13. CopiesComplete'
    <2>1. ASSUME NEW d \in Client, HasCopy(d)'
          PROVE  (InCart(run[d].user) \ log.raced \subseteq Copied(d))'
      <3>1. PICK v : v = run'[d].user
        OBVIOUS
      <3>2. HasCopy(d) /\ run[d].user = v /\ Copied(d)' = Copied(d)
        BY <1>0, <1>1, <1>2, <1>3, <2>1, <3>1
      <3>3. InCart(v)' \ raced \subseteq Copied(d)'
        BY <1>6, <1>7, <3>2 DEF CopiesComplete
      <3>. QED
        BY <1>4, <3>1, <3>3
    <2>. QED
      BY <2>1 DEF CopiesComplete
  <1>14. ChargesHeld'
    <2>1. ASSUME NEW d \in Client, Paid(d)'
          PROVE  \E i \in Charges' : log'.charges[i].items = run'[d].got
      <3>1. CASE d = c
        <4>1. m \in Charges' /\ log'.charges[m] = new
          BY ONLY <1>5
        <4>2. new.items = run'[d].got
          BY <1>1, <1>2, <3>1
        <4>. QED
          BY ONLY <4>1, <4>2
      <3>2. CASE d # c
        <4>1. Paid(d) /\ run'[d] = run[d]
          BY <1>2, <2>1, <3>2
        <4>2. PICK i \in Charges : log.charges[i].items = run[d].got
          BY <4>1 DEF ChargesHeld
        <4>3. i \in Charges' /\ log'.charges[i].items = run'[d].got
          BY <1>5, <4>1, <4>2
        <4>. QED
          BY <4>3
      <3>. QED
        BY <3>1, <3>2
    <2>2. ASSUME NEW i \in Charges', NEW d \in Client,
                 log'.charges[i].of = d, ~log'.charges[i].emptied
          PROVE  Paid(d)' /\ log'.charges[i].items = run'[d].got
      <3>1. CASE i = m
        <4>1. d = c /\ log'.charges[i].items = run[c].got
          BY <1>5, <2>2, <3>1
        <4>. QED
          BY <1>1, <1>2, <1>3, <4>1
      <3>2. CASE i \in Charges
        <4>1. log'.charges[i] = log.charges[i]
          BY <1>5, <3>2
        <4>2. Paid(d) /\ log.charges[i].items = run[d].got
          BY <2>2, <3>2, <4>1 DEF ChargesHeld
        <4>3. d # c
          BY <1>0, <4>2
        <4>. QED
          BY <1>2, <4>1, <4>2, <4>3
      <3>. QED
        BY <1>10, <3>1, <3>2
    <2>3. \A i \in Charges' : log'.charges[i].emptied => log'.charges[i].of # "failed"
      BY <1>5, <1>10 DEF ChargesHeld
    <2>. QED
      BY <2>1, <2>2, <2>3 DEF ChargesHeld
  <1>15. ChargesApart'
    <2>1. ASSUME NEW i \in Charges', log'.charges[i].emptied
          PROVE  /\ \A v \in Shopper : InCart(v)' \cap Charged(i)' \subseteq raced
                 /\ \A d \in Client : Copied(d)' \cap Charged(i)' \subseteq raced
      <3>1. i \in Charges
        BY <1>5, <1>10, <2>1
      <3>2. log.charges[i].emptied /\ Charged(i)' = Charged(i)
        BY <1>5, <2>1, <3>1
      <3>. QED
        BY <1>2, <1>3, <1>6, <1>7, <3>1, <3>2 DEF ChargesApart
    <2>2. ASSUME NEW i \in Charges, log.charges[i].of # "failed"
          PROVE  Charged(i) \cap Copied(c) \subseteq raced
      <3>1. CASE log.charges[i].emptied
        BY <1>6, <3>1 DEF ChargesApart
      <3>2. CASE ~log.charges[i].emptied
        <4>1. PICK d \in Client : log.charges[i].of = d
          BY <2>2 DEF BoutiqueTypes, Charges, Charge
        <4>2. Paid(d) /\ log.charges[i].items = run[d].got
          BY <3>2, <4>1 DEF ChargesHeld
        <4>3. HasCopy(d) /\ d # c
          BY <1>0, <4>2 DEF Paid, HasCopy, Boutique!Ordering
        <4>4. Charged(i) = Copied(d) /\ run[d].user \in Shopper
          BY <4>2, <4>3, CopyFacts DEF Charged
        <4>5. CASE run[d].user = run[c].user
          BY <1>6, <4>3, <4>5
        <4>6. CASE run[d].user # run[c].user
          <5>1. ASSUME NEW x \in Copied(d), x \in Copied(c) PROVE FALSE
            <6>1. Near(x, run[d].user) /\ Near(x, run[c].user)
              BY <1>0, <4>3, <5>1 DEF Near
            <6>. QED
              BY <1>0, <4>4, <4>6, <6>1 DEF Apart
          <5>. QED
            BY <4>4, <5>1
        <4>. QED
          BY <4>5, <4>6
      <3>. QED
        BY <3>1, <3>2
    <2>3. ASSUME NEW i \in Charges', NEW j \in Charges', i < j, log'.charges[i].of # "failed"
          PROVE  Charged(i)' \cap Charged(j)' \subseteq raced
      <3>1. i \in Charges
        BY <1>5, <2>3
      <3>2. log.charges[i].of # "failed" /\ Charged(i)' = Charged(i)
        BY <1>5, <2>3, <3>1
      <3>3. CASE j = m
        BY <1>5, <2>2, <3>1, <3>2, <3>3
      <3>4. CASE j \in Charges
        BY <1>5, <1>6, <2>3, <3>1, <3>2, <3>4 DEF ChargesApart
      <3>. QED
        BY <1>10, <3>3, <3>4
    <2>. QED
      BY <1>4, <2>1, <2>3 DEF ChargesApart
  <1>16. NothingLost'
    <2>1. \A i \in Charges : i \in Charges' /\ Charged(i)' = Charged(i)
      BY <1>5
    <2>. QED
      BY <1>4, <1>6, <1>7, <2>1 DEF NothingLost
  <1>. QED
    BY <1>9, <1>11, <1>12, <1>13, <1>14, <1>15, <1>16

\* The order is over: its cart is empty, and its charge known to be.
LEMMA CartEmptied ==
    ASSUME BoutiqueInv, NEW c \in Client, Boutique!EmptyCart(c)
    PROVE  BoutiqueInv'
  <1>. USE DEF BoutiqueInv
  <1>a. PICK u : u = run[c].user
    OBVIOUS
  <1>b. PICK raced : raced = Boutique!Marked(c, <<>>)
    OBVIOUS
  <1>0. /\ run[c].at = "emptyCart" /\ HasCopy(c) /\ Paid(c) /\ u \in Shopper
        /\ Copied(c) = Boutique!Range(run[c].got)
    <2>1. run[c].at = "emptyCart" /\ HasCopy(c) /\ Paid(c)
      BY DEF Boutique!EmptyCart, Boutique!At, HasCopy, Paid, Boutique!Ordering
    <2>. QED
      BY <1>a, <2>1, CopyFacts
  <1>1. PICK charges :
           charges = [i \in Charges |->
                         IF log.charges[i].of = c THEN [log.charges[i] EXCEPT !.emptied = TRUE]
                         ELSE log.charges[i]]
    OBVIOUS
  <1>2. /\ db' = [db EXCEPT !.cart = [db.cart EXCEPT ![u] = <<>>]]
        /\ run' = [run EXCEPT ![c] = Boutique!Idle]
        /\ log' = [log EXCEPT !.raced = raced, !.charges = charges]
    BY <1>a, <1>b, <1>1 DEF Boutique!EmptyCart, Boutique!End, Boutique!Goto, Charges
  <1>3. /\ run' = [d \in Client |-> run'[d]]
        /\ run'[c] = Boutique!Idle
        /\ \A d \in Client \ {c} :
              /\ run'[d] = run[d]
              /\ HasCopy(d)' = HasCopy(d) /\ Copied(d)' = Copied(d)
              /\ OnItsWay(d)' = OnItsWay(d) /\ Paid(d)' = Paid(d)
    BY <1>2, OthersStay
  <1>4. ~HasCopy(c)' /\ Copied(c)' = {} /\ OnItsWay(c)' = {} /\ ~Paid(c)'
    BY <1>3 DEF HasCopy, Copied, OnItsWay, Paid, Boutique!Ordering, Boutique!Idle
  <1>5. /\ db' = [keys |-> db'.keys, products |-> db'.products, codes |-> db'.codes,
                  rates |-> db'.rates, cart |-> db'.cart, line |-> db'.line,
                  answered |-> db'.answered]
        /\ db'.cart \in [Shopper -> Seq(Item)]
        /\ InCart(u)' = {}
        /\ \A v \in Shopper \ {u} : InCart(v)' = InCart(v)
        /\ db'.line = db.line /\ db'.answered = db.answered
        /\ \A v \in Shopper : InCache(v)' = InCache(v)
    <2>1. /\ db' = [keys |-> db.keys, products |-> db.products, codes |-> db.codes,
                    rates |-> db.rates, cart |-> [db.cart EXCEPT ![u] = <<>>],
                    line |-> db.line, answered |-> db.answered]
          /\ db.cart \in [Shopper -> Seq(Item)]
      BY <1>2 DEF BoutiqueTypes
    <2>2. <<>> \in Seq(Item) /\ Boutique!Range(<<>>) = {}
      BY DEF Boutique!Range
    <2>. QED
      BY <1>0, <2>1, <2>2 DEF InCart, InCache
  <1>6. /\ log' = [requests |-> log.requests, added |-> log.added, raced |-> raced,
                   charges |-> charges]
    BY <1>2 DEF BoutiqueTypes
  <1>7. /\ Charges' = Charges
        /\ log'.charges \in Seq(Boutique!Range(log'.charges))
    <2>1. PICK s : s = log.charges /\ s \in Seq(Boutique!Range(s))
      BY DEF BoutiqueTypes
    <2>2. charges = [i \in DOMAIN s |-> charges[i]]
      BY <1>1, <2>1 DEF Charges
    <2>3. charges \in Seq(Boutique!Range(charges))
      BY <2>1, <2>2, Rewritten
    <2>. QED
      BY <1>1, <1>6, <2>3 DEF Charges
  <1>8. ASSUME NEW i \in Charges
        PROVE  /\ Charge(log'.charges[i])
               /\ log'.charges[i].of = log.charges[i].of
               /\ log'.charges[i].items = log.charges[i].items
               /\ log'.charges[i].emptied = (log.charges[i].emptied \/ log.charges[i].of = c)
               /\ Charged(i)' = Charged(i)
    <2>1. PICK x : x = log.charges[i] /\ Charge(x)
      BY DEF BoutiqueTypes, Charges
    <2>2. log'.charges[i] = IF x.of = c THEN [x EXCEPT !.emptied = TRUE] ELSE x
      BY <1>1, <1>6, <2>1
    <2>3. /\ Charge(log'.charges[i])
          /\ log'.charges[i].of = x.of
          /\ log'.charges[i].items = x.items
          /\ log'.charges[i].emptied = (x.emptied \/ x.of = c)
      <3>1. CASE x.of = c
        BY <2>1, <2>2, <3>1 DEF Charge
      <3>2. CASE x.of # c
        BY <2>1, <2>2, <3>2 DEF Charge
      <3>. QED
        BY <3>1, <3>2
    <2>. QED
      BY <2>1, <2>3 DEF Charged
  <1>9. /\ log.raced \subseteq raced
        /\ \A d \in Client \ {c} : HasCopy(d) /\ run[d].user = u => Copied(d) \subseteq raced
    BY <1>a, <1>b, <1>0, MarkedFacts
  <1>10. BoutiqueTypes'
    <2>1. \A d \in Client : HasCopy(d)' => run'[d] \in CartRun \/ OrderRun(run'[d])
      BY <1>3, <1>4 DEF BoutiqueTypes
    <2>2. \A i \in DOMAIN log'.charges : Charge(log'.charges[i])
      BY <1>7, <1>8 DEF Charges
    <2>. QED
      BY <1>3, <1>5, <1>6, <1>7, <2>1, <2>2 DEF BoutiqueTypes, OrderRun, Charge
  <1>11. Numbered'
    BY <1>0, <1>3, <1>4, <1>5, <1>6, <1>7, <1>8 DEF Numbered
  <1>12. Apart'
    <2>1. ASSUME NEW y, NEW v \in Shopper, Near(y, v)' PROVE Near(y, v)
      <3>1. CASE y \in InCart(v)' \cup InCache(v)'
        BY <1>0, <1>5, <3>1 DEF Near
      <3>2. CASE y \notin InCart(v)' \cup InCache(v)'
        <4>1. PICK d \in Client : /\ HasCopy(d)' /\ run'[d].user = v
                                  /\ y \in Copied(d)' \cup OnItsWay(d)'
          BY <2>1, <3>2 DEF Near
        <4>. QED
          BY <1>3, <1>4, <4>1 DEF Near
      <3>. QED
        BY <3>1, <3>2
    <2>2. \A d \in Client : Copied(d)' \subseteq Copied(d) /\ OnItsWay(d)' \subseteq OnItsWay(d)
      BY <1>3, <1>4
    <2>3. \A v \in Shopper : InCart(v)' \subseteq InCart(v) /\ InCache(v)' = InCache(v)
      BY <1>5
    <2>. QED
      BY <1>7, <1>8, <2>1, <2>2, <2>3 DEF Apart
  <1>13. CopiesComplete'
    <2>1. ASSUME NEW d \in Client, HasCopy(d)'
          PROVE  (InCart(run[d].user) \ log.raced \subseteq Copied(d))'
      <3>1. PICK v : v = run'[d].user
        OBVIOUS
      <3>2. d # c /\ HasCopy(d) /\ run[d].user = v /\ v \in Shopper
        BY <1>3, <1>4, <2>1, <3>1, CopyFacts
      <3>3. InCart(v)' \ raced \subseteq Copied(d)'
        <4>1. CASE v = u
          BY <1>5, <4>1
        <4>2. CASE v # u
          BY <1>3, <1>5, <1>9, <3>2, <4>2 DEF CopiesComplete
        <4>. QED
          BY <4>1, <4>2
      <3>. QED
        BY <1>6, <3>1, <3>3
    <2>. QED
      BY <2>1 DEF CopiesComplete
  <1>14. ChargesHeld'
    <2>1. ASSUME NEW d \in Client, Paid(d)'
          PROVE  \E i \in Charges' : log'.charges[i].items = run'[d].got
      <3>1. Paid(d) /\ run'[d] = run[d]
        BY <1>3, <1>4, <2>1
      <3>2. PICK i \in Charges : log.charges[i].items = run[d].got
        BY <3>1 DEF ChargesHeld
      <3>. QED
        BY <1>7, <1>8, <3>1, <3>2
    <2>2. ASSUME NEW i \in Charges', NEW d \in Client,
                 log'.charges[i].of = d, ~log'.charges[i].emptied
          PROVE  Paid(d)' /\ log'.charges[i].items = run'[d].got
      <3>1. i \in Charges /\ log.charges[i].of = d /\ ~log.charges[i].emptied /\ d # c
        BY <1>7, <1>8, <2>2
      <3>2. Paid(d) /\ log.charges[i].items = run[d].got
        BY <3>1 DEF ChargesHeld
      <3>. QED
        BY <1>3, <1>8, <3>1, <3>2
    <2>3. ASSUME NEW i \in Charges, log'.charges[i].emptied PROVE log.charges[i].of # "failed"
      <3>1. CASE log.charges[i].emptied
        BY <3>1 DEF ChargesHeld
      <3>2. CASE log.charges[i].of = c
        BY <3>2, ClientAssumption
      <3>. QED
        BY <1>8, <2>3, <3>1, <3>2
    <2>4. \A i \in Charges' : log'.charges[i].emptied => log'.charges[i].of # "failed"
      BY <1>7, <1>8, <2>3
    <2>. QED
      BY <2>1, <2>2, <2>4 DEF ChargesHeld
  <1>15. ChargesApart'
    <2>1. ASSUME NEW i \in Charges, log'.charges[i].emptied
          PROVE  /\ \A v \in Shopper : InCart(v)' \cap Charged(i) \subseteq raced
                 /\ \A d \in Client : Copied(d)' \cap Charged(i) \subseteq raced
      <3>1. CASE log.charges[i].emptied
        BY <1>3, <1>4, <1>5, <1>9, <3>1 DEF ChargesApart
      <3>2. CASE ~log.charges[i].emptied
        <4>1. log.charges[i].of = c
          BY <1>8, <2>1, <3>2
        <4>2. Charged(i) = Copied(c)
          BY <1>0, <3>2, <4>1 DEF ChargesHeld, Charged
        <4>3. \A x \in Copied(c) : Near(x, u)
          BY <1>a, <1>0 DEF Near
        <4>4. ASSUME NEW v \in Shopper PROVE InCart(v)' \cap Charged(i) \subseteq raced
          <5>1. CASE v = u
            BY <1>5, <5>1
          <5>2. CASE v # u
            <6>1. \A x \in InCart(v)' : Near(x, v)
              BY <1>5, <5>2 DEF Near
            <6>. QED
              BY <1>0, <4>2, <4>3, <5>2, <6>1 DEF Apart
          <5>. QED
            BY <5>1, <5>2
        <4>5. ASSUME NEW d \in Client PROVE Copied(d)' \cap Charged(i) \subseteq raced
          <5>1. CASE d = c \/ ~HasCopy(d)
            BY <1>3, <1>4, <5>1 DEF Copied
          <5>2. CASE d # c /\ HasCopy(d) /\ run[d].user = u
            BY <1>3, <1>9, <5>2
          <5>3. CASE d # c /\ HasCopy(d) /\ run[d].user # u
            <6>1. run[d].user \in Shopper
              BY <5>3, CopyFacts
            <6>2. \A x \in Copied(d) : Near(x, run[d].user)
              BY <5>3 DEF Near
            <6>. QED
              BY <1>0, <1>3, <4>2, <4>3, <5>3, <6>1, <6>2 DEF Apart
          <5>. QED
            BY <5>1, <5>2, <5>3
        <4>. QED
          BY <4>4, <4>5
      <3>. QED
        BY <3>1, <3>2
    <2>2. ASSUME NEW i \in Charges, NEW j \in Charges, i < j, log'.charges[i].of # "failed"
          PROVE  Charged(i) \cap Charged(j) \subseteq raced
      BY <1>8, <1>9, <2>2 DEF ChargesApart
    <2>3. ASSUME NEW i \in Charges', log'.charges[i].emptied
          PROVE  (/\ \A v \in Shopper : InCart(v) \cap Charged(i) \subseteq log.raced
                  /\ \A d \in Client : Copied(d) \cap Charged(i) \subseteq log.raced)'
      BY <1>6, <1>7, <1>8, <2>1, <2>3
    <2>4. ASSUME NEW i \in Charges', NEW j \in Charges', i < j, log'.charges[i].of # "failed"
          PROVE  (Charged(i) \cap Charged(j) \subseteq log.raced)'
      BY <1>6, <1>7, <1>8, <2>2, <2>4
    <2>. QED
      BY <2>3, <2>4 DEF ChargesApart
  <1>16. NothingLost'
    <2>1. ASSUME NEW y \in log.added, y \notin raced
          PROVE  \/ \E v \in Shopper : y \in InCart(v)'
                 \/ \E i \in Charges : y \in Charged(i)
      <3>1. \/ \E v \in Shopper : y \in InCart(v)
            \/ \E i \in Charges : y \in Charged(i)
        BY <1>9, <2>1 DEF NothingLost
      <3>2. CASE y \in InCart(u)
        <4>1. y \in Copied(c)
          BY <1>a, <1>0, <1>9, <2>1, <3>2 DEF CopiesComplete
        <4>2. PICK i \in Charges : log.charges[i].items = run[c].got
          BY <1>0 DEF ChargesHeld
        <4>. QED
          BY <1>0, <4>1, <4>2 DEF Charged
      <3>. QED
        BY <1>5, <3>1, <3>2
    <2>. QED
      BY <1>6, <1>7, <1>8, <2>1 DEF NothingLost
  <1>. QED
    BY <1>10, <1>11, <1>12, <1>13, <1>14, <1>15, <1>16

\* The same, of a step that charges nobody: db may change, but for its carts.
LEMMA WentOn ==
    ASSUME BoutiqueInv, NEW c \in Client, NEW r, run' = [run EXCEPT ![c] = r],
           \/ r.at \notin Boutique!Ordering \cup {"setCart"}
           \/ /\ OrderRun(r) /\ OrderRun(run[c])
              /\ r.user = run[c].user /\ r.got = run[c].got,
           Paid(c) <=> r.at \in {"shipOrder", "emptyCart"},
           NEW keys, NEW products,
           db' = [db EXCEPT !.keys = keys, !.products = products],
           log' = log \/ log' = Boutique!Counted
    PROVE  BoutiqueInv'
  <1>1. BoutiqueTypes /\ log.requests \in Nat
    BY DEF BoutiqueInv, BoutiqueTypes
  <1>2. /\ db' = [keys |-> db'.keys, products |-> db'.products, codes |-> db'.codes,
                  rates |-> db'.rates, cart |-> db'.cart, line |-> db'.line,
                  answered |-> db'.answered]
        /\ Carts' = Carts
    BY <1>1 DEF BoutiqueTypes, Carts
  <1>3. /\ log' = [requests |-> log'.requests, added |-> log'.added, raced |-> log'.raced,
                   charges |-> log'.charges]
        /\ log'.requests \in {log.requests, log.requests + 1}
        /\ log'.added = log.added /\ log'.raced = log.raced /\ log'.charges = log.charges
    BY <1>1 DEF BoutiqueTypes, Boutique!Counted
  <1>4. /\ log'.charges \in Seq(Boutique!Range(log'.charges))
        /\ \A i \in Charges : Charge(log'.charges[i])
    BY <1>1, <1>3 DEF BoutiqueTypes, Charges
  <1>5. Charges' = Charges
    BY <1>3 DEF Charges
  <1>. QED
    BY <1>2, <1>3, <1>4, <1>5, Moved

\* Where the requests are that hold no copy of a cart.
Elsewhere == {"idle", "listProducts", "storeProducts", "readCurrencies", "readCatalog", "search",
              "recommend"}

LEMMA OthersWentOn ==
    ASSUME BoutiqueInv, NEW c \in Client,
           \/ Boutique!AddProduct(c) \/ Boutique!AddProducts(c)
           \/ Boutique!ListProducts(c) \/ Boutique!StoreProducts(c)
           \/ Boutique!Home(c) \/ Boutique!SearchProducts(c) \/ Boutique!Reads(c)
           \/ Boutique!GetRecommendations(c) \/ Boutique!Recommend(c)
    PROVE  BoutiqueInv'
  <1>1. db = [db EXCEPT !.keys = db.keys, !.products = db.products]
    BY DEF BoutiqueInv, BoutiqueTypes
  <1>2. ASSUME run[c].at \in Elsewhere, NEW r, run' = [run EXCEPT ![c] = r], r.at \in Elsewhere,
               NEW keys, NEW products, db' = [db EXCEPT !.keys = keys, !.products = products],
               log' = log \/ log' = Boutique!Counted
        PROVE  BoutiqueInv'
    <2>1. r.at \notin Boutique!Ordering \cup {"setCart"} /\ r.at \notin {"shipOrder", "emptyCart"}
      BY <1>2 DEF Elsewhere, Boutique!Ordering
    <2>2. ~Paid(c)
      BY <1>2 DEF Elsewhere, Paid
    <2>. QED
      BY <1>2, <2>1, <2>2, WentOn
  <1>3. ASSUME NEW r, r.at \in Elsewhere, Boutique!Begin(c, r), db' = db, log' = Boutique!Counted
        PROVE  BoutiqueInv'
    <2>1. run[c].at \in Elsewhere /\ run' = [run EXCEPT ![c] = r]
      BY <1>3 DEF Boutique!Begin, Boutique!At, Boutique!Goto, Elsewhere
    <2>. QED
      BY <1>1, <1>2, <1>3, <2>1
  <1>4. ASSUME run[c].at \in Elsewhere, Boutique!End(c), log' = log,
               NEW keys, NEW products, db' = [db EXCEPT !.keys = keys, !.products = products]
        PROVE  BoutiqueInv'
    <2>1. run' = [run EXCEPT ![c] = Boutique!Idle] /\ Boutique!Idle.at \in Elsewhere
      BY <1>4 DEF Boutique!End, Boutique!Goto, Boutique!Idle, Elsewhere
    <2>. QED
      BY <1>2, <1>4, <2>1
  <1>5. CASE Boutique!AddProduct(c)
    <2>1. PICK p, got, r :
             /\ r = [at |-> "listProducts", products |-> <<p>>, most |-> BoutiqueRequests + 1,
                     got |-> got]
             /\ Boutique!Begin(c, r)
      BY <1>5, Zenon DEF Boutique!AddProduct
    <2>2. r.at \in Elsewhere
      BY <2>1 DEF Elsewhere
    <2>. QED
      BY <1>3, <1>5, <2>1, <2>2 DEF Boutique!AddProduct
  <1>6. CASE Boutique!AddProducts(c)
    <2>1. PICK products, most, got, r :
             /\ r = [at |-> "listProducts", products |-> products, most |-> most, got |-> got]
             /\ Boutique!Begin(c, r)
      BY <1>6, Zenon DEF Boutique!AddProducts
    <2>2. r.at \in Elsewhere
      BY <2>1 DEF Elsewhere
    <2>. QED
      BY <1>3, <1>6, <2>1, <2>2 DEF Boutique!AddProducts
  <1>7. CASE Boutique!ListProducts(c)
    <2>1. PICK most, listed, r :
             /\ db' = IF most <= 0 THEN db ELSE [db EXCEPT !.keys = listed]
             /\ r = [at |-> "storeProducts", products |-> run[c].products]
             /\ Boutique!Goto(c, r)
      BY <1>7, Zenon DEF Boutique!ListProducts
    <2>2. [db EXCEPT !.keys = listed] = [db EXCEPT !.keys = listed, !.products = db.products]
      BY DEF BoutiqueInv, BoutiqueTypes
    <2>3. PICK keys : db' = [db EXCEPT !.keys = keys, !.products = db.products]
      BY <1>1, <2>1, <2>2
    <2>4. run[c].at \in Elsewhere /\ r.at \in Elsewhere /\ run' = [run EXCEPT ![c] = r]
      BY <1>7, <2>1 DEF Boutique!ListProducts, Boutique!At, Boutique!Goto, Elsewhere
    <2>. QED
      BY <1>2, <1>7, <2>3, <2>4 DEF Boutique!ListProducts
  <1>8. CASE Boutique!StoreProducts(c)
    <2>1. PICK products : db' = [db EXCEPT !.products = products]
      BY <1>8 DEF Boutique!StoreProducts
    <2>2. [db EXCEPT !.products = products] = [db EXCEPT !.keys = db.keys, !.products = products]
      BY DEF BoutiqueInv, BoutiqueTypes
    <2>3. run[c].at \in Elsewhere
      BY <1>8 DEF Boutique!StoreProducts, Boutique!At, Elsewhere
    <2>. QED
      BY <1>4, <1>8, <2>1, <2>2, <2>3 DEF Boutique!StoreProducts
  <1>9. CASE Boutique!Home(c) \/ Boutique!SearchProducts(c) \/ Boutique!GetRecommendations(c)
    <2>1. PICK r : r.at \in Elsewhere /\ Boutique!Begin(c, r)
      <3>1. CASE Boutique!Home(c)
        <4>1. [at |-> "readCurrencies"].at \in Elsewhere
          BY DEF Elsewhere
        <4>. QED
          BY <3>1, <4>1, Zenon DEF Boutique!Home
      <3>2. CASE Boutique!SearchProducts(c)
        <4>1. [at |-> "search", got |-> db.keys].at \in Elsewhere
          BY DEF Elsewhere
        <4>. QED
          BY <3>2, <4>1, Zenon DEF Boutique!SearchProducts
      <3>3. CASE Boutique!GetRecommendations(c)
        <4>1. \A S : [at |-> "recommend", given |-> S].at \in Elsewhere
          BY DEF Elsewhere
        <4>. QED
          BY <3>3, <4>1, Zenon DEF Boutique!GetRecommendations
      <3>. QED
        BY <1>9, <3>1, <3>2, <3>3
    <2>. QED
      BY <1>3, <1>9, <2>1 DEF Boutique!Home, Boutique!SearchProducts, Boutique!GetRecommendations
  <1>10. CASE Boutique!Reads(c) \/ Boutique!Recommend(c)
    <2>1. db' = db /\ log' = log /\ run[c].at \in Elsewhere
      BY <1>10 DEF Boutique!Reads, Boutique!Recommend, Boutique!At, Elsewhere
    <2>2. CASE Boutique!End(c)
      BY <1>1, <1>4, <2>1, <2>2
    <2>3. CASE ~Boutique!End(c)
      <3>1. PICK r : r = [at |-> "readCatalog"]
        OBVIOUS
      <3>2. run' = [run EXCEPT ![c] = r] /\ r.at \in Elsewhere
        BY <1>10, <2>3, <3>1
           DEF Boutique!Reads, Boutique!Recommend, Boutique!End, Boutique!Goto, Elsewhere
      <3>. QED
        BY <1>1, <1>2, <2>1, <3>2
    <2>. QED
      BY <2>2, <2>3
  <1>. QED
    BY <1>5, <1>6, <1>7, <1>8, <1>9, <1>10

\* The steps of an order that neither charge nor empty.
LEMMA OrderWentOn ==
    ASSUME BoutiqueInv, NEW c \in Client,
           \/ Boutique!GetProduct(c) \/ Boutique!ConvertPrice(c) \/ Boutique!QuoteShipping(c)
           \/ Boutique!ShipOrder(c)
           \/ Boutique!ChargeCard(c) /\ Boutique!End(c) /\ log' = log
    PROVE  BoutiqueInv'
  <1>1. db = [db EXCEPT !.keys = db.keys, !.products = db.products]
    BY DEF BoutiqueInv, BoutiqueTypes
  <1>2. db' = db /\ log' = log /\ run[c].at \in Boutique!Ordering
    BY DEF Boutique!GetProduct, Boutique!ConvertPrice, Boutique!QuoteShipping,
           Boutique!ShipOrder, Boutique!ChargeCard, Boutique!At, Boutique!Ordering
  <1>3. PICK s : s = run[c] /\ OrderRun(s)
    <2>1. BoutiqueTypes /\ HasCopy(c) /\ run[c].at # "setCart"
      BY <1>2 DEF BoutiqueInv, HasCopy, Boutique!Ordering
    <2>. QED
      BY <2>1, CopyFacts
  <1>4. ASSUME NEW r, run' = [run EXCEPT ![c] = r], OrderRun(r), r.user = s.user, r.got = s.got,
               s.at \in {"shipOrder", "emptyCart"} <=> r.at \in {"shipOrder", "emptyCart"}
        PROVE  BoutiqueInv'
    <2>1. Paid(c) <=> r.at \in {"shipOrder", "emptyCart"}
      BY <1>3, <1>4 DEF Paid
    <2>. QED
      BY <1>1, <1>2, <1>3, <1>4, <2>1, WentOn
  <1>5. ASSUME run' = [run EXCEPT ![c] = Boutique!Idle], s.at \notin {"shipOrder", "emptyCart"}
        PROVE  BoutiqueInv'
    <2>1. PICK r : r = Boutique!Idle
      OBVIOUS
    <2>2. /\ Paid(c) <=> r.at \in {"shipOrder", "emptyCart"}
          /\ r.at \notin Boutique!Ordering \cup {"setCart"}
      BY <1>3, <1>5, <2>1 DEF Paid, Boutique!Idle, Boutique!Ordering
    <2>. QED
      BY <1>1, <1>2, <1>5, <2>1, <2>2, WentOn
  <1>6. CASE Boutique!GetProduct(c)
    <2>1. s.at = "getProduct"
      BY <1>3, <1>6 DEF Boutique!GetProduct, Boutique!At
    <2>2. PICK quoting : quoting = [s EXCEPT !.at = "quoteShipping"]
      OBVIOUS
    <2>3. PICK converting : converting = [s EXCEPT !.at = "convert"]
      OBVIOUS
    <2>4. \/ run' = [run EXCEPT ![c] = quoting] \/ run' = [run EXCEPT ![c] = converting]
          \/ run' = [run EXCEPT ![c] = Boutique!Idle]
      BY <1>3, <1>6, <2>2, <2>3 DEF Boutique!GetProduct, Boutique!Goto
    <2>5. /\ OrderRun(quoting) /\ quoting.user = s.user /\ quoting.got = s.got
          /\ OrderRun(converting) /\ converting.user = s.user /\ converting.got = s.got
          /\ quoting.at = "quoteShipping" /\ converting.at = "convert"
      BY <1>3, <2>2, <2>3 DEF OrderRun, Boutique!Ordering
    <2>. QED
      BY <1>4, <1>5, <2>1, <2>4, <2>5
  <1>7. CASE Boutique!ConvertPrice(c)
    <2>1. s.at = "convert"
      BY <1>3, <1>7 DEF Boutique!ConvertPrice, Boutique!At
    <2>2. PICK costs, r :
             /\ r = [s EXCEPT !.at = "getProduct", !.costs = costs]
             /\ run' = [run EXCEPT ![c] = IF Boutique!Convertible(c) THEN r ELSE Boutique!Idle]
      BY <1>3, <1>7, Zenon DEF Boutique!ConvertPrice, Boutique!Goto
    <2>3. OrderRun(r) /\ r.user = s.user /\ r.got = s.got /\ r.at = "getProduct"
      BY <1>3, <2>2 DEF OrderRun, Boutique!Ordering
    <2>4. run' = [run EXCEPT ![c] = r] \/ run' = [run EXCEPT ![c] = Boutique!Idle]
      BY <2>2
    <2>. QED
      BY <1>4, <1>5, <2>1, <2>3, <2>4
  <1>8. CASE Boutique!QuoteShipping(c)
    <2>1. s.at = "quoteShipping"
      BY <1>3, <1>8 DEF Boutique!QuoteShipping, Boutique!At
    <2>2. PICK quote, r :
             /\ r = [s EXCEPT !.at = "chargeCard", !.shipping = quote]
             /\ run' = [run EXCEPT ![c] = IF Boutique!Convertible(c) THEN r ELSE Boutique!Idle]
      BY <1>3, <1>8, Zenon DEF Boutique!QuoteShipping, Boutique!Goto
    <2>3. OrderRun(r) /\ r.user = s.user /\ r.got = s.got /\ r.at = "chargeCard"
      BY <1>3, <2>2 DEF OrderRun, Boutique!Ordering
    <2>4. run' = [run EXCEPT ![c] = r] \/ run' = [run EXCEPT ![c] = Boutique!Idle]
      BY <2>2
    <2>. QED
      BY <1>4, <1>5, <2>1, <2>3, <2>4
  <1>9. CASE Boutique!ShipOrder(c)
    <2>1. PICK r : r = [s EXCEPT !.at = "emptyCart"]
      OBVIOUS
    <2>2. run' = [run EXCEPT ![c] = r] /\ s.at = "shipOrder"
      BY <1>3, <1>9, <2>1 DEF Boutique!ShipOrder, Boutique!Goto, Boutique!At
    <2>3. OrderRun(r) /\ r.user = s.user /\ r.got = s.got /\ r.at = "emptyCart"
      BY <1>3, <2>1 DEF OrderRun, Boutique!Ordering
    <2>. QED
      BY <1>4, <2>2, <2>3
  <1>10. CASE Boutique!ChargeCard(c) /\ Boutique!End(c)
    <2>1. run' = [run EXCEPT ![c] = Boutique!Idle] /\ s.at = "chargeCard"
      BY <1>3, <1>10 DEF Boutique!ChargeCard, Boutique!Goto, Boutique!At, Boutique!End
    <2>. QED
      BY <1>5, <2>1
  <1>. QED
    BY <1>6, <1>7, <1>8, <1>9, <1>10

\* What an order charged that fails stays charged.
LEMMA OrderFailed ==
    ASSUME BoutiqueInv, NEW c \in Client, Boutique!OrderFails(c)
    PROVE  BoutiqueInv'
  <1>1. BoutiqueTypes
    BY DEF BoutiqueInv
  <1>2. PICK charges :
           charges = [i \in Charges |->
                         IF log.charges[i].of = c /\ ~log.charges[i].emptied
                         THEN [log.charges[i] EXCEPT !.of = "failed"] ELSE log.charges[i]]
    OBVIOUS
  <1>3. /\ db' = db
        /\ run' = [run EXCEPT ![c] = Boutique!Idle]
        /\ log' = [log EXCEPT !.charges = charges]
    BY <1>2 DEF Boutique!OrderFails, Boutique!End, Boutique!Goto, Charges
  <1>4. /\ Charges' = Charges
        /\ log' = [requests |-> log.requests, added |-> log.added, raced |-> log.raced,
                   charges |-> charges]
        /\ log'.charges \in Seq(Boutique!Range(log'.charges))
    <2>1. PICK s : s = log.charges /\ s \in Seq(Boutique!Range(s))
      BY <1>1 DEF BoutiqueTypes
    <2>2. charges = [i \in DOMAIN s |-> charges[i]]
      BY <1>2, <2>1 DEF Charges
    <2>3. charges \in Seq(Boutique!Range(charges))
      BY <2>1, <2>2, Rewritten
    <2>4. log' = [requests |-> log.requests, added |-> log.added, raced |-> log.raced,
                  charges |-> charges]
      BY <1>1, <1>3 DEF BoutiqueTypes
    <2>. QED
      BY <1>2, <2>3, <2>4 DEF Charges
  <1>5. ASSUME NEW i \in Charges
        PROVE  /\ Charge(log'.charges[i])
               /\ log'.charges[i].items = log.charges[i].items
               /\ log'.charges[i].emptied = log.charges[i].emptied
               /\ \/ log'.charges[i].of = log.charges[i].of
                  \/ log'.charges[i].of = "failed" /\ ~log.charges[i].emptied
               /\ log'.charges[i].of = c => log.charges[i].emptied
    <2>1. PICK x : x = log.charges[i] /\ Charge(x)
      BY <1>1 DEF BoutiqueTypes, Charges
    <2>2. log'.charges[i] = IF x.of = c /\ ~x.emptied THEN [x EXCEPT !.of = "failed"] ELSE x
      BY <1>2, <1>4, <2>1
    <2>3. CASE x.of = c /\ ~x.emptied
      BY <2>1, <2>2, <2>3, ClientAssumption DEF Charge
    <2>4. CASE ~(x.of = c /\ ~x.emptied)
      BY <2>1, <2>2, <2>4 DEF Charge
    <2>. QED
      BY <2>3, <2>4
  <1>6. PICK r : r = Boutique!Idle
    OBVIOUS
  <1>7. /\ r.at \notin Boutique!Ordering \cup {"setCart"} /\ r.at \notin {"shipOrder", "emptyCart"}
        /\ db' = [keys |-> db'.keys, products |-> db'.products, codes |-> db'.codes,
                  rates |-> db'.rates, cart |-> db'.cart, line |-> db'.line,
                  answered |-> db'.answered]
        /\ Carts' = Carts
    BY <1>1, <1>3, <1>6 DEF Boutique!Idle, Boutique!Ordering, BoutiqueTypes, Carts
  <1>. QED
    BY <1>3, <1>4, <1>5, <1>6, <1>7, Moved

\* A cart is read, or a line of it.
LEMMA CartRead ==
    ASSUME BoutiqueInv, NEW c \in Client, Boutique!AddToCart(c) \/ Boutique!PlaceOrder(c)
    PROVE  BoutiqueInv'
  <1>1. /\ run[c].at = "idle" /\ BoutiqueTypes
        /\ log.requests \in Nat /\ db.cart \in [Shopper -> Seq(Item)]
    BY DEF Boutique!AddToCart, Boutique!PlaceOrder, Boutique!Begin, Boutique!At, BoutiqueInv,
           BoutiqueTypes
  <1>2. CASE Boutique!AddToCart(c)
    <2>1. PICK u \in Shopper, p \in ProductId, q \in Quantity :
             run' = [run EXCEPT ![c] =
                [at |-> "setCart", user |-> u, got |-> db.cart[u],
                 item |-> [id |-> log.requests, product |-> p, quantity |-> q]]]
      BY <1>2 DEF Boutique!AddToCart, Boutique!Begin, Boutique!Goto
    <2>2. PICK r : r = [at |-> "setCart", user |-> u, got |-> db.cart[u],
                        item |-> [id |-> log.requests, product |-> p, quantity |-> q]]
      OBVIOUS
    <2>3. /\ r \in CartRun /\ r.item.id = log.requests /\ r.user = u /\ r.got \in Seq(Item)
          /\ Boutique!Range(r.got) = InCart(u)
      BY <1>1, <2>2 DEF CartRun, Item, InCart
    <2>4. /\ db' = [db EXCEPT !.answered = db.answered]
          /\ log' = [Boutique!Counted EXCEPT !.raced = log.raced \cup {}]
      BY <1>1, <1>2 DEF Boutique!AddToCart, Boutique!Counted, BoutiqueTypes
    <2>5. PICK got, marked : got = Boutique!Range(r.got) /\ marked = {}
      OBVIOUS
    <2>6. PICK answered : answered = db.answered
      OBVIOUS
    <2>7. /\ got \subseteq InCart(u) \cup InCache(u)
          /\ got \subseteq InCart(u) \cup marked /\ InCart(u) \subseteq got \cup marked
          /\ db' = [db EXCEPT !.answered = answered]
          /\ log' = [Boutique!Counted EXCEPT !.raced = log.raced \cup marked]
          /\ run' = [run EXCEPT ![c] = r]
      BY <2>1, <2>2, <2>3, <2>4, <2>5, <2>6
    <2>. QED
      BY ONLY BoutiqueInv, c \in Client, u \in Shopper, <1>1, <2>3, <2>5, <2>6, <2>7, CopyTaken
  <1>3. CASE Boutique!PlaceOrder(c)
    <2>1. PICK u \in Shopper, to \in Currency :
             /\ run' = [run EXCEPT ![c] =
                   [at |-> "getProduct", user |-> u, to |-> to, got |-> Boutique!getUserCart(u),
                    costs |-> <<>>, shipping |-> Boutique!Money(0, 0)]]
             /\ db' = IF db.line[u] # Missing THEN db
                      ELSE [db EXCEPT !.answered[u] = @ \cup {db.cart[u]}]
             /\ log' = [Boutique!Counted EXCEPT !.raced = @ \cup Boutique!Outdated(u)]
      BY <1>3 DEF Boutique!PlaceOrder, Boutique!Begin, Boutique!Goto
    <2>2. PICK r : r = [at |-> "getProduct", user |-> u, to |-> to,
                        got |-> Boutique!getUserCart(u), costs |-> <<>>,
                        shipping |-> Boutique!Money(0, 0)]
      OBVIOUS
    <2>3. /\ Boutique!getUserCart(u) \in db.answered[u] \cup {db.cart[u]}
          /\ db.answered[u] \cup {db.cart[u]} \subseteq Seq(Item)
      BY <1>1 DEF Boutique!getUserCart, BoutiqueTypes
    <2>4. OrderRun(r) /\ r.at = "getProduct" /\ r.user = u /\ r.got \in Seq(Item)
      BY <1>1, <2>2, <2>3 DEF OrderRun, Boutique!Ordering
    <2>5. PICK got, marked : got = Boutique!Range(r.got) /\ marked = Boutique!Outdated(u)
      OBVIOUS
    <2>6. got \subseteq InCart(u) \cup InCache(u)
      BY <2>2, <2>3, <2>5 DEF InCart, InCache
    <2>7. got \subseteq InCart(u) \cup marked /\ InCart(u) \subseteq got \cup marked
      BY <2>2, <2>5 DEF Boutique!Outdated, Boutique!SymDiff, InCart
    <2>8. PICK answered :
             /\ db' = [db EXCEPT !.answered = answered]
             /\ \/ answered = db.answered
                \/ answered = [db.answered EXCEPT ![u] = @ \cup {db.cart[u]}]
      <3>1. db = [db EXCEPT !.answered = db.answered]
        BY <1>1 DEF BoutiqueTypes
      <3>. QED
        BY <2>1, <3>1
    <2>9. log' = [Boutique!Counted EXCEPT !.raced = log.raced \cup marked]
      BY <1>1, <2>1, <2>5 DEF Boutique!Counted, BoutiqueTypes
    <2>10. run' = [run EXCEPT ![c] = r]
      BY <2>1, <2>2
    <2>11. /\ run[c].at = "idle" /\ r.user = u /\ r.got \in Seq(Item)
           /\ \/ r \in CartRun /\ r.item.id = log.requests
              \/ OrderRun(r) /\ r.at = "getProduct"
           /\ got = Boutique!Range(r.got)
      BY ONLY <1>1, <2>4, <2>5
    <2>. QED
      BY ONLY BoutiqueInv, c \in Client, u \in Shopper, <2>6, <2>7, <2>8, <2>9, <2>10, <2>11,
              CopyTaken, ZenonT(60)
  <1>. QED
    BY <1>2, <1>3

\* A step that leaves what is in carts, lines, copies and charges.
LEMMA ViewStays ==
    ASSUME BoutiqueInv, BoutiqueTypes', run' = run, log' = log,
           \A v : InCart(v)' = InCart(v) /\ InCache(v)' = InCache(v),
           \A c : /\ HasCopy(c)' = HasCopy(c) /\ Copied(c)' = Copied(c)
                  /\ OnItsWay(c)' = OnItsWay(c) /\ Paid(c)' = Paid(c),
           Charges' = Charges, \A i : Charged(i)' = Charged(i)
    PROVE  BoutiqueInv'
  <1>. USE DEF BoutiqueInv
  <1>1. Numbered'
    BY DEF Numbered
  <1>2. \A x, v : Near(x, v)' = Near(x, v)
    BY DEF Near
  <1>3. Apart'
    BY <1>2 DEF Apart
  <1>4. CopiesComplete'
    BY DEF CopiesComplete
  <1>5. ChargesHeld'
    BY DEF ChargesHeld
  <1>6. ChargesApart'
    BY DEF ChargesApart
  <1>7. NothingLost'
    BY DEF NothingLost
  <1>. QED
    BY <1>1, <1>3, <1>4, <1>5, <1>6, <1>7

\* The managers save an answer or drop one.
LEMMA LinesSavedAndDropped ==
    ASSUME BoutiqueInv, NEW u \in Shopper, Boutique!CacheSave(u) \/ Boutique!CacheRemove(u)
    PROVE  BoutiqueInv'
  <1>1. BoutiqueTypes /\ run' = run /\ log' = log
    BY DEF BoutiqueInv, Boutique!CacheSave, Boutique!CacheRemove
  <1>2. PICK cart \in db.answered[u] \cup {Missing} :
           db' = [db EXCEPT !.line = [db.line EXCEPT ![u] = cart]]
    BY DEF Boutique!CacheSave, Boutique!CacheRemove
  <1>3. /\ db' = [keys |-> db.keys, products |-> db.products, codes |-> db.codes,
                  rates |-> db.rates, cart |-> db.cart,
                  line |-> [db.line EXCEPT ![u] = cart], answered |-> db.answered]
    BY <1>1, <1>2 DEF BoutiqueTypes
  <1>4. /\ db'.cart = db.cart /\ db'.answered = db.answered
        /\ db' = [keys |-> db'.keys, products |-> db'.products, codes |-> db'.codes,
                  rates |-> db'.rates, cart |-> db'.cart, line |-> db'.line,
                  answered |-> db'.answered]
        /\ db'.line = [v \in Shopper |-> db'.line[v]]
        /\ \A v \in Shopper : db'.line[v] # Missing => db'.line[v] \in db'.answered[v]
    BY <1>1, <1>3 DEF BoutiqueTypes
  <1>5. BoutiqueTypes'
    BY <1>1, <1>4 DEF BoutiqueTypes, HasCopy, OrderRun, Charge
  <1>6. /\ \A v : InCart(v)' = InCart(v) /\ InCache(v)' = InCache(v)
        /\ \A c : /\ HasCopy(c)' = HasCopy(c) /\ Copied(c)' = Copied(c)
                  /\ OnItsWay(c)' = OnItsWay(c) /\ Paid(c)' = Paid(c)
        /\ Charges' = Charges /\ \A i : Charged(i)' = Charged(i)
    BY <1>1, <1>4 DEF InCart, InCache, HasCopy, Copied, OnItsWay, Paid, Charges, Charged
  <1>. QED
    BY <1>1, <1>5, <1>6, ViewStays

LEMMA BoutiqueNext == BoutiqueInv /\ [Boutique!Next]_(Boutique!vars) => BoutiqueInv'
  <1>1. ASSUME BoutiqueInv, run' = run, log' = log,
               db' = [keys |-> db'.keys, products |-> db'.products, codes |-> db'.codes,
                      rates |-> db'.rates, cart |-> db'.cart, line |-> db'.line,
                      answered |-> db'.answered],
               Carts' = Carts
        PROVE  BoutiqueInv'
    <2>1. /\ db'.cart = db.cart /\ db'.line = db.line /\ db'.answered = db.answered
          /\ BoutiqueTypes
      BY <1>1 DEF Carts, BoutiqueInv
    <2>2. BoutiqueTypes'
      BY <1>1, <2>1 DEF BoutiqueTypes, HasCopy, OrderRun, Charge
    <2>3. /\ \A v : InCart(v)' = InCart(v) /\ InCache(v)' = InCache(v)
          /\ \A c : /\ HasCopy(c)' = HasCopy(c) /\ Copied(c)' = Copied(c)
                    /\ OnItsWay(c)' = OnItsWay(c) /\ Paid(c)' = Paid(c)
          /\ Charges' = Charges /\ \A i : Charged(i)' = Charged(i)
      BY <1>1, <2>1 DEF InCart, InCache, HasCopy, Copied, OnItsWay, Paid, Charges, Charged
    <2>. QED
      BY <1>1, <2>1, <2>2, <2>3, ViewStays
  <1>2. ASSUME BoutiqueInv, UNCHANGED Boutique!vars PROVE BoutiqueInv'
    <2>1. run' = run /\ log' = log /\ db' = db
      BY <1>2 DEF Boutique!vars
    <2>2. db' = [keys |-> db'.keys, products |-> db'.products, codes |-> db'.codes,
                 rates |-> db'.rates, cart |-> db'.cart, line |-> db'.line,
                 answered |-> db'.answered]
      BY <1>2, <2>1 DEF BoutiqueInv, BoutiqueTypes
    <2>. QED
      BY <1>1, <1>2, <2>1, <2>2 DEF Carts
  <1>3. ASSUME BoutiqueInv, Boutique!SetCurrencySupport \/ Boutique!InitCurrencies
        PROVE  BoutiqueInv'
    <2>1. PICK codes, rates : db' = [db EXCEPT !.codes = codes] \/ db' = [db EXCEPT !.rates = rates]
      BY <1>3 DEF Boutique!SetCurrencySupport, Boutique!InitCurrencies
    <2>2. /\ db' = [keys |-> db'.keys, products |-> db'.products, codes |-> db'.codes,
                    rates |-> db'.rates, cart |-> db'.cart, line |-> db'.line,
                    answered |-> db'.answered]
          /\ Carts' = Carts
      BY <1>3, <2>1 DEF BoutiqueInv, BoutiqueTypes, Carts
    <2>3. run' = run /\ log' = log
      BY <1>3 DEF Boutique!SetCurrencySupport, Boutique!InitCurrencies
    <2>. QED
      BY <1>1, <1>3, <2>2, <2>3
  <1>4. ASSUME BoutiqueInv, NEW c \in Client, Boutique!ChargeCard(c) PROVE BoutiqueInv'
    <2>1. CASE Boutique!End(c) /\ log' = log
      BY <1>4, <2>1, OrderWentOn
    <2>2. CASE ~(Boutique!End(c) /\ log' = log)
      <3>1. PICK raced : raced = Boutique!Marked(c, <<>>)
        OBVIOUS
      <3>2. PICK total : total = Boutique!Total(c)
        OBVIOUS
      <3>3. PICK new : new = [of |-> c, items |-> run[c].got, costs |-> run[c].costs,
                              shipping |-> run[c].shipping, total |-> total, emptied |-> FALSE]
        OBVIOUS
      <3>4. /\ run[c].at = "chargeCard"
            /\ db' = db
            /\ run' = [run EXCEPT ![c] = [run[c] EXCEPT !.at = "shipOrder"]]
            /\ log' = [log EXCEPT !.raced = raced, !.charges = Append(log.charges, new)]
        BY <1>4, <2>2, <3>1, <3>2, <3>3 DEF Boutique!ChargeCard, Boutique!At, Boutique!Goto
      <3>5. run[c].got \in Seq(Item)
        BY <1>4, <3>4, CopyFacts DEF HasCopy, Boutique!Ordering, BoutiqueInv
      <3>6. new.of = c /\ new.items = run[c].got /\ new.emptied = FALSE /\ Charge(new)
        BY <3>3, <3>5 DEF Charge
      <3>. QED
        BY <1>4, <3>1, <3>4, <3>6, CardCharged
    <2>. QED
      BY <2>1, <2>2
  <1>5. ASSUME BoutiqueInv, NEW c \in Client, Boutique!Step(c) PROVE BoutiqueInv'
    BY <1>4, <1>5, OthersWentOn, OrderWentOn, OrderFailed, CartRead, CartSet, CartEmptied
       DEF Boutique!Step
  <1>6. ASSUME BoutiqueInv, NEW u \in Shopper, Boutique!CacheSave(u) \/ Boutique!CacheRemove(u)
        PROVE  BoutiqueInv'
    BY <1>6, LinesSavedAndDropped
  <1>. QED
    BY <1>2, <1>3, <1>5, <1>6 DEF Boutique!Next

LEMMA BoutiqueShows == BoutiqueInv => Boutique!CartLosesNothing /\ Boutique!ChargedOnce
  <1>. SUFFICES ASSUME BoutiqueInv PROVE Boutique!CartLosesNothing /\ Boutique!ChargedOnce
    OBVIOUS
  <1>1. Boutique!CartLosesNothing
    BY DEF BoutiqueInv, NothingLost, InCart, Charged, Charges, Boutique!CartLosesNothing
  <1>2. Boutique!ChargedOnce
    BY DEF BoutiqueInv, ChargesHeld, ChargesApart, Charged, Charges, Boutique!ChargedOnce
  <1>. QED
    BY <1>1, <1>2

(***************************************************************************)
(* AddItem, PlaceOrder and EmptyCart of the boutique, whatever overlaps:   *)
(* no item is lost, or charged twice, that no race over its cart and no    *)
(* order made of an older line of checkout's cache touched.                *)
(***************************************************************************)
THEOREM CartsKeepTheirWord == Spec => [](CartLosesNothing /\ ChargedOnce)
  <1>. DEFINE Part == part = "boutique" => BoutiqueInv
  <1>1. Init => Part
    BY BoutiqueStarts DEF Init
  <1>2. Part /\ [Next]_vars => Part'
    <2>1. ASSUME Part, Next, part' = "boutique" PROVE BoutiqueInv'
      <3>1. part = "boutique" /\ Boutique!Next
        BY <2>1 DEF Next, AroundStores
      <3>. QED
        BY <2>1, <3>1, BoutiqueNext
    <2>2. ASSUME Part, UNCHANGED vars, part' = "boutique" PROVE BoutiqueInv'
      <3>1. part = "boutique" /\ UNCHANGED Boutique!vars
        BY <2>2 DEF vars, Boutique!vars, storeVars
      <3>. QED
        BY <2>2, <3>1, BoutiqueNext
    <2>. QED
      BY <2>1, <2>2
  <1>3. Part => CartLosesNothing /\ ChargedOnce
    BY BoutiqueShows DEF CartLosesNothing, ChargedOnce
  <1>. HIDE DEF Part
  <1>. QED
    BY <1>1, <1>2, <1>3, PTL DEF Spec
=============================================================================
