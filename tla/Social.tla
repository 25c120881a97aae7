------------------------------- MODULE Social -------------------------------
(***************************************************************************)
(* The social application: posts, user and home timelines and the graph of *)
(* followers, under concurrent clients; one database access at a time.     *)
(* Posts are numbered in the order they are stored.                        *)
(***************************************************************************)
EXTENDS Naturals, Sequences, FiniteSets, SequencesExt

CONSTANTS
    Client, User,
    Numbers,        \* the posts one request may compose, also 0: nobody checks
    MaxKept,        \* 10 in the code
    MaxRequests,    \* bound: requests of all clients
    Missing

VARIABLES db, run, log

vars == <<db, run, log>>

Idle == [at |-> "idle"]
NoFollow == [followers |-> <<>>, followees |-> <<>>]

Init ==
    /\ db = [posts |-> 0, user |-> [u \in User |-> Missing], home |-> [u \in User |-> Missing],
             graph |-> [u \in User |-> Missing], line |-> [u \in User |-> Missing],
             answered |-> [u \in User |-> {}]]
    /\ run = [c \in Client |-> Idle]
    /\ log = [requests |-> 0, follows |-> {}, done |-> {}, lost |-> {},
              sent |-> [u \in User |-> <<>>]]

Begin(c, r) ==
    /\ run[c] = Idle
    /\ log.requests < MaxRequests
    /\ run' = [run EXCEPT ![c] = r]
    /\ log' = [log EXCEPT !.requests = @ + 1]
    /\ UNCHANGED db

Goto(c, r) == run' = [run EXCEPT ![c] = r]
End(c) == Goto(c, Idle)

-----------------------------------------------------------------------------
\* Timelines.  One post goes when the list is full, however many are added.

Listed(list) == IF list = Missing THEN <<>> ELSE list

\* Faulty: the youngest post goes when the list is full.
ExtendedForOldest(list, ids) == (IF Len(list) >= MaxKept THEN Front(list) ELSE list) \o ids

Extended(list, ids) == (IF Len(list) >= MaxKept THEN Tail(list) ELSE list) \o ids

\* A ComposePost whose posts are stored.
Posting(u, ids) ==
    [at |-> "readUserTimeline", creator |-> u, ids |-> ids, got |-> <<>>, followers |-> <<>>,
     todo |-> <<>>]

\* Faulty: the timeline is written before its posts are stored.
WriteTimelineFirst(c) ==
    \E u \in User, n \in Numbers :
       Begin(c, Posting(u, [i \in 1..n |-> db.posts + i]))
\* The number of compose_post_multi is taken as it comes: with 0 an empty list
\* of ids is written, and MGET, which wants one, fails whoever reads it.  (A
\* negative one panics before anything is stored.)
ComposePost(c) ==
    \E u \in User, n \in Numbers : Begin(c, [at |-> "storePost", creator |-> u, number |-> n])

StorePost(c) ==
    /\ run[c].at = "storePost"
    /\ db' = [db EXCEPT !.posts = @ + run[c].number]
    /\ Goto(c, Posting(run[c].creator, [i \in 1..run[c].number |-> db.posts + i]))
    /\ UNCHANGED log

ReadUserIds(c) ==
    /\ run[c].at = "readUserTimeline"
    /\ Goto(c, [run[c] EXCEPT !.at = "writeUserTimeline",
                              !.got = Listed(db.user[run[c].creator])])
    /\ UNCHANGED <<db, log>>
WriteUserTimeline(c) ==
    /\ run[c].at = "writeUserTimeline"
    /\ db' = [db EXCEPT !.user[run[c].creator] = Extended(run[c].got, run[c].ids)]
    /\ Goto(c, [run[c] EXCEPT !.at = "getFollowers", !.got = <<>>])
    /\ UNCHANGED log

\* home_timeline asks its cache first; a line may be older than the graph.
\* On a miss GetFollowers panics for an unknown user.
GetFollowers(c) ==
    LET u == run[c].creator
        Send(followers) == Goto(c, [run[c] EXCEPT !.at = "readHomeTimeline",
                                       !.todo = followers, !.followers = followers])
    IN  /\ run[c].at = "getFollowers"
        /\ \/ db.line[u] # Missing /\ Send(db.line[u]) /\ UNCHANGED db
           \/ db.line[u] = Missing /\ db.graph[u] = Missing /\ End(c) /\ UNCHANGED db
           \/ /\ db.line[u] = Missing /\ db.graph[u] # Missing
              /\ Send(db.graph[u].followers)
              /\ db' = [db EXCEPT !.answered[u] = @ \cup {db.graph[u].followers}]
        /\ UNCHANGED log

\* An answer is saved, and dropped, when the managers come to it: any time.
CacheSave(u) ==
    /\ \E followers \in db.answered[u] : db' = [db EXCEPT !.line[u] = followers]
    /\ UNCHANGED <<run, log>>
CacheRemove(u) ==
    /\ db.line[u] # Missing
    /\ db' = [db EXCEPT !.line[u] = Missing]
    /\ UNCHANGED <<run, log>>

ReadHomeIds(c) ==
    /\ run[c].at = "readHomeTimeline"
    /\ IF run[c].todo = <<>>
       THEN /\ End(c)
            /\ log' = [log EXCEPT !.done = @ \cup
                         [post : Range(run[c].ids), to : Range(run[c].followers)]]
       ELSE /\ Goto(c, [run[c] EXCEPT !.at = "writeHomeTimeline",
                                      !.got = Listed(db.home[Head(run[c].todo)])])
            /\ UNCHANGED log
    /\ UNCHANGED db

\* What a write brings to a timeline: posts, or no post (0), which still
\* pushes one out.
Arriving(ids) == IF ids = <<>> THEN <<0>> ELSE ids

\* Another run has read the same timeline and not yet written it.
HomeOverlapped(c) ==
    \E d \in Client \ {c} :
       run[d].at = "writeHomeTimeline" /\ Head(run[d].todo) = Head(run[c].todo)

WriteHomeTimeline(c) ==
    /\ run[c].at = "writeHomeTimeline"
    /\ LET f == Head(run[c].todo)
       IN  /\ db' = [db EXCEPT !.home[f] = Extended(run[c].got, run[c].ids)]
           /\ log' = [log EXCEPT !.sent[f] = @ \o Arriving(run[c].ids),
                                 !.lost = @ \cup (IF HomeOverlapped(c)
                                                  THEN {<<x, f>> : x \in Range(run[c].ids)}
                                                  ELSE {})]
    /\ Goto(c, [run[c] EXCEPT !.at = "readHomeTimeline", !.todo = Tail(@)])

\* ReadUserTimeline and ReadHomeTimeline: ids, then one MGET of the posts.
ReadTimeline(c) ==
    \E u \in User, kind \in {"user", "home"} :
       Begin(c, [at |-> "readIds", of |-> u, kind |-> kind])
ReadIds(c) ==
    /\ run[c].at = "readIds"
    /\ LET list == IF run[c].kind = "user" THEN db.user[run[c].of] ELSE db.home[run[c].of]
       IN  IF list = Missing THEN End(c)
           ELSE Goto(c, [at |-> "readPosts", ids |-> list])
    /\ UNCHANGED <<db, log>>
ReadPosts(c) ==
    /\ run[c].at = "readPosts"
    /\ End(c)
    /\ UNCHANGED <<db, log>>

-----------------------------------------------------------------------------
\* The graph of followers.

Vertex(u) == IF db.graph[u] = Missing THEN NoFollow ELSE db.graph[u]
Following == {"readFollower", "writeFollowee", "readFollowee", "writeFollower"}

Follow(c) ==
    \E u, v \in User :
       Begin(c, [at |-> "readFollower", from |-> u, to |-> v, overlapped |-> FALSE,
                 got |-> NoFollow])

ReadFollower(c) ==
    /\ run[c].at = "readFollower"
    /\ Goto(c, [run[c] EXCEPT !.at = "writeFollowee", !.got = Vertex(run[c].from)])
    /\ UNCHANGED <<db, log>>

\* Another run has read the vertex of u and not yet written it.
GraphOverlapped(c, u) ==
    \E d \in Client \ {c} :
       \/ run[d].at = "writeFollowee" /\ run[d].from = u
       \/ run[d].at = "writeFollower" /\ run[d].to = u

WriteFollowee(c) ==
    /\ run[c].at = "writeFollowee"
    /\ db' = [db EXCEPT !.graph[run[c].from] =
                 [run[c].got EXCEPT !.followees = Append(@, run[c].to)]]
    /\ Goto(c, [run[c] EXCEPT !.at = "readFollowee",
                              !.overlapped = @ \/ GraphOverlapped(c, run[c].from)])
    /\ UNCHANGED log

\* Faulty: the second half goes to the vertex read first.
ReadFolloweeStale(c) ==
    /\ run[c].at = "readFollowee"
    /\ IF db.graph[run[c].to] = Missing THEN End(c)
       ELSE Goto(c, [run[c] EXCEPT !.at = "writeFollower"])
    /\ UNCHANGED <<db, log>>
\* A followee nobody inserted: the first half stays, the handler panics.
ReadFollowee(c) ==
    /\ run[c].at = "readFollowee"
    /\ IF db.graph[run[c].to] = Missing THEN End(c)
       ELSE Goto(c, [run[c] EXCEPT !.at = "writeFollower", !.got = Vertex(run[c].to)])
    /\ UNCHANGED <<db, log>>

WriteFollower(c) ==
    /\ run[c].at = "writeFollower"
    /\ db' = [db EXCEPT !.graph[run[c].to] =
                 [run[c].got EXCEPT !.followers = Append(@, run[c].from)]]
    /\ End(c)
    /\ log' = IF run[c].overlapped \/ GraphOverlapped(c, run[c].to) THEN log
              ELSE [log EXCEPT !.follows = @ \cup {[from |-> run[c].from, to |-> run[c].to]}]

\* InsertUser and FollowMulti replace a vertex: what was known of it is gone.
Replace(u, v) ==
    /\ db' = [db EXCEPT !.graph[u] = v]
    /\ log' = [log EXCEPT !.requests = @ + 1,
                          !.follows = {f \in @ : u \notin {f.from, f.to}}]
    /\ run' = [c \in Client |->
                  IF run[c].at \in Following /\ u \in {run[c].from, run[c].to}
                  THEN [run[c] EXCEPT !.overlapped = TRUE] ELSE run[c]]
InsertUser(u) ==
    /\ log.requests < MaxRequests
    /\ Replace(u, NoFollow)
FollowMulti(u) ==
    /\ log.requests < MaxRequests
    /\ LET Kept(list) == SubSeq(list, 1, IF Len(list) >= MaxKept THEN MaxKept ELSE Len(list))
       IN  \E v \in User : Replace(u, [followers |-> Kept(<<v>>), followees |-> Kept(<<v, u>>)])

Step(c) ==
    \/ ComposePost(c) \/ StorePost(c) \/ ReadUserIds(c) \/ WriteUserTimeline(c)
    \/ GetFollowers(c) \/ ReadHomeIds(c) \/ WriteHomeTimeline(c)
    \/ ReadTimeline(c) \/ ReadIds(c) \/ ReadPosts(c)
    \/ Follow(c) \/ ReadFollower(c) \/ WriteFollowee(c) \/ ReadFollowee(c) \/ WriteFollower(c)

Next ==
    \/ \E c \in Client : Step(c)
    \/ \E u \in User : InsertUser(u) \/ FollowMulti(u) \/ CacheSave(u) \/ CacheRemove(u)

Spec == Init /\ [][Next]_vars

-----------------------------------------------------------------------------
\* ReadPosts panics over a post that is not stored.  No timeline anybody can
\* read names one, whatever part of a ComposePost has happened.  (It panics
\* over no ids at all, too, and an empty list may be stored: see ComposePost.)
TimelinesListStored ==
    \A u \in User : \A list \in {db.user[u], db.home[u]} :
       list # Missing => Range(list) \subseteq 1..db.posts

\* Each post of a ComposePost that returned is in the home timeline of each
\* follower it was to reach, until MaxKept younger posts, or requests that
\* compose none, arrived there or another run held an older copy of that
\* timeline while it was written.
PostReachesFollowers ==
    \A d \in log.done :
       LET sent == log.sent[d.to]
       IN  /\ d.post \in Range(sent)
           /\ \A i \in DOMAIN sent :
                 sent[i] = d.post /\ Len(sent) - i < MaxKept /\ <<d.post, d.to>> \notin log.lost
                    => d.post \in Range(Listed(db.home[d.to]))

\* A Follow that returned shows in both records, unless another run held an
\* older copy of one of them or the user was inserted anew.
FollowedBothWays ==
    \A f \in log.follows :
       /\ f.to \in Range(db.graph[f.from].followees)
       /\ f.from \in Range(db.graph[f.to].followers)
=============================================================================
