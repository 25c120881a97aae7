------------------------------- MODULE Movie -------------------------------
(***************************************************************************)
(* The movie application: reviews are stored once and listed twice, by     *)
(* movie and by user; a page reads what four services hold of a movie.     *)
(* One user name, which may be registered again under a new id.  Reviews   *)
(* and user ids are numbered: shortuuid never gives one twice.             *)
(***************************************************************************)
EXTENDS Naturals, Sequences, FiniteSets, SequencesExt

CONSTANTS
    Client, MovieId,
    MaxKept,        \* 10 in the code
    MaxRequests,    \* bound: requests of all clients
    Missing

VARIABLES db, run, log

vars == <<db, run, log>>

Idle == [at |-> "idle"]
UserId == 1..MaxRequests

Init ==
    /\ db = [user |-> Missing, titles |-> {}, info |-> {}, plots |-> {}, reviews |-> <<>>,
             byMovie |-> [m \in MovieId |-> <<>>], byUser |-> [u \in UserId |-> <<>>]]
    /\ run = [c \in Client |-> Idle]
    /\ log = [requests |-> 0, ids |-> 0, composed |-> {}, overlapped |-> {},
              toMovie |-> [m \in MovieId |-> <<>>], toUser |-> [u \in UserId |-> <<>>]]

Begin(c, r) ==
    /\ run[c] = Idle
    /\ log.requests < MaxRequests
    /\ run' = [run EXCEPT ![c] = r]
    /\ log' = [log EXCEPT !.requests = @ + 1]
    /\ UNCHANGED db

Goto(c, r) == run' = [run EXCEPT ![c] = r]
End(c) == Goto(c, Idle)

-----------------------------------------------------------------------------
\* Writers of one store each.

Populate(newDb) ==
    /\ log.requests < MaxRequests
    /\ db' = newDb
    /\ db' # db
    /\ log' = [log EXCEPT !.requests = @ + 1]
    /\ UNCHANGED run

RegisterUser ==
    Populate([db EXCEPT !.user = IF @ = Missing THEN 1 ELSE @ + 1])
RegisterMovieId(m) == Populate([db EXCEPT !.titles = @ \cup {m}])
StoreMovieInfo(m) == Populate([db EXCEPT !.info = @ \cup {m}])
WritePlot(m) == Populate([db EXCEPT !.plots = @ \cup {m}])

-----------------------------------------------------------------------------
\* frontend.Compose and ComposeReview.

Compose(c) ==
    \E m \in MovieId :
       Begin(c, [at |-> "login", title |-> m, review |-> 0, user |-> Missing, got |-> <<>>])

\* An unknown user panics; a wrong password answers false.
Login(c) ==
    /\ run[c].at = "login"
    /\ \/ End(c)
       \/ db.user # Missing /\ Goto(c, [run[c] EXCEPT !.at = "getUserId"])
    /\ UNCHANGED <<db, log>>
GetUniqueIdAndUserId(c) ==
    /\ run[c].at = "getUserId"
    /\ Goto(c, [run[c] EXCEPT !.at = "getMovieId", !.review = log.ids + 1, !.user = db.user])
    /\ log' = [log EXCEPT !.ids = @ + 1]
    /\ UNCHANGED db
GetMovieId(c) ==
    /\ run[c].at = "getMovieId"
    /\ IF run[c].title \in db.titles THEN Goto(c, [run[c] EXCEPT !.at = "storeReview"])
       ELSE End(c)
    /\ UNCHANGED <<db, log>>

Record(c) == [id |-> run[c].review, movie |-> run[c].title, user |-> run[c].user]

\* Faulty: the review is stored when both lists are written.
StoreReviewLate(c) ==
    /\ run[c].at = "storeReview"
    /\ Goto(c, [run[c] EXCEPT !.at = "getMovieReviews"])
    /\ UNCHANGED <<db, log>>
StoreReview(c) ==
    /\ run[c].at = "storeReview"
    /\ db' = [db EXCEPT !.reviews = Append(@, Record(c))]
    /\ Goto(c, [run[c] EXCEPT !.at = "getMovieReviews"])
    /\ UNCHANGED log

\* Faulty: one review too few is kept.
BoundedOneShort(list, x) ==
    Append(IF Len(list) + 1 >= MaxKept /\ list # <<>> THEN Tail(list) ELSE list, x)
Bounded(list, x) == Append(IF Len(list) >= MaxKept THEN Tail(list) ELSE list, x)

\* Another run has read the list at d's step and not yet written it.
Stale(c) ==
    \E d \in Client \ {c} :
       /\ run[d].at = run[c].at
       /\ IF run[c].at = "uploadMovieReview" THEN run[d].title = run[c].title
          ELSE run[d].user = run[c].user
Marked(c) == IF Stale(c) THEN log.overlapped \cup {run[c].review} ELSE log.overlapped

GetMovieReviews(c) ==
    /\ run[c].at = "getMovieReviews"
    /\ Goto(c, [run[c] EXCEPT !.at = "uploadMovieReview", !.got = db.byMovie[run[c].title]])
    /\ UNCHANGED <<db, log>>
UploadMovieReview(c) ==
    /\ run[c].at = "uploadMovieReview"
    /\ db' = [db EXCEPT !.byMovie[run[c].title] = Bounded(run[c].got, run[c].review)]
    /\ Goto(c, [run[c] EXCEPT !.at = "getUserReviews"])
    /\ log' = [log EXCEPT !.overlapped = Marked(c),
                          !.toMovie[run[c].title] = Append(@, Record(c))]
GetUserReviews(c) ==
    /\ run[c].at = "getUserReviews"
    /\ Goto(c, [run[c] EXCEPT !.at = "uploadUserReview", !.got = db.byUser[run[c].user]])
    /\ UNCHANGED <<db, log>>
UploadUserReview(c) ==
    /\ run[c].at = "uploadUserReview"
    /\ db' = [db EXCEPT !.byUser[run[c].user] = Bounded(run[c].got, run[c].review)]
    /\ End(c)
    /\ log' = [log EXCEPT !.composed = @ \cup {Record(c)}, !.overlapped = Marked(c),
                          !.toUser[run[c].user] = Append(@, Record(c))]

-----------------------------------------------------------------------------
\* ReadPage: the info or the plot that is not there panics; cast infos and
\* reviews that are not there come back empty.  user_reviews reads alike.

ReadPage(c) == \E m \in MovieId : Begin(c, [at |-> "readMovieInfo", movie |-> m])
ReadMovieInfo(c) ==
    /\ run[c].at = "readMovieInfo"
    /\ IF run[c].movie \in db.info THEN Goto(c, [run[c] EXCEPT !.at = "readPlot"]) ELSE End(c)
    /\ UNCHANGED <<db, log>>
ReadPlot(c) ==
    /\ run[c].at = "readPlot"
    /\ IF run[c].movie \in db.plots THEN Goto(c, [run[c] EXCEPT !.at = "readMovieReviews"])
       ELSE End(c)
    /\ UNCHANGED <<db, log>>
ReadMovieReviews(c) ==
    /\ run[c].at = "readMovieReviews"
    /\ Goto(c, [at |-> "readReviews", ids |-> db.byMovie[run[c].movie], of |-> run[c].movie])
    /\ UNCHANGED <<db, log>>
ReadUserReviews(c) ==
    \E u \in 1..(IF db.user = Missing THEN 0 ELSE db.user) :
       Begin(c, [at |-> "readReviews", ids |-> db.byUser[u], of |-> u])
ReadReviews(c) ==
    /\ run[c].at = "readReviews"
    /\ End(c)
    /\ UNCHANGED <<db, log>>

Step(c) ==
    \/ Compose(c) \/ Login(c) \/ GetUniqueIdAndUserId(c) \/ GetMovieId(c) \/ StoreReview(c)
    \/ GetMovieReviews(c) \/ UploadMovieReview(c) \/ GetUserReviews(c) \/ UploadUserReview(c)
    \/ ReadPage(c) \/ ReadMovieInfo(c) \/ ReadPlot(c) \/ ReadMovieReviews(c)
    \/ ReadUserReviews(c) \/ ReadReviews(c)

Next ==
    \/ \E c \in Client : Step(c)
    \/ RegisterUser
    \/ \E m \in MovieId : RegisterMovieId(m) \/ StoreMovieInfo(m) \/ WritePlot(m)

Spec == Init /\ [][Next]_vars

-----------------------------------------------------------------------------
\* ReadReviews shows a blank review for an id it does not have.  None is ever
\* shown: each id read for a movie or a user is stored, and is a review of
\* that movie or by that user, also while the review is being composed.
ReviewsShownAreStored ==
    \A c \in Client : run[c].at = "readReviews" =>
       \A id \in Range(run[c].ids) : \E r \in Range(db.reviews) :
          r.id = id /\ run[c].of \in {r.movie, r.user}

\* A review whose Compose returned true is in both its lists until MaxKept
\* younger ones arrived there, unless another run held an older copy of the
\* list when this one was written.
ComposedIsListed ==
    LET Lists(list, sent, r) ==
           /\ r \in Range(sent)
           /\ \A i \in DOMAIN sent :
                 sent[i] = r /\ Len(sent) - i < MaxKept => r.id \in Range(list)
    IN  \A r \in log.composed : r.id \notin log.overlapped =>
           /\ Lists(db.byMovie[r.movie], log.toMovie[r.movie], r)
           /\ Lists(db.byUser[r.user], log.toUser[r.user], r)
=============================================================================
