------------------------------- MODULE Hotel -------------------------------
(***************************************************************************)
(* The hotel application: requests of concurrent clients, each handled by  *)
(* the frontend and the services it calls, one database access at a time.  *)
(* One location.  db holds the five databases, run[c] the request of c,    *)
(* log what the clients were told.                                         *)
(***************************************************************************)
EXTENDS Naturals, Sequences, FiniteSets, SequencesExt

CONSTANTS
    Client, HotelId,
    Day,            \* days as numbers: the code compares YYYY-MM-DD strings
    Capacities,
    Rooms,
    MaxKept,        \* 10 in the code
    MaxRequests,    \* bound: requests of all clients
    Missing

VARIABLES db, run, log

vars == <<db, run, log>>

Reservation == [id : Nat, inDate : Day, outDate : Day, rooms : Rooms]
Availability == [capacity : Capacities, reservations : Seq(Reservation)]

Idle == [at |-> "idle"]

Init ==
    /\ db = [location |-> <<>>, rate |-> [h \in HotelId |-> Missing],
             availability |-> [h \in HotelId |-> Missing],
             profile |-> [h \in HotelId |-> Missing], user |-> Missing]
    /\ run = [c \in Client |-> Idle]
    /\ log = [requests |-> 0, stored |-> {}, confirmed |-> [h \in HotelId |-> <<>>]]

-----------------------------------------------------------------------------
\* Operators of the services.

datesIntersect(r1, r2) == ~(r2.inDate > r1.outDate \/ r1.inDate > r2.outDate)

\* Faulty: only the reservations that start the same day count.
CheckOneDay(a, r) ==
    Cardinality({i \in DOMAIN a.reservations : a.reservations[i].inDate = r.inDate}) + r.rooms
       <= a.capacity

\* Every reservation on record counts as one room, whatever it booked.
checkAvailability(a, r) ==
    LET reservationsTheseDays ==
            Cardinality({i \in DOMAIN a.reservations : datesIntersect(r, a.reservations[i])})
    IN  reservationsTheseDays + r.rooms <= a.capacity

\* Lists are kept bounded: the oldest goes before the new one is appended.
Bounded(list, x) == Append(IF Len(list) >= MaxKept THEN Tail(list) ELSE list, x)

\* Faulty: the youngest goes.
BoundedNewest(list, x) == Append(IF Len(list) >= MaxKept THEN Front(list) ELSE list, x)
BookDropNewest(a, r) == [a EXCEPT !.reservations = BoundedNewest(@, r)]

Book(a, r) == [a EXCEPT !.reservations = Bounded(@, r)]

-----------------------------------------------------------------------------
Begin(c, r) ==
    /\ run[c] = Idle
    /\ log.requests < MaxRequests
    /\ run' = [run EXCEPT ![c] = r]
    /\ log' = [log EXCEPT !.requests = @ + 1]
    /\ UNCHANGED db

Goto(c, r) == run' = [run EXCEPT ![c] = r]
End(c) == Goto(c, Idle)

\* user: registered, and logged in with the right or the wrong password.
RegisterUser(c) ==
    /\ db.user = Missing
    /\ run[c] = Idle
    /\ db' = [db EXCEPT !.user = "registered"]
    /\ UNCHANGED <<run, log>>

\* frontend.StoreHotel: four stores at four services, in this order.
StoreHotel(c) ==
    \E h \in HotelId, cap \in Capacities :
       Begin(c, [at |-> "getHotelIds", hotel |-> h, capacity |-> cap, ids |-> <<>>])
GetHotelIds(c) ==
    /\ run[c].at = "getHotelIds"
    /\ Goto(c, [run[c] EXCEPT !.at = "storeHotelLocation", !.ids = db.location])
    /\ UNCHANGED <<db, log>>
StoreHotelLocation(c) ==
    /\ run[c].at = "storeHotelLocation"
    /\ db' = [db EXCEPT !.location = Bounded(run[c].ids, run[c].hotel)]
    /\ Goto(c, [run[c] EXCEPT !.at = "storeRate"])
    /\ UNCHANGED log

\* Faulty: the store at the reservation service is forgotten.
StoreRateLast(c) ==
    /\ run[c].at = "storeRate"
    /\ db' = [db EXCEPT !.rate[run[c].hotel] = "rate"]
    /\ Goto(c, [run[c] EXCEPT !.at = "storeProfile"])
    /\ UNCHANGED log

StoreRate(c) ==
    /\ run[c].at = "storeRate"
    /\ db' = [db EXCEPT !.rate[run[c].hotel] = "rate"]
    /\ Goto(c, [run[c] EXCEPT !.at = "addHotelAvailability"])
    /\ UNCHANGED log
AddHotelAvailability(c) ==
    /\ run[c].at = "addHotelAvailability"
    /\ db' = [db EXCEPT !.availability[run[c].hotel] =
                 [capacity |-> run[c].capacity, reservations |-> <<>>]]
    /\ Goto(c, [run[c] EXCEPT !.at = "storeProfile"])
    /\ log' = [log EXCEPT !.confirmed[run[c].hotel] = <<>>]
StoreProfile(c) ==
    /\ run[c].at = "storeProfile"
    /\ db' = [db EXCEPT !.profile[run[c].hotel] = "profile"]
    /\ End(c)
    /\ log' = [log EXCEPT !.stored = @ \cup {run[c].hotel}]

\* frontend.SearchHotels: the hotels of the location, their rates, which of
\* them have a room, and their profiles.
SearchHotels(c) ==
    \E d \in Day :
       Begin(c, [at |-> "nearby", todo |-> <<>>,
                 want |-> [id |-> 0, inDate |-> d, outDate |-> d, rooms |-> 1], ids |-> <<>>])
Nearby(c) ==
    /\ run[c].at = "nearby"
    /\ Goto(c, [run[c] EXCEPT !.at = "getRates", !.todo = db.location, !.ids = db.location])
    /\ UNCHANGED <<db, log>>

\* GetRates and CheckAvailability panic for a hotel they do not have.
Reading(c, at) == run[c].at = at /\ run[c].todo # <<>>
Lacks(c) ==
    \/ Reading(c, "getRates") /\ db.rate[Head(run[c].todo)] = Missing
    \/ Reading(c, "checkAvailability") /\ db.availability[Head(run[c].todo)] = Missing
SearchPanics(c) ==
    /\ Lacks(c)
    /\ End(c)
    /\ UNCHANGED <<db, log>>
GetRates(c) ==
    /\ run[c].at = "getRates"
    /\ ~Lacks(c)
    /\ Goto(c, IF run[c].todo = <<>>
               THEN [run[c] EXCEPT !.at = "checkAvailability", !.todo = run[c].ids, !.ids = <<>>]
               ELSE [run[c] EXCEPT !.todo = Tail(@)])
    /\ UNCHANGED <<db, log>>
CheckAvailability(c) ==
    /\ run[c].at = "checkAvailability"
    /\ ~Lacks(c)
    /\ IF run[c].todo = <<>>
       THEN Goto(c, [run[c] EXCEPT !.at = "getProfiles"])
       ELSE LET h == Head(run[c].todo)
            IN  Goto(c, [run[c] EXCEPT !.todo = Tail(@),
                           !.ids = IF checkAvailability(db.availability[h], run[c].want)
                                   THEN Append(@, h) ELSE @])
    /\ UNCHANGED <<db, log>>

\* One MGET; a profile that is not there yet comes back empty.
GetProfiles(c) ==
    /\ run[c].at = "getProfiles"
    /\ End(c)
    /\ UNCHANGED <<db, log>>

\* frontend.FrontendReservation.
FrontendReservation(c) ==
    \E h \in HotelId, d1, d2 \in Day, n \in Rooms :
       /\ d1 <= d2
       /\ Begin(c, [at |-> "login", hotel |-> h, got |-> Missing,
                    want |-> [id |-> log.requests, inDate |-> d1, outDate |-> d2, rooms |-> n]])

\* An unknown user panics, a wrong password ends the request.
Login(c) ==
    /\ run[c].at = "login"
    /\ \/ End(c)
       \/ db.user # Missing /\ Goto(c, [run[c] EXCEPT !.at = "getAvailability"])
    /\ UNCHANGED <<db, log>>
GetAvailability(c) ==
    /\ run[c].at = "getAvailability"
    /\ LET a == db.availability[run[c].hotel]
       IN  IF a = Missing \/ ~checkAvailability(a, run[c].want)
           THEN End(c)
           ELSE Goto(c, [run[c] EXCEPT !.at = "makeReservation", !.got = a])
    /\ UNCHANGED <<db, log>>

\* Another run of this hotel has read the availability and not yet stored it.
Overlapped(c) ==
    \E d \in Client \ {c} : run[d].at = "makeReservation" /\ run[d].hotel = run[c].hotel

MakeReservation(c) ==
    /\ run[c].at = "makeReservation"
    /\ db' = [db EXCEPT !.availability[run[c].hotel] = Book(run[c].got, run[c].want)]
    /\ End(c)
    /\ log' = [log EXCEPT !.confirmed[run[c].hotel] =
                  Append(@, [reservation |-> run[c].want, overlapped |-> Overlapped(c)])]

Step(c) ==
    \/ StoreHotel(c) \/ GetHotelIds(c) \/ StoreHotelLocation(c) \/ StoreRate(c)
    \/ AddHotelAvailability(c) \/ StoreProfile(c) \/ RegisterUser(c)
    \/ SearchHotels(c) \/ Nearby(c) \/ SearchPanics(c) \/ GetRates(c) \/ CheckAvailability(c)
    \/ GetProfiles(c)
    \/ FrontendReservation(c) \/ Login(c) \/ GetAvailability(c) \/ MakeReservation(c)

Next == \E c \in Client : Step(c)

Spec == Init /\ [][Next]_vars

-----------------------------------------------------------------------------
\* What is on record of a hotel fits its capacity by the code's own count,
\* each reservation against those recorded before it, in whatever order the
\* reads and stores of concurrent requests fall and whatever was dropped.
RecordFits ==
    \A h \in HotelId : db.availability[h] # Missing =>
       LET res == db.availability[h].reservations
       IN  /\ Len(res) <= MaxKept
           /\ \A i \in DOMAIN res :
                 Cardinality({j \in 1..(i - 1) : datesIntersect(res[i], res[j])}) + res[i].rooms
                    <= db.availability[h].capacity

\* A reservation the client was told succeeded is on record until MaxKept
\* younger ones push it out or its hotel is stored again, unless another
\* request of the same hotel was between its read and its store.
ConfirmedIsOnRecord ==
    \A h \in HotelId : \A i \in DOMAIN log.confirmed[h] :
       LET told == log.confirmed[h][i]
       IN  ~told.overlapped /\ Len(log.confirmed[h]) - i < MaxKept =>
              told.reservation \in Range(db.availability[h].reservations)

\* A search finds every record of a hotel whose StoreHotel has returned: it
\* only panics over one that is still being stored, or was stored in part.
SearchFindsStored ==
    \A c \in Client : Lacks(c) => Head(run[c].todo) \notin log.stored
=============================================================================
