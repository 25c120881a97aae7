------------------------------- MODULE Routes -------------------------------
(***************************************************************************)
(* Who serves what and calls whom: one definition per service program      *)
(* (src/cmd/*/main.go), a record from the paths it registers to what their *)
(* handlers do.  Of a handler only the calls and the stores are kept, in   *)
(* the order the code makes them; reads change nothing.  /heartbeat, which *)
(* every program serves without a wrapper, is left out.                    *)
(***************************************************************************)
EXTENDS Naturals, Sequences

\* Steps of a handler.  to: the services the call may go to.
Step(do, to, path) == [do |-> do, to |-> to, path |-> path]

Store == Step("store", {}, "")
Call(app, method) == Step("call", {app}, method)
Some(app, method) == Step("some", {app}, method)    \* in a loop: any number of times
MayStop == Step("maystop", {}, "")                  \* an early return
Miss(app, method) == Step("miss", {app}, method)
AssertHit(app, method) == Step("asserthit", {app}, method)
PollMiss(app, method) == Step("pollmiss", {app}, method)

\* if dice < req.HitRate { InvokeHit } else { InvokeMiss }
HitOrMiss(app, method) == Step("dice", {app}, method)

RO(steps) == [ro |-> TRUE, steps |-> steps]
NonRO(steps) == [ro |-> FALSE, steps |-> steps]

\* One round of the experiment of a benchmark: write, warm up, hit, write, wait
\* for the miss.
InvalidationExperiment(readApp, writeApp) ==
    NonRO(<<Call(writeApp, "write"), Miss(readApp, "ro_read"), AssertHit(readApp, "ro_read"),
            Call(writeApp, "write"), PollMiss(readApp, "ro_read")>>)

-----------------------------------------------------------------------------
\* Micro-benchmarks.

Backend == [ro_read |-> RO(<<>>), write |-> NonRO(<<Store>>)]

Relay(callee, hitMethod) ==
    [ro_read |-> RO(<<Call(callee, "ro_read")>>), write |-> NonRO(<<Call(callee, "write")>>),
     ro_hitormiss |-> RO(<<HitOrMiss(callee, hitMethod)>>)]

Experimenter(callee) == [invalidation_experiment |-> InvalidationExperiment(callee, "backend")]
Joined(r1, r2) == [p \in DOMAIN r1 \cup DOMAIN r2 |-> IF p \in DOMAIN r1 THEN r1[p] ELSE r2[p]]

ChainService1 == Joined(Relay("service2", "ro_hitormiss"), Experimenter("service2"))
ChainService2 == Relay("service3", "ro_hitormiss")
ChainService3 == Relay("service4", "ro_hitormiss")
\* Faulty: the last hop asks the backend for a hit or a miss.
ChainService4Relay == Relay("backend", "ro_hitormiss")

ChainService4 == Relay("backend", "ro_read")
ChainBackend == Backend

Chain3Service1 == Joined(Relay("service2", "ro_hitormiss"), Experimenter("service2"))
Chain3Service2 == Relay("backend", "ro_hitormiss")
Chain3Backend == Backend

Chain4Service1 == Joined(Relay("service2", "ro_hitormiss"), Experimenter("service2"))
Chain4Service2 == Relay("service3", "ro_hitormiss")
Chain4Service3 == Relay("backend", "ro_hitormiss")
Chain4Backend == Backend

\* The experiment of the fan-in and of the star is commented out: it only answers.
Silent == [invalidation_experiment |-> NonRO(<<>>)]
FaninFrontend1 == Joined(Relay("backend", "ro_read"), Silent)
FaninFrontend2 == Joined(Relay("backend", "ro_read"), Silent)
FaninFrontend3 == Joined(Relay("backend", "ro_read"), Silent)
FaninFrontend4 == Joined(Relay("backend", "ro_read"), Silent)
FaninBackend == Backend

\* The goroutines of the asynchronous handlers share the loop variable: the
\* one of Callees[i] calls that service or, when it reads it late, a later one.
StarFrontend ==
    LET Callees == <<"backend1", "backend2", "backend3", "backend4">>
        Later(i) == {Callees[j] : j \in i..4}
        Each(do, path) == [i \in 1..4 |-> Step(do, {Callees[i]}, path)]
        Async(do, path) == [i \in 1..4 |-> Step(do, Later(i), path)]
    IN  Joined(Silent,
            [ro_read |-> RO(Each("call", "ro_read")),
             ro_async_read |-> RO(Async("call", "ro_read")),
             write |-> NonRO(Each("call", "write")),
             ro_hitormiss |-> RO(Each("dice", "ro_read")),
             ro_async_hitormiss |-> RO(Async("dice", "ro_read"))])
StarBackend1 == Backend
StarBackend2 == Backend
StarBackend3 == Backend
StarBackend4 == Backend

TwoServicesCaller ==
    [read |-> RO(<<Call("callee", "ro_read")>>),
     read_bulk |-> RO(<<Call("callee", "ro_read_bulk")>>),
     write |-> NonRO(<<Call("callee", "write")>>),
     write_bulk |-> NonRO(<<Call("callee", "write_bulk")>>),
     hit |-> RO(<<Step("hit", {"callee"}, "ro_read")>>),
     miss |-> RO(<<Miss("callee", "ro_read")>>),
     ro_hitormiss |-> RO(<<HitOrMiss("callee", "ro_read")>>),
     invalidation_experiment |-> InvalidationExperiment("callee", "callee")]
TwoServicesCallee ==
    [ro_read |-> RO(<<>>), ro_read_bulk |-> RO(<<>>),
     write |-> NonRO(<<Store>>), write_bulk |-> NonRO(<<Store>>)]

SingleService == [ro_read |-> RO(<<>>), echo |-> RO(<<>>), write |-> NonRO(<<Store>>)]

AcmeairFlight == [create_segment |-> NonRO(<<Store>>), ro_get_flights |-> RO(<<>>)]

-----------------------------------------------------------------------------
\* Hotel reservation.

HotelFrontend ==
    [ro_search_hotels |-> RO(<<Call("search", "ro_nearby"),
                               Call("reservation", "ro_check_availability"),
                               Call("profile", "ro_get_profiles")>>),
     store_hotel |-> NonRO(<<Call("search", "store_hotel_location"), Call("rate", "store_rate"),
                             Call("reservation", "add_hotel_availability"),
                             Call("profile", "store_profile")>>),
     reservation |-> NonRO(<<Call("user", "login"), MayStop, Call("reservation", "make_reservation")>>)]
HotelProfile == [store_profile |-> NonRO(<<Store>>), ro_get_profiles |-> RO(<<>>)]
HotelRate == [store_rate |-> NonRO(<<Store>>), ro_get_rates |-> RO(<<>>)]
HotelReservation ==
    [ro_check_availability |-> RO(<<>>), make_reservation |-> NonRO(<<Store>>),
     add_hotel_availability |-> NonRO(<<Store>>)]
\* Faulty: the profiles are read for the search as well as for the frontend.
HotelSearchDiamond ==
    [ro_nearby |-> RO(<<Call("rate", "ro_get_rates"), Call("profile", "ro_get_profiles")>>),
     store_hotel_location |-> NonRO(<<Store>>)]

HotelSearch ==
    [ro_nearby |-> RO(<<Call("rate", "ro_get_rates")>>),
     store_hotel_location |-> NonRO(<<Store>>)]
HotelUser == [register_user |-> NonRO(<<Store>>), login |-> NonRO(<<>>)]

-----------------------------------------------------------------------------
\* Social network.

SocialComposePost ==
    [compose_post |->
        NonRO(<<Call("poststorage", "store_post"), Call("usertimeline", "write_user_timeline"),
                Call("hometimeline", "write_home_timeline")>>),
     compose_post_multi |->
        NonRO(<<Call("poststorage", "store_post_multi"),
                Call("usertimeline", "write_user_timeline"),
                Call("hometimeline", "write_home_timeline")>>)]
SocialHomeTimeline ==
    [ro_read_home_timeline |-> RO(<<MayStop, Call("poststorage", "ro_read_posts")>>),
     write_home_timeline |-> NonRO(<<Call("socialgraph", "ro_get_followers"), Store>>)]
\* Faulty: reading posts counts the readers.
SocialPostStorageCounts ==
    [store_post |-> NonRO(<<Store>>), store_post_multi |-> NonRO(<<Store>>),
     ro_read_post |-> RO(<<Store>>), ro_read_posts |-> RO(<<Store>>)]

SocialPostStorage ==
    [store_post |-> NonRO(<<Store>>), store_post_multi |-> NonRO(<<Store>>),
     ro_read_post |-> RO(<<>>), ro_read_posts |-> RO(<<>>)]
SocialSocialGraph ==
    [insert_user |-> NonRO(<<Store>>), follow |-> NonRO(<<Store>>),
     follow_multi |-> NonRO(<<Store>>),
     ro_get_followers |-> RO(<<>>), ro_get_followees |-> RO(<<>>)]
\* With -prefetch a goroutine reads the next user's timeline too, with the
\* context of the handler that started it; it counts as a part of that handler.
SocialUserTimeline ==
    [ro_read_user_timeline |-> RO(<<MayStop, Call("poststorage", "ro_read_posts"), Some("poststorage", "ro_read_posts")>>),
     write_user_timeline |-> NonRO(<<Store>>)]

-----------------------------------------------------------------------------
\* Movie reviews.

MovieCastInfo == [store_cast_info |-> NonRO(<<Store>>), ro_read_cast_infos |-> RO(<<>>)]
MovieComposeReview ==
    [compose_review |-> NonRO(<<Call("reviewstorage", "store_review"),
                                Call("moviereviews", "upload_movie_review"),
                                Call("userreviews", "upload_user_review")>>)]
MovieFrontend ==
    [compose |-> NonRO(<<Call("user", "login"), MayStop, Call("uniqueid", "get_unique_id"),
                         Call("user", "ro_get_user_id"), Call("movieid", "ro_get_movie_id"),
                         Call("composereview", "compose_review")>>)]
MovieMovieId == [register_movie_id |-> NonRO(<<Store>>), ro_get_movie_id |-> RO(<<>>)]
MovieMovieInfo == [store_movie_info |-> NonRO(<<Store>>), ro_read_movie_info |-> RO(<<>>)]
MovieMovieReviews ==
    [upload_movie_review |-> NonRO(<<Store>>),
     ro_read_movie_reviews |-> RO(<<Call("reviewstorage", "ro_read_reviews")>>)]
\* With -prefetch the next page is read after the first.
MoviePage ==
    LET ReadPage == <<Call("movieinfo", "ro_read_movie_info"),
                      Call("castinfo", "ro_read_cast_infos"), Call("plot", "ro_read_plot"),
                      Call("moviereviews", "ro_read_movie_reviews")>>
    IN  [ro_read_page |-> RO(ReadPage \o <<MayStop>> \o ReadPage)]
MoviePlot == [write_plot |-> NonRO(<<Store>>), ro_read_plot |-> RO(<<>>)]
MovieReviewStorage == [store_review |-> NonRO(<<Store>>), ro_read_reviews |-> RO(<<>>)]
MovieUniqueId == [get_unique_id |-> NonRO(<<>>)]
MovieUser ==
    [register_user |-> NonRO(<<Store>>), login |-> NonRO(<<>>), ro_get_user_id |-> RO(<<>>)]
MovieUserReviews ==
    [upload_user_review |-> NonRO(<<Store>>),
     ro_read_user_reviews |-> RO(<<Call("reviewstorage", "ro_read_reviews")>>)]

-----------------------------------------------------------------------------
\* Online boutique.

BoutiqueCart ==
    [add_item |-> NonRO(<<Store>>), ro_get_cart |-> RO(<<>>), empty_cart |-> NonRO(<<Store>>)]
BoutiqueCheckout ==
    [place_order |->
        NonRO(<<Call("cart", "ro_get_cart"), Some("productcatalog", "ro_get_product"),
                Some("currency", "ro_convert_currency"), Call("shipping", "ro_get_quote"),
                Call("currency", "ro_convert_currency"), Call("payment", "charge"),
                Call("shipping", "ship_order"), Call("cart", "empty_cart")>>)]
BoutiqueCurrency ==
    [set_currency |-> NonRO(<<Store>>), init_currencies |-> NonRO(<<Store>>),
     ro_get_currencies |-> RO(<<>>), ro_convert_currency |-> RO(<<>>)]
BoutiqueEmail == [ro_send_email |-> RO(<<>>)]
\* checkout is registered with the read-only wrapper, although it places an order.
BoutiqueFrontend ==
    [ro_home |-> RO(<<Call("currency", "ro_get_currencies"), Call("cart", "ro_get_cart"),
                      Call("productcatalog", "ro_fetch_catalog")>>),
     ro_browse_product |-> RO(<<Call("productcatalog", "ro_get_product"),
                               Some("productcatalog", "ro_get_product")>>),
     ro_view_cart |-> RO(<<Call("cart", "ro_get_cart")>>),
     checkout |-> RO(<<Call("checkout", "place_order")>>)]
BoutiquePayment == [charge |-> NonRO(<<>>)]
BoutiqueProductCatalog ==
    [add_product |-> NonRO(<<Store>>), add_products |-> NonRO(<<Store>>),
     ro_get_product |-> RO(<<>>), ro_search_products |-> RO(<<>>), ro_fetch_catalog |-> RO(<<>>)]
BoutiqueRecommendations ==
    [ro_get_recommendations |-> RO(<<Call("productcatalog", "ro_fetch_catalog")>>)]
BoutiqueShipping == [ro_get_quote |-> RO(<<>>), ship_order |-> NonRO(<<>>)]

-----------------------------------------------------------------------------
Apps ==
    [hotel |-> [frontend |-> HotelFrontend, profile |-> HotelProfile, rate |-> HotelRate,
                reservation |-> HotelReservation, search |-> HotelSearch, user |-> HotelUser],
     social |-> [composepost |-> SocialComposePost, hometimeline |-> SocialHomeTimeline,
                 poststorage |-> SocialPostStorage, socialgraph |-> SocialSocialGraph,
                 usertimeline |-> SocialUserTimeline],
     movie |-> [castinfo |-> MovieCastInfo, composereview |-> MovieComposeReview,
                frontend |-> MovieFrontend, movieid |-> MovieMovieId,
                movieinfo |-> MovieMovieInfo, moviereviews |-> MovieMovieReviews,
                page |-> MoviePage, plot |-> MoviePlot, reviewstorage |-> MovieReviewStorage,
                uniqueid |-> MovieUniqueId, user |-> MovieUser,
                userreviews |-> MovieUserReviews],
     boutique |-> [cart |-> BoutiqueCart, checkout |-> BoutiqueCheckout,
                   currency |-> BoutiqueCurrency, email |-> BoutiqueEmail,
                   frontend |-> BoutiqueFrontend, payment |-> BoutiquePayment,
                   productcatalog |-> BoutiqueProductCatalog,
                   recommendations |-> BoutiqueRecommendations,
                   shipping |-> BoutiqueShipping],
     acmeair |-> [flight |-> AcmeairFlight],
     chain |-> [service1 |-> ChainService1, service2 |-> ChainService2,
                service3 |-> ChainService3, service4 |-> ChainService4,
                backend |-> ChainBackend],
     chain3 |-> [service1 |-> Chain3Service1, service2 |-> Chain3Service2,
                 backend |-> Chain3Backend],
     chain4 |-> [service1 |-> Chain4Service1, service2 |-> Chain4Service2,
                 service3 |-> Chain4Service3, backend |-> Chain4Backend],
     star |-> [frontend |-> StarFrontend, backend1 |-> StarBackend1, backend2 |-> StarBackend2,
               backend3 |-> StarBackend3, backend4 |-> StarBackend4],
     fanin |-> [frontend1 |-> FaninFrontend1, frontend2 |-> FaninFrontend2,
                frontend3 |-> FaninFrontend3, frontend4 |-> FaninFrontend4,
                backend |-> FaninBackend],
     twoservices |-> [caller |-> TwoServicesCaller, callee |-> TwoServicesCallee],
     singleservice |-> [service |-> SingleService]]
=============================================================================
