------------------------------ MODULE Boutique ------------------------------
(***************************************************************************)
(* The boutique: carts, orders and the money they cost.  Requests of       *)
(* concurrent clients, each a run that reads and writes one store of one   *)
(* service at a time; a call that fails panics, and ends its run.  Items   *)
(* of a cart are numbered, to tell them apart in the properties.           *)
(***************************************************************************)
EXTENDS Integers, Sequences, FiniteSets, SequencesExt

CONSTANTS
    Client, User, ProductId,
    Price,          \* of a product, in PriceUsd units
    Currency, Rate, \* whole numbers, the code parses them as floats
    Quantity,
    NanosMod,       \* 100: all amounts are whole cents; 10^9 in the code
    CatalogSize,    \* 1000 in the code
    MaxRequests,    \* bound: requests of all clients
    Missing

VARIABLES db, run, log

vars == <<db, run, log>>

Idle == [at |-> "idle"]

\* The stores start empty, or as the populate script of the experiments leaves them.
Init ==
    /\ \E populated \in BOOLEAN :
          db = [keys |-> IF populated THEN SetToSeq(ProductId) ELSE Missing,
                products |-> IF populated THEN ProductId ELSE {},
                codes |-> IF populated THEN SetToSeq(Currency) ELSE Missing,
                rates |-> IF populated THEN Currency ELSE {},
                cart |-> [u \in User |-> <<>>], line |-> [u \in User |-> Missing],
                answered |-> [u \in User |-> {}]]
    /\ run = [c \in Client |-> Idle]
    /\ log = [requests |-> 0, added |-> {}, raced |-> {}, charges |-> <<>>]

Goto(c, r) == run' = [run EXCEPT ![c] = r]
End(c) == Goto(c, Idle)
At(c, at) == run[c].at = at

\* The first read of the store is part of the first step.
Begin(c, r) ==
    /\ At(c, "idle")
    /\ log.requests < MaxRequests
    /\ Goto(c, r)

Counted == [log EXCEPT !.requests = @ + 1]

-----------------------------------------------------------------------------
\* Money.  Go truncates quotients and remainders towards zero.

Quo(a, b) == IF a >= 0 THEN a \div b ELSE -((-a) \div b)
Rem(a, b) == a - b * Quo(a, b)
Money(units, nanos) == [units |-> units, nanos |-> nanos]

\* Faulty: the carry is forgotten.
SumNoCarry(l, r) == Money(l.units + r.units, Rem(l.nanos + r.nanos, NanosMod))
Sum(l, r) ==
    LET units == l.units + r.units
        nanos == l.nanos + r.nanos
        sameSign == \/ units = 0 /\ nanos = 0
                    \/ units > 0 /\ nanos >= 0
                    \/ units < 0 /\ nanos <= 0
    IN  IF sameSign THEN Money(units + Quo(nanos, NanosMod), Rem(nanos, NanosMod))
        ELSE IF units > 0 THEN Money(units - 1, nanos + NanosMod)
        ELSE Money(units + 1, nanos - NanosMod)

\* A quantity of zero is multiplied by one.
MultiplySlow(m, n) ==
    LET out[k \in 1..(n + 1)] == IF k = 1 THEN m ELSE Sum(out[k - 1], m)
    IN  IF n > 1 THEN out[n] ELSE m

\* _carry(units / by, nanos / by): it adds a whole unit before it carries and
\* drops the fraction of the units.
carry(units, nanos, by) ==
    Money(units \div by + (nanos + NanosMod * by) \div (NanosMod * by),
          ((2 * nanos + by) \div (2 * by)) % NanosMod)

ConvertCurrency(m, from, to) ==
    LET euros == carry(m.units, m.nanos, Rate[from])
    IN  carry(euros.units * Rate[to], euros.nanos * Rate[to], 1)

\* 8.99 for each item of the cart, whatever its quantity.
GetQuote(items) ==
    LET cents == 899 * Len(items)
    IN  Money(cents \div 100, (cents % 100) * (NanosMod \div 100))

-----------------------------------------------------------------------------
\* product_catalog and currency: the writers.

AddProduct(c) ==
    \E p \in ProductId :
       /\ Begin(c, [at |-> "listProducts", products |-> <<p>>, most |-> MaxRequests + 1,
                    got |-> IF db.keys = Missing THEN <<>> ELSE db.keys])
       /\ log' = Counted
       /\ UNCHANGED db
AddProducts(c) ==
    LET got == IF db.keys = Missing THEN <<>> ELSE db.keys
    IN  /\ Begin(c, [at |-> "listProducts", products |-> SetToSeq(ProductId),
                     most |-> CatalogSize - Len(got), got |-> got])
        /\ log' = Counted
        /\ UNCHANGED db
ListProducts(c) ==
    /\ At(c, "listProducts")
    /\ db' = IF run[c].most <= 0 THEN db
             ELSE [db EXCEPT !.keys = run[c].got \o
                      SubSeq(run[c].products, 1,
                             IF Len(run[c].products) < run[c].most THEN Len(run[c].products)
                             ELSE run[c].most)]
    /\ Goto(c, [at |-> "storeProducts", products |-> run[c].products])
    /\ UNCHANGED log
StoreProducts(c) ==
    /\ At(c, "storeProducts")
    /\ db' = [db EXCEPT !.products = @ \cup Range(run[c].products)]
    /\ End(c)
    /\ UNCHANGED log

SetCurrencySupport ==
    \E x \in Currency \ db.rates :
       /\ db' = [db EXCEPT !.rates = @ \cup {x}]
       /\ UNCHANGED <<run, log>>
InitCurrencies ==
    /\ db.codes = Missing
    /\ db.rates = Currency
    /\ db' = [db EXCEPT !.codes = SetToSeq(Currency)]
    /\ UNCHANGED <<run, log>>

-----------------------------------------------------------------------------
\* Readers: they only answer or panic.

FetchCatalog(size) ==
    IF size < Len(db.keys) THEN SubSeq(db.keys, 1, size) ELSE db.keys

Home(c) ==
    /\ Begin(c, [at |-> "readCurrencies"])
    /\ log' = Counted
    /\ UNCHANGED db
SearchProducts(c) ==
    /\ Begin(c, [at |-> "search", got |-> db.keys])
    /\ log' = Counted
    /\ UNCHANGED db
GetRecommendations(c) ==
    \E S \in SUBSET ProductId :
       /\ Begin(c, [at |-> "recommend", given |-> S])
       /\ log' = Counted
       /\ UNCHANGED db

\* GetSupportedCurrencies and FetchCatalog panic before anything is listed and
\* answer a blank for what is listed and not stored; SearchProducts panics then.
Reads(c) ==
    /\ \/ /\ At(c, "readCurrencies")
          /\ Goto(c, IF db.codes = Missing THEN Idle ELSE [at |-> "readCatalog"])
       \/ At(c, "readCatalog") /\ End(c)
       \/ At(c, "search") /\ End(c)
    /\ UNCHANGED <<db, log>>

\* FetchCatalogRequest{} asks for a catalog of size 0, and
\* make([]string, 0, len(catalog) - len(given)) panics at a negative capacity.
RecommendPanics(c) ==
    /\ At(c, "recommend")
    /\ db.keys = Missing \/ Len(FetchCatalog(0)) < Cardinality(run[c].given)
Recommend(c) ==
    /\ At(c, "recommend")
    /\ End(c)
    /\ UNCHANGED <<db, log>>

-----------------------------------------------------------------------------
\* cart.

Ordering == {"getProduct", "convert", "quoteShipping", "chargeCard", "shipOrder", "emptyCart"}

\* d holds a copy of u's cart.
Holds(d, u) == run[d].at \in Ordering \cup {"setCart"} /\ run[d].user = u

\* When a cart is written or charged while another run holds a copy of it, the
\* items in the copies and in the cart are marked.
Marked(c, newCart) ==
    LET u == run[c].user
        others == {d \in Client \ {c} : Holds(d, u)}
    IN  IF others = {} THEN log.raced
        ELSE log.raced \cup Range(newCart) \cup Range(db.cart[u])
               \cup UNION {Range(run[d].got) : d \in others \cup {c}}

AddToCart(c) ==
    \E u \in User, p \in ProductId, q \in Quantity :
       /\ Begin(c, [at |-> "setCart", user |-> u, got |-> db.cart[u],
                    item |-> [id |-> log.requests, product |-> p, quantity |-> q]])
       /\ log' = Counted
       /\ UNCHANGED db
\* Faulty: the item replaces the cart.
SetCartAnew(c) ==
    /\ At(c, "setCart")
    /\ db' = [db EXCEPT !.cart[run[c].user] = <<run[c].item>>]
    /\ End(c)
    /\ log' = [log EXCEPT !.added = @ \cup {run[c].item}, !.raced = Marked(c, <<run[c].item>>)]
SetCart(c) ==
    LET newCart == Append(run[c].got, run[c].item)
    IN  /\ At(c, "setCart")
        /\ db' = [db EXCEPT !.cart[run[c].user] = newCart]
        /\ End(c)
        /\ log' = [log EXCEPT !.added = @ \cup {run[c].item}, !.raced = Marked(c, newCart)]

-----------------------------------------------------------------------------
\* checkout.PlaceOrder.  got: the cart it read; costs: of the items prepared.

\* Invoke: a hit in checkout's cache, or else the cart service answers.
getUserCart(u) == IF db.line[u] # Missing THEN db.line[u] ELSE db.cart[u]

\* What an older line of the cache and the cart do not share: an order made of
\* that line loses the items only the cart has, and charges those only the
\* line has again.  They are marked as the items of a race are.
Outdated(u) == SymDiff(Range(getUserCart(u)), Range(db.cart[u]))

PlaceOrder(c) ==
    \E u \in User, to \in Currency :
       /\ Begin(c, [at |-> "getProduct", user |-> u, to |-> to, got |-> getUserCart(u),
                    costs |-> <<>>, shipping |-> Money(0, 0)])
       /\ db' = IF db.line[u] # Missing THEN db
                ELSE [db EXCEPT !.answered[u] = @ \cup {db.cart[u]}]
       /\ log' = [Counted EXCEPT !.raced = @ \cup Outdated(u)]

\* The managers save an answer in checkout's cache, and drop it there after a
\* write of the cart, when they come to it: any time.
CacheSave(u) ==
    /\ \E cart \in db.answered[u] : db' = [db EXCEPT !.line[u] = cart]
    /\ UNCHANGED <<run, log>>
CacheRemove(u) ==
    /\ db.line[u] # Missing
    /\ db' = [db EXCEPT !.line[u] = Missing]
    /\ UNCHANGED <<run, log>>

Prepared(c) == Len(run[c].costs) = Len(run[c].got)
Next2Prepare(c) == run[c].got[Len(run[c].costs) + 1]

\* A product or a currency that is not there panics.
GetProduct(c) ==
    /\ At(c, "getProduct")
    /\ Goto(c, IF Prepared(c) THEN [run[c] EXCEPT !.at = "quoteShipping"]
               ELSE IF Next2Prepare(c).product \in db.products
                    THEN [run[c] EXCEPT !.at = "convert"] ELSE Idle)
    /\ UNCHANGED <<db, log>>
Convertible(c) == {"USD", run[c].to} \subseteq db.rates
ConvertPrice(c) ==
    LET cost == ConvertCurrency(Price[Next2Prepare(c).product], "USD", run[c].to)
    IN  /\ At(c, "convert")
        /\ Goto(c, IF Convertible(c)
                   THEN [run[c] EXCEPT !.at = "getProduct", !.costs = Append(@, cost)]
                   ELSE Idle)
        /\ UNCHANGED <<db, log>>
QuoteShipping(c) ==
    LET quote == ConvertCurrency(GetQuote(run[c].got), "USD", run[c].to)
    IN  /\ At(c, "quoteShipping")
        /\ Goto(c, IF Convertible(c) THEN [run[c] EXCEPT !.at = "chargeCard", !.shipping = quote]
                   ELSE Idle)
        /\ UNCHANGED <<db, log>>

\* Item: &item is the loop variable's address: every order item names the
\* last item of the cart.
OrderItems(c) ==
    [i \in DOMAIN run[c].got |-> [item |-> Last(run[c].got), cost |-> run[c].costs[i]]]

Total(c) ==
    LET items == OrderItems(c)
        total[i \in 0..Len(items)] ==
           IF i = 0 THEN Sum(Money(0, 0), run[c].shipping)
           ELSE Sum(total[i - 1], MultiplySlow(items[i].cost, items[i].item.quantity))
    IN  total[Len(items)]

\* A card that is refused panics.
ChargeCard(c) ==
    /\ At(c, "chargeCard")
    /\ \/ End(c) /\ UNCHANGED log
       \/ /\ Goto(c, [run[c] EXCEPT !.at = "shipOrder"])
          /\ log' = [log EXCEPT !.raced = Marked(c, <<>>),
                 !.charges = Append(@, [of |-> c, items |-> run[c].got, costs |-> run[c].costs,
                    shipping |-> run[c].shipping, total |-> Total(c), emptied |-> FALSE])]
    /\ UNCHANGED db
\* Faulty: the order ends without emptying the cart.
ShipOrderOnly(c) ==
    /\ At(c, "shipOrder")
    /\ End(c)
    /\ log' = [log EXCEPT !.charges = [i \in DOMAIN @ |->
                  IF @[i].of = c THEN [@[i] EXCEPT !.emptied = TRUE] ELSE @[i]]]
    /\ UNCHANGED db
ShipOrder(c) ==
    /\ At(c, "shipOrder")
    /\ Goto(c, [run[c] EXCEPT !.at = "emptyCart"])
    /\ UNCHANGED <<db, log>>

\* EmptyCart writes an empty cart over whatever it reads.
EmptyCart(c) ==
    /\ At(c, "emptyCart")
    /\ db' = [db EXCEPT !.cart[run[c].user] = <<>>]
    /\ End(c)
    /\ log' = [log EXCEPT !.raced = Marked(c, <<>>),
                  !.charges = [i \in DOMAIN @ |-> IF @[i].of = c THEN [@[i] EXCEPT !.emptied = TRUE]
                                                  ELSE @[i]]]

\* A call of the order is refused or not answered: performRequest panics, the
\* handler with it, and what was done stays done.
OrderFails(c) ==
    /\ run[c].at \in Ordering
    /\ End(c)
    /\ log' = [log EXCEPT !.charges = [i \in DOMAIN @ |->
                  IF @[i].of = c /\ ~@[i].emptied THEN [@[i] EXCEPT !.of = "failed"] ELSE @[i]]]
    /\ UNCHANGED db

-----------------------------------------------------------------------------
Step(c) ==
    \/ AddProduct(c) \/ AddProducts(c) \/ ListProducts(c) \/ StoreProducts(c)
    \/ Home(c) \/ SearchProducts(c) \/ Reads(c) \/ GetRecommendations(c) \/ Recommend(c)
    \/ AddToCart(c) \/ SetCart(c)
    \/ PlaceOrder(c) \/ GetProduct(c) \/ ConvertPrice(c) \/ QuoteShipping(c) \/ ChargeCard(c)
    \/ ShipOrder(c) \/ EmptyCart(c) \/ OrderFails(c)

Next ==
    \/ \E c \in Client : Step(c)
    \/ \E u \in User : CacheSave(u) \/ CacheRemove(u)
    \/ SetCurrencySupport \/ InitCurrencies

Spec == Init /\ [][Next]_vars

-----------------------------------------------------------------------------
\* An item whose AddItem returned is in the cart until an order of it is
\* charged, unless its cart was written while another run held a copy of it
\* (an item added between an order's reading and emptying the cart is lost),
\* or an order was made of a line of checkout's cache that lacked the item.
CartLosesNothing ==
    \A item \in log.added \ log.raced :
       \/ \E u \in User : item \in Range(db.cart[u])
       \/ \E i \in DOMAIN log.charges : item \in Range(log.charges[i].items)

\* No item is charged twice, but when the first order failed between the
\* charge and the emptying of the cart, in a race over the cart, or when an
\* order was made of a line of checkout's cache and the cart then lacked the
\* item or had it beyond that line.
ChargedOnce ==
    \A i, j \in DOMAIN log.charges : i < j /\ log.charges[i].emptied =>
       Range(log.charges[i].items) \cap Range(log.charges[j].items) \subseteq log.raced

Cents(m) == m.units * NanosMod + m.nanos

\* The amount charged is the shipping cost and the cost of each item of the
\* order times its quantity, to the last cent, when all quantities of the cart
\* are the same and at least 1.  (The code uses the last item's for all.)
ChargeAddsUp ==
    \A i \in DOMAIN log.charges :
       LET order == log.charges[i]
           due[k \in 0..Len(order.items)] ==
              IF k = 0 THEN Cents(order.shipping)
              ELSE due[k - 1] + Cents(order.costs[k]) * order.items[k].quantity
       IN  /\ -NanosMod < order.total.nanos /\ order.total.nanos < NanosMod
           /\ (\A k \in DOMAIN order.items :
                  order.items[k].quantity > 0 /\ order.items[k].quantity = order.items[1].quantity)
                => Cents(order.total) = due[Len(order.items)]

\* What the test of the boutique asks of ro_get_recommendations once products
\* are listed: it answers, whatever products it was given.
RecommendsOthers ==
    \A c \in Client : At(c, "recommend") /\ db.keys # Missing => ~RecommendPanics(c)
=============================================================================
