------------------------------ MODULE Commerce ------------------------------
(***************************************************************************)
(* The shop: services/commerce.py.  Carts are edited by reading them and   *)
(* writing absolute quantities; a checkout locks the cart, reads it again, *)
(* takes the stock and empties the cart; a payment posts points in its own *)
(* transaction; unpaid orders lapse and are swept by whoever comes next.   *)
(***************************************************************************)
EXTENDS PointsLedger, FiniteSets, FiniteSetsExt

CONSTANTS
    Keys,           \* idempotency keys of checkouts
    Products,
    Stock,          \* product_inventories.stock as seeded
    MaxLine,        \* the largest quantity of a cart line (99)
    Price,          \* products.price_cents
    Discounts       \* discount_bps of the campaigns a product is under

StockAssumption  == Stock \in [Products -> Nat] /\ MaxLine \in Nat
FiniteAssumption == IsFiniteSet(Users) /\ IsFiniteSet(Keys) /\ IsFiniteSet(Products)
WorkersAssumption == Nobody \notin Workers

VARIABLES
    carts,          \* cart_items of each user: the quantity of each row, 0 without a row
    stock,          \* product_inventories.stock
    orders,         \* shop_orders with their lines, by user and checkout key
    doing           \* what each request is doing

vars == <<balance, entries, accountLock, carts, stock, orders, doing>>

-----------------------------------------------------------------------------
(* authoritative_price: the best campaign there is, rounded down. *)
EffectivePrice(p) ==
    IF Discounts[p] = {} THEN Price[p]
    ELSE (Price[p] * (10000 - Max(Discounts[p]))) \div 10000

Total(items) == MapThenSumSet(LAMBDA p : EffectivePrice(p) * items[p], Products)

(* A point for a whole hundred, and never none. *)
PointsFor(items) == Max({Total(items) \div 100, 1})

Lines == [Products -> 0 .. MaxLine]

PricesAssumption == \A items \in Lines : PointsFor(items) \in Nat \ {0}

EmptyCart == [p \in Products |-> 0]

Order(status, due, items) == [status |-> status, due |-> due, items |-> items]

InStatus(status) == {o \in DOMAIN orders : orders[o].status = status}

DueOrders == {o \in InStatus("PENDING_PAYMENT") : orders[o].due}

-----------------------------------------------------------------------------
(* What a request remembers between two statements. *)

Idle == [op |-> "idle"]

Editing(op, u, p, row, quantity) ==
    [op |-> op, user |-> u, product |-> p, row |-> row, quantity |-> quantity]

CheckingOut(u, k, items) == [op |-> "checkout", user |-> u, key |-> k, items |-> items]

Paying(o) == [op |-> "pay", order |-> o]

Sweeping(S) == [op |-> "sweep", orders |-> S]

Continue(w, record) == doing' = [doing EXCEPT ![w] = record]

End(w) == Continue(w, Idle)

(* Row locks to the end of a transaction: the cart's of a checkout, and a  *)
(* line's of an edit whose quantity the next SELECT has flushed.           *)
CartLocked(u) == \E v \in Workers : doing[v].op = "checkout" /\ doing[v].user = u

LineLocked(u, p) ==
    \E v \in Workers :
        doing[v].op = "flushed" /\ doing[v].user = u /\ doing[v].product = p

(* When a row is deleted, a request that has loaded it can only fail.      *)
RowsGone(w, u, P) ==
    doing' = [v \in Workers |->
                IF v = w THEN Idle
                ELSE IF /\ doing[v].op \in {"add", "update", "remove"}
                        /\ doing[v].user = u /\ doing[v].product \in P /\ doing[v].row
                     THEN [doing[v] EXCEPT !.op = "stale"]
                     ELSE doing[v]]

Init ==
    /\ AccountsInit
    /\ carts = [u \in Users |-> EmptyCart]
    /\ stock = Stock
    /\ orders = [o \in {} |-> {}]
    /\ doing = [w \in Workers |-> Idle]

(* Time passes. *)
OrderLapses(o) ==
    /\ o \in InStatus("PENDING_PAYMENT")
    /\ ~ orders[o].due
    /\ orders' = [orders EXCEPT ![o].due = TRUE]
    /\ UNCHANGED <<accounts, carts, stock, doing>>

-----------------------------------------------------------------------------
(* add_cart_item adds to the quantity it has read. *)
ReadToAdd(w, u, p, n) ==
    /\ doing[w] = Idle
    /\ LET next == carts[u][p] + n
       IN  /\ next =< MaxLine /\ next =< stock[p]
           /\ Continue(w, Editing("add", u, p, carts[u][p] > 0, next))
    /\ UNCHANGED <<accounts, carts, stock, orders>>

(* update_cart_item, remove_cart_item.  The quantity a line already has is *)
(* not written.                                                            *)
ReadToUpdate(w, u, p, n) ==
    /\ doing[w] = Idle
    /\ carts[u][p] \notin {0, n} /\ n =< stock[p]
    /\ Continue(w, Editing("update", u, p, TRUE, n))
    /\ UNCHANGED <<accounts, carts, stock, orders>>

ReadToRemove(w, u, p) ==
    /\ doing[w] = Idle
    /\ carts[u][p] > 0
    /\ Continue(w, Editing("remove", u, p, TRUE, 0))
    /\ UNCHANGED <<accounts, carts, stock, orders>>

(* The price of an update is looked up after its quantity is assigned, so  *)
(* the session writes the line before it writes the cart.                  *)
FlushLine(w) ==
    /\ doing[w].op = "update"
    /\ ~ LineLocked(doing[w].user, doing[w].product)
    /\ Continue(w, [doing[w] EXCEPT !.op = "flushed"])
    /\ UNCHANGED <<accounts, carts, stock, orders>>

(* Bug: a checkout does not lock the cart. *)
CartAlwaysWritable(u) == TRUE

(* The version of the cart is written with every edit, which waits for a   *)
(* checkout to end.                                                        *)
CartWritable(u) == ~ CartLocked(u)

CommitAdd(w) ==
    /\ doing[w].op = "add"
    /\ LET m == doing[w]
       IN  /\ CartWritable(m.user)
           /\ IF m.row THEN ~ LineLocked(m.user, m.product)
                       ELSE carts[m.user][m.product] = 0
           /\ carts' = [carts EXCEPT ![m.user][m.product] = m.quantity]
    /\ End(w)
    /\ UNCHANGED <<accounts, stock, orders>>

CommitUpdate(w) ==
    /\ doing[w].op = "flushed"
    /\ LET m == doing[w]
       IN  /\ CartWritable(m.user)
           /\ carts' = [carts EXCEPT ![m.user][m.product] = m.quantity]
    /\ End(w)
    /\ UNCHANGED <<accounts, stock, orders>>

CommitRemove(w) ==
    /\ doing[w].op = "remove"
    /\ LET m == doing[w]
       IN  /\ CartWritable(m.user)
           /\ ~ LineLocked(m.user, m.product)
           /\ carts' = [carts EXCEPT ![m.user][m.product] = 0]
           /\ RowsGone(w, m.user, {m.product})
    /\ UNCHANGED <<accounts, stock, orders>>

-----------------------------------------------------------------------------
(* checkout_cart: locking the cart, the second look for the key, and the   *)
(* second reading of the lines, which is the one that counts.              *)
LockCart(w, u, k) ==
    /\ doing[w] = Idle
    /\ CartWritable(u)
    /\ <<u, k>> \notin DOMAIN orders
    /\ carts[u] # EmptyCart
    /\ Continue(w, CheckingOut(u, k, carts[u]))
    /\ UNCHANGED <<accounts, carts, stock, orders>>

(* Bug: the UPDATE of the stock has no condition. *)
InAnyStock(items) == TRUE

InStock(items) == \A p \in Products : stock[p] >= items[p]

(* Every line takes its stock or the whole checkout fails; the DELETE of   *)
(* the lines waits for flushed edits.                                      *)
CommitCheckout(w) ==
    /\ doing[w].op = "checkout"
    /\ LET m == doing[w]
           o == <<m.user, m.key>>
       IN  /\ InStock(m.items)
           /\ o \notin DOMAIN orders
           /\ \A p \in Products : ~ LineLocked(m.user, p)
           /\ stock' = [p \in Products |-> stock[p] - m.items[p]]
           /\ orders' = [x \in DOMAIN orders \cup {o} |->
                           IF x = o THEN Order("PENDING_PAYMENT", FALSE, m.items)
                                    ELSE orders[x]]
           /\ carts' = [carts EXCEPT ![m.user] = EmptyCart]
           /\ RowsGone(w, m.user, Products)
    /\ UNCHANGED accounts

-----------------------------------------------------------------------------
(* expire_shop_orders, which nearly every request runs and commits first.  *)
SelectDue(w) ==
    /\ doing[w] = Idle
    /\ DueOrders # {}
    /\ Continue(w, Sweeping(DueOrders))
    /\ UNCHANGED <<accounts, carts, stock, orders>>

(* Bug: the UPDATE of an order has no condition on its status. *)
AsSelected(S) == S

(* What the conditional UPDATE of an order matches; its version changes    *)
(* with its status only.                                                   *)
StillPending(S) == S \cap InStatus("PENDING_PAYMENT")

(* The units of a product that some orders took. *)
Units(p, S) == UNION {{o} \X (1 .. orders[o].items[p]) : o \in S}

CommitSweep(w) ==
    /\ doing[w].op = "sweep"
    /\ LET S == StillPending(doing[w].orders)
       IN  /\ orders' = [o \in DOMAIN orders |->
                           IF o \in S THEN [orders[o] EXCEPT !.status = "EXPIRED"]
                                      ELSE orders[o]]
           /\ stock' = [p \in Products |-> stock[p] + Cardinality(Units(p, S))]
    /\ End(w)
    /\ UNCHANGED <<accounts, carts>>

(* pay_shop_order reads the clock before it asks the provider.  A due      *)
(* order is swept instead.                                                 *)
ReadToPay(w, o) ==
    /\ doing[w] = Idle
    /\ o \in InStatus("PENDING_PAYMENT")
    /\ ~ orders[o].due
    /\ Continue(w, Paying(o))
    /\ UNCHANGED <<accounts, carts, stock, orders>>

CommitPayment(w) ==
    /\ doing[w].op = "pay"
    /\ LET o == doing[w].order
       IN  /\ StillPending({o}) # {}
           /\ accountLock[o[1]] = Nobody
           /\ orders' = [orders EXCEPT ![o].status = "PAID"]
           /\ Award(o[1], o[2], PointsFor(orders[o].items))
    /\ End(w)
    /\ UNCHANGED <<accountLock, carts, stock>>

(* A refused, failed, repeated or deadlocked request, or a crash. *)
Rollback(w) ==
    /\ doing[w] # Idle
    /\ End(w)
    /\ UNCHANGED <<accounts, carts, stock, orders>>

Commit(w) ==
    \/ CommitAdd(w) \/ CommitUpdate(w) \/ CommitRemove(w) \/ CommitCheckout(w)
    \/ CommitSweep(w) \/ CommitPayment(w)

Next ==
    \/ \E o \in DOMAIN orders : OrderLapses(o)
    \/ \E w \in Workers :
        \/ \E u \in Users, p \in Products :
            \/ \E n \in 1 .. MaxLine : ReadToAdd(w, u, p, n) \/ ReadToUpdate(w, u, p, n)
            \/ ReadToRemove(w, u, p)
        \/ \E u \in Users, k \in Keys : LockCart(w, u, k)
        \/ \E o \in DOMAIN orders : ReadToPay(w, o)
        \/ SelectDue(w) \/ FlushLine(w) \/ Commit(w) \/ Rollback(w)

Spec == Init /\ [][Next]_vars

-----------------------------------------------------------------------------
OrderRow == [status : {"PENDING_PAYMENT", "PAID", "EXPIRED"}, due : BOOLEAN, items : Lines]

Request == {Idle}
    \cup [op : {"add", "update", "remove", "flushed", "stale"}, user : Users,
          product : Products, row : BOOLEAN, quantity : 0 .. MaxLine]
    \cup [op : {"checkout"}, user : Users, key : Keys, items : Lines]
    \cup [op : {"pay"}, order : Users \X Keys]
    \cup [op : {"sweep"}, orders : SUBSET (Users \X Keys)]

TypeOK ==
    /\ AccountsTypeOK(Keys)
    /\ carts \in [Users -> Lines]
    /\ stock \in [Products -> Nat]
    /\ DOMAIN orders \subseteq Users \X Keys
    /\ \A o \in DOMAIN orders : orders[o] \in OrderRow
    /\ doing \in [Workers -> Request]

(* Every unit of a product is on the shelf or in exactly one order that is *)
(* paid or may still be paid, whoever races: checkouts that take several   *)
(* products or none, sweeps that selected the same lapsed order, and the   *)
(* payment of an order a sweep has selected.                               *)
StockExact ==
    \A p \in Products :
        stock[p] + Cardinality(Units(p, InStatus("PENDING_PAYMENT") \cup InStatus("PAID")))
            = Stock[p]

(* A paid order has earned its points, once and in full; an order that is  *)
(* not paid has earned none, although payments of one order overlap with   *)
(* each other and with the sweep that lets it lapse.                       *)
PaidOrdersEarned ==
    \A u \in Users :
        /\ \A i \in DOMAIN entries[u] : <<u, entries[u][i].source>> \in InStatus("PAID")
        /\ \A o \in InStatus("PAID") : o[1] = u =>
            \E i \in DOMAIN entries[u] :
                /\ entries[u][i].source = o[2]
                /\ entries[u][i].delta = PointsFor(orders[o].items)

(* A checkout sells the cart as it stands when it commits, no more and no  *)
(* less: an edit is either in the order or still in the cart, although the *)
(* cart is read twice and edited by other requests meanwhile.              *)
CheckoutSellsTheCart ==
    [][\A o \in DOMAIN orders' \ DOMAIN orders :
        /\ orders'[o].items = carts[o[1]]
        /\ carts'[o[1]] = EmptyCart]_vars

(* A paid order is never swept, an expired one never paid, and the lines   *)
(* of an order never change.                                               *)
OrdersAreFinal ==
    [][\A o \in DOMAIN orders :
        /\ o \in DOMAIN orders'
        /\ orders'[o].items = orders[o].items
        /\ orders[o].status # "PENDING_PAYMENT" => orders'[o].status = orders[o].status]_vars
=============================================================================
