-------------------------------- MODULE Cart ---------------------------------
(***************************************************************************)
(* Guest carts.  A cart row is found by its session key and has an id of   *)
(* its own, so a cart deleted and created again is another cart.  Adding   *)
(* and changing an item are several statements with other requests in      *)
(* between: the stock is looked at in one and the item written in a later  *)
(* one.  A cart reserves nothing.                                          *)
(***************************************************************************)
EXTENDS Stock, FiniteSets

CONSTANTS
  Sessions,     \* session keys
  CartIds,      \* cart row ids: a bound on the carts one behaviour creates
  Shoppers,     \* cart requests that may be in flight together
  Quantities,   \* quantities a shopper may ask for
  MaxLine       \* bound: the largest quantity a cart line is grown to

ASSUME QuantitiesAssumption == Quantities \subseteq Nat \ {0}
ASSUME CartIdsAssumption == None \notin CartIds

VARIABLES
  cartOf,   \* session -> id of its cart row
  used,     \* cart ids handed out so far
  lines,    \* cart id -> product -> quantity, 0 when there is no such item
  shopping  \* shopper -> the cart request it is serving

cartVars == <<cartOf, used, lines, shopping>>

Lines == [Products -> Nat]
NoLines == [p \in Products |-> 0]

Shopping ==
  [pc : {"check", "insert"}, cart : CartIds, product : Products, quantity : Quantities]
    \cup [pc : {"set"}, session : Sessions, product : Products, quantity : Quantities]

Live == {cartOf[s] : s \in Sessions} \ {None}

InitCart ==
  /\ cartOf = [s \in Sessions |-> None]
  /\ used = {}
  /\ lines = [c \in CartIds |-> NoLines]
  /\ shopping = [h \in Shoppers |-> None]

-----------------------------------------------------------------------------
\* INSERT INTO cart ... ON CONFLICT (session_key): the session's cart is id
\* afterwards, created now if the session had none.
UpsertCart(s, id) ==
  \/ /\ cartOf[s] = id
     /\ id # None
     /\ UNCHANGED <<cartOf, used>>
  \/ /\ cartOf[s] = None
     /\ id \in CartIds \ used
     /\ cartOf' = [cartOf EXCEPT ![s] = id]
     /\ used' = used \cup {id}

\* GET /cart/:session_key creates the cart it shows.
GetCart(s) ==
  /\ \E id \in CartIds : UpsertCart(s, id)
  /\ UNCHANGED <<lines, shopping>>

\* POST /cart/:session_key/items, up to the cart upsert.
BeginAdd(h, s, p, quantity) ==
  /\ shopping[h] = None
  /\ \E id \in CartIds :
       /\ UpsertCart(s, id)
       /\ shopping' = [shopping EXCEPT ![h] =
            [pc |-> "check", cart |-> id, product |-> p, quantity |-> quantity]]
  /\ UNCHANGED lines

\* ... the look at the stock, which may refuse the request ...
CheckAdd(h) ==
  /\ shopping[h] # None
  /\ shopping[h].pc = "check"
  /\ LET row      == stock[shopping[h].product]
         accepted == /\ row.status # "out_of_stock"
                     /\ shopping[h].quantity <= Free(row)
     IN  shopping' = [shopping EXCEPT ![h] =
                        IF accepted THEN [@ EXCEPT !.pc = "insert"] ELSE None]
  /\ UNCHANGED <<cartOf, used, lines>>

\* ... and the item upsert, which adds to the line there is by then.  It
\* fails on the foreign key when the cart has been deleted meanwhile.
InsertLine(h) ==
  /\ shopping[h] # None
  /\ shopping[h].pc = "insert"
  /\ LET r == shopping[h]
     IN  \/ /\ r.cart \in Live
            /\ lines[r.cart][r.product] + r.quantity <= MaxLine
            /\ lines' = [lines EXCEPT ![r.cart][r.product] = @ + r.quantity]
         \/ /\ r.cart \notin Live
            /\ UNCHANGED lines
  /\ shopping' = [shopping EXCEPT ![h] = None]
  /\ UNCHANGED <<cartOf, used>>

\* PATCH /cart/:session_key/items/:product_id: the look at the stock ...
BeginSet(h, s, p, quantity) ==
  /\ shopping[h] = None
  /\ quantity <= Free(stock[p])
  /\ shopping' = [shopping EXCEPT ![h] =
       [pc |-> "set", session |-> s, product |-> p, quantity |-> quantity]]
  /\ UNCHANGED <<cartOf, used, lines>>

\* ... and the write, to the item the session's cart has by then, if any.
SetLine(h) ==
  /\ shopping[h] # None
  /\ shopping[h].pc = "set"
  /\ LET r == shopping[h]
         c == cartOf[r.session]
     IN  IF c # None /\ lines[c][r.product] > 0
           THEN lines' = [lines EXCEPT ![c][r.product] = r.quantity]
           ELSE UNCHANGED lines
  /\ shopping' = [shopping EXCEPT ![h] = None]
  /\ UNCHANGED <<cartOf, used>>

\* The client goes away, a statement fails, or the server stops.
DropShopping(h) ==
  /\ shopping[h] # None
  /\ shopping' = [shopping EXCEPT ![h] = None]
  /\ UNCHANGED <<cartOf, used, lines>>

\* Mutant of RemoveItem: one unit is taken off the line.
RemoveOne(s, p) ==
  /\ cartOf[s] # None
  /\ lines' = [lines EXCEPT ![cartOf[s]][p] = @ - 1]
  /\ UNCHANGED <<cartOf, used, shopping>>

\* DELETE /cart/:session_key/items/:product_id.
RemoveItem(s, p) ==
  /\ cartOf[s] # None
  /\ lines' = [lines EXCEPT ![cartOf[s]][p] = 0]
  /\ UNCHANGED <<cartOf, used, shopping>>

\* Mutant of DeleteCart: no ON DELETE CASCADE.
DeleteCartRow(id) ==
  /\ cartOf' = [s \in Sessions |-> IF cartOf[s] = id THEN None ELSE cartOf[s]]
  /\ UNCHANGED <<lines, used>>

\* Deleting a cart row deletes its items (ON DELETE CASCADE).
DeleteCart(id) ==
  /\ cartOf' = [s \in Sessions |-> IF cartOf[s] = id THEN None ELSE cartOf[s]]
  /\ lines' = IF id \in Live THEN [lines EXCEPT ![id] = NoLines] ELSE lines
  /\ UNCHANGED used

\* DELETE /cart/:session_key.
ClearCart(s) ==
  /\ cartOf[s] # None
  /\ DeleteCart(cartOf[s])
  /\ UNCHANGED shopping

CartStep ==
  \/ \E s \in Sessions : GetCart(s) \/ ClearCart(s)
  \/ \E s \in Sessions, p \in Products : RemoveItem(s, p)
  \/ \E h \in Shoppers :
       \/ \E s \in Sessions, p \in Products, q \in Quantities :
            BeginAdd(h, s, p, q) \/ BeginSet(h, s, p, q)
       \/ CheckAdd(h)
       \/ InsertLine(h)
       \/ SetLine(h)
       \/ DropShopping(h)

-----------------------------------------------------------------------------
\* Every cart, its lines and every cart request in flight are well formed.
CartTypeOK ==
  /\ cartOf \in [Sessions -> CartIds \cup {None}]
  /\ used \subseteq CartIds
  /\ lines \in [CartIds -> Lines]
  /\ shopping \in [Shoppers -> Shopping \cup {None}]

\* Items belong to a cart that exists, and no two sessions share a cart: what
\* the foreign key and the UNIQUE session_key promise, kept by requests that
\* still hold the id of a cart deleted under them.
CartsSeparate ==
  /\ \A c \in CartIds : lines[c] # NoLines => c \in Live
  /\ \A s, t \in Sessions : cartOf[s] = cartOf[t] /\ cartOf[s] # None => s = t
  /\ Live \subseteq used
=============================================================================
