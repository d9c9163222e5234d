------------------------------ MODULE OrderBook ------------------------------
(***************************************************************************)
(* What the orders table promises its readers, whichever handler writes    *)
(* it: an order appears once, unpaid and pending, and from then on its     *)
(* contents are a snapshot.  Farmers may move it to any status but         *)
(* pending; a payment is settled at most once, confirming the order; a     *)
(* decline may come at any time; only unpaid pending orders expire.        *)
(*                                                                         *)
(* Orders and Payments, which each see a part of the handlers, are both    *)
(* shown to implement it.                                                  *)
(***************************************************************************)
CONSTANTS
  Keys,       \* order keys
  Contents,   \* what can be ordered
  None        \* no order with this key

VARIABLE book

FarmerStatuses == {"confirmed", "processing", "dispatched", "delivered", "cancelled"}

Entry == [status   : FarmerStatuses \cup {"pending"},
          payment  : {"pending", "paid", "failed"},
          contents : Contents]

Init == book = [k \in Keys |-> None]

Place(k) ==
  /\ book[k] = None
  /\ book'[k] \in [status : {"pending"}, payment : {"pending"}, contents : Contents]
  /\ book' = [book EXCEPT ![k] = book'[k]]

Advance(k) ==
  /\ book[k] # None
  /\ \E status \in FarmerStatuses : book' = [book EXCEPT ![k].status = status]

Settle(k) ==
  /\ book[k] # None
  /\ book[k].payment = "pending"
  /\ book' = [book EXCEPT ![k] =
       [status |-> "confirmed", payment |-> "paid", contents |-> book[k].contents]]

Decline(k) ==
  /\ book[k] # None
  /\ book' = [book EXCEPT ![k].payment = "failed"]

Expire(batch) ==
  /\ \A k \in batch :
       book[k] # None /\ book[k].status = "pending" /\ book[k].payment = "pending"
  /\ book' = [k \in Keys |->
       IF k \in batch THEN [book[k] EXCEPT !.status = "cancelled"] ELSE book[k]]

Next ==
  \/ \E k \in Keys : Place(k) \/ Advance(k) \/ Settle(k) \/ Decline(k)
  \/ \E batch \in SUBSET Keys : Expire(batch)

Spec == Init /\ [][Next]_book
=============================================================================
