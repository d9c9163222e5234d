-------------------------------- MODULE Stock --------------------------------
(***************************************************************************)
(* The stock table: one row per product, the CASE expressions by which     *)
(* every statement of the backend rewrites a row, and the handler of       *)
(* PATCH /stock/:slug, which reads a row, decides in Rust and writes back. *)
(*                                                                         *)
(* Quantities and thresholds are NUMERIC(10,3) in the database and whole    *)
(* numbers of a stored unit here.  The numbers of a request are Decimals of *)
(* any scale: they are counted in tenths of a stored unit, and rounded when *)
(* a row is written, but a status is decided on them as they came.         *)
(***************************************************************************)
EXTENDS Integers

CONSTANTS
  Products,     \* products that have a stock row
  Editors,      \* PATCH /stock requests that may be in flight together
  Levels,       \* quantities a request may declare available, in tenths
  Thresholds,   \* low-stock thresholds a request may declare, in tenths
  None          \* an absent optional value, an unused slot

ASSUME LevelsAssumption == Levels \subseteq Int
ASSUME ThresholdsAssumption == Thresholds \subseteq Int
ASSUME NoneAssumption == None \notin Levels \cup Thresholds

VARIABLES
  stock,    \* product -> its stock row
  active,   \* products that are active and not soft-deleted
  edit      \* editor  -> the row update it has computed and not yet written

stockVars == <<stock, active, edit>>

Statuses == {"in_stock", "low_stock", "out_of_stock"}

StockRow == [available : Nat, reserved : Nat, threshold : Int, status : Statuses]

\* Not yet rounded, hence in tenths.
Edit == [product : Products, available : Int, threshold : Int, status : Statuses]

-----------------------------------------------------------------------------
(***************************************************************************)
(* Row arithmetic.                                                         *)
(***************************************************************************)

\* Mutant of Greatest0: a negative result is kept.
Unclamped(x) == x

\* SQL's GREATEST(0, x).
Greatest0(x) == IF x > 0 THEN x ELSE 0

\* The parts of a stored unit that a request's numbers are counted in.
Grain == 10

\* What a NUMERIC(10,3) column makes of a number: half a unit rounds away from zero.
Stored(x) == IF x >= 0 THEN (x + 5) \div Grain ELSE -((5 - x) \div Grain)

\* A number that the column cannot hold as it is.
Coarsened(x) == Stored(x) * Grain # x

Free(row) == row.available - row.reserved

StatusOf(free, threshold) ==
  CASE free <= 0                       -> "out_of_stock"
    [] free > 0 /\ free <= threshold   -> "low_stock"
    [] free > 0 /\ free > threshold    -> "in_stock"

\* The row with the status its own quantities call for.
Recomputed(row) == [row EXCEPT !.status = StatusOf(Free(row), row.threshold)]

\* The first status of a product, decided on the request's own numbers.
FirstStatus(quantity, threshold) ==
  CASE quantity = 0                           -> "out_of_stock"
    [] quantity # 0 /\ quantity <= threshold  -> "low_stock"
    [] quantity # 0 /\ quantity > threshold   -> "in_stock"

\* The row create_product inserts.
NewRow(quantity, threshold) ==
  [available |-> Stored(quantity), reserved |-> 0,
   threshold |-> Stored(threshold), status |-> FirstStatus(quantity, threshold)]

\* Mutant of ReserveRow: the status stays as it was.
ReserveWithoutStatus(row, quantity) == [row EXCEPT !.reserved = @ + quantity]

\* place_order's UPDATE for one item of the order: nothing is re-checked.
ReserveRow(row, quantity) ==
  Recomputed([row EXCEPT !.reserved = @ + quantity])

\* Mutants of ReleaseRow: the status stays as it was; the reservation does; a
\* cancelled order releases nothing.
ReleaseWithoutStatus(row, quantity, delivered) ==
  [row EXCEPT !.reserved  = Greatest0(@ - quantity),
              !.available = IF delivered THEN @ - quantity ELSE @]

ReleaseAvailableOnly(row, quantity, delivered) ==
  Recomputed([row EXCEPT !.available = IF delivered THEN @ - quantity ELSE @])

ReleaseDeliveredOnly(row, quantity, delivered) ==
  IF delivered THEN ReleaseWithoutStatus(row, quantity, TRUE) ELSE row

\* update_order_status's UPDATE for one product of a closed order.
ReleaseRow(row, quantity, delivered) ==
  Recomputed([row EXCEPT !.reserved  = Greatest0(@ - quantity),
                         !.available = IF delivered THEN @ - quantity ELSE @])

\* CHECK (quantity_available >= 0) on the row that ReleaseRow would write.
ReleaseAllowed(row, quantity, delivered) ==
  delivered => row.available >= quantity

\* Mutant of ReapRow: nothing is returned.
ReapNothing(row, quantity) == row

\* The cron job's UPDATE: it does not recompute the status.
ReapRow(row, quantity) == [row EXCEPT !.reserved = Greatest0(@ - quantity)]

-----------------------------------------------------------------------------
(***************************************************************************)
(* PATCH /stock/:slug.  The row is read, merged with the request and its   *)
(* status decided in one statement's worth of state; the write comes       *)
(* later and replaces the columns whatever has happened to them since.     *)
(***************************************************************************)

\* CHECK (quantity_available >= 0) on what is written.
Storable(quantity) == Stored(quantity) >= 0

InitStock ==
  /\ stock \in [Products -> {NewRow(q, t) : q \in {l \in Levels : Storable(l)}, t \in Thresholds}]
  /\ active = Products
  /\ edit = [e \in Editors |-> None]

Or(value, default) == IF value = None THEN default ELSE value

BeginEdit(e, p, quantity, threshold) ==
  /\ edit[e] = None
  /\ p \in active
  /\ ~(quantity = None /\ threshold = None)
  /\ LET available == Or(quantity, stock[p].available * Grain)
         limit     == Or(threshold, stock[p].threshold * Grain)
         free      == available - stock[p].reserved * Grain
     IN  edit' = [edit EXCEPT ![e] =
                    [product   |-> p,
                     available |-> available,
                     threshold |-> limit,
                     status    |-> StatusOf(free, limit)]]
  /\ UNCHANGED <<stock, active>>

\* Mutant of FinishEdit: the row is replaced by a new one.
ReplaceRow(e) ==
  /\ edit[e] # None
  /\ Storable(edit[e].available)
  /\ stock' = [stock EXCEPT ![edit[e].product] = NewRow(edit[e].available, edit[e].threshold)]
  /\ edit' = [edit EXCEPT ![e] = None]
  /\ UNCHANGED active

FinishEdit(e) ==
  /\ edit[e] # None
  /\ Storable(edit[e].available)
  /\ stock' = [stock EXCEPT ![edit[e].product] =
                 [@ EXCEPT !.available = Stored(edit[e].available),
                           !.threshold = Stored(edit[e].threshold),
                           !.status    = edit[e].status]]
  /\ edit' = [edit EXCEPT ![e] = None]
  /\ UNCHANGED active

\* The client goes away, the write fails, or the server stops.
DropEdit(e) ==
  /\ edit[e] # None
  /\ edit' = [edit EXCEPT ![e] = None]
  /\ UNCHANGED <<stock, active>>

\* DELETE /products/:slug hides the product; its stock row stays.
DeleteProduct(p) ==
  /\ p \in active
  /\ active' = active \ {p}
  /\ UNCHANGED <<stock, edit>>

EditStep ==
  \E e \in Editors :
    \/ \E p \in Products, q \in Levels \cup {None}, t \in Thresholds \cup {None} :
         BeginEdit(e, p, q, t)
    \/ FinishEdit(e)
    \/ DropEdit(e)

StockStep == EditStep \/ \E p \in Products : DeleteProduct(p)

-----------------------------------------------------------------------------
\* Every row and every pending edit is well formed: the two CHECK constraints
\* of the stock table are the Nat of StockRow.
StockTypeOK ==
  /\ stock \in [Products -> StockRow]
  /\ active \subseteq Products
  /\ edit \in [Editors -> Edit \cup {None}]

\* How much a status promises: a larger rank promises more free stock.
Rank(status) ==
  CASE status = "out_of_stock" -> 0
    [] status = "low_stock"    -> 1
    [] status = "in_stock"     -> 2

\* The status shown never promises more than the row's free quantity supports.
NeverOptimistic(row) == Rank(row.status) <= Rank(Recomputed(row).status)
=============================================================================
