------------------------------- MODULE MCSales -------------------------------
(***************************************************************************)
(* Instances of Sales for TLC.  A behaviour is either about the catalogue, *)
(* which is built from nothing and where nobody buys, or about the sales   *)
(* of a catalogue that is there: sales look at prices and farmers only,    *)
(* and nothing in the catalogue looks at sales.                            *)
(***************************************************************************)
EXTENDS Sales, TLC

CONSTANTS f1, f2, c1, p1, p2, p3

VARIABLE concern

\* Bound: a line whose exact price has a fraction, two such lines that round
\* apart and are of two farmers, and two products of one farmer, whose report
\* has room for one.
SomeCarts ==
  {[p \in Products |-> CASE p = p1 -> q[1] [] p = p2 -> q[2] [] OTHER -> q[3]] :
     q \in {<<500, 0, 0>>, <<1900, 1900, 0>>, <<0, 1900, 1900>>}}

\* One category, with a product of one farmer and two of the other.
Furnished ==
  /\ category = [c \in Categories |->
       IF c = c1 THEN [slug |-> "a", parent |-> None] ELSE None]
  /\ nesting = [a \in Authors |-> None]
  /\ product = [p \in Products |->
       [farmer |-> IF p = p1 THEN f1 ELSE f2, category |-> c1, price |-> 1, offered |-> TRUE]]
  /\ sale = [k \in Keys |-> None]
  /\ buying = [b \in Buyers |-> None]
  /\ now = 0

CatalogueNext ==
  /\ concern = "catalogue"
  /\ \/ CategoryStep
     \/ \E c \in Categories : CreateProduct(p1, f1, c, 1) \/ UpdateProduct(p1, c, None)
     \/ DeleteProduct(p1)
  /\ UNCHANGED salesVars

SellingNext ==
  /\ concern = "sales"
  /\ \/ SalesStep
     \/ /\ DeleteProduct(p1) \/ \E price \in Prices : UpdateProduct(p1, None, price)
        /\ UNCHANGED salesVars

MCInit ==
  \/ concern = "catalogue" /\ Init
  \/ concern = "sales" /\ Furnished

MCNext == (CatalogueNext \/ SellingNext) /\ UNCHANGED concern

MCSpec == MCInit /\ [][MCNext]_<<vars, concern>>

Symmetry == Permutations(Keys) \cup Permutations(Guests) \cup Permutations(Authors)
=============================================================================
