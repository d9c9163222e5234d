------------------------------- MODULE Listing -------------------------------
(***************************************************************************)
(* What a farmer reads page by page: GET /notifications and GET /orders,   *)
(* over tables that grow while they are read.  A page is two statements,   *)
(* the rows and their number, and each sees what is committed by then.     *)
(* Both lists are ordered by a timestamp and nothing else: where rows have *)
(* the same, each statement puts them in an order of its own.              *)
(***************************************************************************)
EXTENDS Naturals, Sequences, FiniteSets, Functions

CONSTANTS
  Keys,     \* orders, by their keys
  Farmers,
  Clients,  \* browser tabs, each of one farmer
  UserOf,   \* client -> that farmer
  PerPage,  \* the per_page that clients ask for
  None

VARIABLES
  rows,     \* table -> farmer -> its rows, newest first; those of one timestamp in a set
  settled,  \* table -> keys whose row the filter passes over
  walk      \* client -> its walk through the pages of a table, or None

listingVars == <<rows, settled, walk>>

Tables == {"notifications", "orders"}

ASSUME KeysAssumption == IsFiniteSet(Keys)

ASSUME PageAssumption == PerPage \in Nat \ {0}

ASSUME UserAssumption == UserOf \in [Clients -> Farmers]

\* "filtered" stands for ?is_sent=false and ?order_status=pending, which rows
\* match when they are new and never again once they do not.  The last four
\* fields are history: the rows there were at the start, whether a row left
\* the filter since, whether one came between the two statements of the last
\* page, and whether the walk began on a connection known to be up.
Walk ==
  [table : Tables, filtered : BOOLEAN, pc : {"rows", "count", "done"},
   page : Nat \ {0}, total : Nat, got : SUBSET Keys,
   sure : SUBSET Keys, stirred : BOOLEAN, late : BOOLEAN, live : BOOLEAN]

ASSUME WalkAssumption == None \notin Walk

InitListing ==
  /\ rows = [t \in Tables |-> [f \in Farmers |-> <<>>]]
  /\ settled = [t \in Tables |-> {}]
  /\ walk = [c \in Clients |-> None]

-----------------------------------------------------------------------------
(***************************************************************************)
(* Rows come and leave the filter.                                         *)
(***************************************************************************)

Walking(c) == walk[c] # None /\ walk[c].pc # "done"

Inserted(s, i, x) ==
  [j \in 1..(Len(s) + 1) |-> IF j < i THEN s[j] ELSE IF j = i THEN x ELSE s[j - 1]]

Joined(s, i, k) == [s EXCEPT ![i] = @ \cup {k}]

\* created_at and placed_at are the start of the transaction, which is not the
\* order of the commits: a new row may show up behind newer ones, and may have
\* the timestamp of another one.  That it may do so anywhere is more than two
\* transactions can cause.
Insert(t, f, k) ==
  /\ \/ \E i \in 1..(Len(rows[t][f]) + 1) :
          rows' = [rows EXCEPT ![t][f] = Inserted(@, i, {k})]
     \/ \E i \in DOMAIN rows[t][f] :
          rows' = [rows EXCEPT ![t][f] = Joined(@, i, k)]
  /\ walk' = [c \in Clients |->
       IF /\ Walking(c) /\ walk[c].table = t /\ UserOf[c] = f
          /\ t = "orders" /\ walk[c].pc = "rows"
         THEN [walk[c] EXCEPT !.late = TRUE]
         ELSE walk[c]]
  /\ UNCHANGED settled

Stored(t, f) == UNION Range(rows[t][f])

\* PATCH /notifications/:id, which answers 404 when the row is marked already;
\* or the first status change of an order, after which it is not pending.
Settle(t, k) ==
  /\ \E f \in Farmers : k \in Stored(t, f)
  /\ k \notin settled[t]
  /\ settled' = [settled EXCEPT ![t] = @ \cup {k}]
  /\ walk' = [c \in Clients |->
       IF Walking(c) /\ walk[c].table = t /\ k \in Stored(t, UserOf[c])
         THEN [walk[c] EXCEPT !.stirred = TRUE]
         ELSE walk[c]]
  /\ UNCHANGED rows

-----------------------------------------------------------------------------
(***************************************************************************)
(* The handlers' statements, and a client that reads all pages.            *)
(***************************************************************************)

Table(w, c) == rows[w.table][UserOf[c]]

\* The rows that the WHERE clause selects, those of them that come before a
\* timestamp, and the places in the list that are left to the timestamp's own.
Selected(w, c) ==
  {k \in Stored(w.table, UserOf[c]) : w.filtered => k \notin settled[w.table]}

Newer(w, c, i) == {k \in Selected(w, c) : \E j \in 1..(i - 1) : k \in Table(w, c)[j]}

Places(w, c, i) ==
  LET before == Cardinality(Newer(w, c, i))
  IN  (before + 1) .. (before + Cardinality(Table(w, c)[i] \cap Selected(w, c)))

\* LIMIT and OFFSET.
PagePlaces(w) == ((w.page - 1) * PerPage + 1) .. (w.page * PerPage)

\* What a page may be: of each timestamp as many rows as have their place in it,
\* and any of them.
Pages(w, c) ==
  {page \in SUBSET Selected(w, c) :
     \A i \in DOMAIN Table(w, c) :
       Cardinality(page \cap Table(w, c)[i]) = Cardinality(Places(w, c, i) \cap PagePlaces(w))}

\* The COUNT: of the rows that match, or, for orders, of all.
Total(w, c) ==
  Cardinality(IF w.table = "orders" THEN Stored(w.table, UserOf[c]) ELSE Selected(w, c))

\* Mutant of FirstRead: notifications are counted first, as orders are.
CountFirst(t) == "count"

\* Notifications are read and then counted, orders the other way round.
FirstRead(t) == IF t = "orders" THEN "count" ELSE "rows"

\* The client goes on while page < total_pages = ceil(total / per_page).
Turn(w) ==
  IF w.page * PerPage < w.total
    THEN [w EXCEPT !.page = w.page + 1, !.pc = FirstRead(w.table)]
    ELSE [w EXCEPT !.pc = "done"]

BeginWalk(c, t, filtered, live) ==
  /\ ~Walking(c)
  /\ walk' = [walk EXCEPT ![c] =
       [table |-> t, filtered |-> filtered, pc |-> FirstRead(t), page |-> 1,
        total |-> 0, got |-> {},
        sure |-> Stored(t, UserOf[c]) \ (IF filtered THEN settled[t] ELSE {}),
        stirred |-> FALSE, late |-> FALSE, live |-> live]]
  /\ UNCHANGED <<rows, settled>>

ReadRows(c) ==
  /\ walk[c] # None
  /\ walk[c].pc = "rows"
  /\ \E page \in Pages(walk[c], c) :
       LET w == [walk[c] EXCEPT !.got = @ \cup page]
       IN  walk' = [walk EXCEPT ![c] =
             IF FirstRead(w.table) = "rows" THEN [w EXCEPT !.pc = "count"] ELSE Turn(w)]
  /\ UNCHANGED <<rows, settled>>

ReadCount(c) ==
  /\ walk[c] # None
  /\ walk[c].pc = "count"
  /\ LET w == [walk[c] EXCEPT !.total = Total(walk[c], c), !.late = FALSE]
     IN  walk' = [walk EXCEPT ![c] =
           IF FirstRead(w.table) = "count" THEN [w EXCEPT !.pc = "rows"] ELSE Turn(w)]
  /\ UNCHANGED <<rows, settled>>

\* A request fails, or the client has seen enough.
GiveUp(c) ==
  /\ Walking(c)
  /\ walk' = [walk EXCEPT ![c] = None]
  /\ UNCHANGED <<rows, settled>>

-----------------------------------------------------------------------------
ListingTypeOK ==
  /\ rows \in [Tables -> [Farmers -> Seq(SUBSET Keys)]]
  /\ settled \in [Tables -> SUBSET Keys]
  /\ walk \in [Clients -> Walk \cup {None}]

\* The rows that share their timestamp with another one.
Twins(t, f) ==
  {k \in Stored(t, f) : \E i \in DOMAIN rows[t][f] : k \in rows[t][f][i] /\ rows[t][f][i] # {k}}

\* A client that reads page after page, until a response says that there are
\* no more, has seen every row that was there when it began, although rows
\* shift to later pages under it.  Not so for rows of one timestamp, which may
\* change places between two pages; nor if it filters by a flag that changes
\* meanwhile, or if an order is placed between the two statements of the last
\* page: GET /orders counts first.
WalkComplete ==
  \A c \in Clients :
    /\ walk[c] # None
    /\ walk[c].pc = "done"
    /\ ~walk[c].late
    /\ walk[c].filtered => ~walk[c].stirred
    => walk[c].sure \subseteq walk[c].got \cup Twins(walk[c].table, UserOf[c])
=============================================================================
