----------------------------- MODULE FeedProofs ------------------------------
(***************************************************************************)
(* What Feed and Listing promise, for any numbers of orders, clients and   *)
(* rows per page.  The induction has two halves: what a connection has     *)
(* shown is what the log holds for its farmer (Connected), and what a walk *)
(* has yet to see lies beyond the pages it has had (WalkSound), however    *)
(* rows are inserted before and among them.  That holds for a row that has *)
(* its timestamp for itself: as many rows come before it, in whatever      *)
(* order, and that number only grows.                                      *)
(***************************************************************************)
EXTENDS Feed, FiniteSetTheorems, TLAPS

-----------------------------------------------------------------------------
(***************************************************************************)
(* The inductive invariant.                                                *)
(***************************************************************************)

\* A connection is sending an event for its farmer.
SendingOwn ==
  \A c \in Clients : Up(c) /\ socket[c].pc = "sending" => Own(c, socket[c].next - 1)

\* Nothing is shown on no connection.
NothingShown == \A c \in Clients : ~Up(c) => shown[c] = <<>>

Noted(f) == Stored("notifications", f)

\* An order is announced only when its notification is stored.
StoredFirst ==
  /\ \A k \in Keys : At(k, "publish") => k \in Noted(telling[k].farmer)
  /\ \A i \in DOMAIN log : log[i].key \in Noted(log[i].farmer)

\* Each list has a row at one place only ...
Apart ==
  \A t \in Tables, f \in Farmers : \A i, j \in DOMAIN rows[t][f] :
    i # j => rows[t][f][i] \cap rows[t][f][j] = {}

\* ... since each order is placed once, and noted once.
Fresh ==
  \A k \in Keys :
    /\ telling[k] = None => \A t \in Tables, f \in Farmers : k \notin Stored(t, f)
    /\ At(k, "notify") => \A f \in Farmers : k \notin Noted(f)

\* A walk that began on a live connection counts on every order that was
\* announced before the connection was subscribed.
LiveSure ==
  \A c \in Clients : walk[c] # None /\ walk[c].live =>
    /\ Up(c)
    /\ walk[c].table = "notifications" /\ ~walk[c].filtered =>
         \A i \in DOMAIN log : i < socket[c].since /\ Own(c, i) => log[i].key \in walk[c].sure

Excused(w) == w.filtered /\ w.stirred

\* The rows of the pages that a walk has had.
Had(w) == (IF w.pc = "count" /\ w.table = "notifications" THEN w.page ELSE w.page - 1) * PerPage

\* A row with a timestamp of its own that no page has reached.
Ahead(w, c, k) ==
  \E i \in DOMAIN Table(w, c) :
    /\ Table(w, c)[i] = {k}
    /\ k \in Selected(w, c)
    /\ Had(w) <= Cardinality(Newer(w, c, i))

Tied(w, c) == Twins(w.table, UserOf[c])

\* What a walk is sure of it has, or has before it; and a count that no order
\* came after is the number of orders.
Sound(c) ==
  LET w == walk[c]
  IN  w # None =>
        /\ w.table = "notifications" => ~w.late
        /\ w.pc = "done" /\ ~w.late /\ ~Excused(w) => w.sure \subseteq w.got \cup Tied(w, c)
        /\ w.pc # "done" /\ ~Excused(w) =>
             \A k \in w.sure : k \in w.got \cup Tied(w, c) \/ Ahead(w, c, k)
        /\ w.pc = "rows" /\ w.table = "orders" /\ ~w.late =>
             w.total = Cardinality(Stored(w.table, UserOf[c]))

WalkSound == \A c \in Clients : Sound(c)

IInv ==
  /\ ListingTypeOK
  /\ FeedTypeOK
  /\ ShownInOrder
  /\ SendingOwn
  /\ NothingShown
  /\ StoredFirst
  /\ Apart
  /\ Fresh
  /\ LiveSure
  /\ WalkSound

-----------------------------------------------------------------------------
(***************************************************************************)
(* Shapes.                                                                 *)
(***************************************************************************)

Conn == [pc : {"loop", "sending"}, since : Nat \ {0}, next : Nat \ {0}, heard : BOOLEAN]

LEMMA SocketShape ==
  ASSUME FeedTypeOK, NEW c \in Clients, Up(c)
  PROVE  /\ socket[c] \in Conn
         /\ socket[c].pc \in {"loop", "sending"}
         /\ socket[c].since \in Nat \ {0}
         /\ socket[c].next \in Nat \ {0}
         /\ socket[c].heard \in BOOLEAN
         /\ socket[c].since <= socket[c].next
         /\ socket[c].next <= Len(log) + 1
         /\ socket[c].pc = "sending" => socket[c].since < socket[c].next
<1>1. socket[c] \in Socket /\ socket[c].pc \in {"loop", "sending"}
  BY DEF FeedTypeOK, Up
<1>2. socket[c] \in Conn
  BY <1>1 DEF Socket, Conn
<1>3. QED
  BY <1>1, <1>2 DEF Conn, FeedTypeOK

LEMMA ConnUp ==
  ASSUME NEW x \in Conn
  PROVE  x \in Socket /\ x # None /\ x.pc \in {"loop", "sending"}
<1>1. x \in Socket /\ x.pc \in {"loop", "sending"}
  BY DEF Conn, Socket
<1>2. QED
  BY <1>1, FeedAssumption

LEMMA WalkShape ==
  ASSUME ListingTypeOK, NEW c \in Clients, walk[c] # None
  PROVE  /\ walk[c] \in Walk
         /\ walk[c].table \in Tables
         /\ walk[c].filtered \in BOOLEAN
         /\ walk[c].pc \in {"rows", "count", "done"}
         /\ walk[c].page \in Nat \ {0}
         /\ walk[c].total \in Nat
         /\ walk[c].got \in SUBSET Keys
         /\ walk[c].sure \in SUBSET Keys
         /\ walk[c].stirred \in BOOLEAN
         /\ walk[c].late \in BOOLEAN
         /\ walk[c].live \in BOOLEAN
<1>1. walk[c] \in Walk
  BY DEF ListingTypeOK
<1>2. QED
  BY <1>1 DEF Walk

LEMMA PagesNat ==
  ASSUME NEW n \in Nat
  PROVE  n * PerPage \in Nat
<1>1. PerPage \in Nat
  BY PageAssumption
<1>2. QED
  BY <1>1

LEMMA TableShape ==
  ASSUME ListingTypeOK, NEW t \in Tables, NEW f \in Farmers
  PROVE  /\ rows[t] \in [Farmers -> Seq(SUBSET Keys)]
         /\ rows[t][f] \in Seq(SUBSET Keys)
         /\ Len(rows[t][f]) \in Nat
         /\ DOMAIN rows[t][f] = 1..Len(rows[t][f])
         /\ \A i \in DOMAIN rows[t][f] : rows[t][f][i] \subseteq Stored(t, f)
         /\ \A k \in Stored(t, f) : \E i \in DOMAIN rows[t][f] : k \in rows[t][f][i]
         /\ Stored(t, f) \in SUBSET Keys
         /\ IsFiniteSet(Stored(t, f))
         /\ settled[t] \in SUBSET Keys
<1> DEFINE T == rows[t][f]
<1>1. rows[t] \in [Farmers -> Seq(SUBSET Keys)] /\ settled[t] \in SUBSET Keys
  BY DEF ListingTypeOK
<1>2. T \in Seq(SUBSET Keys) /\ Len(T) \in Nat /\ DOMAIN T = 1..Len(T)
  BY <1>1
<1>3. \A i \in DOMAIN T : T[i] \in SUBSET Keys
  BY <1>2
<1>4. /\ \A i \in DOMAIN T : T[i] \subseteq Stored(t, f)
      /\ \A k \in Stored(t, f) : \E i \in DOMAIN T : k \in T[i]
  BY DEF Stored, Range
<1>5. Stored(t, f) \in SUBSET Keys
  BY <1>3, <1>4
<1>6. IsFiniteSet(Stored(t, f))
  BY <1>5, KeysAssumption, FS_Subset
<1>7. QED
  BY <1>1, <1>2, <1>4, <1>5, <1>6

LEMMA TellingShape ==
  ASSUME FeedTypeOK, NEW k \in Keys, telling[k] # None
  PROVE  /\ telling[k] \in Telling
         /\ telling[k].farmer \in Farmers
         /\ telling[k].pc \in {"notify", "publish", "done", "dropped"}
<1>1. telling[k] \in Telling
  BY DEF FeedTypeOK
<1>2. QED
  BY <1>1 DEF Telling

-----------------------------------------------------------------------------
(***************************************************************************)
(* Rows that are inserted, and what they do to the ranks of the others.    *)
(***************************************************************************)

\* Rows that are inserted at a place of their own move the ones from there on.
Moved(i, j) == IF j < i THEN j ELSE j + 1

LEMMA InsertedSeq ==
  ASSUME NEW T \in Seq(SUBSET Keys), NEW i \in 1..(Len(T) + 1), NEW x \in SUBSET Keys
  PROVE  /\ Inserted(T, i, x) \in Seq(SUBSET Keys)
         /\ Len(Inserted(T, i, x)) = Len(T) + 1
         /\ \A j \in 1..Len(T) : /\ Moved(i, j) \in 1..(Len(T) + 1)
                                 /\ Moved(i, j) # i
                                 /\ Inserted(T, i, x)[Moved(i, j)] = T[j]
         /\ \A j \in 1..(Len(T) + 1) : j # i => \E m \in 1..Len(T) : j = Moved(i, m)
         /\ Inserted(T, i, x)[i] = x
<1> DEFINE U == Inserted(T, i, x)
<1>1. \A j \in 1..(Len(T) + 1) : U[j] \in SUBSET Keys
  <2> SUFFICES ASSUME NEW j \in 1..(Len(T) + 1) PROVE U[j] \in SUBSET Keys
    OBVIOUS
  <2>1. U[j] = IF j < i THEN T[j] ELSE IF j = i THEN x ELSE T[j - 1]
    BY DEF Inserted
  <2>2. j < i => j \in 1..Len(T)
    OBVIOUS
  <2>3. ~(j < i) /\ j # i => j - 1 \in 1..Len(T)
    OBVIOUS
  <2> HIDE DEF U
  <2>4. QED
    BY <2>1, <2>2, <2>3
<1>2. U \in Seq(SUBSET Keys) /\ Len(U) = Len(T) + 1
  BY <1>1 DEF Inserted
<1>3. \A j \in 1..Len(T) : Moved(i, j) \in 1..(Len(T) + 1) /\ Moved(i, j) # i
  BY DEF Moved
<1>4. \A j \in 1..Len(T) : U[Moved(i, j)] = T[j]
  BY DEF Moved, Inserted
<1>5. ASSUME NEW j \in 1..(Len(T) + 1), j # i
      PROVE  \E m \in 1..Len(T) : j = Moved(i, m)
  <2>1. CASE j < i
    BY <2>1 DEF Moved
  <2>2. CASE i < j
    <3>1. j - 1 \in 1..Len(T) /\ Moved(i, j - 1) = j
      BY <2>2 DEF Moved
    <3>2. QED
      BY <3>1
  <2>3. QED
    BY <1>5, <2>1, <2>2
<1>6. U[i] = x
  BY DEF Inserted
<1>7. QED
  BY <1>2, <1>3, <1>4, <1>5, <1>6

\* What becomes of a list: its rows keep their order and are kept apart, and
\* the new one stands alone or joins some of them.
Extends(T, U, k) ==
  /\ \A j \in DOMAIN U : \/ U[j] = {k}
                        \/ \E i \in DOMAIN T : U[j] = T[i] \/ U[j] = T[i] \cup {k}
  /\ \E j \in DOMAIN U : k \in U[j]
  /\ \E m \in [DOMAIN T -> DOMAIN U] :
       /\ \A i, j \in DOMAIN T : i < j => m[i] < m[j]
       /\ \A i \in DOMAIN T : U[m[i]] = T[i] \/ U[m[i]] = T[i] \cup {k}
  /\ (\A i, j \in DOMAIN T : i # j => T[i] \cap T[j] = {}) /\ (\A i \in DOMAIN T : k \notin T[i])
       => \A i, j \in DOMAIN U : i # j => U[i] \cap U[j] = {}

LEMMA ExtendsAlone ==
  ASSUME NEW T \in Seq(SUBSET Keys), NEW i \in 1..(Len(T) + 1), NEW k \in Keys
  PROVE  Inserted(T, i, {k}) \in Seq(SUBSET Keys) /\ Extends(T, Inserted(T, i, {k}), k)
<1> DEFINE U == Inserted(T, i, {k})
           m == [j \in DOMAIN T |-> Moved(i, j)]
<1>1. Len(T) \in Nat /\ DOMAIN T = 1..Len(T)
  OBVIOUS
<1>2. /\ U \in Seq(SUBSET Keys) /\ DOMAIN U = 1..(Len(T) + 1)
      /\ \A j \in DOMAIN T : Moved(i, j) \in DOMAIN U /\ Moved(i, j) # i /\ U[Moved(i, j)] = T[j]
      /\ \A j \in DOMAIN U : j # i => \E n \in DOMAIN T : j = Moved(i, n)
      /\ U[i] = {k}
  <2>1. {k} \in SUBSET Keys
    OBVIOUS
  <2>2. /\ U \in Seq(SUBSET Keys) /\ Len(U) = Len(T) + 1 /\ U[i] = {k}
        /\ \A j \in 1..Len(T) : /\ Moved(i, j) \in 1..(Len(T) + 1) /\ Moved(i, j) # i
                                /\ U[Moved(i, j)] = T[j]
        /\ \A j \in 1..(Len(T) + 1) : j # i => \E n \in 1..Len(T) : j = Moved(i, n)
    <3>1. /\ Inserted(T, i, {k}) \in Seq(SUBSET Keys)
          /\ Len(Inserted(T, i, {k})) = Len(T) + 1
          /\ Inserted(T, i, {k})[i] = {k}
      BY <2>1, InsertedSeq
    <3>2. \A j \in 1..Len(T) : /\ Moved(i, j) \in 1..(Len(T) + 1) /\ Moved(i, j) # i
                              /\ Inserted(T, i, {k})[Moved(i, j)] = T[j]
      BY <2>1, InsertedSeq
    <3>3. \A j \in 1..(Len(T) + 1) : j # i => \E n \in 1..Len(T) : j = Moved(i, n)
      BY <2>1, InsertedSeq
    <3>4. QED
      BY <3>1, <3>2, <3>3
  <2> HIDE DEF U
  <2>3. DOMAIN U = 1..(Len(T) + 1)
    BY <2>2
  <2>4. QED
    BY <1>1, <2>2, <2>3
<1>3. m \in [DOMAIN T -> DOMAIN U]
  BY <1>2
<1>4. \A a, b \in DOMAIN T : a < b => m[a] < m[b]
  BY <1>1 DEF Moved
<1>5. \A j \in DOMAIN T : U[m[j]] = T[j]
  BY <1>2
<1>6. \A j \in DOMAIN U : j # i => \E n \in DOMAIN T : j = m[n]
  BY <1>2
<1>7. i \in DOMAIN U /\ \A j \in DOMAIN T : m[j] # i
  BY <1>1, <1>2
<1> HIDE DEF U, m
<1>8. \A j \in DOMAIN U : \/ U[j] = {k}
                        \/ \E n \in DOMAIN T : U[j] = T[n] \/ U[j] = T[n] \cup {k}
  BY <1>2, <1>5, <1>6
<1>9. ASSUME \A a, b \in DOMAIN T : a # b => T[a] \cap T[b] = {},
             \A a \in DOMAIN T : k \notin T[a],
             NEW a \in DOMAIN U, NEW b \in DOMAIN U, a # b
      PROVE  U[a] \cap U[b] = {}
  <2>1. CASE a = i
    BY <1>2, <1>5, <1>6, <1>9, <2>1
  <2>2. CASE b = i
    BY <1>2, <1>5, <1>6, <1>9, <2>2
  <2>3. CASE a # i /\ b # i
    <3>1. PICK p \in DOMAIN T : a = m[p]
      BY <1>6, <2>3
    <3>2. PICK q \in DOMAIN T : b = m[q]
      BY <1>6, <2>3
    <3>3. p # q
      BY <1>9, <3>1, <3>2
    <3>4. QED
      BY <1>5, <1>9, <3>1, <3>2, <3>3
  <2>4. QED
    BY <2>1, <2>2, <2>3
<1>10. \E n \in [DOMAIN T -> DOMAIN U] :
         /\ \A a, b \in DOMAIN T : a < b => n[a] < n[b]
         /\ \A a \in DOMAIN T : U[n[a]] = T[a] \/ U[n[a]] = T[a] \cup {k}
  BY <1>3, <1>4, <1>5
<1>11. \E j \in DOMAIN U : k \in U[j]
  BY <1>2, <1>7
<1>12. Extends(T, U, k)
  BY <1>8, <1>9, <1>10, <1>11 DEF Extends
<1>13. QED
  BY <1>2, <1>12 DEF U

LEMMA ExtendsJoined ==
  ASSUME NEW T \in Seq(SUBSET Keys), NEW i \in DOMAIN T, NEW k \in Keys
  PROVE  Joined(T, i, k) \in Seq(SUBSET Keys) /\ Extends(T, Joined(T, i, k), k)
<1> DEFINE U == Joined(T, i, k)
           m == [j \in DOMAIN T |-> j]
<1>1. DOMAIN U = DOMAIN T /\ \A j \in DOMAIN T : U[j] = IF j = i THEN T[i] \cup {k} ELSE T[j]
  BY DEF Joined
<1>2. U \in Seq(SUBSET Keys)
  <2>1. T[i] \cup {k} \in SUBSET Keys
    OBVIOUS
  <2>2. QED
    BY <2>1 DEF Joined
<1>3. m \in [DOMAIN T -> DOMAIN U] /\ \A a, b \in DOMAIN T : a < b => m[a] < m[b]
  BY <1>1
<1>4. \A j \in DOMAIN T : m[j] = j
  OBVIOUS
<1> HIDE DEF U, m
<1>5. \E n \in [DOMAIN T -> DOMAIN U] :
        /\ \A a, b \in DOMAIN T : a < b => n[a] < n[b]
        /\ \A a \in DOMAIN T : U[n[a]] = T[a] \/ U[n[a]] = T[a] \cup {k}
  BY <1>1, <1>3, <1>4
<1>6. ASSUME \A a, b \in DOMAIN T : a # b => T[a] \cap T[b] = {},
             \A a \in DOMAIN T : k \notin T[a],
             NEW a \in DOMAIN U, NEW b \in DOMAIN U, a # b
      PROVE  U[a] \cap U[b] = {}
  <2>1. T[a] \cap T[b] = {} /\ k \notin T[a] /\ k \notin T[b]
    BY <1>1, <1>6
  <2>2. U[a] \subseteq T[a] \cup {k} /\ U[b] \subseteq T[b] \cup {k}
    BY <1>1
  <2>3. U[a] = T[a] \/ U[b] = T[b]
    BY <1>1, <1>6
  <2>4. QED
    BY <2>1, <2>2, <2>3
<1>7. Extends(T, U, k)
  BY <1>1, <1>5, <1>6 DEF Extends
<1>8. QED
  BY <1>2, <1>7 DEF U

-----------------------------------------------------------------------------
(***************************************************************************)
(* The tables, the channel and the connections are well formed.            *)
(***************************************************************************)

LEMMA InsertTypes ==
  ASSUME ListingTypeOK, NEW t \in Tables, NEW f \in Farmers, NEW k \in Keys, Insert(t, f, k)
  PROVE  /\ ListingTypeOK'
         /\ \A u \in Tables, g \in Farmers : ~(u = t /\ g = f) => rows'[u][g] = rows[u][g]
         /\ Extends(rows[t][f], rows'[t][f], k)
         /\ \A u \in Tables, g \in Farmers : Stored(u, g) \subseteq Stored(u, g)'
         /\ Stored(t, f)' = Stored(t, f) \cup {k}
<1> DEFINE T == rows[t][f]
<1>1. T \in Seq(SUBSET Keys)
  BY TableShape
<1>2. PICK U \in Seq(SUBSET Keys) : Extends(T, U, k) /\ rows' = [rows EXCEPT ![t][f] = U]
  <2>1. CASE \E i \in 1..(Len(rows[t][f]) + 1) :
               rows' = [rows EXCEPT ![t][f] = Inserted(@, i, {k})]
    <3>1. PICK i \in 1..(Len(T) + 1) : rows' = [rows EXCEPT ![t][f] = Inserted(@, i, {k})]
      BY <2>1
    <3> DEFINE V == Inserted(T, i, {k})
    <3>2. V \in Seq(SUBSET Keys) /\ Extends(T, V, k)
      BY <1>1, ExtendsAlone
    <3>3. rows' = [rows EXCEPT ![t][f] = V]
      BY <3>1
    <3> HIDE DEF V
    <3>4. QED
      BY <3>2, <3>3
  <2>2. CASE \E i \in DOMAIN rows[t][f] :
               rows' = [rows EXCEPT ![t][f] = Joined(@, i, k)]
    <3>1. PICK i \in DOMAIN T : rows' = [rows EXCEPT ![t][f] = Joined(@, i, k)]
      BY <2>2
    <3> DEFINE V == Joined(T, i, k)
    <3>2. V \in Seq(SUBSET Keys) /\ Extends(T, V, k)
      BY <1>1, ExtendsJoined
    <3>3. rows' = [rows EXCEPT ![t][f] = V]
      BY <3>1
    <3> HIDE DEF V
    <3>4. QED
      BY <3>2, <3>3
  <2>3. QED
    BY <2>1, <2>2 DEF Insert
<1> HIDE DEF T
<1>3. rows' \in [Tables -> [Farmers -> Seq(SUBSET Keys)]]
  BY <1>2 DEF ListingTypeOK
<1>4. \A u \in Tables, g \in Farmers :
        rows'[u][g] = IF u = t /\ g = f THEN U ELSE rows[u][g]
  BY <1>2 DEF ListingTypeOK
<1>5. settled' \in [Tables -> SUBSET Keys]
  BY DEF Insert, ListingTypeOK
<1>6. walk' \in [Clients -> Walk \cup {None}]
  <2> SUFFICES ASSUME NEW c \in Clients, walk[c] # None
               PROVE  [walk[c] EXCEPT !.late = TRUE] \in Walk
    BY DEF Insert, ListingTypeOK, Walking
  <2>1. QED
    BY WalkShape DEF Walk
<1>7. ListingTypeOK'
  BY <1>3, <1>5, <1>6 DEF ListingTypeOK
<1>8. Stored(t, f)' = Stored(t, f) \cup {k}
  <2>1. Stored(t, f)' = UNION Range(U) /\ Stored(t, f) = UNION Range(T)
    BY <1>4 DEF Stored, T
  <2>2. ASSUME NEW j \in DOMAIN U, NEW q \in U[j]
        PROVE  q = k \/ \E i \in DOMAIN T : q \in T[i]
    BY <1>2 DEF Extends
  <2>3. \E j \in DOMAIN U : k \in U[j]
    BY <1>2 DEF Extends
  <2>4. ASSUME NEW i \in DOMAIN T, NEW q \in T[i]
        PROVE  \E j \in DOMAIN U : q \in U[j]
    <3>1. PICK m \in [DOMAIN T -> DOMAIN U] :
            \A a \in DOMAIN T : U[m[a]] = T[a] \/ U[m[a]] = T[a] \cup {k}
      BY <1>2 DEF Extends
    <3>2. m[i] \in DOMAIN U /\ q \in U[m[i]]
      BY <2>4, <3>1
    <3>3. QED
      BY <3>2
  <2> DEFINE X == UNION Range(T)
             Y == UNION Range(U)
  <2>5. /\ \A q : q \in Y <=> \E j \in DOMAIN U : q \in U[j]
        /\ \A q : q \in X <=> \E i \in DOMAIN T : q \in T[i]
    BY DEF Range
  <2> HIDE DEF X, Y
  <2>6. ASSUME NEW q \in Y
        PROVE  q \in X \cup {k}
    <3>1. PICK j \in DOMAIN U : q \in U[j]
      BY <2>5
    <3>2. q = k \/ \E i \in DOMAIN T : q \in T[i]
      BY <2>2, <3>1
    <3>3. QED
      BY <2>5, <3>2
  <2>7. ASSUME NEW q \in X \cup {k}
        PROVE  q \in Y
    <3>1. CASE q = k
      BY <2>3, <2>5, <3>1
    <3>2. CASE q \in X
      <4>1. PICK i \in DOMAIN T : q \in T[i]
        BY <2>5, <3>2
      <4>2. QED
        BY <2>4, <2>5, <4>1
    <3>3. QED
      BY <3>1, <3>2
  <2>8. Y = X \cup {k}
    BY <2>6, <2>7
  <2>9. QED
    BY <2>1, <2>8 DEF X, Y
<1>9. \A u \in Tables, g \in Farmers : ~(u = t /\ g = f) => rows'[u][g] = rows[u][g]
  BY <1>4
<1>10. Extends(rows[t][f], rows'[t][f], k)
  BY <1>2, <1>4 DEF T
<1>11. \A u \in Tables, g \in Farmers : Stored(u, g) \subseteq Stored(u, g)'
  BY <1>8, <1>9 DEF Stored
<1>12. QED
  BY <1>7, <1>8, <1>9, <1>10, <1>11

LEMMA InitTypes ==
  ASSUME Init
  PROVE  TypeOK
<1>1. ListingTypeOK
  BY DEF Init, InitListing, ListingTypeOK
<1>2. \A c \in Clients : ~Up(c)
  BY DEF Init, Up
<1>3. FeedTypeOK
  BY <1>2 DEF Init, FeedTypeOK
<1>4. QED
  BY <1>1, <1>3 DEF TypeOK

LEMMA TurnTyped ==
  ASSUME NEW w \in Walk
  PROVE  Turn(w) \in Walk
<1>1. /\ w.page + 1 \in Nat \ {0}
      /\ FirstRead(w.table) \in {"rows", "count", "done"}
  BY DEF Walk, FirstRead
<1>2. [w EXCEPT !.page = w.page + 1, !.pc = FirstRead(w.table)] \in Walk
  BY <1>1 DEF Walk
<1>3. [w EXCEPT !.pc = "done"] \in Walk
  BY DEF Walk
<1>4. QED
  BY <1>2, <1>3 DEF Turn

LEMMA SelectedShape ==
  ASSUME ListingTypeOK, NEW c \in Clients, walk[c] # None
  PROVE  LET w == walk[c]
             S == Stored(w.table, UserOf[c])
         IN  /\ w.table \in Tables /\ UserOf[c] \in Farmers
             /\ Table(w, c) = rows[w.table][UserOf[c]]
             /\ DOMAIN Table(w, c) = 1..Len(Table(w, c)) /\ Len(Table(w, c)) \in Nat
             /\ S \in SUBSET Keys /\ IsFiniteSet(S) /\ Cardinality(S) \in Nat
             /\ Selected(w, c) \in SUBSET S
             /\ IsFiniteSet(Selected(w, c)) /\ Cardinality(Selected(w, c)) \in Nat
             /\ \A i : /\ Newer(w, c, i) \in SUBSET Selected(w, c)
                      /\ IsFiniteSet(Newer(w, c, i))
                      /\ Cardinality(Newer(w, c, i)) \in Nat
<1> DEFINE w == walk[c]
           S == Stored(w.table, UserOf[c])
<1>1. w.table \in Tables /\ UserOf[c] \in Farmers
  BY WalkShape, UserAssumption
<1>2. Table(w, c) = rows[w.table][UserOf[c]]
  BY DEF Table
<1>3. /\ DOMAIN Table(w, c) = 1..Len(Table(w, c)) /\ Len(Table(w, c)) \in Nat
      /\ S \in SUBSET Keys /\ IsFiniteSet(S)
  BY <1>1, <1>2, TableShape
<1>4. Selected(w, c) \in SUBSET S
  BY DEF Selected
<1>5. \A i : Newer(w, c, i) \in SUBSET Selected(w, c)
  BY DEF Newer
<1> HIDE DEF w, S
<1>6. IsFiniteSet(Selected(w, c))
  BY <1>3, <1>4, FS_Subset
<1>7. \A i : IsFiniteSet(Newer(w, c, i))
  BY <1>5, <1>6, FS_Subset
<1>8. /\ Cardinality(S) \in Nat /\ Cardinality(Selected(w, c)) \in Nat
      /\ \A i : Cardinality(Newer(w, c, i)) \in Nat
  BY <1>3, <1>6, <1>7, FS_CardinalityType
<1>9. QED
  BY <1>1, <1>2, <1>3, <1>4, <1>5, <1>6, <1>7, <1>8 DEF w, S

LEMMA PageKeys ==
  ASSUME ListingTypeOK, NEW c \in Clients, walk[c] # None
  PROVE  /\ \A page \in Pages(walk[c], c) : page \in SUBSET Keys
         /\ Total(walk[c], c) \in Nat
<1>1. \A page \in Pages(walk[c], c) : page \in SUBSET Selected(walk[c], c)
  BY DEF Pages
<1>2. QED
  BY <1>1, SelectedShape DEF Total

LEMMA ListingTypes ==
  ASSUME ListingTypeOK, ListingStep
  PROVE  ListingTypeOK'
<1>1. ASSUME NEW t \in Tables, NEW k \in Keys, Settle(t, k)
      PROVE  ListingTypeOK'
  <2>1. \A c \in Clients : walk[c] # None => [walk[c] EXCEPT !.stirred = TRUE] \in Walk
    BY WalkShape DEF Walk
  <2>2. walk' \in [Clients -> Walk \cup {None}]
    BY <1>1, <2>1 DEF Settle, ListingTypeOK, Walking
  <2>3. QED
    BY <1>1, <2>2 DEF Settle, ListingTypeOK
<1>2. ASSUME NEW c \in Clients, NEW t \in Tables, NEW filtered \in BOOLEAN, NEW live \in BOOLEAN,
             BeginWalk(c, t, filtered, live)
      PROVE  ListingTypeOK'
  <2> DEFINE sure == Stored(t, UserOf[c]) \ (IF filtered THEN settled[t] ELSE {})
             w == [table |-> t, filtered |-> filtered, pc |-> FirstRead(t), page |-> 1,
                   total |-> 0, got |-> {}, sure |-> sure,
                   stirred |-> FALSE, late |-> FALSE, live |-> live]
  <2>1. sure \in SUBSET Keys
    BY TableShape, UserAssumption
  <2>2. FirstRead(t) \in {"rows", "count", "done"}
    BY DEF FirstRead
  <2> HIDE DEF sure
  <2>3. w \in Walk
    BY <2>1, <2>2 DEF Walk
  <2> HIDE DEF w
  <2>4. walk' = [walk EXCEPT ![c] = w]
    BY <1>2 DEF BeginWalk, w, sure
  <2>5. QED
    BY <1>2, <2>3, <2>4 DEF BeginWalk, ListingTypeOK
<1>3. ASSUME NEW c \in Clients, ReadRows(c)
      PROVE  ListingTypeOK'
  <2>0. PICK page \in Pages(walk[c], c) :
          LET w == [walk[c] EXCEPT !.got = @ \cup page]
          IN  walk' = [walk EXCEPT ![c] =
                IF FirstRead(w.table) = "rows" THEN [w EXCEPT !.pc = "count"] ELSE Turn(w)]
    BY <1>3 DEF ReadRows
  <2> DEFINE w == [walk[c] EXCEPT !.got = @ \cup page]
  <2>1. w \in Walk
    <3>1. walk[c] # None /\ page \in SUBSET Keys
      BY <1>3, PageKeys DEF ReadRows
    <3>2. QED
      BY <3>1, WalkShape DEF Walk
  <2>2. [w EXCEPT !.pc = "count"] \in Walk
    BY <2>1 DEF Walk
  <2>3. Turn(w) \in Walk
    BY <2>1, TurnTyped
  <2>4. walk' = [walk EXCEPT ![c] =
          IF FirstRead(w.table) = "rows" THEN [w EXCEPT !.pc = "count"] ELSE Turn(w)]
    BY <2>0
  <2> HIDE DEF w
  <2>5. QED
    BY <1>3, <2>2, <2>3, <2>4 DEF ReadRows, ListingTypeOK
<1>4. ASSUME NEW c \in Clients, ReadCount(c)
      PROVE  ListingTypeOK'
  <2> DEFINE w == [walk[c] EXCEPT !.total = Total(walk[c], c), !.late = FALSE]
  <2>1. w \in Walk
    BY <1>4, WalkShape, PageKeys DEF ReadCount, Walk
  <2>2. [w EXCEPT !.pc = "rows"] \in Walk
    BY <2>1 DEF Walk
  <2>3. Turn(w) \in Walk
    BY <2>1, TurnTyped
  <2>4. walk' = [walk EXCEPT ![c] =
          IF FirstRead(w.table) = "count" THEN [w EXCEPT !.pc = "rows"] ELSE Turn(w)]
    BY <1>4 DEF ReadCount
  <2> HIDE DEF w
  <2>5. QED
    BY <1>4, <2>2, <2>3, <2>4 DEF ReadCount, ListingTypeOK
<1>5. ASSUME NEW c \in Clients, GiveUp(c)
      PROVE  ListingTypeOK'
  BY <1>5 DEF GiveUp, ListingTypeOK
<1>6. \A c \in Clients : (Up(c) /\ socket[c].heard) \in BOOLEAN
  OBVIOUS
<1>7. QED
  BY <1>1, <1>2, <1>3, <1>4, <1>5, <1>6 DEF ListingStep

\* What a step of a connection leaves alone, and what becomes of its socket.
LEMMA CloseEffect ==
  ASSUME ListingTypeOK, FeedTypeOK, NEW c \in Clients, Close(c)
  PROVE  /\ ListingTypeOK'
         /\ UNCHANGED <<rows, settled, telling, log>>
         /\ socket' = [socket EXCEPT ![c] = None]
         /\ shown' = [shown EXCEPT ![c] = <<>>]
         /\ ~Up(c)'
<1>1. walk' \in [Clients -> Walk \cup {None}]
  <2>1. CASE walk[c] = None
    BY <2>1 DEF Close, ListingTypeOK
  <2>2. CASE walk[c] # None
    <3>1. [walk[c] EXCEPT !.live = FALSE] \in Walk
      BY <2>2, WalkShape DEF Walk
    <3>2. walk' = [walk EXCEPT ![c] = [walk[c] EXCEPT !.live = FALSE]]
      BY <2>2 DEF Close
    <3>3. QED
      BY <3>1, <3>2 DEF ListingTypeOK
  <2>3. QED
    BY <2>1, <2>2
<1>2. socket'[c] = None
  BY DEF Close, FeedTypeOK
<1>3. QED
  BY <1>1, <1>2 DEF Close, ListingTypeOK, Up

\* A step of one connection that ends neither it nor anything else.
Moves(c, x, s) ==
  /\ x \in Conn
  /\ s \in Seq(Keys)
  /\ socket' = [socket EXCEPT ![c] = x]
  /\ shown' = [shown EXCEPT ![c] = s]
  /\ UNCHANGED <<listingVars, telling, log>>

LEMMA SubscribeEffect ==
  ASSUME FeedTypeOK, NEW c \in Clients, Subscribe(c)
  PROVE  \E x \in Conn :
           /\ Moves(c, x, shown[c])
           /\ x.pc = "loop" /\ x.since = Len(log) + 1 /\ x.next = Len(log) + 1
<1> DEFINE x == [pc |-> "loop", since |-> Len(log) + 1, next |-> Len(log) + 1, heard |-> FALSE]
<1>1. Len(log) + 1 \in Nat \ {0}
  BY DEF FeedTypeOK
<1>2. x \in Conn /\ x.pc = "loop" /\ x.since = Len(log) + 1 /\ x.next = Len(log) + 1
  BY <1>1 DEF Conn
<1>3. socket' = [socket EXCEPT ![c] = x]
  BY DEF Subscribe
<1> HIDE DEF x
<1>4. shown' = [shown EXCEPT ![c] = shown[c]] /\ shown[c] \in Seq(Keys)
  BY DEF Subscribe, FeedTypeOK
<1>5. Moves(c, x, shown[c])
  BY <1>2, <1>3, <1>4 DEF Subscribe, Moves
<1>6. QED
  BY <1>2, <1>5

LEMMA RecvEffect ==
  ASSUME FeedTypeOK, NEW c \in Clients, Recv(c), ~Close(c)
  PROVE  \E x \in Conn :
           /\ Moves(c, x, shown[c])
           /\ x.pc = IF Addressed(c) THEN "sending" ELSE "loop"
           /\ x.since = socket[c].since /\ x.next = socket[c].next + 1
<1> DEFINE pc == IF Addressed(c) THEN "sending" ELSE "loop"
           x == [socket[c] EXCEPT !.next = @ + 1, !.pc = pc]
<1>1. socket[c] \in Conn /\ pc \in {"loop", "sending"}
  BY SocketShape DEF Recv
<1>2. /\ x \in Conn
      /\ x.pc = pc
      /\ x.since = socket[c].since /\ x.next = socket[c].next + 1
  <2> HIDE DEF pc
  <2>1. x.pc = pc /\ x.since = socket[c].since /\ x.next = socket[c].next + 1
    BY <1>1 DEF Conn
  <2>2. socket[c].next + 1 \in Nat \ {0}
    BY <1>1 DEF Conn
  <2>3. x \in Conn
    BY <1>1, <2>2 DEF Conn
  <2>4. QED
    BY <2>1, <2>3
<1>3. socket' = [socket EXCEPT ![c] = x]
  BY DEF Recv
<1> HIDE DEF x
<1>4. shown' = [shown EXCEPT ![c] = shown[c]] /\ shown[c] \in Seq(Keys)
  BY DEF Recv, FeedTypeOK
<1>5. Moves(c, x, shown[c])
  BY <1>2, <1>3, <1>4 DEF Recv, Moves
<1>6. QED
  BY <1>2, <1>5

LEMMA SendEffect ==
  ASSUME FeedTypeOK, NEW c \in Clients, Send(c)
  PROVE  \E x \in Conn :
           /\ Moves(c, x, Append(shown[c], log[socket[c].next - 1].key))
           /\ x.pc = "loop" /\ x.since = socket[c].since /\ x.next = socket[c].next
<1> DEFINE x == [socket[c] EXCEPT !.pc = "loop", !.heard = TRUE]
           k == log[socket[c].next - 1].key
<1>a. Up(c) /\ socket[c].pc = "sending" /\ Len(log) \in Nat
  BY DEF Send, FeedTypeOK
<1>1. /\ socket[c] \in Conn
      /\ socket[c].next - 1 \in 1..Len(log)
  BY <1>a, SocketShape
<1>2. x \in Conn /\ x.pc = "loop" /\ x.since = socket[c].since /\ x.next = socket[c].next
  BY <1>1 DEF Conn
<1>3. socket' = [socket EXCEPT ![c] = x]
  BY DEF Send
<1>4. log[socket[c].next - 1] \in Event
  BY <1>1 DEF FeedTypeOK
<1>5. k \in Keys
  BY <1>4 DEF Event
<1> HIDE DEF x, k
<1>6. shown' = [shown EXCEPT ![c] = Append(shown[c], k)]
  BY DEF Send, k
<1>7. Append(shown[c], k) \in Seq(Keys)
  BY <1>5 DEF FeedTypeOK
<1>8. Moves(c, x, Append(shown[c], k))
  BY <1>2, <1>3, <1>6, <1>7 DEF Send, Moves
<1>9. QED
  BY <1>2, <1>8 DEF k

LEMMA PongEffect ==
  ASSUME FeedTypeOK, NEW c \in Clients, Pong(c)
  PROVE  \E x \in Conn :
           /\ Moves(c, x, shown[c])
           /\ x.pc = "loop" /\ x.since = socket[c].since /\ x.next = socket[c].next
<1> DEFINE x == [socket[c] EXCEPT !.heard = TRUE]
<1>1. socket[c] \in Conn
  BY SocketShape DEF Pong
<1>2. x \in Conn /\ x.pc = "loop" /\ x.since = socket[c].since /\ x.next = socket[c].next
  BY <1>1 DEF Conn, Pong
<1>3. socket' = [socket EXCEPT ![c] = x]
  BY DEF Pong
<1> HIDE DEF x
<1>4. shown' = [shown EXCEPT ![c] = shown[c]] /\ shown[c] \in Seq(Keys)
  BY DEF Pong, FeedTypeOK
<1>5. Moves(c, x, shown[c])
  BY <1>2, <1>3, <1>4 DEF Pong, Moves
<1>6. QED
  BY <1>2, <1>5

LEMMA MovesTypes ==
  ASSUME FeedTypeOK, NEW c \in Clients, NEW x, NEW s, Moves(c, x, s),
         x.since <= x.next, x.next <= Len(log) + 1, x.pc = "sending" => x.since < x.next
  PROVE  FeedTypeOK'
<1>1. x \in Socket
  BY ConnUp DEF Moves
<1>2. socket' \in [Clients -> Socket \cup {None}] /\ shown' \in [Clients -> Seq(Keys)]
  BY <1>1 DEF Moves, FeedTypeOK
<1>3. telling' \in [Keys -> Telling \cup {None}] /\ log' \in Seq(Event)
  BY DEF Moves, FeedTypeOK
<1>4. ASSUME NEW d \in Clients, Up(d)'
      PROVE  /\ socket'[d].since <= socket'[d].next
             /\ socket'[d].next <= Len(log') + 1
             /\ socket'[d].pc = "sending" => socket'[d].since < socket'[d].next
  <2>1. CASE d = c
    BY <2>1 DEF Moves, FeedTypeOK
  <2>2. CASE d # c
    <3>1. socket'[d] = socket[d] /\ log' = log
      BY <2>2 DEF Moves, FeedTypeOK
    <3>2. Up(d)
      BY <1>4, <3>1 DEF Up
    <3>3. QED
      BY <3>1, <3>2 DEF FeedTypeOK
  <2>3. QED
    BY <2>1, <2>2
<1>5. QED
  BY <1>2, <1>3, <1>4 DEF FeedTypeOK

LEMMA UpgradeEffect ==
  ASSUME FeedTypeOK, NEW c \in Clients, Upgrade(c)
  PROVE  /\ socket' \in [Clients -> Socket \cup {None}]
         /\ \A d \in Clients : Up(d)' => Up(d) /\ socket'[d] = socket[d]
         /\ UNCHANGED <<listingVars, telling, log, shown>>
<1>1. [pc |-> "upgrading"] \in Socket
  BY DEF Socket
<1>2. socket' = [socket EXCEPT ![c] = [pc |-> "upgrading"]]
  BY DEF Upgrade
<1>3. socket' \in [Clients -> Socket \cup {None}]
  BY <1>1, <1>2 DEF FeedTypeOK
<1>4. \A d \in Clients : Up(d)' => Up(d) /\ socket'[d] = socket[d]
  BY <1>2 DEF Up, FeedTypeOK
<1>5. QED
  BY <1>3, <1>4 DEF Upgrade

\* A socket step either ends a connection, or opens one, or moves it along.
LEMMA SocketCases ==
  ASSUME FeedTypeOK, SocketStep
  PROVE  \E c \in Clients :
           \/ Close(c)
           \/ Upgrade(c)
           \/ Subscribe(c)
           \/ Recv(c) /\ ~Close(c)
           \/ Send(c)
           \/ Pong(c)
  BY DEF SocketStep, Leave

\* What telling of an order does: rows and events are added, connections are
\* left alone.
LEMMA TellEffect ==
  ASSUME TypeOK, TellStep
  PROVE  /\ ListingTypeOK'
         /\ \A u \in Tables, g \in Farmers : Stored(u, g) \subseteq Stored(u, g)'
         /\ telling' \in [Keys -> Telling \cup {None}]
         /\ \/ log' = log
            \/ \E k \in Keys : PublishEvent(k) /\ \E e \in Event : log' = Append(log, e)
         /\ UNCHANGED <<socket, shown>>
<1> USE DEF TypeOK
<1>1. ASSUME NEW k \in Keys, NEW f \in Farmers, Place(k, f)
      PROVE  /\ ListingTypeOK' /\ log' = log /\ UNCHANGED <<socket, shown>>
             /\ \A u \in Tables, g \in Farmers : Stored(u, g) \subseteq Stored(u, g)'
             /\ telling' \in [Keys -> Telling \cup {None}]
  <2>1. "orders" \in Tables
    BY DEF Tables
  <2>2. [pc |-> "notify", farmer |-> f] \in Telling
    BY DEF Telling
  <2>3. telling' = [telling EXCEPT ![k] = [pc |-> "notify", farmer |-> f]]
    BY <1>1 DEF Place
  <2>4. QED
    BY <1>1, <2>1, <2>2, <2>3, InsertTypes DEF Place, FeedTypeOK
<1>2. ASSUME NEW k \in Keys, NEW pc \in {"publish", "done", "dropped"}, telling[k] # None,
             telling' = [telling EXCEPT ![k].pc = pc]
      PROVE  telling' \in [Keys -> Telling \cup {None}]
  <2>1. [telling[k] EXCEPT !.pc = pc] \in Telling
    BY <1>2, TellingShape DEF Telling
  <2>2. telling' = [telling EXCEPT ![k] = [telling[k] EXCEPT !.pc = pc]]
    BY <1>2
  <2>3. QED
    BY <2>1, <2>2 DEF FeedTypeOK
<1>3. ASSUME NEW k \in Keys, StoreNotification(k)
      PROVE  /\ ListingTypeOK' /\ log' = log /\ UNCHANGED <<socket, shown>>
             /\ \A u \in Tables, g \in Farmers : Stored(u, g) \subseteq Stored(u, g)'
             /\ telling' \in [Keys -> Telling \cup {None}]
  <2>1. "notifications" \in Tables
    BY DEF Tables
  <2>2. telling[k] # None /\ telling[k].farmer \in Farmers
    BY <1>3, TellingShape DEF StoreNotification, At
  <2>3. telling' \in [Keys -> Telling \cup {None}]
    BY <1>2, <1>3, <2>2 DEF StoreNotification
  <2>4. QED
    BY <1>3, <2>1, <2>2, <2>3, InsertTypes DEF StoreNotification
<1>4. ASSUME NEW k \in Keys, PublishEvent(k)
      PROVE  /\ ListingTypeOK' /\ UNCHANGED <<socket, shown, rows>>
             /\ \E e \in Event : log' = Append(log, e)
             /\ telling' \in [Keys -> Telling \cup {None}]
  <2>1. telling[k] # None /\ telling[k].farmer \in Farmers
    BY <1>4, TellingShape DEF PublishEvent, At
  <2>2. [farmer |-> telling[k].farmer, key |-> k] \in Event
    BY <2>1 DEF Event
  <2>3. telling' \in [Keys -> Telling \cup {None}]
    BY <1>2, <1>4, <2>1 DEF PublishEvent
  <2>4. ListingTypeOK' /\ UNCHANGED <<socket, shown, rows>>
    BY <1>4 DEF PublishEvent, listingVars, ListingTypeOK
  <2>5. \E e \in Event : log' = Append(log, e)
    BY <1>4, <2>2 DEF PublishEvent
  <2>6. QED
    BY <2>3, <2>4, <2>5
<1>5. ASSUME NEW k \in Keys, DropTelling(k)
      PROVE  /\ ListingTypeOK' /\ log' = log /\ UNCHANGED <<socket, shown, rows>>
             /\ telling' \in [Keys -> Telling \cup {None}]
  <2>1. telling' \in [Keys -> Telling \cup {None}]
    BY <1>2, <1>5 DEF DropTelling, At
  <2>2. QED
    BY <1>5, <2>1 DEF DropTelling, listingVars, ListingTypeOK
<1>6. UNCHANGED rows => \A u \in Tables, g \in Farmers : Stored(u, g) \subseteq Stored(u, g)'
  BY DEF Stored
<1>7. QED
  BY <1>1, <1>3, <1>4, <1>5, <1>6 DEF TellStep

LEMMA LogGrows ==
  ASSUME log \in Seq(Event), log' = log \/ \E e \in Event : log' = Append(log, e)
  PROVE  /\ log' \in Seq(Event)
         /\ Len(log) <= Len(log')
         /\ \A i \in 1..Len(log) : log'[i] = log[i]
  OBVIOUS

LEMMA FeedTypes ==
  ASSUME TypeOK, [Next]_vars
  PROVE  TypeOK'
<1> USE DEF TypeOK
<1>1. CASE ListingStep
  <2>1. FeedTypeOK'
    BY <1>1 DEF ListingStep, feedVars, FeedTypeOK, Up
  <2>2. QED
    BY <1>1, <2>1, ListingTypes
<1>2. CASE TellStep
  <2>1. /\ ListingTypeOK' /\ UNCHANGED <<socket, shown>>
        /\ telling' \in [Keys -> Telling \cup {None}]
        /\ log' = log \/ \E e \in Event : log' = Append(log, e)
    BY <1>2, TellEffect
  <2>2. log' \in Seq(Event) /\ Len(log) \in Nat /\ Len(log') \in Nat /\ Len(log) <= Len(log')
    BY <2>1, LogGrows DEF FeedTypeOK
  <2>3. ASSUME NEW d \in Clients, Up(d)'
        PROVE  /\ socket[d].since <= socket[d].next
               /\ socket[d].next <= Len(log')  + 1
               /\ socket[d].pc = "sending" => socket[d].since < socket[d].next
    <3>1. Up(d)
      BY <2>1, <2>3 DEF Up
    <3>2. QED
      BY <2>2, <3>1, SocketShape
  <2>4. QED
    BY <2>1, <2>2, <2>3 DEF FeedTypeOK
<1>3. ASSUME NEW c \in Clients, Close(c)
      PROVE  TypeOK'
  <2>1. /\ ListingTypeOK' /\ UNCHANGED <<rows, settled, telling, log>> /\ ~Up(c)'
        /\ socket' = [socket EXCEPT ![c] = None] /\ shown' = [shown EXCEPT ![c] = <<>>]
    BY <1>3, CloseEffect
  <2>2. socket' \in [Clients -> Socket \cup {None}] /\ shown' \in [Clients -> Seq(Keys)]
    BY <2>1 DEF FeedTypeOK
  <2>3. \A d \in Clients : Up(d)' => Up(d) /\ socket'[d] = socket[d]
    BY <2>1 DEF Up, FeedTypeOK
  <2>4. QED
    BY <2>1, <2>2, <2>3 DEF FeedTypeOK
<1>4. ASSUME NEW c \in Clients, Upgrade(c)
      PROVE  TypeOK'
  <2>1. /\ socket' \in [Clients -> Socket \cup {None}]
        /\ \A d \in Clients : Up(d)' => Up(d) /\ socket'[d] = socket[d]
        /\ UNCHANGED <<listingVars, telling, log, shown>>
    BY <1>4, UpgradeEffect
  <2>2. QED
    BY <2>1 DEF FeedTypeOK, ListingTypeOK, listingVars
<1>5. ASSUME NEW c \in Clients, NEW x, NEW s, Moves(c, x, s),
             x.since <= x.next, x.next <= Len(log) + 1, x.pc = "sending" => x.since < x.next
      PROVE  TypeOK'
  <2>1. FeedTypeOK'
    BY <1>5, MovesTypes
  <2>2. QED
    BY <1>5, <2>1 DEF Moves, listingVars, ListingTypeOK
<1>6. ASSUME NEW c \in Clients, Subscribe(c)
      PROVE  TypeOK'
  <2>1. PICK x \in Conn : Moves(c, x, shown[c]) /\ x.pc = "loop"
                          /\ x.since = Len(log) + 1 /\ x.next = Len(log) + 1
    BY <1>6, SubscribeEffect
  <2>2. Len(log) \in Nat
    BY DEF FeedTypeOK
  <2>3. QED
    BY <1>5, <2>1, <2>2
<1>7. ASSUME NEW c \in Clients, Recv(c), ~Close(c)
      PROVE  TypeOK'
  <2>1. PICK x \in Conn : /\ Moves(c, x, shown[c])
                          /\ x.since = socket[c].since /\ x.next = socket[c].next + 1
    BY <1>7, RecvEffect
  <2>2. Up(c) /\ socket[c].next <= Len(log) /\ Len(log) \in Nat
    BY <1>7 DEF Recv, FeedTypeOK
  <2>3. QED
    BY <1>5, <2>1, <2>2, SocketShape
<1>8. ASSUME NEW c \in Clients, Send(c) \/ Pong(c)
      PROVE  TypeOK'
  <2>1. PICK x \in Conn : \E s : /\ Moves(c, x, s) /\ x.pc = "loop"
                                 /\ x.since = socket[c].since /\ x.next = socket[c].next
    BY <1>8, SendEffect, PongEffect
  <2>2. Up(c)
    BY <1>8 DEF Send, Pong
  <2>3. QED
    BY <1>5, <2>1, <2>2, SocketShape
<1>9. CASE SocketStep
  BY <1>3, <1>4, <1>6, <1>7, <1>8, <1>9, SocketCases
<1>10. CASE UNCHANGED vars
  BY <1>10 DEF vars, listingVars, feedVars, FeedTypeOK, ListingTypeOK, Up
<1>11. QED
  BY <1>1, <1>2, <1>9, <1>10 DEF Next

\* What TLC checks as TypeOK: the tables that are listed, the channel and the
\* connections to it are well formed, and no receiver is ahead of the channel
\* (Listing's and Feed's variables, crates/ws/src/handler.rs).
THEOREM TypeCorrect == Spec => []TypeOK
<1>1. QED
  BY InitTypes, FeedTypes, PTL DEF Spec

-----------------------------------------------------------------------------
(***************************************************************************)
(* What a connection shows is what the log holds.                          *)
(***************************************************************************)

InOrder(c) ==
  /\ Range(shown[c]) = {log[i].key : i \in {j \in Passed(c) : Own(c, j)}}
  /\ \A i, j \in DOMAIN shown[c] : i < j =>
       \E m, n \in Passed(c) : m < n /\ log[m].key = shown[c][i] /\ log[n].key = shown[c][j]

\* A client's part of the invariant.
Linked(c) ==
  /\ Up(c) => InOrder(c)
  /\ Up(c) /\ socket[c].pc = "sending" => Own(c, socket[c].next - 1)
  /\ ~Up(c) => shown[c] = <<>>

Connected == \A c \in Clients : Linked(c)

LEMMA ConnectedMeans ==
  Connected <=> ShownInOrder /\ SendingOwn /\ NothingShown
  BY DEF Connected, Linked, InOrder, ShownInOrder, SendingOwn, NothingShown

LEMMA PassedInLog ==
  ASSUME FeedTypeOK, NEW c \in Clients, Up(c)
  PROVE  Passed(c) \subseteq 1..Len(log)
<1>1. Len(log) \in Nat
  BY DEF FeedTypeOK
<1>2. QED
  BY <1>1, SocketShape DEF Passed

\* Events that are added change nothing for a connection that stays as it is.
LEMMA LinkedKept ==
  ASSUME FeedTypeOK, NEW c \in Clients, Linked(c),
         socket'[c] = socket[c], shown'[c] = shown[c],
         \A i \in 1..Len(log) : log'[i] = log[i]
  PROVE  Linked(c)'
<1>1. Up(c)' <=> Up(c)
  BY DEF Up
<1>2. CASE Up(c)
  <2>1. Passed(c)' = Passed(c) /\ Passed(c) \subseteq 1..Len(log)
    BY <1>2, PassedInLog DEF Passed
  <2>2. \A i \in Passed(c) : log'[i] = log[i] /\ (Own(c, i)' <=> Own(c, i))
    BY <2>1 DEF Own
  <2>3. InOrder(c)
    BY <1>2 DEF Linked
  <2>4. {j \in Passed(c)' : Own(c, j)'} = {j \in Passed(c) : Own(c, j)}
    BY <2>1, <2>2
  <2>5. {log'[i].key : i \in {j \in Passed(c)' : Own(c, j)'}}
          = {log[i].key : i \in {j \in Passed(c) : Own(c, j)}}
    BY <2>2, <2>4
  <2>6. InOrder(c)'
    BY <2>1, <2>2, <2>3, <2>5 DEF InOrder
  <2>7. socket[c].pc = "sending" => Own(c, socket[c].next - 1)'
    <3>1. Len(log) \in Nat
      BY DEF FeedTypeOK
    <3>2. socket[c].pc = "sending" => socket[c].next - 1 \in 1..Len(log)
      BY <1>2, <3>1, SocketShape
    <3>3. QED
      BY <1>2, <3>2 DEF Linked, Own
  <2>8. QED
    BY <1>1, <1>2, <2>6, <2>7 DEF Linked
<1>3. CASE ~Up(c)
  BY <1>1, <1>3 DEF Linked
<1>4. QED
  BY <1>2, <1>3

\* The connections beside the one that moves.
LEMMA OthersKept ==
  ASSUME FeedTypeOK, NEW c \in Clients, NEW x, NEW s, Connected,
         socket' = [socket EXCEPT ![c] = x], shown' = [shown EXCEPT ![c] = s], log' = log
  PROVE  /\ socket'[c] = x /\ shown'[c] = s
         /\ \A d \in Clients \ {c} : Linked(d)'
<1>1. socket'[c] = x /\ shown'[c] = s
  BY DEF FeedTypeOK
<1>2. ASSUME NEW d \in Clients \ {c}
      PROVE  Linked(d)'
  <2>1. socket'[d] = socket[d] /\ shown'[d] = shown[d]
    BY DEF FeedTypeOK
  <2>2. Linked(d)
    BY DEF Connected
  <2>3. QED
    BY <2>1, <2>2, LinkedKept
<1>3. QED
  BY <1>1, <1>2

LEMMA SubscribeLinked ==
  ASSUME FeedTypeOK, Connected, NEW c \in Clients, Subscribe(c)
  PROVE  Connected'
<1>1. PICK x \in Conn : /\ Moves(c, x, shown[c])
                        /\ x.pc = "loop" /\ x.since = Len(log) + 1 /\ x.next = Len(log) + 1
  BY SubscribeEffect
<1>2. /\ socket'[c] = x /\ shown'[c] = shown[c]
      /\ \A d \in Clients \ {c} : Linked(d)'
  BY <1>1, OthersKept DEF Moves
<1>3. shown[c] = <<>>
  BY DEF Subscribe, Up, Connected, Linked
<1>4. Passed(c)' = {}
  <2>1. Len(log) \in Nat
    BY DEF FeedTypeOK
  <2>2. QED
    BY <1>1, <1>2, <2>1 DEF Passed
<1>5. InOrder(c)'
  BY <1>2, <1>3, <1>4 DEF InOrder, Range
<1>6. Up(c)' /\ socket'[c].pc = "loop"
  BY <1>1, <1>2, ConnUp DEF Up
<1>7. Linked(c)'
  BY <1>5, <1>6 DEF Linked
<1>8. QED
  BY <1>2, <1>7 DEF Connected

LEMMA RecvLinked ==
  ASSUME FeedTypeOK, Connected, NEW c \in Clients, Recv(c), ~Close(c)
  PROVE  Connected'
<1> DEFINE n == socket[c].next
<1>1. PICK x \in Conn : /\ Moves(c, x, shown[c])
                        /\ x.pc = IF Addressed(c) THEN "sending" ELSE "loop"
                        /\ x.since = socket[c].since /\ x.next = n + 1
  BY RecvEffect
<1>2. /\ socket'[c] = x /\ shown'[c] = shown[c] /\ log' = log
      /\ \A d \in Clients \ {c} : Linked(d)'
  BY <1>1, OthersKept DEF Moves
<1>3. Up(c) /\ socket[c].pc = "loop"
  BY DEF Recv
<1>4. socket[c].since \in Nat /\ n \in Nat /\ socket[c].since <= n
  BY <1>3, SocketShape
<1>5. Passed(c) = socket[c].since .. (n - 1)
  BY <1>3, <1>4 DEF Passed
<1>6. \A i : Own(c, i)' <=> Own(c, i)
  BY <1>2 DEF Own
<1>7. /\ Passed(c) \subseteq Passed(c)'
      /\ \A i \in Passed(c)' \ Passed(c) : ~Own(c, i)
  <2>1. CASE Addressed(c)
    <3>a. /\ socket'[c].pc = "sending" /\ socket'[c].next = n + 1
          /\ socket'[c].since = socket[c].since
      BY <2>1, <1>1, <1>2
    <3>1. Passed(c)' = socket[c].since .. (n + 1 - 2)
      BY <3>a, <1>4 DEF Passed
    <3>2. Passed(c)' = Passed(c)
      BY <3>1, <1>4, <1>5
    <3>3. QED
      BY <3>2
  <2>2. CASE ~Addressed(c)
    <3>a. /\ socket'[c].pc = "loop" /\ socket'[c].next = n + 1
          /\ socket'[c].since = socket[c].since
      BY <2>2, <1>1, <1>2
    <3>1. Passed(c)' = socket[c].since .. (n + 1 - 1)
      BY <3>a, <1>4 DEF Passed
    <3>2. Passed(c)' = Passed(c) \cup {n}
      BY <3>1, <1>4, <1>5
    <3>3. ~Own(c, n)
      BY <2>2 DEF Addressed, Own
    <3>4. QED
      BY <3>2, <3>3
  <2>3. QED
    BY <2>1, <2>2
<1>8. InOrder(c)
  BY <1>3 DEF Connected, Linked
<1>9. {j \in Passed(c)' : Own(c, j)'} = {j \in Passed(c) : Own(c, j)}
  BY <1>6, <1>7
<1>10. InOrder(c)'
  BY <1>2, <1>7, <1>8, <1>9 DEF InOrder
<1>11. Up(c)'
  BY <1>1, <1>2, ConnUp DEF Up
<1>12. x.pc = "sending" => Own(c, x.next - 1)
  BY <1>1, <1>4 DEF Addressed, Own
<1>13. Linked(c)'
  BY <1>2, <1>6, <1>10, <1>11, <1>12 DEF Linked
<1>14. QED
  BY <1>2, <1>13 DEF Connected

LEMMA SendLinked ==
  ASSUME FeedTypeOK, Connected, NEW c \in Clients, Send(c)
  PROVE  Connected'
<1> DEFINE n == socket[c].next - 1
           s == Append(shown[c], log[n].key)
<1>1. PICK x \in Conn : /\ Moves(c, x, s)
                        /\ x.pc = "loop" /\ x.since = socket[c].since
                        /\ x.next = socket[c].next
  BY SendEffect
<1>2. /\ socket'[c] = x /\ shown'[c] = s /\ log' = log
      /\ \A d \in Clients \ {c} : Linked(d)'
  BY <1>1, OthersKept DEF Moves
<1>3. Up(c) /\ socket[c].pc = "sending"
  BY DEF Send
<1>4. socket[c].since \in Nat /\ n \in Nat /\ socket[c].since <= n /\ socket[c].next = n + 1
  BY <1>3, SocketShape
<1>5. /\ Passed(c) = socket[c].since .. (n - 1)
      /\ Passed(c)' = socket[c].since .. n
  BY <1>1, <1>2, <1>3, <1>4 DEF Passed
<1>6. Passed(c)' = Passed(c) \cup {n} /\ \A m \in Passed(c) : m < n
  BY <1>4, <1>5
<1>7. Own(c, n) /\ \A i : Own(c, i)' <=> Own(c, i)
  BY <1>2, <1>3 DEF Connected, Linked, Own
<1>8. InOrder(c)
  BY <1>3 DEF Connected, Linked
<1>9. shown[c] \in Seq(Keys)
  BY DEF FeedTypeOK
<1> HIDE DEF n
<1>10. /\ Len(s) = Len(shown[c]) + 1 /\ DOMAIN s = 1..(Len(shown[c]) + 1)
       /\ \A i \in 1..Len(shown[c]) : s[i] = shown[c][i]
       /\ s[Len(shown[c]) + 1] = log[n].key
       /\ Len(shown[c]) \in Nat /\ DOMAIN shown[c] = 1..Len(shown[c])
  BY <1>9
<1> HIDE DEF s
<1>11. Range(s) = Range(shown[c]) \cup {log[n].key}
  BY <1>10 DEF Range
<1>12. Range(s) = {log'[i].key : i \in {j \in Passed(c)' : Own(c, j)'}}
  BY <1>2, <1>6, <1>7, <1>8, <1>11 DEF InOrder
<1>13. ASSUME NEW i \in DOMAIN s, NEW j \in DOMAIN s, i < j
       PROVE  \E m, q \in Passed(c)' : m < q /\ log'[m].key = s[i] /\ log'[q].key = s[j]
  <2>1. i \in 1..Len(shown[c])
    BY <1>10, <1>13
  <2>2. CASE j \in 1..Len(shown[c])
    BY <1>2, <1>6, <1>8, <1>10, <1>13, <2>1, <2>2 DEF InOrder
  <2>3. CASE j = Len(shown[c]) + 1
    <3>1. s[i] \in Range(shown[c])
      BY <1>10, <2>1 DEF Range
    <3>2. PICK m \in Passed(c) : log[m].key = s[i]
      BY <1>8, <3>1 DEF InOrder
    <3>3. QED
      BY <1>2, <1>6, <1>10, <2>3, <3>2
  <2>4. QED
    BY <1>10, <2>2, <2>3
<1>14. InOrder(c)'
  BY <1>2, <1>12, <1>13 DEF InOrder
<1>15. Up(c)' /\ socket'[c].pc = "loop"
  BY <1>1, <1>2, ConnUp DEF Up
<1>16. Linked(c)'
  BY <1>14, <1>15 DEF Linked
<1>17. QED
  BY <1>2, <1>16 DEF Connected

LEMMA PongLinked ==
  ASSUME FeedTypeOK, Connected, NEW c \in Clients, Pong(c)
  PROVE  Connected'
<1>1. PICK x \in Conn : /\ Moves(c, x, shown[c])
                        /\ x.pc = "loop" /\ x.since = socket[c].since
                        /\ x.next = socket[c].next
  BY PongEffect
<1>2. /\ socket'[c] = x /\ shown'[c] = shown[c] /\ log' = log
      /\ \A d \in Clients \ {c} : Linked(d)'
  BY <1>1, OthersKept DEF Moves
<1>3. Up(c) /\ socket[c].pc = "loop"
  BY DEF Pong
<1>4. Passed(c)' = Passed(c)
  BY <1>1, <1>2, <1>3 DEF Passed
<1>5. \A i : Own(c, i)' <=> Own(c, i)
  BY <1>2 DEF Own
<1>6. InOrder(c)
  BY <1>3 DEF Connected, Linked
<1>7. InOrder(c)'
  BY <1>2, <1>4, <1>5, <1>6 DEF InOrder
<1>8. Up(c)' /\ socket'[c].pc = "loop"
  BY <1>1, <1>2, ConnUp DEF Up
<1>9. Linked(c)'
  BY <1>7, <1>8 DEF Linked
<1>10. QED
  BY <1>2, <1>9 DEF Connected

LEMMA StaysConnected ==
  ASSUME TypeOK, Connected, [Next]_vars
  PROVE  Connected'
<1> USE DEF TypeOK
<1>1. ASSUME UNCHANGED <<socket, shown>>, \A i \in 1..Len(log) : log'[i] = log[i]
      PROVE  Connected'
  <2> SUFFICES ASSUME NEW c \in Clients PROVE Linked(c)'
    BY DEF Connected
  <2>1. Linked(c)
    BY DEF Connected
  <2>2. QED
    BY <1>1, <2>1, LinkedKept
<1>2. CASE ListingStep
  BY <1>1, <1>2 DEF ListingStep, feedVars
<1>3. CASE TellStep
  <2>1. UNCHANGED <<socket, shown>> /\ (log' = log \/ \E e \in Event : log' = Append(log, e))
    BY <1>3, TellEffect
  <2>2. \A i \in 1..Len(log) : log'[i] = log[i]
    BY <2>1, LogGrows DEF FeedTypeOK
  <2>3. QED
    BY <1>1, <2>1, <2>2
<1>4. ASSUME NEW c \in Clients, Close(c)
      PROVE  Connected'
  <2>1. /\ log' = log /\ ~Up(c)'
        /\ socket' = [socket EXCEPT ![c] = None] /\ shown' = [shown EXCEPT ![c] = <<>>]
    BY <1>4, CloseEffect
  <2>2. shown'[c] = <<>> /\ \A d \in Clients \ {c} : Linked(d)'
    BY <2>1, OthersKept
  <2>3. Linked(c)'
    BY <2>1, <2>2 DEF Linked
  <2>4. QED
    BY <2>2, <2>3 DEF Connected
<1>5. ASSUME NEW c \in Clients, Upgrade(c)
      PROVE  Connected'
  <2>1. log' = log /\ shown' = [shown EXCEPT ![c] = shown[c]]
        /\ socket' = [socket EXCEPT ![c] = [pc |-> "upgrading"]]
    BY <1>5 DEF Upgrade, FeedTypeOK
  <2>2. /\ socket'[c] = [pc |-> "upgrading"] /\ shown'[c] = shown[c]
        /\ \A d \in Clients \ {c} : Linked(d)'
    BY <2>1, OthersKept
  <2>3. shown[c] = <<>>
    BY <1>5 DEF Upgrade, Up, Connected, Linked
  <2>4. ~Up(c)'
    BY <2>2 DEF Up
  <2>5. Linked(c)'
    BY <2>2, <2>3, <2>4 DEF Linked
  <2>6. QED
    BY <2>2, <2>5 DEF Connected
<1>6. CASE SocketStep
  BY <1>4, <1>5, <1>6, SocketCases, SubscribeLinked, RecvLinked, SendLinked, PongLinked
<1>7. CASE UNCHANGED vars
  BY <1>1, <1>7 DEF vars, feedVars
<1>8. QED
  BY <1>2, <1>3, <1>6, <1>7 DEF Next

\* A client was sent on a connection, without a gap and in order, what was
\* published for its farmer since it was subscribed: ws/src/handler.rs ends the
\* connection when it cannot give it the next event.
THEOREM ShownStaysInOrder == Spec => []ShownInOrder
<1>1. Init => TypeOK /\ Connected
  <2> SUFFICES ASSUME Init PROVE TypeOK /\ Connected
    OBVIOUS
  <2>1. \A c \in Clients : ~Up(c) /\ shown[c] = <<>>
    BY DEF Init, Up
  <2>2. QED
    BY <2>1, InitTypes DEF Connected, Linked
<1>2. TypeOK /\ Connected /\ [Next]_vars => TypeOK' /\ Connected'
  BY FeedTypes, StaysConnected
<1>3. TypeOK /\ Connected => ShownInOrder
  BY ConnectedMeans
<1>4. QED
  BY <1>1, <1>2, <1>3, PTL DEF Spec

-----------------------------------------------------------------------------
(***************************************************************************)
(* What the steps do to a walk, field by field.                            *)
(***************************************************************************)

\* The history and the parameters that a walk has from its beginning.
SameWalk(w, v) ==
  v.table = w.table /\ v.filtered = w.filtered /\ v.sure = w.sure /\ v.live = w.live

\* Where a walk is, and what it has.
SamePlace(w, v) ==
  /\ v.pc = w.pc /\ v.page = w.page /\ v.total = w.total /\ v.got = w.got

LEMMA SettleFields ==
  ASSUME ListingTypeOK, NEW t \in Tables, NEW k \in Keys, Settle(t, k), NEW c \in Clients
  PROVE  /\ UNCHANGED rows /\ settled' = [settled EXCEPT ![t] = @ \cup {k}]
         /\ walk[c] = None => walk'[c] = None
         /\ walk[c] # None =>
              /\ walk'[c] # None
              /\ SameWalk(walk[c], walk'[c]) /\ SamePlace(walk[c], walk'[c])
              /\ walk'[c].late = walk[c].late
              /\ walk'[c].stirred =
                   (walk[c].stirred \/ (Walking(c) /\ walk[c].table = t /\ k \in Stored(t, UserOf[c])))
<1>1. UNCHANGED rows /\ settled' = [settled EXCEPT ![t] = @ \cup {k}]
  BY DEF Settle
<1> DEFINE hit == Walking(c) /\ walk[c].table = t /\ k \in Stored(t, UserOf[c])
<1>2. walk'[c] = IF hit THEN [walk[c] EXCEPT !.stirred = TRUE] ELSE walk[c]
  BY DEF Settle
<1>3. ASSUME hit, walk[c] # None
      PROVE  /\ walk'[c] # None /\ walk'[c].stirred = TRUE
             /\ SameWalk(walk[c], walk'[c]) /\ SamePlace(walk[c], walk'[c])
             /\ walk'[c].late = walk[c].late
  <2> DEFINE v == [walk[c] EXCEPT !.stirred = TRUE]
  <2>1. walk[c] \in Walk
    BY <1>3, WalkShape
  <2>2. v \in Walk
    BY <2>1 DEF Walk
  <2>3. v.stirred = TRUE /\ v.late = walk[c].late
    BY <2>1 DEF Walk
  <2>4. SameWalk(walk[c], v) /\ SamePlace(walk[c], v)
    BY <2>1 DEF Walk, SameWalk, SamePlace
  <2> HIDE DEF v
  <2>5. walk'[c] = v
    BY <1>2, <1>3 DEF v
  <2>6. QED
    BY <2>2, <2>3, <2>4, <2>5, WalkAssumption
<1>4. ASSUME ~hit, walk[c] # None
      PROVE  /\ walk'[c] # None /\ walk'[c].stirred = walk[c].stirred
             /\ SameWalk(walk[c], walk'[c]) /\ SamePlace(walk[c], walk'[c])
             /\ walk'[c].late = walk[c].late
  <2>1. walk'[c] = walk[c]
    BY <1>2, <1>4
  <2>2. QED
    BY <1>4, <2>1 DEF SameWalk, SamePlace
<1>5. walk[c] = None => walk'[c] = None
  BY <1>2 DEF Walking
<1>6. walk[c] # None => walk[c].stirred \in BOOLEAN
  BY WalkShape
<1> HIDE DEF hit
<1>7. walk[c] # None => walk'[c].stirred = (walk[c].stirred \/ hit)
  <2>1. CASE hit
    BY <1>3, <2>1
  <2>2. CASE ~hit
    BY <1>4, <1>6, <2>2
  <2>3. QED
    BY <2>1, <2>2
<1>8. QED
  BY <1>1, <1>3, <1>4, <1>5, <1>7 DEF hit

LEMMA InsertFields ==
  ASSUME ListingTypeOK, NEW t \in Tables, NEW f \in Farmers, NEW k \in Keys, Insert(t, f, k),
         NEW c \in Clients
  PROVE  /\ UNCHANGED settled
         /\ walk[c] = None => walk'[c] = None
         /\ walk[c] # None =>
              /\ walk'[c] # None
              /\ SameWalk(walk[c], walk'[c]) /\ SamePlace(walk[c], walk'[c])
              /\ walk'[c].stirred = walk[c].stirred
              /\ walk'[c].late = walk[c].late \/ walk'[c].late = TRUE
              /\ walk'[c].late # walk[c].late => walk[c].table = "orders" /\ Walking(c)
              /\ walk[c].table = "orders" /\ walk[c].pc = "rows" /\ t = "orders" /\ UserOf[c] = f
                   => walk'[c].late
<1> DEFINE hit == /\ Walking(c) /\ walk[c].table = t /\ UserOf[c] = f
                  /\ t = "orders" /\ walk[c].pc = "rows"
<1>1. walk'[c] = IF hit THEN [walk[c] EXCEPT !.late = TRUE] ELSE walk[c]
  BY DEF Insert
<1>2. ASSUME hit, walk[c] # None
      PROVE  /\ walk'[c] # None /\ walk'[c].late = TRUE
             /\ SameWalk(walk[c], walk'[c]) /\ SamePlace(walk[c], walk'[c])
             /\ walk'[c].stirred = walk[c].stirred
  <2> DEFINE v == [walk[c] EXCEPT !.late = TRUE]
  <2>1. walk[c] \in Walk
    BY <1>2, WalkShape
  <2>2. v \in Walk
    BY <2>1 DEF Walk
  <2>3. v.late = TRUE /\ v.stirred = walk[c].stirred
    BY <2>1 DEF Walk
  <2>4. SameWalk(walk[c], v) /\ SamePlace(walk[c], v)
    BY <2>1 DEF Walk, SameWalk, SamePlace
  <2> HIDE DEF v
  <2>5. walk'[c] = v
    BY <1>1, <1>2 DEF v
  <2>6. QED
    BY <2>2, <2>3, <2>4, <2>5, WalkAssumption
<1>3. ASSUME ~hit
      PROVE  walk'[c] = walk[c]
  BY <1>1, <1>3
<1>4. QED
  BY <1>2, <1>3 DEF SameWalk, SamePlace, Insert, Walking

LEMMA TurnFields ==
  ASSUME NEW w \in Walk
  PROVE  /\ SameWalk(w, Turn(w))
         /\ Turn(w).got = w.got /\ Turn(w).total = w.total
         /\ Turn(w).stirred = w.stirred /\ Turn(w).late = w.late
         /\ w.page * PerPage < w.total =>
              Turn(w).page = w.page + 1 /\ Turn(w).pc = FirstRead(w.table)
         /\ ~(w.page * PerPage < w.total) => Turn(w).pc = "done"
<1> DEFINE more == w.page * PerPage < w.total
           v == [w EXCEPT !.page = w.page + 1, !.pc = FirstRead(w.table)]
           u == [w EXCEPT !.pc = "done"]
<1>1. /\ SameWalk(w, v) /\ v.got = w.got /\ v.total = w.total
      /\ v.stirred = w.stirred /\ v.late = w.late
      /\ v.page = w.page + 1 /\ v.pc = FirstRead(w.table)
  BY DEF Walk, SameWalk
<1>2. /\ SameWalk(w, u) /\ u.got = w.got /\ u.total = w.total
      /\ u.stirred = w.stirred /\ u.late = w.late /\ u.pc = "done"
  BY DEF Walk, SameWalk
<1>3. Turn(w) = IF more THEN v ELSE u
  BY DEF Turn
<1> HIDE DEF v, u
<1>4. CASE more
  BY <1>1, <1>3, <1>4
<1>5. CASE ~more
  BY <1>2, <1>3, <1>5
<1>6. QED
  BY <1>4, <1>5

LEMMA ReadRowsFields ==
  ASSUME ListingTypeOK, NEW c \in Clients, ReadRows(c)
  PROVE  /\ walk[c] # None /\ walk[c].pc = "rows" /\ walk'[c] # None
         /\ SameWalk(walk[c], walk'[c])
         /\ \E page \in Pages(walk[c], c) : walk'[c].got = walk[c].got \cup page
         /\ walk'[c].total = walk[c].total
         /\ walk'[c].stirred = walk[c].stirred /\ walk'[c].late = walk[c].late
         /\ walk[c].table = "notifications" => walk'[c].pc = "count" /\ walk'[c].page = walk[c].page
         /\ walk[c].table = "orders" /\ walk[c].page * PerPage < walk[c].total =>
              walk'[c].pc = "count" /\ walk'[c].page = walk[c].page + 1
         /\ walk[c].table = "orders" /\ ~(walk[c].page * PerPage < walk[c].total) =>
              walk'[c].pc = "done"
<1>0. PICK page \in Pages(walk[c], c) :
        LET w == [walk[c] EXCEPT !.got = @ \cup page]
        IN  walk' = [walk EXCEPT ![c] =
              IF FirstRead(w.table) = "rows" THEN [w EXCEPT !.pc = "count"] ELSE Turn(w)]
  BY DEF ReadRows
<1> DEFINE w == [walk[c] EXCEPT !.got = @ \cup page]
           v == [w EXCEPT !.pc = "count"]
<1>1. walk[c] # None /\ walk[c].pc = "rows" /\ walk[c] \in Walk
  BY WalkShape DEF ReadRows
<1>2. w \in Walk
  <2>1. page \in SUBSET Keys
    BY <1>1, PageKeys
  <2>2. QED
    BY <1>1, <2>1 DEF Walk
<1>3. /\ SameWalk(walk[c], w) /\ w.got = walk[c].got \cup page
      /\ w.total = walk[c].total /\ w.stirred = walk[c].stirred /\ w.late = walk[c].late
      /\ w.page = walk[c].page
  BY <1>1 DEF Walk, SameWalk
<1>4. walk'[c] = IF FirstRead(w.table) = "rows" THEN v ELSE Turn(w)
  BY <1>0 DEF ListingTypeOK
<1>5. w.table \in Tables
  BY <1>2 DEF Walk
<1> HIDE DEF w
<1>6. /\ SameWalk(w, v) /\ v.got = w.got /\ v.total = w.total
      /\ v.stirred = w.stirred /\ v.late = w.late /\ v.page = w.page /\ v.pc = "count"
      /\ v \in Walk
  BY <1>2 DEF Walk, SameWalk
<1>7. Turn(w) \in Walk
  BY <1>2, TurnTyped
<1> HIDE DEF v
<1>8. CASE w.table = "notifications"
  <2>1. walk'[c] = v
    BY <1>4, <1>8 DEF FirstRead
  <2>2. QED
    BY <1>1, <1>3, <1>6, <1>8, <2>1, WalkAssumption DEF SameWalk
<1>9. CASE w.table = "orders"
  <2>1. walk'[c] = Turn(w) /\ FirstRead(w.table) = "count"
    BY <1>4, <1>9 DEF FirstRead
  <2>2. QED
    BY <1>1, <1>2, <1>3, <1>7, <1>9, <2>1, TurnFields, WalkAssumption DEF SameWalk
<1>10. QED
  BY <1>5, <1>8, <1>9 DEF Tables

LEMMA ReadCountFields ==
  ASSUME ListingTypeOK, NEW c \in Clients, ReadCount(c)
  PROVE  /\ walk[c] # None /\ walk[c].pc = "count" /\ walk'[c] # None
         /\ SameWalk(walk[c], walk'[c])
         /\ walk'[c].got = walk[c].got /\ walk'[c].total = Total(walk[c], c)
         /\ walk'[c].stirred = walk[c].stirred /\ walk'[c].late = FALSE
         /\ walk[c].table = "orders" => walk'[c].pc = "rows" /\ walk'[c].page = walk[c].page
         /\ walk[c].table = "notifications" /\ walk[c].page * PerPage < Total(walk[c], c) =>
              walk'[c].pc = "rows" /\ walk'[c].page = walk[c].page + 1
         /\ walk[c].table = "notifications" /\ ~(walk[c].page * PerPage < Total(walk[c], c)) =>
              walk'[c].pc = "done"
<1> DEFINE n == Total(walk[c], c)
           w == [walk[c] EXCEPT !.total = n, !.late = FALSE]
           v == [w EXCEPT !.pc = "rows"]
<1>1. walk[c] # None /\ walk[c].pc = "count" /\ walk[c] \in Walk
  BY WalkShape DEF ReadCount
<1>2. n \in Nat
  BY <1>1, PageKeys
<1>3. walk'[c] = IF FirstRead(w.table) = "count" THEN v ELSE Turn(w)
  BY DEF ReadCount, ListingTypeOK
<1> HIDE DEF n
<1>4. w \in Walk
  BY <1>1, <1>2 DEF Walk
<1>5. /\ SameWalk(walk[c], w) /\ w.got = walk[c].got
      /\ w.total = n /\ w.stirred = walk[c].stirred /\ w.late = FALSE
      /\ w.page = walk[c].page
  BY <1>1 DEF Walk, SameWalk
<1>6. w.table \in Tables
  BY <1>4 DEF Walk
<1> HIDE DEF w
<1>7. /\ SameWalk(w, v) /\ v.got = w.got /\ v.total = w.total
      /\ v.stirred = w.stirred /\ v.late = w.late /\ v.page = w.page /\ v.pc = "rows"
      /\ v \in Walk
  BY <1>4 DEF Walk, SameWalk
<1>8. Turn(w) \in Walk
  BY <1>4, TurnTyped
<1> HIDE DEF v
<1>9. CASE w.table = "orders"
  <2>1. walk'[c] = v
    BY <1>3, <1>9 DEF FirstRead
  <2>2. QED
    BY <1>1, <1>5, <1>7, <1>9, <2>1, WalkAssumption DEF SameWalk, n
<1>10. CASE w.table = "notifications"
  <2>1. walk'[c] = Turn(w) /\ FirstRead(w.table) = "rows"
    BY <1>3, <1>10 DEF FirstRead
  <2>2. QED
    BY <1>1, <1>4, <1>5, <1>8, <1>10, <2>1, TurnFields, WalkAssumption DEF SameWalk, n
<1>11. QED
  BY <1>6, <1>9, <1>10 DEF Tables

LEMMA BeginFields ==
  ASSUME ListingTypeOK, NEW c \in Clients, NEW t \in Tables,
         \E filtered, live \in BOOLEAN : BeginWalk(c, t, filtered, live) /\ (live => Up(c))
  PROVE  /\ walk'[c] # None
         /\ walk'[c].table = t /\ (walk'[c].live => Up(c))
         /\ walk'[c].pc = FirstRead(t) /\ walk'[c].page = 1 /\ walk'[c].late = FALSE
         /\ walk'[c].sure =
              Stored(t, UserOf[c]) \ (IF walk'[c].filtered THEN settled[t] ELSE {})
<1>1. PICK filtered \in BOOLEAN, live \in BOOLEAN :
        BeginWalk(c, t, filtered, live) /\ (live => Up(c))
  OBVIOUS
<1> DEFINE sure == Stored(t, UserOf[c]) \ (IF filtered THEN settled[t] ELSE {})
           w == [table |-> t, filtered |-> filtered, pc |-> FirstRead(t), page |-> 1,
                 total |-> 0, got |-> {}, sure |-> sure,
                 stirred |-> FALSE, late |-> FALSE, live |-> live]
<1>2. sure \in SUBSET Keys
  BY TableShape, UserAssumption
<1>3. FirstRead(t) \in {"rows", "count", "done"}
  BY DEF FirstRead
<1>4. walk'[c] = w
  BY <1>1 DEF BeginWalk, ListingTypeOK
<1> HIDE DEF sure
<1>5. w \in Walk
  BY <1>1, <1>2, <1>3 DEF Walk
<1>6. /\ w.table = t /\ w.filtered = filtered /\ w.live = live
      /\ w.pc = FirstRead(t) /\ w.page = 1 /\ w.late = FALSE /\ w.sure = sure
  OBVIOUS
<1> HIDE DEF w
<1>7. QED
  BY <1>1, <1>4, <1>5, <1>6, WalkAssumption DEF sure

\* The clients that a step of the lists is not for.
LEMMA OtherWalks ==
  ASSUME ListingTypeOK, NEW c \in Clients, NEW d \in Clients, d # c,
         \/ ReadRows(c) \/ ReadCount(c) \/ GiveUp(c)
         \/ \E t \in Tables, filtered, live \in BOOLEAN : BeginWalk(c, t, filtered, live)
  PROVE  walk'[d] = walk[d] /\ UNCHANGED <<rows, settled>>
  BY DEF ReadRows, ReadCount, GiveUp, BeginWalk, ListingTypeOK

\* An end of a connection changes one field of one walk.
LEMMA CloseFields ==
  ASSUME ListingTypeOK, NEW c \in Clients, Close(c), NEW d \in Clients
  PROVE  /\ walk[d] = None => walk'[d] = None
         /\ walk[d] # None =>
              /\ walk'[d] # None
              /\ walk'[d].table = walk[d].table /\ walk'[d].filtered = walk[d].filtered
              /\ walk'[d].sure = walk[d].sure
              /\ SamePlace(walk[d], walk'[d])
              /\ walk'[d].stirred = walk[d].stirred /\ walk'[d].late = walk[d].late
              /\ walk'[d].live => walk[d].live /\ d # c
<1>1. CASE walk[c] = None \/ d # c
  <2>1. walk'[d] = walk[d]
    BY <1>1 DEF Close, ListingTypeOK
  <2>2. walk[d] # None => d # c
    BY <1>1
  <2>3. QED
    BY <2>1, <2>2 DEF SamePlace
<1>2. CASE walk[c] # None /\ d = c
  <2> DEFINE v == [walk[c] EXCEPT !.live = FALSE]
  <2>1. walk[c] \in Walk
    BY <1>2, WalkShape
  <2>2. v \in Walk
    BY <2>1 DEF Walk
  <2>3. /\ v.table = walk[c].table /\ v.filtered = walk[c].filtered /\ v.sure = walk[c].sure
        /\ SamePlace(walk[c], v)
        /\ v.stirred = walk[c].stirred /\ v.late = walk[c].late /\ v.live = FALSE
    BY <2>1 DEF Walk, SamePlace
  <2>4. walk'[c] = v
    BY <1>2 DEF Close, ListingTypeOK
  <2> HIDE DEF v
  <2>5. QED
    BY <1>2, <2>2, <2>3, <2>4, WalkAssumption
<1>3. QED
  BY <1>1, <1>2

-----------------------------------------------------------------------------
(***************************************************************************)
(* The log, the stored notifications and the walks that count on them.     *)
(***************************************************************************)

LEMMA StaysStoredFirst ==
  ASSUME TypeOK, StoredFirst, [Next]_vars
  PROVE  StoredFirst'
<1> USE DEF TypeOK
<1>1. ASSUME UNCHANGED <<rows, telling, log>>
      PROVE  StoredFirst'
  BY <1>1 DEF StoredFirst, Noted, Stored, At
<1>2. CASE ListingStep
  <2>1. UNCHANGED rows
    BY <1>2 DEF ListingStep, Settle, BeginWalk, ReadRows, ReadCount, GiveUp
  <2>2. QED
    BY <1>1, <1>2, <2>1 DEF ListingStep, feedVars
<1>3. CASE TellStep
  <2> DEFINE After(g) == UNION Range(rows'["notifications"][g])
  <2>0. \A g : Stored("notifications", g)' = After(g) /\ Noted(g)' = After(g)
    BY DEF Stored, Noted
  <2>1. \A g \in Farmers : Noted(g) \subseteq After(g)
    <3>1. \A g \in Farmers : Stored("notifications", g) \subseteq Stored("notifications", g)'
      BY <1>3, TellEffect DEF Tables
    <3>2. QED
      BY <2>0, <3>1 DEF Noted
  <2> HIDE DEF After
  <2>2. ASSUME NEW i \in DOMAIN log
        PROVE  log[i].key \in After(log[i].farmer)
    <3>1. log[i] \in Event
      BY DEF FeedTypeOK
    <3>2. QED
      BY <2>1, <3>1 DEF StoredFirst, Event
  <2>3. ASSUME NEW k \in Keys, At(k, "publish")
        PROVE  k \in After(telling[k].farmer)
    BY <2>1, <2>3, TellingShape DEF StoredFirst, At
  <2>4. ASSUME NEW k \in Keys, NEW f \in Farmers, Place(k, f)
        PROVE  StoredFirst'
    <3>1. \A q \in Keys : At(q, "publish")' => At(q, "publish") /\ telling'[q] = telling[q]
      BY <2>4 DEF Place, At, FeedTypeOK
    <3>2. log' = log
      BY <2>4 DEF Place
    <3>3. QED
      BY <2>0, <2>2, <2>3, <3>1, <3>2 DEF StoredFirst
  <2>5. ASSUME NEW k \in Keys, StoreNotification(k)
        PROVE  StoredFirst'
    <3>1. telling[k] # None /\ telling[k].farmer \in Farmers
      BY <2>5, TellingShape DEF StoreNotification, At
    <3>2. k \in After(telling[k].farmer)
      BY <2>0, <2>5, <3>1, InsertTypes DEF StoreNotification, Tables
    <3>3. telling'[k].farmer = telling[k].farmer
      BY <2>5, <3>1, TellingShape DEF StoreNotification, FeedTypeOK, Telling
    <3>4. \A q \in Keys \ {k} : At(q, "publish")' => At(q, "publish") /\ telling'[q] = telling[q]
      BY <2>5 DEF StoreNotification, At, FeedTypeOK
    <3>5. log' = log
      BY <2>5 DEF StoreNotification
    <3>6. QED
      BY <2>0, <2>2, <2>3, <3>2, <3>3, <3>4, <3>5 DEF StoredFirst
  <2>6. ASSUME NEW k \in Keys, PublishEvent(k)
        PROVE  StoredFirst'
    <3>1. telling[k] # None /\ telling[k].farmer \in Farmers /\ At(k, "publish")
      BY <2>6, TellingShape DEF PublishEvent, At
    <3> DEFINE e == [farmer |-> telling[k].farmer, key |-> k]
    <3>2. e \in Event /\ e.key = k /\ e.farmer = telling[k].farmer
      BY <3>1 DEF Event
    <3>3. log' = Append(log, e) /\ log \in Seq(Event)
      BY <2>6 DEF PublishEvent, FeedTypeOK
    <3> HIDE DEF e
    <3>4. \A i \in DOMAIN log' : (i \in DOMAIN log /\ log'[i] = log[i]) \/ log'[i] = e
      BY <3>2, <3>3
    <3>5. \A i \in DOMAIN log' : log'[i].key \in After(log'[i].farmer)
      BY <2>2, <2>3, <3>1, <3>2, <3>4
    <3>6. \A q \in Keys : At(q, "publish")' => At(q, "publish") /\ telling'[q] = telling[q]
      <4>1. telling'[k].pc = "done"
        BY <2>6, <3>1, TellingShape DEF PublishEvent, FeedTypeOK, Telling
      <4>2. \A q \in Keys \ {k} : telling'[q] = telling[q]
        BY <2>6 DEF PublishEvent, FeedTypeOK
      <4>3. QED
        BY <4>1, <4>2 DEF At
    <3>7. QED
      BY <2>0, <2>3, <3>5, <3>6 DEF StoredFirst
  <2>7. ASSUME NEW k \in Keys, DropTelling(k)
        PROVE  StoredFirst'
    <3>1. \A q \in Keys : At(q, "publish")' => At(q, "publish") /\ telling'[q] = telling[q]
      <4>1. telling'[k].pc = "dropped"
        BY <2>7, TellingShape DEF DropTelling, At, FeedTypeOK, Telling
      <4>2. \A q \in Keys \ {k} : telling'[q] = telling[q]
        BY <2>7 DEF DropTelling, FeedTypeOK
      <4>3. QED
        BY <4>1, <4>2 DEF At
    <3>2. log' = log
      BY <2>7 DEF DropTelling
    <3>3. QED
      BY <2>0, <2>2, <2>3, <3>1, <3>2 DEF StoredFirst
  <2>8. QED
    BY <1>3, <2>4, <2>5, <2>6, <2>7 DEF TellStep
<1>4. ASSUME NEW c \in Clients, Close(c)
      PROVE  StoredFirst'
  BY <1>1, <1>4 DEF Close
<1>5. CASE SocketStep
  BY <1>1, <1>4, <1>5 DEF SocketStep, Leave, Upgrade, Subscribe, Recv, Send, Pong, listingVars
<1>6. CASE UNCHANGED vars
  BY <1>1, <1>6 DEF vars, listingVars, feedVars
<1>7. QED
  BY <1>2, <1>3, <1>5, <1>6 DEF Next

\* An insertion of an order that a list does not have yet.
LEMMA InsertOnce ==
  ASSUME TypeOK, Apart, Fresh, NEW t \in Tables, NEW f \in Farmers, NEW k \in Keys,
         Insert(t, f, k), k \notin Stored(t, f)
  PROVE  /\ Apart'
         /\ \A u \in Tables, g \in Farmers : Stored(u, g)' \subseteq Stored(u, g) \cup {k}
         /\ \A u \in Tables \ {t}, g \in Farmers : Stored(u, g)' = Stored(u, g)
<1> USE DEF TypeOK
<1>1. \A i \in DOMAIN rows[t][f] : k \notin rows[t][f][i]
  BY TableShape
<1>2. \A i, j \in DOMAIN rows[t][f] : i # j => rows[t][f][i] \cap rows[t][f][j] = {}
  BY DEF Apart
<1>3. \A i, j \in DOMAIN rows'[t][f] : i # j => rows'[t][f][i] \cap rows'[t][f][j] = {}
  <2>1. Extends(rows[t][f], rows'[t][f], k)
    BY InsertTypes
  <2>2. QED
    BY <1>1, <1>2, <2>1 DEF Extends
<1>4. \A u \in Tables, g \in Farmers : ~(u = t /\ g = f) => rows'[u][g] = rows[u][g]
  BY InsertTypes
<1>5. Apart'
  <2> SUFFICES ASSUME NEW u \in Tables, NEW g \in Farmers
               PROVE  \A i, j \in DOMAIN rows'[u][g] :
                        i # j => rows'[u][g][i] \cap rows'[u][g][j] = {}
    BY DEF Apart
  <2>1. CASE u = t /\ g = f
    BY <1>3, <2>1
  <2>2. CASE ~(u = t /\ g = f)
    BY <1>4, <2>2 DEF Apart
  <2>3. QED
    BY <2>1, <2>2
<1>6. \A u \in Tables, g \in Farmers : ~(u = t /\ g = f) => Stored(u, g)' = Stored(u, g)
  BY <1>4 DEF Stored
<1>7. Stored(t, f)' = Stored(t, f) \cup {k}
  BY InsertTypes
<1>8. QED
  BY <1>5, <1>6, <1>7

LEMMA StaysOnce ==
  ASSUME TypeOK, Apart, Fresh, [Next]_vars
  PROVE  Apart' /\ Fresh'
<1> USE DEF TypeOK
<1>1. ASSUME UNCHANGED rows,
             \A q \in Keys : /\ telling'[q] = None => telling[q] = None
                             /\ At(q, "notify")' => At(q, "notify")
      PROVE  Apart' /\ Fresh'
  <2>1. \A t \in Tables, f \in Farmers : Stored(t, f)' = Stored(t, f)
    BY <1>1 DEF Stored
  <2>a. \A f \in Farmers : Noted(f)' = Noted(f)
    BY <1>1 DEF Noted, Stored
  <2>2. Fresh'
    <3>1. ASSUME NEW q \in Keys, telling'[q] = None
          PROVE  \A t \in Tables, f \in Farmers : q \notin Stored(t, f)'
      <4>1. telling[q] = None
        BY <1>1, <3>1
      <4>2. \A t \in Tables, f \in Farmers : q \notin Stored(t, f)
        BY <4>1 DEF Fresh
      <4>3. QED
        BY <2>1, <4>2
    <3>2. ASSUME NEW q \in Keys, At(q, "notify")'
          PROVE  \A f \in Farmers : q \notin Noted(f)'
      <4>1. At(q, "notify")
        BY <1>1, <3>2
      <4>2. \A f \in Farmers : q \notin Noted(f)
        BY <4>1 DEF Fresh
      <4>3. QED
        BY <2>a, <4>2
    <3>3. QED
      BY <3>1, <3>2 DEF Fresh
  <2>3. Apart'
    BY <1>1 DEF Apart
  <2>4. QED
    BY <2>2, <2>3
<1>2. ASSUME UNCHANGED <<rows, telling>>
      PROVE  Apart' /\ Fresh'
  BY <1>1, <1>2 DEF At
<1>3. CASE ListingStep
  <2>1. UNCHANGED rows
    BY <1>3 DEF ListingStep, Settle, BeginWalk, ReadRows, ReadCount, GiveUp
  <2>2. QED
    BY <1>2, <1>3, <2>1 DEF ListingStep, feedVars
<1>4. ASSUME NEW k \in Keys, NEW f \in Farmers, Place(k, f)
      PROVE  Apart' /\ Fresh'
  <2>1. telling[k] = None /\ telling' = [telling EXCEPT ![k] = [pc |-> "notify", farmer |-> f]]
    BY <1>4 DEF Place
  <2>2. \A t \in Tables, g \in Farmers : k \notin Stored(t, g)
    BY <2>1 DEF Fresh
  <2>3. /\ Apart'
        /\ \A u \in Tables, g \in Farmers : Stored(u, g)' \subseteq Stored(u, g) \cup {k}
        /\ \A u \in Tables \ {"orders"}, g \in Farmers : Stored(u, g)' = Stored(u, g)
    BY <1>4, <2>2, InsertOnce DEF Place, Tables
  <2>4. ASSUME NEW q \in Keys, telling'[q] = None
        PROVE  \A t \in Tables, g \in Farmers : q \notin Stored(t, g)'
    <3>1. [pc |-> "notify", farmer |-> f] # None
      BY FeedAssumption DEF Telling
    <3>2. q # k /\ telling[q] = None
      BY <2>1, <2>4, <3>1 DEF FeedTypeOK
    <3>3. QED
      BY <2>3, <3>2 DEF Fresh
  <2>5. ASSUME NEW q \in Keys, At(q, "notify")'
        PROVE  \A g \in Farmers : q \notin Noted(g)'
    <3>1. \A g \in Farmers : Noted(g)' = Noted(g)
      BY <2>3 DEF Noted, Tables
    <3>2. CASE q = k
      BY <2>2, <3>1, <3>2 DEF Noted, Tables
    <3>3. CASE q # k
      <4>1. At(q, "notify")
        BY <2>1, <2>5, <3>3 DEF At, FeedTypeOK
      <4>2. QED
        BY <3>1, <4>1 DEF Fresh
    <3>4. QED
      BY <3>2, <3>3
  <2>6. QED
    BY <2>3, <2>4, <2>5 DEF Fresh
<1>5. ASSUME NEW k \in Keys, NEW pc \in {"publish", "done", "dropped"}, telling[k] # None,
             telling' = [telling EXCEPT ![k].pc = pc]
      PROVE  /\ telling'[k] # None /\ ~At(k, "notify")'
             /\ \A q \in Keys \ {k} : telling'[q] = telling[q]
  <2>1. telling[k] \in Telling
    BY <1>5, TellingShape
  <2>2. [telling[k] EXCEPT !.pc = pc] \in Telling /\ [telling[k] EXCEPT !.pc = pc].pc = pc
    BY <2>1 DEF Telling
  <2>3. telling'[k] = [telling[k] EXCEPT !.pc = pc]
    BY <1>5 DEF FeedTypeOK
  <2>4. telling'[k] # None /\ telling'[k].pc = pc
    BY <2>2, <2>3, FeedAssumption
  <2>5. \A q \in Keys \ {k} : telling'[q] = telling[q]
    BY <1>5 DEF FeedTypeOK
  <2>6. QED
    BY <2>4, <2>5 DEF At
<1>6. ASSUME NEW k \in Keys, StoreNotification(k)
      PROVE  Apart' /\ Fresh'
  <2> DEFINE f == telling[k].farmer
  <2>1. /\ At(k, "notify") /\ telling[k] # None /\ f \in Farmers
        /\ telling' = [telling EXCEPT ![k].pc = "publish"]
        /\ Insert("notifications", f, k)
    BY <1>6, TellingShape DEF StoreNotification, At
  <2>2. /\ telling'[k] # None /\ ~At(k, "notify")'
        /\ \A q \in Keys \ {k} : telling'[q] = telling[q]
    BY <1>5, <2>1
  <2>3. \A g \in Farmers : k \notin Stored("notifications", g)
    BY <2>1 DEF Fresh, Noted
  <2>4. /\ Apart'
        /\ \A u \in Tables, g \in Farmers : Stored(u, g)' \subseteq Stored(u, g) \cup {k}
    BY <2>1, <2>3, InsertOnce DEF Tables
  <2>5. ASSUME NEW q \in Keys, telling'[q] = None
        PROVE  \A t \in Tables, g \in Farmers : q \notin Stored(t, g)'
    <3>1. q # k /\ telling[q] = None
      BY <2>2, <2>5
    <3>2. QED
      BY <2>4, <3>1 DEF Fresh
  <2>6. ASSUME NEW q \in Keys, At(q, "notify")'
        PROVE  \A g \in Farmers : q \notin Noted(g)'
    <3>1. q # k
      BY <2>2, <2>6
    <3>2. At(q, "notify")
      BY <2>2, <2>6, <3>1 DEF At
    <3>3. QED
      BY <2>4, <3>1, <3>2 DEF Fresh, Noted, Tables
  <2>7. QED
    BY <2>4, <2>5, <2>6 DEF Fresh
<1>7. ASSUME NEW k \in Keys, PublishEvent(k) \/ DropTelling(k)
      PROVE  Apart' /\ Fresh'
  <2>1. /\ UNCHANGED rows /\ telling[k] # None
        /\ \E pc \in {"publish", "done", "dropped"} : telling' = [telling EXCEPT ![k].pc = pc]
    BY <1>7 DEF PublishEvent, DropTelling, At, listingVars
  <2>2. /\ telling'[k] # None /\ ~At(k, "notify")'
        /\ \A q \in Keys \ {k} : telling'[q] = telling[q]
    BY <1>5, <2>1
  <2>3. \A q \in Keys : /\ telling'[q] = None => telling[q] = None
                        /\ At(q, "notify")' => At(q, "notify")
    BY <2>2 DEF At
  <2>4. QED
    BY <1>1, <2>1, <2>3
<1>8. CASE TellStep
  BY <1>4, <1>6, <1>7, <1>8 DEF TellStep
<1>9. ASSUME NEW c \in Clients, Close(c)
      PROVE  Apart' /\ Fresh'
  BY <1>2, <1>9 DEF Close
<1>10. CASE SocketStep
  BY <1>2, <1>9, <1>10 DEF SocketStep, Leave, Upgrade, Subscribe, Recv, Send, Pong, listingVars
<1>11. CASE UNCHANGED vars
  BY <1>2, <1>11 DEF vars, listingVars, feedVars
<1>12. QED
  BY <1>3, <1>8, <1>10, <1>11 DEF Next

\* A client's part of LiveSure.
CountsOn(c) ==
  walk[c] # None /\ walk[c].live =>
    /\ Up(c)
    /\ walk[c].table = "notifications" /\ ~walk[c].filtered =>
         \A i \in DOMAIN log : i < socket[c].since /\ Own(c, i) => log[i].key \in walk[c].sure

LEMMA CountsOnKept ==
  ASSUME TypeOK, NEW c \in Clients, CountsOn(c),
         walk'[c] # None /\ walk'[c].live =>
           /\ walk[c] # None /\ walk[c].live
           /\ walk'[c].table = walk[c].table /\ walk'[c].filtered = walk[c].filtered
           /\ walk'[c].sure = walk[c].sure
           /\ Up(c) => Up(c)' /\ socket'[c].since = socket[c].since,
         log' = log \/ \E e \in Event : log' = Append(log, e)
  PROVE  CountsOn(c)'
<1> SUFFICES ASSUME walk'[c] # None, walk'[c].live
             PROVE  /\ Up(c)'
                    /\ walk'[c].table = "notifications" /\ ~walk'[c].filtered =>
                         \A i \in DOMAIN log' :
                           i < socket'[c].since /\ Own(c, i)' => log'[i].key \in walk'[c].sure
  BY DEF CountsOn
<1>1. Up(c) /\ Up(c)' /\ socket'[c].since = socket[c].since
  BY DEF CountsOn
<1>2. /\ log \in Seq(Event) /\ log' \in Seq(Event)
      /\ \A i \in 1..Len(log) : log'[i] = log[i]
  BY LogGrows DEF TypeOK, FeedTypeOK
<1>3. \A i \in DOMAIN log' : i < socket[c].since => i \in DOMAIN log /\ log'[i] = log[i]
  BY <1>1, <1>2, SocketShape DEF TypeOK
<1>4. QED
  BY <1>1, <1>3 DEF CountsOn, Own

LEMMA StaysLiveSure ==
  ASSUME TypeOK, StoredFirst, LiveSure, [Next]_vars
  PROVE  LiveSure'
<1> USE DEF TypeOK
<1> SUFFICES ASSUME NEW c \in Clients PROVE CountsOn(c)'
  BY DEF LiveSure, CountsOn
<1>1. CountsOn(c)
  BY DEF LiveSure, CountsOn
<1>2. CASE ListingStep
  <2>1. log' = log /\ socket' = socket /\ (Up(c)' <=> Up(c))
    BY <1>2 DEF ListingStep, feedVars, Up
  <2>2. ASSUME NEW t \in Tables, NEW k \in Keys, Settle(t, k)
        PROVE  CountsOn(c)'
    BY <1>1, <2>1, <2>2, SettleFields, CountsOnKept DEF SameWalk
  <2>3. ASSUME NEW d \in Clients, ReadRows(d)
        PROVE  CountsOn(c)'
    <3>1. CASE d = c
      BY <1>1, <2>1, <2>3, <3>1, ReadRowsFields, CountsOnKept DEF SameWalk
    <3>2. CASE d # c
      BY <1>1, <2>1, <2>3, <3>2, OtherWalks, CountsOnKept
    <3>3. QED
      BY <3>1, <3>2
  <2>4. ASSUME NEW d \in Clients, ReadCount(d)
        PROVE  CountsOn(c)'
    <3>1. CASE d = c
      BY <1>1, <2>1, <2>4, <3>1, ReadCountFields, CountsOnKept DEF SameWalk
    <3>2. CASE d # c
      BY <1>1, <2>1, <2>4, <3>2, OtherWalks, CountsOnKept
    <3>3. QED
      BY <3>1, <3>2
  <2>5. ASSUME NEW d \in Clients, GiveUp(d)
        PROVE  CountsOn(c)'
    <3>1. CASE d = c
      BY <2>5, <3>1 DEF CountsOn, GiveUp, ListingTypeOK
    <3>2. CASE d # c
      BY <1>1, <2>1, <2>5, <3>2, OtherWalks, CountsOnKept
    <3>3. QED
      BY <3>1, <3>2
  <2>6. ASSUME NEW d \in Clients, NEW t \in Tables, NEW filtered \in BOOLEAN,
               NEW live \in BOOLEAN, BeginWalk(d, t, filtered, live), live => Up(d)
        PROVE  CountsOn(c)'
    <3>1. CASE d = c
      <4>1. /\ walk'[c].table = t /\ (walk'[c].live => Up(c))
            /\ walk'[c].sure =
                 Stored(t, UserOf[c]) \ (IF walk'[c].filtered THEN settled[t] ELSE {})
        <5>1. \E filt, liv \in BOOLEAN : BeginWalk(c, t, filt, liv) /\ (liv => Up(c))
          BY <2>6, <3>1
        <5>2. ListingTypeOK
          OBVIOUS
        <5>3. QED
          BY <5>1, <5>2, BeginFields
      <4>2. ASSUME walk'[c].table = "notifications", ~walk'[c].filtered,
                   NEW i \in DOMAIN log, Own(c, i)
            PROVE  log[i].key \in walk'[c].sure
        <5>1. walk'[c].sure = Noted(UserOf[c])
          BY <4>1, <4>2 DEF Noted
        <5>2. log[i].key \in Noted(log[i].farmer)
          BY DEF StoredFirst
        <5>3. QED
          BY <4>2, <5>1, <5>2 DEF Own
      <4>3. \A i \in DOMAIN log : Own(c, i)' <=> Own(c, i)
        BY <2>1 DEF Own
      <4>4. walk'[c].live => Up(c)'
        BY <2>1, <4>1
      <4>5. QED
        BY <2>1, <4>2, <4>3, <4>4 DEF CountsOn
    <3>2. CASE d # c
      BY <1>1, <2>1, <2>6, <3>2, OtherWalks, CountsOnKept
    <3>3. QED
      BY <3>1, <3>2
  <2>7. \A d \in Clients : (Up(d) /\ socket[d].heard) \in BOOLEAN
    OBVIOUS
  <2>8. QED
    BY <1>2, <2>2, <2>3, <2>4, <2>5, <2>6, <2>7 DEF ListingStep
<1>3. CASE TellStep
  <2>1. socket' = socket /\ (log' = log \/ \E e \in Event : log' = Append(log, e))
        /\ (Up(c)' <=> Up(c))
    BY <1>3, TellEffect DEF Up
  <2>2. ASSUME NEW k \in Keys, NEW t \in Tables, NEW f \in Farmers, Insert(t, f, k)
        PROVE  CountsOn(c)'
    BY <1>1, <2>1, <2>2, InsertFields, CountsOnKept DEF SameWalk
  <2>3. ASSUME walk' = walk
        PROVE  CountsOn(c)'
    BY <1>1, <2>1, <2>3, CountsOnKept
  <2>4. CASE \E k \in Keys : \E f \in Farmers : Place(k, f)
    BY <2>2, <2>4 DEF Place, Tables
  <2>5. CASE \E k \in Keys : StoreNotification(k)
    BY <2>2, <2>5, TellingShape DEF StoreNotification, At, Tables
  <2>6. CASE \E k \in Keys : PublishEvent(k) \/ DropTelling(k)
    BY <2>3, <2>6 DEF PublishEvent, DropTelling, listingVars
  <2>7. QED
    BY <1>3, <2>4, <2>5, <2>6 DEF TellStep
<1>4. ASSUME NEW d \in Clients, Close(d)
      PROVE  CountsOn(c)'
  <2>1. log' = log /\ socket' = [socket EXCEPT ![d] = None]
    BY <1>4 DEF Close
  <2>2. d # c => socket'[c] = socket[c] /\ (Up(c)' <=> Up(c))
    BY <2>1 DEF Up, FeedTypeOK
  <2>3. QED
    BY <1>1, <1>4, <2>1, <2>2, CloseFields, CountsOnKept
<1>5. ASSUME NEW d \in Clients, Upgrade(d)
      PROVE  CountsOn(c)'
  <2>1. log' = log /\ walk' = walk
    BY <1>5 DEF Upgrade, listingVars
  <2>2. Up(c) => Up(c)' /\ socket'[c] = socket[c]
    BY <1>5 DEF Upgrade, Up, FeedTypeOK
  <2>3. QED
    BY <1>1, <2>1, <2>2, CountsOnKept
<1>6. ASSUME NEW d \in Clients, NEW x, NEW s, Moves(d, x, s), Up(d) => x.since = socket[d].since
      PROVE  CountsOn(c)'
  <2>1. log' = log /\ walk' = walk
    BY <1>6 DEF Moves, listingVars
  <2>2. Up(c) => Up(c)' /\ socket'[c].since = socket[c].since
    BY <1>6, ConnUp DEF Moves, Up, FeedTypeOK
  <2>3. QED
    BY <1>1, <2>1, <2>2, CountsOnKept
<1>7. ASSUME NEW d \in Clients, Subscribe(d) \/ (Recv(d) /\ ~Close(d)) \/ Send(d) \/ Pong(d)
      PROVE  \E x, s : Moves(d, x, s) /\ (Up(d) => x.since = socket[d].since)
  <2>1. CASE Subscribe(d)
    <3>1. ~Up(d)
      BY <2>1 DEF Subscribe, Up
    <3>2. QED
      BY <2>1, <3>1, SubscribeEffect
  <2>2. CASE (Recv(d) /\ ~Close(d)) \/ Send(d) \/ Pong(d)
    BY <2>2, RecvEffect, SendEffect, PongEffect
  <2>3. QED
    BY <1>7, <2>1, <2>2
<1>8. CASE SocketStep
  BY <1>4, <1>5, <1>6, <1>7, <1>8, SocketCases
<1>9. CASE UNCHANGED vars
  BY <1>1, <1>9, CountsOnKept DEF vars, listingVars, feedVars, Up
<1>10. QED
  BY <1>2, <1>3, <1>8, <1>9 DEF Next

-----------------------------------------------------------------------------
(***************************************************************************)
(* A walk and the rows it has yet to see.                                  *)
(***************************************************************************)

\* A row with a timestamp of its own is none of those before it.
LEMMA OwnPlace ==
  ASSUME ListingTypeOK, Apart, NEW c \in Clients, walk[c] # None,
         NEW i \in DOMAIN Table(walk[c], c), NEW k \in Selected(walk[c], c),
         Table(walk[c], c)[i] = {k}
  PROVE  LET w == walk[c]
             n == Cardinality(Newer(w, c, i))
         IN  /\ n < Cardinality(Selected(w, c))
             /\ n < Cardinality(Stored(w.table, UserOf[c]))
<1> DEFINE w == walk[c]
           T == Table(w, c)
           S == Stored(w.table, UserOf[c])
           N == Newer(w, c, i)
<1>1. /\ DOMAIN T = 1..Len(T) /\ Len(T) \in Nat
      /\ IsFiniteSet(S) /\ Cardinality(S) \in Nat
      /\ Selected(w, c) \in SUBSET S
      /\ IsFiniteSet(Selected(w, c)) /\ Cardinality(Selected(w, c)) \in Nat
      /\ N \in SUBSET Selected(w, c) /\ IsFiniteSet(N) /\ Cardinality(N) \in Nat
  BY SelectedShape
<1>2. \A j \in DOMAIN T : j # i => k \notin T[j]
  BY SelectedShape DEF Apart
<1>3. k \notin N
  <2>1. \A j \in 1..(i - 1) : j \in DOMAIN T /\ j # i
    BY <1>1
  <2>2. QED
    BY <1>2, <2>1 DEF Newer
<1> HIDE DEF w, T, S, N
<1>4. /\ Cardinality(N) <= Cardinality(Selected(w, c))
      /\ Cardinality(N) # Cardinality(Selected(w, c))
  BY <1>1, <1>3, FS_Subset DEF w
<1>5. Cardinality(Selected(w, c)) <= Cardinality(S)
  BY <1>1, FS_Subset
<1>6. Cardinality(N) < Cardinality(Selected(w, c)) /\ Cardinality(N) < Cardinality(S)
  BY <1>1, <1>4, <1>5
<1>7. QED
  BY <1>6 DEF w, S, N

LEMMA HadNat ==
  ASSUME ListingTypeOK, NEW c \in Clients, walk[c] # None
  PROVE  /\ Had(walk[c]) \in Nat
         /\ walk[c].page * PerPage \in Nat /\ (walk[c].page - 1) * PerPage \in Nat
         /\ walk[c].page * PerPage = (walk[c].page - 1) * PerPage + PerPage
<1> DEFINE p == walk[c].page
<1>1. p \in Nat /\ p - 1 \in Nat
  BY WalkShape
<1> HIDE DEF p
<1>2. p * PerPage \in Nat /\ (p - 1) * PerPage \in Nat
  BY <1>1, PagesNat
<1>3. p * PerPage = (p - 1) * PerPage + PerPage
  BY <1>1, PageAssumption
<1>4. QED
  BY <1>2, <1>3 DEF Had, p

\* A walk that is as it was, over rows that are as they were.
LEMMA SoundKept ==
  ASSUME NEW c \in Clients, Sound(c), UNCHANGED <<rows, settled>>,
         walk'[c] # None =>
           /\ walk[c] # None
           /\ walk'[c].table = walk[c].table /\ walk'[c].filtered = walk[c].filtered
           /\ walk'[c].sure = walk[c].sure
           /\ SamePlace(walk[c], walk'[c])
           /\ walk'[c].stirred = walk[c].stirred /\ walk'[c].late = walk[c].late
  PROVE  Sound(c)'
<1> SUFFICES ASSUME walk'[c] # None PROVE Sound(c)'
  BY DEF Sound
<1>1. /\ Table(walk[c], c)' = Table(walk[c], c)
      /\ Stored(walk[c].table, UserOf[c])' = Stored(walk[c].table, UserOf[c])
      /\ Selected(walk[c], c)' = Selected(walk[c], c)
      /\ Tied(walk[c], c)' = Tied(walk[c], c)
  BY DEF Table, Selected, Stored, Tied, Twins
<1>2. \A i : Newer(walk[c], c, i)' = Newer(walk[c], c, i)
  BY <1>1 DEF Newer
<1>3. Had(walk[c])' = Had(walk[c]) /\ (Excused(walk[c])' <=> Excused(walk[c]))
  BY DEF Had, Excused, SamePlace
<1>4. \A k : Ahead(walk[c], c, k)' <=> Ahead(walk[c], c, k)
  BY <1>1, <1>2, <1>3 DEF Ahead
<1>5. QED
  BY <1>1, <1>3, <1>4 DEF Sound, SamePlace

LEMMA SettleSound ==
  ASSUME ListingTypeOK, NEW t \in Tables, NEW k \in Keys, Settle(t, k),
         NEW c \in Clients, Sound(c)
  PROVE  Sound(c)'
<1> DEFINE w == walk[c]
           v == walk'[c]
<1>1. CASE w = None
  BY <1>1, SettleFields DEF Sound
<1>2. CASE w # None
  <2>1. /\ UNCHANGED rows /\ v # None /\ SameWalk(w, v) /\ SamePlace(w, v) /\ v.late = w.late
        /\ v.stirred =
             (w.stirred \/ (Walking(c) /\ w.table = t /\ k \in Stored(t, UserOf[c])))
    BY <1>2, SettleFields
  <2>2. w.table \in Tables /\ w.pc \in {"rows", "count", "done"}
    BY <1>2, WalkShape
  <2>3. /\ Table(w, c)' = Table(w, c) /\ Tied(w, c)' = Tied(w, c)
        /\ Stored(w.table, UserOf[c])' = Stored(w.table, UserOf[c])
        /\ Had(w)' = Had(w) /\ (Excused(w)' => v.filtered /\ v.stirred)
    BY <2>1 DEF Table, Tied, Twins, Stored, Had, Excused, SameWalk, SamePlace
  <2>4. Excused(w) => Excused(w)'
    BY <2>1 DEF Excused, SameWalk
  <2>5. /\ v.table = "notifications" => ~v.late
        /\ v.pc = "done" /\ ~v.late /\ ~Excused(w)' => v.sure \subseteq v.got \cup Tied(w, c)'
        /\ v.pc = "rows" /\ v.table = "orders" /\ ~v.late =>
             v.total = Cardinality(Stored(w.table, UserOf[c])')
    BY <1>2, <2>1, <2>3, <2>4 DEF Sound, SameWalk, SamePlace
  <2>6. ASSUME v.pc # "done", ~Excused(w)'
        PROVE  Selected(w, c)' = Selected(w, c)
    <3>1. Walking(c)
      BY <1>2, <2>1, <2>6 DEF Walking, SamePlace
    <3>2. CASE ~w.filtered
      BY <2>1, <2>3, <3>2 DEF Selected, SameWalk
    <3>3. CASE w.table = t /\ w.filtered
      <4>1. k \notin Stored(w.table, UserOf[c])
        BY <2>1, <2>6, <3>1, <3>3 DEF Excused, SameWalk
      <4>2. settled'[t] = settled[t] \cup {k}
        BY SettleFields DEF ListingTypeOK
      <4>3. QED
        BY <2>1, <2>3, <3>3, <4>1, <4>2 DEF Selected, SameWalk
    <3>4. CASE w.table # t
      <4>1. settled'[w.table] = settled[w.table]
        BY <2>2, <3>4, SettleFields DEF ListingTypeOK
      <4>2. QED
        BY <2>1, <2>3, <4>1 DEF Selected, SameWalk
    <3>5. QED
      BY <3>2, <3>3, <3>4
  <2>7. ASSUME v.pc # "done", ~Excused(w)', NEW q \in v.sure
        PROVE  q \in v.got \cup Tied(w, c)' \/ Ahead(w, c, q)'
    <3>1. q \in w.got \cup Tied(w, c) \/ Ahead(w, c, q)
      BY <1>2, <2>1, <2>4, <2>7 DEF Sound, SameWalk, SamePlace
    <3>2. \A i : Newer(w, c, i)' = Newer(w, c, i)
      BY <2>3, <2>6, <2>7 DEF Newer
    <3>3. Ahead(w, c, q) => Ahead(w, c, q)'
      BY <2>3, <2>6, <2>7, <3>2 DEF Ahead
    <3>4. QED
      BY <2>1, <2>3, <3>1, <3>3 DEF SamePlace
  <2>8. QED
    BY <2>5, <2>7 DEF Sound
<1>3. QED
  BY <1>1, <1>2

\* Rows of one timestamp stay so.
LEMMA InsertTies ==
  ASSUME ListingTypeOK, NEW t \in Tables, NEW f \in Farmers, NEW k \in Keys, Insert(t, f, k),
         NEW u \in Tables, NEW g \in Farmers
  PROVE  Twins(u, g) \subseteq Twins(u, g)'
<1> SUFFICES ASSUME NEW q \in Twins(u, g) PROVE q \in Twins(u, g)'
  OBVIOUS
<1>1. q \in Stored(u, g)'
  BY InsertTypes DEF Twins
<1>2. PICK i \in DOMAIN rows[u][g] : q \in rows[u][g][i] /\ rows[u][g][i] # {q}
  BY DEF Twins
<1>3. CASE ~(u = t /\ g = f)
  <2>1. rows'[u][g] = rows[u][g]
    BY <1>3, InsertTypes
  <2>2. QED
    BY <1>1, <1>2, <2>1 DEF Twins
<1>4. CASE u = t /\ g = f
  <2> DEFINE T == rows[t][f]
             U == rows'[t][f]
  <2>0. Extends(T, U, k)
    BY InsertTypes
  <2>1. PICK m \in [DOMAIN T -> DOMAIN U] :
          \A j \in DOMAIN T : U[m[j]] = T[j] \/ U[m[j]] = T[j] \cup {k}
    BY <2>0 DEF Extends
  <2>2. m[i] \in DOMAIN U /\ q \in U[m[i]] /\ U[m[i]] # {q}
    BY <1>2, <1>4, <2>1
  <2>3. QED
    BY <1>1, <1>4, <2>2 DEF Twins
<1>5. QED
  BY <1>3, <1>4

LEMMA InsertSound ==
  ASSUME ListingTypeOK, NEW t \in Tables, NEW f \in Farmers, NEW k \in Keys, Insert(t, f, k),
         NEW c \in Clients, Sound(c)
  PROVE  Sound(c)'
<1> DEFINE w == walk[c]
           v == walk'[c]
           T == Table(w, c)
<1>1. CASE w = None
  BY <1>1, InsertFields DEF Sound
<1>2. CASE w # None
  <2>1. /\ UNCHANGED settled /\ v # None /\ SameWalk(w, v) /\ SamePlace(w, v)
        /\ v.stirred = w.stirred
        /\ v.late = w.late \/ v.late = TRUE
        /\ v.late # w.late => w.table = "orders" /\ Walking(c)
        /\ w.table = "orders" /\ w.pc = "rows" /\ t = "orders" /\ UserOf[c] = f => v.late
    BY <1>2, InsertFields
  <2>2. /\ w.table \in Tables /\ w.pc \in {"rows", "count", "done"}
        /\ v.late \in BOOLEAN /\ w.late \in BOOLEAN
    <3>1. w.table \in Tables /\ w.pc \in {"rows", "count", "done"} /\ w.late \in BOOLEAN
      BY <1>2, WalkShape
    <3>2. QED
      BY <2>1, <3>1
  <2>3. Had(w)' = Had(w) /\ (Excused(w)' <=> Excused(w))
    BY <2>1 DEF Had, Excused, SameWalk, SamePlace
  <2>4. v.table = "notifications" => ~v.late
    BY <1>2, <2>1, <2>2 DEF Sound, SameWalk
  <2>a. Tied(w, c) \subseteq Tied(w, c)'
    <3>1. ASSUME NEW u \in Tables, NEW g \in Farmers
          PROVE  Twins(u, g) \subseteq Twins(u, g)'
      BY InsertTies
    <3>2. UserOf[c] \in Farmers
      BY UserAssumption
    <3>3. PICK u \in Tables : u = w.table /\ u = v.table
      BY <2>1, <2>2 DEF SameWalk
    <3>4. Tied(w, c) = Twins(u, UserOf[c]) /\ Tied(w, c)' = Twins(u, UserOf[c])'
      BY <3>3 DEF Tied
    <3>5. QED
      BY <3>1, <3>2, <3>4
  <2>5. v.pc = "done" /\ ~v.late /\ ~Excused(w)' => v.sure \subseteq v.got \cup Tied(w, c)'
    BY <1>2, <2>1, <2>2, <2>3, <2>a DEF Sound, SameWalk, SamePlace, Walking
  <2>6. CASE w.table = t /\ UserOf[c] = f
    <3> DEFINE U == Table(w, c)'
               X == Selected(w, c)
               Y == Selected(w, c)'
    <3>1. T = rows[t][f] /\ U = rows'[t][f] /\ v.table = t
      BY <2>1, <2>6 DEF Table, SameWalk
    <3>2. PICK m \in [DOMAIN T -> DOMAIN U] :
            /\ \A i, j \in DOMAIN T : i < j => m[i] < m[j]
            /\ \A i \in DOMAIN T : U[m[i]] = T[i] \/ U[m[i]] = T[i] \cup {k}
      <4>1. Extends(T, U, k)
        BY <3>1, InsertTypes
      <4> HIDE DEF T, U
      <4>2. QED
        BY <4>1 DEF Extends
    <3>3. X \in SUBSET Y
      BY <2>1, <2>6, InsertTypes DEF Selected, SameWalk
    <3>4. /\ DOMAIN T = 1..Len(T) /\ Len(T) \in Nat
          /\ DOMAIN U = 1..Len(U) /\ Len(U) \in Nat
          /\ Y \in SUBSET Stored(t, f)' /\ IsFiniteSet(Stored(t, f)')
      <4>1. ListingTypeOK'
        BY InsertTypes
      <4>2. Y \in SUBSET Stored(t, f)'
        BY <2>6, <3>1 DEF Selected
      <4>3. IsFiniteSet(Stored(t, f)')
        <5>1. Stored(t, f)' = Stored(t, f) \cup {k}
          BY InsertTypes
        <5>2. Stored(t, f)' \in SUBSET Keys
          BY <5>1, TableShape
        <5>3. QED
          BY <5>2, KeysAssumption, FS_Subset
      <4>4. T \in Seq(SUBSET Keys) /\ U \in Seq(SUBSET Keys)
        BY <3>1, <4>1 DEF ListingTypeOK
      <4> HIDE DEF T, U, Y
      <4>5. QED
        BY <4>2, <4>3, <4>4
    <3>5. \A i \in DOMAIN T : \A j \in 1..(i - 1) : j \in DOMAIN T /\ m[j] \in 1..(m[i] - 1)
      <4> HIDE DEF T, U, X, Y
      <4>1. QED
        BY <3>2, <3>4
    <3>6. \A i \in DOMAIN T : Newer(w, c, i) \subseteq Newer(w, c, m[i])'
      <4> SUFFICES ASSUME NEW i \in DOMAIN T, NEW q \in X, NEW j \in 1..(i - 1), q \in T[j]
                   PROVE  q \in Y /\ \E n \in 1..(m[i] - 1) : q \in U[n]
        BY DEF Newer
      <4> HIDE DEF T, U, X, Y
      <4>1. QED
        BY <3>2, <3>3, <3>5
    <3>7. \A i \in DOMAIN T :
            /\ Cardinality(Newer(w, c, i)) \in Nat /\ Cardinality(Newer(w, c, m[i])') \in Nat
            /\ Cardinality(Newer(w, c, i)) <= Cardinality(Newer(w, c, m[i])')
      <4> SUFFICES ASSUME NEW i \in DOMAIN T
                   PROVE  /\ Cardinality(Newer(w, c, i)) \in Nat /\ Cardinality(Newer(w, c, m[i])') \in Nat
                          /\ Cardinality(Newer(w, c, i)) <= Cardinality(Newer(w, c, m[i])')
        OBVIOUS
      <4> DEFINE A == Newer(w, c, i)
                 B == Newer(w, c, m[i])'
      <4>1. B \in SUBSET Y
        BY DEF Newer
      <4>2. A \in SUBSET B
        BY <3>6
      <4> HIDE DEF A, B, Y, T
      <4>3. IsFiniteSet(B)
        BY <3>4, <4>1, FS_Subset
      <4>4. IsFiniteSet(A) /\ Cardinality(A) <= Cardinality(B)
        BY <4>2, <4>3, FS_Subset
      <4>5. Cardinality(A) \in Nat /\ Cardinality(B) \in Nat
        BY <4>3, <4>4, FS_CardinalityType
      <4>6. QED
        BY <4>4, <4>5 DEF A, B
    <3>8. ASSUME NEW q, Ahead(w, c, q)
          PROVE  q \in Tied(w, c)' \/ Ahead(w, c, q)'
      <4>1. PICK i \in DOMAIN T : /\ T[i] = {q} /\ q \in X
                                 /\ Had(w) <= Cardinality(Newer(w, c, i))
        BY <3>8 DEF Ahead
      <4>2. CASE U[m[i]] = {q}
        <5>1. m[i] \in DOMAIN U /\ q \in Y
          BY <3>2, <3>3, <4>1
        <5>2. Had(w) <= Cardinality(Newer(w, c, m[i])')
          <6>1. Had(w) \in Nat
            BY <1>2, HadNat
          <6>2. QED
            BY <3>7, <4>1, <6>1
        <5>3. QED
          BY <2>3, <4>2, <5>1, <5>2 DEF Ahead
      <4>3. CASE U[m[i]] # {q}
        <5>1. q \in U[m[i]] /\ m[i] \in DOMAIN U
          BY <3>2, <4>1
        <5>2. q \in Stored(t, f)'
          <6>1. q \in Stored(w.table, UserOf[c])
            BY <4>1 DEF Selected
          <6>2. QED
            BY <2>6, <6>1, InsertTypes
        <5>3. q \in Twins(t, f)'
          BY <3>1, <4>3, <5>1, <5>2 DEF Twins
        <5>4. QED
          BY <2>6, <3>1, <5>3 DEF Tied
      <4>4. QED
        BY <4>2, <4>3
    <3>9. v.pc # "done" /\ ~Excused(w)' =>
            \A q \in v.sure : q \in v.got \cup Tied(w, c)' \/ Ahead(w, c, q)'
      BY <1>2, <2>1, <2>3, <2>a, <3>8 DEF Sound, SameWalk, SamePlace
    <3>10. v.pc = "rows" /\ v.table = "orders" => v.late
      BY <2>1, <2>6 DEF SameWalk, SamePlace
    <3>11. QED
      BY <2>4, <2>5, <3>9, <3>10 DEF Sound
  <2>7. CASE ~(w.table = t /\ UserOf[c] = f)
    <3>1. rows'[w.table][UserOf[c]] = rows[w.table][UserOf[c]]
      BY <2>2, <2>7, InsertTypes, UserAssumption
    <3>2. /\ Table(w, c)' = T /\ Selected(w, c)' = Selected(w, c)
          /\ Stored(w.table, UserOf[c])' = Stored(w.table, UserOf[c])
      BY <2>1, <3>1 DEF Table, Selected, Stored, SameWalk
    <3>3. \A i : Newer(w, c, i)' = Newer(w, c, i)
      BY <3>2 DEF Newer
    <3>4. \A q : Ahead(w, c, q) => Ahead(w, c, q)'
      BY <2>3, <3>2, <3>3 DEF Ahead
    <3>5. v.pc # "done" /\ ~Excused(w)' =>
            \A q \in v.sure : q \in v.got \cup Tied(w, c)' \/ Ahead(w, c, q)'
      BY <1>2, <2>1, <2>3, <2>a, <3>4 DEF Sound, SameWalk, SamePlace
    <3>6. v.pc = "rows" /\ v.table = "orders" /\ ~v.late =>
            v.total = Cardinality(Stored(w.table, UserOf[c])')
      BY <1>2, <2>1, <2>2, <3>2 DEF Sound, SameWalk, SamePlace
    <3>7. QED
      BY <2>1, <2>4, <2>5, <3>5, <3>6 DEF Sound, SameWalk
  <2>8. QED
    BY <2>6, <2>7
<1>3. QED
  BY <1>1, <1>2

LEMMA BeginSound ==
  ASSUME TypeOK, NEW c \in Clients, NEW t \in Tables,
         \E filtered, live \in BOOLEAN : BeginWalk(c, t, filtered, live) /\ (live => Up(c))
  PROVE  Sound(c)'
<1> DEFINE w == walk[c]
           v == walk'[c]
<1> USE DEF TypeOK
<1>1. /\ v # None /\ v.table = t
      /\ v.pc = FirstRead(t) /\ v.page = 1 /\ v.late = FALSE
      /\ v.sure = Stored(t, UserOf[c]) \ (IF v.filtered THEN settled[t] ELSE {})
  BY BeginFields
<1>2. UNCHANGED <<rows, settled>>
  BY DEF BeginWalk
<1>3. Had(w)' = 0
  BY <1>1, PageAssumption DEF Had, FirstRead
<1>4. ASSUME NEW k \in v.sure
      PROVE  k \in Tied(w, c)' \/ Ahead(w, c, k)'
  <2> DEFINE T == rows[t][UserOf[c]]
  <2>1. Table(w, c)' = T /\ Stored(t, UserOf[c])' = Stored(t, UserOf[c])
    BY <1>1, <1>2 DEF Table, Stored
  <2>2. k \in Stored(t, UserOf[c])
    BY <1>1, <1>4
  <2>3. PICK i \in DOMAIN T : k \in T[i]
    BY <2>2, TableShape, UserAssumption
  <2>4. CASE T[i] = {k}
    <3>1. k \in Selected(w, c)'
      BY <1>1, <1>2, <1>4, <2>1, <2>2 DEF Selected
    <3>2. Cardinality(Newer(w, c, i)') \in Nat
      <4>1. Newer(w, c, i)' \in SUBSET Stored(t, UserOf[c])
        BY <1>1, <2>1 DEF Newer, Selected
      <4>2. IsFiniteSet(Stored(t, UserOf[c]))
        BY TableShape, UserAssumption
      <4>3. QED
        BY <4>1, <4>2, FS_Subset, FS_CardinalityType
    <3>3. Had(w)' <= Cardinality(Newer(w, c, i)')
      BY <1>3, <3>2
    <3>4. QED
      BY <2>1, <2>3, <2>4, <3>1, <3>3 DEF Ahead
  <2>5. CASE T[i] # {k}
    <3>1. k \in Twins(t, UserOf[c])'
      BY <1>2, <2>1, <2>2, <2>3, <2>5 DEF Twins
    <3>2. QED
      BY <1>1, <3>1 DEF Tied
  <2>6. QED
    BY <2>4, <2>5
<1>5. v.pc = "rows" => v.table = "notifications"
  BY <1>1 DEF FirstRead, Tables
<1>6. v.pc # "done"
  BY <1>1 DEF FirstRead
<1>7. QED
  BY <1>1, <1>4, <1>5, <1>6 DEF Sound

LEMMA ReadRowsSound ==
  ASSUME ListingTypeOK, Apart, NEW c \in Clients, Sound(c), ReadRows(c)
  PROVE  Sound(c)'
<1> DEFINE w == walk[c]
           v == walk'[c]
<1>0. PICK page \in Pages(w, c) : v.got = w.got \cup page
  BY ReadRowsFields
<1>1. /\ w # None /\ w.pc = "rows" /\ v # None /\ SameWalk(w, v)
      /\ v.total = w.total
      /\ v.stirred = w.stirred /\ v.late = w.late
      /\ w.table = "notifications" => v.pc = "count" /\ v.page = w.page
      /\ w.table = "orders" /\ w.page * PerPage < w.total =>
           v.pc = "count" /\ v.page = w.page + 1
      /\ w.table = "orders" /\ ~(w.page * PerPage < w.total) => v.pc = "done"
  BY ReadRowsFields
<1>2. w.table \in Tables /\ w.page \in Nat \ {0} /\ w.total \in Nat
  BY <1>1, WalkShape
<1>3. UNCHANGED <<rows, settled>>
  BY DEF ReadRows
<1>4. /\ Table(w, c)' = Table(w, c)
      /\ Stored(w.table, UserOf[c])' = Stored(w.table, UserOf[c])
      /\ Selected(w, c)' = Selected(w, c)
      /\ \A i : Newer(w, c, i)' = Newer(w, c, i)
      /\ Tied(w, c)' = Tied(w, c)
  BY <1>1, <1>3 DEF Table, Stored, Selected, Newer, Tied, Twins, SameWalk
<1>5. Excused(w)' <=> Excused(w)
  BY <1>1 DEF Excused, SameWalk
<1>6. Had(w) = (w.page - 1) * PerPage
  BY <1>1 DEF Had
<1>7. v.pc # "done" => Had(w)' = w.page * PerPage
  <2>1. CASE w.table = "notifications"
    BY <1>1, <2>1 DEF Had, SameWalk
  <2>2. CASE w.table = "orders"
    <3> SUFFICES ASSUME v.pc # "done" PROVE Had(w)' = w.page * PerPage
      OBVIOUS
    <3>1. v.table = "orders" /\ v.pc = "count" /\ v.page = w.page + 1
      BY <1>1, <2>2 DEF SameWalk
    <3>2. Had(w)' = (v.page - 1) * PerPage
      BY <3>1 DEF Had
    <3>3. v.page - 1 = w.page
      BY <1>2, <3>1
    <3>4. QED
      BY <3>2, <3>3
  <2>3. QED
    BY <1>2, <2>1, <2>2 DEF Tables
\* The next page has the row, or it lies behind that page.
<1>8. ASSUME NEW k, Ahead(w, c, k)
      PROVE  k \in v.got \/ \E i \in DOMAIN Table(w, c) :
                              /\ Table(w, c)[i] = {k} /\ k \in Selected(w, c)
                              /\ w.page * PerPage <= Cardinality(Newer(w, c, i))
  <2>1. PICK i \in DOMAIN Table(w, c) :
          /\ Table(w, c)[i] = {k} /\ k \in Selected(w, c)
          /\ (w.page - 1) * PerPage <= Cardinality(Newer(w, c, i))
    BY <1>6, <1>8 DEF Ahead
  <2> DEFINE n == Cardinality(Newer(w, c, i))
             low == (w.page - 1) * PerPage
             high == w.page * PerPage
  <2>2. n \in Nat /\ low \in Nat /\ high \in Nat
    BY <1>1, SelectedShape, HadNat
  <2>3. ASSUME n < high
        PROVE  k \in page
    <3>1. Table(w, c)[i] \cap Selected(w, c) = {k} /\ Cardinality({k}) = 1
      BY <2>1, FS_Singleton
    <3>2. Places(w, c, i) = (n + 1)..(n + 1)
      BY <3>1 DEF Places
    <3>3. PagePlaces(w) = (low + 1)..high
      BY DEF PagePlaces
    <3>4. low <= n
      BY <2>1
    <3> HIDE DEF n, low, high
    <3>5. (n + 1)..(n + 1) \cap (low + 1)..high = {n + 1}
      BY <2>2, <2>3, <3>4
    <3>6. Cardinality(Places(w, c, i) \cap PagePlaces(w)) = 1
      BY <3>2, <3>3, <3>5, FS_Singleton
    <3>7. Cardinality(page \cap {k}) = 1
      BY <1>0, <2>1, <3>6 DEF Pages
    <3>8. page \cap {k} # {}
      BY <3>7, FS_EmptySet
    <3>9. QED
      BY <3>8
  <2>4. CASE n < high
    BY <1>0, <2>3, <2>4
  <2>5. CASE ~(n < high)
    <3> HIDE DEF n, high
    <3>1. high <= n
      BY <2>2, <2>5
    <3>2. QED
      BY <2>1, <3>1 DEF n, high
  <2>6. QED
    BY <2>4, <2>5
<1>9. \A k \in v.sure : ~Excused(w) => k \in w.got \cup Tied(w, c) \/ Ahead(w, c, k)
  BY <1>1 DEF Sound, SameWalk
<1>10. ASSUME v.pc # "done", ~Excused(w), NEW k \in v.sure
       PROVE  k \in v.got \cup Tied(w, c)' \/ Ahead(w, c, k)'
  <2>1. CASE k \in w.got \cup Tied(w, c)
    BY <1>0, <1>4, <2>1
  <2>2. CASE Ahead(w, c, k)
    BY <1>4, <1>7, <1>8, <1>10, <2>2 DEF Ahead
  <2>3. QED
    BY <1>9, <1>10, <2>1, <2>2
<1>11. ASSUME v.pc = "done", ~v.late, ~Excused(w), NEW k \in v.sure
       PROVE  k \in v.got \cup Tied(w, c)'
  <2>1. w.table = "orders" /\ ~(w.page * PerPage < w.total)
    BY <1>1, <1>2, <1>11 DEF Tables
  <2>2. w.total = Cardinality(Stored(w.table, UserOf[c]))
    BY <1>1, <1>11, <2>1 DEF Sound
  <2>3. ASSUME NEW i \in DOMAIN Table(w, c), Table(w, c)[i] = {k}, k \in Selected(w, c)
        PROVE  ~(w.page * PerPage <= Cardinality(Newer(w, c, i)))
    <3> DEFINE n == Cardinality(Newer(w, c, i))
               high == w.page * PerPage
    <3>1. n < w.total
      BY <1>1, <2>2, <2>3, OwnPlace
    <3>2. n \in Nat /\ high \in Nat
      BY <1>1, SelectedShape, HadNat
    <3>3. ~(high < w.total)
      BY <2>1
    <3> HIDE DEF n, high, w
    <3>4. ~(high <= n)
      BY <1>2, <3>1, <3>2, <3>3
    <3>5. QED
      BY <3>4 DEF n, high, w
  <2>4. CASE k \in w.got \cup Tied(w, c)
    BY <1>0, <1>4, <2>4
  <2>5. CASE Ahead(w, c, k)
    BY <1>8, <2>3, <2>5
  <2>6. QED
    BY <1>9, <1>11, <2>4, <2>5
<1>12. v.table = "notifications" => ~v.late
  BY <1>1 DEF Sound, SameWalk
<1>13. v.pc # "rows"
  BY <1>1, <1>2 DEF Tables
<1>14. QED
  BY <1>5, <1>10, <1>11, <1>12, <1>13 DEF Sound

LEMMA ReadCountSound ==
  ASSUME ListingTypeOK, Apart, NEW c \in Clients, Sound(c), ReadCount(c)
  PROVE  Sound(c)'
<1> DEFINE w == walk[c]
           v == walk'[c]
           n == Total(w, c)
<1>1. /\ w # None /\ w.pc = "count" /\ v # None /\ SameWalk(w, v)
      /\ v.got = w.got /\ v.total = n
      /\ v.stirred = w.stirred /\ v.late = FALSE
      /\ w.table = "orders" => v.pc = "rows" /\ v.page = w.page
      /\ w.table = "notifications" /\ w.page * PerPage < n =>
           v.pc = "rows" /\ v.page = w.page + 1
      /\ w.table = "notifications" /\ ~(w.page * PerPage < n) => v.pc = "done"
  BY ReadCountFields
<1>2. w.table \in Tables /\ w.page \in Nat \ {0}
  BY <1>1, WalkShape
<1>3. UNCHANGED <<rows, settled>>
  BY DEF ReadCount
<1>4. /\ Table(w, c)' = Table(w, c)
      /\ Stored(w.table, UserOf[c])' = Stored(w.table, UserOf[c])
      /\ Selected(w, c)' = Selected(w, c)
      /\ \A i : Newer(w, c, i)' = Newer(w, c, i)
      /\ Tied(w, c)' = Tied(w, c)
  BY <1>1, <1>3 DEF Table, Stored, Selected, Newer, Tied, Twins, SameWalk
<1>5. Excused(w)' <=> Excused(w)
  BY <1>1 DEF Excused, SameWalk
<1>6. v.pc # "done" => Had(w)' = Had(w)
  <2>1. CASE w.table = "notifications"
    <3>1. Had(w) = w.page * PerPage
      BY <1>1, <2>1 DEF Had
    <3> SUFFICES ASSUME v.pc # "done" PROVE Had(w)' = Had(w)
      OBVIOUS
    <3>2. v.table = "notifications" /\ v.pc = "rows" /\ v.page = w.page + 1
      BY <1>1, <2>1 DEF SameWalk
    <3>3. Had(w)' = (v.page - 1) * PerPage
      BY <3>2 DEF Had
    <3>4. v.page - 1 = w.page
      BY <1>2, <3>2
    <3>5. QED
      BY <3>1, <3>3, <3>4
  <2>2. CASE w.table = "orders"
    BY <1>1, <2>2 DEF Had, SameWalk
  <2>3. QED
    BY <1>2, <2>1, <2>2 DEF Tables
<1>7. \A k \in v.sure : ~Excused(w) => k \in w.got \cup Tied(w, c) \/ Ahead(w, c, k)
  BY <1>1 DEF Sound, SameWalk
<1>8. ASSUME v.pc # "done", ~Excused(w), NEW k \in v.sure
      PROVE  k \in v.got \cup Tied(w, c)' \/ Ahead(w, c, k)'
  <2>1. Ahead(w, c, k) => Ahead(w, c, k)'
    BY <1>4, <1>6, <1>8 DEF Ahead
  <2>2. QED
    BY <1>1, <1>4, <1>7, <1>8, <2>1
<1>9. ASSUME v.pc = "done", ~Excused(w), NEW k \in v.sure
      PROVE  k \in v.got \cup Tied(w, c)'
  <2>1. w.table = "notifications" /\ ~(w.page * PerPage < n)
    BY <1>1, <1>2, <1>9 DEF Tables
  <2>2. n = Cardinality(Selected(w, c)) /\ Had(w) = w.page * PerPage
    BY <1>1, <2>1 DEF Total, Had
  <2>3. ~Ahead(w, c, k)
    <3> SUFFICES ASSUME NEW i \in DOMAIN Table(w, c), Table(w, c)[i] = {k}, k \in Selected(w, c)
                 PROVE  ~(Had(w) <= Cardinality(Newer(w, c, i)))
      BY DEF Ahead
    <3> DEFINE m == Cardinality(Newer(w, c, i))
               high == w.page * PerPage
    <3>1. m < n
      BY <1>1, <2>2, OwnPlace
    <3>2. m \in Nat /\ high \in Nat /\ n \in Nat
      BY <1>1, <2>2, SelectedShape, HadNat
    <3>3. ~(high < n)
      BY <2>1
    <3> HIDE DEF m, high, n, w
    <3>4. ~(high <= m)
      BY <3>1, <3>2, <3>3
    <3>5. QED
      BY <2>2, <3>4 DEF m, high
  <2>4. QED
    BY <1>1, <1>4, <1>7, <1>9, <2>3
<1>10. v.pc = "rows" /\ v.table = "orders" =>
         v.total = Cardinality(Stored(w.table, UserOf[c])')
  BY <1>1, <1>4 DEF Total, SameWalk
<1>11. QED
  BY <1>1, <1>5, <1>8, <1>9, <1>10 DEF Sound, SameWalk

LEMMA StaysSound ==
  ASSUME TypeOK, Apart, WalkSound, [Next]_vars
  PROVE  WalkSound'
<1> USE DEF TypeOK
<1> SUFFICES ASSUME NEW c \in Clients PROVE Sound(c)'
  BY DEF WalkSound
<1>1. Sound(c)
  BY DEF WalkSound
<1>2. ASSUME UNCHANGED <<rows, settled>>, walk'[c] = walk[c]
      PROVE  Sound(c)'
  BY <1>1, <1>2, SoundKept DEF SamePlace
<1>3. CASE ListingStep
  <2>1. ASSUME NEW d \in Clients, ReadRows(d) \/ ReadCount(d)
        PROVE  Sound(c)'
    <3>1. CASE d = c
      BY <1>1, <2>1, <3>1, ReadRowsSound, ReadCountSound
    <3>2. CASE d # c
      BY <1>2, <2>1, <3>2, OtherWalks
    <3>3. QED
      BY <3>1, <3>2
  <2>2. ASSUME NEW d \in Clients, GiveUp(d)
        PROVE  Sound(c)'
    <3>1. CASE d = c
      BY <2>2, <3>1 DEF Sound, GiveUp, ListingTypeOK
    <3>2. CASE d # c
      BY <1>2, <2>2, <3>2, OtherWalks
    <3>3. QED
      BY <3>1, <3>2
  <2>3. ASSUME NEW d \in Clients, NEW t \in Tables, NEW filtered \in BOOLEAN,
               NEW live \in BOOLEAN, BeginWalk(d, t, filtered, live), live => Up(d)
        PROVE  Sound(c)'
    <3>1. CASE d = c
      <4>1. \E filt, liv \in BOOLEAN : BeginWalk(c, t, filt, liv) /\ (liv => Up(c))
        BY <2>3, <3>1
      <4>2. TypeOK
        OBVIOUS
      <4>3. QED
        BY <4>1, <4>2, BeginSound
    <3>2. CASE d # c
      BY <1>2, <2>3, <3>2, OtherWalks
    <3>3. QED
      BY <3>1, <3>2
  <2>4. \A d \in Clients : (Up(d) /\ socket[d].heard) \in BOOLEAN
    OBVIOUS
  <2>5. QED
    BY <1>1, <1>3, <2>1, <2>2, <2>3, <2>4, SettleSound DEF ListingStep
<1>4. CASE TellStep
  <2>1. ASSUME NEW k \in Keys, NEW f \in Farmers, Place(k, f)
        PROVE  Sound(c)'
    BY <1>1, <2>1, InsertSound DEF Place, Tables
  <2>2. ASSUME NEW k \in Keys, StoreNotification(k)
        PROVE  Sound(c)'
    BY <1>1, <2>2, InsertSound, TellingShape DEF StoreNotification, At, Tables
  <2>3. ASSUME NEW k \in Keys, PublishEvent(k) \/ DropTelling(k)
        PROVE  Sound(c)'
    BY <1>2, <2>3 DEF PublishEvent, DropTelling, listingVars
  <2>4. QED
    BY <1>4, <2>1, <2>2, <2>3 DEF TellStep
<1>5. ASSUME NEW d \in Clients, Close(d)
      PROVE  Sound(c)'
  <2>1. UNCHANGED <<rows, settled>>
    BY <1>5 DEF Close
  <2>2. QED
    BY <1>1, <1>5, <2>1, CloseFields, SoundKept
<1>6. CASE SocketStep
  BY <1>2, <1>5, <1>6 DEF SocketStep, Leave, Upgrade, Subscribe, Recv, Send, Pong, listingVars
<1>7. CASE UNCHANGED vars
  BY <1>2, <1>7 DEF vars, listingVars
<1>8. QED
  BY <1>3, <1>4, <1>6, <1>7 DEF Next

-----------------------------------------------------------------------------
(***************************************************************************)
(* The theorems.                                                           *)
(***************************************************************************)

\* The inductive invariant: pages, log and connections at once
\* (routes/v1/orders.rs, routes/v1/notifications.rs, crates/ws).
THEOREM FeedInvariant == Spec => []IInv
<1>1. Init => IInv
  <2> SUFFICES ASSUME Init PROVE IInv
    OBVIOUS
  <2>1. \A c \in Clients : ~Up(c) /\ shown[c] = <<>> /\ walk[c] = None
    BY DEF Init, InitListing, Up
  <2>2. StoredFirst
    BY DEF Init, StoredFirst, At
  <2>3. \A t \in Tables, f \in Farmers : rows[t][f] = <<>>
    BY DEF Init, InitListing
  <2>4. Apart
    BY <2>3 DEF Apart
  <2>5. Fresh
    <3>1. \A t \in Tables, f \in Farmers : Stored(t, f) = {}
      BY <2>3 DEF Stored, Range
    <3>2. QED
      BY <3>1 DEF Fresh, Noted, Tables
  <2>6. QED
    BY <2>1, <2>2, <2>4, <2>5, InitTypes
       DEF IInv, TypeOK, ShownInOrder, SendingOwn, NothingShown, LiveSure, WalkSound, Sound
<1>2. IInv /\ [Next]_vars => IInv'
  <2> SUFFICES ASSUME IInv, [Next]_vars PROVE IInv'
    OBVIOUS
  <2>1. TypeOK /\ Connected /\ StoredFirst /\ Apart /\ Fresh /\ LiveSure /\ WalkSound
    BY ConnectedMeans DEF IInv, TypeOK
  <2>2. TypeOK' /\ Connected'
    BY <2>1, FeedTypes, StaysConnected
  <2>3. (ShownInOrder /\ SendingOwn /\ NothingShown)'
    BY <2>2 DEF Connected, Linked, InOrder, ShownInOrder, SendingOwn, NothingShown
  <2>4. StoredFirst' /\ Apart' /\ Fresh' /\ LiveSure' /\ WalkSound'
    BY <2>1, StaysStoredFirst, StaysOnce, StaysLiveSure, StaysSound
  <2>5. QED
    BY <2>2, <2>3, <2>4 DEF IInv, TypeOK
<1>3. QED
  BY <1>1, <1>2, PTL DEF Spec

\* A client that reads page after page until it is told that there are no more
\* has seen every row that was there when it began, although rows are inserted
\* before those it has yet to read, and in whatever order each statement puts
\* rows of one timestamp: only these may be skipped (ORDER BY, LIMIT and OFFSET
\* of routes/v1/notifications.rs and routes/v1/orders.rs).
THEOREM WalksComplete == Spec => []WalkComplete
<1>1. IInv => WalkComplete
  BY DEF IInv, WalkComplete, WalkSound, Sound, Excused, Tied
<1>2. QED
  BY <1>1, FeedInvariant, PTL

\* A farmer whose client has heard from the server, has then read all its
\* notifications and is still connected misses no order but those whose
\* notification has the timestamp of another one: the list has what was announced
\* before the subscription, the connection what came after.
THEOREM NothingIsMissed == Spec => []NothingMissed
<1>1. IInv => NothingMissed
  <2> SUFFICES ASSUME IInv, NEW c \in Clients, Up(c), walk[c] # None, walk[c].pc = "done",
                      walk[c].table = "notifications", ~walk[c].filtered, walk[c].live,
                      NEW i \in DOMAIN log, Own(c, i)
               PROVE  log[i].key \in walk[c].got \cup Range(shown[c]) \cup Coming(c)
                                     \cup Twins("notifications", UserOf[c])
    BY DEF NothingMissed
  <2>1. walk[c].sure \subseteq walk[c].got \cup Twins("notifications", UserOf[c])
    BY DEF IInv, WalkSound, Sound, Excused, Tied
  <2>2. CASE i < socket[c].since
    BY <2>1, <2>2 DEF IInv, LiveSure
  <2>3. CASE ~(i < socket[c].since)
    <3>1. /\ FeedTypeOK /\ socket[c].since \in Nat /\ i \in Nat
          /\ Range(shown[c]) = {log[j].key : j \in {m \in Passed(c) : Own(c, m)}}
      BY SocketShape DEF IInv, ShownInOrder, FeedTypeOK
    <3>2. i \in 1..Len(log) /\ socket[c].since <= i
      BY <2>3, <3>1 DEF FeedTypeOK
    <3>3. CASE i \in Passed(c)
      BY <3>1, <3>3
    <3>4. CASE i \notin Passed(c)
      BY <3>2, <3>4 DEF Coming
    <3>5. QED
      BY <3>3, <3>4
  <2>4. QED
    BY <2>2, <2>3
<1>2. QED
  BY <1>1, FeedInvariant, PTL
=============================================================================
