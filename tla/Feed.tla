-------------------------------- MODULE Feed ---------------------------------
(***************************************************************************)
(* How a farmer learns of an order: what place_order does after its        *)
(* commit, the broadcast channel with its bounded buffer, and a WebSocket  *)
(* connection per client, beside the lists of Listing.                     *)
(*                                                                         *)
(* An order is one of Orders, reduced to the statements that tell of it;   *)
(* that only one request gets to tell of an order is OneWinnerPerKey there.*)
(***************************************************************************)
EXTENDS Listing

CONSTANTS
  Capacity    \* events that the channel holds

VARIABLES
  telling,    \* key -> what its request has yet to tell, or None
  log,        \* all the events ever published; the channel holds the last ones
  socket,     \* client -> the server's end of its connection, or None
  shown       \* client -> the orders it was sent on this connection

feedVars == <<telling, log, socket, shown>>
vars == <<listingVars, feedVars>>

ASSUME CapacityAssumption == Capacity \in Nat \ {0}

Telling == [pc : {"notify", "publish", "done", "dropped"}, farmer : Farmers]

Event == [farmer : Farmers, key : Keys]

\* "next" is the receiver's position in the log and "since" the one it started
\* at; "heard" says that the client has had a frame on this connection.
Socket ==
  [pc : {"upgrading"}]
    \cup [pc : {"loop", "sending"}, since : Nat \ {0}, next : Nat \ {0}, heard : BOOLEAN]

ASSUME FeedAssumption == None \notin Telling \cup Socket

Init ==
  /\ InitListing
  /\ telling = [k \in Keys |-> None]
  /\ log = <<>>
  /\ socket = [c \in Clients |-> None]
  /\ shown = [c \in Clients |-> <<>>]

-----------------------------------------------------------------------------
(***************************************************************************)
(* The end of POST /orders.                                                *)
(***************************************************************************)

At(k, pc) == telling[k] # None /\ telling[k].pc = pc

\* The commit, and the farmer of the first product, to whom the order belongs.
Place(k, f) ==
  /\ telling[k] = None
  /\ telling' = [telling EXCEPT ![k] = [pc |-> "notify", farmer |-> f]]
  /\ Insert("orders", f, k)
  /\ UNCHANGED <<log, socket, shown>>

\* Mutant of StoreNotification: its failure is ignored.
SkipNotification(k) ==
  /\ At(k, "notify")
  /\ telling' = [telling EXCEPT ![k].pc = "publish"]
  /\ UNCHANGED <<listingVars, log, socket, shown>>

StoreNotification(k) ==
  /\ At(k, "notify")
  /\ telling' = [telling EXCEPT ![k].pc = "publish"]
  /\ Insert("notifications", telling[k].farmer, k)
  /\ UNCHANGED <<log, socket, shown>>

\* publish waits for no receiver and cannot fail.
PublishEvent(k) ==
  /\ At(k, "publish")
  /\ telling' = [telling EXCEPT ![k].pc = "done"]
  /\ log' = Append(log, [farmer |-> telling[k].farmer, key |-> k])
  /\ UNCHANGED <<listingVars, socket, shown>>

DropTelling(k) ==
  /\ At(k, "notify") \/ At(k, "publish")
  /\ telling' = [telling EXCEPT ![k].pc = "dropped"]
  /\ UNCHANGED <<listingVars, log, socket, shown>>

-----------------------------------------------------------------------------
(***************************************************************************)
(* GET /ws.                                                                *)
(***************************************************************************)

Up(c) == socket[c] # None /\ socket[c].pc \in {"loop", "sending"}

\* The response 101 leaves before handle_socket runs: what is published until
\* then is not for this connection.
Upgrade(c) ==
  /\ socket[c] = None
  /\ socket' = [socket EXCEPT ![c] = [pc |-> "upgrading"]]
  /\ UNCHANGED <<listingVars, telling, log, shown>>

\* Mutant of Subscribe: the receiver starts behind the next event.
SubscribeLate(c) ==
  /\ socket[c] # None
  /\ socket[c].pc = "upgrading"
  /\ socket' = [socket EXCEPT ![c] =
       [pc |-> "loop", since |-> Len(log) + 2, next |-> Len(log) + 2, heard |-> FALSE]]
  /\ UNCHANGED <<listingVars, telling, log, shown>>

Subscribe(c) ==
  /\ socket[c] # None
  /\ socket[c].pc = "upgrading"
  /\ socket' = [socket EXCEPT ![c] =
       [pc |-> "loop", since |-> Len(log) + 1, next |-> Len(log) + 1, heard |-> FALSE]]
  /\ UNCHANGED <<listingVars, telling, log, shown>>

\* The connection ends, and with it what the client made of it.
Close(c) ==
  /\ socket' = [socket EXCEPT ![c] = None]
  /\ shown' = [shown EXCEPT ![c] = <<>>]
  /\ walk' = IF walk[c] = None THEN walk ELSE [walk EXCEPT ![c].live = FALSE]
  /\ UNCHANGED <<rows, settled, telling, log>>

\* The receiver has fallen behind what the channel holds.
Lagged(c) == socket[c].next + Capacity <= Len(log)

Addressed(c) == log[socket[c].next].farmer = UserOf[c]

\* Mutant of Recv: a receiver that lags goes on with the oldest event there is.
RecvOldest(c) ==
  /\ Up(c)
  /\ socket[c].pc = "loop"
  /\ socket[c].next <= Len(log)
  /\ socket' = [socket EXCEPT
       ![c].next = IF Lagged(c) THEN Len(log) - Capacity + 1 ELSE @ + 1,
       ![c].pc = IF ~Lagged(c) /\ Addressed(c) THEN "sending" ELSE "loop"]
  /\ UNCHANGED <<listingVars, telling, log, shown>>

\* Mutant of Recv: an event for somebody else is not consumed.
RecvOwn(c) ==
  /\ Up(c)
  /\ socket[c].pc = "loop"
  /\ socket[c].next <= Len(log)
  /\ Addressed(c)
  /\ socket' = [socket EXCEPT ![c].next = @ + 1, ![c].pc = "sending"]
  /\ UNCHANGED <<listingVars, telling, log, shown>>

\* Lagging ends the loop; an event for somebody else is passed over.
Recv(c) ==
  /\ Up(c)
  /\ socket[c].pc = "loop"
  /\ socket[c].next <= Len(log)
  /\ \/ Lagged(c) /\ Close(c)
     \/ /\ ~Lagged(c)
        /\ socket' = [socket EXCEPT ![c].next = @ + 1,
                                    ![c].pc = IF Addressed(c) THEN "sending" ELSE "loop"]
        /\ UNCHANGED <<listingVars, telling, log, shown>>

\* The loop waits here while the client is slow, and receives nothing.
Send(c) ==
  /\ Up(c)
  /\ socket[c].pc = "sending"
  /\ socket' = [socket EXCEPT ![c].pc = "loop", ![c].heard = TRUE]
  /\ shown' = [shown EXCEPT ![c] = Append(@, log[socket[c].next - 1].key)]
  /\ UNCHANGED <<listingVars, telling, log>>

\* The answer to a client's ping.
Pong(c) ==
  /\ Up(c)
  /\ socket[c].pc = "loop"
  /\ socket' = [socket EXCEPT ![c].heard = TRUE]
  /\ UNCHANGED <<listingVars, telling, log, shown>>

\* The client leaves, or the connection breaks.
Leave(c) == socket[c] # None /\ Close(c)

-----------------------------------------------------------------------------
ListingStep ==
  /\ \/ \E t \in Tables, k \in Keys : Settle(t, k)
     \/ \E c \in Clients :
          \/ \E t \in Tables, filtered \in BOOLEAN :
               BeginWalk(c, t, filtered, Up(c) /\ socket[c].heard)
          \/ ReadRows(c)
          \/ ReadCount(c)
          \/ GiveUp(c)
  /\ UNCHANGED feedVars

TellStep ==
  \E k \in Keys :
    \/ \E f \in Farmers : Place(k, f)
    \/ StoreNotification(k)
    \/ PublishEvent(k)
    \/ DropTelling(k)

SocketStep ==
  \E c \in Clients :
    \/ Upgrade(c)
    \/ Subscribe(c)
    \/ Recv(c)
    \/ Send(c)
    \/ Pong(c)
    \/ Leave(c)

Next == ListingStep \/ TellStep \/ SocketStep

Spec == Init /\ [][Next]_vars

\* The task of a connection is scheduled, and its client reads what it is sent.
SocketFairness == \A c \in Clients : WF_vars(Recv(c)) /\ WF_vars(Send(c))

FairSpec == Spec /\ SocketFairness

-----------------------------------------------------------------------------
(***************************************************************************)
(* Properties                                                              *)
(***************************************************************************)

\* The tables, the channel and every connection are well formed, and no
\* receiver is ahead of the channel (TypeOK).
FeedTypeOK ==
  /\ telling \in [Keys -> Telling \cup {None}]
  /\ log \in Seq(Event)
  /\ socket \in [Clients -> Socket \cup {None}]
  /\ shown \in [Clients -> Seq(Keys)]
  /\ \A c \in Clients : Up(c) =>
       /\ socket[c].since <= socket[c].next
       /\ socket[c].next <= Len(log) + 1
       /\ socket[c].pc = "sending" => socket[c].since < socket[c].next

TypeOK == ListingTypeOK /\ FeedTypeOK

\* The positions that a connection is done with: one that it is sending is not.
Passed(c) ==
  socket[c].since .. (socket[c].next - (IF socket[c].pc = "sending" THEN 2 ELSE 1))

Own(c, i) == log[i].farmer = UserOf[c]

\* What a client was sent on a connection is, without a gap and in order, what
\* was published for its farmer since it was subscribed: a client that cannot
\* be given the next event is given none any more.
ShownInOrder ==
  \A c \in Clients : Up(c) =>
    /\ Range(shown[c]) = {log[i].key : i \in {j \in Passed(c) : Own(c, j)}}
    /\ \A i, j \in DOMAIN shown[c] : i < j =>
         \E m, n \in Passed(c) :
           m < n /\ log[m].key = shown[c][i] /\ log[n].key = shown[c][j]

\* The orders that a connection has yet to send or is sending.
Coming(c) ==
  {log[i].key : i \in {j \in 1..Len(log) : j \notin Passed(c) /\ socket[c].since <= j /\ Own(c, j)}}

\* A farmer misses no order: a client that has heard from the server, has then
\* read all its notifications, and is still connected, has in its list or has
\* been sent every order that was announced to its farmer, but for those that
\* are on their way to it and those whose notification has the timestamp of
\* another one.
NothingMissed ==
  \A c \in Clients :
    /\ Up(c)
    /\ walk[c] # None
    /\ walk[c].pc = "done" /\ walk[c].table = "notifications" /\ ~walk[c].filtered
    /\ walk[c].live
    => \A i \in DOMAIN log : Own(c, i) =>
         log[i].key \in walk[c].got \cup Range(shown[c]) \cup Coming(c)
                        \cup Twins("notifications", UserOf[c])

\* An event that a connection has yet to send is sent, unless the connection
\* ends: events for others do not hold it up.
Delivered ==
  \A c \in Clients, k \in Keys :
    (Up(c) /\ k \in Coming(c)) ~> (k \in Range(shown[c]) \/ socket[c] = None)
=============================================================================
