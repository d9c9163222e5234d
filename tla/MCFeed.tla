-------------------------------- MODULE MCFeed -------------------------------
(***************************************************************************)
(* Instances of Feed for TLC.  To keep them small, a behaviour follows one *)
(* of three concerns from beginning to end: a client that reads one of the *)
(* tables, with and without a filter, or one that is connected and reads   *)
(* its notifications.  What a concern leaves out does not touch what it    *)
(* reads: the other table, the other farmer's rows, the connections.       *)
(***************************************************************************)
EXTENDS Feed, TLC

CONSTANTS
  f1, f2, c1,
  Few     \* bound: the keys that are ordered while a client is connected

VARIABLE concern

Users == [c \in {c1} |-> f1]

mcVars == <<vars, concern>>

ReadingNext ==
  /\ concern \in Tables
  /\ \/ \E k \in Keys :
          \/ Place(k, f1)
          \/ concern = "notifications" /\ StoreNotification(k)
     \/ /\ \/ \E k \in Keys : Settle(concern, k)
           \/ \E c \in Clients :
                \/ \E filtered \in BOOLEAN : BeginWalk(c, concern, filtered, FALSE)
                \/ ReadRows(c)
                \/ ReadCount(c)
                \/ GiveUp(c)
        /\ UNCHANGED feedVars

ConnectedNext ==
  /\ concern = "connection"
  /\ \/ \E k \in Few :
          \/ \E f \in Farmers : Place(k, f)
          \/ StoreNotification(k)
          \/ PublishEvent(k)
          \/ DropTelling(k)
     \/ SocketStep
     \/ /\ \E c \in Clients :
             \/ BeginWalk(c, "notifications", FALSE, Up(c) /\ socket[c].heard)
             \/ ReadRows(c)
             \/ ReadCount(c)
        /\ UNCHANGED feedVars

MCInit == Init /\ concern \in Tables \cup {"connection"}

MCNext == (ReadingNext \/ ConnectedNext) /\ UNCHANGED concern

MCSpec == MCInit /\ [][MCNext]_mcVars /\ SocketFairness
=============================================================================
