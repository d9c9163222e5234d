----------------------------- MODULE AccountBook ------------------------------
(***************************************************************************)
(* What accounts and sessions promise the farmers.  An address is          *)
(* registered once; it gets one link, which verifies it before it is used  *)
(* up.  A session belongs to one account for good.  It is opened by that   *)
(* farmer's login, or in exchange for an earlier session of the same       *)
(* farmer that cannot be refreshed any more.  A refresh token that cannot  *)
(* be exchanged any more never can again, and what ends those of several   *)
(* sessions ends those of one farmer only.                                 *)
(*                                                                         *)
(* An access token is barred by a logout until it expires, and no longer;  *)
(* once expired it cannot be barred, and is accepted for a while until it  *)
(* is over for good.  Barred is a promise of the one who asks the book: a  *)
(* reader that cannot reach it accepts the barred too.                     *)
(***************************************************************************)
CONSTANTS
  Emails,     \* addresses
  Sessions,   \* names of sessions
  None        \* no session

VARIABLES
  registered,   \* addresses that have an account
  mailed,       \* those that were sent a link
  verified,     \* those whose farmer has opened it
  used,         \* those whose link is used up
  opened,       \* session -> its farmer and the session it continues, or None
  refreshable,  \* sessions whose refresh token can be exchanged
  barred,       \* sessions whose access token is struck out before its expiry
  expired,      \* those whose access token is past its expiry
  over          \* those whose access token is past the leeway too

accesses == <<barred, expired, over>>
bookVars == <<registered, mailed, verified, used, opened, refreshable, accesses>>

accounts == <<registered, mailed, verified, used>>
sessions == <<opened, refreshable, accesses>>

Init ==
  /\ registered = {} /\ mailed = {} /\ verified = {} /\ used = {}
  /\ opened = [s \in Sessions |-> None]
  /\ refreshable = {}
  /\ barred = {} /\ expired = {} /\ over = {}

Register(e) ==
  /\ e \notin registered
  /\ registered' = registered \cup {e}
  /\ UNCHANGED <<mailed, verified, used, sessions>>

Mail(e) ==
  /\ e \in registered \ mailed
  /\ mailed' = mailed \cup {e}
  /\ UNCHANGED <<registered, verified, used, sessions>>

Verify(e) ==
  /\ e \in mailed \ verified
  /\ verified' = verified \cup {e}
  /\ UNCHANGED <<registered, mailed, used, sessions>>

Use(e) ==
  /\ e \in verified \ used
  /\ used' = used \cup {e}
  /\ UNCHANGED <<registered, mailed, verified, sessions>>

Continues(from, e) ==
  opened[from] # None /\ opened[from].farmer = e /\ from \notin refreshable

Open(s, e, from) ==
  /\ opened[s] = None
  /\ e \in registered
  /\ from # None => Continues(from, e)
  /\ opened' = [opened EXCEPT ![s] = [farmer |-> e, from |-> from]]
  /\ refreshable' = refreshable \cup {s}
  /\ UNCHANGED <<accounts, accesses>>

EndRefresh(e, batch) ==
  /\ batch \subseteq refreshable
  /\ \A s \in batch : opened[s].farmer = e
  /\ refreshable' = refreshable \ batch
  /\ UNCHANGED <<accounts, opened, accesses>>

Bar(s) ==
  /\ opened[s] # None
  /\ s \notin barred \cup expired
  /\ barred' = barred \cup {s}
  /\ UNCHANGED <<accounts, opened, refreshable, expired, over>>

Expire(s) ==
  /\ opened[s] # None
  /\ s \notin expired
  /\ barred' = barred \ {s}
  /\ expired' = expired \cup {s}
  /\ UNCHANGED <<accounts, opened, refreshable, over>>

End(s) ==
  /\ s \in expired \ over
  /\ over' = over \cup {s}
  /\ UNCHANGED <<accounts, opened, refreshable, barred, expired>>

Next ==
  \/ \E e \in Emails :
       \/ Register(e) \/ Mail(e) \/ Verify(e) \/ Use(e)
       \/ \E s \in Sessions, from \in Sessions \cup {None} : Open(s, e, from)
       \/ \E batch \in SUBSET Sessions : EndRefresh(e, batch)
  \/ \E s \in Sessions : Bar(s) \/ Expire(s) \/ End(s)

Spec == Init /\ [][Next]_bookVars
=============================================================================
