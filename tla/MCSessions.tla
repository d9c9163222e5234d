----------------------------- MODULE MCSessions ------------------------------
(***************************************************************************)
(* Instances of Sessions for TLC.                                          *)
(***************************************************************************)
EXTENDS Sessions, Integers, FiniteSets, TLC

Symmetry == Permutations(Emails) \cup Permutations(Tokens) \cup Permutations(Requests)

\* Bound: requests race, and everything expires, while a token is left.  Once
\* the last one is issued they go one at a time, no link is used up and nothing
\* expires: that is for a token that is reused while another of its farmer and
\* one of somebody else are still good.
LastAlone ==
  Issued = Tokens =>
    /\ \A r, s \in Requests : serving[r] # None /\ serving[s] # None => r = s
    /\ \A e \in Emails : links[e] \in {"unsent", "valid"}
    /\ \A t \in Tokens : access[t] \in {"valid", "revoked"} /\ ~tokens[t].expired

\* Bound: a logout that brings a refresh token brings the one of its session, and
\* one that brings none goes alone.
Paired ==
  \A r \in Requests : At(r, "forget") =>
    \/ serving[r].token = serving[r].access
    \/ serving[r].token = None /\ \A s \in Requests \ {r} : serving[s] = None

\* Bound: what is past its expiry is of one session, or is one link.
FewExpired ==
  Cardinality({t \in Issued : tokens[t].expired} \cup Expired)
    + Cardinality({e \in Emails : links[e] = "expired"}) <= 1
=============================================================================
