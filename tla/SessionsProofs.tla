---------------------------- MODULE SessionsProofs ----------------------------
(***************************************************************************)
(* The safety properties of Sessions for every set of addresses, tokens    *)
(* and requests.  What makes them inductive is what a request in flight    *)
(* may rely on, RequestsTied, and that every token is its own family.      *)
(* With what it may rely on of links, LinksTied, Sessions implements       *)
(* AccountBook.                                                            *)
(***************************************************************************)
EXTENDS Sessions, TLAPS

\* What a request holds while it waits for its next statement: an account that
\* exists, tokens that are issued, a spent token to be exchanged for the same
\* farmer, a verified farmer to delete the link of, an access token that was
\* barred or is past its expiry.
Tied(r) ==
  serving[r] # None =>
    /\ serving[r].pc \in {"issue", "link", "reply", "verify", "unlink"} =>
         farmers[serving[r].farmer] # None
    /\ serving[r].pc \in {"link", "reply", "spend", "spread"} =>
         serving[r].token \in Issued
    /\ serving[r].pc = "issue" /\ serving[r].from # None =>
         /\ serving[r].from \in Issued
         /\ tokens[serving[r].from].revoked
         /\ tokens[serving[r].from].farmer = serving[r].farmer
    /\ serving[r].pc = "unlink" => farmers[serving[r].farmer].verified
    /\ serving[r].pc = "forget" =>
         /\ serving[r].access \in Issued
         /\ access[serving[r].access] # "valid"
         /\ serving[r].token # None => serving[r].token \in Issued

RequestsTied == \A r \in Requests : Tied(r)

OwnFamilies == \A t \in Issued : tokens[t].family = t

IInv ==
  /\ TypeOK
  /\ RequestsTied
  /\ OneRegistration
  /\ OwnFamilies
  /\ ExchangedIsSpent
  /\ UsedMeansVerified

-----------------------------------------------------------------------------
(***************************************************************************)
(* What a request carries, by its step.                                    *)
(***************************************************************************)

LEMMA ServingShape ==
  ASSUME TypeOK, NEW r \in Requests, serving[r] # None
  PROVE  /\ serving[r] \in Serving
         /\ serving[r].pc \in {"insert", "verify", "unlink", "issue", "link", "reply",
                               "spend", "spread", "forget"}
         /\ serving[r].pc \in {"insert", "verify", "unlink"} =>
              /\ serving[r].farmer \in Emails
              /\ serving[r] = [pc |-> serving[r].pc, farmer |-> serving[r].farmer]
         /\ serving[r].pc = "issue" =>
              /\ serving[r].farmer \in Emails
              /\ serving[r].from \in Tokens \cup {None}
              /\ serving[r].new \in BOOLEAN
         /\ serving[r].pc \in {"link", "reply"} =>
              /\ serving[r].farmer \in Emails
              /\ serving[r].token \in Tokens
              /\ serving[r] = [pc |-> serving[r].pc, farmer |-> serving[r].farmer,
                               token |-> serving[r].token]
         /\ serving[r].pc \in {"spend", "spread"} => serving[r].token \in Tokens
         /\ serving[r].pc = "forget" =>
              serving[r].access \in Tokens /\ serving[r].token \in Tokens \cup {None}
<1>1. serving[r] \in Serving
  BY DEF TypeOK
<1>2. QED
  BY <1>1 DEF Serving

LEMMA TokenShape ==
  ASSUME TypeOK, NEW t \in Issued
  PROVE  /\ t \in Tokens
         /\ tokens[t] \in RefreshToken
         /\ tokens[t].farmer \in Emails
         /\ farmers[tokens[t].farmer] # None
         /\ access[t] \in AccessStates
         /\ lineage[t] \in Lineage
  BY DEF TypeOK, Issued, RefreshToken

LEMMA IssueServing ==
  ASSUME NEW e \in Emails, NEW from \in Tokens \cup {None}, NEW new \in BOOLEAN
  PROVE  [pc |-> "issue", farmer |-> e, from |-> from, new |-> new] \in Serving
  BY DEF Serving

LEMMA NewFarmer == [verified |-> FALSE] \in Farmer /\ [verified |-> FALSE] # None
<1>1. [verified |-> FALSE] \in Farmer
  BY DEF Farmer
<1>2. QED
  BY <1>1, NoneAssumption

LEMMA FarmerShape ==
  ASSUME TypeOK, NEW e \in Emails, farmers[e] # None
  PROVE  farmers[e] \in Farmer /\ farmers[e].verified \in BOOLEAN
  BY DEF TypeOK, Farmer

\* A request that goes on is the only one that does.
LEMMA Moved ==
  ASSUME TypeOK, NEW r \in Requests, NEW h, Goto(r, h)
  PROVE  /\ serving'[r] = h
         /\ \A s \in Requests \ {r} : serving'[s] = serving[s]
         /\ h \in Serving \cup {None} => serving' \in [Requests -> Serving \cup {None}]
  BY DEF TypeOK, Goto

-----------------------------------------------------------------------------
(***************************************************************************)
(* What no step undoes.                                                    *)
(***************************************************************************)

AccountsKept ==
  \A e \in Emails : farmers[e] # None =>
    farmers'[e] # None /\ (farmers[e].verified => farmers'[e].verified)

TokensKept ==
  \A t \in Issued :
    /\ t \in Issued'
    /\ tokens'[t].farmer = tokens[t].farmer
    /\ tokens'[t].family = tokens[t].family
    /\ tokens[t].revoked => tokens'[t].revoked
    /\ access[t] # "valid" => access'[t] # "valid"

\* A request that does nothing loses nothing.
LEMMA TiedKept ==
  ASSUME IInv, AccountsKept, TokensKept, NEW s \in Requests, serving'[s] = serving[s]
  PROVE  Tied(s)'
<1>1. SUFFICES ASSUME serving[s] # None PROVE Tied(s)'
  BY DEF Tied
<1>2. Tied(s)
  BY DEF IInv, RequestsTied
<1>3. serving[s].pc \in {"issue", "link", "reply", "verify", "unlink"} =>
        serving[s].farmer \in Emails
  BY <1>1, ServingShape DEF IInv
<1>4. serving[s].pc = "unlink" => farmers[serving[s].farmer] # None
  BY <1>1, <1>2 DEF Tied
<1>5. QED
  BY <1>1, <1>2, <1>3, <1>4 DEF Tied, AccountsKept, TokensKept

\* A step of request r keeps the requests' part of the invariant if it leaves
\* r tied, and r registers an address only if it did so or the address is new.
LEMMA RequestsKept ==
  ASSUME IInv, AccountsKept, TokensKept, NEW r \in Requests,
         \A s \in Requests \ {r} : serving'[s] = serving[s],
         Tied(r)',
         \A e \in Emails : Registering(r, e)' => Registering(r, e) \/ farmers[e] = None
  PROVE  RequestsTied' /\ OneRegistration'
<1>1. RequestsTied'
  BY TiedKept DEF RequestsTied
<1>2. ASSUME NEW e \in Emails, NEW s \in Requests \ {r}, Registering(s, e)'
      PROVE  Registering(s, e) /\ farmers[e] # None
  <2>1. Registering(s, e)
    BY <1>2 DEF Registering
  <2>2. Tied(s)
    BY DEF IInv, RequestsTied
  <2>3. QED
    BY <2>1, <2>2 DEF Registering, Tied
<1>3. ASSUME NEW e \in Emails, NEW s \in Requests \ {r}, Registering(s, e)', Registering(r, e)'
      PROVE  FALSE
  <2>1. Registering(s, e) /\ farmers[e] # None
    BY <1>2, <1>3
  <2>2. Registering(r, e)
    BY <1>3, <2>1
  <2>3. QED
    BY <2>1, <2>2 DEF IInv, OneRegistration
<1>4. ASSUME NEW e \in Emails, NEW s \in Requests, NEW q \in Requests,
             Registering(s, e)', Registering(q, e)'
      PROVE  s = q
  <2>1. CASE s = r
    BY <1>3, <1>4, <2>1
  <2>2. CASE q = r
    BY <1>3, <1>4, <2>2
  <2>3. CASE s # r /\ q # r
    <3>1. Registering(s, e) /\ Registering(q, e)
      BY <1>2, <1>4, <2>3
    <3>2. QED
      BY <3>1 DEF IInv, OneRegistration
  <2>4. QED
    BY <2>1, <2>2, <2>3
<1>5. QED
  BY <1>1, <1>4 DEF OneRegistration

\* The same without a step of a request.
LEMMA IdleKept ==
  ASSUME IInv, AccountsKept, TokensKept, UNCHANGED serving
  PROVE  RequestsTied' /\ OneRegistration'
<1>1. RequestsTied'
  BY TiedKept DEF RequestsTied
<1>2. QED
  BY <1>1 DEF IInv, OneRegistration, Registering

-----------------------------------------------------------------------------
(***************************************************************************)
(* Steps that only move a request.                                         *)
(***************************************************************************)

LEMMA MoveKeeps ==
  ASSUME IInv, NEW r \in Requests, NEW h \in Serving \cup {None}, Goto(r, h),
         UNCHANGED <<accountVars, tokenVars>>, held' \subseteq Issued,
         Tied(r)',
         \A e \in Emails : Registering(r, e)' => Registering(r, e) \/ farmers[e] = None
  PROVE  IInv'
<1>1. AccountsKept /\ TokensKept
  BY DEF AccountsKept, TokensKept, accountVars, tokenVars, Issued
<1>2. /\ \A s \in Requests \ {r} : serving'[s] = serving[s]
      /\ serving' \in [Requests -> Serving \cup {None}]
  BY Moved DEF IInv
<1>3. RequestsTied' /\ OneRegistration'
  BY <1>1, <1>2, RequestsKept
<1>4. TypeOK'
  BY <1>2 DEF IInv, TypeOK, accountVars, tokenVars, Issued
<1>5. OwnFamilies' /\ ExchangedIsSpent' /\ UsedMeansVerified'
  BY DEF IInv, OwnFamilies, ExchangedIsSpent, UsedMeansVerified, accountVars, tokenVars, Issued
<1>6. QED
  BY <1>3, <1>4, <1>5 DEF IInv

LEMMA BeginRegisterKeeps ==
  ASSUME IInv, NEW r \in Requests, NEW e \in Emails, BeginRegister(r, e)
  PROVE  IInv'
<1> DEFINE h == [pc |-> "insert", farmer |-> e]
<1>1. h \in Serving /\ h # None
  BY NoneAssumption DEF Serving
<1>2. serving'[r] = h
  BY Moved DEF BeginRegister, IInv
<1>3. Tied(r)' /\ \A a \in Emails : ~Registering(r, a)'
  BY <1>2 DEF Tied, Registering
<1>4. held' \subseteq Issued
  BY DEF BeginRegister, IInv, TypeOK
<1>5. QED
  BY <1>1, <1>3, <1>4, MoveKeeps DEF BeginRegister

LEMMA LoginKeeps ==
  ASSUME IInv, NEW r \in Requests, NEW e \in Emails, Login(r, e)
  PROVE  IInv'
<1> DEFINE h == [pc |-> "issue", farmer |-> e, from |-> None, new |-> FALSE]
<1>1. h \in Serving
  BY IssueServing
<1>2. serving'[r] = h
  BY Moved DEF Login, IInv
<1>3. Tied(r)' /\ \A a \in Emails : ~Registering(r, a)'
  BY <1>2 DEF Tied, Registering, Login, accountVars
<1>4. held' \subseteq Issued
  BY DEF Login, IInv, TypeOK
<1>5. QED
  BY <1>1, <1>3, <1>4, MoveKeeps DEF Login

LEMMA BeginVerifyKeeps ==
  ASSUME IInv, NEW r \in Requests, NEW e \in Emails, BeginVerify(r, e)
  PROVE  IInv'
<1> DEFINE h == [pc |-> "verify", farmer |-> e]
<1>1. h \in Serving /\ h # None
  BY NoneAssumption DEF Serving
<1>2. serving'[r] = h
  BY Moved DEF BeginVerify, IInv
<1>3. farmers'[e] # None
  BY DEF BeginVerify, accountVars, IInv, TypeOK
<1>4. Tied(r)' /\ \A a \in Emails : ~Registering(r, a)'
  BY <1>2, <1>3 DEF Tied, Registering
<1>5. held' \subseteq Issued
  BY DEF BeginVerify, IInv, TypeOK
<1>6. QED
  BY <1>1, <1>4, <1>5, MoveKeeps DEF BeginVerify

LEMMA BeginRefreshKeeps ==
  ASSUME IInv, NEW r \in Requests, NEW t \in Tokens, BeginRefresh(r, t)
  PROVE  IInv'
<1>1. t \in Issued
  BY DEF BeginRefresh, IInv, TypeOK
<1>2. ASSUME NEW pc \in {"spread", "spend"}, Goto(r, [pc |-> pc, token |-> t])
      PROVE  IInv'
  <2> DEFINE h == [pc |-> pc, token |-> t]
  <2>1. h \in Serving /\ h # None
    BY NoneAssumption DEF Serving
  <2>2. serving'[r] = h
    BY <1>2, Moved DEF IInv
  <2>3. Tied(r)' /\ \A a \in Emails : ~Registering(r, a)'
    BY <1>1, <2>2 DEF Tied, Registering, BeginRefresh, tokenVars, Issued
  <2>4. held' \subseteq Issued
    BY DEF BeginRefresh, IInv, TypeOK
  <2>5. QED
    BY <1>2, <2>1, <2>3, <2>4, MoveKeeps DEF BeginRefresh
<1>3. QED
  BY <1>2 DEF BeginRefresh

LEMMA ReplyKeeps ==
  ASSUME IInv, NEW r \in Requests, Reply(r)
  PROVE  IInv'
<1>1. serving'[r] = None
  BY Moved DEF Reply, Return, IInv
<1>2. Tied(r)' /\ \A a \in Emails : ~Registering(r, a)'
  BY <1>1 DEF Tied, Registering
<1>3. serving[r].token \in Issued
  BY DEF Reply, At, IInv, RequestsTied, Tied
<1>4. held' \subseteq Issued
  BY <1>3 DEF Reply, IInv, TypeOK
<1>5. QED
  BY <1>2, <1>4, MoveKeeps DEF Reply, Return

LEMMA DropKeeps ==
  ASSUME IInv, NEW r \in Requests, Drop(r)
  PROVE  IInv'
<1>1. serving'[r] = None
  BY Moved DEF Drop, Return, IInv
<1>2. Tied(r)' /\ \A a \in Emails : ~Registering(r, a)'
  BY <1>1 DEF Tied, Registering
<1>3. held' \subseteq Issued
  BY DEF Drop, IInv, TypeOK
<1>4. QED
  BY <1>2, <1>3, MoveKeeps DEF Drop, Return

-----------------------------------------------------------------------------
(***************************************************************************)
(* Steps that write to accounts and links.                                 *)
(***************************************************************************)

\* They leave every part of the invariant about tokens alone.
LEMMA AccountKeeps ==
  ASSUME IInv, NEW r \in Requests, NEW h \in Serving \cup {None}, Goto(r, h),
         UNCHANGED <<tokenVars, held>>,
         AccountsKept,
         farmers' \in [Emails -> Farmer \cup {None}],
         links' \in [Emails -> LinkStates],
         \A e \in Emails : links'[e] # "unsent" => farmers'[e] # None,
         \A e \in Emails : links'[e] = "used" => farmers'[e].verified,
         Tied(r)',
         \A e \in Emails : Registering(r, e)' => Registering(r, e) \/ farmers[e] = None
  PROVE  IInv'
<1>1. TokensKept
  BY DEF TokensKept, tokenVars, Issued
<1>2. /\ \A s \in Requests \ {r} : serving'[s] = serving[s]
      /\ serving' \in [Requests -> Serving \cup {None}]
  BY Moved DEF IInv
<1>3. RequestsTied' /\ OneRegistration'
  BY <1>1, <1>2, RequestsKept
<1>4. \A t \in Issued : farmers'[tokens[t].farmer] # None
  BY TokenShape DEF IInv, AccountsKept
<1>5. TypeOK'
  BY <1>2, <1>4 DEF IInv, TypeOK, tokenVars, Issued
<1>6. OwnFamilies' /\ ExchangedIsSpent'
  BY DEF IInv, OwnFamilies, ExchangedIsSpent, tokenVars, Issued
<1>7. QED
  BY <1>3, <1>5, <1>6 DEF IInv, UsedMeansVerified

LEMMA InsertFarmerKeeps ==
  ASSUME IInv, NEW r \in Requests, InsertFarmer(r)
  PROVE  IInv'
<1> DEFINE e == serving[r].farmer
           h == [pc |-> "issue", farmer |-> e, from |-> None, new |-> TRUE]
<1>1. e \in Emails
  BY ServingShape DEF InsertFarmer, At, IInv
<1>2. CASE /\ farmers[e] = None
           /\ farmers' = [farmers EXCEPT ![e] = [verified |-> FALSE]]
           /\ Goto(r, h)
  <2>1. h \in Serving
    BY <1>1, IssueServing
  <2>2. serving'[r] = h
    BY <1>2, Moved DEF IInv
  <2>3. /\ [verified |-> FALSE] \in Farmer
        /\ [verified |-> FALSE] # None
    BY NewFarmer
  <2>4. farmers' \in [Emails -> Farmer \cup {None}]
    BY <1>2, <2>3 DEF IInv, TypeOK
  <2>5. farmers'[e] # None /\ \A a \in Emails \ {e} : farmers'[a] = farmers[a]
    BY <1>1, <1>2, <2>3 DEF IInv, TypeOK
  <2>6. AccountsKept
    BY <1>2, <2>5 DEF AccountsKept
  <2>7. links'[e] = "unsent" /\ links' = links
    BY <1>1, <1>2 DEF InsertFarmer, IInv, TypeOK
  <2>8. \A a \in Emails : links'[a] # "unsent" => farmers'[a] # None
    BY <2>5, <2>7 DEF IInv, TypeOK
  <2>9. \A a \in Emails : links'[a] = "used" => farmers'[a].verified
    BY <2>5, <2>7 DEF IInv, UsedMeansVerified
  <2>10. Tied(r)'
    BY <2>2, <2>5 DEF Tied
  <2>11. \A a \in Emails : Registering(r, a)' => farmers[a] = None
    BY <1>2, <2>2 DEF Registering
  <2>12. links' \in [Emails -> LinkStates]
    BY <2>7 DEF IInv, TypeOK
  <2>13. QED
    BY <1>2, <2>1, <2>4, <2>6, <2>8, <2>9, <2>10, <2>11, <2>12, AccountKeeps DEF InsertFarmer
<1>3. CASE farmers[e] # None /\ UNCHANGED farmers /\ Return(r)
  <2>1. serving'[r] = None
    BY <1>3, Moved DEF Return, IInv
  <2>2. Tied(r)' /\ \A a \in Emails : ~Registering(r, a)'
    BY <2>1 DEF Tied, Registering
  <2>3. held' \subseteq Issued
    BY DEF InsertFarmer, IInv, TypeOK
  <2>4. QED
    BY <1>3, <2>2, <2>3, MoveKeeps DEF InsertFarmer, Return, accountVars
<1>4. QED
  BY <1>2, <1>3 DEF InsertFarmer

LEMMA StoreLinkKeeps ==
  ASSUME IInv, NEW r \in Requests, StoreLink(r)
  PROVE  IInv'
<1> DEFINE e == serving[r].farmer
           h == [pc |-> "reply", farmer |-> e, token |-> serving[r].token]
<1>1. /\ e \in Emails /\ serving[r].token \in Tokens
      /\ serving[r] = [pc |-> serving[r].pc, farmer |-> e, token |-> serving[r].token]
  BY ServingShape DEF StoreLink, At, IInv
<1>2. [serving[r] EXCEPT !.pc = "reply"] = h
  BY <1>1
<1>3. Goto(r, h) /\ h \in Serving
  BY <1>1, <1>2 DEF StoreLink, Serving
<1>4. serving'[r] = h
  BY <1>3, Moved DEF IInv
<1>5. farmers[e] # None /\ serving[r].token \in Issued
  BY DEF StoreLink, At, IInv, RequestsTied, Tied
<1>6. links' = [links EXCEPT ![e] = "valid"] /\ farmers' = farmers
  BY DEF StoreLink
<1>7. links' \in [Emails -> LinkStates]
  BY <1>6 DEF IInv, TypeOK, LinkStates
<1>8. AccountsKept
  BY <1>6 DEF AccountsKept
<1>9. \A a \in Emails : links'[a] # "unsent" => farmers'[a] # None
  BY <1>5, <1>6 DEF IInv, TypeOK
<1>10. \A a \in Emails : links'[a] = "used" => farmers'[a].verified
  BY <1>6 DEF IInv, TypeOK, UsedMeansVerified
<1>11. Tied(r)' /\ \A a \in Emails : ~Registering(r, a)'
  BY <1>4, <1>5, <1>6 DEF Tied, Registering, StoreLink, tokenVars, Issued
<1>12. farmers' \in [Emails -> Farmer \cup {None}]
  BY <1>6 DEF IInv, TypeOK
<1>13. QED
  BY <1>3, <1>7, <1>8, <1>9, <1>10, <1>11, <1>12, AccountKeeps DEF StoreLink

LEMMA MarkVerifiedKeeps ==
  ASSUME IInv, NEW r \in Requests, MarkVerified(r)
  PROVE  IInv'
<1> DEFINE e == serving[r].farmer
           h == [pc |-> "unlink", farmer |-> e]
           row == [farmers[e] EXCEPT !.verified = TRUE]
<1>1. e \in Emails /\ serving[r] = [pc |-> serving[r].pc, farmer |-> e]
  BY ServingShape DEF MarkVerified, At, IInv
<1>2. [serving[r] EXCEPT !.pc = "unlink"] = h
  BY <1>1
<1>3. Goto(r, h) /\ h \in Serving
  BY <1>1, <1>2 DEF MarkVerified, Serving
<1>4. serving'[r] = h
  BY <1>3, Moved DEF IInv
<1>5. farmers[e] # None
  BY DEF MarkVerified, At, IInv, RequestsTied, Tied
<1>6. farmers[e] \in Farmer
  BY <1>1, <1>5, FarmerShape DEF IInv
<1>7. row \in Farmer /\ row.verified
  BY <1>6 DEF Farmer
<1>8. farmers' = [farmers EXCEPT ![e] = row] /\ links' = links
  BY DEF MarkVerified
<1>9. row # None
  BY <1>7, NoneAssumption
<1>10. /\ farmers' \in [Emails -> Farmer \cup {None}]
       /\ farmers'[e] = row
       /\ \A a \in Emails \ {e} : farmers'[a] = farmers[a]
  BY <1>1, <1>7, <1>8 DEF IInv, TypeOK
<1>11. AccountsKept
  BY <1>7, <1>9, <1>10 DEF AccountsKept
<1>12. \A a \in Emails : links'[a] # "unsent" => farmers'[a] # None
  BY <1>8, <1>11 DEF IInv, TypeOK, AccountsKept
<1>13. \A a \in Emails : links'[a] = "used" => farmers'[a].verified
  BY <1>7, <1>8, <1>10 DEF IInv, UsedMeansVerified
<1>14. Tied(r)' /\ \A a \in Emails : ~Registering(r, a)'
  <2>1. farmers'[e] # None /\ farmers'[e].verified
    BY <1>7, <1>9, <1>10
  <2> HIDE DEF e
  <2>2. QED
    BY <1>4, <2>1 DEF Tied, Registering
<1>15. links' \in [Emails -> LinkStates]
  BY <1>8 DEF IInv, TypeOK
<1>16. QED
  BY <1>3, <1>10, <1>11, <1>12, <1>13, <1>14, <1>15, AccountKeeps DEF MarkVerified

LEMMA DeleteLinkKeeps ==
  ASSUME IInv, NEW r \in Requests, DeleteLink(r)
  PROVE  IInv'
<1> DEFINE e == serving[r].farmer
<1>1. e \in Emails
  BY ServingShape DEF DeleteLink, At, IInv
<1>2. Goto(r, None) /\ serving'[r] = None
  BY Moved DEF DeleteLink, Return, IInv
<1>3. farmers[e] # None /\ farmers[e].verified
  BY DEF DeleteLink, At, IInv, RequestsTied, Tied
<1>4. links' = [links EXCEPT ![e] = "used"] /\ farmers' = farmers
  BY DEF DeleteLink
<1>5. /\ links' \in [Emails -> LinkStates]
      /\ farmers' \in [Emails -> Farmer \cup {None}]
  BY <1>4 DEF IInv, TypeOK, LinkStates
<1>6. AccountsKept
  BY <1>4 DEF AccountsKept
<1>7. \A a \in Emails : links'[a] # "unsent" => farmers'[a] # None
  BY <1>3, <1>4 DEF IInv, TypeOK
<1>8. \A a \in Emails : links'[a] = "used" => farmers'[a].verified
  BY <1>3, <1>4 DEF IInv, TypeOK, UsedMeansVerified
<1>9. Tied(r)' /\ \A a \in Emails : ~Registering(r, a)'
  BY <1>2 DEF Tied, Registering
<1>10. QED
  BY <1>2, <1>5, <1>6, <1>7, <1>8, <1>9, AccountKeeps DEF DeleteLink

LEMMA ExpireLinkKeeps ==
  ASSUME IInv, NEW e \in Emails, ExpireLink(e)
  PROVE  IInv'
<1>1. AccountsKept /\ TokensKept
  BY DEF ExpireLink, AccountsKept, TokensKept, tokenVars, Issued
<1>2. RequestsTied' /\ OneRegistration'
  BY <1>1, IdleKept DEF ExpireLink
<1>3. TypeOK'
  BY DEF ExpireLink, IInv, TypeOK, LinkStates, tokenVars, Issued
<1>4. UsedMeansVerified'
  BY DEF ExpireLink, IInv, TypeOK, UsedMeansVerified
<1>5. OwnFamilies' /\ ExchangedIsSpent'
  BY DEF ExpireLink, IInv, OwnFamilies, ExchangedIsSpent, tokenVars, Issued
<1>6. QED
  BY <1>2, <1>3, <1>4, <1>5 DEF IInv

-----------------------------------------------------------------------------
(***************************************************************************)
(* Steps that write to tokens.                                             *)
(***************************************************************************)

\* An UPDATE of refresh_tokens: rows stay, and what it sets is "revoked" or
\* "expired".
Rewritten ==
  /\ tokens' \in [Tokens -> RefreshToken \cup {None}]
  /\ \A t \in Tokens :
       /\ tokens'[t] = None <=> tokens[t] = None
       /\ tokens[t] # None =>
            /\ tokens'[t].farmer = tokens[t].farmer
            /\ tokens'[t].family = tokens[t].family
            /\ tokens[t].revoked => tokens'[t].revoked

LEMMA RewriteToken ==
  ASSUME TypeOK, NEW t \in Issued, NEW row \in RefreshToken,
         row.farmer = tokens[t].farmer, row.family = tokens[t].family,
         tokens[t].revoked => row.revoked,
         tokens' = [tokens EXCEPT ![t] = row]
  PROVE  Rewritten
<1>1. row # None
  BY NoneAssumption
<1>2. QED
  BY <1>1 DEF TypeOK, Issued, Rewritten

\* Such an update, with or without a step of a request, keeps the part of the
\* invariant about tokens.
LEMMA RewriteKeeps ==
  ASSUME IInv, Rewritten, UNCHANGED <<accountVars, lineage, held>>,
         access' \in [Tokens -> AccessStates \cup {None}],
         \A t \in Tokens : access[t] # None => access'[t] # None,
         \A t \in Tokens : access[t] # "valid" => access'[t] # "valid",
         serving' \in [Requests -> Serving \cup {None}]
  PROVE  /\ AccountsKept /\ TokensKept
         /\ TypeOK' /\ OwnFamilies' /\ ExchangedIsSpent' /\ UsedMeansVerified'
<1>1. Issued' = Issued
  BY DEF Rewritten, Issued
<1>2. AccountsKept /\ TokensKept
  BY <1>1 DEF AccountsKept, TokensKept, accountVars, Rewritten, Issued
<1>3. TypeOK'
  BY <1>1 DEF IInv, TypeOK, accountVars, Rewritten, Issued
<1>4. OwnFamilies' /\ UsedMeansVerified'
  BY <1>1 DEF IInv, OwnFamilies, UsedMeansVerified, accountVars, Rewritten, Issued
<1>5. ExchangedIsSpent'
  BY <1>1 DEF IInv, ExchangedIsSpent, Rewritten, Issued
<1>6. QED
  BY <1>2, <1>3, <1>4, <1>5

LEMMA RevokedRow ==
  ASSUME NEW row \in RefreshToken
  PROVE  /\ [row EXCEPT !.revoked = TRUE] \in RefreshToken
         /\ [row EXCEPT !.revoked = TRUE].farmer = row.farmer
         /\ [row EXCEPT !.revoked = TRUE].family = row.family
         /\ [row EXCEPT !.revoked = TRUE].revoked
  BY DEF RefreshToken

LEMMA RevokeRewrites ==
  ASSUME TypeOK, NEW t \in Issued, tokens' = [tokens EXCEPT ![t].revoked = TRUE]
  PROVE  Rewritten /\ tokens'[t].revoked
<1> DEFINE row == [tokens[t] EXCEPT !.revoked = TRUE]
<1>1. tokens[t] \in RefreshToken
  BY TokenShape
<1>2. /\ row \in RefreshToken /\ row.revoked
      /\ row.farmer = tokens[t].farmer /\ row.family = tokens[t].family
  BY <1>1, RevokedRow
<1>3. tokens' = [tokens EXCEPT ![t] = row] /\ tokens'[t] = row
  BY DEF TypeOK, Issued
<1> HIDE DEF row
<1>4. QED
  BY <1>2, <1>3, RewriteToken

LEMMA RevokeFamilyKeeps ==
  ASSUME IInv, NEW r \in Requests, RevokeFamily(r)
  PROVE  IInv'
<1> DEFINE t == serving[r].token
           hit == {u \in Issued : tokens[u].family = tokens[t].family}
<1>1. tokens' = [u \in Tokens |-> IF u \in hit THEN [tokens[u] EXCEPT !.revoked = TRUE]
                                              ELSE tokens[u]]
  BY DEF RevokeFamily
<1> HIDE DEF hit
<1>2. ASSUME NEW u \in Tokens
      PROVE  /\ tokens'[u] \in RefreshToken \cup {None}
             /\ tokens'[u] = None <=> tokens[u] = None
             /\ tokens[u] # None =>
                  /\ tokens'[u].farmer = tokens[u].farmer
                  /\ tokens'[u].family = tokens[u].family
                  /\ tokens[u].revoked => tokens'[u].revoked
  <2>1. CASE u \in hit
    <3>1. tokens[u] \in RefreshToken /\ tokens[u] # None
      BY <2>1, TokenShape DEF hit, Issued, IInv
    <3>2. tokens'[u] = [tokens[u] EXCEPT !.revoked = TRUE]
      BY <1>1, <2>1
    <3>3. tokens'[u] \in RefreshToken
      BY <3>1, <3>2, RevokedRow
    <3>4. QED
      BY <3>1, <3>2, <3>3, RevokedRow, NoneAssumption
  <2>2. CASE u \notin hit
    BY <1>1, <2>2 DEF IInv, TypeOK
  <2>3. QED
    BY <2>1, <2>2
<1>3. tokens' \in [Tokens -> RefreshToken \cup {None}]
  <2>1. DOMAIN tokens' = Tokens /\ tokens' = [u \in DOMAIN tokens' |-> tokens'[u]]
    BY <1>1
  <2>2. QED
    BY <1>2, <2>1
<1>4. Rewritten
  BY <1>2, <1>3 DEF Rewritten
<1>5. /\ serving'[r] = None
      /\ \A s \in Requests \ {r} : serving'[s] = serving[s]
      /\ serving' \in [Requests -> Serving \cup {None}]
  BY Moved DEF RevokeFamily, Return, IInv
<1>6. Tied(r)' /\ \A a \in Emails : ~Registering(r, a)'
  BY <1>5 DEF Tied, Registering
<1>7. /\ AccountsKept /\ TokensKept
      /\ TypeOK' /\ OwnFamilies' /\ ExchangedIsSpent' /\ UsedMeansVerified'
  BY <1>4, <1>5, RewriteKeeps DEF RevokeFamily, IInv, TypeOK
<1>8. RequestsTied' /\ OneRegistration'
  BY <1>5, <1>6, <1>7, RequestsKept
<1>9. QED
  BY <1>7, <1>8 DEF IInv

LEMMA RevokeUsedKeeps ==
  ASSUME IInv, NEW r \in Requests, RevokeUsed(r)
  PROVE  IInv'
<1> DEFINE t == serving[r].token
           h == [pc |-> "issue", farmer |-> tokens[t].farmer, from |-> t, new |-> FALSE]
<1>1. t \in Issued
  BY DEF RevokeUsed, At, IInv, RequestsTied, Tied
<1>2. /\ tokens[t].farmer \in Emails
      /\ farmers[tokens[t].farmer] # None
      /\ t \in Tokens
  BY <1>1, TokenShape DEF IInv
<1>3. tokens' = [tokens EXCEPT ![t].revoked = TRUE]
  BY DEF RevokeUsed
<1>4. Rewritten /\ tokens'[t].revoked
  BY <1>1, <1>3, RevokeRewrites DEF IInv
<1>5. h \in Serving
  BY <1>2, IssueServing
<1>6. Goto(r, h)
  BY DEF RevokeUsed
<1>7. /\ serving'[r] = h
      /\ \A s \in Requests \ {r} : serving'[s] = serving[s]
      /\ serving' \in [Requests -> Serving \cup {None}]
  BY <1>5, <1>6, Moved DEF IInv
<1>8. /\ t \in Issued'
      /\ tokens'[t].farmer = tokens[t].farmer
      /\ farmers'[tokens[t].farmer] # None
  BY <1>1, <1>2, <1>4 DEF Rewritten, Issued, RevokeUsed, accountVars
<1>9. Tied(r)' /\ \A a \in Emails : ~Registering(r, a)'
  BY <1>4, <1>7, <1>8 DEF Tied, Registering
<1>10. /\ AccountsKept /\ TokensKept
       /\ TypeOK' /\ OwnFamilies' /\ ExchangedIsSpent' /\ UsedMeansVerified'
  BY <1>4, <1>7, RewriteKeeps DEF RevokeUsed, IInv, TypeOK
<1>11. RequestsTied' /\ OneRegistration'
  BY <1>7, <1>9, <1>10, RequestsKept
<1>12. QED
  BY <1>10, <1>11 DEF IInv

LEMMA RevokeRefreshKeeps ==
  ASSUME IInv, NEW r \in Requests, RevokeRefresh(r)
  PROVE  /\ IInv'
         /\ serving[r].token # None => tokens'[serving[r].token].revoked
         /\ access[serving[r].access] \in {"revoked", "late", "lapsed"}
<1> DEFINE t == serving[r].token
           a == serving[r].access
<1>1. a \in Issued /\ access[a] # "valid" /\ (t # None => t \in Issued)
  BY DEF RevokeRefresh, At, IInv, RequestsTied, Tied
<1>2. access[a] \in {"revoked", "late", "lapsed"}
  BY <1>1, TokenShape DEF IInv, AccessStates
<1>3. Rewritten /\ (t # None => tokens'[t].revoked)
  <2>1. CASE t = None
    BY <2>1 DEF RevokeRefresh, Rewritten, IInv, TypeOK
  <2>2. CASE t # None
    BY <1>1, <2>2, RevokeRewrites DEF RevokeRefresh, IInv
  <2>3. QED
    BY <2>1, <2>2
<1>4. /\ serving'[r] = None
      /\ \A s \in Requests \ {r} : serving'[s] = serving[s]
      /\ serving' \in [Requests -> Serving \cup {None}]
  BY Moved DEF RevokeRefresh, Return, IInv
<1>5. Tied(r)' /\ \A e \in Emails : ~Registering(r, e)'
  BY <1>4 DEF Tied, Registering
<1>6. /\ AccountsKept /\ TokensKept
      /\ TypeOK' /\ OwnFamilies' /\ ExchangedIsSpent' /\ UsedMeansVerified'
  BY <1>3, <1>4, RewriteKeeps DEF RevokeRefresh, IInv, TypeOK
<1>7. RequestsTied' /\ OneRegistration'
  BY <1>4, <1>5, <1>6, RequestsKept
<1>8. QED
  BY <1>2, <1>3, <1>6, <1>7 DEF IInv

LEMMA RevokeAccessKeeps ==
  ASSUME IInv, NEW r \in Requests, NEW a \in Tokens, NEW t \in Tokens \cup {None},
         RevokeAccess(r, a, t)
  PROVE  IInv'
<1> DEFINE h == [pc |-> "forget", access |-> a, token |-> t]
<1>1. a \in Issued /\ access[a] \in AccessStates /\ (t # None => t \in Issued)
  BY TokenShape DEF RevokeAccess, IInv, TypeOK
<1>2. /\ access' \in [Tokens -> AccessStates \cup {None}]
      /\ access'[a] # "valid"
      /\ \A u \in Tokens : access[u] # None => access'[u] # None
      /\ \A u \in Tokens : access[u] # "valid" => access'[u] # "valid"
  BY <1>1, NoneAssumption DEF RevokeAccess, IInv, TypeOK, AccessStates
<1>3. Rewritten
  BY DEF RevokeAccess, Rewritten, IInv, TypeOK
<1>4. h \in Serving
  BY DEF Serving
<1>5. /\ serving'[r] = h
      /\ \A s \in Requests \ {r} : serving'[s] = serving[s]
      /\ serving' \in [Requests -> Serving \cup {None}]
  BY <1>4, Moved DEF RevokeAccess, IInv
<1>6. Tied(r)' /\ \A e \in Emails : ~Registering(r, e)'
  BY <1>1, <1>2, <1>5 DEF Tied, Registering, RevokeAccess, Issued
<1>7. /\ AccountsKept /\ TokensKept
      /\ TypeOK' /\ OwnFamilies' /\ ExchangedIsSpent' /\ UsedMeansVerified'
  BY <1>2, <1>3, <1>5, RewriteKeeps DEF RevokeAccess
<1>8. RequestsTied' /\ OneRegistration'
  BY <1>5, <1>6, <1>7, RequestsKept
<1>9. QED
  BY <1>7, <1>8 DEF IInv

LEMMA ExpireRefreshKeeps ==
  ASSUME IInv, NEW t \in Tokens, ExpireRefresh(t)
  PROVE  IInv'
<1> DEFINE row == [tokens[t] EXCEPT !.expired = TRUE]
<1>1. t \in Issued /\ tokens[t] \in RefreshToken
  BY TokenShape DEF ExpireRefresh, IInv
<1>2. /\ row \in RefreshToken /\ row.revoked = tokens[t].revoked
      /\ row.farmer = tokens[t].farmer /\ row.family = tokens[t].family
  BY <1>1 DEF RefreshToken
<1>3. tokens' = [tokens EXCEPT ![t] = row]
  BY DEF ExpireRefresh
<1> HIDE DEF row
<1>4. Rewritten
  BY <1>1, <1>2, <1>3, RewriteToken DEF IInv
<1>5. /\ AccountsKept /\ TokensKept
      /\ TypeOK' /\ OwnFamilies' /\ ExchangedIsSpent' /\ UsedMeansVerified'
  BY <1>4, RewriteKeeps DEF ExpireRefresh, IInv, TypeOK
<1>6. RequestsTied' /\ OneRegistration'
  BY <1>5, IdleKept DEF ExpireRefresh
<1>7. QED
  BY <1>5, <1>6 DEF IInv

LEMMA ExpireAccessKeeps ==
  ASSUME IInv, NEW t \in Tokens, ExpireAccess(t) \/ LapseAccess(t)
  PROVE  IInv'
<1>1. /\ access' \in [Tokens -> AccessStates \cup {None}]
      /\ \A u \in Tokens : access[u] # None => access'[u] # None
      /\ \A u \in Tokens : access[u] # "valid" => access'[u] # "valid"
  BY NoneAssumption DEF ExpireAccess, LapseAccess, IInv, TypeOK, AccessStates
<1>2. Rewritten
  BY DEF ExpireAccess, LapseAccess, Rewritten, IInv, TypeOK
<1>3. /\ AccountsKept /\ TokensKept
      /\ TypeOK' /\ OwnFamilies' /\ ExchangedIsSpent' /\ UsedMeansVerified'
  BY <1>1, <1>2, RewriteKeeps DEF ExpireAccess, LapseAccess, IInv, TypeOK
<1>4. RequestsTied' /\ OneRegistration'
  BY <1>3, IdleKept DEF ExpireAccess, LapseAccess
<1>5. QED
  BY <1>3, <1>4 DEF IInv

\* A token is issued: its row is new, for an account that exists, and if it is
\* exchanged for another, that one is spent.
LEMMA IssueKeeps ==
  ASSUME IInv, NEW r \in Requests, Issue(r)
  PROVE  IInv'
<1> DEFINE h == serving[r]
<1>1. /\ h # None /\ h.pc = "issue"
      /\ h.farmer \in Emails /\ h.from \in Tokens \cup {None} /\ h.new \in BOOLEAN
  BY ServingShape DEF Issue, At, IInv
<1>2. /\ farmers[h.farmer] # None
      /\ h.from # None => /\ h.from \in Issued
                          /\ tokens[h.from].revoked
                          /\ tokens[h.from].farmer = h.farmer
  BY <1>1 DEF IInv, RequestsTied, Tied
<1>3. PICK t \in Tokens \ Issued :
        /\ tokens' = [tokens EXCEPT ![t] =
             [farmer |-> h.farmer, family |-> t, revoked |-> FALSE, expired |-> FALSE]]
        /\ access' = [access EXCEPT ![t] = "valid"]
        /\ lineage' = [lineage EXCEPT ![t] =
             [from  |-> h.from,
              first |-> IF h.from = None THEN t ELSE lineage[h.from].first]]
        /\ Goto(r, [pc |-> IF h.new THEN "link" ELSE "reply",
                    farmer |-> h.farmer, token |-> t])
  BY DEF Issue, FamilyOf
<1> DEFINE row == [farmer |-> h.farmer, family |-> t, revoked |-> FALSE, expired |-> FALSE]
           line == [from  |-> h.from,
                    first |-> IF h.from = None THEN t ELSE lineage[h.from].first]
           next == [pc |-> IF h.new THEN "link" ELSE "reply",
                    farmer |-> h.farmer, token |-> t]
<1>4. row \in RefreshToken /\ row.farmer = h.farmer /\ row.family = t
  BY <1>1 DEF RefreshToken
<1>5. line \in Lineage /\ line.from = h.from
  <2>1. h.from # None => lineage[h.from] \in Lineage
    BY <1>2, TokenShape DEF IInv
  <2>2. h.from # None => lineage[h.from].first \in Tokens
    BY <2>1 DEF Lineage
  <2>3. QED
    BY <1>1, <2>2 DEF Lineage
<1>6. /\ next \in Serving /\ next.pc \in {"link", "reply"}
      /\ next.pc = "link" <=> h.new
      /\ next.farmer = h.farmer /\ next.token = t
  BY <1>1 DEF Serving
<1>7. row # None /\ line # None /\ next # None
  BY <1>4, <1>5, <1>6, NoneAssumption
<1>8. /\ tokens' = [tokens EXCEPT ![t] = row]
      /\ lineage' = [lineage EXCEPT ![t] = line]
      /\ Goto(r, next)
  BY <1>3
<1> HIDE DEF row, line, next
<1>9. /\ tokens' \in [Tokens -> RefreshToken \cup {None}]
      /\ tokens'[t] = row
      /\ \A u \in Tokens \ {t} : tokens'[u] = tokens[u]
      /\ Issued' = Issued \cup {t}
  <2>1. /\ tokens' \in [Tokens -> RefreshToken \cup {None}]
        /\ tokens'[t] = row
        /\ \A u \in Tokens \ {t} : tokens'[u] = tokens[u]
    BY <1>4, <1>8 DEF IInv, TypeOK
  <2>2. QED
    BY <1>7, <2>1 DEF Issued
<1>10. /\ access' \in [Tokens -> AccessStates \cup {None}]
       /\ access'[t] # None
       /\ \A u \in Tokens \ {t} : access'[u] = access[u]
  BY <1>3, NoneAssumption DEF IInv, TypeOK, AccessStates
<1>11. /\ lineage' \in [Tokens -> Lineage \cup {None}]
       /\ lineage'[t] = line
       /\ \A u \in Tokens \ {t} : lineage'[u] = lineage[u]
  BY <1>5, <1>8 DEF IInv, TypeOK
<1>12. /\ serving'[r] = next
       /\ \A s \in Requests \ {r} : serving'[s] = serving[s]
       /\ serving' \in [Requests -> Serving \cup {None}]
  BY <1>6, <1>8, Moved DEF IInv
<1>13. farmers' = farmers /\ links' = links /\ held' = held
  BY DEF Issue, accountVars
<1>14. t \notin Issued /\ Issued \subseteq Tokens
  BY DEF Issued
<1>15. AccountsKept /\ TokensKept
  BY <1>9, <1>10, <1>13, <1>14 DEF AccountsKept, TokensKept
<1>16. TypeOK'
  <2>1. ASSUME NEW u \in Issued'
        PROVE  /\ farmers'[tokens'[u].farmer] # None
               /\ access'[u] # None /\ lineage'[u] # None
    <3>1. CASE u = t
      BY <1>2, <1>4, <1>7, <1>9, <1>10, <1>11, <1>13, <3>1
    <3>2. CASE u # t
      BY <1>9, <1>10, <1>11, <1>13, <1>14, <3>2 DEF IInv, TypeOK
    <3>3. QED
      BY <3>1, <3>2
  <2>2. QED
    BY <1>9, <1>10, <1>11, <1>12, <1>13, <2>1 DEF IInv, TypeOK
<1>17. OwnFamilies'
  BY <1>4, <1>9, <1>14 DEF IInv, OwnFamilies
<1>18. ExchangedIsSpent'
  <2>1. SUFFICES ASSUME NEW u \in Issued', lineage'[u].from # None
                 PROVE  /\ lineage'[u].from \in Issued'
                        /\ tokens'[lineage'[u].from].revoked
                        /\ tokens'[lineage'[u].from].farmer = tokens'[u].farmer
    BY DEF ExchangedIsSpent
  <2>2. CASE u = t
    <3>1. lineage'[u].from = h.from /\ h.from # None /\ h.from \in Issued /\ h.from # t
      BY <1>2, <1>5, <1>11, <1>14, <2>1, <2>2
    <3>2. tokens'[h.from] = tokens[h.from] /\ h.from \in Issued'
      BY <1>9, <1>14, <3>1
    <3>3. tokens'[u].farmer = h.farmer
      BY <1>4, <1>9, <2>2
    <3>4. QED
      BY <1>2, <3>1, <3>2, <3>3
  <2>3. CASE u # t
    <3>1. u \in Issued /\ lineage'[u] = lineage[u] /\ tokens'[u] = tokens[u]
      BY <1>9, <1>11, <1>14, <2>3
    <3>2. /\ lineage[u].from \in Issued
          /\ tokens[lineage[u].from].revoked
          /\ tokens[lineage[u].from].farmer = tokens[u].farmer
      BY <2>1, <3>1 DEF IInv, ExchangedIsSpent
    <3>3. QED
      BY <1>9, <1>14, <3>1, <3>2
  <2>4. QED
    BY <2>2, <2>3
<1>19. UsedMeansVerified'
  BY <1>13 DEF IInv, UsedMeansVerified
<1>20. Tied(r)'
  BY <1>2, <1>6, <1>9, <1>12, <1>13 DEF Tied
<1>21. \A e \in Emails : Registering(r, e)' => Registering(r, e)
  BY <1>1, <1>6, <1>12 DEF Registering
<1>22. RequestsTied' /\ OneRegistration'
  BY <1>12, <1>15, <1>20, <1>21, RequestsKept
<1>23. QED
  BY <1>16, <1>17, <1>18, <1>19, <1>22 DEF IInv

-----------------------------------------------------------------------------
(***************************************************************************)
(* The theorems.                                                           *)
(***************************************************************************)

LEMMA InitHolds == Init => IInv
<1> SUFFICES ASSUME Init PROVE IInv
  OBVIOUS
<1>1. Issued = {}
  BY DEF Init, Issued
<1>2. TypeOK
  BY <1>1 DEF Init, TypeOK, LinkStates
<1>3. RequestsTied /\ OneRegistration
  BY DEF Init, RequestsTied, Tied, OneRegistration, Registering
<1>4. OwnFamilies /\ ExchangedIsSpent
  BY <1>1 DEF OwnFamilies, ExchangedIsSpent
<1>5. UsedMeansVerified
  BY DEF Init, UsedMeansVerified
<1>6. QED
  BY <1>2, <1>3, <1>4, <1>5 DEF IInv

LEMMA StepKeeps == IInv /\ [Next]_vars => IInv'
<1> SUFFICES ASSUME IInv, [Next]_vars PROVE IInv'
  OBVIOUS
<1>1. CASE AccountStep
  BY <1>1, BeginRegisterKeeps, LoginKeeps, BeginVerifyKeeps, InsertFarmerKeeps,
     StoreLinkKeeps, MarkVerifiedKeeps, DeleteLinkKeeps DEF AccountStep
<1>2. CASE TokenStep
  BY <1>2, BeginRefreshKeeps, RevokeAccessKeeps, IssueKeeps, ReplyKeeps,
     RevokeFamilyKeeps, RevokeUsedKeeps, RevokeRefreshKeeps DEF TokenStep
<1>3. CASE TimeStep
  BY <1>3, ExpireRefreshKeeps, ExpireAccessKeeps, ExpireLinkKeeps DEF TimeStep
<1>4. CASE \E r \in Requests : Drop(r)
  BY <1>4, DropKeeps
<1>5. CASE UNCHANGED vars
  BY <1>5 DEF vars, accountVars, tokenVars, IInv, TypeOK, RequestsTied, Tied, OneRegistration,
              Registering, OwnFamilies, ExchangedIsSpent, UsedMeansVerified, Issued
<1>6. QED
  BY <1>1, <1>2, <1>3, <1>4, <1>5 DEF Next

\* The inductive invariant: what the requests in flight hold stays true while
\* others run (service.rs and routes/auth.rs, every handler).
THEOREM InvariantHolds == Spec => []IInv
  BY InitHolds, StepKeeps, PTL DEF Spec

\* Rows, requests and foreign keys stay well formed.
THEOREM TypeCorrect == Spec => []TypeOK
<1>1. IInv => TypeOK
  BY DEF IInv
<1>2. QED
  BY <1>1, InvariantHolds, PTL

\* Of the requests that register one address at most one creates the account:
\* the UNIQUE email decides, not the look-up before the hash.
THEOREM OneRegistrationHolds == Spec => []OneRegistration
<1>1. IInv => OneRegistration
  BY DEF IInv
<1>2. QED
  BY <1>1, InvariantHolds, PTL

\* A token with a successor is revoked, however refreshes overlap and wherever
\* they are dropped, and the successor is the same farmer's.
THEOREM ExchangedStaysSpent == Spec => []ExchangedIsSpent
<1>1. IInv => ExchangedIsSpent
  BY DEF IInv
<1>2. QED
  BY <1>1, InvariantHolds, PTL

\* A link that was used up has verified its farmer.
THEOREM UsedLinksVerified == Spec => []UsedMeansVerified
<1>1. IInv => UsedMeansVerified
  BY DEF IInv
<1>2. QED
  BY <1>1, InvariantHolds, PTL

\* A logout is answered only when the refresh token it brought is revoked and
\* the access token it named was given a key or is past its expiry, whatever
\* other requests and the clock do between its statements.
THEOREM LogoutIsComplete == Spec => LogoutComplete
<1>1. IInv /\ [Next]_vars =>
        [\A r \in Requests : RevokeRefresh(r) =>
           /\ serving[r].token # None => tokens'[serving[r].token].revoked
           /\ access[serving[r].access] \in {"revoked", "late", "lapsed"}]_vars
  BY RevokeRefreshKeeps
<1>2. QED
  BY <1>1, InvariantHolds, PTL DEF Spec, LogoutComplete
-----------------------------------------------------------------------------
(***************************************************************************)
(* The implementation of AccountBook.  An address is mailed once because   *)
(* whoever registers it has not stored a link yet, and only a link that    *)
(* was mailed is verified.                                                 *)
(***************************************************************************)

LinkTied(r) ==
  /\ \A e \in Emails : Registering(r, e) => links[e] = "unsent"
  /\ At(r, "verify") \/ At(r, "unlink") => links[serving[r].farmer] # "unsent"

LinksTied == \A r \in Requests : LinkTied(r)

\* A link that is stored never becomes unsent, and an unsent one is left alone.
LinksKept == \A e \in Emails : links'[e] = "unsent" <=> links[e] = "unsent"

LEMMA IdleLinkTied ==
  ASSUME IInv, NEW s \in Requests, LinkTied(s), LinksKept, serving'[s] = serving[s]
  PROVE  LinkTied(s)'
<1>1. \A e \in Emails : Registering(s, e)' => links'[e] = "unsent"
  BY DEF LinkTied, Registering, LinksKept
<1>2. At(s, "verify")' \/ At(s, "unlink")' => links'[serving[s].farmer] # "unsent"
  <2>1. SUFFICES ASSUME At(s, "verify") \/ At(s, "unlink")
                 PROVE  links'[serving[s].farmer] # "unsent"
    BY DEF At
  <2>2. serving[s].farmer \in Emails
    BY <2>1, ServingShape DEF At, IInv
  <2>3. QED
    BY <2>1, <2>2 DEF LinkTied, LinksKept
<1>3. QED
  BY <1>1, <1>2 DEF LinkTied, At

\* A step of request r keeps every request tied to its link if it leaves r so.
LEMMA MovedLinksTied ==
  ASSUME IInv, LinksTied, LinksKept, NEW r \in Requests, NEW h, Goto(r, h), LinkTied(r)'
  PROVE  LinksTied'
<1>1. \A s \in Requests \ {r} : serving'[s] = serving[s]
  BY Moved DEF IInv
<1>2. QED
  BY <1>1, IdleLinkTied DEF LinksTied

\* So it does if it is over, or goes on with tokens.
LEMMA QuietLinksTied ==
  ASSUME IInv, LinksTied, LinksKept, NEW r \in Requests, NEW h, Goto(r, h),
         h # None => \/ h.pc \in {"insert", "reply", "spend", "spread", "forget"}
                     \/ h.pc = "issue" /\ h.new = FALSE
  PROVE  LinksTied'
<1>1. serving'[r] = h
  BY Moved DEF IInv
<1>2. LinkTied(r)'
  BY <1>1 DEF LinkTied, Registering, At
<1>3. QED
  BY <1>2, MovedLinksTied

LEMMA InsertLinksTied ==
  ASSUME IInv, LinksTied, NEW r \in Requests, InsertFarmer(r)
  PROVE  LinksTied'
<1> DEFINE e == serving[r].farmer
           h == [pc |-> "issue", farmer |-> e, from |-> None, new |-> TRUE]
<1>1. e \in Emails /\ LinksKept
  BY ServingShape DEF InsertFarmer, At, IInv, LinksKept
<1>2. CASE farmers[e] = None /\ Goto(r, h)
  <2>1. links'[e] = "unsent"
    BY <1>1, <1>2 DEF InsertFarmer, IInv, TypeOK
  <2>2. serving'[r] = h
    BY <1>2, Moved DEF IInv
  <2>3. LinkTied(r)'
    BY <2>1, <2>2 DEF LinkTied, Registering, At
  <2>4. QED
    BY <1>1, <1>2, <2>3, MovedLinksTied
<1>3. CASE Return(r)
  BY <1>1, <1>3, QuietLinksTied DEF Return
<1>4. QED
  BY <1>2, <1>3 DEF InsertFarmer

\* The request that stores the link of an address is the only one to register it.
LEMMA StoreLinksTied ==
  ASSUME IInv, LinksTied, NEW r \in Requests, StoreLink(r)
  PROVE  LinksTied'
<1> DEFINE e == serving[r].farmer
<1>1. e \in Emails /\ serving[r] # None /\ Registering(r, e)
  BY ServingShape DEF StoreLink, At, IInv, Registering
<1>2. /\ links'[e] = "valid"
      /\ \A a \in Emails \ {e} : links'[a] = links[a]
  BY <1>1 DEF StoreLink, IInv, TypeOK
<1>3. /\ serving'[r] = [serving[r] EXCEPT !.pc = "reply"]
      /\ \A s \in Requests \ {r} : serving'[s] = serving[s]
  BY Moved DEF StoreLink, IInv
<1>4. LinkTied(r)'
  <2>1. serving'[r].pc = "reply"
    BY <1>1, <1>3, ServingShape DEF StoreLink, At, IInv
  <2>2. QED
    BY <2>1 DEF LinkTied, Registering, At
<1>5. ASSUME NEW s \in Requests \ {r} PROVE LinkTied(s)'
  <2>1. ASSUME NEW a \in Emails, Registering(s, a)' PROVE links'[a] = "unsent"
    <3>1. Registering(s, a)
      BY <1>3, <2>1 DEF Registering
    <3>2. a # e
      BY <1>1, <3>1 DEF IInv, OneRegistration
    <3>3. QED
      BY <1>2, <3>1, <3>2 DEF LinksTied, LinkTied
  <2>2. At(s, "verify")' \/ At(s, "unlink")' => links'[serving[s].farmer] # "unsent"
    <3>1. SUFFICES ASSUME At(s, "verify") \/ At(s, "unlink")
                   PROVE  links'[serving[s].farmer] # "unsent"
      BY <1>3 DEF At
    <3>2. serving[s].farmer \in Emails
      BY <3>1, ServingShape DEF At, IInv
    <3>3. links[serving[s].farmer] # "unsent"
      BY <3>1 DEF LinksTied, LinkTied
    <3>4. QED
      BY <1>2, <3>2, <3>3
  <2>3. QED
    BY <1>3, <2>1, <2>2 DEF LinkTied
<1>6. QED
  BY <1>4, <1>5 DEF LinksTied

LEMMA BeginVerifyLinksTied ==
  ASSUME IInv, LinksTied, NEW r \in Requests, NEW e \in Emails, BeginVerify(r, e)
  PROVE  LinksTied'
<1>1. LinksKept /\ links'[e] = "valid"
  BY DEF BeginVerify, accountVars, LinksKept
<1>2. serving'[r] = [pc |-> "verify", farmer |-> e]
  BY Moved DEF BeginVerify, IInv
<1>3. LinkTied(r)'
  BY <1>1, <1>2 DEF LinkTied, Registering, At
<1>4. QED
  BY <1>1, <1>3, MovedLinksTied DEF BeginVerify

LEMMA MarkLinksTied ==
  ASSUME IInv, LinksTied, NEW r \in Requests, MarkVerified(r)
  PROVE  LinksTied'
<1>1. LinksKept
  BY DEF MarkVerified, LinksKept
<1>2. /\ serving[r] # None /\ serving[r].pc = "verify"
      /\ serving[r] = [pc |-> serving[r].pc, farmer |-> serving[r].farmer]
  BY ServingShape DEF MarkVerified, At, IInv
<1>3. /\ serving'[r].pc = "unlink"
      /\ serving'[r].farmer = serving[r].farmer
  BY <1>2, Moved DEF MarkVerified, IInv
<1>4. links[serving[r].farmer] # "unsent"
  BY <1>2 DEF LinksTied, LinkTied, At
<1>5. LinkTied(r)'
  BY <1>3, <1>4 DEF LinkTied, Registering, At, MarkVerified
<1>6. QED
  BY <1>1, <1>5, MovedLinksTied DEF MarkVerified

LEMMA DeleteLinksTied ==
  ASSUME IInv, LinksTied, NEW r \in Requests, DeleteLink(r)
  PROVE  LinksTied'
<1>1. /\ serving[r].farmer \in Emails
      /\ links[serving[r].farmer] # "unsent"
  BY ServingShape DEF DeleteLink, At, IInv, LinksTied, LinkTied
<1>2. LinksKept
  BY <1>1 DEF DeleteLink, LinksKept, IInv, TypeOK
<1>3. QED
  BY <1>2, QuietLinksTied DEF DeleteLink, Return

\* The pair is issued to the request that registers the same address before.
LEMMA IssueLinksTied ==
  ASSUME IInv, LinksTied, NEW r \in Requests, Issue(r)
  PROVE  LinksTied'
<1> DEFINE g == serving[r]
           next(t) == [pc |-> IF g.new THEN "link" ELSE "reply",
                       farmer |-> g.farmer, token |-> t]
<1>1. PICK t \in Tokens \ Issued : Goto(r, next(t))
  BY DEF Issue
<1>2. LinksKept
  BY DEF Issue, accountVars, LinksKept
<1>3. serving'[r] = next(t)
  BY <1>1, Moved DEF IInv
<1>4. ASSUME NEW a \in Emails, Registering(r, a)' PROVE links'[a] = "unsent"
  <2>1. a = g.farmer /\ g.new
    BY <1>3, <1>4 DEF Registering
  <2>2. Registering(r, a)
    BY <2>1 DEF Issue, At, Registering
  <2>3. QED
    BY <2>2, <1>2 DEF LinksTied, LinkTied, LinksKept
<1>5. ~At(r, "verify")' /\ ~At(r, "unlink")'
  BY <1>3 DEF At
<1>6. LinkTied(r)'
  BY <1>4, <1>5 DEF LinkTied
<1>7. QED
  BY <1>1, <1>2, <1>6, MovedLinksTied

LEMMA LinksStayTied ==
  ASSUME IInv, LinksTied, [Next]_vars
  PROVE  LinksTied'
<1>1. ASSUME NEW r \in Requests, NEW e \in Emails,
             BeginRegister(r, e) \/ Login(r, e)
      PROVE  LinksTied'
  <2>1. LinksKept
    BY <1>1 DEF BeginRegister, Login, accountVars, LinksKept
  <2>2. CASE BeginRegister(r, e)
    BY <2>1, <2>2, QuietLinksTied DEF BeginRegister
  <2>3. CASE Login(r, e)
    BY <2>1, <2>3, QuietLinksTied DEF Login
  <2>4. QED
    BY <1>1, <2>2, <2>3
<1>2. CASE AccountStep
  BY <1>1, <1>2, BeginVerifyLinksTied, InsertLinksTied, StoreLinksTied, MarkLinksTied,
     DeleteLinksTied DEF AccountStep
<1>3. ASSUME NEW r \in Requests, NEW h, Goto(r, h), h.pc \in {"spread", "spend", "forget"},
             UNCHANGED accountVars
      PROVE  LinksTied'
  <2>1. LinksKept
    BY <1>3 DEF accountVars, LinksKept
  <2>2. QED
    BY <1>3, <2>1, QuietLinksTied
<1>9. ASSUME NEW r \in Requests, NEW t \in Tokens, BeginRefresh(r, t) PROVE LinksTied'
  <2>1. PICK pc \in {"spread", "spend"} : Goto(r, [pc |-> pc, token |-> t])
    BY <1>9 DEF BeginRefresh
  <2>2. QED
    BY <1>3, <1>9, <2>1 DEF BeginRefresh
<1>10. ASSUME NEW r \in Requests, NEW a \in Tokens, NEW t \in Tokens \cup {None},
              RevokeAccess(r, a, t)
       PROVE  LinksTied'
  BY <1>3, <1>10 DEF RevokeAccess
<1>4. ASSUME NEW r \in Requests,
             Reply(r) \/ RevokeFamily(r) \/ RevokeRefresh(r) \/ Drop(r)
      PROVE  LinksTied'
  <2>1. LinksKept /\ Goto(r, None)
    BY <1>4 DEF Reply, RevokeFamily, RevokeRefresh, Drop, Return, accountVars, LinksKept
  <2>2. QED
    BY <2>1, QuietLinksTied
<1>5. ASSUME NEW r \in Requests, RevokeUsed(r) PROVE LinksTied'
  <2>1. LinksKept
    BY <1>5 DEF RevokeUsed, accountVars, LinksKept
  <2>2. QED
    BY <1>5, <2>1, QuietLinksTied DEF RevokeUsed
<1>6. CASE TokenStep
  BY <1>4, <1>5, <1>6, <1>9, <1>10, IssueLinksTied DEF TokenStep
<1>7. CASE TimeStep \/ UNCHANGED vars
  <2>1. LinksKept /\ serving' = serving
    BY <1>7 DEF TimeStep, ExpireRefresh, ExpireAccess, LapseAccess, ExpireLink, vars, accountVars,
                LinksKept, IInv, TypeOK
  <2>2. QED
    BY <2>1, IdleLinkTied DEF LinksTied
<1>8. QED
  BY <1>2, <1>4, <1>6, <1>7 DEF Next

-----------------------------------------------------------------------------
\* Each step of a handler is a step of the book, or none.

BookAccounts == <<Registered, Mailed, Verified, Used>>

BookAccesses == <<Barred, Expired, Over>>

BookSessions == <<Opened, Refreshable, BookAccesses>>

LEMMA AccountsUntouched ==
  ASSUME UNCHANGED accountVars
  PROVE  UNCHANGED BookAccounts
  BY DEF accountVars, BookAccounts, Registered, Mailed, Verified, Used

LEMMA SessionsUntouched ==
  ASSUME UNCHANGED tokenVars
  PROVE  UNCHANGED BookSessions
  BY DEF tokenVars, BookSessions, BookAccesses, Opened, Refreshable, Barred, Expired, Over, Issued

LEMMA InsertRegisters ==
  ASSUME IInv, NEW r \in Requests, InsertFarmer(r)
  PROVE  (\E e \in Emails : Accounts!Register(e)) \/ UNCHANGED BookAccounts
<1> DEFINE e == serving[r].farmer
<1>1. e \in Emails
  BY ServingShape DEF InsertFarmer, At, IInv
<1>2. CASE farmers[e] = None /\ farmers' = [farmers EXCEPT ![e] = [verified |-> FALSE]]
  <2>1. /\ farmers'[e] = [verified |-> FALSE] /\ farmers'[e] # None
        /\ \A a \in Emails \ {e} : farmers'[a] = farmers[a]
    BY <1>1, <1>2, NewFarmer DEF IInv, TypeOK
  <2>2. links' = links /\ UNCHANGED BookSessions
    BY SessionsUntouched DEF InsertFarmer
  <2> HIDE DEF e
  <2>3. e \notin Registered /\ Registered' = Registered \cup {e}
    BY <1>1, <1>2, <2>1 DEF Registered
  <2>4. Verified' = Verified
    <3>1. farmers'[e].verified = FALSE
      BY <2>1
    <3>2. e \notin Verified /\ e \notin Verified'
      BY <2>3, <3>1 DEF Verified
    <3>3. ASSUME NEW a \in Emails \ {e} PROVE a \in Verified' <=> a \in Verified
      BY <2>1, <2>3, <3>3 DEF Verified
    <3>4. Verified \subseteq Emails /\ Verified' \subseteq Emails
      BY DEF Verified, Registered
    <3>5. QED
      BY <3>2, <3>3, <3>4
  <2>5. Mailed' = Mailed /\ Used' = Used
    BY <2>2 DEF Mailed, Used
  <2>6. Accounts!Register(e)
    BY <2>2, <2>3, <2>4, <2>5
     DEF Accounts!Register, Accounts!sessions, Accounts!accesses, BookSessions, BookAccesses
  <2>7. QED
    BY <1>1, <2>6
<1>3. CASE UNCHANGED farmers
  BY <1>3, AccountsUntouched DEF InsertFarmer, accountVars
<1>4. QED
  BY <1>2, <1>3 DEF InsertFarmer

LEMMA StoreMails ==
  ASSUME IInv, LinksTied, NEW r \in Requests, StoreLink(r)
  PROVE  \E e \in Emails : Accounts!Mail(e)
<1> DEFINE e == serving[r].farmer
<1>1. e \in Emails /\ Registering(r, e)
  BY ServingShape DEF StoreLink, At, IInv, Registering
<1>2. links[e] = "unsent" /\ farmers[e] # None
  BY <1>1 DEF StoreLink, At, LinksTied, LinkTied, IInv, RequestsTied, Tied
<1>3. /\ links'[e] = "valid" /\ farmers' = farmers
      /\ \A a \in Emails \ {e} : links'[a] = links[a]
  BY <1>1 DEF StoreLink, IInv, TypeOK
<1> HIDE DEF e
<1>4. e \in Registered \ Mailed
  BY <1>1, <1>2 DEF Registered, Mailed
<1>5. Mailed' = Mailed \cup {e}
  BY <1>1, <1>2, <1>3 DEF Mailed
<1>6. Registered' = Registered /\ Verified' = Verified
  BY <1>3 DEF Registered, Verified
<1>7. Used' = Used
  BY <1>1, <1>2, <1>3 DEF Used
<1>8. UNCHANGED BookSessions
  BY SessionsUntouched DEF StoreLink
<1>9. Accounts!Mail(e)
  BY <1>4, <1>5, <1>6, <1>7, <1>8
     DEF Accounts!Mail, Accounts!sessions, Accounts!accesses, BookSessions, BookAccesses
<1>10. QED
  BY <1>1, <1>9

LEMMA MarkVerifies ==
  ASSUME IInv, LinksTied, NEW r \in Requests, MarkVerified(r)
  PROVE  (\E e \in Emails : Accounts!Verify(e)) \/ UNCHANGED BookAccounts
<1> DEFINE e == serving[r].farmer
<1>1. e \in Emails
  BY ServingShape DEF MarkVerified, At, IInv
<1>2. links[e] # "unsent" /\ farmers[e] # None
  BY DEF MarkVerified, At, LinksTied, LinkTied, IInv, RequestsTied, Tied
<1>3. farmers[e] \in Farmer
  BY <1>1, <1>2, FarmerShape DEF IInv
<1>4. /\ farmers'[e] = [farmers[e] EXCEPT !.verified = TRUE]
      /\ \A a \in Emails \ {e} : farmers'[a] = farmers[a]
  BY <1>1 DEF MarkVerified, IInv, TypeOK
<1>5. farmers'[e] \in Farmer /\ farmers'[e].verified = TRUE
  BY <1>3, <1>4 DEF Farmer
<1>6. farmers'[e] # None
  BY <1>5, NoneAssumption
<1>7. links' = links /\ UNCHANGED BookSessions
  BY SessionsUntouched DEF MarkVerified
<1> HIDE DEF e
<1>8. e \in Registered /\ Registered' = Registered
  BY <1>1, <1>2, <1>4, <1>6 DEF Registered
<1>9. Verified' = Verified \cup {e}
  <2>1. e \in Verified'
    BY <1>5, <1>8 DEF Verified
  <2>2. ASSUME NEW a \in Emails \ {e} PROVE a \in Verified' <=> a \in Verified
    BY <1>4, <1>8, <2>2 DEF Verified
  <2>3. Verified \subseteq Emails /\ Verified' \subseteq Emails
    BY DEF Verified, Registered
  <2>4. QED
    BY <1>1, <2>1, <2>2, <2>3
<1>10. Mailed' = Mailed /\ Used' = Used /\ e \in Mailed
  BY <1>1, <1>2, <1>7 DEF Mailed, Used
<1>11. CASE e \in Verified
  <2>1. Verified' = Verified
    BY <1>9, <1>11
  <2>2. QED
    BY <1>8, <1>10, <2>1 DEF BookAccounts
<1>12. CASE e \notin Verified
  <2>1. Accounts!Verify(e)
    BY <1>7, <1>8, <1>9, <1>10, <1>12
     DEF Accounts!Verify, Accounts!sessions, Accounts!accesses, BookSessions, BookAccesses
  <2>2. QED
    BY <1>1, <2>1
<1>13. QED
  BY <1>11, <1>12

LEMMA DeleteUses ==
  ASSUME IInv, LinksTied, NEW r \in Requests, DeleteLink(r)
  PROVE  (\E e \in Emails : Accounts!Use(e)) \/ UNCHANGED BookAccounts
<1> DEFINE e == serving[r].farmer
<1>1. e \in Emails
  BY ServingShape DEF DeleteLink, At, IInv
<1>2. links[e] # "unsent" /\ farmers[e] # None /\ farmers[e].verified
  BY DEF DeleteLink, At, LinksTied, LinkTied, IInv, RequestsTied, Tied
<1>3. /\ links'[e] = "used" /\ farmers' = farmers
      /\ \A a \in Emails \ {e} : links'[a] = links[a]
  BY <1>1 DEF DeleteLink, IInv, TypeOK
<1> HIDE DEF e
<1>4. Registered' = Registered /\ Verified' = Verified /\ e \in Verified
  BY <1>1, <1>2, <1>3 DEF Registered, Verified
<1>5. Mailed' = Mailed
  BY <1>1, <1>2, <1>3 DEF Mailed
<1>6. Used' = Used \cup {e}
  BY <1>1, <1>3 DEF Used
<1>7. UNCHANGED BookSessions
  BY SessionsUntouched DEF DeleteLink
<1>8. CASE e \in Used
  <2>1. Used' = Used
    BY <1>6, <1>8
  <2>2. QED
    BY <1>4, <1>5, <2>1 DEF BookAccounts
<1>9. CASE e \notin Used
  <2>1. Accounts!Use(e)
    BY <1>4, <1>5, <1>6, <1>7, <1>9
     DEF Accounts!Use, Accounts!sessions, Accounts!accesses, BookSessions, BookAccesses
  <2>2. QED
    BY <1>1, <2>1
<1>10. QED
  BY <1>8, <1>9

LEMMA OpenedRow ==
  ASSUME TypeOK, NEW t \in Issued
  PROVE  /\ Opened[t] # None
         /\ Opened[t] = [farmer |-> tokens[t].farmer, from |-> lineage[t].from]
         /\ Opened[t].farmer = tokens[t].farmer
<1>1. /\ t \in Tokens /\ tokens[t] # None
      /\ tokens[t].farmer \in Emails /\ lineage[t] \in Lineage
  BY TokenShape DEF Issued
<1>2. lineage[t].from \in Tokens \cup {None}
  BY <1>1 DEF Lineage
<1>3. [farmer |-> tokens[t].farmer, from |-> lineage[t].from] # None
  BY <1>1, <1>2, OpenedAssumption
<1>4. QED
  BY <1>1, <1>3 DEF Opened

\* Who opened a session and what it continues stays written down.
LEMMA RewriteOpensNone ==
  ASSUME Rewritten, UNCHANGED lineage
  PROVE  Opened' = Opened
  BY DEF Rewritten, Opened

\* A token stays spent, so an update only ever ends sessions; if those it ends
\* are one farmer's, it is a step of the book.
LEMMA RewriteEnds ==
  ASSUME IInv, Rewritten, UNCHANGED <<accountVars, access, lineage>>,
         NEW e \in Emails,
         \A t \in Issued : tokens[t].expired => tokens'[t].expired,
         \A t \in Issued : tokens[t].farmer # e => tokens'[t] = tokens[t]
  PROVE  \E batch \in SUBSET Tokens : Accounts!EndRefresh(e, batch)
<1> DEFINE batch == Refreshable \ Refreshable'
<1>1. Issued' = Issued /\ Issued \subseteq Tokens
  BY DEF Rewritten, Issued
<1>2. Refreshable' \subseteq Refreshable
  BY <1>1 DEF Refreshable, Rewritten
<1>3. batch \subseteq Refreshable /\ Refreshable' = Refreshable \ batch
  BY <1>2
<1>4. \A t \in batch : t \in Issued /\ tokens[t].farmer = e
  BY <1>1 DEF Refreshable
<1>5. \A t \in batch : Opened[t].farmer = e
  BY <1>4, OpenedRow DEF IInv
<1>6. Opened' = Opened
  BY RewriteOpensNone
<1>7. UNCHANGED BookAccesses
  BY <1>1 DEF BookAccesses, Barred, Expired, Over
<1>8. UNCHANGED BookAccounts
  BY AccountsUntouched
<1>9. batch \in SUBSET Tokens
  BY <1>1, <1>3 DEF Refreshable
<1> HIDE DEF batch
<1>10. Accounts!EndRefresh(e, batch)
  BY <1>3, <1>5, <1>6, <1>7, <1>8
     DEF Accounts!EndRefresh, Accounts!accounts, Accounts!accesses, BookAccounts, BookAccesses
<1>11. QED
  BY <1>9, <1>10

\* A change of the one row t.
LEMMA RewriteOneEnds ==
  ASSUME IInv, NEW t \in Issued, Rewritten, UNCHANGED <<accountVars, access, lineage>>,
         tokens[t].expired => tokens'[t].expired,
         \A u \in Issued \ {t} : tokens'[u] = tokens[u]
  PROVE  \E e \in Emails, batch \in SUBSET Tokens : Accounts!EndRefresh(e, batch)
<1>1. tokens[t].farmer \in Emails
  BY TokenShape DEF IInv
<1>2. /\ \A u \in Issued : tokens[u].expired => tokens'[u].expired
      /\ \A u \in Issued : tokens[u].farmer # tokens[t].farmer => tokens'[u] = tokens[u]
  OBVIOUS
<1>3. \E batch \in SUBSET Tokens : Accounts!EndRefresh(tokens[t].farmer, batch)
  BY <1>1, <1>2, RewriteEnds
<1>4. QED
  BY <1>1, <1>3

LEMMA RevokingEnds ==
  ASSUME IInv, NEW t \in Issued, tokens' = [tokens EXCEPT ![t].revoked = TRUE],
         UNCHANGED <<accountVars, access, lineage>>
  PROVE  \E e \in Emails, batch \in SUBSET Tokens : Accounts!EndRefresh(e, batch)
<1>1. Rewritten
  BY RevokeRewrites DEF IInv
<1>2. tokens[t] \in RefreshToken /\ t \in Tokens
  BY TokenShape DEF IInv
<1>3. /\ tokens'[t] = [tokens[t] EXCEPT !.revoked = TRUE]
      /\ \A u \in Issued \ {t} : tokens'[u] = tokens[u]
  BY <1>2 DEF IInv, TypeOK, Issued
<1>4. tokens[t].expired => tokens'[t].expired
  BY <1>2, <1>3 DEF RefreshToken
<1>5. QED
  BY <1>1, <1>3, <1>4, RewriteOneEnds

\* A family is one token, so its revocation is that of one row.
LEMMA FamilyEnds ==
  ASSUME IInv, NEW r \in Requests, RevokeFamily(r)
  PROVE  \E e \in Emails, batch \in SUBSET Tokens : Accounts!EndRefresh(e, batch)
<1> DEFINE t == serving[r].token
<1>1. t \in Issued
  BY DEF RevokeFamily, At, IInv, RequestsTied, Tied
<1>2. \A u \in Tokens : (u \in Issued /\ tokens[u].family = tokens[t].family) <=> u = t
  BY <1>1 DEF IInv, OwnFamilies, Issued
<1>3. tokens' = [u \in Tokens |-> IF u = t THEN [tokens[u] EXCEPT !.revoked = TRUE]
                                           ELSE tokens[u]]
  BY <1>2 DEF RevokeFamily
<1>4. tokens' = [tokens EXCEPT ![t] = [tokens[t] EXCEPT !.revoked = TRUE]]
  BY <1>1, <1>3 DEF IInv, TypeOK, Issued
<1> HIDE DEF t
<1>5. QED
  BY <1>1, <1>4, RevokingEnds DEF RevokeFamily

LEMMA ExpiryEnds ==
  ASSUME IInv, NEW t \in Tokens, ExpireRefresh(t)
  PROVE  \E e \in Emails, batch \in SUBSET Tokens : Accounts!EndRefresh(e, batch)
<1> DEFINE row == [tokens[t] EXCEPT !.expired = TRUE]
<1>1. t \in Issued /\ tokens[t] \in RefreshToken
  BY TokenShape DEF ExpireRefresh, IInv
<1>2. /\ row \in RefreshToken /\ row.revoked = tokens[t].revoked
      /\ row.farmer = tokens[t].farmer /\ row.family = tokens[t].family
      /\ row.expired = TRUE
  BY <1>1 DEF RefreshToken
<1>3. tokens' = [tokens EXCEPT ![t] = row]
  BY DEF ExpireRefresh
<1> HIDE DEF row
<1>4. Rewritten
  BY <1>1, <1>2, <1>3, RewriteToken DEF IInv
<1>5. tokens'[t] = row /\ \A u \in Issued \ {t} : tokens'[u] = tokens[u]
  BY <1>3 DEF IInv, TypeOK, Issued
<1>6. QED
  BY <1>1, <1>2, <1>4, <1>5, RewriteOneEnds DEF ExpireRefresh

\* A step that changes the state of access tokens only.
LEMMA AccessOnly ==
  ASSUME UNCHANGED <<accountVars, tokens, lineage>>
  PROVE  UNCHANGED <<BookAccounts, Opened, Refreshable>>
<1>1. Opened' = Opened /\ Refreshable' = Refreshable
  BY DEF Opened, Refreshable, Issued
<1>2. QED
  BY <1>1, AccountsUntouched

\* A logout bars an access token that nothing has happened to, and no other.
LEMMA LogoutBars ==
  ASSUME IInv, NEW r \in Requests, NEW a \in Tokens, NEW t \in Tokens \cup {None},
         RevokeAccess(r, a, t)
  PROVE  Accounts!Bar(a) \/ UNCHANGED <<BookAccounts, BookSessions>>
<1>1. UNCHANGED <<BookAccounts, Opened, Refreshable>>
  BY AccessOnly DEF RevokeAccess
<1>5. tokens' = tokens
  BY DEF RevokeAccess
<1>2. CASE access[a] = "valid"
  <2>1. /\ access'[a] = "revoked" /\ \A u \in Tokens \ {a} : access'[u] = access[u]
        /\ a \in Issued
    BY <1>2 DEF RevokeAccess, IInv, TypeOK
  <2>2. Barred' = Barred \cup {a} /\ Expired' = Expired /\ Over' = Over
    BY <1>2, <1>5, <2>1 DEF Barred, Expired, Over, Issued
  <2>3. a \notin Barred \cup Expired
    BY <1>2 DEF Barred, Expired
  <2>4. Opened[a] # None
    BY OpenedRow DEF RevokeAccess, IInv, TypeOK
  <2>5. QED
    BY <1>1, <2>2, <2>3, <2>4 DEF Accounts!Bar, Accounts!accounts, BookAccounts
<1>3. CASE access[a] # "valid"
  <2>1. access' = access
    BY <1>3 DEF RevokeAccess, IInv, TypeOK
  <2>2. UNCHANGED BookAccesses
    BY <1>5, <2>1 DEF BookAccesses, Barred, Expired, Over, Issued
  <2>3. QED
    BY <1>1, <2>2 DEF BookSessions
<1>4. QED
  BY <1>2, <1>3

\* At its expiry an access token is not barred any more ...
LEMMA AccessExpires ==
  ASSUME IInv, NEW t \in Tokens, ExpireAccess(t)
  PROVE  Accounts!Expire(t)
<1>1. UNCHANGED <<BookAccounts, Opened, Refreshable>>
  BY AccessOnly DEF ExpireAccess
<1>2. /\ access[t] \in {"valid", "revoked"} /\ access'[t] = "late"
      /\ t \in Issued /\ Issued' = Issued /\ Issued \subseteq Tokens
      /\ \A u \in Tokens \ {t} : access'[u] = access[u]
  BY DEF ExpireAccess, IInv, TypeOK, Issued
<1>3. Barred' = Barred \ {t} /\ Expired' = Expired \cup {t} /\ Over' = Over
  BY <1>2 DEF Barred, Expired, Over
<1>4. t \notin Expired
  BY <1>2 DEF Expired
<1>5. Opened[t] # None
  BY OpenedRow DEF ExpireAccess, IInv
<1>6. QED
  BY <1>1, <1>3, <1>4, <1>5 DEF Accounts!Expire, Accounts!accounts, BookAccounts

\* ... and past the leeway it is over.
LEMMA AccessLapses ==
  ASSUME IInv, NEW t \in Tokens, LapseAccess(t)
  PROVE  Accounts!End(t)
<1>1. UNCHANGED <<BookAccounts, Opened, Refreshable>>
  BY AccessOnly DEF LapseAccess
<1>2. /\ access[t] = "late" /\ access'[t] = "lapsed"
      /\ t \in Issued /\ Issued' = Issued /\ Issued \subseteq Tokens
      /\ \A u \in Tokens \ {t} : access'[u] = access[u]
  BY DEF LapseAccess, IInv, TypeOK, Issued
<1>3. Barred' = Barred /\ Expired' = Expired /\ Over' = Over \cup {t}
  BY <1>2 DEF Barred, Expired, Over
<1>4. t \in Expired \ Over
  BY <1>2 DEF Expired, Over
<1>5. QED
  BY <1>1, <1>3, <1>4 DEF Accounts!End, Accounts!accounts, BookAccounts

\* A pair that is issued opens a session of a registered farmer, and continues
\* one of the same farmer that is spent.
LEMMA IssueOpens ==
  ASSUME IInv, NEW r \in Requests, Issue(r)
  PROVE  \E e \in Emails, s \in Tokens, from \in Tokens \cup {None} : Accounts!Open(s, e, from)
<1> DEFINE g == serving[r]
<1>1. /\ g # None /\ g.pc = "issue"
      /\ g.farmer \in Emails /\ g.from \in Tokens \cup {None}
  BY ServingShape DEF Issue, At, IInv
<1>2. /\ farmers[g.farmer] # None
      /\ g.from # None => /\ g.from \in Issued
                          /\ tokens[g.from].revoked
                          /\ tokens[g.from].farmer = g.farmer
  BY <1>1 DEF IInv, RequestsTied, Tied
<1>3. PICK t \in Tokens \ Issued :
        /\ tokens' = [tokens EXCEPT ![t] =
             [farmer |-> g.farmer, family |-> t, revoked |-> FALSE, expired |-> FALSE]]
        /\ access' = [access EXCEPT ![t] = "valid"]
        /\ lineage' = [lineage EXCEPT ![t] =
             [from  |-> g.from,
              first |-> IF g.from = None THEN t ELSE lineage[g.from].first]]
  BY DEF Issue, FamilyOf
<1> DEFINE row == [farmer |-> g.farmer, family |-> t, revoked |-> FALSE, expired |-> FALSE]
           line == [from  |-> g.from,
                    first |-> IF g.from = None THEN t ELSE lineage[g.from].first]
           e == g.farmer
           from == g.from
<1>4. /\ row \in RefreshToken /\ row.farmer = e
      /\ row.revoked = FALSE /\ row.expired = FALSE
  BY <1>1 DEF RefreshToken
<1>5. row # None /\ line.from = from
  BY <1>4, NoneAssumption
<1>6. /\ tokens'[t] = row /\ access'[t] = "valid" /\ lineage'[t] = line
      /\ \A u \in Tokens \ {t} :
           tokens'[u] = tokens[u] /\ access'[u] = access[u] /\ lineage'[u] = lineage[u]
  BY <1>3 DEF IInv, TypeOK
<1>7. /\ e \in Emails /\ from \in Tokens \cup {None} /\ t \in Tokens /\ tokens[t] = None
      /\ farmers[e] # None
      /\ from # None => /\ from \in Issued
                        /\ tokens[from].revoked
                        /\ tokens[from].farmer = e
  BY <1>1, <1>2, <1>3 DEF Issued
<1> HIDE DEF row, line, e, from
<1>8. Issued' = Issued \cup {t} /\ t \notin Issued
  BY <1>5, <1>6, <1>7 DEF Issued
<1>9. Opened' = [Opened EXCEPT ![t] = [farmer |-> e, from |-> from]]
  <2>1. [farmer |-> tokens'[t].farmer, from |-> lineage'[t].from] = [farmer |-> e, from |-> from]
    BY <1>4, <1>5, <1>6
  <2>2. Opened'[t] = [farmer |-> e, from |-> from]
    BY <1>5, <1>6, <1>7, <2>1 DEF Opened
  <2>3. \A u \in Tokens \ {t} : Opened'[u] = Opened[u]
    BY <1>6 DEF Opened
  <2>4. /\ Opened = [u \in Tokens |-> Opened[u]]
        /\ Opened' = [u \in Tokens |-> Opened'[u]]
    BY DEF Opened
  <2> HIDE DEF Opened
  <2>5. QED
    BY <1>7, <2>2, <2>3, <2>4
<1>10. Refreshable' = Refreshable \cup {t}
  <2>1. t \in Refreshable'
    BY <1>4, <1>6, <1>8 DEF Refreshable
  <2>2. ASSUME NEW u \in Tokens \ {t} PROVE u \in Refreshable' <=> u \in Refreshable
    BY <1>6, <1>8, <2>2 DEF Refreshable
  <2>3. Refreshable \subseteq Tokens /\ Refreshable' \subseteq Tokens
    BY DEF Refreshable, Issued
  <2>4. QED
    BY <1>7, <2>1, <2>2, <2>3
<1>11. UNCHANGED BookAccesses
  <2>1. \A u \in Issued : u # t /\ access'[u] = access[u]
    BY <1>6, <1>8 DEF Issued
  <2>2. QED
    BY <1>6, <1>8, <2>1 DEF BookAccesses, Barred, Expired, Over
<1>12. e \in Registered /\ Opened[t] = None
  BY <1>7 DEF Registered, Opened
<1>13. from # None => Accounts!Continues(from, e)
  <2>1. SUFFICES ASSUME from # None PROVE Accounts!Continues(from, e)
    OBVIOUS
  <2>2. from \notin Refreshable
    BY <1>7, <2>1 DEF Refreshable
  <2>3. Opened[from] # None /\ Opened[from].farmer = e
    BY <1>7, <2>1, OpenedRow DEF IInv
  <2>4. QED
    BY <2>2, <2>3 DEF Accounts!Continues
<1>14. UNCHANGED BookAccounts
  BY AccountsUntouched DEF Issue
<1>15. Accounts!Open(t, e, from)
  BY <1>9, <1>10, <1>11, <1>12, <1>13, <1>14
     DEF Accounts!Open, Accounts!accounts, Accounts!accesses, BookAccounts, BookAccesses
<1>16. QED
  BY <1>7, <1>15

LEMMA BookBegins == Init => Accounts!Init
<1> SUFFICES ASSUME Init PROVE Accounts!Init
  OBVIOUS
<1>1. Registered = {} /\ Verified = {}
  BY DEF Init, Registered, Verified
<1>2. Mailed = {} /\ Used = {}
  BY DEF Init, Mailed, Used
<1>3. Issued = {} /\ Opened = [t \in Tokens |-> None]
  BY DEF Init, Issued, Opened
<1>4. Refreshable = {}
  BY <1>3 DEF Refreshable
<1>5. Barred = {} /\ Expired = {} /\ Over = {}
  BY <1>3 DEF Barred, Expired, Over
<1>6. QED
  BY <1>1, <1>2, <1>3, <1>4, <1>5 DEF Accounts!Init

LEMMA StepIsBookStep ==
  ASSUME IInv, LinksTied, [Next]_vars
  PROVE  Accounts!Next \/ UNCHANGED <<BookAccounts, BookSessions>>
<1>1. ASSUME UNCHANGED accountVars, UNCHANGED tokenVars
      PROVE  UNCHANGED <<BookAccounts, BookSessions>>
  BY <1>1, AccountsUntouched, SessionsUntouched
<1>2. CASE AccountStep
  <2>1. ASSUME NEW r \in Requests, NEW e \in Emails,
               BeginRegister(r, e) \/ Login(r, e) \/ BeginVerify(r, e)
        PROVE  UNCHANGED <<BookAccounts, BookSessions>>
    BY <1>1, <2>1 DEF BeginRegister, Login, BeginVerify
  <2>2. ASSUME NEW r \in Requests, InsertFarmer(r)
        PROVE  Accounts!Next \/ UNCHANGED <<BookAccounts, BookSessions>>
    BY <2>2, InsertRegisters, SessionsUntouched DEF InsertFarmer, Accounts!Next
  <2>3. ASSUME NEW r \in Requests, StoreLink(r) PROVE Accounts!Next
    BY <2>3, StoreMails DEF Accounts!Next
  <2>4. ASSUME NEW r \in Requests, MarkVerified(r)
        PROVE  Accounts!Next \/ UNCHANGED <<BookAccounts, BookSessions>>
    BY <2>4, MarkVerifies, SessionsUntouched DEF MarkVerified, Accounts!Next
  <2>5. ASSUME NEW r \in Requests, DeleteLink(r)
        PROVE  Accounts!Next \/ UNCHANGED <<BookAccounts, BookSessions>>
    BY <2>5, DeleteUses, SessionsUntouched DEF DeleteLink, Accounts!Next
  <2>6. QED
    BY <1>2, <2>1, <2>2, <2>3, <2>4, <2>5 DEF AccountStep
<1>3. CASE TokenStep
  <2>1. ASSUME NEW r \in Requests, NEW t \in Tokens, BeginRefresh(r, t)
        PROVE  UNCHANGED <<BookAccounts, BookSessions>>
    BY <1>1, <2>1 DEF BeginRefresh
  <2>2. ASSUME NEW r \in Requests, NEW a \in Tokens, NEW t \in Tokens \cup {None},
               RevokeAccess(r, a, t)
        PROVE  Accounts!Next \/ UNCHANGED <<BookAccounts, BookSessions>>
    BY <2>2, LogoutBars DEF Accounts!Next
  <2>3. ASSUME NEW r \in Requests, Issue(r) PROVE Accounts!Next
    BY <2>3, IssueOpens DEF Accounts!Next
  <2>4. ASSUME NEW r \in Requests, Reply(r)
        PROVE  UNCHANGED <<BookAccounts, BookSessions>>
    BY <1>1, <2>4 DEF Reply
  <2>5. ASSUME NEW r \in Requests, RevokeFamily(r) PROVE Accounts!Next
    BY <2>5, FamilyEnds DEF Accounts!Next
  <2>6. ASSUME NEW r \in Requests, RevokeUsed(r) PROVE Accounts!Next
    <3>1. serving[r].token \in Issued
      BY <2>6 DEF RevokeUsed, At, IInv, RequestsTied, Tied
    <3>2. \E e \in Emails, batch \in SUBSET Tokens : Accounts!EndRefresh(e, batch)
      BY <2>6, <3>1, RevokingEnds DEF RevokeUsed
    <3>3. QED
      BY <3>2 DEF Accounts!Next
  <2>7. ASSUME NEW r \in Requests, RevokeRefresh(r)
        PROVE  Accounts!Next \/ UNCHANGED <<BookAccounts, BookSessions>>
    <3>1. CASE serving[r].token = None
      BY <1>1, <2>7, <3>1 DEF RevokeRefresh, tokenVars
    <3>2. CASE serving[r].token # None
      <4>1. serving[r].token \in Issued
        BY <2>7, <3>2 DEF RevokeRefresh, At, IInv, RequestsTied, Tied
      <4>2. \E e \in Emails, batch \in SUBSET Tokens : Accounts!EndRefresh(e, batch)
        BY <2>7, <3>2, <4>1, RevokingEnds DEF RevokeRefresh
      <4>3. QED
        BY <4>2 DEF Accounts!Next
    <3>3. QED
      BY <3>1, <3>2
  <2>8. QED
    BY <1>3, <2>1, <2>2, <2>3, <2>4, <2>5, <2>6, <2>7 DEF TokenStep
<1>4. CASE TimeStep
  <2>1. ASSUME NEW e \in Emails, ExpireLink(e)
        PROVE  UNCHANGED <<BookAccounts, BookSessions>>
    <3>1. farmers' = farmers /\ Used' = Used /\ Mailed' = Mailed
      BY <2>1 DEF ExpireLink, IInv, TypeOK, Used, Mailed
    <3>2. QED
      BY <2>1, <3>1, SessionsUntouched DEF ExpireLink, BookAccounts, Registered, Verified
  <2>2. ASSUME NEW t \in Tokens, ExpireRefresh(t) PROVE Accounts!Next
    BY <2>2, ExpiryEnds DEF Accounts!Next
  <2>3. ASSUME NEW t \in Tokens, ExpireAccess(t) \/ LapseAccess(t) PROVE Accounts!Next
    BY <2>3, AccessExpires, AccessLapses DEF Accounts!Next
  <2>4. QED
    BY <1>4, <2>1, <2>2, <2>3 DEF TimeStep
<1>5. CASE (\E r \in Requests : Drop(r)) \/ UNCHANGED vars
  BY <1>1, <1>5 DEF Drop, vars, accountVars, tokenVars
<1>6. QED
  BY <1>2, <1>3, <1>4, <1>5 DEF Next

\* Registration, login, refresh, logout and verification, however they overlap
\* and wherever they are dropped, keep the promise of AccountBook: an address
\* is registered and mailed once, a session belongs to one farmer for good and
\* is continued only when it is spent, a refresh token that has ended stays
\* ended, and a reused one ends sessions of its own farmer only; an access token
\* is barred until its expiry and no longer, and only past the leeway is it over
\* for good (issue_token_pair, refresh, logout, verify_email of auth.rs and
\* verify_access_token).
THEOREM SessionsImplementBook == Spec => ImplementsAccountBook
<1>1. Init => LinksTied /\ Accounts!Init
  BY BookBegins DEF Init, LinksTied, LinkTied, Registering, At
<1>2. IInv /\ LinksTied /\ [Next]_vars => LinksTied'
  BY LinksStayTied
<1>3. IInv /\ LinksTied /\ [Next]_vars =>
        [Accounts!Next]_<<Registered, Mailed, Verified, Used, Opened, Refreshable,
                          <<Barred, Expired, Over>>>>
  BY StepIsBookStep DEF BookAccounts, BookSessions, BookAccesses
<1>4. QED
  BY <1>1, <1>2, <1>3, InvariantHolds, PTL
     DEF Spec, ImplementsAccountBook, Accounts!Spec, Accounts!bookVars, Accounts!accesses

=============================================================================
