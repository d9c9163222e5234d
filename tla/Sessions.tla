------------------------------- MODULE Sessions -------------------------------
(***************************************************************************)
(* Farmers' accounts and sessions: registration, login, the rotation of    *)
(* refresh tokens, logout and the verification of an email address.  A     *)
(* handler is a sequence of statements to Postgres and Redis; others run   *)
(* between any two, and it may be dropped before any of them.              *)
(*                                                                         *)
(* An account is named by its email address, which is UNIQUE.  A session   *)
(* is a refresh token and the access token issued with it; both go by one  *)
(* name.  Passwords and token strings are opaque: a request is made with   *)
(* the right ones or refused without effect.                               *)
(***************************************************************************)
CONSTANTS
  Emails,     \* email addresses
  Tokens,     \* refresh tokens: a bound on the sessions one behaviour opens
  Requests,   \* requests that may be in flight together
  None        \* no row, an unused slot

VARIABLES
  farmers,    \* email -> its account, or None
  links,      \* email -> what has become of its verification link
  tokens,     \* refresh token -> its row, or None
  access,     \* refresh token -> the state of the access token issued with it
  held,       \* refresh tokens that have reached a client
  serving,    \* request -> the handler that serves it, or None
  lineage     \* history: refresh token -> the one it was exchanged for, and the first

accountVars == <<farmers, links>>
tokenVars == <<tokens, access, lineage>>
vars == <<accountVars, tokenVars, held, serving>>

Farmer == [verified : BOOLEAN]

\* "unsent": no verification_tokens row yet; "used": the row is deleted.
LinkStates == {"unsent", "valid", "expired", "used"}

\* "revoked": there is a Redis key, for as long as Redis keeps it.  "late": past
\* its expiry, for which the signature check allows a minute's leeway; the key of
\* a revoked one has expired.  "lapsed": past the leeway too.
AccessStates == {"valid", "revoked", "late", "lapsed"}

RefreshToken == [farmer : Emails, family : Tokens, revoked : BOOLEAN, expired : BOOLEAN]

Lineage == [from : Tokens \cup {None}, first : Tokens]

Serving ==
  [pc : {"insert", "verify", "unlink"}, farmer : Emails]
    \cup [pc : {"issue"}, farmer : Emails, from : Tokens \cup {None}, new : BOOLEAN]
    \cup [pc : {"link", "reply"}, farmer : Emails, token : Tokens]
    \cup [pc : {"spend", "spread"}, token : Tokens]
    \cup [pc : {"forget"}, access : Tokens, token : Tokens \cup {None}]

ASSUME NoneAssumption ==
  None \notin Tokens \cup Farmer \cup AccessStates \cup RefreshToken \cup Lineage \cup Serving

Issued == {t \in Tokens : tokens[t] # None}

At(r, pc) == serving[r] # None /\ serving[r].pc = pc

Goto(r, handler) == serving' = [serving EXCEPT ![r] = handler]

Return(r) == Goto(r, None)

Init ==
  /\ farmers = [e \in Emails |-> None]
  /\ links = [e \in Emails |-> "unsent"]
  /\ tokens = [t \in Tokens |-> None]
  /\ access = [t \in Tokens |-> None]
  /\ held = {}
  /\ serving = [r \in Requests |-> None]
  /\ lineage = [t \in Tokens |-> None]

-----------------------------------------------------------------------------
(***************************************************************************)
(* POST /auth/register and POST /auth/login                                *)
(***************************************************************************)

\* The address is looked up, then the password hashed ...
BeginRegister(r, e) ==
  /\ serving[r] = None
  /\ farmers[e] = None
  /\ Goto(r, [pc |-> "insert", farmer |-> e])
  /\ UNCHANGED <<accountVars, tokenVars, held>>

\* Mutant of InsertFarmer: email is not UNIQUE.
InsertAnyway(r) ==
  /\ At(r, "insert")
  /\ farmers' = [farmers EXCEPT ![serving[r].farmer] = [verified |-> FALSE]]
  /\ Goto(r, [pc |-> "issue", farmer |-> serving[r].farmer, from |-> None, new |-> TRUE])
  /\ UNCHANGED <<links, tokenVars, held>>

\* ... and the account inserted, if nobody else has in the meantime.
InsertFarmer(r) ==
  /\ At(r, "insert")
  /\ LET e == serving[r].farmer
     IN  \/ /\ farmers[e] = None
            /\ farmers' = [farmers EXCEPT ![e] = [verified |-> FALSE]]
            /\ Goto(r, [pc |-> "issue", farmer |-> e, from |-> None, new |-> TRUE])
         \/ /\ farmers[e] # None
            /\ UNCHANGED farmers
            /\ Return(r)
  /\ UNCHANGED <<links, tokenVars, held>>

\* Mutant of Login: any address will do.
LoginUnknown(r, e) ==
  /\ serving[r] = None
  /\ Goto(r, [pc |-> "issue", farmer |-> e, from |-> None, new |-> FALSE])
  /\ UNCHANGED <<accountVars, tokenVars, held>>

\* Login with the right password, up to the tokens.  A farmer need not be
\* verified.
Login(r, e) ==
  /\ serving[r] = None
  /\ farmers[e] # None
  /\ Goto(r, [pc |-> "issue", farmer |-> e, from |-> None, new |-> FALSE])
  /\ UNCHANGED <<accountVars, tokenVars, held>>

\* Every token starts a family: issue_token_pair draws a new family_id.
FamilyOf(t) == t

\* issue_token_pair, shared by register, login and refresh.
Issue(r) ==
  /\ At(r, "issue")
  /\ \E t \in Tokens \ Issued :
       LET h == serving[r]
       IN  /\ tokens' = [tokens EXCEPT ![t] =
                [farmer |-> h.farmer, family |-> FamilyOf(t),
                 revoked |-> FALSE, expired |-> FALSE]]
           /\ access' = [access EXCEPT ![t] = "valid"]
           /\ lineage' = [lineage EXCEPT ![t] =
                [from  |-> h.from,
                 first |-> IF h.from = None THEN t ELSE lineage[h.from].first]]
           /\ Goto(r, [pc |-> IF h.new THEN "link" ELSE "reply",
                       farmer |-> h.farmer, token |-> t])
  /\ UNCHANGED <<accountVars, held>>

\* The rest of register: the verification link, mailed by a spawned task.
StoreLink(r) ==
  /\ At(r, "link")
  /\ links' = [links EXCEPT ![serving[r].farmer] = "valid"]
  /\ Goto(r, [serving[r] EXCEPT !.pc = "reply"])
  /\ UNCHANGED <<farmers, tokenVars, held>>

Reply(r) ==
  /\ At(r, "reply")
  /\ held' = held \cup {serving[r].token}
  /\ Return(r)
  /\ UNCHANGED <<accountVars, tokenVars>>

-----------------------------------------------------------------------------
(***************************************************************************)
(* POST /auth/refresh                                                      *)
(***************************************************************************)

\* The token's row is read, and decides between an exchange, the revocation of
\* its family and, for an expired token, nothing.
BeginRefresh(r, t) ==
  /\ serving[r] = None
  /\ t \in held
  /\ \/ tokens[t].revoked /\ Goto(r, [pc |-> "spread", token |-> t])
     \/ /\ ~tokens[t].revoked /\ ~tokens[t].expired
        /\ Goto(r, [pc |-> "spend", token |-> t])
  /\ UNCHANGED <<accountVars, tokenVars, held>>

\* Mutant of RevokeFamily: the UPDATE does not ask for the family.
RevokeEvery(r) ==
  /\ At(r, "spread")
  /\ tokens' = [u \in Tokens |-> IF u \in Issued THEN [tokens[u] EXCEPT !.revoked = TRUE]
                                                ELSE None]
  /\ Return(r)
  /\ UNCHANGED <<accountVars, access, lineage, held>>

\* A reused token: its whole family is revoked.
RevokeFamily(r) ==
  /\ At(r, "spread")
  /\ LET t == serving[r].token
     IN  tokens' = [u \in Tokens |->
           IF u \in Issued /\ tokens[u].family = tokens[t].family
             THEN [tokens[u] EXCEPT !.revoked = TRUE]
             ELSE tokens[u]]
  /\ Return(r)
  /\ UNCHANGED <<accountVars, access, lineage, held>>

\* Mutant of RevokeUsed: the used token stays as it was.
KeepUsed(r) ==
  /\ At(r, "spend")
  /\ Goto(r, [pc |-> "issue", farmer |-> tokens[serving[r].token].farmer,
              from |-> serving[r].token, new |-> FALSE])
  /\ UNCHANGED <<accountVars, tokenVars, held>>

\* The used token is revoked, whatever has become of it, and then exchanged.
RevokeUsed(r) ==
  /\ At(r, "spend")
  /\ LET t == serving[r].token
     IN  /\ tokens' = [tokens EXCEPT ![t].revoked = TRUE]
         /\ Goto(r, [pc |-> "issue", farmer |-> tokens[t].farmer, from |-> t, new |-> FALSE])
  /\ UNCHANGED <<accountVars, access, lineage, held>>

-----------------------------------------------------------------------------
(***************************************************************************)
(* POST /auth/logout, by a client that names an access token it was given, *)
(* with the expiry it reads in that token, and perhaps a refresh token.    *)
(***************************************************************************)

\* Mutant of RevokeAccess: the failure of Redis is ignored.
SkipAccess(r, a, t) ==
  /\ serving[r] = None
  /\ a \in held
  /\ t \in held \cup {None}
  /\ Goto(r, [pc |-> "forget", access |-> a, token |-> t])
  /\ UNCHANGED <<accountVars, tokenVars, held>>

\* Redis: a key for as long as the access token has to live, so none for one that
\* is past its expiry ...
RevokeAccess(r, a, t) ==
  /\ serving[r] = None
  /\ a \in held
  /\ t \in held \cup {None}
  /\ access' = [access EXCEPT ![a] = IF @ = "valid" THEN "revoked" ELSE @]
  /\ Goto(r, [pc |-> "forget", access |-> a, token |-> t])
  /\ UNCHANGED <<accountVars, tokens, lineage, held>>

\* ... then Postgres: the refresh token, if there was one in the request.
RevokeRefresh(r) ==
  /\ At(r, "forget")
  /\ IF serving[r].token = None
       THEN UNCHANGED tokens
       ELSE tokens' = [tokens EXCEPT ![serving[r].token].revoked = TRUE]
  /\ Return(r)
  /\ UNCHANGED <<accountVars, access, lineage, held>>

-----------------------------------------------------------------------------
(***************************************************************************)
(* GET /auth/verify, with the token of a link.  A link without a row is    *)
(* answered with success and changes nothing.                              *)
(***************************************************************************)

BeginVerify(r, e) ==
  /\ serving[r] = None
  /\ links[e] = "valid"
  /\ Goto(r, [pc |-> "verify", farmer |-> e])
  /\ UNCHANGED <<accountVars, tokenVars, held>>

\* Mutant of MarkVerified: the link is deleted first.
DeleteFirst(r) ==
  /\ At(r, "verify")
  /\ links' = [links EXCEPT ![serving[r].farmer] = "used"]
  /\ Goto(r, [serving[r] EXCEPT !.pc = "unlink"])
  /\ UNCHANGED <<farmers, tokenVars, held>>

MarkVerified(r) ==
  /\ At(r, "verify")
  /\ farmers' = [farmers EXCEPT ![serving[r].farmer].verified = TRUE]
  /\ Goto(r, [serving[r] EXCEPT !.pc = "unlink"])
  /\ UNCHANGED <<links, tokenVars, held>>

DeleteLink(r) ==
  /\ At(r, "unlink")
  /\ links' = [links EXCEPT ![serving[r].farmer] = "used"]
  /\ Return(r)
  /\ UNCHANGED <<farmers, tokenVars, held>>

-----------------------------------------------------------------------------
\* The client goes away, a statement fails, or the server stops.
Drop(r) ==
  /\ serving[r] # None
  /\ Return(r)
  /\ UNCHANGED <<accountVars, tokenVars, held>>

\* Time passes: a refresh token, an access token or a link expires.
ExpireRefresh(t) ==
  /\ t \in Issued
  /\ ~tokens[t].expired
  /\ tokens' = [tokens EXCEPT ![t].expired = TRUE]
  /\ UNCHANGED <<accountVars, access, lineage, held, serving>>

ExpireAccess(t) ==
  /\ t \in Issued
  /\ access[t] \in {"valid", "revoked"}
  /\ access' = [access EXCEPT ![t] = "late"]
  /\ UNCHANGED <<accountVars, tokens, lineage, held, serving>>

LapseAccess(t) ==
  /\ t \in Issued
  /\ access[t] = "late"
  /\ access' = [access EXCEPT ![t] = "lapsed"]
  /\ UNCHANGED <<accountVars, tokens, lineage, held, serving>>

ExpireLink(e) ==
  /\ links[e] = "valid"
  /\ links' = [links EXCEPT ![e] = "expired"]
  /\ UNCHANGED <<farmers, tokenVars, held, serving>>

AccountStep ==
  \E r \in Requests :
    \/ \E e \in Emails : BeginRegister(r, e) \/ Login(r, e) \/ BeginVerify(r, e)
    \/ InsertFarmer(r)
    \/ StoreLink(r)
    \/ MarkVerified(r)
    \/ DeleteLink(r)

TokenStep ==
  \E r \in Requests :
    \/ \E t \in Tokens : BeginRefresh(r, t)
    \/ \E a \in Tokens, t \in Tokens \cup {None} : RevokeAccess(r, a, t)
    \/ Issue(r)
    \/ Reply(r)
    \/ RevokeFamily(r)
    \/ RevokeUsed(r)
    \/ RevokeRefresh(r)

TimeStep ==
  \/ \E t \in Tokens : ExpireRefresh(t) \/ ExpireAccess(t) \/ LapseAccess(t)
  \/ \E e \in Emails : ExpireLink(e)

Next == AccountStep \/ TokenStep \/ TimeStep \/ \E r \in Requests : Drop(r)

Spec == Init /\ [][Next]_vars

-----------------------------------------------------------------------------
(***************************************************************************)
(* Properties                                                              *)
(***************************************************************************)

\* Every row, request and history record is well formed, and the foreign keys
\* hold: tokens and links are those of accounts that exist.
TypeOK ==
  /\ farmers \in [Emails -> Farmer \cup {None}]
  /\ links \in [Emails -> LinkStates]
  /\ tokens \in [Tokens -> RefreshToken \cup {None}]
  /\ access \in [Tokens -> AccessStates \cup {None}]
  /\ held \subseteq Issued
  /\ serving \in [Requests -> Serving \cup {None}]
  /\ lineage \in [Tokens -> Lineage \cup {None}]
  /\ \A t \in Issued : farmers[tokens[t].farmer] # None /\ access[t] # None /\ lineage[t] # None
  /\ \A e \in Emails : links[e] # "unsent" => farmers[e] # None

\* Of all the requests that register one address at most one creates the
\* account: nobody else sets a link or gets tokens for a *new* account.
Registering(r, e) ==
  /\ serving[r] # None
  /\ \/ serving[r].pc = "link" /\ serving[r].farmer = e
     \/ serving[r].pc = "issue" /\ serving[r].new /\ serving[r].farmer = e

OneRegistration ==
  \A e \in Emails, r, s \in Requests : Registering(r, e) /\ Registering(s, e) => r = s

\* A token is spent before it is exchanged: wherever refresh is dropped, and
\* whoever else refreshes with the same token, a token that has a successor is
\* revoked, and the successor is the same farmer's.
ExchangedIsSpent ==
  \A t \in Issued :
    LET u == lineage[t].from
    IN  u # None => /\ u \in Issued
                    /\ tokens[u].revoked
                    /\ tokens[u].farmer = tokens[t].farmer

\* A logout is answered only when it is complete in both stores: the refresh
\* token, if it brought one, is revoked, and the access token has been given a
\* key, unless or until it got past its expiry.  From then on nothing but the
\* leeway is left of it, which no logout takes away.
LogoutComplete ==
  [][\A r \in Requests : RevokeRefresh(r) =>
       /\ serving[r].token # None => tokens'[serving[r].token].revoked
       /\ access[serving[r].access] \in {"revoked", "late", "lapsed"}]_vars

\* verify_email answers a link that has no row any more with success, without
\* looking at the farmer: true of every link that was used.
UsedMeansVerified == \A e \in Emails : links[e] = "used" => farmers[e].verified

\* The tables and Redis as the book of AccountBook sees them.
Registered == {e \in Emails : farmers[e] # None}

Mailed == {e \in Emails : links[e] # "unsent"}

Verified == {e \in Registered : farmers[e].verified}

Used == {e \in Emails : links[e] = "used"}

Opened == [t \in Tokens |->
  IF tokens[t] = None THEN None
                      ELSE [farmer |-> tokens[t].farmer, from |-> lineage[t].from]]

Refreshable == {t \in Issued : ~tokens[t].revoked /\ ~tokens[t].expired}

Barred == {t \in Issued : access[t] = "revoked"}

Expired == {t \in Issued : access[t] \in {"late", "lapsed"}}

Over == {t \in Issued : access[t] = "lapsed"}

ASSUME OpenedAssumption == None \notin [farmer : Emails, from : Tokens \cup {None}]

Accounts == INSTANCE AccountBook WITH
  Sessions <- Tokens, registered <- Registered, mailed <- Mailed, verified <- Verified,
  used <- Used, opened <- Opened, refreshable <- Refreshable,
  barred <- Barred, expired <- Expired, over <- Over

\* Overlapping and interrupted requests of all kinds together keep the promise
\* of accounts and sessions.
ImplementsAccountBook == Accounts!Spec

\* What the schema says of family_id and the comment in refresh of a reused
\* token: its reuse ends the rotation chain it belongs to.
ReuseEndsChain ==
  [][\A r \in Requests : RevokeFamily(r) =>
       \A u \in Issued : lineage[u].first = lineage[serving[r].token].first
                         => tokens'[u].revoked]_vars
=============================================================================
