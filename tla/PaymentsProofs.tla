--------------------------- MODULE PaymentsProofs ----------------------------
(***************************************************************************)
(* The safety properties of Payments for every set of orders, requests and *)
(* intents.  One inductive invariant, that types are kept and that every   *)
(* charge hangs on the chain IntentCustody, carries them all.              *)
(***************************************************************************)
EXTENDS Payments, TLAPS

IInv == TypeOK /\ IntentCustody

\* Pence of a NUMERIC(10,2) total is a whole number of pence.
LEMMA PenceNat == ASSUME NEW t \in Totals PROVE Pence(t) \in Nat
  BY TotalsAssumption DEF Pence

\* What a request in flight carries, by its step.
LEMMA AskingShape ==
  ASSUME TypeOK, NEW c \in Clients, asking[c] # None
  PROVE  /\ asking[c].key \in Keys
         /\ asking[c].pc \in {"create", "save", "reply"}
         /\ asking[c].pc # "create" =>
              /\ asking[c].intent \in Intents
              /\ asking[c] = [pc |-> asking[c].pc, key |-> asking[c].key,
                              intent |-> asking[c].intent]
  BY DEF TypeOK, Asking

\* An intent with a secret is the referenced intent of a stored order; every
\* event is about such an intent.
LEMMA SecretFacts ==
  ASSUME IInv, NEW i \in Intents, i \in secrets
  PROVE  /\ intents[i] \in Intent
         /\ intents[i].key \in Keys
         /\ reference[intents[i].key] = i
         /\ orders[intents[i].key] \in OrderRow
         /\ intents[i].amount = Pence(orders[intents[i].key].total)
<1>1. intents[i] # None /\ reference[intents[i].key] = i
  BY DEF IInv, IntentCustody, SecretsReferenced
<1>2. intents[i] \in Intent /\ intents[i].key \in Keys
  BY <1>1 DEF IInv, TypeOK, Intent
<1>3. MadeFor(i, intents[i].key)
  <2>1. reference[intents[i].key] # None
    BY <1>1, NoneAssumption
  <2>2. MadeFor(reference[intents[i].key], intents[i].key)
    BY <1>2, <2>1 DEF IInv, IntentCustody, HeldIntents
  <2>3. QED
    BY <1>1, <2>2
<1>4. QED
  BY <1>1, <1>2, <1>3 DEF MadeFor, IInv, TypeOK

LEMMA EventFacts ==
  ASSUME IInv, NEW i \in Intents, NEW type \in {"succeeded", "payment_failed"},
         [type |-> type, intent |-> i] \in events
  PROVE  i \in secrets /\ (type = "succeeded" => intents[i].captured)
  BY DEF IInv, IntentCustody, ChargesHaveSecrets

-----------------------------------------------------------------------------
(***************************************************************************)
(* The writers of the orders table.                                        *)
(***************************************************************************)

\* What every UPDATE of order k does to the table: it stays well formed, no
\* order appears or goes, and every total is as it was.
Rewritten(k) ==
  /\ orders' \in [Keys -> OrderRow \cup {None}]
  /\ \A j \in Keys :
       /\ orders'[j] = None <=> orders[j] = None
       /\ orders[j] # None => orders'[j].total = orders[j].total
       /\ j # k => orders'[j] = orders[j]

LEMMA RewriteRow ==
  ASSUME TypeOK, NEW k \in Keys, NEW row \in OrderRow,
         orders[k] # None, row.total = orders[k].total,
         orders' = [orders EXCEPT ![k] = row]
  PROVE  Rewritten(k)
  BY NoneAssumption DEF TypeOK, Rewritten

LEMMA SetStatusRewrites ==
  ASSUME TypeOK, NEW k \in Keys, NEW status \in FarmerStatuses,
         orders[k] # None, orders' = [orders EXCEPT ![k].status = status]
  PROVE  Rewritten(k) /\ orders'[k].payment = orders[k].payment
<1> DEFINE row == [orders[k] EXCEPT !.status = status]
<1>1. orders[k] \in OrderRow
  BY DEF TypeOK
<1>2. row \in OrderRow /\ row.total = orders[k].total /\ row.payment = orders[k].payment
  BY <1>1 DEF OrderRow
<1>3. orders' = [orders EXCEPT ![k] = row] /\ orders'[k] = row
  BY DEF TypeOK
<1>4. QED
  BY <1>2, <1>3, RewriteRow

LEMMA SucceededRewrites ==
  ASSUME IInv, NEW i \in Intents, Succeeded(i)
  PROVE  /\ i \in secrets
         /\ intents[i].captured
         /\ Rewritten(intents[i].key)
         /\ orders'[intents[i].key].payment = "paid"
<1> DEFINE k == intents[i].key
           row == [orders[k] EXCEPT !.payment = "paid", !.status = "confirmed"]
<1>1. i \in secrets /\ intents[i].captured
  BY EventFacts DEF Succeeded
<1>2. k \in Keys /\ orders[k] \in OrderRow
  BY <1>1, SecretFacts
<1>3. row \in OrderRow /\ row.total = orders[k].total /\ row.payment = "paid"
  BY <1>2 DEF OrderRow, FarmerStatuses
<1>4. orders' = [orders EXCEPT ![k] = row] /\ orders'[k] = row
  BY <1>2 DEF Succeeded, Finds, MarkPaid, IInv, TypeOK
<1>5. orders[k] # None
  BY DEF Succeeded, Finds
<1>6. QED
  BY <1>1, <1>2, <1>3, <1>4, <1>5, RewriteRow DEF IInv

LEMMA FailedRewrites ==
  ASSUME IInv, NEW i \in Intents, PaymentFailed(i)
  PROVE  /\ intents[i].key \in Keys
         /\ Rewritten(intents[i].key)
         /\ orders'[intents[i].key].payment = "failed"
<1> DEFINE k == intents[i].key
           row == [orders[k] EXCEPT !.payment = "failed"]
<1>1. i \in secrets
  BY EventFacts DEF PaymentFailed
<1>2. k \in Keys /\ orders[k] \in OrderRow
  BY <1>1, SecretFacts
<1>3. row \in OrderRow /\ row.total = orders[k].total /\ row.payment = "failed"
  BY <1>2 DEF OrderRow
<1>4. orders' = [orders EXCEPT ![k] = row] /\ orders'[k] = row
  BY <1>2 DEF PaymentFailed, Finds, IInv, TypeOK
<1>5. orders[k] # None
  BY DEF PaymentFailed, Finds
<1>6. QED
  BY <1>2, <1>3, <1>4, <1>5, RewriteRow DEF IInv

\* Stored orders stay, with their totals.
OrdersKept ==
  \A j \in Keys : orders[j] # None =>
    orders'[j] # None /\ orders'[j].total = orders[j].total

\* The chain does not depend on the columns that writers of orders change.
LEMMA KeptCustody ==
  ASSUME IInv, OrdersKept, UNCHANGED <<reference, asking, providerVars>>
  PROVE  IntentCustody'
<1>1. AskedPlaced'
  BY AskingShape DEF IInv, IntentCustody, AskedPlaced, OrdersKept
<1>2. HeldIntents'
  <2>1. ASSUME NEW j \in Keys, NEW i, MadeFor(i, j) PROVE MadeFor(i, j)'
    BY <2>1 DEF MadeFor, OrdersKept, providerVars
  <2>2. ASSUME NEW j \in Keys
        PROVE  /\ reference'[j] # None => MadeFor(reference[j], j)
               /\ retained'[j] # None => MadeFor(retained[j], j)
    BY DEF IInv, IntentCustody, HeldIntents, providerVars
  <2>3. ASSUME NEW c \in Clients, asking[c] # None, asking[c].pc # "create"
        PROVE  asking[c].key \in Keys /\ MadeFor(asking[c].intent, asking[c].key)
    BY <2>3, AskingShape DEF IInv, IntentCustody, HeldIntents
  <2>4. QED
    BY <2>1, <2>2, <2>3 DEF HeldIntents, MadeFor, providerVars
<1>3. OneIntentInFlight' /\ SecretsReferenced' /\ ChargesHaveSecrets'
  BY DEF IInv, IntentCustody, OneIntentInFlight, SecretsReferenced, ChargesHaveSecrets,
         providerVars
<1>4. QED
  BY <1>1, <1>2, <1>3 DEF IntentCustody

\* Every step of the order elsewhere keeps the invariant.
LEMMA OrderStepInv == ASSUME IInv, OrderStep PROVE IInv'
<1>1. ASSUME NEW k \in Keys, NEW total \in Totals, PlaceOrder(k, total) PROVE IInv'
  <2>1. OrdersKept /\ TypeOK'
    BY <1>1, NoneAssumption DEF PlaceOrder, OrdersKept, OrderRow, IInv, TypeOK, providerVars
  <2>2. QED
    BY <1>1, <2>1, KeptCustody DEF PlaceOrder, IInv
<1>2. ASSUME NEW k \in Keys, NEW status \in Requested, SetStatus(k, status) PROVE IInv'
  <2>1. Rewritten(k)
    BY <1>2, SetStatusRewrites, RequestedAssumption DEF SetStatus, IInv
  <2>2. OrdersKept /\ TypeOK'
    BY <1>2, <2>1 DEF SetStatus, Rewritten, OrdersKept, IInv, TypeOK, providerVars
  <2>3. QED
    BY <1>2, <2>2, KeptCustody DEF SetStatus, IInv
<1>3. ASSUME NEW k \in Keys, CancelStale(k) PROVE IInv'
  <2>1. Rewritten(k)
    BY <1>3, SetStatusRewrites DEF CancelStale, IInv, FarmerStatuses
  <2>2. OrdersKept /\ TypeOK'
    BY <1>3, <2>1 DEF CancelStale, Rewritten, OrdersKept, IInv, TypeOK, providerVars
  <2>3. QED
    BY <1>3, <2>2, KeptCustody DEF CancelStale, IInv
<1>4. QED
  BY <1>1, <1>2, <1>3 DEF OrderStep

\* Every step of the webhook keeps the invariant.
LEMMA WebhookStepInv == ASSUME IInv, WebhookStep PROVE IInv'
<1>1. ASSUME NEW i \in Intents, Succeeded(i) PROVE IInv'
  <2>1. Rewritten(intents[i].key) /\ intents[i].key \in Keys
    BY <1>1, SucceededRewrites, SecretFacts
  <2>2. OrdersKept /\ TypeOK'
    BY <1>1, <2>1 DEF Succeeded, MarkPaid, Rewritten, OrdersKept, IInv, TypeOK, providerVars
  <2>3. QED
    BY <1>1, <2>2, KeptCustody DEF Succeeded, MarkPaid, IInv
<1>2. ASSUME NEW i \in Intents, PaymentFailed(i) PROVE IInv'
  <2>1. Rewritten(intents[i].key)
    BY <1>2, FailedRewrites
  <2>2. OrdersKept /\ TypeOK'
    BY <1>2, <2>1 DEF PaymentFailed, Rewritten, OrdersKept, IInv, TypeOK, providerVars
  <2>3. QED
    BY <1>2, <2>2, KeptCustody DEF PaymentFailed, IInv
<1>3. ASSUME NEW k \in Keys, SendConfirmation(k) \/ DropConfirmation(k) PROVE IInv'
  <2>1. OrdersKept /\ TypeOK'
    BY <1>3 DEF SendConfirmation, DropConfirmation, OrdersKept, IInv, TypeOK, providerVars
  <2>2. QED
    BY <1>3, <2>1, KeptCustody DEF SendConfirmation, DropConfirmation, IInv
<1>4. QED
  BY <1>1, <1>2, <1>3 DEF WebhookStep

-----------------------------------------------------------------------------
(***************************************************************************)
(* The requests for an intent, and the provider.                           *)
(***************************************************************************)

\* The parts of the chain, one by one.
LEMMA Links ==
  IInv <=> /\ TypeOK
           /\ AskedPlaced
           /\ HeldIntents
           /\ OneIntentInFlight
           /\ SecretsReferenced
           /\ ChargesHaveSecrets
  BY DEF IInv, IntentCustody

LEMMA BeginIntentInv ==
  ASSUME IInv, NEW c \in Clients, NEW k \in Keys, BeginIntent(c, k)
  PROVE  IInv'
<1> USE Links DEF BeginIntent, providerVars
<1>1. TypeOK'
  BY DEF TypeOK, Asking
<1>2. AskedPlaced'
  <2>1. asking'[c].key = k /\ \A d \in Clients \ {c} : asking'[d] = asking[d]
    BY DEF TypeOK
  <2>2. QED
    BY <2>1 DEF AskedPlaced
<1>3. HeldIntents'
  BY DEF TypeOK, HeldIntents, MadeFor
<1>4. OneIntentInFlight'
  BY DEF TypeOK, OneIntentInFlight
<1>5. SecretsReferenced' /\ ChargesHaveSecrets'
  BY DEF SecretsReferenced, ChargesHaveSecrets
<1>6. QED
  BY <1>1, <1>2, <1>3, <1>4, <1>5, Links DEF IInv, IntentCustody

LEMMA SaveReferenceInv ==
  ASSUME IInv, NEW c \in Clients, SaveReference(c)
  PROVE  IInv'
<1> DEFINE k == asking[c].key
           i == asking[c].intent
<1> USE DEF SaveReference, providerVars
<1>1. k \in Keys /\ i \in Intents
  BY AskingShape, Links
<1>2. /\ MadeFor(i, k)
      /\ retained[k] = i
      /\ reference[k] \in {None, i}
  BY <1>1, Links DEF HeldIntents, OneIntentInFlight
<1>3. /\ asking'[c] = [pc |-> "reply", key |-> k, intent |-> i]
      /\ \A d \in Clients \ {c} : asking'[d] = asking[d]
      /\ asking' \in [Clients -> Asking \cup {None}]
  BY <1>1, Links, AskingShape DEF TypeOK, Asking
<1>4. /\ reference' \in [Keys -> Intents \cup {None}]
      /\ reference'[k] = i
      /\ \A j \in Keys \ {k} : reference'[j] = reference[j]
  BY <1>1, Links DEF TypeOK
<1>5. TypeOK'
  BY <1>3, <1>4, Links DEF TypeOK
<1>6. AskedPlaced'
  <2>1. \A d \in Clients : asking'[d] # None => asking[d] # None /\ asking'[d].key = asking[d].key
    BY <1>3
  <2>2. QED
    BY <2>1, Links DEF AskedPlaced
<1>7. HeldIntents'
  BY <1>2, <1>3, <1>4, Links DEF HeldIntents, MadeFor
<1>8. OneIntentInFlight'
  <2> SUFFICES ASSUME NEW d \in Clients, asking'[d] # None
               PROVE  LET j == asking'[d].key
                      IN  /\ asking'[d].pc = "create" => reference'[j] \in {None, retained[j]}
                          /\ asking'[d].pc = "save" =>
                               /\ retained[j] = asking'[d].intent
                               /\ reference'[j] \in {None, asking'[d].intent}
                          /\ asking'[d].pc = "reply" => reference'[j] = asking'[d].intent
    BY DEF OneIntentInFlight
  <2>1. CASE d = c
    BY <2>1, <1>3, <1>4
  <2>2. CASE d # c /\ asking[d].key # k
    BY <2>2, <1>3, <1>4, Links, AskingShape DEF OneIntentInFlight
  <2>3. CASE d # c /\ asking[d].key = k
    <3>1. asking'[d] = asking[d] /\ asking[d].pc \in {"create", "save", "reply"}
      BY <2>3, <1>3, Links, AskingShape
    <3>2. asking[d].pc = "reply" => asking[d].intent \in Intents
      BY <3>1, Links, AskingShape
    <3>3. asking[d].pc = "reply" => reference[k] = asking[d].intent
      BY <2>3, <3>1, Links DEF OneIntentInFlight
    <3>4. asking[d].pc = "save" => retained[k] = asking[d].intent
      BY <2>3, <3>1, Links DEF OneIntentInFlight
    <3>5. QED
      BY <2>3, <3>1, <3>2, <3>3, <3>4, <1>2, <1>4, NoneAssumption
  <2>4. QED
    BY <2>1, <2>2, <2>3
<1>9. SecretsReferenced'
  <2> SUFFICES ASSUME NEW j \in secrets
               PROVE  intents[j] # None /\ reference'[intents[j].key] = j
    BY DEF SecretsReferenced
  <2>1. j \in Intents /\ intents[j] # None /\ reference[intents[j].key] = j
    BY Links DEF TypeOK, SecretsReferenced
  <2>2. intents[j].key \in Keys
    BY <2>1, Links DEF TypeOK, Intent
  <2>3. QED
    BY <2>1, <2>2, <1>2, <1>4, NoneAssumption
<1>10. ChargesHaveSecrets'
  BY Links DEF ChargesHaveSecrets
<1>11. QED
  BY <1>5, <1>6, <1>7, <1>8, <1>9, <1>10 DEF IInv, IntentCustody

\* The provider's answer is an intent made for the order, retained under its key.
LEMMA IntentForFacts ==
  ASSUME IInv, NEW k \in Keys, NEW i \in Intents, orders[k] # None,
         IntentFor(k, i)
  PROVE  /\ intents' \in [Intents -> Intent \cup {None}]
         /\ retained' \in [Keys -> Intents \cup {None}]
         /\ retained'[k] = i
         /\ retained[k] # None => retained' = retained /\ retained[k] = i
         /\ \A j \in Keys \ {k} : retained'[j] = retained[j]
         /\ \A j \in Intents : intents[j] # None => intents'[j] = intents[j]
         /\ \A j \in Intents : j # i => intents'[j] = intents[j]
         /\ intents[i] = None => ~intents'[i].captured
         /\ intents'[i] # None
         /\ intents'[i].key = k
         /\ intents'[i].amount = Pence(orders[k].total)
<1>1. CASE retained[k] = i /\ UNCHANGED <<intents, retained>>
  <2>1. MadeFor(i, k)
    BY <1>1, Links, NoneAssumption DEF HeldIntents
  <2>2. QED
    BY <1>1, <2>1, Links DEF TypeOK, MadeFor
<1>2. CASE /\ retained[k] = None
           /\ NewIntent(k, i)
           /\ retained' = [retained EXCEPT ![k] = i]
  <2>1. [key |-> k, amount |-> Pence(orders[k].total), captured |-> FALSE] \in Intent
    <3>1. orders[k].total \in Totals
      BY Links DEF TypeOK, OrderRow
    <3>2. QED
      BY <3>1, PenceNat DEF Intent
  <2>2. QED
    BY <1>2, <2>1, Links, NoneAssumption DEF NewIntent, TypeOK
<1>3. QED
  BY <1>1, <1>2 DEF IntentFor

LEMMA CreateIntentInv ==
  ASSUME IInv, NEW c \in Clients, NEW i \in Intents, CreateIntent(c, i)
  PROVE  IInv'
<1> DEFINE k == asking[c].key
<1> USE DEF CreateIntent
<1>1. k \in Keys /\ orders[k] # None
  BY AskingShape, Links DEF AskedPlaced
<1>2. IntentFor(k, i)
  OBVIOUS
<1>3. /\ intents' \in [Intents -> Intent \cup {None}]
      /\ retained' \in [Keys -> Intents \cup {None}]
      /\ retained'[k] = i
      /\ retained[k] # None => retained' = retained /\ retained[k] = i
      /\ \A j \in Keys \ {k} : retained'[j] = retained[j]
      /\ \A j \in Intents : intents[j] # None => intents'[j] = intents[j]
      /\ \A j \in Intents : j # i => intents'[j] = intents[j]
      /\ intents[i] = None => ~intents'[i].captured
      /\ intents'[i] # None
      /\ intents'[i].key = k
      /\ intents'[i].amount = Pence(orders[k].total)
  BY <1>1, <1>2, IntentForFacts
<1>4. /\ asking'[c] = [pc |-> "save", key |-> k, intent |-> i]
      /\ \A d \in Clients \ {c} : asking'[d] = asking[d]
      /\ asking' \in [Clients -> Asking \cup {None}]
  BY <1>1, Links DEF TypeOK, Asking
<1>5. reference[k] \in {None, retained[k]}
  BY Links DEF OneIntentInFlight
<1>6. TypeOK'
  BY <1>3, <1>4, Links DEF TypeOK
<1>7. AskedPlaced'
  BY <1>1, <1>4, Links DEF AskedPlaced
<1>8. ASSUME NEW j \in Intents, NEW m \in Keys, MadeFor(j, m) PROVE MadeFor(j, m)'
  BY <1>3, <1>8 DEF MadeFor
<1>9. MadeFor(i, k)'
  BY <1>1, <1>3 DEF MadeFor
<1>10. HeldIntents'
  <2>1. ASSUME NEW m \in Keys, reference'[m] # None PROVE MadeFor(reference[m], m)'
    BY <2>1, <1>8, Links DEF HeldIntents, TypeOK
  <2>2. ASSUME NEW m \in Keys, retained'[m] # None PROVE MadeFor(retained[m], m)'
    <3>1. CASE m = k
      BY <3>1, <1>3, <1>9 DEF MadeFor
    <3>2. CASE m # k
      <4>1. retained'[m] = retained[m] /\ retained[m] \in Intents
        BY <2>2, <3>2, <1>3, Links DEF TypeOK
      <4>2. MadeFor(retained[m], m)
        BY <4>1, <2>2, Links DEF HeldIntents
      <4>3. QED
        BY <4>1, <4>2, <1>3 DEF MadeFor
    <3>3. QED
      BY <3>1, <3>2
  <2>3. ASSUME NEW d \in Clients, asking'[d] # None, asking'[d].pc # "create"
        PROVE  MadeFor(asking[d].intent, asking[d].key)'
    <3>1. CASE d = c
      BY <3>1, <1>4, <1>9 DEF MadeFor
    <3>2. CASE d # c
      <4>1. asking'[d] = asking[d] /\ asking[d].intent \in Intents
        BY <2>3, <3>2, <1>4, AskingShape, Links
      <4>2. MadeFor(asking[d].intent, asking[d].key)
        BY <4>1, <2>3, Links DEF HeldIntents
      <4>3. QED
        BY <4>1, <4>2, <1>3 DEF MadeFor
    <3>3. QED
      BY <3>1, <3>2
  <2>4. QED
    BY <2>1, <2>2, <2>3 DEF HeldIntents
<1>11. OneIntentInFlight'
  <2> SUFFICES ASSUME NEW d \in Clients, asking'[d] # None
               PROVE  LET j == asking'[d].key
                      IN  /\ asking'[d].pc = "create" => reference[j] \in {None, retained'[j]}
                          /\ asking'[d].pc = "save" =>
                               /\ retained'[j] = asking'[d].intent
                               /\ reference[j] \in {None, asking'[d].intent}
                          /\ asking'[d].pc = "reply" => reference[j] = asking'[d].intent
    BY DEF OneIntentInFlight
  <2>1. CASE d = c
    BY <2>1, <1>3, <1>4, <1>5
  <2>2. CASE d # c
    <3>1. asking'[d] = asking[d] /\ asking[d].key \in Keys
      BY <2>2, <1>4, AskingShape, Links
    <3>2. /\ asking[d].pc = "create" =>
               reference[asking[d].key] \in {None, retained[asking[d].key]}
          /\ asking[d].pc = "save" =>
               /\ retained[asking[d].key] = asking[d].intent
               /\ reference[asking[d].key] \in {None, asking[d].intent}
          /\ asking[d].pc = "reply" => reference[asking[d].key] = asking[d].intent
      BY <3>1, Links DEF OneIntentInFlight
    <3>3. asking[d].pc = "save" => asking[d].intent # None
      BY <3>1, AskingShape, Links, NoneAssumption
    <3>4. QED
      BY <3>1, <3>2, <3>3, <1>3
  <2>3. QED
    BY <2>1, <2>2
<1>12. SecretsReferenced'
  BY <1>3, Links DEF TypeOK, SecretsReferenced
<1>13. ChargesHaveSecrets'
  <2>1. ASSUME NEW j \in Intents, intents'[j] # None, intents'[j].captured
        PROVE  j \in secrets
    BY <2>1, <1>3, Links DEF ChargesHaveSecrets
  <2>2. ASSUME NEW e \in events
        PROVE  e.intent \in secrets /\ (e.type = "succeeded" => intents'[e.intent].captured)
    <3>1. e.intent \in secrets /\ (e.type = "succeeded" => intents[e.intent].captured)
      BY Links DEF ChargesHaveSecrets
    <3>2. intents[e.intent] # None /\ e.intent \in Intents
      BY <3>1, Links DEF SecretsReferenced, TypeOK
    <3>3. QED
      BY <3>1, <3>2, <1>3
  <2>3. QED
    BY <2>1, <2>2 DEF ChargesHaveSecrets
<1>14. QED
  BY <1>6, <1>7, <1>10, <1>11, <1>12, <1>13 DEF IInv, IntentCustody

\* A secret leaves with an intent that the order refers to.
LEMMA ReplyIntentInv ==
  ASSUME IInv, NEW c \in Clients, ReplyIntent(c)
  PROVE  IInv'
<1> DEFINE k == asking[c].key
           i == asking[c].intent
<1> USE DEF ReplyIntent
<1>1. k \in Keys /\ i \in Intents
  BY AskingShape, Links
<1>2. MadeFor(i, k) /\ reference[k] = i
  BY Links DEF HeldIntents, OneIntentInFlight
<1>3. TypeOK'
  BY <1>1, Links DEF TypeOK
<1>4. \A d \in Clients : asking'[d] # None => asking'[d] = asking[d]
  BY Links DEF TypeOK
<1>5. AskedPlaced'
  BY <1>4, Links DEF AskedPlaced
<1>6. HeldIntents'
  BY <1>4, Links DEF HeldIntents, MadeFor
<1>7. OneIntentInFlight'
  BY <1>4, Links DEF OneIntentInFlight
<1>8. SecretsReferenced'
  BY <1>2, Links DEF SecretsReferenced, MadeFor
<1>9. ChargesHaveSecrets'
  BY Links DEF ChargesHaveSecrets
<1>10. QED
  BY <1>3, <1>5, <1>6, <1>7, <1>8, <1>9 DEF IInv, IntentCustody

LEMMA DropIntentInv ==
  ASSUME IInv, NEW c \in Clients, DropIntent(c)
  PROVE  IInv'
<1> USE DEF DropIntent, providerVars
<1>1. TypeOK'
  BY Links DEF TypeOK
<1>2. \A d \in Clients : asking'[d] # None => asking'[d] = asking[d]
  BY Links DEF TypeOK
<1>3. AskedPlaced'
  BY <1>2, Links DEF AskedPlaced
<1>4. HeldIntents'
  BY <1>2, Links DEF HeldIntents, MadeFor
<1>5. OneIntentInFlight'
  BY <1>2, Links DEF OneIntentInFlight
<1>6. SecretsReferenced' /\ ChargesHaveSecrets'
  BY Links DEF SecretsReferenced, ChargesHaveSecrets
<1>7. QED
  BY <1>1, <1>3, <1>4, <1>5, <1>6 DEF IInv, IntentCustody

\* The three steps of the provider outside the requests.
LEMMA ProviderStepInv == ASSUME IInv, ProviderStep PROVE IInv'
<1>1. ASSUME NEW i \in Intents, Capture(i) PROVE IInv'
  <2> USE <1>1 DEF Capture, Payable, backendVars
  <2>1. intents[i] \in Intent
    BY Links DEF TypeOK
  <2> DEFINE paid == [intents[i] EXCEPT !.captured = TRUE]
  <2>2. /\ paid \in Intent
        /\ paid.key = intents[i].key
        /\ paid.amount = intents[i].amount
        /\ paid.captured
    BY <2>1 DEF Intent
  <2>3. intents' = [intents EXCEPT ![i] = paid]
    OBVIOUS
  <2>4. /\ intents'[i] = paid
        /\ \A j \in Intents : j # i => intents'[j] = intents[j]
        /\ intents' \in [Intents -> Intent \cup {None}]
    BY <2>2, <2>3, Links DEF TypeOK
  <2>5. paid # None
    BY <2>2, NoneAssumption
  <2>6. /\ intents' \in [Intents -> Intent \cup {None}]
        /\ \A j \in Intents :
             /\ j # i => intents'[j] = intents[j]
             /\ intents[j] # None => intents'[j] # None
             /\ intents'[j].key = intents[j].key
             /\ intents'[j].amount = intents[j].amount
        /\ intents'[i].captured
    BY <2>2, <2>4, <2>5
  <2>7. TypeOK'
    BY <2>6, Links DEF TypeOK, Event
  <2>8. AskedPlaced' /\ OneIntentInFlight'
    BY Links DEF AskedPlaced, OneIntentInFlight
  <2>9. ASSUME NEW j \in Intents, NEW k \in Keys, MadeFor(j, k) PROVE MadeFor(j, k)'
    BY <2>6, <2>9 DEF MadeFor
  <2>10. HeldIntents'
    <3>1. ASSUME NEW k \in Keys
          PROVE  /\ reference'[k] # None => MadeFor(reference[k], k)'
                 /\ retained'[k] # None => MadeFor(retained[k], k)'
      BY <2>9, Links DEF HeldIntents, TypeOK
    <3>2. ASSUME NEW c \in Clients, asking[c] # None, asking[c].pc # "create"
          PROVE  MadeFor(asking[c].intent, asking[c].key)'
      BY <3>2, <2>9, AskingShape, Links DEF HeldIntents
    <3>3. QED
      BY <3>1, <3>2 DEF HeldIntents
  <2>11. SecretsReferenced'
    BY <2>6, Links DEF SecretsReferenced, TypeOK
  <2>12. ChargesHaveSecrets'
    <3>1. ASSUME NEW j \in Intents, intents'[j] # None, intents'[j].captured
          PROVE  j \in secrets
      BY <3>1, <2>6, Links DEF ChargesHaveSecrets
    <3>2. ASSUME NEW e \in events'
          PROVE  e.intent \in secrets /\ (e.type = "succeeded" => intents'[e.intent].captured)
      <4>1. CASE e \in events
        BY <4>1, <2>6, Links DEF ChargesHaveSecrets, TypeOK
      <4>2. CASE e = [type |-> "succeeded", intent |-> i]
        BY <4>2, <2>6
      <4>3. QED
        BY <4>1, <4>2
    <3>3. QED
      BY <3>1, <3>2 DEF ChargesHaveSecrets
  <2>13. QED
    BY <2>7, <2>8, <2>10, <2>11, <2>12 DEF IInv, IntentCustody
<1>2. ASSUME NEW i \in Intents, DeclineCard(i) PROVE IInv'
  <2> USE <1>2 DEF DeclineCard, Payable, backendVars
  <2>1. TypeOK'
    BY Links DEF TypeOK, Event
  <2>2. AskedPlaced' /\ HeldIntents' /\ OneIntentInFlight' /\ SecretsReferenced'
    BY Links DEF AskedPlaced, HeldIntents, MadeFor, OneIntentInFlight, SecretsReferenced
  <2>3. ChargesHaveSecrets'
    BY Links DEF ChargesHaveSecrets
  <2>4. QED
    BY <2>1, <2>2, <2>3 DEF IInv, IntentCustody
<1>3. ASSUME NEW k \in Keys, ForgetKey(k) PROVE IInv'
  <2> USE <1>3 DEF ForgetKey, backendVars
  <2>1. TypeOK'
    BY Links DEF TypeOK
  <2>2. \A j \in Keys : j # k => retained'[j] = retained[j]
    BY Links DEF TypeOK
  <2>3. retained'[k] = None
    BY Links DEF TypeOK
  <2>4. HeldIntents'
    BY <2>2, <2>3, Links DEF HeldIntents, MadeFor
  <2>5. OneIntentInFlight'
    BY <2>2, AskingShape, Links DEF OneIntentInFlight
  <2>6. AskedPlaced' /\ SecretsReferenced' /\ ChargesHaveSecrets'
    BY Links DEF AskedPlaced, SecretsReferenced, ChargesHaveSecrets
  <2>7. QED
    BY <2>1, <2>4, <2>5, <2>6 DEF IInv, IntentCustody
<1>4. QED
  BY <1>1, <1>2, <1>3 DEF ProviderStep

-----------------------------------------------------------------------------
LEMMA InitInv == Init => IInv
  BY DEF Init, IInv, TypeOK, IntentCustody, AskedPlaced, HeldIntents,
         OneIntentInFlight, SecretsReferenced, ChargesHaveSecrets

LEMMA StutterInv == ASSUME IInv, UNCHANGED vars PROVE IInv'
<1> USE DEF vars, backendVars, providerVars
<1>1. TypeOK'
  BY Links DEF TypeOK
<1>2. IntentCustody'
  BY KeptCustody DEF OrdersKept
<1>3. QED
  BY <1>1, <1>2 DEF IInv

LEMMA NextInv == IInv /\ [Next]_vars => IInv'
<1> SUFFICES ASSUME IInv, [Next]_vars PROVE IInv'
  OBVIOUS
<1>1. CASE OrderStep
  BY <1>1, OrderStepInv
<1>2. CASE IntentStep
  BY <1>2, BeginIntentInv, CreateIntentInv, SaveReferenceInv, ReplyIntentInv, DropIntentInv
     DEF IntentStep
<1>3. CASE ProviderStep
  BY <1>3, ProviderStepInv
<1>4. CASE WebhookStep
  BY <1>4, WebhookStepInv
<1>5. CASE UNCHANGED vars
  BY <1>5, StutterInv
<1>6. QED
  BY <1>1, <1>2, <1>3, <1>4, <1>5 DEF Next

LEMMA Invariance == Spec => []IInv
  BY InitInv, NextInv, PTL DEF Spec

\* The columns, the requests in flight and what is assumed of the provider stay
\* well formed in every behaviour.
THEOREM TypeCorrect == Spec => []TypeOK
<1>1. IInv => TypeOK
  BY DEF IInv
<1>2. QED
  BY <1>1, Invariance, PTL

\* The chain from a request for an intent to the money holds in every behaviour.
THEOREM CustodyHolds == Spec => []IntentCustody
<1>1. IInv => IntentCustody
  BY DEF IInv
<1>2. QED
  BY <1>1, Invariance, PTL

LEMMA CapturedFacts ==
  ASSUME IInv, NEW i \in Intents, Captured(i)
  PROVE  i \in secrets
  BY Links DEF Captured, ChargesHaveSecrets

\* No order is ever charged twice, whatever races, drops and retries its
\* requests went through.
THEOREM NeverChargedTwice == Spec => []NoDoubleCharge
<1>1. IInv => NoDoubleCharge
  <2> SUFFICES ASSUME IInv, NEW i \in Intents, NEW j \in Intents, Captured(i), Captured(j),
                      intents[i].key = intents[j].key
               PROVE  i = j
    BY DEF NoDoubleCharge
  <2>1. reference[intents[i].key] = i /\ reference[intents[j].key] = j
    BY CapturedFacts, SecretFacts
  <2>2. QED
    BY <2>1
<1>2. QED
  BY <1>1, Invariance, PTL

\* Every charge can be traced from its order, and is for the order's total.
THEOREM ChargesTraceable == Spec => []ChargeIsReferenced
<1>1. IInv => ChargeIsReferenced
  BY CapturedFacts, SecretFacts, NoneAssumption DEF ChargeIsReferenced
<1>2. QED
  BY <1>1, Invariance, PTL

-----------------------------------------------------------------------------
(***************************************************************************)
(* What one step may change.                                               *)
(***************************************************************************)

\* Every disjunct of Next that neither creates nor pays an intent nor saves a
\* reference leaves the intents and the references alone.
LEMMA OtherSteps ==
  ASSUME [Next]_vars
  PROVE  \/ \E c \in Clients : SaveReference(c)
         \/ \E c \in Clients, i \in Intents : CreateIntent(c, i)
         \/ \E i \in Intents : Capture(i)
         \/ UNCHANGED <<reference, intents>>
<1>1. CASE OrderStep
  BY <1>1 DEF OrderStep, PlaceOrder, SetStatus, CancelStale, providerVars
<1>2. CASE IntentStep
  BY <1>2 DEF IntentStep, BeginIntent, ReplyIntent, DropIntent, providerVars
<1>3. CASE ProviderStep
  BY <1>3 DEF ProviderStep, DeclineCard, ForgetKey, backendVars
<1>4. CASE WebhookStep
  BY <1>4 DEF WebhookStep, Succeeded, MarkPaid, PaymentFailed, SendConfirmation,
              DropConfirmation, providerVars
<1>5. CASE UNCHANGED vars
  BY <1>5 DEF vars, backendVars, providerVars
<1>6. QED
  BY <1>1, <1>2, <1>3, <1>4, <1>5 DEF Next

LEMMA ReferenceKept ==
  ASSUME IInv, [Next]_vars, NEW k \in Keys, reference[k] # None
  PROVE  reference'[k] = reference[k]
<1>1. ASSUME NEW c \in Clients, SaveReference(c) PROVE reference'[k] = reference[k]
  <2>1. asking[c].key \in Keys
    BY <1>1, AskingShape, Links DEF SaveReference
  <2>2. reference[asking[c].key] \in {None, asking[c].intent}
    BY <1>1, Links DEF SaveReference, OneIntentInFlight
  <2>3. reference' = [reference EXCEPT ![asking[c].key] = asking[c].intent]
    BY <1>1 DEF SaveReference
  <2>4. QED
    BY <2>1, <2>2, <2>3, Links DEF TypeOK
<1>2. QED
  BY <1>1, OtherSteps DEF CreateIntent, Capture, backendVars

LEMMA IntentsKept ==
  ASSUME IInv, [Next]_vars, NEW i \in Intents, intents[i] # None
  PROVE  /\ intents'[i] # None
         /\ intents'[i].key = intents[i].key
         /\ intents[i].captured => intents'[i].captured
<1>1. ASSUME NEW c \in Clients, NEW j \in Intents, CreateIntent(c, j)
      PROVE  intents'[i] = intents[i]
  <2>1. asking[c].key \in Keys /\ orders[asking[c].key] # None
    BY <1>1, AskingShape, Links DEF CreateIntent, AskedPlaced
  <2>2. IntentFor(asking[c].key, j)
    BY <1>1 DEF CreateIntent
  <2>3. QED
    BY <2>1, <2>2, IntentForFacts
<1>2. ASSUME NEW j \in Intents, Capture(j)
      PROVE  /\ intents'[i] # None
             /\ intents'[i].key = intents[i].key
             /\ intents[i].captured => intents'[i].captured
  <2> DEFINE paid == [intents[j] EXCEPT !.captured = TRUE]
  <2>1. intents[j] \in Intent
    BY <1>2, Links DEF TypeOK, Capture, Payable
  <2>2. paid \in Intent /\ paid.key = intents[j].key /\ paid.captured
    BY <2>1 DEF Intent
  <2>3. intents' = [intents EXCEPT ![j] = paid]
    BY <1>2 DEF Capture
  <2>4. paid # None
    BY <2>2, NoneAssumption
  <2>5. intents'[i] = IF i = j THEN paid ELSE intents[i]
    BY <2>3, Links DEF TypeOK
  <2>6. QED
    BY <2>2, <2>4, <2>5
<1>3. QED
  BY <1>1, <1>2, OtherSteps DEF SaveReference, providerVars

\* How the payment column of an order comes to its value, and with it the mail.
LEMMA PaymentHistory ==
  ASSUME IInv, [Next]_vars, NEW k \in Keys, orders'[k] # None
  PROVE  \/ orders[k] = None /\ orders'[k].payment = "pending"
         \/ orders[k] # None /\ orders'[k].payment = orders[k].payment
         \/ orders[k] # None /\ orders'[k].payment = "failed"
         \/ /\ orders[k].payment = "pending"
            /\ orders'[k].payment = "paid"
            /\ \E i \in Intents : Succeeded(i) /\ intents[i].key = k
<1>1. ASSUME NEW j \in Keys, NEW total \in Totals, PlaceOrder(j, total)
      PROVE  \/ orders[k] = None /\ orders'[k].payment = "pending"
             \/ orders[k] # None /\ orders'[k].payment = orders[k].payment
  BY <1>1, Links DEF PlaceOrder, TypeOK
<1>2. ASSUME NEW j \in Keys, NEW status \in FarmerStatuses, orders[j] # None,
             orders' = [orders EXCEPT ![j].status = status]
      PROVE  orders[k] # None /\ orders'[k].payment = orders[k].payment
  BY <1>2, SetStatusRewrites, Links DEF Rewritten
<1>3. ASSUME NEW i \in Intents, Succeeded(i)
      PROVE  \/ orders[k] # None /\ orders'[k].payment = orders[k].payment
             \/ /\ orders[k].payment = "pending"
                /\ orders'[k].payment = "paid"
                /\ intents[i].key = k
  BY <1>3, SucceededRewrites DEF Rewritten, Succeeded, Finds
<1>4. ASSUME NEW i \in Intents, PaymentFailed(i)
      PROVE  \/ orders[k] # None /\ orders'[k].payment = orders[k].payment
             \/ orders[k] # None /\ orders'[k].payment = "failed"
  BY <1>4, FailedRewrites DEF Rewritten
<1>5. CASE OrderStep
  BY <1>1, <1>2, <1>5, RequestedAssumption DEF OrderStep, SetStatus, CancelStale, FarmerStatuses
<1>6. CASE UNCHANGED orders
  BY <1>6
<1>7. CASE IntentStep
  BY <1>6, <1>7 DEF IntentStep, BeginIntent, CreateIntent, SaveReference, ReplyIntent, DropIntent
<1>8. CASE ProviderStep
  BY <1>6, <1>8 DEF ProviderStep, Capture, DeclineCard, ForgetKey, backendVars
<1>9. CASE WebhookStep
  BY <1>3, <1>4, <1>6, <1>9 DEF WebhookStep, SendConfirmation, DropConfirmation
<1>10. CASE UNCHANGED vars
  BY <1>6, <1>10 DEF vars, backendVars
<1>11. QED
  BY <1>5, <1>7, <1>8, <1>9, <1>10 DEF Next

\* No order is ever deleted.
LEMMA OrdersStay ==
  ASSUME IInv, [Next]_vars, NEW k \in Keys, orders[k] # None
  PROVE  orders'[k] # None
<1>1. ASSUME NEW j \in Keys, NEW total \in Totals, PlaceOrder(j, total)
      PROVE  orders'[k] # None
  BY <1>1, Links DEF PlaceOrder, TypeOK
<1>2. ASSUME NEW j \in Keys, NEW status \in FarmerStatuses, orders[j] # None,
             orders' = [orders EXCEPT ![j].status = status]
      PROVE  orders'[k] # None
  BY <1>2, SetStatusRewrites, Links DEF Rewritten
<1>3. ASSUME NEW i \in Intents, Succeeded(i) \/ PaymentFailed(i) PROVE orders'[k] # None
  BY <1>3, SucceededRewrites, FailedRewrites DEF Rewritten
<1>4. CASE OrderStep
  BY <1>1, <1>2, <1>4, RequestedAssumption DEF OrderStep, SetStatus, CancelStale, FarmerStatuses
<1>5. CASE IntentStep
  BY <1>5 DEF IntentStep, BeginIntent, CreateIntent, SaveReference, ReplyIntent, DropIntent
<1>6. CASE ProviderStep
  BY <1>6 DEF ProviderStep, Capture, DeclineCard, ForgetKey, backendVars
<1>7. CASE WebhookStep
  BY <1>3, <1>7 DEF WebhookStep, SendConfirmation, DropConfirmation
<1>8. CASE UNCHANGED vars
  BY <1>8 DEF vars, backendVars
<1>9. QED
  BY <1>4, <1>5, <1>6, <1>7, <1>8 DEF Next

\* Only the webhook decides on mail and sends it.
LEMMA MailSteps ==
  ASSUME [Next]_vars
  PROVE  \/ UNCHANGED <<mailing, mailed>>
         \/ \E j \in Keys : SendConfirmation(j) \/ DropConfirmation(j)
         \/ \E i \in Intents : Succeeded(i)
<1>1. CASE OrderStep
  BY <1>1 DEF OrderStep, PlaceOrder, SetStatus, CancelStale
<1>2. CASE IntentStep
  BY <1>2 DEF IntentStep, BeginIntent, CreateIntent, SaveReference, ReplyIntent, DropIntent
<1>3. CASE ProviderStep
  BY <1>3 DEF ProviderStep, Capture, DeclineCard, ForgetKey, backendVars
<1>4. CASE WebhookStep
  BY <1>4 DEF WebhookStep, PaymentFailed
<1>5. CASE UNCHANGED vars
  BY <1>5 DEF vars, backendVars
<1>6. QED
  BY <1>1, <1>2, <1>3, <1>4, <1>5 DEF Next

-----------------------------------------------------------------------------
\* The unconditional UPDATE of payment_reference never replaces a reference.
THEOREM ReferencesStick == Spec => ReferenceSticks
<1>1. IInv /\ [Next]_vars =>
        [\A k \in Keys : reference[k] # None => reference'[k] = reference[k]]_vars
  BY ReferenceKept
<1>2. QED
  BY <1>1, Invariance, PTL DEF Spec, ReferenceSticks

\* An order is marked paid only on money that was taken for it.
THEOREM PaidOnlyWhenCharged == Spec => []PaidMeansCharged
<1>1. Init => PaidMeansCharged
  BY DEF Init, PaidMeansCharged
<1>2. IInv /\ PaidMeansCharged /\ [Next]_vars => PaidMeansCharged'
  <2> SUFFICES ASSUME IInv, PaidMeansCharged, [Next]_vars,
                      NEW k \in Keys, orders'[k] # None, orders'[k].payment = "paid"
               PROVE  /\ reference'[k] # None
                      /\ Captured(reference[k])'
                      /\ intents'[reference'[k]].key = k
    BY DEF PaidMeansCharged
  <2>1. /\ reference[k] \in Intents
        /\ reference[k] # None
        /\ intents[reference[k]] # None
        /\ intents[reference[k]].captured
        /\ intents[reference[k]].key = k
    <3>1. CASE orders[k] # None /\ orders[k].payment = "paid"
      BY <3>1, Links DEF PaidMeansCharged, Captured, TypeOK
    <3>2. ASSUME NEW i \in Intents, Succeeded(i), intents[i].key = k
          PROVE  i = reference[k] /\ intents[i] # None /\ intents[i].captured
      <4>1. i \in secrets /\ intents[i].captured
        BY <3>2, SucceededRewrites
      <4>2. intents[i] \in Intent /\ reference[k] = i
        BY <3>2, <4>1, SecretFacts
      <4>3. QED
        BY <4>1, <4>2, NoneAssumption
    <3>3. QED
      BY <3>1, <3>2, PaymentHistory, NoneAssumption
  <2>2. QED
    BY <2>1, ReferenceKept, IntentsKept DEF Captured
<1>3. QED
  BY <1>1, <1>2, Invariance, PTL DEF Spec

\* Redelivered events never confirm an order twice.
THEOREM ConfirmedAtMostOnce == Spec => []ConfirmedOnce
<1>1. Init => ConfirmedOnce
  BY DEF Init, ConfirmedOnce
<1>2. IInv /\ ConfirmedOnce /\ [Next]_vars => ConfirmedOnce'
  <2> SUFFICES ASSUME IInv, ConfirmedOnce, [Next]_vars, NEW k \in Keys
               PROVE  /\ mailed'[k] + (IF k \in mailing' THEN 1 ELSE 0) <= 1
                      /\ k \in mailing' \/ mailed'[k] > 0 =>
                           orders'[k] # None /\ orders'[k].payment # "pending"
    BY DEF ConfirmedOnce
  <2>1. mailed[k] \in Nat /\ mailed'[k] \in Nat
    BY NextInv, Links DEF IInv, TypeOK
  <2>2. /\ mailed[k] + (IF k \in mailing THEN 1 ELSE 0) <= 1
        /\ k \in mailing \/ mailed[k] > 0 => orders[k] # None /\ orders[k].payment # "pending"
    BY DEF ConfirmedOnce
  <2>3. orders[k] # None /\ orders[k].payment # "pending"
          => orders'[k] # None /\ orders'[k].payment # "pending"
    <3>1. orders[k] # None => orders'[k] # None
      BY OrdersStay
    <3>2. QED
      BY <3>1, PaymentHistory
  <2>4. CASE UNCHANGED <<mailing, mailed>>
    BY <2>2, <2>3, <2>4
  <2>5. ASSUME NEW j \in Keys, SendConfirmation(j) \/ DropConfirmation(j)
        PROVE  /\ mailed'[k] + (IF k \in mailing' THEN 1 ELSE 0) <= 1
               /\ k \in mailing' \/ mailed'[k] > 0 => k \in mailing \/ mailed[k] > 0
    BY <2>1, <2>2, <2>5, Links DEF SendConfirmation, DropConfirmation, TypeOK
  <2>6. ASSUME NEW i \in Intents, Succeeded(i)
        PROVE  /\ mailed'[k] + (IF k \in mailing' THEN 1 ELSE 0) <= 1
               /\ k \in mailing' \/ mailed'[k] > 0 =>
                    orders'[k] # None /\ orders'[k].payment # "pending"
    <3>1. mailed' = mailed /\ mailing' = mailing \cup {intents[i].key}
      BY <2>6 DEF Succeeded, Finds, MarkPaid
    <3>2. CASE k # intents[i].key
      BY <2>2, <2>3, <3>1, <3>2
    <3>3. CASE k = intents[i].key
      <4>1. orders[k] # None /\ orders[k].payment = "pending"
        BY <2>6, <3>3 DEF Succeeded, Finds
      <4>2. orders'[k] # None /\ orders'[k].payment = "paid"
        BY <2>6, <3>3, <4>1, OrdersStay, SucceededRewrites
      <4>3. QED
        BY <2>1, <2>2, <3>1, <4>1, <4>2
    <3>4. QED
      BY <3>2, <3>3
  <2>7. \/ UNCHANGED <<mailing, mailed>>
        \/ \E j \in Keys : SendConfirmation(j) \/ DropConfirmation(j)
        \/ \E i \in Intents : Succeeded(i)
    BY MailSteps
  <2>8. QED
    BY <2>2, <2>3, <2>4, <2>5, <2>6, <2>7
<1>3. QED
  BY <1>1, <1>2, Invariance, PTL DEF Spec

-----------------------------------------------------------------------------
(***************************************************************************)
(* The orders table, as this module writes it, implements OrderBook.       *)
(***************************************************************************)

LEMMA SeenRows ==
  ASSUME NEW row \in OrderRow
  PROVE  /\ Seen(row) = [status |-> row.status, payment |-> row.payment,
                         contents |-> row.total]
         /\ Seen(row) \in Book!Entry
         /\ Seen(row) # None
<1>1. Seen(row) = [status |-> row.status, payment |-> row.payment, contents |-> row.total]
  BY NoneAssumption DEF Seen
<1>2. Seen(row) \in Book!Entry
  BY <1>1 DEF OrderRow, FarmerStatuses, Book!Entry, Book!FarmerStatuses
<1>3. QED
  BY <1>1, <1>2, EntryAssumption

\* An UPDATE of order k to row, as it is seen.
LEMMA SeenUpdate ==
  ASSUME TypeOK, NEW k \in Keys, NEW row \in OrderRow,
         orders' = [orders EXCEPT ![k] = row]
  PROVE  Entries' = [Entries EXCEPT ![k] = Seen(row)]
  BY DEF TypeOK, Entries, Seen

LEMMA SeenEntry ==
  ASSUME TypeOK, NEW k \in Keys, orders[k] # None
  PROVE  /\ Entries[k] = [status |-> orders[k].status, payment |-> orders[k].payment,
                          contents |-> orders[k].total]
         /\ Entries[k] # None
         /\ Entries[k] \in Book!Entry
  BY SeenRows DEF TypeOK, Entries

\* A status change is seen as Advance.
LEMMA SetStatusAdvances ==
  ASSUME TypeOK, NEW k \in Keys, NEW status \in FarmerStatuses, orders[k] # None,
         orders' = [orders EXCEPT ![k].status = status]
  PROVE  /\ Entries' = [Entries EXCEPT ![k].status = status]
         /\ Book!Advance(k)
<1> DEFINE row == [orders[k] EXCEPT !.status = status]
<1>1. orders[k] \in OrderRow
  BY DEF TypeOK
<1>2. /\ row \in OrderRow
      /\ row.status = status
      /\ row.payment = orders[k].payment
      /\ row.total = orders[k].total
  BY <1>1 DEF OrderRow
<1>3. Entries' = [Entries EXCEPT ![k] = Seen(row)]
  BY <1>2, SeenUpdate
<1>4. Seen(row) = [status |-> status, payment |-> orders[k].payment,
                   contents |-> orders[k].total]
  BY <1>2, SeenRows
<1>5. Entries[k] = [status |-> orders[k].status, payment |-> orders[k].payment,
                    contents |-> orders[k].total]
  BY SeenEntry
<1>6. Seen(row) = [Entries[k] EXCEPT !.status = status]
  BY <1>4, <1>5
<1>7. Entries' = [Entries EXCEPT ![k].status = status]
  BY <1>3, <1>6
<1>8. QED
  BY <1>7, SeenEntry DEF Book!Advance, Book!FarmerStatuses, FarmerStatuses

\* The webhook's two UPDATEs are seen as Settle and Decline.
LEMMA SucceededSettles ==
  ASSUME IInv, NEW i \in Intents, Succeeded(i)
  PROVE  intents[i].key \in Keys /\ Book!Settle(intents[i].key)
<1> DEFINE k == intents[i].key
           row == [orders[k] EXCEPT !.payment = "paid", !.status = "confirmed"]
<1>1. i \in secrets
  BY SucceededRewrites
<1>2. k \in Keys /\ orders[k] \in OrderRow
  BY <1>1, SecretFacts
<1>3. /\ orders[k] # None
      /\ orders[k].payment = "pending"
      /\ orders' = [orders EXCEPT ![k] = row]
  BY <1>2, Links DEF Succeeded, Finds, MarkPaid, TypeOK
<1>4. /\ row \in OrderRow
      /\ row.status = "confirmed"
      /\ row.payment = "paid"
      /\ row.total = orders[k].total
  BY <1>2 DEF OrderRow, FarmerStatuses
<1>5. Entries' = [Entries EXCEPT ![k] = Seen(row)]
  BY <1>2, <1>3, <1>4, SeenUpdate, Links
<1>6. Seen(row) = [status |-> "confirmed", payment |-> "paid", contents |-> orders[k].total]
  BY <1>4, SeenRows
<1>7. /\ Entries[k] = [status |-> orders[k].status, payment |-> orders[k].payment,
                       contents |-> orders[k].total]
      /\ Entries[k] # None
  BY <1>2, <1>3, SeenEntry, Links
<1>8. Entries[k].payment = "pending" /\ Entries[k].contents = orders[k].total
  BY <1>3, <1>7
<1>9. QED
  BY <1>2, <1>5, <1>6, <1>7, <1>8 DEF Book!Settle

LEMMA FailedDeclines ==
  ASSUME IInv, NEW i \in Intents, PaymentFailed(i)
  PROVE  intents[i].key \in Keys /\ Book!Decline(intents[i].key)
<1> DEFINE k == intents[i].key
           row == [orders[k] EXCEPT !.payment = "failed"]
<1>1. i \in secrets
  BY EventFacts DEF PaymentFailed
<1>2. k \in Keys /\ orders[k] \in OrderRow
  BY <1>1, SecretFacts
<1>3. orders[k] # None /\ orders' = [orders EXCEPT ![k] = row]
  BY <1>2, Links DEF PaymentFailed, Finds, TypeOK
<1>4. /\ row \in OrderRow
      /\ row.status = orders[k].status
      /\ row.payment = "failed"
      /\ row.total = orders[k].total
  BY <1>2 DEF OrderRow
<1>5. Entries' = [Entries EXCEPT ![k] = Seen(row)]
  BY <1>2, <1>3, <1>4, SeenUpdate, Links
<1>6. Seen(row) = [status |-> orders[k].status, payment |-> "failed",
                   contents |-> orders[k].total]
  BY <1>4, SeenRows
<1>7. /\ Entries[k] = [status |-> orders[k].status, payment |-> orders[k].payment,
                       contents |-> orders[k].total]
      /\ Entries[k] # None
  BY <1>2, <1>3, SeenEntry, Links
<1>8. Seen(row) = [Entries[k] EXCEPT !.payment = "failed"]
  BY <1>6, <1>7
<1>9. Entries' = [Entries EXCEPT ![k].payment = "failed"]
  BY <1>5, <1>8
<1>10. QED
  BY <1>2, <1>7, <1>9 DEF Book!Decline

LEMMA PlaceOrderPlaces ==
  ASSUME IInv, NEW k \in Keys, NEW total \in Totals, PlaceOrder(k, total)
  PROVE  Book!Place(k)
<1> DEFINE row == [status |-> "pending", payment |-> "pending", total |-> total]
<1>1. row \in OrderRow
  BY DEF OrderRow
<1>2. Entries' = [Entries EXCEPT ![k] = Seen(row)]
  BY <1>1, SeenUpdate, Links DEF PlaceOrder
<1>3. Entries[k] = None
  BY DEF PlaceOrder, Entries, Seen
<1>4. Seen(row) = [status |-> "pending", payment |-> "pending", contents |-> total]
  BY <1>1, SeenRows
<1>5. Entries'[k] = Seen(row)
  BY <1>2 DEF Entries
<1>6. Seen(row) \in [status : {"pending"}, payment : {"pending"}, contents : Totals]
  BY <1>4
<1>7. Entries' = [Entries EXCEPT ![k] = Entries'[k]]
  BY <1>2, <1>5, Zenon
<1>8. QED
  BY <1>3, <1>5, <1>6, <1>7 DEF Book!Place

\* The backend's orders table is the one that OrderBook promises.
THEOREM ImplementsBook == Spec => ImplementsOrderBook
<1>1. Init => Book!Init
  BY DEF Init, Book!Init, Entries, Seen
<1>2. IInv /\ [Next]_vars => [Book!Next]_Entries
  <2> SUFFICES ASSUME IInv, [Next]_vars PROVE [Book!Next]_Entries
    OBVIOUS
  <2>1. CASE UNCHANGED orders
    BY <2>1 DEF Entries
  <2>2. CASE OrderStep
    <3>1. ASSUME NEW k \in Keys, NEW total \in Totals, PlaceOrder(k, total) PROVE Book!Next
      BY <3>1, PlaceOrderPlaces DEF Book!Next
    <3>2. ASSUME NEW k \in Keys, NEW status \in FarmerStatuses, orders[k] # None,
                 orders' = [orders EXCEPT ![k].status = status]
          PROVE  Book!Next
      BY <3>2, SetStatusAdvances, Links DEF Book!Next
    <3>3. QED
      BY <2>2, <3>1, <3>2, RequestedAssumption
         DEF OrderStep, SetStatus, CancelStale, FarmerStatuses
  <2>3. CASE IntentStep
    BY <2>1, <2>3
       DEF IntentStep, BeginIntent, CreateIntent, SaveReference, ReplyIntent, DropIntent
  <2>4. CASE ProviderStep
    BY <2>1, <2>4 DEF ProviderStep, Capture, DeclineCard, ForgetKey, backendVars
  <2>5. CASE WebhookStep
    BY <2>1, <2>5, SucceededSettles, FailedDeclines
       DEF WebhookStep, SendConfirmation, DropConfirmation, Book!Next
  <2>6. CASE UNCHANGED vars
    BY <2>1, <2>6 DEF vars, backendVars
  <2>7. QED
    BY <2>2, <2>3, <2>4, <2>5, <2>6 DEF Next
<1>3. QED
  BY <1>1, <1>2, Invariance, PTL DEF Spec, ImplementsOrderBook, Book!Spec
=============================================================================
