------------------------------ MODULE Payments -------------------------------
(***************************************************************************)
(* Paying for an order: POST /payments/intent, the payment provider behind *)
(* it, and the provider's webhook.  Several requests for one order may be  *)
(* in flight, each may be dropped between any two of its steps, and the    *)
(* provider's events arrive in any order, more than once or not at all.    *)
(*                                                                         *)
(* The provider is external.  What is assumed of it is what the code       *)
(* relies on: an Idempotency-Key gives the same intent again for as long   *)
(* as it is retained, only somebody who holds an intent's client secret    *)
(* can pay it, and an intent is paid at most once.                         *)
(***************************************************************************)
EXTENDS Naturals, FiniteSets

CONSTANTS
  Keys,         \* order keys
  Clients,      \* POST /payments/intent requests that may be in flight together
  Intents,      \* intent ids: a bound on the intents the provider creates
  Totals,       \* order totals, as [pounds, hundredths]
  Requested,    \* bound: the statuses that farmers ask for
  None          \* NULL, an unused slot

FarmerStatuses == {"confirmed", "processing", "dispatched", "delivered", "cancelled"}

ASSUME TotalsAssumption == Totals \subseteq [pounds : Nat, hundredths : 0..99]
ASSUME RequestedAssumption == Requested \subseteq FarmerStatuses

VARIABLES
  orders,     \* order key -> the columns of its row that matter here, or None
  reference,  \* order key -> orders.payment_reference
  asking,     \* client -> the POST /payments/intent it is served, or None
  mailing,    \* keys whose confirmation emails a webhook call is about to send
  mailed,     \* order key -> how often its confirmation was sent
  intents,    \* provider: intent id -> the intent
  retained,   \* provider: order key -> the intent its Idempotency-Key stands for
  secrets,    \* intents whose client secret has reached a customer
  events      \* provider: events to deliver, each any number of times

backendVars == <<orders, reference, asking, mailing, mailed>>
providerVars == <<intents, retained, secrets, events>>
vars == <<backendVars, providerVars>>

OrderRow == [status  : FarmerStatuses \cup {"pending"},
             payment : {"pending", "paid", "failed"},
             total   : Totals]

Asking == [pc : {"create"}, key : Keys]
            \cup [pc : {"save", "reply"}, key : Keys, intent : Intents]

Intent == [key : Keys, amount : Nat, captured : BOOLEAN]

Event == [type : {"succeeded", "payment_failed"}, intent : Intents]

\* A slot that is unused cannot be mistaken for one in use.
ASSUME NoneAssumption == None \notin Intents \cup OrderRow \cup Asking \cup Intent

\* A NUMERIC(10,2) total in pence: the product with 100 is whole, and rounding
\* it changes nothing.
Pence(total) == 100 * total.pounds + total.hundredths

Init ==
  /\ orders = [k \in Keys |-> None]
  /\ reference = [k \in Keys |-> None]
  /\ asking = [c \in Clients |-> None]
  /\ mailing = {}
  /\ mailed = [k \in Keys |-> 0]
  /\ intents = [i \in Intents |-> None]
  /\ retained = [k \in Keys |-> None]
  /\ secrets = {}
  /\ events = {}

-----------------------------------------------------------------------------
(***************************************************************************)
(* What happens to the order elsewhere (see Orders).                       *)
(***************************************************************************)

PlaceOrder(k, total) ==
  /\ orders[k] = None
  /\ orders' = [orders EXCEPT ![k] =
       [status |-> "pending", payment |-> "pending", total |-> total]]
  /\ UNCHANGED <<reference, asking, mailing, mailed, providerVars>>

SetStatus(k, status) ==
  /\ orders[k] # None
  /\ orders' = [orders EXCEPT ![k].status = status]
  /\ UNCHANGED <<reference, asking, mailing, mailed, providerVars>>

CancelStale(k) ==
  /\ orders[k] # None
  /\ orders[k].status = "pending"
  /\ orders[k].payment = "pending"
  /\ orders' = [orders EXCEPT ![k].status = "cancelled"]
  /\ UNCHANGED <<reference, asking, mailing, mailed, providerVars>>

-----------------------------------------------------------------------------
(***************************************************************************)
(* POST /payments/intent                                                   *)
(***************************************************************************)

\* Mutant of BeginIntent: the reference is not looked at.
FetchAnyway(c, k) ==
  /\ asking[c] = None
  /\ orders[k] # None
  /\ asking' = [asking EXCEPT ![c] = [pc |-> "reply", key |-> k, intent |-> reference[k]]]
  /\ UNCHANGED <<orders, reference, mailing, mailed, providerVars>>

\* The SELECT of the order decides between the intent it refers to, which is
\* fetched and returned, and a new one.
BeginIntent(c, k) ==
  /\ asking[c] = None
  /\ orders[k] # None
  /\ asking' = [asking EXCEPT ![c] =
       IF reference[k] # None
         THEN [pc |-> "reply", key |-> k, intent |-> reference[k]]
         ELSE [pc |-> "create", key |-> k]]
  /\ UNCHANGED <<orders, reference, mailing, mailed, providerVars>>

NewIntent(k, i) ==
  /\ intents[i] = None
  /\ intents' = [intents EXCEPT ![i] =
       [key |-> k, amount |-> Pence(orders[k].total), captured |-> FALSE]]

\* Mutants of IntentFor: the request has no Idempotency-Key; all orders have
\* the same one.
WithoutKey(k, i) == NewIntent(k, i) /\ UNCHANGED retained

WithOneKey(k, i) ==
  \/ /\ \E j \in Keys : retained[j] = i
     /\ UNCHANGED <<intents, retained>>
  \/ /\ \A j \in Keys : retained[j] = None
     /\ NewIntent(k, i)
     /\ retained' = [retained EXCEPT ![k] = i]

\* The provider's answer to the POST with Idempotency-Key: order_key: the
\* retained intent if there is one, else a new intent for the order's total.
IntentFor(k, i) ==
  \/ /\ i # None
     /\ retained[k] = i
     /\ UNCHANGED <<intents, retained>>
  \/ /\ retained[k] = None
     /\ NewIntent(k, i)
     /\ retained' = [retained EXCEPT ![k] = i]

CreateIntent(c, i) ==
  /\ asking[c] # None
  /\ asking[c].pc = "create"
  /\ IntentFor(asking[c].key, i)
  /\ asking' = [asking EXCEPT ![c] = [pc |-> "save", key |-> asking[c].key, intent |-> i]]
  /\ UNCHANGED <<orders, reference, mailing, mailed, secrets, events>>

\* Mutant of SaveReference: its failure is ignored.
SkipReference(c) ==
  /\ asking[c] # None
  /\ asking[c].pc = "save"
  /\ asking' = [asking EXCEPT ![c].pc = "reply"]
  /\ UNCHANGED <<orders, reference, mailing, mailed, providerVars>>

\* UPDATE orders SET payment_reference, whatever it is by now.
SaveReference(c) ==
  /\ asking[c] # None
  /\ asking[c].pc = "save"
  /\ reference' = [reference EXCEPT ![asking[c].key] = asking[c].intent]
  /\ asking' = [asking EXCEPT ![c].pc = "reply"]
  /\ UNCHANGED <<orders, mailing, mailed, providerVars>>

\* The response carries the client secret to the customer.
ReplyIntent(c) ==
  /\ asking[c] # None
  /\ asking[c].pc = "reply"
  /\ secrets' = secrets \cup {asking[c].intent}
  /\ asking' = [asking EXCEPT ![c] = None]
  /\ UNCHANGED <<orders, reference, mailing, mailed, intents, retained, events>>

\* The client goes away, a call fails, or the server stops.
DropIntent(c) ==
  /\ asking[c] # None
  /\ asking' = [asking EXCEPT ![c] = None]
  /\ UNCHANGED <<orders, reference, mailing, mailed, providerVars>>

-----------------------------------------------------------------------------
(***************************************************************************)
(* The provider                                                            *)
(***************************************************************************)

Payable(i) == i \in secrets /\ intents[i] # None /\ ~intents[i].captured

\* A customer pays ...
Capture(i) ==
  /\ Payable(i)
  /\ intents' = [intents EXCEPT ![i].captured = TRUE]
  /\ events' = events \cup {[type |-> "succeeded", intent |-> i]}
  /\ UNCHANGED <<backendVars, retained, secrets>>

\* ... or has a card declined, and may try again.
DeclineCard(i) ==
  /\ Payable(i)
  /\ events' = events \cup {[type |-> "payment_failed", intent |-> i]}
  /\ UNCHANGED <<backendVars, intents, retained, secrets>>

\* The provider forgets an Idempotency-Key after a day or more; no request is
\* in flight for that long.
ForgetKey(k) ==
  /\ retained[k] # None
  /\ ~ \E c \in Clients : asking[c] # None /\ asking[c].key = k
  /\ retained' = [retained EXCEPT ![k] = None]
  /\ UNCHANGED <<backendVars, intents, secrets, events>>

-----------------------------------------------------------------------------
(***************************************************************************)
(* POST /payments/webhook.  The order id travels in the intent's metadata. *)
(***************************************************************************)

\* The row that both UPDATEs look for: by id and payment_reference.
Finds(i, k) ==
  /\ intents[i].key = k
  /\ orders[k] # None
  /\ reference[k] = i

\* A row that the UPDATE on payment_intent.succeeded changed gets mail.
MarkPaid(k) ==
  /\ orders' = [orders EXCEPT ![k].payment = "paid", ![k].status = "confirmed"]
  /\ mailing' = mailing \cup {k}
  /\ UNCHANGED <<reference, asking, mailed, providerVars>>

\* Mutants of Succeeded: a payment that was decided is decided again; an order
\* that is no longer pending is left alone; any event is taken for a success.
SucceededAgain(i) ==
  /\ [type |-> "succeeded", intent |-> i] \in events
  /\ \E k \in Keys : Finds(i, k) /\ MarkPaid(k)

SucceededInTime(i) ==
  /\ [type |-> "succeeded", intent |-> i] \in events
  /\ \E k \in Keys : Finds(i, k) /\ orders[k].payment = "pending"
                                 /\ orders[k].status = "pending" /\ MarkPaid(k)

SucceededByAny(i) ==
  /\ \E e \in events : e.intent = i
  /\ \E k \in Keys : Finds(i, k) /\ orders[k].payment = "pending" /\ MarkPaid(k)

\* payment_intent.succeeded.
Succeeded(i) ==
  /\ [type |-> "succeeded", intent |-> i] \in events
  /\ \E k \in Keys : Finds(i, k) /\ orders[k].payment = "pending" /\ MarkPaid(k)

\* The rest of that call: the two emails are spawned ...
SendConfirmation(k) ==
  /\ k \in mailing
  /\ mailing' = mailing \ {k}
  /\ mailed' = [mailed EXCEPT ![k] = @ + 1]
  /\ UNCHANGED <<orders, reference, asking, providerVars>>

\* ... unless it is dropped first: the event is then delivered again, and finds
\* nothing to update.
DropConfirmation(k) ==
  /\ k \in mailing
  /\ mailing' = mailing \ {k}
  /\ UNCHANGED <<orders, reference, asking, mailed, providerVars>>

\* The UPDATE on payment_intent.payment_failed.
PaymentFailed(i) ==
  /\ [type |-> "payment_failed", intent |-> i] \in events
  /\ \E k \in Keys : /\ Finds(i, k)
                     /\ orders' = [orders EXCEPT ![k].payment = "failed"]
  /\ UNCHANGED <<reference, asking, mailing, mailed, providerVars>>

-----------------------------------------------------------------------------
OrderStep ==
  \E k \in Keys :
    \/ \E total \in Totals : PlaceOrder(k, total)
    \/ \E status \in Requested : SetStatus(k, status)
    \/ CancelStale(k)

IntentStep ==
  \E c \in Clients :
    \/ \E k \in Keys : BeginIntent(c, k)
    \/ \E i \in Intents : CreateIntent(c, i)
    \/ SaveReference(c)
    \/ ReplyIntent(c)
    \/ DropIntent(c)

ProviderStep ==
  \/ \E i \in Intents : Capture(i) \/ DeclineCard(i)
  \/ \E k \in Keys : ForgetKey(k)

WebhookStep ==
  \/ \E i \in Intents : Succeeded(i) \/ PaymentFailed(i)
  \/ \E k \in Keys : SendConfirmation(k) \/ DropConfirmation(k)

Next == OrderStep \/ IntentStep \/ ProviderStep \/ WebhookStep

Spec == Init /\ [][Next]_vars

\* The provider delivers an event until it is acknowledged, and the handler
\* acknowledges only after its UPDATE.
FairSpec == Spec /\ \A i \in Intents : WF_vars(Succeeded(i))

-----------------------------------------------------------------------------
(***************************************************************************)
(* Properties                                                              *)
(***************************************************************************)

\* Every column, request and provider record is well formed.
TypeOK ==
  /\ orders \in [Keys -> OrderRow \cup {None}]
  /\ reference \in [Keys -> Intents \cup {None}]
  /\ asking \in [Clients -> Asking \cup {None}]
  /\ mailing \subseteq Keys
  /\ mailed \in [Keys -> Nat]
  /\ intents \in [Intents -> Intent \cup {None}]
  /\ retained \in [Keys -> Intents \cup {None}]
  /\ secrets \subseteq Intents
  /\ events \subseteq Event

Captured(i) == intents[i] # None /\ intents[i].captured

\* The chain that a charge hangs on, link by link: a request in flight is for a
\* stored order; an intent that a request, a column or the provider's memory
\* holds for an order was made for that order and its total; all requests in
\* flight for an order hold the one intent its reference is or will be; a
\* secret leaves only for the referenced intent; and only with a secret is an
\* intent paid and an event sent.
AskedPlaced == \A c \in Clients : asking[c] # None => orders[asking[c].key] # None

MadeFor(i, k) ==
  /\ intents[i] # None
  /\ intents[i].key = k
  /\ orders[k] # None
  /\ intents[i].amount = Pence(orders[k].total)

HeldIntents ==
  /\ \A k \in Keys : reference[k] # None => MadeFor(reference[k], k)
  /\ \A k \in Keys : retained[k] # None => MadeFor(retained[k], k)
  /\ \A c \in Clients : asking[c] # None /\ asking[c].pc # "create" =>
       MadeFor(asking[c].intent, asking[c].key)

OneIntentInFlight ==
  \A c \in Clients : asking[c] # None =>
    LET k == asking[c].key
    IN  /\ asking[c].pc = "create" => reference[k] \in {None, retained[k]}
        /\ asking[c].pc = "save" =>
             /\ retained[k] = asking[c].intent
             /\ reference[k] \in {None, asking[c].intent}
        /\ asking[c].pc = "reply" => reference[k] = asking[c].intent

SecretsReferenced ==
  \A i \in secrets : intents[i] # None /\ reference[intents[i].key] = i

ChargesHaveSecrets ==
  /\ \A i \in Intents : intents[i] # None /\ intents[i].captured => i \in secrets
  /\ \A e \in events :
       /\ e.intent \in secrets
       /\ e.type = "succeeded" => intents[e.intent].captured

IntentCustody ==
  /\ AskedPlaced
  /\ HeldIntents
  /\ OneIntentInFlight
  /\ SecretsReferenced
  /\ ChargesHaveSecrets

\* A customer never pays twice for one order: however many requests raced for
\* an intent, were retried after being dropped, or came back after the
\* provider forgot the key, at most one intent of an order is ever captured.
NoDoubleCharge ==
  \A i, j \in Intents :
    Captured(i) /\ Captured(j) /\ intents[i].key = intents[j].key => i = j

\* Money that was taken can be traced: the order's payment_reference is the
\* intent that was paid, so that the webhook will find the order, and the
\* amount is the order's total.
ChargeIsReferenced ==
  \A i \in Intents : Captured(i) =>
    LET k == intents[i].key
    IN  /\ orders[k] # None
        /\ reference[k] = i
        /\ intents[i].amount = Pence(orders[k].total)

\* No order is marked paid on somebody else's money or on none.
PaidMeansCharged ==
  \A k \in Keys : orders[k] # None /\ orders[k].payment = "paid" =>
    /\ reference[k] # None
    /\ Captured(reference[k])
    /\ intents[reference[k]].key = k

\* However often an event is delivered, the customer and the farmer are told at
\* most once, and only of an order whose payment has been decided.
ConfirmedOnce ==
  \A k \in Keys :
    /\ mailed[k] + (IF k \in mailing THEN 1 ELSE 0) <= 1
    /\ k \in mailing \/ mailed[k] > 0 =>
         orders[k] # None /\ orders[k].payment # "pending"

\* A payment_reference, once written, is never replaced: the UPDATE is
\* unconditional, but every request that still gets to it holds the same intent.
ReferenceSticks ==
  [][\A k \in Keys : reference[k] # None => reference'[k] = reference[k]]_vars

\* The orders table as its readers see it.
Seen(row) ==
  IF row = None THEN None
  ELSE [status |-> row.status, payment |-> row.payment, contents |-> row.total]

Entries == [k \in Keys |-> Seen(orders[k])]

Book == INSTANCE OrderBook WITH Contents <- Totals, book <- Entries

ASSUME EntryAssumption == None \notin Book!Entry

\* The webhook, too, keeps the promise of the orders table.
ImplementsOrderBook == Book!Spec

\* A charge does not stay unnoticed: its order's payment is decided.
ChargeSettles ==
  \A i \in Intents :
    Captured(i) ~> Captured(i) /\ orders[intents[i].key].payment # "pending"

\* An order whose money was taken is marked paid.
ChargedIsMarkedPaid ==
  \A i \in Intents :
    Captured(i) ~> Captured(i) /\ orders[intents[i].key].payment = "paid"
=============================================================================
