# A verification project for the AgriMarket backend

AgriMarket is a marketplace backend: farmers offer products with a limited
stock, guests fill carts, place orders and pay through Stripe, farmers move
their orders along, and scheduled database jobs clean up. The program is an
axum server over PostgreSQL and Redis. Almost none of its difficulty is inside
a function: it is between the SQL statements of a handler, where other handlers
run, where a connection may be lost, and where nothing resumes what was begun.
This directory holds TLA+ models of that behaviour, TLC configurations that
check them on small instances, and TLAPS proofs of the properties that matter
most, for every value of the constants.

All paths below are relative to the repository; `routes/` stands for
`crates/api/src/routes/v1/`.

## Inventory

| Part | State | Operations | What is hard about it | What makes it correct |
|---|---|---|---|---|
| orders (`routes/orders.rs`) | `orders`, `order_items`, the local variables of each request | place an order, change its status, read | nine statements per checkout and one transaction among them; duplicate POSTs; a stock check that is stale when used; status and stock changed by separate statements | one order per key; only stored orders are announced; a reservation is backed by an order, given back once and entirely |
| stock (`routes/stock.rs`) | `stock`: available, reserved, threshold, status | edit quantity or threshold, read | read, decide in Rust, write; the status is repeated arithmetic over the other columns, in four places | quantities never negative, the status never promises too much, edits do not undo each other |
| cart (`routes/cart.rs`) | `cart`, `cart_items` | show (and create), add, set, remove, clear | ids and checks used after the row they came from has changed | items only in carts that exist, one cart per session |
| products (`routes/products.rs`) | `products` | create (with its stock row), update, soft-delete | deletion does not reach carts and stock | stock row for every product; its first status is decided before the columns round |
| payments (`routes/payments.rs`) | `orders.payment_reference`, `payment_status`; the provider's intents | create an intent, receive events | racing and retried requests over an external service with its own memory; events late, repeated, out of order | nobody is charged twice, every charge is found again, no order is paid on other money |
| scheduled jobs (`migrations/supabase-only/004_cron_jobs.sql`) | the same tables | cancel stale orders and return stock; six purges and corrections | batches; joins that touch a row once; run beside everything else | stale orders end, their stock comes back |
| accounts and sessions (`crates/auth/src/service.rs`, `routes/auth.rs`, `crates/api/src/middleware/auth.rs`) | `farmers`, `refresh_tokens`, `verification_tokens`, revoked access tokens in Redis | register, log in, refresh, log out, verify | check-then-act on addresses and tokens; two stores; rotation with reuse detection | one account per address, spent tokens stay spent, an answered logout leaves nothing of a session but the leeway of a late access token |
| WebSocket fan-out (`crates/ws/`) | a broadcast channel of 256 events, a receiver per client | publish; upgrade, subscribe, receive, send, answer pings | the upgrade is answered before the receiver exists; slow clients fall behind what the channel holds | each client sees the events addressed to its farmer, in order and without a gap, or is disconnected |
| notifications, paged lists (`routes/notifications.rs`, `GET /orders`) | `notifications` | insert (by checkout), mark as sent, list by page | a page is two statements, and rows come, shift and leave the filter between pages | a client that reads all pages has seen what was there; with the connection, it misses nothing |
| categories (`routes/categories.rs`) | `categories` | create, list as a tree | the parent is looked at before the child is inserted | two levels, everything in the tree, every product under one top-level category |
| analytics, bookkeeping (`routes/analytics.rs`, `routes/bookkeeping.rs`) | none of their own but `expenses` | reports over orders and items; insert an expense | amounts rounded in two places; days and hours; orders of several farmers' products | each order is counted once, and the reports agree with each other |
| tracking (`routes/tracking.rs`) | `tracking` | append, list | nothing: nobody else reads it | |
| upload, mailer, jwt, hash, config, pools, error mapping | none of interest | | external services and library calls | |

The parts meet in three ways. Handlers share tables, and each statement sees
what the others have committed. The orders row is written by four of them:
checkout inserts it, the farmer's status change, the webhook and the job that
cancels stale orders update it, each with a `WHERE` of its own. And handlers
call out: to the payment provider (answers matter), to the mailer from spawned
tasks (answers are dropped), and to the broadcast channel.

A handler can stop between any two statements: axum drops its future when the
client disconnects, any statement may fail, the server may be restarted.
Every module has that as an action (`DropPlacing`, `DropClosing`,
`DropShopping`, `DropEdit`, `DropIntent`, `DropConfirmation`, `Drop`,
`DropTelling`, `DropCategory`, `DropBuying`; `Leave` for a connection, `GiveUp`
for a client), so there is no separate crash: a crash is all of them at once.

## Modules

| Module | Models | Extends |
|---|---|---|
| `Stock` | the stock row, every `CASE` and `GREATEST` that rewrites it, PATCH /stock, soft deletion | |
| `Cart` | guest carts and their requests | `Stock` |
| `Orders` | checkout, status changes, the webhook's statements and the stale-orders job over stock and carts | `Cart` |
| `Payments` | intent requests, the provider, the webhook in full | |
| `OrderBook` | abstract: what the orders table promises its readers | |
| `StockBook` | abstract: what a stock promises, that an order takes only what is free, once, and gives it back or hands it over, once | |
| `AccountBook` | abstract: what accounts and sessions promise, that an address is registered and mailed once, a session is one farmer's for good and does not come back, and an access token is barred until its expiry and over after the leeway | |
| `Sessions` | accounts, refresh tokens, logout, verification | |
| `Listing` | notifications, and the pages of notifications and orders under insertion and marking | |
| `Feed` | what checkout tells after its commit, the broadcast channel, WebSocket connections | `Listing` |
| `Catalogue` | categories, products, the tree and the product lists by category | |
| `Sales` | the amounts of orders, and the reports made of them | `Catalogue` |
| `MCOrders`, `MCCheckout`, `MCPayments`, `MCSessions`, `MCFeed`, `MCSales` | instances for TLC; `MCOrders` also the two environments of the stock ledger | |
| `PaymentsProofs`, `OrdersProofs`, `SessionsProofs`, `FeedProofs`, `SalesProofs` | theorems | the module they are about, `TLAPS` |
| `SumProofs` | lemmas about sums over finite sets | `FiniteSetTheorems` |
| `AmountsProofs` | theorems about amounts and reports | `SalesProofs`, `SumProofs` |
| `LedgerProofs` | theorems about the stock and its ledger | `MCOrders`, `OrdersProofs`, `SumProofs` |

**One action per statement.** A request in flight is a record in `edit`,
`shopping`, `placing`, `closing`, `asking`, `serving`, `telling`, `nesting` or
`buying`, a client in the middle of its pages one in `walk`, a connection one in
`socket`. Its `pc` names the statement to come and its other fields are the
local variables it will use. Several rows of Rust between two statements belong
to the action of the first. The transaction of `place_order` is the one action
of several statements (`CommitOrder`): its UPDATEs are relative to rows it locks
until the commit, and its inserts show at the commit. Two such transactions may
wait for each other's stock rows; PostgreSQL then aborts one, which is
`DropPlacing` before its commit.

**State.** `stock[p]` is a row of the table; `cartOf`, `lines` are `cart` and
`cart_items` with the cart's own id kept apart from the session key, since
handlers hold the one while others change the other. `orders[k]` is the row of
order key `k` with its items; `first` is the product of `orders.stock_id`, and
`stale` says that `placed_at` is more than two hours ago. `reference` is
`orders.payment_reference`. A refresh token and the access token issued with it
go by one name in `Sessions`, where `access` stands for the Redis key too: a
token that was logged out is `revoked` until its expiry, because its key lives
that long; past it, revoked or not, it is `late`, for `jwt.rs:65` checks the
expiry with a leeway of a minute; then `lapsed`. `rows[t][f]` is what a farmer
may list of a table, newest first, a set for each timestamp, and `settled[t]`
the rows that a filter passes over. `log` is every event there ever was; the
channel holds the last `Capacity` of it, and a receiver is a position in it.
`sale[k]` is the order of `Orders` seen by its amounts, `now` an hour.

`place_order` is seen by three modules: `Orders` has its statements, `Sales` its
amounts, `Feed` its telling. Each leaves out what the other two are about, and
says so: in `Feed` only one request tells of an order, which is `OneWinnerPerKey`
of `Orders`, and in `Sales` the transaction finds its key taken or not.

**History variables.** `unreleased[k]` (the products of an order whose
reservation has not been taken back), `notified` and `announced` (the rows and
events a farmer was told by), `mailed`, and `lineage` (which token was exchanged
for which) are read by properties only, never by guards. So are the walk's
`sure`, `stirred`, `late` and `live` (what was there when a client began to read,
and what disturbed it), `shown` (what a client was sent), and of `log` the events
that the channel has forgotten.

**Abstractions.** Names, addresses and wording are left out. Where stock is
counted, quantities are natural numbers of a stored unit (the third decimal);
the numbers that a farmer sends have any scale, are counted in tenths of it, and
are rounded when a row is written (`Stored`), not when its status is decided; an
order's total in `Payments` is pounds and hundredths, because it is converted to
pence; in `Sales` quantities are thousandths and prices pence, so that a line is
exact in thousandths of a penny and a NUMERIC(10, 2) column rounds it. Days are
UTC days of a few hours. Ids are model values. A new row of a list shows up at
any place in it, or joins the rows of a timestamp: it is sorted by the start of
its transaction, which is not the order of the commits. A page holds as many
rows of each timestamp as fall into its places, and any of them (`Pages`). A
request that is refused at once and changes nothing is no step. The provider is
external: an Idempotency-Key gives the same intent for as long as it is
remembered, which is longer than any request lasts; only the holder of a client
secret can pay; an intent is paid at most once. The client that reads a list
page by page is external too: it goes on while the answer says that there are
more pages, and asks for pages of a positive size. A logout names the access
token that its client holds and that token's own expiry, as the comments of
`LogoutInput` ask (`routes/auth.rs:129`); with it comes a refresh token or none.

**Mutants.** Definitions whose comment says *Mutant of X* are X with the kind of
mistake one could make there (a dropped guard, a swapped order, a missing
constraint). Nothing uses them. Putting one in the place of X makes the property
named for it in `PROJECT.json` fail, so that each property is known to depend
on the code it is about.

## Runs

Runs that pass:

| Run | Question | Instance |
|---|---|---|
| `MCOrders_checkout` (of `MCCheckout`) | Do racing and interrupted checkouts leave one true order each, and do unpaid ones end? | 2 products, 2 keys, 2 requests; either they race against the job, or go one at a time against job and payments |
| `MCOrders_closing` | What do double, late and half closings do to the ledger, and which steps put it out? | 1 product, 2 keys, 1 checkout, 1 status change, the job, payments |
| `MCOrders_careful` | In which environment does a shop keep the promise of its stock? | 2 products, 2 keys, 1 checkout, 2 status changes |
| `MCOrders_shopping` | Do carts and stock edits survive rows that change under them? | 2 sessions, 2 cart ids, 2 shoppers, 1 checkout, 1 edit |
| `MCPayments_intents` | Is money taken once, for the right order, and noticed? | 2 orders, 2 requests, 2 intents, 1 total |
| `MCSessions_rotation` | Do accounts and sessions survive races and interruptions? | 2 addresses, 2 requests, 2 tokens while requests race, and a third when they take turns |
| `MCFeed` | Does a farmer learn of every order, by lists that move and a connection that may lag? | 2 farmers, 1 client, 3 keys with pages of 1, or 2 keys with a channel of 1 |
| `MCSales` | Does the category tree stay whole, and do amounts and reports account for each order once? | 3 categories of 2 requests; or 3 products of 2 farmers, 2 orders, 2 customers, 5 hours in days of 2, a period of 1 day, lists of 1 product |

`MCFeed` and `MCSales` settle at the start which concern a behaviour follows
(one of the two tables, or the connection; catalogue or sales), because the
concerns touch nothing of each other and their product says nothing more.

What they check:

- `OneWinnerPerKey`, `ToldOnlyOfStored`: of the requests with one order key one
  gets past the transaction, and what is told afterwards is what is stored.
- `ReservationsBacked`: a product's reservation never exceeds what the orders
  ask for that have not given it back, under every mistreatment the API allows.
  The converse (nothing given back too early) does not hold: closing an order
  twice takes back twice.
- `LedgerSlips` says when: a product whose reservation equals what the orders
  that are due ask for (open, or closed by a request that will release them)
  stays so in every step but four kinds. A release comes to nothing
  (`LosesRelease`: the request is dropped, or a row would go below zero); an
  order is released although it is due again (`ReleasesDue`); an order without
  a reservation is reopened, paid or closed once more (`RevivesOrder`: the late
  webhook of `routes/payments.rs:137` is one); or the job takes orders of several
  lines, or several of one product (`ReapsWrongly`). Racing checkouts, wherever
  they are dropped, and stock edits are not among them.
- `LedgerExact` is the equality where none of these happens: `ShoppingSpec`
  (shoppers, edits and checkouts only) and `CarefulSpec` (closed orders are left
  alone, no status change is dropped half way, no order goes stale).
- `ImplementsStockBook`: in `CarefulSpec` with one checkout at a time the shop
  keeps the promise of `StockBook`. `LedgerExact` is part of why, and is proved
  for that environment.
- `NoOversell` holds for one checkout at a time, and fails for two (below).
  `OversellCauses` says what it takes: a product with stock left for its orders
  is oversold only by the commit of a checkout that asks for more than is free
  by then, or by an edit. Closing cannot do it, not even the second delivery of
  an order: what is delivered beyond the reservation is there or the statement
  fails.
- `OrderedAreHonest`: a status that promises more than the free quantity is that
  of a product nobody has ordered. A product may have one from the start, since
  `create_product` compares what it was sent and the columns round it: 0.0004 is
  stored as 0.000 and `low_stock`. The first checkout recomputes the status from
  the row, and no checkout, closing or job makes it promise too much again. The
  job does leave one that promises less: it does not recompute the status. Stock
  edits break it, which is why the run that checks it has none; `EditsMislead`
  says which do: only those that decided on the status when less of the product
  was reserved, or on numbers that the columns round.
- `CartsSeparate`: requests that hold the id of a cart deleted under them never
  bring it back.
- `StaleOrdersEnd`: see fairness.
- `NoDoubleCharge`, `ChargeIsReferenced`, `PaidMeansCharged`, `ConfirmedOnce`,
  `ReferenceSticks`, `ChargeSettles`: the money. `IntentCustody` is the chain of
  reasons behind them and the inductive invariant of the proofs.
- `ImplementsOrderBook`: `Orders` and `Payments`, which see the orders table
  from two sides, both implement `OrderBook`: an order appears once and its
  contents never change, a payment is settled at most once and confirms, only
  unpaid pending orders expire.
- `OneRegistration`, `ExchangedIsSpent`, `LogoutComplete`, `UsedMeansVerified`:
  accounts and sessions. `ImplementsAccountBook` puts them together: an address
  is registered and mailed once and verified before its link is used up; a
  session is opened for a registered farmer, or continues one of the same farmer
  that is spent; a refresh token that is spent stays spent; an access token that
  is barred stays so until its expiry, and is over for good past the leeway; and
  one step ends the refresh tokens of one farmer only. Between expiry and leeway
  a logged-out access token passes again, and one logged out then is not stopped
  at all: `LogoutComplete` says no more than that nothing else is left of it.
- `WalkComplete`: who reads page after page has seen every row that was there
  at the start, although new rows push others to later pages. It states the
  three exceptions that the code has: a filter whose flag is set meanwhile;
  `GET /orders`, which counts before it reads, so that an order placed between
  the two statements of the last page can hide another; and rows that share a
  timestamp (`Twins`), which the lists are not sorted any further by, so that
  they may change places between two pages and one of them be skipped.
- `ShownInOrder`, `NothingMissed`, `Delivered`: a connection shows its farmer's
  events without a gap and in order, or ends; the list read after the client has
  heard from the server, together with what the connection shows, misses no
  order whose notification has a timestamp of its own; and events for others
  hold up none. Before the first frame the client
  cannot know that it is subscribed (`handler.rs` subscribes after the upgrade
  was answered), which is why `NothingMissed` wants it to have heard.
- `CatalogueComplete`: every category is in one place of the tree and every
  product on offer on one top-level page, although the parent is looked at
  before the child is inserted.
- `AmountsAgree`: an order's total is that of the stored items, whatever becomes
  of the prices meanwhile, and the subtotals, rounded each, stay within half a
  penny per item of it.
- `ReportsAgree`, `IncomeCoversRevenue`, `CustomersCounted`: each order that is
  not cancelled is one farmer's revenue once, also when its items are of two
  farmers (its farmer is that of `orders.stock_id`); the chart shows all of it; the
  listed products (`LIMIT 5`, in the model `Top`) never show more but for
  rounding, and all of it where no farmer sold more products than are listed;
  the books differ from the analytics of as
  many days by the hours of the first day only; repeat customers are those that
  came back to this farmer.
- `TypeOK` (`SalesTypeOK`): each module's one type invariant; for the stock it
  includes the two CHECK constraints, for the sessions the foreign keys.

Runs that find what a comment promises to fail:

| Run | Property | What happens |
|---|---|---|
| `MCOrders_oversell` | `NoOversell` | Both of two requests pass the "live stock check" (`routes/orders.rs:97`) before either reserves. A consequence: delivering the second order fails on the CHECK constraint after its status was written, and it stays delivered and reserved. |
| `MCOrders_leak` | `ClosedReleased` | The job cancels an order of two products and returns one product's stock, of which it takes the quantity of both. In the same way two orders of one product cancelled in one batch return only one order's stock, for the UPDATE touches the row once. |
| `MCPayments_declined_first` | `ChargedIsMarkedPaid` | After a declined card the order's payment is `failed`; a later success of the same intent finds no `pending` row. The customer is charged and the order stays failed. |
| `MCSessions_reuse` | `ReuseEndsChain` | Each refresh starts a new family, so that the answer to a reused token revokes that token alone. |

The stock edit has no such run. It writes back the columns that its request does
not name as it has read them, so that the later of two edits undoes the other
(`routes/stock.rs:225`), and a status decided from reservations it has read, so
that it may promise what a checkout has reserved meanwhile (`:211`), and from
numbers that the columns then round (`:212`). No comment promises otherwise:
these are hazards in `PROJECT.json`. `EditsMislead` delimits the last two, and
the run that checks `OrderedAreHonest` has no editor.

**Bounds.** Every constant of a `.cfg` is a bound on a set, and those that cut
behaviour off are named where they are declared: `CartIds`, `Intents` and
`Tokens` (how many are ever created), `LastAlone` (once the last token is
issued, requests go one at a time, no link is used up and nothing expires),
`Paired` (a logout brings the refresh token of its own session, or none and goes
alone), `FewExpired` (what is past its expiry is of one session, or is one
link), `MaxLine` (how far a line grows), `Requested` (which statuses farmers ask
for), `Baskets` (what carts hold at the start), `Few` (orders while a client is
connected), `SomeCarts` (a line with a fraction of a penny, two that round
apart, an order of the second farmer only), `Top` (a list of one product stands
for the five of the code), `End` (the last hour). Two requests are enough to
race, and a third finds nothing that it could do to the first two that they
cannot do to each other: each request's effect on another is through a row. Two
keys are the least with batches, and with an order that is not concerned; two
products the least with a row that is not the first; stock of 2 or 3 against
orders of 1 and 2 has orders that fit, fit together, and do not. `Levels` and
`Thresholds` are in tenths of the stored unit: among them are a quantity of 0.4,
stored as 0, and a threshold of 1.6, stored as 2, the two ways in which rounding
makes a status promise too much. Two intents are the least that can charge
twice. Pages of one row and a channel of one event make every insertion shift a
page and every second event a lag; three categories are the least that could
make three levels, and five hours in days of two reach past a period of one day,
from the middle of it.

No run checks deadlock: all of them stop when the keys, ids, intents or tokens
they were given are used up, as a system without requests does.

**Fairness.** Three kinds of it are assumed. `StaleOrdersEnd` assumes weak
fairness of the job on each order: pg_cron runs it every 15 minutes, and SKIP
LOCKED skips an order only while another statement has it locked. `ChargeSettles`
and `ChargedIsMarkedPaid` assume that each event of a successful payment is
processed if it has something to change for ever: the provider repeats an event
until it is answered with success, and the handler answers so only after its
UPDATE. `Delivered` assumes that the task of a connection is scheduled and that
its client reads what it is sent (`SocketFairness`, weak fairness of `Recv` and
`Send`); a client that does not is one whose connection is left waiting, or
breaks (`Leave`). Nothing is assumed of handlers: any request may stop for ever.

## Proofs

| Module | Proves |
|---|---|
| `PaymentsProofs` | `TypeOK`, `IntentCustody`, `NoDoubleCharge`, `ChargeIsReferenced`, `PaidMeansCharged`, `ConfirmedOnce`, `ReferenceSticks`, `ImplementsOrderBook` |
| `OrdersProofs` | the typing of carts, orders and requests, `CartsSeparate`, `OneWinnerPerKey`, `ToldOnlyOfStored`, `ImplementsOrderBook` |
| `LedgerProofs` | `TypeOK` with the stock rows, `ReservationsBacked`, `OrderedAreHonest` (without editors), `EditsMislead`, `OversellCauses`, `LedgerSlips`; `LedgerExact` of `ShoppingSpec`; `LedgerExact`, `NoOversell` and `ImplementsStockBook` of `CarefulSpec` with one checkout at a time |
| `SessionsProofs` | `TypeOK`, `OneRegistration`, `ExchangedIsSpent`, `UsedMeansVerified`, `LogoutComplete`, `ImplementsAccountBook` |
| `FeedProofs` | `TypeOK`, `ShownInOrder`, `WalkComplete`, `NothingMissed` |
| `SalesProofs` | the typing of the catalogue, `CatalogueComplete` |
| `AmountsProofs` | `SalesTypeOK`, `AmountsAgree`, `ReportsAgree`, `IncomeCoversRevenue`, `CustomersCounted` |
| `SumProofs` | lemmas only: what a sum over a finite set is |

All hold for any sets of keys, requests, intents, clients and so on, infinite
ones included but where something is summed or counted: `FiniteAssumption` of
`Orders` and of `Sales` says that there are finitely many products, orders and
farmers, `KeysAssumption` of `Listing` that there are finitely many orders. The
other assumptions are named in the modules: totals have two decimals (the
column's type), quantities are natural and those asked for positive, farmers ask
for statuses there are, pages and channels hold something, days have hours, and
`None` is none of the records it stands in for. A theorem of a `Spec` is about
more behaviours than the runs are: the instances restrict the initial states and
the environment, the proofs do not, except for those of `ShoppingSpec` and
`CarefulSpec`, which are environments.

*Payments.* `NoDoubleCharge` is far from inductive. What makes it true is a
chain, each link of which is a conjunct of `IntentCustody`: a request in flight
is for a stored order (`AskedPlaced`); an intent held for an order by a request,
a column or the provider's memory was made for it and its total (`HeldIntents`);
all requests in flight for an order hold the same intent, the one its reference
is or will be (`OneIntentInFlight`: here the provider's memory and the
unconditional UPDATE meet); a secret leaves only for the referenced intent
(`SecretsReferenced`); only with a secret is an intent paid
(`ChargesHaveSecrets`). `TypeOK /\ IntentCustody` is inductive. A captured
intent is then the reference of its order, and an order has one reference.
`PaidMeansCharged` and `ConfirmedOnce` each add themselves to that invariant.

*Orders.* The typing of carts and orders with `CartsSeparate` is inductive
(`Typed`). `OneWinnerPerKey` and `ToldOnlyOfStored` follow from it with the
observation that a request past its commit has the key's order stored, with its
own lines, and that an order's lines never change; that a notification comes
before its event is one more conjunct. The refinement maps every action to a
step of `OrderBook` or a stutter.

*Sums.* A sum over a set is a fold, and the fold a function on the subsets that
is chosen by its own equation. Induction over it is out of the provers' reach,
so `SumProofs` argues by a smallest subset for which a claim fails, which exists
because the proper subsets of a finite set are well-founded: the equation has a
solution, and one only; any element may be taken first; sums are monotone,
change with one element, split over a partition, and exchange.

*Ledger.* Each statement of `Stock` is a lemma about one row: which columns it
changes, that the CHECK constraints hold after it, and what it does to the
status. `ReservationsBacked` is inductive with the typing and with the fact that
what is unreleased was placed (`BackedInv`): a checkout adds to both sides, a
release takes `GREATEST(0, ...)` off one and clears the other, the job takes
back no less than it clears. `LedgerSlips` is one lemma per kind of step
(`ReservingBalances`, `ReleasingBalances`, `ReapingBalances`, and
`QuietBalances` for those that change neither the row nor which orders are due):
the sum of what is asked changes by one term, the row by as much. That a status
change under way has its order no longer pending (`ClosingNotPending`) is what
keeps the job away from it. `EditsMislead` needs that a pending edit's status
was right for some reservation of the past, on the numbers it was sent
(`EditDecided`); more free stock never lowers a status, and numbers that are
stored as they came decide as the row does. `ShoppingSpec` is exact by the same
lemmas. The parts of the disciplined shop need each other (`CarefulInv`): the
ledger is exact because no release is cut off at zero or fails on a constraint,
that is because nothing is oversold, and nothing is oversold because the ledger
is exact and what a checkout has read stays free until its commit
(`CommitCovered`), which is where one checkout at a time is used.
`MCOrders_oversell` shows that it is needed. With that invariant each
reservation is a `Take` of `StockBook`, each release a `PutBack` or a
`HandOver`, and every other step of that shop leaves rows and claims as they
are.

*Sessions.* The requests in flight carry what they have read past other
requests' writes. `RequestsTied` says what of it stays true (the account exists,
the tokens were issued, the one being exchanged is revoked and the same farmer's,
a link is deleted after its farmer is verified, a refresh token spent by logout
after the access token is no longer valid), `OwnFamilies` that each token is its
own family, so that a reused token ends one session at most. The refinement adds
`LinksTied`: whoever registers an address has not stored its link yet
(`OneRegistration` keeps others from doing so), and only a link that was stored
is verified. Each statement that writes is then a step of `AccountBook`, or a
stutter when its row says so already (a second click on a link, a second
revocation of a token).

*Feed.* Two halves. The log's (`Connected`): a receiver's position and what its
client was shown determine each other, so that a receiver that is given every
next event shows all of its own. The walk's (`WalkSound`): a row that was there
at the start and has a timestamp of its own is seen, or is no nearer to the
first row than the page to come: its place is one more than the number of newer
rows, which insertions only let grow (`Newer`), so every page that holds that
place holds the row, and the count that ends the walk counts it. It needs that
no row is in the list twice: an order that no request tells of yet is in neither
table, and one whose notification is to come is not among the notifications
(`Fresh`), so that the sets of different timestamps stay disjoint (`Apart`); and
a row that shares its timestamp does so for good. `LiveSure` joins them: what
was announced before the subscription was stored by then, since the notification
is stored before the event is published (`StoredFirst`).

*Catalogue and amounts.* That slugs differ and that every parent, also one that
a request in flight has looked at, is and stays at the top (`TwoLevels`) makes
the tree complete. A row's total and subtotals are functions of its own columns
(`Priced`) and no statement touches either later; the distance between rounded
and exact sums is a bound per item, summed. The reports are sums over a
partition of the orders by farmer, by day, or over the matrix of orders and
products; the listed products are part of those, and all of them where there is
room.

*Model-checked only.* Liveness (`StaleOrdersEnd`, `ChargeSettles`, `Delivered`),
which is beyond TLAPS. Every other property of a passing run is a theorem.

## Not modelled

Reading handlers that show a row or a table as it is: they change nothing. Of
the reports, the counts by county and by hour and the stock levels, each one
SELECT with nothing to agree with. The product list's search, filters and pages
beyond the category. `expenses`: the table is in none of the migrations, and an
expense is one INSERT that only its sum reads. `tracking`: an append-only log of
free text that no other code reads, after an ownership check that nothing can
outdate. The auth middleware while Redis cannot be reached, when it takes a
revoked access token for a good one (`middleware/auth.rs:50`): what `Sessions`
says of a revoked token is what Redis answers. The migrations lack
`farmers.is_verified` and `verification_tokens`, which `routes/auth.rs` uses;
they are modelled from it. `stripe_get_intent` does not look at the HTTP status:
an error answer becomes an intent without id and secret, which changes nothing.
Pages of a `per_page` below 1. Emails, beyond how often a confirmation is sent;
uploads; signature checks and cryptography. The scheduled jobs 1, 2, 5, 6 and 7,
whose `UPDATE`/`DELETE ... LIMIT` PostgreSQL rejects, so that they change
nothing (job 2 would also leave reservations out of account if it ran).
`PROJECT.json` says for each component why, and lists with each hazard the
properties that would catch it, or why none does.

## Plan

Done, in this order: `Stock`, `Cart`, `Orders` with `OrderBook` (what sells),
`Payments` (what is charged), `Sessions`; then `Listing` and `Feed` (what
farmers are told), `Catalogue` and `Sales` (what is offered and what it is
worth); the proofs of all of them; and the promises of stock and of accounts,
`StockBook` and `AccountBook`, with the refinements proved.

Left:

1. `Orders` with `Payments` in one module. They meet in the orders row, and today
   through `OrderBook`, which both implement; a common instance would also say
   what becomes of the stock of an order that is paid after the job took it back.
2. The stock edit against an abstract row of which each request changes the
   columns it names; it does not implement it, which today is a hazard only.
3. `StaleOrdersEnd` and `Delivered` for more than the instances, by hand: the
   enabledness they need is in the inductive invariants.

## Running

In this directory, `tlc -config MCOrders_closing.cfg MCOrders` checks one run.
The module of a `.cfg` is what its name begins with, but for
`MCOrders_checkout.cfg`, which is of `MCCheckout`. `tlapm PaymentsProofs.tla`
checks the proofs of one of the eight modules named above; `FeedProofs` and
`LedgerProofs` take the longest.
