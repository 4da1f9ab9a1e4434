# ShopFlow backend in TLA+

Models of the ShopFlow API (`src/backend/app`, FastAPI + PostgreSQL + Redis +
Stripe), checked with TLC on small instances and, for the central theorems,
proved with TLAPS for every instance. Paths below are relative to
`src/backend/app` unless they begin with `src/`.

## 1. The system

A request is one asyncio task with one SQLAlchemy session (`db/session.py`).
Every `await` is a point where another request may run, in this process or in
another one. Two stores are involved and no transaction spans both:

* PostgreSQL, READ COMMITTED. What a handler reads without `FOR UPDATE` may be
  stale by the time it writes. `AsyncSessionLocal` has `expire_on_commit=False`,
  so objects keep the values they were read with after a *commit*; a *rollback*
  expires them all the same.
* Redis: one command is atomic, two commands are not.

| Component | State it keeps | Operations | What makes it correct |
|---|---|---|---|
| Checkout (`services/order_service.py:85-175`) | `products.stock_qty`, `orders`, `order_items` | `POST /orders/checkout` | sells what is there, once, at the price of the moment; all or nothing |
| Order status (`order_service.py:232-326`) | `orders.status`, `stock_qty` | `PATCH /orders/{id}/status` by customer, merchant, admin | the transition table; a cancellation returns the stock once |
| Payment webhook (`payment_service.py`, `api/routes/webhooks.py`) | Redis `stripe:webhook:event:{id}`, `orders.status` | Stripe events | each event takes effect once, and takes effect |
| Payment session (`payment_service.py:267-307`) | none | hosted session at the end of a checkout | its failure leaves a consistent order |
| Coupons (`coupon_service.py`) | `coupons`, Redis `coupon_usage:{code}` | validate, discount, reserve, release | never used beyond `usage_limit`; no use lost |
| Cart (`cart_service.py`) | Redis hash `cart:{user}` | add, update, remove, read with pruning, clear | no addition lost, stock checked |
| Catalogue (`product_service.py`) | `products` | create, update (absolute `stock_qty`), soft delete, list, search | does not disturb checkouts under way |
| Refresh tokens (`token_store.py`, `api/routes/auth.py`) | Redis set `refresh_family:{fid}` | login, refresh with rotation, logout | one live token per family; reuse and logout end the family |
| Admin users (`admin_service.py:87-144`) | `users.role`, `users.deleted_at` | update user | at least one active admin remains |
| Accounts, reviews (`auth_service.py`, `review_service.py`) | `users`, `reviews` | register, log in; create, update, delete review | uniqueness, checked before the insert |
| Rate limiter (`api/rate_limit.py`) | Redis counter per identifier and minute | every request | at most `limit` per key and minute; counters expire |
| Pagination (`api/pagination.py`, the `list_*` functions) | the client's cursor | page by page | every row once |
| Statistics, analytics (`admin_service.py:150-198`, `merchant_service.py`) | none | several aggregates | totals that fit together |

How they interact: a checkout reads the cart, locks products, reserves a coupon
use in Redis, commits order and stock, deletes the cart and asks Stripe for a
session. Stripe later calls the webhook, which confirms or cancels the order;
a cancellation, also from the PATCH endpoint, locks the same product rows and
returns the units. Merchants overwrite those rows meanwhile. Authentication
and the rate limiter stand in front of every request and share no state with
orders.

The hard behaviours are therefore: reads without locks followed by writes,
effects in two stores with a crash in between, several row locks in no fixed
order, Stripe's at-least-once delivery, and error paths after a partial effect.
`PROJECT.json` lists them under `hazards`, each at its line with the properties
that watch it or the reason why none does.

## 2. Modules

| Module | Models |
|---|---|
| `RowLocks` | `SELECT ... FOR UPDATE` on several product rows, lock by lock, and PostgreSQL's deadlock detection. External, as the two locking statements use it. Shared by the next two detailed modules. |
| `Inventory` | Abstract: what the shop promises about stock. `Sell`, `Void` and `Overwrite` are single steps. |
| `Checkout` | `POST /orders/checkout` with coupon, commit, cart and Stripe, against cart writes, merchant edits and faults. |
| `OrderLifecycle` | Status changes, restock and webhook for orders already placed, with faults. |
| `Users` | The users table: registration and the admin's PATCH, one action per SQL statement. |
| `TokenChain` | Abstract: what refresh-token rotation keeps to. A family is a chain of tokens with one live at most; an exchange is `Take` and then `Put` or `Lose`. |
| `Sessions` | Login, refresh and logout, one action per Redis command, composed with `Users`. |
| `Catalogue` | The products table and the merchant's create, update and delete, read and write apart. |
| `Cart` | The five cart endpoints, one action per Redis command and SELECT. Extends `Catalogue`. |
| `Reviews` | Creation, edit and deletion of reviews, statement by statement. Extends `Catalogue`. |
| `Storefront` | `Cart` and `Reviews` together over one catalogue, and walks through the pages of the two listings. |
| `RateLimit` | The fixed-window limiter: INCR, EXPIRE, TTL, minutes, expiring keys. |
| `Money` | `compute_discount` and the total, on integer cents. |
| `Reports` | Platform statistics and merchant revenue, SELECT by SELECT, behind `RateLimit`; orders discounted by `Money` move meanwhile. |
| `MC...` | The values and symmetry sets of the TLC instances of `Checkout`, `OrderLifecycle`, `Sessions`, `Storefront`, `Reports`. |
| `Sums` | Lemmas about sums over finite sets, for the properties about units and revenue. |
| `...Proofs` | Theorems, section 4. |

### Checkout and the code

`pc[r]` is the point the handler of request `r` has reached, one value per
`await` that something else can get between:

| `pc` | stands before | action |
|---|---|---|
| `idle` | `_raw_cart` (:92) | `ReadCart` |
| `select` | the locking SELECT (:101) | `SelectRows`: its snapshot |
| `locking` | each row of it, then the validation (:112-130) | `LockRow`, `SkipRow`, `AbortDeadlock`, `RefuseLines`, `AcceptLines` |
| `coupon` | `validate_coupon`, `INCR` | `RefuseCoupon`, `ReserveUse` |
| `overflow` | the `DECR` of a refused reservation | `UndoReserve` |
| `insert` | flush and commit (:142-164) | `Commit`, `RollBack`, `LoseCommitAck` |
| `committed` | `clear_cart` (:171) | `ClearCart` |
| `cleared` | the Stripe call in the route | `OpenSession` |

Rows change only at a commit, in one step; what the transaction has read stands
in `seenStock` and `seenPrice`, and the commit writes the absolute number
computed from it, as the ORM does. A row whose `WHERE` no longer holds when its
lock is granted is left out (`SkipRow`), as PostgreSQL re-evaluates it. `shelf`
folds `status` and `deleted_at` into one value. Coupon value and total are not
in this model: no property here depends on them.

`RollBack` deserves a word, since it returns no coupon use although line 168
calls `release_usage`. `Session.rollback()` expires every instance of the
session. The first thing `release_usage(coupon)` does is to read
`coupon.usage_limit` (`coupon_service.py:71`), and an `AsyncSession` cannot
reload an expired attribute on access: it raises `MissingGreenlet`. The `DECR`
is never sent. Run `checkout_coupon_leak` shows what follows. It is the only
`rollback()` in the program, so the other handlers are not concerned.

### OrderLifecycle and the code

A request is a PATCH (`AcceptPatch`, `RefusePatch`) or a delivery of a Stripe
event (`ClaimEvent`, `IgnoreDuplicate`, then `ApplyEvent` or `IgnoreEvent`).
`current[r]` is `order.status` as read, without a lock. Both go on to
`BeginRestock`, `LockRow` and `Write` if they cancel, or straight to `Write`.
`Write` is the commit: it writes the locked rows and, if the new status is not
the one the ORM object was loaded with, the status. A webhook then replies
(`Reply`), which is when Stripe stops sending. `acked` holds the events that have had a
2xx. What an event says (`event[e]`: kind, order or none, whether the amount
matches) is fixed at the start; Stripe may send it to as many requests as there
are. `supply` is a history variable for the properties about stock.

`Apart` is a condition, not code: between the read of an order's status and the commit that
relies on it (`Deciding`) a request is alone with its order, as it would be if the order were
read `FOR UPDATE`. `ApartSpec` is the same program under that condition. What holds under it
and fails without it is what the missing lock costs.

### Sessions, Users and the code

A request that mints a refresh token names it: token `r` is the `jti` made by request
`r`, and `fid[t]` and `who[t]` are its claims. `issued` is what clients have received;
any of them may present any of those, again and from several tabs. `pc` stands before
the command of its name:

| `pc` | stands before | action |
|---|---|---|
| `start`, `expire` | SADD and EXPIRE of `start_family` | `StartFamily`, `ArmFamily` |
| `load_user` | `db.get(User)` of `refresh` | `LoadUser`, which chooses between rotating and revoking |
| `srem` | the SREM of `rotate` | `ConsumeToken`: its answer decides |
| `sadd`, `expire` | SADD and EXPIRE of `rotate` | `StoreToken`, `ArmFamily` |
| `burn`, `revoke` | the DEL | `DeleteFamily` |
| `load`, `count`, `clash`, `commit` | the statements of `update_user` | `LoadTarget`, `CountAdmins`, `CheckEmail`, `CommitPatch` and their refusals |
| `insert` | the INSERT of `register_user` | `InsertUser`, `ViolateUnique` |

A Redis set disappears with its last member, and its TTL with it (`SetFamily`): between
SREM and SADD the family does not exist. A logout or a reuse detection that falls there
deletes nothing, and the SADD makes the family live again. `TokensChained` does not
hide this: what is live in `TokenChain` is what the set in Redis holds, a rotation between
its two commands is an exchange under way (`coming`), and what the abstract module
promises is that a token once taken is never live again and that an end while no exchange
is under way is final. The documents promise more, that every logout and every
reuse detection ends the family; that is `EndedStaysEnded`, which `sessions_revived` refutes.

`update_user` locks nothing; `seen[r]` is the row as the session's identity map holds it,
which for one's own account is the row that `get_current_user` read (`Loaded`).
The unique index is part of the writing actions, so that addresses are unique holds by
itself. What depends on the handlers is that they look first: `overtaken` is a history variable
with the requests that had looked, and were about to write, when another one wrote the
same address, and `ConflictsAreRaces` says that the index (`ViolateUnique`, a 500)
refuses nobody else. `Reviews` has the same for its unique constraint
(`SecondReviewsAreRaces`).

### Storefront and the code

`Catalogue`, `Cart` and `Reviews` share `pc` and the request's locals; the read of a
handler and its write are two actions. `Column` is the unit of work: an UPDATE names the
columns whose new value differs from the one loaded. `add_item` is a read (`ReadLine`)
and a write (`WriteLine`): two tabs that add at once lose one addition, which is why
`UndisturbedAdd` speaks of requests with the cart to themselves (`alone`). A walk through
a listing is one request: each page is one SELECT, and the cursor of a page is handed
back for the next. Keys are numbers in the order of the listing: ids for products, for
reviews the time counted down, since they are listed newest first. `created` is when the
transaction of a review began (PostgreSQL's `now()`), so a review may commit behind a walk
that has passed its place; `WalkMissesNothing` is about rows that are there all the while
(`steady`).

Two outcomes are worth knowing, though no document promises otherwise: two requests
that race on a unique constraint get a 500 where one after the other would get a 409
(`ViolateUnique`, `ViolatePair`), and so does an edit of a review that has just been deleted
(`LoseReview`), while its second deletion is answered as the first.

### Reports and the code

`Arrive` puts the key together, and from there on the request keeps its minute: its INCR
may come after the minute has passed. The TTL runs from the EXPIRE, which follows the
first INCR of the key, and `expires` is the minute in which it ends: the next one, in which Redis
drops the key at some point (`ExpireKey`), before the minute is over (`Tick`), whoever still has
that key in hand. `late` is a history variable with the requests that find it gone: they are
counted from one again, and so get past the limit. The comment in the code, "Bucket by
wall-clock minute so the counter and its TTL align" (`rate_limit.py:49`), is true of the
bucket and not of the TTL. `LimitHolds` leaves these requests out and says that nobody else
gets past the limit. `Plan` is the order of the SELECTs of each report,
`figures[r]` what they returned. The smallest window that an order falls in is fixed
(`Windows`): a report takes no time compared to a day. `status` folds the five statuses into delivered
and not, which is all that revenue asks. `disturbed` marks reports during which an admin
took a delivery back, the one move that makes a later SELECT see less. Even without that,
`total_revenue` may be below `last_7_days` of the same answer, because it is read first;
the property therefore compares it with the figure that is read last.

## 3. Runs

Bounds are in the `.cfg` files. Requests are used once: a retry is another
request. When all have been answered the models stutter (`AllAnswered`, `Rest`, `Idle`),
so a deadlock reported by TLC would be a real one.

| Run | Instance | Shows |
|---|---|---|
| `checkout` | 2 concurrent checkouts of 2 products, 1 unit of each at the start and 1 use of a coupon, named or not; cart writes and edits of one product (stock, price, withdrawal) meanwhile, all faults; `FairSpec` | `SellsAtomically` (`Checkout` implements `Inventory`), `ValidatedStaysTrue`, `RowsPinned`, `CouponWithinLimit`, `CouponAccounted`, `EveryCheckoutEnds`, `TypeOK` |
| `orders_race` | 3 requests, 2 at a time, 2 orders, 2 products, crashes and failing commits | `NoUnitLost`, `RestocksWhole`, `RowsPinned`, `TypeOK` |
| `orders_apart` | 3 requests, 2 at a time, 2 orders over the same rows, no admin, with faults; `ApartSpec`: no two decisions on one order at once | `RestocksOnce` (implements `Inventory`), `FollowsTable`, `NoPhantomUnit` |
| `orders_payment` | 2 overlapping requests, 2 orders over the same rows, no faults; `FairSpec` | `AckedIsApplied`, `EveryRequestEnds` |
| `accounts` | 4 session requests and 2 writes to the users table, 2 at a time; 2 admins, one more id; crashes | `TokensChained` (implements `TokenChain`), `OneLiveToken`, `ExchangedOnce`, `BurnHasCause`, `KeysExpire`, `ConflictsAreRaces`, `LastAdminOnlyByStaleActor`, `TypeOK` |
| `storefront` | 3 requests at a time, of any kind; 3 product ids, 2 customers, 2 old reviews, pages of 1; crashes | `OnlyUnavailableLinesVanish`, `UndisturbedAdd`, `CartsExpire`, `DeletedStaysDeleted`, `ErasedStaysErased`, `SecondReviewsAreRaces`, `WalkMissesNothing`, `WalkRepeatsNothing`, `TypeOK` |
| `reports` | 2 requests of 2 callers, limit 1, 2 minutes; one report over 2 orders of 2 merchants, 2 coupons; crashes | `LimitHolds`, `RefusedOnlyWhenFull`, `CountersExpire`, `WindowsNested`, `AverageNotInflated`, `DiscountAccounts`, `TypeOK` |

Why these bounds are enough for the cases they are there for: two products for every lock
cycle between two transactions; two orders over them for restocks that block one another;
two checkouts for a coupon of limit one to be reserved, refused and returned while the
other counts; one event delivered to several requests for redelivery; a login and
three more requests for a race, a replay or a logout between SREM and SADD, and for a
token that is not its family's first to be taken, presented again and burned; two
admins for each to see the other, or for two writers to want one address; three requests for a walk of two pages with
two writes around its second one, or for two tabs and a merchant; two requests for the
last place of a minute, or for one that comes when the key of the other has expired. The theorems of section 4 remove the bounds for all of the safety
properties.

The bounds on what would not end by itself are `MaxInFlight` (overlapping requests),
`Edited` (products that merchants edit during checkouts), `MaxReports` (admitted requests whose report is followed), `LastMinute` (the clock of the
limiter), `Horizon` (transactions that create reviews) and `MaxQty`. `Permutations(Requests)`
is a symmetry of every safety run: no definition compares two requests, and each
`CHOOSE` in a property has at most one candidate or is over numbers. So is the exchange of the
two admins of `accounts` with their addresses. The two runs with
fairness, `checkout` and `orders_payment`, use none: that is why their instances are the
smallest. Larger quantities, deleted products and edits of both products at once are left to
the theorems about `Checkout`, which cover all of its properties but `EveryCheckoutEnds`.

Runs that TLC refutes, each a disagreement between the code and a sentence
of the repository (`findings` in `PROJECT.json` has the quotes):

| Run | Refuted | How |
|---|---|---|
| `checkout_coupon_leak` | `UseReturned` | a commit fails, `release_usage` raises before its `DECR` |
| `orders_double_restock` | `NoPhantomUnit` | two cancellations read the order before either commits |
| `orders_lost_event` | `AckedIsApplied` | a crash after the claim; the redelivery is a "duplicate" |
| `accounts_last_admin` | `AdminRemains` | two admins demote each other; each count sees two |
| `sessions_revived` | `EndedStaysEnded` | a logout between the SREM of a refresh and its SADD |

Every property of a passing run also has a mutant: a plausible mistake in one
mapped definition (written beside it, marked `Mutant`) with which the property fails.

### Fairness

`WF_vars(Step(r))` for each request: a handler that has begun and can go on
does. That is the event loop's scheduling, PostgreSQL granting a lock that stays
free, and its deadlock detector ending a cycle that stays closed. Nothing obliges
clients, merchants or Stripe to act, nothing obliges a fault to happen, and
`ReadCart`, `Begin` and `Crash` are not fair. Only `Checkout` and `OrderLifecycle` state
fairness: their requests wait for each other's locks. The handlers of the other modules
wait for nobody, so that they end is plain from their code. Weak fairness is enough for the locks
here because requests are used once: a row cannot be taken away from a waiting
request for ever. No liveness is claimed for unbounded streams of requests.

## 4. Proofs

All theorems hold for every set of products, requests, customers, orders and
events (requests finite where something is counted), every limit and every
subset of the faults, under the named assumptions on the constants.

**`CheckoutProofs`.** Neither `TypeOK` nor `RowsPinned` is inductive. That
`stock` stays natural at a commit needs the validation to hold still, which needs
the locks, which needs that every row a request holds is as it was read. `IInv`
states this point by point: `TodoWhileLocking`, `LinesKept`, `StillPurchasable`,
`NoOrderYet`, with `RowsPinned` and `TypeOK`. From it:

* `TypeCorrect`, `LockedRowsPinned`, `ValidationLasts`;
* `ChecksOutAtomically`: `Spec => SellsAtomically`, the refinement of `Inventory`.
  The commit is the linearisation point: `StoreOrderSells` shows that it is `Sell`
  against the rows as they are then; everything else but edits stutters.

**`CouponProofs`.** The counter that `reserve_usage` tests is a bound on the orders,
not their number: INCRs of refused and failed checkouts are in it. `CInv` says that
the counter is the number of holders and that `Kept`, the uses that have or may
still get an order, is within the limit. An INCR within the limit bounds
`Kept` by the counter; one beyond it adds nothing to `Kept`; every other step
shrinks `Kept`. From it `LimitKept` and `UsesAccounted`, under all faults.

**`OrderLifecycleProofs`.** `IInv` adds to the types that a request holds rows only
while it cancels, that held and awaited rows are together exactly the rows of
its order, and what its job is. From it `TypeCorrect`, `LockedRowsPinned` and
`WholeRestocks`: however requests race, stock moves by whole orders. `UnitsKept` (`NoUnitLost`)
adds them up. What is needed is that a commit which makes an order cancelled has
locked its rows and brings its units back (`CancelsRestock`), and that only finitely many orders are cancelled,
each by a request, so that their sum can be taken even where `Orders` is infinite. A commit then
either adds one order to the sum with its units, or adds units to stock alone. Assuming no faults and
no admin, `PaymentsApplied` (`AckedIsApplied`): `PaymentsTaken` says that a claimed payment has moved
its order or has a handler that will, and that nobody is about to make an order pending again.

**`OrdersApartProofs`.** About `ApartSpec`. `Fresh`: every decision under way still agrees with the
order's status, since the only requests that write meanwhile write other orders. Without
admins what has been decided follows the table (`DInv`), which gives `TableFollowed` (`FollowsTable`) and
`OnlyAdminsReopen`: a cancelled order stays cancelled (`StaysCancelled`). For any roles, `StaysCancelled` is
what the next two assume: a cancelled order that an admin moves on takes no stock, and would
be restocked again, within the documented "any transition". They are `RestockedOnce`
(`RestocksOnce`, the refinement of `Inventory`) and, for finitely many orders, `UnitsNotRepeated` (`NoPhantomUnit`),
which proves more than it says: stock is exactly the supply plus the units of the cancelled orders
(`UnitsExact`). With the
refuted runs this locates the defects: overlap of decisions on one order, and admins who
reopen, are all that breaks the rules; locks on products, overlap on other orders, crashes and failing
commits do not.

**`SessionsProofs`.** `AInv` adds to the types what a PATCH or a registration knows at
each statement; `CountAdmins` and the guard on one's own account make `LastAdminGuarded`
follow, since a commit that removes the last admin cannot be of that admin, nor of
another one who is still active. `TInv` says where a token can be: one that was sent to a
client is the work of a request that has ended and is never added to a family again
(`Members`, `TokenInStep`), and one that is not in its family was taken out by somebody
(`LossHasCause`). From these `OneTokenLives`, `NothingExchangedTwice`, `BurnsHaveCause`,
`FamiliesExpire`, and `RotationChains`, the refinement of `TokenChain`:
SADD at a login is `Start`, SREM is `Take`, SADD of a rotation is `Put`, a process that dies between
the two is `Lose`, the DEL of a family that Redis has is `End`, all else stutters. That a family has no live token while
one is coming (`OneTokenLives`) is what makes `Put` possible and `Only` a function of the state.
`ConflictsRaced` (`ConflictsAreRaces`) is inductive with `EmailsUnique` and what a PATCH holds of its target:
a write is a clash for exactly those who had looked, and a PATCH that keeps the address
clashes with nobody (`KeptEmail`).
`AdminStays` does for the refuted `AdminRemains` what `OrdersApartProofs` does for orders: if the
table starts with an active admin and no two PATCHes are between the read of their target and
their commit at once (`PatchesApart`, which TLC cannot assume of `Spec` and the code does not ensure), an active
admin remains, even one whose caller was authorized long ago. `ARInv` has the reason: what a
PATCH saw of its target, and the second admin it counted, are still there when it commits.

**`StorefrontProofs`.** `AInv` is what each handler has in hand at its points, and that no
row of the catalogue is ever removed. On top of it `CInv` has the cart and its TTL, `RInv` the
reviews and, as inductive as it stands, `SecondReviewsRaced` (only an INSERT can fill a pair that
somebody found empty), `WInv` the walks: what is listed lies before the cursor, and of the steady rows
all that lie before it are listed. That a step to the next page keeps this needs that a
page holds the first rows of the rest without a gap (`PageHolds`, from least and greatest members of
finite sets). `PInv` is for `UndisturbedAdd`: as long as nobody else runs for the
customer, the line and the amount in hand make up what was promised, at every command.

**`ReportsProofs`.** `LInv`: a key has handed out every number up to its counter (`Tallied`), and
while a request that is not late may still increment it, the counter is no less than any
count it has handed out (`Ahead`), so that those counts differ (`Distinct`). This gives the limit
(`LimitKept`) and that a refused request had `Limit` others before it. Neither holds of the counter
alone, which vanishes when its key expires; a key outlives its minute (`Outlived`), so that
all who still hold it then are late. `DInv` with
`DiscountBounds` gives `NoCentLost` for every coupon the table can hold and every amount.
`RInv` is about the figures: as long as no delivery is taken back, the revenue of a window only
grows (`RevenueGrows`), so that a figure read earlier is at most what a SELECT would return now
(`Grown`), and what is read later in the order of the plan is at least what was read before it
(`Ordered`); revenue is at most the count,
read after it, times the best of the merchant's orders (`Averaged`).
From it `TypeCorrect`, `WindowsNest` and, for a shop with any order at all, `AverageBounded`.

**`Sums`.** The community modules define a sum over a set by recursion on a `CHOOSE` of its members.
The prover unrolls no recursion and cannot instantiate the library's induction theorems, so the
lemmas go another way. `SmallestSubset` is induction for one finite set, by a smallest
counterexample. With it every finite set has exactly one function that solves the recursive equation
(`SolutionUnique`, `Solvable`), which makes the community definition satisfy that equation
(`SumStep`), and from there the sum is an integer, adding and removing a member adds and takes
away its value, and the sum is monotone and bounded by the largest value (`SumAdd`, `SumRemove`,
`SumMonotone`, `SumBound`).

The assumptions the theorems use are the named `ASSUME`s of the modules. Those on the
constants (finite sets of requests, values that are not ids, well-typed contents and
bodies) are what the schemas and the column types give.

Only model-checked: the liveness properties `EveryCheckoutEnds` and `EveryRequestEnds`
(fairness and `ENABLED` are beyond the prover). Three of the refuted properties
hold where a theorem says so: `NoPhantomUnit`
without overlapping decisions and reopened orders, `AdminRemains` without overlapping PATCHes,
`AckedIsApplied` without faults and admins.

## 5. Not modelled, and abstractions

* `EditProduct` (`Checkout`) and `EditStock` (`OrderLifecycle`) read and update in one step,
  which `Catalogue` does in two: `update_product` writes only the columns that differ from what it
  had loaded, so between its read and its UPDATE nothing those two models depend on can
  change except that the product is deleted, and an edit of a deleted row is invisible to
  their properties.
* A commit is one step with its flushes. Between flush and commit only the request's
  own rows are locked, and it waits for no other lock then.
* Signature verification, password hashing, schemas, cookies, error rendering, images and
  addresses filter or carry data and change no modelled state. Tokens do not expire by
  date, and the keys of families and carts do not expire by themselves: the properties are
  about whether they would. Only the limiter's keys expire in the model, since its counts depend on it.
* The filters and the encoded cursors of listings. `list_users`, `list_orders` and a merchant's
  `list_products` are the two keyset forms that `Storefront` walks through, over other tables.
* Counts of users and products, best sellers, low stock, and the statuses other than delivered: single
  SELECTs whose figures nothing relates to another one.
* `get_current_user` is a step of its own only where something may happen between it and
  the rest that matters (`Authorize`); elsewhere a caller without rights changes nothing.
* Schemas, application wiring, migrations and scripts have no behaviour of their own.
* `src/README.md` still says that coupons are not wired into checkout and that
  deactivating a user does not affect a live access token; the code does both
  (`order_service.py:132-140`, `api/deps.py:49`) and the models follow the code.

## 6. Plan

What is left, in this order:

1. Event sequences of one payment (`completed` for delayed methods, then
   `async_payment_succeeded` or `failed`), with what Stripe guarantees about them stated as a module of its own.
2. What the abstract `Inventory` and `TokenChain` imply by themselves, as theorems about them that
   the detailed modules inherit through the refinements.
