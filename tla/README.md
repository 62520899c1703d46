# The directory platform in TLA+

TLA+ models, TLC runs and TLAPS proofs about the parts of the directory platform that
move money or promise something to somebody later: how a request becomes a lead, the lead
market and its credit ledger, credit top-ups, the paid tiers, the featured spots, the paid
job board, claims, reviews, and the job queue behind every mail. Paths below are relative
to `src/`.

- [The system](#the-system)
- [What is hard about it](#what-is-hard-about-it)
- [The modules](#the-modules)
- [Runs and bounds](#runs-and-bounds)
- [Fairness](#fairness)
- [Disagreements found](#disagreements-found)
- [What is proved](#what-is-proved)
- [What is only model-checked](#what-is-only-model-checked)
- [What is not modelled](#what-is-not-modelled)
- [Plan](#plan)

## The system

A Next.js application and a worker process share one PostgreSQL database. Requests
(pages, server actions, the PayPal webhook) each run one transaction; the worker runs
cron jobs, each under an advisory lock and in one transaction (`worker/lock.ts`). The
database is used at READ COMMITTED: a statement sees what was committed when it began,
and only explicit locks (`FOR UPDATE`, advisory locks, unique indexes, guarded updates)
order transactions. PayPal is called from inside transactions, and calls back through
`app/api/webhooks/paypal/route.ts`, as late and as often as it likes.

| Component | State it keeps | Operations | Talks to | Correct when |
|---|---|---|---|---|
| Lead market (`lib/db/queries/lead-market.ts`, `lib/leads/allocate.ts`, `hooks.ts`, `market.ts`) | `leads`, `lead_purchases`, `lead_refunds`, `lead_standing_orders` | buy off the board, allocate a new lead to standing orders, retry open leads hourly, edit / pause / resume / delete an order, report a bad lead, decide the report, expire, remove and purge leads, admin delete | credit ledger (debit, refund), job queue (notices) | a lead is sold at most once, to an account that could pay, at a price it had agreed to; sales are final; reports are decided once |
| Credit ledger (`lib/db/queries/credits.ts`) | `credit_ledger`; a balance is the sum of its rows | debit, refund, top-up entry, admin correction; a transaction-scoped advisory lock per account | - | never negative; every entry explained |
| Credit top-ups (`lib/billing/credit-topup.ts`, `orders.ts`) | `credit_orders`, PayPal's order | start, return page captures, webhook applies, mismatch recorded | PayPal, ledger, webhook endpoint | credited exactly once if PayPal took the money |
| Webhook endpoint (`lib/billing/process.ts`, `recordEvent`) | `processed_events` | record the event id and dispatch, in one transaction | every PayPal consumer | each notification takes effect once, or is redelivered |
| Job queue and mail worker (`lib/db/queries/jobs.ts`, `worker/jobs/notify.ts`) | `jobs` rows: payload with live tokens, attempts, `run_after`, delivered keys | enqueue, claim (SKIP LOCKED), deliver per recipient, complete, fail with backoff, park, scrub, purge | mail provider | each recipient is written to, once unless a tick was rolled back; tokens live as long as the job |
| Job board (`lib/db/queries/job-board.ts`, `worker/jobs/job-board.ts`) | job posts: status, payment, expiry, reminder | post (free or paid), settle by return page or webhook, approve, reject, expire, remind | PayPal, job queue | paid posts are marked paid once and reach the admin once; decisions stand; posters are told the truth |
| Featured spots (`lib/spots/*`, `worker/jobs/spots-sync.ts`) | spots, bids, one PayPal subscription per listing | bid, raise, lower, withdraw, cancel, notifications, reconcile, hourly sync, close / open a spot | PayPal, job queue (outbid mails) | ranks follow bids; a listing pays for the positions it holds and nothing else |
| Tier subscriptions and coupons (`lib/billing/subscriptions.ts`, `webhooks.ts`, `process.ts`, `db/queries/coupons.ts`, `worker/jobs/subscription-sync.ts`) | `subscriptions`, the tier on `listings`, coupon counts | checkout with a coupon, approval, notifications, return page, hourly sync | PayPal, webhook endpoint | a coupon is used as often as agreed; whoever is billed has a row; no row runs ahead of what is paid; a lapse frees the listing |
| Lead intake and quotes (`db/queries/leads.ts`, `quotes.ts`, `leads/rules.ts`) | quote requests with their links and recipients, leads | three forms, confirm, expire at the click or by the sweep, pass the rules, flag as spam, deliver | lead market, job queue | one lead per confirmed request, none for a flagged one; a confirmed request reaches the businesses it chose |
| Claims (`db/queries/claims.ts`, `lib/actions/claim.ts`, `media/claim-docs.ts`, `worker/jobs/purge-claim-docs.ts`) | `claims`, the owner of a listing, documents in a private bucket | start by mail or by document, upload, attach, confirm, decide, purge | job queue, object store | a listing is won once; documents do not outlive their purpose |
| Reviews (`db/queries/reviews.ts`) | `reviews`, `review_invites`, the rating on `listings` | write, confirm, resend, moderate, add up | job queue | public only when confirmed and not turned down; the rating is that of what is public |
| Submissions, sponsors, trust, awards, owner lists | one or two tables each | forms with moderation | job queue | guarded updates decide races |
| Counters and cache, pages, auth, templates | Redis, rendered pages | best effort | - | - |

## What is hard about it

- **Locks taken one at a time.** A sale holds the lead, then order rows, then an account;
  what was selected before a lock may be stale under it.
- **PayPal beside the transaction.** Its calls take effect at once and survive a rollback;
  its notifications are late, repeated and reordered; the same payment is settled by a
  return page, a webhook and a sync.
- **Read, decide, write.** The re-rank of a spot, the confirmation of a subscription, an
  event about a tier, the duplicate rule of leads and the average of a listing's ratings
  read rows without locking them; a click, an admin and a sweep each read a row and write
  it a statement later.
- **One transaction per tick.** A crashed drain forgets mails it has sent.
- **Promises over time.** A paid order is settled, a job is sent or
  parked, a pending raise is settled, with nobody coming back to push it.

`PROJECT.json` lists each of these at its line, with the properties that cover it.

## The modules

| Module | Models | Composed with |
|---|---|---|
| `LeadIntake` | forms, links, confirmation, rules, doors, sweep, flag, delivery | its lead is `LeadMarket`'s `CreateLead`, its delivery `JobQueue`'s job |
| `IdealMarket` | the promise of the lead market: listed, sold once or withdrawn, given back once | implemented by `LeadMarket` |
| `LeadMarket` | sale, allocation, orders, reports, sweep, and the ledger they debit | refines `IdealMarket` |
| `CreditTopup` | PayPal capture, return page, webhook gate, ledger entry | its entry is `LeadMarket`'s `TopUp` |
| `TierBilling` | checkout, coupon, PayPal's life of a subscription, events, answers, the tier | - |
| `FeaturedSpots` | bids, ranking, subscriptions, PayPal, hourly sync | - |
| `IdealDelivery` | the promise of the mail queue: a notice is owed, then told to each addressee, or moot, or parked after an attempt that failed | implemented by `JobQueue` |
| `JobQueue` | queue, drain tick, recipients, parking | refines `IdealDelivery` |
| `JobBoard` | posts, payment, moderation, closing, letters | an abstract queue of notes |
| `ListingClaims` | claims, links, decisions, documents and their purge | an abstract queue of letters |
| `Reviews` | reviews, links, decisions, the aggregate, letters | an abstract queue |
| `Desk` | the three queues an admin decides: extends `JobBoard`, instantiates `ListingClaims` and `Reviews` | |
| `LeadMarketProofs`, `DeskProofs`, `CreditTopupProofs`, `JobQueueProofs`, `LeadIntakeProofs`, `TierBillingProofs`, `FeaturedSpotsProofs` | proofs about the modules they extend; `DeskProofs` is about all three parts of the desk | |
| `FiniteSums` | lemmas about sums and greatest elements of finite sets | cited by `LeadMarketProofs` and `FeaturedSpotsProofs` |
| the other `MC*` | constants and symmetry sets for TLC | |

**Transactions.** A handler that needs several locks, or that calls PayPal between two
statements, is a session with a program counter. Each lock wait, PayPal call and
read-then-write gap is a step of its own, but for the calls of `FeaturedSpots` named
below; what the transaction has written is kept in its record and becomes visible, and its
locks free, in the commit. A crash or an error drops the record. A handler that takes one
lock and does everything under it is one action, enabled while nobody holds that lock.

**LeadMarket.** `tx` holds each session's transaction; `leadLock`, `orderLock`,
`accountLock` and `refundLock` are the row and advisory locks. `BuyLead`, `CreateLead` and
`RetryLead` open transactions. `LockOpenLead` is `lockOpenLead` with its test of status
and age under the lock; `LockCandidate` and `TryCandidate` are one turn of
`allocateLead`'s loop; `LockAccount` and `Debit` are `debitForPurchase`; `PassOver` and
`PauseForCredit` are its catch. `CommitBuy`, `CommitAllocated` and `CommitUnsold` write
the whole result. The clock is each lead's age in steps of the dates the code compares
(half price, expiry, removal, end of the report window, purge).

**CreditTopup.** A return page holds the `credit_orders` row over its PayPal calls
(`LockOrder`, `Capture`, `ReadBack`, `SettleOrder`); a webhook delivery takes the event
gate, then the row (`ClaimEvent`, `ApplyCapture`). The kinds of events are a capture of
this order, of another order, of another amount. The code writes a mismatch down in three
places, and so does the model: a return page that finds no amount or another
(`FailUnpriced`), a capture of another order, also when the order it names is settled
(`NoteForeign`), a capture of another amount (`FailShort`). `audits` counts their rows by
reason, not by place: `MismatchesOnRecord` says that each kind is there as often as the
order's status and the events taken call for.

**JobQueue.** `row` is the table, `tick` what one drain has seen and done, `lock` its
advisory lock. `Claim` takes a due job; the handler writes to its keys in order (`next`),
passing those an earlier attempt reached (`Skip`); `Deliver` and `Refuse` are the
provider's two answers. After a refusal the handler of an ordinary job throws, so the rest
of its recipients wait for the retry, while `runQuote` (a job in `Steadfast`) goes on and
throws at the end. Before its first mail a handler may also throw for a reason that is no
address (`Throw`: the row it announces is missing, has nobody to tell, or could not be
read), or return with nothing left to send (`Lapse`: a link already clicked, a request
flagged; jobs in `Lapsing`). `snags` remembers which of these a job has met. Whatever was
thrown counts as an attempt: `Complete` / `Fail` settle the job in the tick's own view,
`Commit` publishes the tick and `Abort` loses all of it but the mails.

**JobBoard.** `post` is the table, `visit` the return pages, `processed` the event gate,
`notes` the queued notices and `letters` what they turned out to say when sent.

**TierBilling.** `desk` is a checkout's transaction, which holds its listing and then the
coupon while PayPal answers; `row` and `tier` are the committed tables. `paypal`, `paidTo`
and `declined` are PayPal's side, `wire` the events it still delivers. An event or a
reconcile (`session`) reads the row without a lock (`Deliver`, `Ask`), hears PayPal
(`PayPalAnswers`) and writes from what it read (`Apply`); `Decide` is `webhooks.ts`'
`decide`. Whether an event of some kind names the next billing time is PayPal's choice:
`Dated` and `Bare` say, for each subscription, which kinds may and which may leave it out,
a sale among them, whose own date then wins over `decide`'s arithmetic. There is one paid
tier, one coupon, no trial.

**LeadIntake.** `request` is the row with its recipients, `click` an open confirmation: it
reads (`OpenLink`), sets the row verified and holds it (`Verify`), passes its door
(`PassDoor`: `createLeadFromQuote` and its siblings with `checkLeadRules`) and commits.
`lead.beside` records which other confirmations were past their door when a lead's rules
were checked. The confirmation's commit queues the delivery. The worker reads the request
and its recipients (`Fetch`), writes to each in turn (`Mail`) and then to the requester
(`Acknowledge`); it passes over whoever has unsubscribed (`muted`) or has no address any
more, and `excused` remembers whom.

**ListingClaims.** `work` is what a session has read and is about to write: a form
(`StartClaim`, `WriteClaim`), a link (`OpenLink`) or a decision (`Decide`), which takes
the listing by a guarded update (`TakeListing`) and writes the claim as it commits.
`purge` is the purge job between its read and its write: each document it has read is
deleted (`DeleteObject`) or not (`DeleteFails`), and only the claims whose document is
gone are marked (`MarkPurged`). A claim may be given several documents, also while the
purge is at work. `object` is the private bucket.

**Reviews.** `request` is a click, a decision or a resend under way; a click or a decision
holds the review from its write (`Verify`, `Decide`), reads the published reviews
(`Count`: the snapshot of the one UPDATE that writes the aggregate), waits for the listing
(`Rate`) and commits. `raced` remembers whether the last commit's count missed another's.

**FeaturedSpots.** `bid` and `sub` are the committed rows, `tx` each session's own view of
them, `paypal` PayPal's record, `mail` the notifications under way. A transaction makes
its change, then `ReadRanking` / `ApplyRanking` for each spot it touched
(`rerankSpots`), `SyncQuantities` for every listing concerned, and commits. A bid under a
live subscription stops at each PayPal call: it writes its amount and keeps what it read
of the subscription (`OfferBid`), resumes a paused one (`Resume`, `RecordResume`), and
then asks for the new quantity (`ReviseBid` or, when PayPal refuses, `RefuseBid`; then
`RecordRevise`), or finds it agreed to already (`BidAtOnce`). Three kinds of PayPal call
are one step with the rows they go with: a first bid's (`StartSubscription`), whose rows
nobody else can see; those of `SyncQuantities`, made one listing after another, of which
`RefusedByPayPal` keeps any part; and the end of a paused row (`CancelPaused`). A
notification or an answer may leave the quantity out (`Heard`, kinds in `Silent`): `Confirm`
then makes the row active and nothing else. `Reconcile` is the hourly sync's question
about a row whose quantity is not what was asked. The amount of
a bid is in whole units, its date a position in the order amounts were set.
Assumptions: a buyer is shown a PayPal link only once the transaction that made it has
committed; a page or a sync asks PayPal about rows that are live; each row of the hourly
sync is a transaction of its own (in the code they are savepoints of one, which holds row
locks longer and can lose several rows at once); PayPal answers a call about a
subscription already in that state with success, as `paypal.ts` treats its 422.

## Runs and bounds

| Run | Instance | Shows |
|---|---|---|
| `lead_sale` | 2 sessions, 2 accounts with an order each, 2 leads, 2 prices, an edit of an order or listing once both orders are made, corrections | no overdraft, the winner's order as it stands under its lock and outbid only after an edit, one mail per shortfall, and refinement of `IdealMarket`, which sells each lead once |
| `lead_life` | 1 lead to its purge, 2 reporting accounts, 2 sessions | sold iff purchased, contacts kept while a report waits, balanced books |
| `lead_ends` | 2 leads, 2 orders of 1 account, 2 sessions, 1 edit, no credit | deadlocks happen, every cycle of waits is among allocations only (no purchase is ever the victim), and every transaction ends |
| `topup_safety` | 3 sessions on one order, foreign events, failing read-backs, 2 crashes | credited once and only if paid; each mismatch on record once; an order PayPal captured is credited or marked failed in the end |
| `topup_read_back` | 2 sessions, 1 crash | the disagreement below |
| `queue_mail` | 2 jobs, one to two recipients, 2 workers, batches of one, 1 retry, handlers that throw or find nothing to send, 1 lost tick | one copy per tick that was kept or lost, one bad address does not silence the next in a job that goes on, every job is sent or parked, and refinement of `IdealDelivery`, which tells each addressee before a notice counts as told, unless it was moot, and parks one only after a refusal or an unread row |
| `desk` | 1 post with 2 return pages and every kind of capture; 2 claimants, 2 claims, 2 documents; 2 reviews, one of them held by the heuristics; 2 sessions | the admin told once, captures accounted for, letters true, what PayPal took is marked paid; an approved claim is the owner's, a recorded document itself erased unless replaced; the rating true unless overtaken, a click never overrules an admin |
| `spots_rank` | 2 listings, 1 spot, 1 session, closing, expiry, one late notification, quantities left out | ranks follow bids, only who pays is shown |
| `spots_paid` | 2 listings, 2 spots that may close, 3 amounts, 1 session, every expiry, first confirmations without a quantity | PayPal bills the sum held, or a revise waits; a bid or raise of a listing that bids for one spot becomes real only when agreed to |
| `spots_together` | 1 listing, 1 bid, 2 sessions, ageing, a first confirmation without a quantity | every transaction ends, deadlocks included; pending bids and raises settle |
| `tier` | 2 checkouts, 2 listings, 1 coupon left, 1 session, 1 approval; of one subscription the notices name the next billing time and the charges do not, of the other the reverse | the coupon counted, the billed recorded, no row a period ahead, a lapse reaches the listing |
| `intake` | 2 requests of one person, one perhaps left by an older release, 2 clicks, 1 listing, 1 crash, 1 change from outside | at most one lead, duplicates only from overlapping confirmations, a flagged request goes nowhere, none stays pending, a confirmed one is mailed to each business it chose unless the worker found it flagged or the business unreachable |

The bounds are small because what they limit is symmetric or repeats. Two sessions are
enough for every pairwise race, a third is added where a gate has three kinds of visitors.
Two accounts and two leads give every order in which locks can be crossed; `lead_ends`
gets crossed locks from one account, whose owner swaps the places of two orders by an
edit between two selections, and no credit, since what could wait for ever is a lock.
`MaxTouches` counts the edits of orders that exist, so that the one `lead_sale` allows can
fall between a selection and a lock: a price raised then is the exception in
`BestPayingUnlessEdited`, and TLC finds it when the exception is left out.
One top-up order and one post suffice because no statement relates two of them, and one
listing in `intake` because recipients are written to independently; two documents are a
replacement, or one attached while the purge deletes another. One retry is a job's life
before, between and after attempts.
`desk` chooses one of its three components at the start of a behaviour: they share no row,
so their product would only multiply states. In `tier` a time step is the three days for
which PayPal retries; the interval is four of them, so that the code's renewal window, its
grace and a whole period differ, and the clock passes the first period's end. One session
is enough there for its properties: every event and answer, however old, is applied from
what was read when it was taken up, and its order against the others is free. In `intake`
one turn is one flag, one upgrade or one blocklisting at the worst moment. Ages and
times run just past the last date compared. Edit counters (`MaxTouches`, `MaxEdits`,
`MaxCrashes`, `MaxAborts`) allow the longest scenario the code distinguishes: in
`FeaturedSpots` place, raise or be outbid, and one of cancel / lower / lapse. Symmetry is
used only in runs without liveness, over sessions or listings that nothing tells apart.

`FeaturedSpots` is checked one transaction at a time for what its code maintains then,
and with two for what it does not; `Lag` says how many notifications may still be under
way when somebody does something else. With `Lag` 0 `spots_paid` speaks of a site whose
notifications arrive before the next click, charge or approval; with one late notification
its properties fail (see below), which `spots_rank` allows and its own survive. A first
confirmation may lack its quantity in all three runs; a later one (UPDATED) in `spots_rank`
only, since it leaves the row with a stale quantity (see below).
Deadlock checking is off where the bounds, or the end of every subscription, let the
system stop.

## Fairness

- A transaction that can go on does; one that waits for a row gets it in the end (strong
  fairness), since PostgreSQL queues waiters first come first served; a deadlock is ended
  by the database.
- The hourly sync comes to every row of the spots whose quantity differs from what was
  asked (`lib/db/queries/spots.ts:806-810`), and PayPal's answer names the quantity now and
  then (strong fairness of `Reconcile`): how often it does not is bounded by `MaxEdits`.
- PayPal redelivers a notification until it is answered with success, or, in
  `TierBilling`, gives up after three days; the hourly sync is then what reaches a lapsed
  row, and PayPal can be reached now and then (strong fairness of `SyncAsks`,
  `PayPalAnswers`).
- Cron fires (`worker/index.ts`): the drain every thirty seconds, the hourly jobs hourly,
  the purges daily; a delete in the bucket does not fail for ever; time passes.
- Owners, buyers, visitors and admins are under no fairness: nobody has to come back, open
  a link, approve, decide or pay.

## Disagreements found

`topup_read_back` is a run that TLC must find violated: a failed read-back of a captured
order marks it failed; the webhook then leaves it alone, and the credit needs an admin.
The sentences of the repository it contradicts are in `PROJECT.json`.

The models reach the following too. No run stays on them: the bounds, or the wording of
the properties ("alone", "together", "unless raced"), keep the passing runs clear, and the
modules state what fails under the heading *What is not so*.

Featured spots:

- A raise to 6 is asked on one spot, then a bid of 1 on another: `projectedQuantity`
  (`lib/spots/bidding.ts:131`) leaves out what the listing already waits for, so PayPal is
  asked for less than both, and `confirm` (`webhook.ts:160`) makes both real. When the
  second bid is withdrawn before the buyer agrees to 2, the raise is confirmed alone
  (`ConfirmedIsConsented`; hence `OneSpotIsConsented`).
- An ACTIVATED delivered late, after the listing has gone down and asked for its old amount
  again, confirms the raise on the quantity of then: the buyer has not agreed, and PayPal
  bills the lower sum (`PaysForWhatItHolds`, with `Lag` 1). With two transactions a
  reconcile, or a notification, that has read the row before a raise is recorded does the
  same with no notification late: it compares PayPal's quantity with what was asked then,
  and confirms the raise committed meanwhile (`OneSpotIsConsented`, with two sessions).
- A confirmation may name no quantity (`webhook.ts:141`). It then confirms nothing, and the
  comment says of such bids that "the sync keeps re-requesting, and expires them after a
  day" (`webhook.ts:160-162`). A first ACTIVATED like that leaves the row active and its
  bid pending, with no `reviseRequestedAt` for the sync to expire it by
  (`spots-sync.ts:176-180`), and the sync requests nothing: what it does is ask PayPal
  hourly, as the row's quantity is not what was asked. The bid is confirmed at the first
  answer that names the quantity (`PendingSettles`), and waits for ever if none does.
- An UPDATED that names no quantity leaves the row with the old one. When the raise has
  then expired, row and bids agree, and PayPal bills the higher sum
  (`PaysForWhatItHolds`, with `Silent` UPDATED), until a later answer names it: in the code
  the sync asks right after it has expired the raise (`spots-sync.ts:152`).
- The sync has picked a subscription that was never approved. Before it expires the row the
  buyer approves, and the owner bids on another spot; that bid waits on PayPal's revise
  while the sync ends the subscription, and is committed as pending with no live
  subscription behind it. Nothing expires it; the owner's next bid takes it along
  (two spots and two bids; the exception in `PendingSettles`).
- The buyer takes the agreement back at PayPal while the owner's transaction, which has
  read it, is on its way to making a bid count at once (`bidding.ts:261`). The notification
  that corrects it is then under way (`Corrected` in `OneSpotIsConsented`).
- A bid is lowered and the buyer agrees to the lower quantity; before the notification
  arrives the listing bids the old amount again. The row still has the old quantity, and
  the comparison at `bidding.ts:261` ("Already consented to exactly this quantity") lets
  the bid count at once, while PayPal bills the lower sum (`OneSpotIsConsented`, with
  `Lag` 1).
- Two confirmations at once put two bids in one position: each re-rank
  (`engine.ts:73`) reads the spot without the other's bid (`FeaturedFit`). In the same
  way a ranking read before a cancellation brings the cancelled bid back.
- A spot closed, or a subscription expired by the hourly sync, while the first approval
  is still open at PayPal: the buyer approves, and pays for nothing
  (`PaysForNothingElse`). So does the buyer of a new subscription, when the cancellation
  of the old one arrives while the new one waits: a lapse ends bids by listing.
- Notifications applied out of turn with the rows: the echo of the site's own suspension,
  after the resume, pauses a row that PayPal bills; a failed payment of a paused row makes
  it past due, although PayPal is suspended.

Tier subscriptions:

- `applyEffect` sets the tier by listing (`lib/db/queries/billing.ts:383`): cancel one
  subscription, buy another, and the lapse of the first frees the listing the second pays
  for until the second's next event (`PaidListingKeepsTier`).
- An UPDATED of a suspended subscription gives the listing its tier back; the sync takes
  it away again.
- A row awaiting approval is never synced, so an approval whose event is lost, and whose
  buyer does not come back, is billed without its tier. Two checkouts of one listing can
  both be approved: only a live subscription turns a second checkout away.

Lead intake:

- Two requests of one person confirmed at once make two leads: the duplicate rule
  (`lib/leads/rules.ts:9`) reads without a lock (`NoDuplicateLeads`; hence
  `DuplicatesOnlyTogether`).
- The sweep between a click's read and its update makes the page say "Already confirmed"
  of a request that has expired (`quotes.ts:435`; `AlreadyMeansVerified`).
- A request that is flagged when the worker comes to it, and unflagged later, is never
  delivered: its job is done.

Lead market and mails:

- A price raised while allocation waits for the order's row does not count: candidates
  are sorted before they are locked, and a lower bid wins (hence
  `BestPayingUnlessEdited`).
- A refused owner address keeps the admin's copy of an enquiry from being sent, for good
  once the job is parked (hence `Steadfast` in `WorkingAddressReached`).

Claims:

- Two admins who approve and reject one claim at once can leave the rejected claimant the
  owner: the listing is taken before the claim's guarded update, whose failure undoes
  nothing (`claims.ts:693`; `RejectedGetsNothing`). Approving twice queues two letters
  (`ToldOnce`). The link's update of the claim is not guarded by its status at all.
- Two forms sent at once open two claims of one user (`OneOpenClaim`).
- A document uploaded and never confirmed, or replaced, or attached to a claim that was
  purged before or is being purged, is erased by nothing: the purge reads the path, deletes
  that object, and then clears whatever path the row has by now (`DocumentsErased`; hence
  what `RecordedIsErased` leaves out. A delete that fails is not left out: the row keeps its
  path and the next purge tries again).
- Documents are to be deleted "thirty days after the decision" (`README.md:619`, the
  claim form and the admin's page), and a test says a claim decided within the window is left
  completely alone (`purge-claim-docs.test.ts:87`). The query takes either clock
  (`claims.ts:883`), also of a claim that is decided: one decided on its twenty-ninth day
  loses its document the day after, and one still open loses it before anybody looked
  (`DecidedIsKept`; what does hold is `ErasedWhenPast`).

Reviews:

- Two decisions at once leave a rating that misses one of them: the aggregate's subselects
  keep the snapshot they began with (`reviews.ts:226`; `RatingAgrees`).
- A resend that races the click makes a spent link live again (`ProvedHasNoLink`).
- A held review whose link is clicked twice at once is mailed about twice when an admin
  publishes it before the mails go out (`OwnerHearsOnce`).

## What is proved

Every theorem holds for every value of the constants that satisfies the named assumption
of its module (`MarketAssumption`, `TopupAssumption`, `QueueAssumption`,
`IntakeAssumption`, `BillingAssumption`, `SpotsAssumption`, `BoardAssumption`,
`DeskAssumption`; `Reviews` needs none): any sets of leads, accounts, jobs, requests and
sessions, any bounds. The assumptions are what
the schema and the configuration guarantee. TLC evaluates them in every run. Almost none
of the properties is inductive alone, and what has to be added is always the same kind of
fact: what a lock, or a row already written, still protects when a transaction that began
several steps ago commits.

| Module | Theorems | The argument |
|---|---|---|
| `LeadMarketProofs` | `TypeCorrect`, `NeverOverdrawn`, `SoldLeadsHaveBuyers`, `OneSalePerLead`, `WinnersAreCurrent`, `DetailsWhileUndecided`, `OneMailPerShortfall`, `OutbidOnlyByEdit`, `LedgerExplainsBalances`, `DeadlocksAreAllocations`, `MarketIsIdeal`, `SalesAreFinal` | below |
| `CreditTopupProofs` | `TypeCorrect`, `CreditMatchesMoney`, `FailuresAreFound`, `OneSettler`, `SettledForGood` | `InTurn`: whoever is talking to PayPal holds the row of an order that is still unsettled and commits only what PayPal has captured, and a webhook holds its event, which nobody has processed, until it commits: so each of the places that write a mismatch writes at most one |
| `JobQueueProofs` | `TypeCorrect`, `OneCopy`, `DoneIsTold`, `OthersReached`, `TokenScrubbed`, `QueueDelivers` | `Alone`: one tick is open. `Honest`: a row, committed or in the tick's view, tells the truth about the mails. `Sending`: behind `next` everybody was mailed or the attempt is failing. `Counted`: when a key has had all the copies the lost ticks allow, no tick will write to it again, because the tick's view or the row says so; `QueueDelivers` below |
| `LeadIntakeProofs` | `TypeCorrect`, `OneLead`, `OnlyTogether`, `FlaggedStays` | `HeldIsPending`, `HeldOnce`: a confirmation past `Verify` holds its row alone and it is still pending. `Aware`, `Apart`: of two confirmations past their check, the later has the other beside it, and one that will make a lead is near no other but those. `Unflagged`: a flag cannot go up on a row that is held |
| `DeskProofs`, job posts | `JobsTyped`, `AdminHearsOnce`, `CapturesKept`, `PosterTold`, `SettledFirst`, `NothingReopens` | `Owed`: what a post owes and what PayPal holds agree. `AtOrder`: a return page marks only what was captured. `Informed`: notes queued and letters sent are counted together against the row |
| `DeskProofs`, claims | `ClaimsInvariant`, `ApprovedIsOwner`, `OwnersStay`, `ErasedOnlyWhenPast` | `ReadTrue`: what a session read of a claim stays so. `HolderAlone`: between the guarded update of the listing and the commit, one session has the listing, and it had no owner. `Dated`: a claim is decided no earlier than it was made, so a later decision never sets back a clock that has run out. `Filed`: a claim names only a document signed for it. `Due`: what the purge read as past still is |
| `DeskProofs`, reviews | `PublicIsVerified`, `RatingsTrue`, `ClicksOverruleNothing` | `HeldOnce`: one session has written a review. `ConfirmedIsPending`: a click that has written still finds it pending. `PutUpIsVerified`: an admin publishes only what was verified. `CountTrue`: what was counted is what will be published, unless another committed since |
| `FeaturedSpotsProofs` | `TypeCorrect`, `ActiveIffPlaced` | below |
| `TierBillingProofs` | `CouponsCount`, `NobodyUnknownIsBilled`, `NeverAhead` | `OneRedeems`: one checkout has the coupon, and it is not exhausted. `OfferedIsRecorded`: a link is out exactly when its row is committed. `OfRows`, `Begun`: sessions, events and periods are about such rows. `Periods`: below |

**LeadMarket.** Whether a commit may debit depends on what the transaction saw several
steps before, so `IInv` says, for every open transaction, what its locks protect:
`LeadHeld` (from `LockOpenLead` on, it holds the lead, which is still open), `FundsHeld`
(from the reading of the balance on, it holds the account, and a decided sale is still
covered), `OrdersHeld` (every candidate it has locked is its own and still covers the lead
at the price it will pay), `RefundHeld` (a report under decision is pending and the
purchase is the one read), plus `Shape` (which fields mean something at which point) and
two facts about rows that change only together (`OrdersPriced`, `SalesRecorded`). The
module proves types action by action first, then the rest by a lemma per action, most of
them through `QuietStep`: a step that writes no committed row and keeps its own promises
keeps those of the others. Three more properties get an invariant of their own on top:
`DetailsKept` (only a sold, reported-in-time lead has a report waiting, and it is not
purged), `MailsPaid` (an active order has had fewer mails than activations, and what waits
to be paused is active, as its row is locked), `BestFirst` (who is asked to pay was
selected at a price no lower than those still waiting).

`DeadlocksAreAllocations` follows from `LocksExplained`, which says for each kind of lock
who can hold it and what for: whoever holds an account's lock or a report's waits for
nothing, and a purchase that holds a lead waits for an account only, so a circle of waits
can pass through neither. The circle is a set of sessions each waiting for another of them, as in the
property, so no chain has to be followed.

`LedgerExplainsBalances` is about a sum over all of an account's leads. Induction over
finite sets cannot be used here as the library states it, but it can be replaced: a
non-empty collection of subsets of a finite set has a smallest member (`SmallestSet`, from
the well-foundedness of strict inclusion), so a lemma about sums is proved by looking at a
smallest set for which it fails. `AddsExists`, `SumIs`, `SumTurn` give the equation of the
library's fold, `SumWithout` takes any element out, `SumSame` says that a sum depends on
its members only; then each action changes one lead of one account, and the balance with
it. The invariant adds that the sold leads are finitely many.

`MarketIsIdeal`: a lead's status maps to a stage and its purchase row to the ideal sale;
commits map to `Sell`, `Withdraw`, `GiveBack` and `Fund`, everything else stutters.

`QueueDelivers`: a row's status maps to the stage of the notice. A tick's work stays
invisible until its `Commit`, which maps to one `Settle` of all the jobs the tick ended;
`Deliver` and `Refuse` map to `Send` and `TurnDown` at once, since the provider has
answered whatever becomes of the tick, `Throw` and `Lapse` to `MissSubject` and
`BecomeMoot`, and `Abort` maps to `Lose`. A `Send` may make a
further copy only for a loss, which is what `Counted` provides (`UnsentYet`), and the
jobs of one `Settle` are still owed because the tick's locks keep their rows pending
(`Open`).

**TierBilling.** That no row is a period ahead is not inductive, since what a session read
and what is on the wire is written later. `Periods` says of each what it may still do.
With p the date to which PayPal has been paid: a row's end, and the end a session has
read, is near p, near the end of the period before, or older (`Fit`), "near" being up to
two windows later; an event names p or an earlier period's end and is no older than PayPal
redelivers it; and the sale of an event still on its way is recent, so that p is an
interval from now but for two windows (`Due`). A sale then finds either the end it paid
for, which `SaleEnd` leaves, or the end before, which it moves by an interval: it cannot
mistake one for the other because an interval is longer than three windows
(`BillingAssumption`), and that is where the assumption is needed. `DecideFits` is the
arithmetic, `Charged` what PayPal's schedule contributes.

**FeaturedSpots.** Both theorems hold for any number of sessions, with every interleaving
and late notification the code has. `ActiveIffPlaced` is what survives of the ranking then.
A re-rank reads a spot, decides, and writes by id over rows that others may have confirmed,
cancelled or expired since, so which bids are shown can be wrong (*Disagreements found*);
but no bid is committed that is active without a position, or has one without being active:
whoever asks for the active bids and whoever asks for the placed ones gets the same. That is not so inside a transaction: a confirmation makes a bid active and
leaves its position to the ranking. The invariant, `Placed`, says of the committed rows that
all are even, and of each open transaction (`Placing`) that a row of its own which is not
even is an active bid just confirmed, whose spot it has still to rank, or whose new place
is among those it is about to write (`Owed`). A ranking covers every confirmed bid of its
spot as the transaction sees it, its own confirmations included, and so no such row is left
when it goes on to the billing (`AllEven`). Each handler is argued once by how it begins
(`Handles`, `Offers`, `Looks`, `GivesUp`, `Aside`).

`RankedAsBid`, `FeaturedOnlyWhilePaid`, `PaysForWhatItHolds` and `OneSpotIsConsented` are
not theorems: they hold one transaction at a time, the last two with prompt notifications,
and fail beyond that. TLC checks them there.

## What is only model-checked

- `RankedAsBid`, `FeaturedOnlyWhilePaid`, `PaysForWhatItHolds`, `OneSpotIsConsented`, one
  transaction at a time.
- Liveness: `EveryTransactionEnds`, `PaidIsSettled`, `EveryJobEnds`, `PaidIsMarked`,
  `RecordedIsErased`, `PendingSettles`, `TransactionsEnd`, `LapseReachesListing`,
  `RequestEnds`, `ConfirmedIsDelivered`. The prover does not reason about fairness and
  ENABLED.

`PublishedIsVerified`, `TokenWhilePending`, `DoneMeansTold`, `SettledStays`,
`ErasedWhenPast`, `DecidedWhenSettled`, `DecisionsStand`, `SaleUncontested`, `SaleIsFinal`
and the type invariants of `LeadMarket`, `CreditTopup`, `JobQueue`, `JobBoard`,
`LeadIntake` and `FeaturedSpots` are proved, and so no run repeats them. The type
invariants of `Reviews` and `TierBilling` document the variables; both have their own
`Shape` in the proofs. That of `ListingClaims` is part of `ClaimInv`.

## What is not modelled

- Sponsor campaigns: a third kind of PayPal subscription, close to tier billing in shape.
- Submissions, slugs and the moderation of listings, trust checks, awards, areas, owner
  lists: single-statement forms whose races unique indexes decide, or batches over
  read-mostly data.
- Counters, cache, pages, mail texts, importers: best effort or pure output. They are most
  of the repository's lines; nothing in them keeps state the parts above rely on.
- Within the modelled parts: the deletion of an account (it cascades over purchases and
  orders), the refund blocklist, the limit of five orders per listing, the look-back by
  which the hourly retry chooses leads, the floor an admin sets per spot, the outbid
  mails, an owner's cancel request and the renewal reminders of a tier, trials and the
  choice between paid tiers, the ranking that chooses a request's recipients, replies to
  reviews and their photos, reassignment of a listing by an admin.
- Configuration that turns whole features off.

## Plan

Done: the lead market with its refinement, top-ups, the queue, the job board, the spots,
the tiers, the intake, claims and reviews, with the proofs above. What would come next,
most important first:

1. For `FeaturedSpots`: what still holds of what is paid when transactions overlap and
   notifications are late, and how soon a ranking gone wrong is put right.
2. The hourly retry's look-back (`worker/jobs/leads.ts`), composed with `LeadMarket`: an
   order saved is offered every open lead once, unless a tick was missed.
3. The owner's cancel request and the renewal reminders in `TierBilling`; then sponsor
   campaigns as an instance of the same shape.
4. `IdealDelivery` in place of the queues of `JobBoard`, `ListingClaims`, `Reviews` and
   `LeadIntake`.
5. Submissions and slugs, and the moderation of listings.
