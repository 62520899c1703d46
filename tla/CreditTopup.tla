----------------------------- MODULE CreditTopup -----------------------------
(***************************************************************************)
(* A prepaid top-up: the buyer approves an order at PayPal, the return     *)
(* page captures it, and either the return page or PayPal's webhook writes *)
(* the credit.                                                             *)
(*                                                                         *)
(*   src/lib/billing/credit-topup.ts   startTopup, settleTopupOrder,       *)
(*                                     applyTopupCapture, creditOrder      *)
(*   src/lib/billing/orders.ts         captureOrder                        *)
(*   src/lib/billing/process.ts        the webhook's transaction           *)
(*                                                                         *)
(* A session is one transaction: a return page holds the order's row while *)
(* it calls PayPal; a webhook claims its event, then the row.  PayPal is   *)
(* outside every transaction: a capture stays when its caller rolls back.  *)
(***************************************************************************)
EXTENDS Naturals, FiniteSets

CONSTANTS
  Topups,          \* credit_orders.id, each with its PayPal order
  Sessions,        \* connections that run transactions
  NoSession,
  Kinds,           \* which capture events can name a top-up
  ReadBackMayFail, \* whether reading an order back at PayPal can fail
  MaxCrashes       \* bound: transactions that die

(* PayPal announces our own capture; a capture of another order, or of     *)
(* another amount, can carry our row's id in custom_id too.                *)
AllKinds == {"own", "other order", "other amount"}

ASSUME TopupAssumption ==
  /\ Kinds \subseteq AllKinds
  /\ ReadBackMayFail \in BOOLEAN
  /\ NoSession \notin Sessions
  /\ MaxCrashes \in Nat

Events == Topups \X Kinds
Reasons == {"wrong-amount", "order-mismatch"}

VARIABLES
  row,        \* credit_orders.status
  entries,    \* top-up entries in credit_ledger for each order
  receipts,   \* notifyCreditTopup jobs queued
  audits,     \* credit.payment.mismatch audit rows of each order, by reason
  paypal,     \* the order at PayPal
  processed,  \* events in processed_events
  tx,         \* the open transaction of each session
  rowLock, eventLock,
  crashes     \* transactions that have died, up to MaxCrashes

books == <<row, entries, receipts, audits>>
locks == <<rowLock, eventLock>>
vars == <<books, paypal, processed, tx, locks, crashes>>

-----------------------------------------------------------------------------
NoTopup == "none"
Job(op, pc, o, k) == [op |-> op, pc |-> pc, topup |-> o, kind |-> k, amount |-> FALSE]
Idle == Job("none", "idle", NoTopup, "own")

Transactions ==
  [op : {"none", "return", "webhook"}, pc : {"idle", "gate", "row", "paypal", "commit"},
   topup : Topups \cup {NoTopup}, kind : AllKinds, amount : BOOLEAN]

TypeOK ==
  /\ row \in [Topups -> {"absent", "created", "captured", "failed"}]
  /\ entries \in [Topups -> Nat]
  /\ receipts \in [Topups -> Nat]
  /\ audits \in [Topups -> [Reasons -> Nat]]
  /\ paypal \in [Topups -> {"none", "created", "approved", "captured"}]
  /\ processed \in SUBSET Events
  /\ tx \in [Sessions -> Transactions]
  /\ rowLock \in [Topups -> Sessions \cup {NoSession}]
  /\ eventLock \in [Events -> Sessions \cup {NoSession}]
  /\ crashes \in 0..MaxCrashes

Init ==
  /\ row = [o \in Topups |-> "absent"]
  /\ entries = [o \in Topups |-> 0]
  /\ receipts = [o \in Topups |-> 0]
  /\ audits = [o \in Topups |-> [r \in Reasons |-> 0]]
  /\ paypal = [o \in Topups |-> "none"]
  /\ processed = {}
  /\ tx = [s \in Sessions |-> Idle]
  /\ rowLock = [o \in Topups |-> NoSession]
  /\ eventLock = [e \in Events |-> NoSession]
  /\ crashes = 0

Freed(lock, s) == [x \in DOMAIN lock |-> IF lock[x] = s THEN NoSession ELSE lock[x]]

End(s) ==
  /\ tx' = [tx EXCEPT ![s] = Idle]
  /\ rowLock' = Freed(rowLock, s)
  /\ eventLock' = Freed(eventLock, s)

-----------------------------------------------------------------------------
(* The row and the PayPal order are made in one transaction; the buyer     *)
(* learns where to approve it once that has committed.                     *)
StartTopup(o) ==
  /\ row[o] = "absent"
  /\ row' = [row EXCEPT ![o] = "created"]
  /\ paypal' = [paypal EXCEPT ![o] = "created"]
  /\ UNCHANGED <<entries, receipts, audits, processed, tx, locks, crashes>>

Approve(o) ==
  /\ paypal[o] = "created"
  /\ paypal' = [paypal EXCEPT ![o] = "approved"]
  /\ UNCHANGED <<books, processed, tx, locks, crashes>>

(* creditOrder: the ledger's unique order_id refuses a second entry, and   *)
(* only a new entry is mailed.                                             *)
CreditOrder(o) ==
  /\ entries' = [entries EXCEPT ![o] = 1]
  /\ receipts' = IF entries[o] = 0 THEN [receipts EXCEPT ![o] = @ + 1] ELSE receipts
  /\ row' = [row EXCEPT ![o] = "captured"]
  /\ UNCHANGED audits

RecordMismatch(o, reason) == audits' = [audits EXCEPT ![o][reason] = @ + 1]

-----------------------------------------------------------------------------
(* The return page. *)

OpenReturnPage(s, o) ==
  /\ tx[s].pc = "idle"
  /\ row[o] # "absent"
  /\ tx' = [tx EXCEPT ![s] = Job("return", "row", o, "own")]
  /\ UNCHANGED <<books, paypal, processed, locks, crashes>>

(* lockOrderByProviderId: a settled order is reported and left alone.      *)
LockOrder(s) ==
  LET o == tx[s].topup
  IN /\ tx[s].op = "return" /\ tx[s].pc = "row"
     /\ rowLock[o] = NoSession
     /\ IF row[o] = "created"
        THEN /\ rowLock' = [rowLock EXCEPT ![o] = s]
             /\ tx' = [tx EXCEPT ![s].pc = "paypal"]
             /\ UNCHANGED eventLock
        ELSE End(s)
     /\ UNCHANGED <<books, paypal, processed, crashes>>

(* captureOrder throws: the order is not approved, the call never arrives  *)
(* or its answer is lost.  Nothing is written.                             *)
CaptureThrows(s) ==
  LET o == tx[s].topup
  IN /\ tx[s].pc = "paypal"
     /\ \/ UNCHANGED paypal
        \/ paypal[o] = "approved" /\ paypal' = [paypal EXCEPT ![o] = "captured"]
     /\ End(s)
     /\ UNCHANGED <<books, processed, crashes>>

Capture(s) ==
  LET o == tx[s].topup
  IN /\ tx[s].pc = "paypal"
     /\ paypal[o] = "approved"
     /\ paypal' = [paypal EXCEPT ![o] = "captured"]
     /\ tx' = [tx EXCEPT ![s].pc = "commit", ![s].amount = TRUE]
     /\ UNCHANGED <<books, processed, locks, crashes>>

(* ORDER_ALREADY_CAPTURED: the order is read back.  A read that fails      *)
(* still counts as COMPLETED, and names no amount.                         *)
ReadBack(s) ==
  LET o == tx[s].topup
  IN /\ tx[s].pc = "paypal"
     /\ paypal[o] = "captured"
     /\ \E read \in {TRUE} \cup {~ReadBackMayFail} :
          tx' = [tx EXCEPT ![s].pc = "commit", ![s].amount = read]
     /\ UNCHANGED <<books, paypal, processed, locks, crashes>>

(* settleTopupOrder: what was captured is not what the pack costs.         *)
FailUnpriced(o) ==
  /\ RecordMismatch(o, "wrong-amount")
  /\ row' = [row EXCEPT ![o] = "failed"]
  /\ UNCHANGED <<entries, receipts>>

SettleOrder(s) ==
  LET o == tx[s].topup
  IN /\ tx[s].op = "return" /\ tx[s].pc = "commit"
     /\ IF tx[s].amount THEN CreditOrder(o) ELSE FailUnpriced(o)
     /\ End(s)
     /\ UNCHANGED <<paypal, processed, crashes>>

-----------------------------------------------------------------------------
(* The webhook. *)

Emitted(o, k) == IF k = "own" THEN paypal[o] = "captured" ELSE row[o] # "absent"

(* PayPal delivers an event, again and again, until it hears 200.          *)
Deliver(s, o, k) ==
  /\ tx[s].pc = "idle"
  /\ Emitted(o, k)
  /\ tx' = [tx EXCEPT ![s] = Job("webhook", "gate", o, k)]
  /\ UNCHANGED <<books, paypal, processed, locks, crashes>>

(* Mutation: the event is recorded in a transaction of its own.            *)
ClaimEventFirst(s) ==
  LET e == <<tx[s].topup, tx[s].kind>>
  IN /\ tx[s].pc = "gate"
     /\ IF e \in processed
        THEN End(s) /\ UNCHANGED processed
        ELSE /\ processed' = processed \cup {e}
             /\ tx' = [tx EXCEPT ![s].pc = "row"]
             /\ UNCHANGED locks
     /\ UNCHANGED <<books, paypal, crashes>>

(* recordProcessedEvent: the insert waits for one already in flight, and   *)
(* is refused once that has committed.                                     *)
ClaimEvent(s) ==
  LET e == <<tx[s].topup, tx[s].kind>>
  IN /\ tx[s].pc = "gate"
     /\ eventLock[e] = NoSession
     /\ IF e \in processed
        THEN End(s)
        ELSE /\ eventLock' = [eventLock EXCEPT ![e] = s]
             /\ tx' = [tx EXCEPT ![s].pc = "row"]
             /\ UNCHANGED rowLock
     /\ UNCHANGED <<books, paypal, processed, crashes>>

(* applyTopupCapture: a capture of another order is written down, whatever *)
(* has become of the one it names, which it leaves alone.                  *)
NoteForeign(o) ==
  /\ RecordMismatch(o, "order-mismatch")
  /\ UNCHANGED <<row, entries, receipts>>

(* applyTopupCapture: a capture of our order, for another amount.          *)
FailShort(o) ==
  /\ RecordMismatch(o, "wrong-amount")
  /\ row' = [row EXCEPT ![o] = "failed"]
  /\ UNCHANGED <<entries, receipts>>

(* Mutation: the capture is not checked against the row's order.           *)
ApplyAnyCapture(s) ==
  LET o == tx[s].topup
      k == tx[s].kind
  IN /\ tx[s].op = "webhook" /\ tx[s].pc = "row"
     /\ rowLock[o] = NoSession
     /\ IF row[o] # "created" THEN UNCHANGED books
        ELSE IF k = "other amount" THEN FailShort(o)
        ELSE CreditOrder(o)
     /\ processed' = processed \cup {<<o, k>>}
     /\ End(s)
     /\ UNCHANGED <<paypal, crashes>>

(* Mutation: the order's status is looked at before the capture's order.   *)
ApplyUnlessSettled(s) ==
  LET o == tx[s].topup
      k == tx[s].kind
  IN /\ tx[s].op = "webhook" /\ tx[s].pc = "row"
     /\ rowLock[o] = NoSession
     /\ IF row[o] # "created" THEN UNCHANGED books
        ELSE IF k = "other order" THEN NoteForeign(o)
        ELSE IF k = "other amount" THEN FailShort(o)
        ELSE CreditOrder(o)
     /\ processed' = processed \cup {<<o, k>>}
     /\ End(s)
     /\ UNCHANGED <<paypal, crashes>>

(* applyTopupCapture, under the row's lock, and the commit.                *)
ApplyCapture(s) ==
  LET o == tx[s].topup
      k == tx[s].kind
  IN /\ tx[s].op = "webhook" /\ tx[s].pc = "row"
     /\ rowLock[o] = NoSession
     /\ IF k = "other order" THEN NoteForeign(o)
        ELSE IF row[o] # "created" THEN UNCHANGED books
        ELSE IF k = "other amount" THEN FailShort(o)
        ELSE CreditOrder(o)
     /\ processed' = processed \cup {<<o, k>>}
     /\ End(s)
     /\ UNCHANGED <<paypal, crashes>>

(* The process dies, or a statement or the commit fails.                   *)
Crash(s) ==
  /\ tx[s].pc # "idle"
  /\ crashes < MaxCrashes
  /\ crashes' = crashes + 1
  /\ End(s)
  /\ UNCHANGED <<books, paypal, processed>>

-----------------------------------------------------------------------------
ReturnStep(s) == LockOrder(s) \/ CaptureThrows(s) \/ Capture(s) \/ ReadBack(s) \/ SettleOrder(s)
WebhookStep(s) == ClaimEvent(s) \/ ApplyCapture(s)

Next ==
  \/ \E o \in Topups : StartTopup(o) \/ Approve(o)
  \/ \E s \in Sessions :
       \/ \E o \in Topups : OpenReturnPage(s, o) \/ (\E k \in Kinds : Deliver(s, o, k))
       \/ ReturnStep(s) \/ WebhookStep(s) \/ Crash(s)

Spec == Init /\ [][Next]_vars

(* A transaction runs on; PayPal redelivers an event until it is taken,    *)
(* and a delivery tried for ever is not crashed, or kept waiting, every    *)
(* time.  Nothing makes the buyer come back to the return page.            *)
Redeliver(o, k) == <<o, k>> \notin processed /\ \E s \in Sessions : Deliver(s, o, k)

Fairness ==
  /\ \A s \in Sessions : WF_vars(ReturnStep(s) \/ WebhookStep(s))
  /\ \A o \in Topups :
       /\ SF_vars(Redeliver(o, "own"))
       /\ \A s \in Sessions :
            /\ SF_vars(tx[s].topup = o /\ ClaimEvent(s))
            /\ SF_vars(tx[s].topup = o /\ ApplyCapture(s))

FairSpec == Spec /\ Fairness

-----------------------------------------------------------------------------
(* Properties. *)

(* Credit is given only for money PayPal has taken for that order, once,   *)
(* with one receipt, and exactly for the orders marked captured, whichever *)
(* of the return pages and webhook deliveries settles it first.            *)
CreditedOnceIfPaid ==
  \A o \in Topups :
    /\ entries[o] = IF row[o] = "captured" THEN 1 ELSE 0
    /\ receipts[o] = entries[o]
    /\ row[o] = "captured" => paypal[o] = "captured"

(* Money that credits nothing is on record once, to be refunded by hand:   *)
(* a failed order has the one audit row of the return page or the webhook  *)
(* that failed it, and a capture of another order has the one of the       *)
(* delivery that was taken, whether the order it names was settled before, *)
(* and however often PayPal delivers it or its transaction dies.           *)
MismatchesOnRecord ==
  \A o \in Topups :
    /\ audits[o]["wrong-amount"] = IF row[o] = "failed" THEN 1 ELSE 0
    /\ audits[o]["order-mismatch"] = IF <<o, "other order">> \in processed THEN 1 ELSE 0

(* Nobody decides on an order while another does: the return page that is  *)
(* talking to PayPal still finds its order unsettled when it writes.       *)
SettledByHolder ==
  \A s \in Sessions : tx[s].op = "return" /\ tx[s].pc \in {"paypal", "commit"} =>
    row[tx[s].topup] = "created"

(* What an order has come to, and what was booked and mailed for it, is    *)
(* for good: no late capture, redelivery or reload changes it again.       *)
SettledStays ==
  [][\A o \in Topups : row[o] \in {"captured", "failed"} =>
       row'[o] = row[o] /\ entries'[o] = entries[o] /\ receipts'[o] = receipts[o]]_vars

(* What the code relies on without saying so, which makes the above hold   *)
(* from step to step: a return page past the row's lock holds it over an   *)
(* unsettled order, it commits only what PayPal has captured, our own      *)
(* capture is announced only once it is made, and a webhook holds its      *)
(* event, unprocessed, until it commits.                                   *)
InTurn(s) ==
  LET t == tx[s]
  IN /\ (t.pc = "idle") = (t.op = "none")
     /\ t.op # "none" => t.topup \in Topups
     /\ t.op = "return" => t.pc \in {"row", "paypal", "commit"}
     /\ t.op = "webhook" => t.pc \in {"gate", "row"} /\ t.kind \in Kinds
     /\ t.op = "webhook" /\ t.kind = "own" => paypal[t.topup] = "captured"
     /\ t.op = "webhook" /\ t.pc = "row" =>
          eventLock[<<t.topup, t.kind>>] = s /\ <<t.topup, t.kind>> \notin processed
     /\ t.pc \in {"paypal", "commit"} => rowLock[t.topup] = s /\ row[t.topup] = "created"
     /\ t.pc = "commit" => paypal[t.topup] = "captured"

IInv ==
  /\ TypeOK
  /\ CreditedOnceIfPaid
  /\ MismatchesOnRecord
  /\ \A o \in Topups : row[o] = "absent" => paypal[o] = "none"
  /\ \A s \in Sessions : InTurn(s)

(* A top-up PayPal took the money for is credited, though the buyer never  *)
(* comes back: the webhook is the backstop.                                *)
PaidIsCredited == \A o \in Topups : paypal[o] = "captured" ~> entries[o] = 1

(* Money taken is never left hanging: the order is credited, or closed as  *)
(* failed with its money on record for an admin (MismatchesOnRecord).      *)
PaidIsSettled ==
  \A o \in Topups : paypal[o] = "captured" ~> entries[o] = 1 \/ row[o] = "failed"
=============================================================================
