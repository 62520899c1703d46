-------------------------- MODULE CreditTopupProofs --------------------------
(* Safety of CreditTopup, for every set of top-ups and sessions, by the    *)
(* inductive invariant IInv.                                               *)
EXTENDS CreditTopup, TLAPS

Keyed == \A s \in Sessions : InTurn(s)

Started == \A o \in Topups : row[o] = "absent" => paypal[o] = "none"

LEMMA EndType ==
  ASSUME TypeOK, NEW s \in Sessions, End(s)
  PROVE  /\ tx' \in [Sessions -> Transactions]
         /\ rowLock' \in [Topups -> Sessions \cup {NoSession}]
         /\ eventLock' \in [Events -> Sessions \cup {NoSession}]
<1>1. Idle \in Transactions
  BY DEF Idle, Job, Transactions, AllKinds
<1> QED
  BY <1>1 DEF End, Freed, TypeOK

(* Ending s's transaction frees s's locks and no others. *)
LEMMA EndFrame ==
  ASSUME TypeOK, NEW s \in Sessions, End(s)
  PROVE  /\ tx'[s] = Idle
         /\ \A r \in Sessions \ {s} :
              /\ tx'[r] = tx[r]
              /\ \A o \in Topups : rowLock[o] = r => rowLock'[o] = r
              /\ \A e \in Events : eventLock[e] = r => eventLock'[e] = r
  BY DEF End, Freed, TypeOK

(* A session another one's step leaves alone stays in turn, if its row and *)
(* its lock do.                                                            *)
LEMMA Bystander ==
  ASSUME NEW r \in Sessions, InTurn(r), tx'[r] = tx[r],
         \A o \in Topups : paypal[o] = "captured" => paypal'[o] = "captured",
         \A o \in Topups : rowLock[o] = r => rowLock'[o] = r /\ row'[o] = row[o],
         \A e \in Events : eventLock[e] = r => eventLock'[e] = r /\ (e \in processed' => e \in processed)
  PROVE  InTurn(r)'
  BY DEF InTurn, Events

LEMMA IdleInTurn ==
  ASSUME NEW s \in Sessions, tx'[s] = Idle
  PROVE  InTurn(s)'
  BY DEF InTurn, Idle, Job

(* The invariant holds when no order exists yet.                           *)
THEOREM Initially == Init => IInv
<1> SUFFICES ASSUME Init PROVE IInv
  OBVIOUS
<1>1. Idle \in Transactions
  BY DEF Idle, Job, Transactions, AllKinds
<1>2. TypeOK
  BY <1>1, TopupAssumption DEF Init, TypeOK
<1>3. CreditedOnceIfPaid /\ MismatchesOnRecord /\ Started
  BY DEF Init, CreditedOnceIfPaid, MismatchesOnRecord, Started, Reasons
<1>4. Keyed
  BY DEF Init, Keyed, InTurn, Idle, Job
<1> QED
  BY <1>2, <1>3, <1>4 DEF IInv, Keyed, Started

(* No capture of another order is taken in this step. *)
NoneForeign == \A o \in Topups : <<o, "other order">> \in processed' <=> <<o, "other order">> \in processed

LEMMA OneMoreAudit ==
  ASSUME TypeOK, NEW o \in Topups, NEW r \in Reasons, RecordMismatch(o, r)
  PROVE  /\ audits' \in [Topups -> [Reasons -> Nat]]
         /\ audits'[o][r] = audits[o][r] + 1
         /\ audits[o][r] = 0 => audits'[o][r] = 1
         /\ \A p \in Topups, q \in Reasons : <<p, q>> # <<o, r>> => audits'[p][q] = audits[p][q]
<1> DEFINE a == [audits[o] EXCEPT ![r] = @ + 1]
<1>1. audits \in [Topups -> [Reasons -> Nat]] /\ audits' = [audits EXCEPT ![o] = a]
  BY DEF TypeOK, RecordMismatch
<1>2. audits[o] \in [Reasons -> Nat] /\ audits[o][r] \in Nat
  BY <1>1
<1>3. a \in [Reasons -> Nat] /\ a[r] = audits[o][r] + 1 /\ \A q \in Reasons \ {r} : a[q] = audits[o][q]
  BY <1>2
<1> HIDE DEF a
<1> QED
  BY <1>1, <1>3

(* Crediting an order that PayPal has captured keeps the books in order... *)
LEMMA CreditKeeps ==
  ASSUME TypeOK, CreditedOnceIfPaid, MismatchesOnRecord, Started, UNCHANGED paypal, NoneForeign,
         NEW o \in Topups, row[o] = "created", paypal[o] = "captured", CreditOrder(o)
  PROVE  /\ row' \in [Topups -> {"absent", "created", "captured", "failed"}]
         /\ entries' \in [Topups -> Nat] /\ receipts' \in [Topups -> Nat]
         /\ audits' \in [Topups -> [Reasons -> Nat]]
         /\ (CreditedOnceIfPaid /\ MismatchesOnRecord /\ Started)'
<1>1. entries[o] = 0 /\ receipts[o] = 0
  BY DEF CreditedOnceIfPaid
<1>2. receipts' = [receipts EXCEPT ![o] = 1]
  BY <1>1 DEF CreditOrder
<1>3. /\ row' = [row EXCEPT ![o] = "captured"]
      /\ entries' = [entries EXCEPT ![o] = 1]
      /\ audits' = audits
  BY DEF CreditOrder
<1>4. CreditedOnceIfPaid'
  BY <1>2, <1>3 DEF CreditedOnceIfPaid, TypeOK
<1> QED
  BY <1>2, <1>3, <1>4 DEF TypeOK, MismatchesOnRecord, NoneForeign, Started

(* ...and so does failing one.                                             *)
LEMMA FailKeeps ==
  ASSUME TypeOK, CreditedOnceIfPaid, MismatchesOnRecord, Started, UNCHANGED paypal, NoneForeign,
         NEW o \in Topups, row[o] = "created", FailUnpriced(o) \/ FailShort(o)
  PROVE  /\ row' \in [Topups -> {"absent", "created", "captured", "failed"}]
         /\ entries' \in [Topups -> Nat] /\ receipts' \in [Topups -> Nat]
         /\ audits' \in [Topups -> [Reasons -> Nat]]
         /\ (CreditedOnceIfPaid /\ MismatchesOnRecord /\ Started)'
<1>1. /\ RecordMismatch(o, "wrong-amount")
      /\ row' = [row EXCEPT ![o] = "failed"] /\ UNCHANGED <<entries, receipts>>
  BY DEF FailUnpriced, FailShort
<1>2. "wrong-amount" \in Reasons /\ "order-mismatch" \in Reasons
  BY DEF Reasons
<1>3. /\ audits' \in [Topups -> [Reasons -> Nat]]
      /\ audits'[o]["wrong-amount"] = audits[o]["wrong-amount"] + 1
      /\ \A p \in Topups, q \in Reasons : <<p, q>> # <<o, "wrong-amount">> => audits'[p][q] = audits[p][q]
  BY <1>1, <1>2, OneMoreAudit
<1>4. audits[o]["wrong-amount"] = 0
  BY DEF MismatchesOnRecord
<1>5. MismatchesOnRecord'
  <2>1. \A p \in Topups : row'[p] = IF p = o THEN "failed" ELSE row[p]
    BY <1>1 DEF TypeOK
  <2>2. ASSUME NEW p \in Topups PROVE audits'[p]["wrong-amount"] = IF row'[p] = "failed" THEN 1 ELSE 0
    <3>1. CASE p = o
      BY <1>3, <1>4, <2>1, <3>1
    <3>2. CASE p # o
      <4>1. audits'[p]["wrong-amount"] = audits[p]["wrong-amount"]
        BY <1>2, <1>3, <3>2
      <4> QED
        BY <2>1, <3>2, <4>1 DEF MismatchesOnRecord
    <3> QED
      BY <3>1, <3>2
  <2>3. ASSUME NEW p \in Topups PROVE audits'[p]["order-mismatch"] = audits[p]["order-mismatch"]
    BY <1>2, <1>3
  <2> QED
    BY <2>2, <2>3 DEF MismatchesOnRecord, NoneForeign
<1> QED
  BY <1>1, <1>3, <1>5 DEF TypeOK, CreditedOnceIfPaid, Started

(* A capture of another order is written down with its event. *)
LEMMA NoteKeeps ==
  ASSUME TypeOK, CreditedOnceIfPaid, MismatchesOnRecord, Started, UNCHANGED paypal,
         NEW o \in Topups, NoteForeign(o), <<o, "other order">> \notin processed,
         processed' = processed \cup {<<o, "other order">>}
  PROVE  /\ audits' \in [Topups -> [Reasons -> Nat]]
         /\ (CreditedOnceIfPaid /\ MismatchesOnRecord /\ Started)'
<1>1. RecordMismatch(o, "order-mismatch") /\ UNCHANGED <<row, entries, receipts>>
  BY DEF NoteForeign
<1>2. "wrong-amount" \in Reasons /\ "order-mismatch" \in Reasons
  BY DEF Reasons
<1>3. /\ audits' \in [Topups -> [Reasons -> Nat]]
      /\ audits'[o]["order-mismatch"] = audits[o]["order-mismatch"] + 1
      /\ \A p \in Topups, q \in Reasons : <<p, q>> # <<o, "order-mismatch">> => audits'[p][q] = audits[p][q]
  BY <1>1, <1>2, OneMoreAudit
<1>4. audits[o]["order-mismatch"] = 0
  BY DEF MismatchesOnRecord
<1>x. audits'[o]["order-mismatch"] = 1
  BY <1>1, <1>2, <1>4, OneMoreAudit
<1>5. ASSUME NEW p \in Topups PROVE audits'[p]["wrong-amount"] = audits[p]["wrong-amount"]
  BY <1>2, <1>3
<1>6. ASSUME NEW p \in Topups
      PROVE  audits'[p]["order-mismatch"] = IF <<p, "other order">> \in processed' THEN 1 ELSE 0
  <2>1. CASE p = o
    <3>1. <<p, "other order">> \in processed'
      BY <2>1
    <3>2. audits'[p]["order-mismatch"] = 1
      BY <1>x, <2>1
    <3> QED
      BY <3>1, <3>2
  <2>2. CASE p # o
    <3>1. audits'[p]["order-mismatch"] = audits[p]["order-mismatch"]
      BY <1>2, <1>3, <2>2
    <3>2. <<p, "other order">> # <<o, "other order">>
      BY <2>2
    <3>3. <<p, "other order">> \in processed' <=> <<p, "other order">> \in processed
      BY <3>2
    <3> QED
      BY <3>1, <3>3 DEF MismatchesOnRecord
  <2> QED
    BY <2>1, <2>2
<1>7. MismatchesOnRecord'
  BY <1>1, <1>5, <1>6 DEF MismatchesOnRecord
<1> QED
  BY <1>1, <1>3, <1>7 DEF CreditedOnceIfPaid, Started

(* Return pages, captures, events and crashes keep the invariant.          *)
THEOREM Consecution == IInv /\ [Next]_vars => IInv'
<1> SUFFICES ASSUME IInv, [Next]_vars PROVE IInv'
  OBVIOUS
<1>i. TypeOK /\ CreditedOnceIfPaid /\ MismatchesOnRecord /\ Started /\ Keyed
  BY DEF IInv, Started, Keyed
<1>q. TypeOK' /\ CreditedOnceIfPaid' /\ MismatchesOnRecord' /\ Started' /\ Keyed' => IInv'
  BY DEF IInv, Started, Keyed
<1>1. ASSUME NEW o \in Topups, StartTopup(o) PROVE IInv'
  <2>1. TypeOK'
    BY <1>i, <1>1 DEF StartTopup, TypeOK, locks
  <2>2. CreditedOnceIfPaid' /\ MismatchesOnRecord' /\ Started'
    BY <1>i, <1>1 DEF StartTopup, TypeOK, CreditedOnceIfPaid, MismatchesOnRecord, Started
  <2>3. Keyed'
    BY <1>i, <1>1 DEF StartTopup, TypeOK, Keyed, InTurn, Started, locks
  <2> QED
    BY <1>q, <2>1, <2>2, <2>3
<1>2. ASSUME NEW o \in Topups, Approve(o) PROVE IInv'
  <2>1. TypeOK'
    BY <1>i, <1>2 DEF Approve, TypeOK, locks, books
  <2>2. CreditedOnceIfPaid' /\ MismatchesOnRecord' /\ Started'
    BY <1>i, <1>2 DEF Approve, TypeOK, CreditedOnceIfPaid, MismatchesOnRecord, Started, books
  <2>3. Keyed'
    BY <1>i, <1>2 DEF Approve, TypeOK, Keyed, InTurn, locks, books
  <2> QED
    BY <1>q, <2>1, <2>2, <2>3
<1>3. ASSUME NEW s \in Sessions, NEW o \in Topups, OpenReturnPage(s, o) PROVE IInv'
  <2>1. tx' = [tx EXCEPT ![s] = [op |-> "return", pc |-> "row", topup |-> o, kind |-> "own", amount |-> FALSE]]
    BY <1>3 DEF OpenReturnPage, Job
  <2>2. TypeOK'
    <3>1. [op |-> "return", pc |-> "row", topup |-> o, kind |-> "own", amount |-> FALSE] \in Transactions
      BY DEF Transactions, AllKinds
    <3> QED
      BY <1>i, <1>3, <2>1, <3>1 DEF OpenReturnPage, TypeOK, locks, books
  <2>3. CreditedOnceIfPaid' /\ MismatchesOnRecord' /\ Started'
    BY <1>i, <1>3 DEF OpenReturnPage, CreditedOnceIfPaid, MismatchesOnRecord, Started, books
  <2>4. Keyed'
    BY <1>i, <1>3, <2>1 DEF OpenReturnPage, TypeOK, Keyed, InTurn, locks, books
  <2> QED
    BY <1>q, <2>2, <2>3, <2>4
<1>4. ASSUME NEW s \in Sessions, NEW o \in Topups, NEW k \in Kinds, Deliver(s, o, k) PROVE IInv'
  <2>1. tx' = [tx EXCEPT ![s] = [op |-> "webhook", pc |-> "gate", topup |-> o, kind |-> k, amount |-> FALSE]]
    BY <1>4 DEF Deliver, Job
  <2>2. TypeOK'
    <3>1. [op |-> "webhook", pc |-> "gate", topup |-> o, kind |-> k, amount |-> FALSE] \in Transactions
      BY TopupAssumption DEF Transactions
    <3> QED
      BY <1>i, <1>4, <2>1, <3>1 DEF Deliver, TypeOK, locks, books
  <2>3. CreditedOnceIfPaid' /\ MismatchesOnRecord' /\ Started'
    BY <1>i, <1>4 DEF Deliver, CreditedOnceIfPaid, MismatchesOnRecord, Started, books
  <2>4. Keyed'
    BY <1>i, <1>4, <2>1 DEF Deliver, Emitted, TypeOK, Keyed, InTurn, locks, books
  <2> QED
    BY <1>q, <2>2, <2>3, <2>4
<1>5. ASSUME NEW s \in Sessions, LockOrder(s) PROVE IInv'
  <2> DEFINE o == tx[s].topup
  <2>0. o \in Topups
    BY <1>i, <1>5 DEF Keyed, InTurn, LockOrder
  <2>1. CreditedOnceIfPaid' /\ MismatchesOnRecord' /\ Started'
    BY <1>i, <1>5 DEF LockOrder, CreditedOnceIfPaid, MismatchesOnRecord, Started, books
  <2>2. CASE row[o] = "created"
    <3>1. /\ rowLock' = [rowLock EXCEPT ![o] = s]
          /\ tx' = [tx EXCEPT ![s].pc = "paypal"]
      BY <1>5, <2>2 DEF LockOrder
    <3>2. TypeOK'
      <4>1. [tx[s] EXCEPT !.pc = "paypal"] \in Transactions
        BY <1>i DEF TypeOK, Transactions
      <4>2. tx' \in [Sessions -> Transactions]
        BY <1>i, <3>1, <4>1 DEF TypeOK
      <4>3. rowLock' \in [Topups -> Sessions \cup {NoSession}]
        BY <1>i, <2>0, <3>1 DEF TypeOK
      <4> QED
        BY <1>i, <1>5, <2>2, <4>2, <4>3 DEF LockOrder, TypeOK, books
    <3>3. InTurn(s)'
      BY <1>i, <1>5, <2>0, <2>2, <3>1 DEF LockOrder, TypeOK, Keyed, InTurn, books
    <3>4. ASSUME NEW r \in Sessions \ {s} PROVE InTurn(r)'
      BY <1>i, <1>5, <2>0, <2>2, <3>1, TopupAssumption, Bystander DEF LockOrder, TypeOK, Keyed, books
    <3> QED
      BY <1>q, <2>1, <3>2, <3>3, <3>4 DEF Keyed
  <2>3. CASE row[o] # "created"
    <3>1. End(s)
      BY <1>5, <2>3 DEF LockOrder
    <3>2. TypeOK'
      BY <1>i, <1>5, <3>1, EndType DEF LockOrder, TypeOK, books
    <3>3. InTurn(s)'
      BY <1>i, <3>1, EndFrame, IdleInTurn
    <3>4. ASSUME NEW r \in Sessions \ {s} PROVE InTurn(r)'
      BY <1>i, <1>5, <3>1, EndFrame, Bystander DEF LockOrder, Keyed, books
    <3> QED
      BY <1>q, <2>1, <3>2, <3>3, <3>4 DEF Keyed
  <2> QED
    BY <2>2, <2>3
<1>6. ASSUME NEW s \in Sessions, CaptureThrows(s) PROVE IInv'
  <2> DEFINE o == tx[s].topup
  <2>0. o \in Topups /\ End(s)
    BY <1>i, <1>6 DEF Keyed, InTurn, CaptureThrows
  <2>1. paypal' = paypal \/ (paypal[o] = "approved" /\ paypal' = [paypal EXCEPT ![o] = "captured"])
    BY <1>6 DEF CaptureThrows
  <2>2. TypeOK'
    BY <1>i, <1>6, <2>0, <2>1, EndType DEF CaptureThrows, TypeOK, books
  <2>3. CreditedOnceIfPaid' /\ MismatchesOnRecord' /\ Started'
    BY <1>i, <1>6, <2>0, <2>1 DEF CaptureThrows, TypeOK, CreditedOnceIfPaid, MismatchesOnRecord, Started, books
  <2>4. InTurn(s)'
    BY <1>i, <2>0, EndFrame, IdleInTurn
  <2>5. ASSUME NEW r \in Sessions \ {s} PROVE InTurn(r)'
    <3>1. \A p \in Topups : paypal[p] = "captured" => paypal'[p] = "captured"
      BY <1>i, <2>0, <2>1 DEF TypeOK
    <3> QED
      BY <1>i, <1>6, <2>0, <3>1, EndFrame, Bystander DEF CaptureThrows, Keyed, books
  <2> QED
    BY <1>q, <2>2, <2>3, <2>4, <2>5 DEF Keyed
<1>7. ASSUME NEW s \in Sessions, Capture(s) PROVE IInv'
  <2> DEFINE o == tx[s].topup
  <2>0. o \in Topups /\ rowLock[o] = s /\ row[o] = "created"
    BY <1>i, <1>7 DEF Keyed, InTurn, Capture
  <2>1. /\ paypal' = [paypal EXCEPT ![o] = "captured"]
        /\ tx' = [tx EXCEPT ![s].pc = "commit", ![s].amount = TRUE]
    BY <1>7 DEF Capture
  <2>2. TypeOK'
    <3>1. [tx[s] EXCEPT !.pc = "commit", !.amount = TRUE] \in Transactions
      BY <1>i DEF TypeOK, Transactions
    <3>2. tx' \in [Sessions -> Transactions]
      BY <1>i, <2>1, <3>1 DEF TypeOK
    <3> QED
      BY <1>i, <1>7, <2>0, <2>1, <3>2 DEF Capture, TypeOK, locks, books
  <2>3. CreditedOnceIfPaid' /\ MismatchesOnRecord' /\ Started'
    BY <1>i, <1>7, <2>0, <2>1 DEF Capture, TypeOK, CreditedOnceIfPaid, MismatchesOnRecord, Started, books
  <2>4. InTurn(s)'
    <3>1. tx[s].op = "return" /\ tx[s].pc = "paypal"
      BY <1>i, <1>7 DEF Keyed, InTurn, Capture, TypeOK, Transactions
    <3>2. tx'[s].op = "return" /\ tx'[s].pc = "commit" /\ tx'[s].topup = o
      BY <1>i, <2>1, <3>1 DEF TypeOK, Transactions
    <3>3. rowLock'[o] = s /\ row'[o] = "created" /\ paypal'[o] = "captured"
      BY <1>i, <1>7, <2>0, <2>1 DEF Capture, TypeOK, locks, books
    <3> QED
      BY <2>0, <3>2, <3>3 DEF InTurn
  <2>5. ASSUME NEW r \in Sessions \ {s} PROVE InTurn(r)'
    BY <1>i, <1>7, <2>0, <2>1, Bystander DEF Capture, TypeOK, Keyed, locks, books
  <2> QED
    BY <1>q, <2>2, <2>3, <2>4, <2>5 DEF Keyed
<1>8. ASSUME NEW s \in Sessions, ReadBack(s) PROVE IInv'
  <2>0. PICK read \in BOOLEAN : tx' = [tx EXCEPT ![s].pc = "commit", ![s].amount = read]
    BY <1>8, TopupAssumption DEF ReadBack
  <2>1. TypeOK'
    <3>1. [tx[s] EXCEPT !.pc = "commit", !.amount = read] \in Transactions
      BY <1>i DEF TypeOK, Transactions
    <3>2. tx' \in [Sessions -> Transactions]
      BY <1>i, <2>0, <3>1 DEF TypeOK
    <3> QED
      BY <1>i, <1>8, <3>2 DEF ReadBack, TypeOK, locks, books
  <2>2. CreditedOnceIfPaid' /\ MismatchesOnRecord' /\ Started'
    BY <1>i, <1>8 DEF ReadBack, CreditedOnceIfPaid, MismatchesOnRecord, Started, books
  <2>3. ASSUME NEW r \in Sessions PROVE InTurn(r)'
    <3>1. CASE r # s
      BY <1>i, <1>8, <2>0, <3>1, Bystander DEF ReadBack, TypeOK, Keyed, locks, books
    <3>2. CASE r = s
      <4>1. tx[s].op = "return" /\ InTurn(s) /\ tx[s].pc = "paypal"
        BY <1>i, <1>8 DEF Keyed, InTurn, ReadBack, TypeOK, Transactions
      <4>2. tx'[s].op = "return" /\ tx'[s].pc = "commit" /\ tx'[s].topup = tx[s].topup
        BY <1>i, <2>0, <4>1 DEF TypeOK, Transactions
      <4> QED
        BY <1>8, <3>2, <4>1, <4>2 DEF ReadBack, InTurn, locks, books
    <3> QED
      BY <3>1, <3>2
  <2> QED
    BY <1>q, <2>1, <2>2, <2>3 DEF Keyed
<1>9. ASSUME NEW s \in Sessions, SettleOrder(s) PROVE IInv'
  <2> DEFINE o == tx[s].topup
  <2>0. /\ o \in Topups /\ rowLock[o] = s /\ row[o] = "created" /\ paypal[o] = "captured"
        /\ End(s) /\ UNCHANGED <<paypal, processed, crashes>>
        /\ CreditOrder(o) \/ FailUnpriced(o)
        /\ NoneForeign
    BY <1>i, <1>9 DEF Keyed, InTurn, SettleOrder, NoneForeign
  <2>1. TypeOK' /\ CreditedOnceIfPaid' /\ MismatchesOnRecord' /\ Started'
    <3>1. CASE CreditOrder(o)
      BY <1>i, <2>0, <3>1, CreditKeeps, EndType DEF TypeOK
    <3>2. CASE FailUnpriced(o)
      BY <1>i, <2>0, <3>2, FailKeeps, EndType DEF TypeOK
    <3> QED
      BY <2>0, <3>1, <3>2
  <2>2. InTurn(s)'
    BY <1>i, <2>0, EndFrame, IdleInTurn
  <2>3. ASSUME NEW r \in Sessions \ {s} PROVE InTurn(r)'
    <3>1. \A p \in Topups \ {o} : row'[p] = row[p]
      BY <1>i, <2>0 DEF CreditOrder, FailUnpriced, TypeOK
    <3> QED
      BY <1>i, <2>0, <3>1, EndFrame, Bystander DEF Keyed
  <2> QED
    BY <1>q, <2>1, <2>2, <2>3 DEF Keyed
<1>10. ASSUME NEW s \in Sessions, ClaimEvent(s) PROVE IInv'
  <2> DEFINE e == <<tx[s].topup, tx[s].kind>>
  <2>0. e \in Events
    BY <1>i, <1>10 DEF Keyed, InTurn, ClaimEvent, Events, TypeOK, Transactions
  <2>1. CreditedOnceIfPaid' /\ MismatchesOnRecord' /\ Started'
    BY <1>i, <1>10 DEF ClaimEvent, CreditedOnceIfPaid, MismatchesOnRecord, Started, books
  <2>2. CASE e \in processed
    <3>1. End(s)
      BY <1>10, <2>2 DEF ClaimEvent
    <3>2. TypeOK'
      BY <1>i, <1>10, <3>1, EndType DEF ClaimEvent, TypeOK, books
    <3>3. InTurn(s)'
      BY <1>i, <3>1, EndFrame, IdleInTurn
    <3>4. ASSUME NEW r \in Sessions \ {s} PROVE InTurn(r)'
      BY <1>i, <1>10, <3>1, EndFrame, Bystander DEF ClaimEvent, Keyed, books
    <3> QED
      BY <1>q, <2>1, <3>2, <3>3, <3>4 DEF Keyed
  <2>3. CASE e \notin processed
    <3>1. /\ eventLock' = [eventLock EXCEPT ![e] = s]
          /\ tx' = [tx EXCEPT ![s].pc = "row"]
          /\ UNCHANGED rowLock
      BY <1>10, <2>3 DEF ClaimEvent
    <3>2. TypeOK'
      <4>1. [tx[s] EXCEPT !.pc = "row"] \in Transactions
        BY <1>i DEF TypeOK, Transactions
      <4>2. tx' \in [Sessions -> Transactions]
        BY <1>i, <3>1, <4>1 DEF TypeOK
      <4> QED
        BY <1>i, <1>10, <2>0, <3>1, <4>2 DEF ClaimEvent, TypeOK, books
    <3>3. InTurn(s)'
      BY <1>i, <1>10, <2>0, <2>3, <3>1 DEF ClaimEvent, TypeOK, Keyed, InTurn, books
    <3>4. ASSUME NEW r \in Sessions \ {s} PROVE InTurn(r)'
      BY <1>i, <1>10, <2>0, <3>1, TopupAssumption, Bystander DEF ClaimEvent, TypeOK, Keyed, books
    <3> QED
      BY <1>q, <2>1, <3>2, <3>3, <3>4 DEF Keyed
  <2> QED
    BY <2>2, <2>3
<1>11. ASSUME NEW s \in Sessions, ApplyCapture(s) PROVE IInv'
  <2> DEFINE o == tx[s].topup
             k == tx[s].kind
  <2>0. /\ o \in Topups /\ k \in Kinds /\ rowLock[o] = NoSession
        /\ End(s) /\ UNCHANGED <<paypal, crashes>>
        /\ processed' = processed \cup {<<o, k>>}
        /\ k = "own" => paypal[o] = "captured"
        /\ eventLock[<<o, k>>] = s /\ <<o, k>> \notin processed
    BY <1>i, <1>11 DEF Keyed, InTurn, ApplyCapture
  <2>1. processed' \in SUBSET Events
    BY <1>i, <2>0 DEF Events, TypeOK
  <2>2. \/ k = "other order" /\ NoteForeign(o)
        \/ k # "other order" /\ UNCHANGED books
        \/ k # "other order" /\ row[o] = "created" /\ FailShort(o)
        \/ row[o] = "created" /\ k = "own" /\ CreditOrder(o)
    BY <1>i, <1>11, <2>0, TopupAssumption DEF ApplyCapture, AllKinds
  <2>3. TypeOK' /\ CreditedOnceIfPaid' /\ MismatchesOnRecord' /\ Started'
    <3>0. k # "other order" => NoneForeign
      <4>1. k # "other order" => \A p \in Topups : <<p, "other order">> # <<o, k>>
        OBVIOUS
      <4>2. processed' = processed \cup {<<o, k>>}
        BY <2>0
      <4> QED
        BY <4>1, <4>2 DEF NoneForeign
    <3>1. CASE k = "other order" /\ NoteForeign(o)
      <4>1. audits' \in [Topups -> [Reasons -> Nat]] /\ (CreditedOnceIfPaid /\ MismatchesOnRecord /\ Started)'
        BY <1>i, <2>0, <3>1, NoteKeeps
      <4>2. UNCHANGED <<row, entries, receipts>>
        BY <3>1 DEF NoteForeign
      <4> QED
        BY <1>i, <2>0, <2>1, <4>1, <4>2, EndType DEF TypeOK
    <3>2. CASE k # "other order" /\ UNCHANGED books
      BY <1>i, <2>0, <2>1, <3>0, <3>2, EndType
         DEF TypeOK, CreditedOnceIfPaid, MismatchesOnRecord, NoneForeign, Started, books
    <3>3. CASE k # "other order" /\ row[o] = "created" /\ FailShort(o)
      BY <1>i, <2>0, <2>1, <3>0, <3>3, FailKeeps, EndType DEF TypeOK
    <3>4. CASE row[o] = "created" /\ k = "own" /\ CreditOrder(o)
      BY <1>i, <2>0, <2>1, <3>0, <3>4, CreditKeeps, EndType DEF TypeOK
    <3> QED
      BY <2>2, <3>1, <3>2, <3>3, <3>4
  <2>4. InTurn(s)'
    BY <1>i, <2>0, EndFrame, IdleInTurn
  <2>5. ASSUME NEW r \in Sessions \ {s} PROVE InTurn(r)'
    <3>1. \A p \in Topups \ {o} : row'[p] = row[p]
      BY <1>i, <2>0, <2>2 DEF CreditOrder, FailShort, NoteForeign, TypeOK, books
    <3>2. \A e \in Events : eventLock[e] = r => (e \in processed' => e \in processed)
      BY <2>0
    <3> QED
      BY <1>i, <2>0, <3>1, <3>2, EndFrame, Bystander, TopupAssumption DEF Keyed
  <2> QED
    BY <1>q, <2>3, <2>4, <2>5 DEF Keyed
<1>12. ASSUME NEW s \in Sessions, Crash(s) PROVE IInv'
  <2>0. End(s) /\ UNCHANGED <<books, paypal, processed>>
    BY <1>12 DEF Crash
  <2>1. crashes' \in 0..MaxCrashes
    BY <1>i, <1>12, TopupAssumption DEF Crash, TypeOK
  <2>2. TypeOK'
    BY <1>i, <2>0, <2>1, EndType DEF TypeOK, books
  <2>3. CreditedOnceIfPaid' /\ MismatchesOnRecord' /\ Started'
    BY <1>i, <2>0 DEF CreditedOnceIfPaid, MismatchesOnRecord, Started, books
  <2>4. InTurn(s)'
    BY <1>i, <2>0, EndFrame, IdleInTurn
  <2>5. ASSUME NEW r \in Sessions \ {s} PROVE InTurn(r)'
    BY <1>i, <2>0, EndFrame, Bystander DEF Keyed, books
  <2> QED
    BY <1>q, <2>2, <2>3, <2>4, <2>5 DEF Keyed
<1>13. CASE UNCHANGED vars
  <2>1. TypeOK'
    BY <1>i, <1>13 DEF vars, books, locks, TypeOK
  <2>2. CreditedOnceIfPaid' /\ MismatchesOnRecord' /\ Started' /\ Keyed'
    BY <1>i, <1>13 DEF vars, books, locks, CreditedOnceIfPaid, MismatchesOnRecord, Started, Keyed, InTurn
  <2> QED
    BY <1>q, <2>1, <2>2
<1> QED
  BY <1>1, <1>2, <1>3, <1>4, <1>5, <1>6, <1>7, <1>8, <1>9, <1>10, <1>11, <1>12, <1>13
     DEF Next, ReturnStep, WebhookStep

(* An order row says what became of its money, whoever settles it.         *)
THEOREM Invariant == Spec => []IInv
  BY Initially, Consecution, PTL DEF Spec

(* Every variable of the top-up keeps its type. *)
THEOREM TypeCorrect == Spec => []TypeOK
<1>1. IInv => TypeOK
  BY DEF IInv
<1> QED
  BY <1>1, Invariant, PTL

(* Whatever return pages, redeliveries and crashes interleave, credit is   *)
(* given once, for money PayPal took, and for exactly the captured orders. *)
THEOREM CreditMatchesMoney == Spec => []CreditedOnceIfPaid
<1>1. IInv => CreditedOnceIfPaid
  BY DEF IInv
<1> QED
  BY <1>1, Invariant, PTL

(* Money that credits nothing is on record exactly once: a failed order by *)
(* whoever failed it, a capture of another order by the delivery taken,    *)
(* whatever redeliveries, crashes and settlements come between             *)
(* (recordMismatch in applyTopupCapture and settleTopupOrder).             *)
THEOREM FailuresAreFound == Spec => []MismatchesOnRecord
<1>1. IInv => MismatchesOnRecord
  BY DEF IInv
<1> QED
  BY <1>1, Invariant, PTL

(* A return page waiting on PayPal is the only one that can settle its     *)
(* order.                                                                  *)
THEOREM OneSettler == Spec => []SettledByHolder
<1>1. IInv => SettledByHolder
  BY DEF IInv, InTurn, SettledByHolder
<1> QED
  BY <1>1, Invariant, PTL

(* Whoever settles an order finds it unsettled: the return page because it *)
(* holds the row since it read it, the webhook because it reads again.     *)
LEMMA SettlesUnsettled ==
  ASSUME IInv, NEW s \in Sessions, SettleOrder(s) \/ ApplyCapture(s)
  PROVE  \/ UNCHANGED <<row, entries, receipts>>
         \/ \E o \in Topups : row[o] = "created" /\ (CreditOrder(o) \/ FailUnpriced(o) \/ FailShort(o))
<1>1. CASE SettleOrder(s)
  BY <1>1 DEF IInv, InTurn, SettleOrder
<1>2. CASE ApplyCapture(s)
  BY <1>2 DEF IInv, InTurn, ApplyCapture, NoteForeign, books
<1> QED
  BY <1>1, <1>2

(* A settled top-up is never settled again: neither its status, nor its    *)
(* entry in the ledger, nor its receipt (applyTopupCapture,                *)
(* settleTopupOrder).                                                      *)
THEOREM SettledForGood == Spec => SettledStays
<1>1. ASSUME IInv, [Next]_vars, NEW o \in Topups, row[o] \in {"captured", "failed"}
      PROVE  row'[o] = row[o] /\ entries'[o] = entries[o] /\ receipts'[o] = receipts[o]
  <2>t. TypeOK
    BY <1>1 DEF IInv
  <2>1. ASSUME NEW p \in Topups, StartTopup(p) PROVE row'[o] = row[o] /\ UNCHANGED <<entries, receipts>>
    BY <1>1, <2>1, <2>t DEF StartTopup, TypeOK
  <2>2. ASSUME NEW s \in Sessions, SettleOrder(s) \/ ApplyCapture(s)
        PROVE  row'[o] = row[o] /\ entries'[o] = entries[o] /\ receipts'[o] = receipts[o]
    <3>1. CASE UNCHANGED <<row, entries, receipts>>
      BY <3>1
    <3>2. ASSUME NEW p \in Topups, row[p] = "created", CreditOrder(p) \/ FailUnpriced(p) \/ FailShort(p)
          PROVE  row'[o] = row[o] /\ entries'[o] = entries[o] /\ receipts'[o] = receipts[o]
      BY <1>1, <2>t, <3>2 DEF CreditOrder, FailUnpriced, FailShort, TypeOK
    <3> QED
      BY <1>1, <2>2, <3>1, <3>2, SettlesUnsettled
  <2>3. CASE UNCHANGED books
    BY <2>3 DEF books
  <2> QED
    BY <1>1, <2>1, <2>2, <2>3
       DEF Next, vars, Approve, OpenReturnPage, Deliver, ReturnStep, WebhookStep, LockOrder, CaptureThrows,
           Capture, ReadBack, ClaimEvent, Crash
<1>2. IInv /\ [Next]_vars =>
        [\A o \in Topups : row[o] \in {"captured", "failed"} =>
           row'[o] = row[o] /\ entries'[o] = entries[o] /\ receipts'[o] = receipts[o]]_vars
  BY <1>1
<1> QED
  BY <1>2, Invariant, PTL DEF Spec, SettledStays
=============================================================================
