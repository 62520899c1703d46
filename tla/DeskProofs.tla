------------------------------- MODULE DeskProofs -------------------------------
(* Safety of the desk, part by part, for every set of posts, visits,       *)
(* claims, reviews and sessions.  Each part has an inductive invariant of  *)
(* its own, which a step of the others leaves alone (DeskStep).            *)
EXTENDS Desk, TLAPS

(* What each part does in a step of the desk.                              *)
LEMMA DeskStep ==
  ASSUME [DeskNext]_all
  PROVE  [Next]_vars /\ (Claims!Next \/ UNCHANGED claimVars) /\ (Opinions!Next \/ UNCHANGED reviewVars)
BY DEF DeskNext, OfJobs, OfClaims, OfReviews, all

-----------------------------------------------------------------------------
(* Job posts: what a post owes, what PayPal holds, and who has been told.   *)

PostRows == [status : {"absent", "pending", "published", "removed", "expired"},
         payment : {"free", "pending", "paid"}, expiresAt : Nat, reminded : BOOLEAN]
Visiting == [pc : {"idle", "paypal", "mark"}, post : Posts \cup {NoPost}, amount : BOOLEAN]
Decided(p) == post[p].status \notin {"absent", "pending"}

(* What a post owes and what PayPal holds.                                 *)
Money(p) ==
  /\ Decided(p) => post[p].payment # "pending"
  /\ post[p].payment = "paid" => paypal[p] = "captured"
  /\ <<"paid late", p>> \notin audit
  /\ paypal[p] # "none" => post[p].status # "absent" /\ post[p].payment # "free"
  /\ post[p].status = "absent" => post[p].payment = "pending" /\ ~post[p].reminded

Owed == \A p \in Posts : Money(p)

(* A return page is at an order of a post, and marks it only when its      *)
(* capture is made.                                                        *)
AtOrder ==
  \A v \in Visits : visit[v].pc # "idle" =>
    /\ visit[v].post \in Posts /\ paypal[visit[v].post] # "none"
    /\ visit[v].pc = "mark" => paypal[visit[v].post] = "captured"

(* What the admin and the poster have been told, and are about to be.      *)
Reported(p) ==
  notes["submitted"][p] + letters["review"][p]
    = IF post[p].status = "absent" \/ post[p].payment = "pending" THEN 0 ELSE 1

Told(p) ==
  /\ letters["approved"][p] > 0 => post[p].status \in {"published", "expired"}
  /\ letters["rejected"][p] > 0 => post[p].status = "removed"
  /\ notes["decided"][p] + letters["approved"][p] + letters["rejected"][p] = IF Decided(p) THEN 1 ELSE 0
  /\ notes["expiring"][p] + letters["closing"][p] <= IF post[p].reminded THEN 1 ELSE 0

Informed == \A p \in Posts : Reported(p) /\ Told(p)

JobInv == TypeOK /\ Owed /\ AtOrder /\ Informed /\ CapturesAccountedFor

LEMMA JobTypes ==
  ASSUME TypeOK
  PROVE  /\ post \in [Posts -> PostRows] /\ visit \in [Visits -> Visiting]
         /\ notes \in [NoteKinds -> [Posts -> Nat]] /\ letters \in [LetterKinds -> [Posts -> Nat]]
BY DEF TypeOK, PostRows, Visiting

LEMMA Counts ==
  ASSUME TypeOK, NEW p \in Posts
  PROVE  /\ \A k \in {"submitted", "decided", "expiring"} : notes[k][p] \in Nat
         /\ \A k \in {"review", "approved", "rejected", "closing"} : letters[k][p] \in Nat
BY DEF TypeOK, NoteKinds, LetterKinds

(* Queueing a note adds one to its count and leaves the others.            *)
LEMMA QueueAdds ==
  ASSUME TypeOK, NEW kind \in NoteKinds, NEW p \in Posts, Queue(kind, p)
  PROVE  /\ notes' \in [NoteKinds -> [Posts -> Nat]]
         /\ notes'[kind][p] = notes[kind][p] + 1
         /\ \A k \in NoteKinds, q \in Posts : k # kind \/ q # p => notes'[k][q] = notes[k][q]
<1>1. notes[kind] \in [Posts -> Nat] /\ notes \in [NoteKinds -> [Posts -> Nat]]
  BY DEF TypeOK
<1>2. PICK f : f = [notes[kind] EXCEPT ![p] = notes[kind][p] + 1]
  OBVIOUS
<1>3. /\ f \in [Posts -> Nat] /\ f[p] = notes[kind][p] + 1
      /\ \A q \in Posts : q # p => f[q] = notes[kind][q]
  BY <1>1, <1>2
<1>4. notes' = [notes EXCEPT ![kind] = f]
  BY <1>2 DEF Queue
<1> QED
  BY <1>1, <1>3, <1>4

LEMMA JobInit == Init => JobInv
<1> SUFFICES ASSUME Init PROVE JobInv
  OBVIOUS
<1>1. TypeOK
  <2>1. post \in [Posts -> PostRows] /\ visit \in [Visits -> Visiting]
    BY DEF Init, PostRows, Visiting, Away, NoPost
  <2> QED
    BY <2>1, BoardAssumption DEF Init, TypeOK, PostRows, Visiting
<1>2. Owed /\ AtOrder /\ CapturesAccountedFor
  BY DEF Init, Owed, Money, Decided, AtOrder, Away, CapturesAccountedFor
<1>3. Informed
  <2>1. \A p \in Posts : \A k \in {"submitted", "decided", "expiring"} : notes[k][p] = 0
    BY DEF Init, NoteKinds
  <2>2. \A p \in Posts : \A k \in {"review", "approved", "rejected", "closing"} : letters[k][p] = 0
    BY DEF Init, LetterKinds
  <2>3. \A p \in Posts : post[p].status = "absent" /\ ~post[p].reminded
    BY DEF Init
  <2> QED
    BY <2>1, <2>2, <2>3 DEF Informed, Reported, Told, Decided
<1> QED
  BY <1>1, <1>2, <1>3 DEF JobInv

(* A step about one post keeps what is said of the others.                 *)
LEMMA OthersKeep ==
  ASSUME Owed, Informed, NEW p \in Posts,
         \A q \in Posts \ {p} :
           /\ post'[q] = post[q] /\ paypal'[q] = paypal[q]
           /\ \A k \in NoteKinds : notes'[k][q] = notes[k][q]
           /\ \A k \in LetterKinds : letters'[k][q] = letters[k][q]
           /\ <<"paid late", q>> \in audit' => <<"paid late", q>> \in audit,
         Money(p)', Reported(p)', Told(p)'
  PROVE  Owed' /\ Informed'
<1> SUFFICES ASSUME NEW q \in Posts \ {p} PROVE Money(q)' /\ Reported(q)' /\ Told(q)'
  BY DEF Owed, Informed
<1>0. /\ Money(q) /\ post'[q] = post[q] /\ paypal'[q] = paypal[q]
      /\ <<"paid late", q>> \notin audit'
  BY DEF Owed, Money
<1>1. Money(q)'
  BY <1>0 DEF Money, Decided
<1>2. /\ notes'["submitted"][q] = notes["submitted"][q] /\ notes'["decided"][q] = notes["decided"][q]
      /\ notes'["expiring"][q] = notes["expiring"][q] /\ post'[q] = post[q]
      /\ letters'["review"][q] = letters["review"][q] /\ letters'["approved"][q] = letters["approved"][q]
      /\ letters'["rejected"][q] = letters["rejected"][q] /\ letters'["closing"][q] = letters["closing"][q]
  BY DEF NoteKinds, LetterKinds
<1>3. Reported(q) /\ Told(q)
  BY DEF Informed
<1> QED
  BY <1>1, <1>2, <1>3 DEF Reported, Told, Decided

(* Orders at PayPal only go forward, so a return page stays where it is.   *)
LEMMA VisitsKeep ==
  ASSUME AtOrder, UNCHANGED visit,
         \A q \in Posts : /\ paypal[q] # "none" => paypal'[q] # "none"
                          /\ paypal[q] = "captured" => paypal'[q] = "captured"
  PROVE  AtOrder'
BY DEF AtOrder

(* Settling a post PayPal has captured: paid once, and told once.          *)
LEMMA MarkKeeps ==
  ASSUME JobInv, NEW p \in Posts, paypal[p] = "captured", MarkJobPaid(p), UNCHANGED <<paypal, letters>>
  PROVE  /\ post' \in [Posts -> PostRows] /\ notes' \in [NoteKinds -> [Posts -> Nat]]
         /\ audit' \in SUBSET ({"mismatch", "paid late", "paid"} \X Posts) /\ audit \subseteq audit'
         /\ Owed' /\ Informed' /\ post'[p].payment = "paid"
         /\ \A q \in Posts : post[q].payment = "paid" => post'[q].payment = "paid"
<1>i. TypeOK /\ Owed /\ Informed /\ Money(p) /\ Reported(p) /\ Told(p) /\ post \in [Posts -> PostRows]
  BY JobTypes DEF JobInv, Owed, Informed
<1>1. CASE post[p].payment # "pending"
  <2>1. UNCHANGED <<post, audit, notes>>
    BY <1>1 DEF MarkJobPaid
  <2>2. post[p].payment = "paid"
    BY <1>1, <1>i DEF Money, PostRows
  <2> QED
    BY <2>1, <2>2, <1>i DEF TypeOK, Owed, Money, Decided, Informed, Reported, Told
<1>2. CASE post[p].payment = "pending"
  <2>1. post[p].status = "pending"
    BY <1>2, <1>i DEF Money, Decided
  <2>2. /\ post' = [post EXCEPT ![p].payment = "paid"]
        /\ audit' = audit \cup {<<"paid", p>>}
        /\ Queue("submitted", p)
    BY <1>2, <2>1 DEF MarkJobPaid
  <2>3. "submitted" \in NoteKinds
    BY DEF NoteKinds
  <2>4. /\ notes' \in [NoteKinds -> [Posts -> Nat]]
        /\ notes'["submitted"][p] = notes["submitted"][p] + 1
        /\ \A k \in NoteKinds, q \in Posts : k # "submitted" \/ q # p => notes'[k][q] = notes[k][q]
    BY <2>2, <2>3, <1>i, QueueAdds
  <2>5. /\ post' \in [Posts -> PostRows] /\ \A q \in Posts \ {p} : post'[q] = post[q]
        /\ post'[p].status = "pending" /\ post'[p].payment = "paid" /\ post'[p].reminded = post[p].reminded
    BY <2>1, <2>2, <1>i DEF PostRows
  <2>6. Money(p)'
    BY <2>2, <2>5, <1>i DEF Money, Decided
  <2>7. Reported(p)'
    BY <2>1, <2>4, <2>5, <1>2, <1>i, Counts DEF Reported
  <2>8. Told(p)'
    BY <2>1, <2>4, <2>5, <1>i DEF Told, Decided, NoteKinds
  <2>9. Owed' /\ Informed'
    BY <2>2, <2>4, <2>5, <2>6, <2>7, <2>8, <1>i, OthersKeep
  <2> QED
    <3>1. <<"paid", p>> \in {"mismatch", "paid late", "paid"} \X Posts
      OBVIOUS
    <3>2. audit' \in SUBSET ({"mismatch", "paid late", "paid"} \X Posts)
      BY <2>2, <3>1, <1>i DEF TypeOK
    <3>3. \A q \in Posts : post[q].payment = "paid" => post'[q].payment = "paid"
      BY <2>5
    <3> QED
      BY <2>2, <2>4, <2>5, <2>9, <3>2, <3>3
<1> QED
  BY <1>1, <1>2

LEMMA MismatchKeeps ==
  ASSUME JobInv, NEW p \in Posts, RecordMismatch(p), UNCHANGED <<paypal, letters>>
  PROVE  /\ UNCHANGED <<post, notes>> /\ <<"mismatch", p>> \in audit' /\ audit \subseteq audit'
         /\ audit' \in SUBSET ({"mismatch", "paid late", "paid"} \X Posts)
         /\ Owed' /\ Informed'
<1>1. UNCHANGED <<post, notes>> /\ audit' = audit \cup {<<"mismatch", p>>}
  BY DEF RecordMismatch
<1>2. Owed'
  BY <1>1 DEF JobInv, Owed, Money, Decided
<1>3. Informed'
  BY <1>1 DEF JobInv, Informed, Reported, Told, Decided
<1> QED
  <2>1. <<"mismatch", p>> \in {"mismatch", "paid late", "paid"} \X Posts
    OBVIOUS
  <2> QED
    BY <1>1, <1>2, <1>3, <2>1 DEF JobInv, TypeOK

LEMMA CapturesKeep ==
  ASSUME CapturesAccountedFor, UNCHANGED processed, audit \subseteq audit',
         \A q \in Posts : post[q].payment = "paid" => post'[q].payment = "paid"
  PROVE  CapturesAccountedFor'
BY DEF CapturesAccountedFor

(* A post is made: nothing was known of it.                                *)
LEMMA CreateKeeps ==
  ASSUME JobInv, NEW p \in Posts, CreateFree(p) \/ CreatePaid(p)
  PROVE  JobInv'
<1>i. TypeOK /\ Owed /\ AtOrder /\ Informed /\ CapturesAccountedFor /\ Money(p) /\ Reported(p) /\ Told(p)
      /\ post \in [Posts -> PostRows]
  BY JobTypes DEF JobInv, Owed, Informed
<1>1. post[p].status = "absent" /\ post[p].payment = "pending" /\ ~post[p].reminded /\ paypal[p] = "none"
  BY <1>i DEF CreateFree, CreatePaid, Money, TypeOK
<1>2. \A q \in Posts : post[q].payment = "paid" => post'[q] = post[q]
  BY <1>1, <1>i DEF CreateFree, CreatePaid
<1>3. CapturesAccountedFor'
  BY <1>2, <1>i, CapturesKeep DEF CreateFree, CreatePaid
<1>4. \A k \in Kinds : <<p, k>> \notin processed \/ k # "own"
  BY <1>1, <1>i DEF CapturesAccountedFor
<1>5. CASE CreateFree(p)
  <2>1. /\ post' = [post EXCEPT ![p].status = "pending", ![p].payment = "free"]
        /\ Queue("submitted", p)
        /\ UNCHANGED <<now, paypal, visit, processed, audit, letters>>
    BY <1>5 DEF CreateFree
  <2>2. "submitted" \in NoteKinds
    BY DEF NoteKinds
  <2>3. /\ notes' \in [NoteKinds -> [Posts -> Nat]]
        /\ notes'["submitted"][p] = notes["submitted"][p] + 1
        /\ \A k \in NoteKinds, q \in Posts : k # "submitted" \/ q # p => notes'[k][q] = notes[k][q]
    BY <2>1, <2>2, <1>i, QueueAdds
  <2>4. /\ post' \in [Posts -> PostRows] /\ \A q \in Posts \ {p} : post'[q] = post[q]
        /\ post'[p].status = "pending" /\ post'[p].payment = "free" /\ ~post'[p].reminded
    BY <2>1, <1>1, <1>i DEF PostRows
  <2>5. TypeOK'
    BY <2>1, <2>3, <2>4, <1>i DEF TypeOK, PostRows
  <2>6. Money(p)'
    BY <2>1, <2>4, <1>1, <1>i DEF Money, Decided
  <2>7. Reported(p)'
    BY <2>1, <2>3, <2>4, <1>1, <1>i, Counts DEF Reported
  <2>8. Told(p)'
    BY <2>1, <2>3, <2>4, <1>1, <1>i DEF Told, Decided, NoteKinds
  <2>9. Owed' /\ Informed'
    BY <2>1, <2>3, <2>4, <2>6, <2>7, <2>8, <1>i, OthersKeep
  <2> QED
    BY <2>1, <2>5, <2>9, <1>3, <1>i, VisitsKeep DEF JobInv
<1>6. CASE CreatePaid(p)
  <2>1. /\ post' = [post EXCEPT ![p].status = "pending", ![p].payment = "pending"]
        /\ paypal' = [paypal EXCEPT ![p] = "created"]
        /\ UNCHANGED <<now, visit, processed, audit, notes, letters>>
    BY <1>6 DEF CreatePaid, mail
  <2>a. /\ post' \in [Posts -> PostRows] /\ \A q \in Posts \ {p} : post'[q] = post[q]
        /\ post'[p].status = "pending" /\ post'[p].payment = "pending" /\ ~post'[p].reminded
    BY <2>1, <1>1, <1>i DEF PostRows
  <2>b. /\ \A q \in Posts \ {p} : paypal'[q] = paypal[q]
        /\ paypal'[p] = "created"
    BY <2>1, <1>i DEF TypeOK
  <2>2. /\ post' \in [Posts -> PostRows] /\ \A q \in Posts \ {p} : post'[q] = post[q] /\ paypal'[q] = paypal[q]
        /\ post'[p].status = "pending" /\ post'[p].payment = "pending" /\ ~post'[p].reminded
        /\ paypal'[p] = "created"
    BY <2>a, <2>b
  <2>3. TypeOK'
    BY <2>1, <2>2, <1>i DEF TypeOK, PostRows
  <2>4. Money(p)' /\ Reported(p)' /\ Told(p)'
    BY <2>1, <2>2, <1>1, <1>i DEF Money, Reported, Told, Decided
  <2>5. Owed' /\ Informed'
    BY <2>1, <2>2, <2>4, <1>i, OthersKeep
  <2> QED
    BY <2>1, <2>2, <2>3, <2>5, <1>1, <1>3, <1>i, VisitsKeep DEF JobInv
<1> QED
  BY <1>5, <1>6

LEMMA DecisionKeeps ==
  ASSUME JobInv, NEW p \in Posts, ApproveJob(p) \/ RejectJob(p)
  PROVE  JobInv'
<1>i. TypeOK /\ Owed /\ AtOrder /\ Informed /\ CapturesAccountedFor /\ Money(p) /\ Reported(p) /\ Told(p)
      /\ post \in [Posts -> PostRows]
  BY JobTypes DEF JobInv, Owed, Informed
<1>1. /\ post[p].status = "pending" /\ post[p].payment # "pending"
      /\ Queue("decided", p)
      /\ UNCHANGED <<now, paypal, visit, processed, audit, letters>>
  BY DEF ApproveJob, RejectJob, Decidable
<1>2. now + Duration \in Nat
  <2>1. now \in 0..MaxTime
    BY <1>i DEF TypeOK
  <2> QED
    BY <2>1, BoardAssumption
<1>3. /\ post' \in [Posts -> PostRows] /\ \A q \in Posts \ {p} : post'[q] = post[q]
      /\ post'[p].status \in {"published", "removed"} /\ post'[p].payment = post[p].payment
      /\ post'[p].reminded = post[p].reminded
  BY <1>2, <1>i DEF ApproveJob, RejectJob, PostRows
<1>4. "decided" \in NoteKinds
  BY DEF NoteKinds
<1>5. /\ notes' \in [NoteKinds -> [Posts -> Nat]]
      /\ notes'["decided"][p] = notes["decided"][p] + 1
      /\ \A k \in NoteKinds, q \in Posts : k # "decided" \/ q # p => notes'[k][q] = notes[k][q]
  BY <1>1, <1>4, <1>i, QueueAdds
<1>6. TypeOK'
  BY <1>1, <1>3, <1>5, <1>i DEF TypeOK, PostRows
<1>7. Money(p)'
  BY <1>1, <1>3, <1>i DEF Money, Decided
<1>8. Reported(p)'
  BY <1>1, <1>3, <1>5, <1>i DEF Reported, NoteKinds
<1>9. Told(p)'
  <2>1. notes["decided"][p] = 0 /\ letters["approved"][p] = 0 /\ letters["rejected"][p] = 0
    BY <1>1, <1>i, Counts DEF Told, Decided
  <2>2. /\ notes'["decided"][p] = 1 /\ letters' = letters
        /\ notes'["expiring"][p] = notes["expiring"][p]
    BY <2>1, <1>1, <1>5 DEF NoteKinds
  <2> QED
    BY <2>1, <2>2, <1>3, <1>i DEF Told, Decided
<1>10. Owed' /\ Informed'
  BY <1>1, <1>3, <1>5, <1>7, <1>8, <1>9, <1>i, OthersKeep
<1>11. \A q \in Posts : post[q].payment = "paid" => post'[q].payment = "paid"
  BY <1>3
<1> QED
  BY <1>1, <1>6, <1>10, <1>11, <1>i, CapturesKeep, VisitsKeep DEF JobInv

LEMMA SendKeeps ==
  ASSUME JobInv, NEW p \in Posts, NEW kind \in NoteKinds, SendNote(kind, p)
  PROVE  JobInv'
<1>i. TypeOK /\ Owed /\ AtOrder /\ Informed /\ CapturesAccountedFor /\ Money(p) /\ Reported(p) /\ Told(p)
      /\ post \in [Posts -> PostRows] /\ notes \in [NoteKinds -> [Posts -> Nat]]
      /\ letters \in [LetterKinds -> [Posts -> Nat]]
  BY JobTypes DEF JobInv, Owed, Informed
<1>n. /\ \A k \in {"submitted", "decided", "expiring"} : notes[k][p] \in Nat
      /\ \A k \in {"review", "approved", "rejected", "closing"} : letters[k][p] \in Nat
  BY <1>i, Counts
<1>1. /\ notes[kind][p] > 0
      /\ notes' = [notes EXCEPT ![kind][p] = @ - 1]
      /\ letters' = IF Letter(kind, p) \in LetterKinds
                    THEN [letters EXCEPT ![Letter(kind, p)][p] = @ + 1] ELSE letters
      /\ UNCHANGED <<now, post, paypal, visit, processed, audit>>
  BY DEF SendNote
<1>2. /\ notes' \in [NoteKinds -> [Posts -> Nat]]
      /\ notes'[kind][p] = notes[kind][p] - 1
      /\ \A k \in NoteKinds, q \in Posts : k # kind \/ q # p => notes'[k][q] = notes[k][q]
  <2>1. PICK f : f = [notes[kind] EXCEPT ![p] = notes[kind][p] - 1]
    OBVIOUS
  <2>2. /\ f \in [Posts -> Nat] /\ f[p] = notes[kind][p] - 1
        /\ \A q \in Posts : q # p => f[q] = notes[kind][q]
    <3>1. notes[kind] \in [Posts -> Nat] /\ notes[kind][p] - 1 \in Nat
      BY <1>1, <1>i
    <3> QED
      BY <2>1, <3>1
  <2>3. notes' = [notes EXCEPT ![kind] = f]
    BY <1>1, <2>1
  <2> QED
    BY <2>2, <2>3, <1>i
<1>3. ASSUME NEW m \in LetterKinds, Letter(kind, p) = m
      PROVE  /\ letters' \in [LetterKinds -> [Posts -> Nat]]
             /\ letters'[m][p] = letters[m][p] + 1
             /\ \A k \in LetterKinds, q \in Posts : k # m \/ q # p => letters'[k][q] = letters[k][q]
  <2>1. PICK f : f = [letters[m] EXCEPT ![p] = letters[m][p] + 1]
    OBVIOUS
  <2>2. /\ f \in [Posts -> Nat] /\ f[p] = letters[m][p] + 1
        /\ \A q \in Posts : q # p => f[q] = letters[m][q]
    BY <2>1, <1>i
  <2>3. letters' = [letters EXCEPT ![m] = f]
    BY <1>1, <1>3, <2>1
  <2> QED
    BY <2>2, <2>3, <1>i
<1>4. Letter(kind, p) \in LetterKinds \cup {"nothing"} /\ "nothing" \notin LetterKinds
  BY DEF Letter, LetterKinds, NoteKinds
<1>5. CASE Letter(kind, p) = "nothing"
  <2>1. letters' = letters
    BY <1>1, <1>4, <1>5
  <2>2. kind = "expiring"
    <3>1. kind = "decided" => Decided(p)
      BY <1>1, <1>i, <1>n DEF Told, Decided
    <3>2. post[p].status \in {"absent", "pending", "published", "removed", "expired"}
      BY <1>i DEF PostRows
    <3> QED
      BY <3>1, <3>2, <1>5 DEF Letter, Decided, NoteKinds
  <2>3. Reported(p)' /\ Told(p)'
    <3>1. /\ notes'["submitted"][p] = notes["submitted"][p] /\ notes'["decided"][p] = notes["decided"][p]
          /\ notes'["expiring"][p] = notes["expiring"][p] - 1
      BY <1>2, <2>2 DEF NoteKinds
    <3> QED
      BY <3>1, <2>1, <1>1, <1>i, <1>n DEF Reported, Told, Decided
  <2>4. Owed' /\ Informed'
    <3>1. Money(p)'
      BY <1>1, <1>i DEF Money, Decided
    <3> QED
      BY <1>1, <1>2, <2>1, <2>3, <3>1, <1>i, OthersKeep
  <2>5. TypeOK'
    BY <1>1, <1>2, <2>1, <1>i DEF TypeOK
  <2> QED
    BY <1>1, <2>4, <2>5, <1>i, CapturesKeep, VisitsKeep DEF JobInv
<1>6. ASSUME NEW m \in LetterKinds, Letter(kind, p) = m PROVE JobInv'
  <2>1. /\ letters' \in [LetterKinds -> [Posts -> Nat]]
        /\ letters'[m][p] = letters[m][p] + 1
        /\ \A k \in LetterKinds, q \in Posts : k # m \/ q # p => letters'[k][q] = letters[k][q]
    BY <1>3, <1>6
  <2>2. \/ kind = "submitted" /\ m = "review"
        \/ kind = "decided" /\ m = "approved" /\ post[p].status \in {"published", "expired"}
        \/ kind = "decided" /\ m = "rejected" /\ post[p].status = "removed"
        \/ kind = "expiring" /\ m = "closing"
    BY <1>6 DEF Letter, LetterKinds, NoteKinds
  <2>3. Reported(p)'
    <3>1. CASE kind = "submitted" /\ m = "review"
      <4>1. notes'["submitted"][p] = notes["submitted"][p] - 1 /\ letters'["review"][p] = letters["review"][p] + 1
        BY <1>2, <2>1, <3>1
      <4> QED
        BY <4>1, <1>1, <1>i, <1>n DEF Reported
    <3>2. CASE kind # "submitted" /\ m # "review"
      <4>1. notes'["submitted"][p] = notes["submitted"][p] /\ letters'["review"][p] = letters["review"][p]
        BY <1>2, <2>1, <3>2 DEF NoteKinds, LetterKinds
      <4> QED
        BY <4>1, <1>1, <1>i DEF Reported
    <3> QED
      BY <3>1, <3>2, <2>2
  <2>4. Told(p)'
    <3>1. \A k \in {"decided", "expiring"} : notes'[k][p] = IF k = kind THEN notes[k][p] - 1 ELSE notes[k][p]
      BY <1>2 DEF NoteKinds
    <3>2. \A k \in {"approved", "rejected", "closing"} : letters'[k][p] = IF k = m THEN letters[k][p] + 1 ELSE letters[k][p]
      BY <2>1 DEF LetterKinds
    <3>3. post'[p] = post[p]
      BY <1>1
    <3> QED
      BY <3>1, <3>2, <3>3, <2>2, <1>i, <1>n DEF Told, Decided
  <2>5. Owed' /\ Informed'
    <3>1. Money(p)'
      BY <1>1, <1>i DEF Money, Decided
    <3> QED
      BY <1>1, <1>2, <2>1, <2>3, <2>4, <3>1, <1>i, OthersKeep
  <2>6. TypeOK'
    BY <1>1, <1>2, <2>1, <1>i DEF TypeOK
  <2> QED
    BY <1>1, <2>5, <2>6, <1>i, CapturesKeep, VisitsKeep DEF JobInv
<1> QED
  BY <1>4, <1>5, <1>6

(* The worker's tick moves many posts; each of them is as the invariant    *)
(* has it.                                                                 *)
LEMMA TickKeeps ==
  ASSUME JobInv, Tick
  PROVE  JobInv'
<1>i. TypeOK /\ Owed /\ AtOrder /\ Informed /\ CapturesAccountedFor
      /\ post \in [Posts -> PostRows] /\ notes \in [NoteKinds -> [Posts -> Nat]]
  BY JobTypes DEF JobInv
<1>1. UNCHANGED <<now, paypal, visit, processed, audit, letters>>
  BY DEF Tick
<1>2. /\ post' \in [Posts -> PostRows]
      /\ \A p \in Posts : /\ post'[p].payment = post[p].payment
                          /\ post'[p].status = IF p \in Lapsed THEN "expired" ELSE post[p].status
                          /\ post'[p].reminded = (post[p].reminded \/ p \in ClosingSoon \ Lapsed)
  BY <1>i DEF Tick, PostRows
<1>3. /\ notes' \in [NoteKinds -> [Posts -> Nat]]
      /\ \A p \in Posts : /\ notes'["submitted"][p] = notes["submitted"][p]
                          /\ notes'["decided"][p] = notes["decided"][p]
                          /\ notes'["expiring"][p] = IF p \in ClosingSoon THEN notes["expiring"][p] + 1
                                                                          ELSE notes["expiring"][p]
  <2>1. PICK f : f = [p \in Posts |-> IF p \in ClosingSoon THEN notes["expiring"][p] + 1 ELSE notes["expiring"][p]]
    OBVIOUS
  <2>2. "expiring" \in NoteKinds /\ "decided" \in NoteKinds /\ "submitted" \in NoteKinds
    BY DEF NoteKinds
  <2>3. notes' = [notes EXCEPT !["expiring"] = f]
    BY <2>1 DEF Tick
  <2>4. f \in [Posts -> Nat]
    BY <2>1, <2>2, <1>i
  <2> QED
    BY <2>1, <2>2, <2>3, <2>4, <1>i
<1>4. \A p \in Posts : p \in Lapsed => post[p].status = "published"
  BY DEF Lapsed
<1>5. \A p \in Posts : p \in ClosingSoon => p \notin Lapsed /\ post[p].status = "published" /\ ~post[p].reminded
  <2> SUFFICES ASSUME NEW p \in Posts, p \in ClosingSoon
               PROVE  p \notin Lapsed /\ post[p].status = "published" /\ ~post[p].reminded
    OBVIOUS
  <2>1. now < post[p].expiresAt /\ post[p].status = "published" /\ ~post[p].reminded
    BY DEF ClosingSoon
  <2>2. post[p].expiresAt \in Nat /\ now \in Nat
    <3>1. now \in 0..MaxTime
      BY <1>i DEF TypeOK
    <3> QED
      BY <3>1, <1>i, BoardAssumption DEF PostRows
  <2> QED
    BY <2>1, <2>2 DEF Lapsed
<1>6. TypeOK'
  BY <1>1, <1>2, <1>3, <1>i DEF TypeOK, PostRows
<1>7. Owed'
  <2> SUFFICES ASSUME NEW p \in Posts PROVE Money(p)'
    BY DEF Owed
  <2>1. Money(p)
    BY <1>i DEF Owed
  <2> QED
    BY <2>1, <1>1, <1>2, <1>4, <1>5 DEF Money, Decided
<1>8. Informed'
  <2> SUFFICES ASSUME NEW p \in Posts PROVE Reported(p)' /\ Told(p)'
    BY DEF Informed
  <2>1. Reported(p) /\ Told(p)
    BY <1>i DEF Informed
  <2>2. /\ \A k \in {"submitted", "decided", "expiring"} : notes[k][p] \in Nat
        /\ \A k \in {"review", "approved", "rejected", "closing"} : letters[k][p] \in Nat
    BY <1>i, Counts
  <2>3. Reported(p)'
    BY <2>1, <1>1, <1>2, <1>3, <1>4 DEF Reported
  <2>4. CASE p \in ClosingSoon
    <3>1. /\ post'[p].status = "published" /\ post'[p].reminded /\ ~post[p].reminded
          /\ notes'["expiring"][p] = notes["expiring"][p] + 1
      BY <2>4, <1>2, <1>3, <1>5
    <3> QED
      BY <3>1, <2>1, <2>2, <2>3, <2>4, <1>1, <1>3, <1>5 DEF Told, Decided
  <2>5. CASE p \notin ClosingSoon
    <3>1. /\ post'[p].status = (IF p \in Lapsed THEN "expired" ELSE post[p].status)
          /\ post'[p].reminded = post[p].reminded /\ notes'["expiring"][p] = notes["expiring"][p]
          /\ notes'["decided"][p] = notes["decided"][p] /\ letters' = letters
      BY <2>5, <1>1, <1>2, <1>3, <1>i DEF PostRows
    <3> QED
      BY <3>1, <2>1, <2>2, <2>3, <1>4 DEF Told, Decided
  <2> QED
    BY <2>4, <2>5
<1> QED
  BY <1>1, <1>2, <1>6, <1>7, <1>8, <1>i, CapturesKeep, VisitsKeep DEF JobInv

(* PayPal announces: the event is recorded with what it did.               *)
LEMMA CaptureKeeps ==
  ASSUME JobInv, NEW p \in Posts, NEW k \in Kinds, ApplyCapture(p, k)
  PROVE  JobInv'
<1>i. TypeOK /\ Owed /\ AtOrder /\ Informed /\ CapturesAccountedFor /\ post \in [Posts -> PostRows]
  BY JobTypes DEF JobInv
<1>1. /\ Emitted(p, k) /\ processed' = processed \cup {<<p, k>>}
      /\ IF k = "own" THEN MarkJobPaid(p) ELSE RecordMismatch(p)
      /\ UNCHANGED <<now, paypal, visit, letters>>
  BY DEF ApplyCapture
<1>2. <<p, k>> \in Events
  BY DEF Events
<1>3. processed' \in SUBSET Events
  BY <1>1, <1>2, <1>i DEF TypeOK
<1>4. AtOrder'
  BY <1>1, <1>i, VisitsKeep
<1>5. CASE k = "own"
  <2>1. paypal[p] = "captured" /\ MarkJobPaid(p)
    BY <1>1, <1>5 DEF Emitted
  <2>2. /\ post' \in [Posts -> PostRows] /\ notes' \in [NoteKinds -> [Posts -> Nat]]
        /\ audit' \in SUBSET ({"mismatch", "paid late", "paid"} \X Posts) /\ audit \subseteq audit'
        /\ Owed' /\ Informed' /\ post'[p].payment = "paid"
        /\ \A q \in Posts : post[q].payment = "paid" => post'[q].payment = "paid"
    BY <2>1, <1>1, MarkKeeps
  <2>3. CapturesAccountedFor'
    BY <2>2, <1>1, <1>5, <1>i DEF CapturesAccountedFor
  <2>4. TypeOK'
    BY <2>2, <1>1, <1>3, <1>i DEF TypeOK, PostRows
  <2> QED
    BY <2>2, <2>3, <2>4, <1>4 DEF JobInv
<1>6. CASE k # "own"
  <2>1. /\ UNCHANGED <<post, notes>> /\ <<"mismatch", p>> \in audit' /\ audit \subseteq audit'
        /\ audit' \in SUBSET ({"mismatch", "paid late", "paid"} \X Posts)
        /\ Owed' /\ Informed'
    BY <1>1, <1>6, MismatchKeeps
  <2>2. CapturesAccountedFor'
    BY <2>1, <1>1, <1>6, <1>i DEF CapturesAccountedFor
  <2>3. TypeOK'
    BY <2>1, <1>1, <1>3, <1>i DEF TypeOK
  <2> QED
    BY <2>1, <2>2, <2>3, <1>4 DEF JobInv
<1> QED
  BY <1>5, <1>6

(* The return page.                                                        *)
LEMMA SettleKeeps ==
  ASSUME JobInv, NEW v \in Visits, Settle(v)
  PROVE  JobInv'
<1>i. TypeOK /\ Owed /\ AtOrder /\ Informed /\ CapturesAccountedFor /\ visit \in [Visits -> Visiting]
  BY JobTypes DEF JobInv
<1>1. PICK p \in Posts : p = visit[v].post /\ paypal[p] = "captured"
  BY <1>i DEF Settle, AtOrder
<1>2. /\ IF visit[v].amount THEN MarkJobPaid(p) ELSE RecordMismatch(p)
      /\ visit' = [visit EXCEPT ![v] = Away]
      /\ UNCHANGED <<now, paypal, processed, letters>>
  BY <1>1 DEF Settle
<1>3. visit' \in [Visits -> Visiting] /\ AtOrder'
  <2>1. Away \in Visiting /\ Away.pc = "idle"
    BY DEF Away, Visiting
  <2> QED
    BY <2>1, <1>2, <1>i DEF AtOrder
<1>4. /\ post' \in [Posts -> PostRows] /\ notes' \in [NoteKinds -> [Posts -> Nat]]
      /\ audit' \in SUBSET ({"mismatch", "paid late", "paid"} \X Posts) /\ audit \subseteq audit'
      /\ Owed' /\ Informed'
      /\ \A q \in Posts : post[q].payment = "paid" => post'[q].payment = "paid"
  BY <1>1, <1>2, <1>i, MarkKeeps, MismatchKeeps, JobTypes
<1>5. TypeOK'
  BY <1>2, <1>3, <1>4, <1>i DEF TypeOK, PostRows, Visiting
<1> QED
  BY <1>2, <1>3, <1>4, <1>5, <1>i, CapturesKeep DEF JobInv

LEMMA VisitKeeps ==
  ASSUME JobInv, NEW v \in Visits, (\E p \in Posts : OpenReturnPage(v, p)) \/ Capture(v) \/ Leave(v)
  PROVE  JobInv'
<1>i. TypeOK /\ Owed /\ AtOrder /\ Informed /\ CapturesAccountedFor /\ visit \in [Visits -> Visiting]
  BY JobTypes DEF JobInv
<1>1. UNCHANGED <<now, post, processed, audit, notes, letters>>
  BY DEF OpenReturnPage, Capture, Leave, mail
<1>2. /\ paypal' \in [Posts -> {"none", "created", "approved", "captured"}]
      /\ \A q \in Posts : /\ paypal[q] # "none" => paypal'[q] # "none"
                          /\ paypal[q] = "none" => paypal'[q] = "none"
                          /\ paypal[q] = "captured" => paypal'[q] = "captured"
  BY <1>i DEF OpenReturnPage, Capture, Leave, TypeOK, AtOrder
<1>3. visit' \in [Visits -> Visiting] /\ AtOrder'
  <2>1. CASE \E p \in Posts : OpenReturnPage(v, p)
    <3>1. PICK p \in Posts : OpenReturnPage(v, p)
      BY <2>1
    <3>2. PICK w : w = [pc |-> "paypal", post |-> p, amount |-> FALSE]
      OBVIOUS
    <3>3. w \in Visiting /\ w.pc = "paypal" /\ w.post = p
      BY <3>2 DEF Visiting
    <3>4. visit' = [visit EXCEPT ![v] = w] /\ paypal' = paypal /\ paypal[p] # "none"
      BY <3>1, <3>2 DEF OpenReturnPage
    <3> QED
      BY <3>3, <3>4, <1>i DEF AtOrder
  <2>2. CASE Capture(v)
    <3>1. PICK p \in Posts : p = visit[v].post
      BY <2>2, <1>i DEF Capture, AtOrder
    <3>2. /\ paypal' = [paypal EXCEPT ![p] = "captured"]
          /\ \E read \in BOOLEAN : visit' = [visit EXCEPT ![v].pc = "mark", ![v].amount = read]
      BY <2>2, <3>1 DEF Capture
    <3>3. paypal'[p] = "captured"
      BY <3>2, <1>i DEF TypeOK
    <3>4. /\ visit' \in [Visits -> Visiting] /\ visit'[v].pc = "mark" /\ visit'[v].post = p
          /\ \A u \in Visits \ {v} : visit'[u] = visit[u]
      BY <3>1, <3>2, <1>i DEF Visiting
    <3> QED
      BY <3>3, <3>4, <1>2, <1>i DEF AtOrder
  <2>3. CASE Leave(v)
    <3>1. Away \in Visiting /\ Away.pc = "idle"
      BY DEF Away, Visiting
    <3>2. /\ visit' \in [Visits -> Visiting] /\ visit'[v].pc = "idle"
          /\ \A u \in Visits \ {v} : visit'[u] = visit[u]
      BY <3>1, <2>3, <1>i DEF Leave
    <3> QED
      BY <3>2, <1>2, <1>i DEF AtOrder
  <2> QED
    BY <2>1, <2>2, <2>3
<1>4. TypeOK'
  BY <1>1, <1>2, <1>3, <1>i DEF TypeOK, Visiting
<1>5. Owed'
  BY <1>1, <1>2, <1>i DEF Owed, Money, Decided
<1>6. Informed'
  BY <1>1, <1>i DEF Informed, Reported, Told, Decided
<1> QED
  BY <1>1, <1>3, <1>4, <1>5, <1>6, <1>i, CapturesKeep DEF JobInv

LEMMA ApproveKeeps ==
  ASSUME JobInv, NEW p \in Posts, Approve(p)
  PROVE  JobInv'
<1>i. TypeOK /\ Owed /\ AtOrder /\ Informed /\ CapturesAccountedFor
  BY DEF JobInv
<1>1. /\ paypal[p] = "created" /\ paypal' = [paypal EXCEPT ![p] = "approved"]
      /\ UNCHANGED <<now, post, visit, processed, audit, notes, letters>>
  BY DEF Approve, mail
<1>2. /\ paypal' \in [Posts -> {"none", "created", "approved", "captured"}]
      /\ \A q \in Posts : /\ paypal[q] # "none" => paypal'[q] # "none"
                          /\ paypal[q] = "none" => paypal'[q] = "none"
                          /\ paypal[q] = "captured" => paypal'[q] = "captured"
  BY <1>1, <1>i DEF TypeOK
<1>3. TypeOK'
  BY <1>1, <1>2, <1>i DEF TypeOK
<1>4. Owed' /\ Informed'
  BY <1>1, <1>2, <1>i DEF Owed, Money, Decided, Informed, Reported, Told
<1> QED
  BY <1>1, <1>2, <1>3, <1>4, <1>i, CapturesKeep, VisitsKeep DEF JobInv

(* Posts, return pages, captures, decisions and the worker's tick keep it. *)
LEMMA JobNext == JobInv /\ [Next]_vars => JobInv'
<1> SUFFICES ASSUME JobInv, [Next]_vars PROVE JobInv'
  OBVIOUS
<1>1. CASE AdvanceClock \/ UNCHANGED vars
  <2>1. UNCHANGED <<post, paypal, visit, processed, audit, notes, letters>>
    BY <1>1 DEF AdvanceClock, vars, mail
  <2>2. now' \in 0..MaxTime
    <3>1. now \in 0..MaxTime
      BY DEF JobInv, TypeOK
    <3> QED
      BY <1>1, <3>1, BoardAssumption DEF AdvanceClock, vars
  <2>3. TypeOK'
    BY <2>1, <2>2 DEF JobInv, TypeOK
  <2> QED
    BY <2>1, <2>3 DEF JobInv, Owed, Money, Decided, AtOrder, Informed, Reported, Told,
                      CapturesAccountedFor
<1>2. CASE Tick
  BY <1>2, TickKeeps
<1>3. ASSUME NEW p \in Posts, \/ CreateFree(p) \/ CreatePaid(p) \/ Approve(p) \/ ApproveJob(p) \/ RejectJob(p)
                              \/ \E k \in Kinds : ApplyCapture(p, k)
                              \/ \E kind \in NoteKinds : SendNote(kind, p)
      PROVE  JobInv'
  BY <1>3, CreateKeeps, ApproveKeeps, DecisionKeeps, CaptureKeeps, SendKeeps
<1>4. ASSUME NEW v \in Visits, (\E p \in Posts : OpenReturnPage(v, p)) \/ Capture(v) \/ Settle(v) \/ Leave(v)
      PROVE  JobInv'
  BY <1>4, VisitKeeps, SettleKeeps
<1> QED
  BY <1>1, <1>2, <1>3, <1>4 DEF Next

(* Every reachable state of the board satisfies the invariant.             *)
THEOREM JobsInvariant == DeskSpec => []JobInv
<1>1. DeskInit => JobInv
  BY JobInit DEF DeskInit
<1>2. JobInv /\ [DeskNext]_all => JobInv'
  BY DeskStep, JobNext
<1> QED
  BY <1>1, <1>2, PTL DEF DeskSpec

(* The types.                                                              *)
THEOREM JobsTyped == DeskSpec => []TypeOK
<1>1. JobInv => TypeOK
  BY DEF JobInv
<1> QED
  BY <1>1, JobsInvariant, PTL

(* The admin hears of a post once, when it is settled, however many return *)
(* pages and events settle it.                                             *)
THEOREM AdminHearsOnce == DeskSpec => []AdminToldOnce
<1>1. JobInv => AdminToldOnce
  BY DEF JobInv, Informed, Reported, AdminToldOnce
<1> QED
  BY <1>1, JobsInvariant, PTL

(* Every capture taken has paid for its post or is on the audit record.    *)
THEOREM CapturesKept == DeskSpec => []CapturesAccountedFor
<1>1. JobInv => CapturesAccountedFor
  BY DEF JobInv
<1> QED
  BY <1>1, JobsInvariant, PTL

(* The poster is told what was decided, once, and never both.              *)
THEOREM PosterTold == DeskSpec => []PosterToldTruly
<1>1. JobInv => PosterToldTruly
  <2> SUFFICES ASSUME JobInv, NEW p \in Posts
               PROVE  /\ letters["approved"][p] > 0 => post[p].status \in {"published", "expired"}
                      /\ letters["rejected"][p] > 0 => post[p].status = "removed"
                      /\ notes["decided"][p] + letters["approved"][p] + letters["rejected"][p]
                           = IF post[p].status \in {"absent", "pending"} THEN 0 ELSE 1
                      /\ notes["expiring"][p] + letters["closing"][p] <= 1
    BY DEF PosterToldTruly
  <2>1. Told(p) /\ \A k \in {"expiring"} : notes[k][p] \in Nat /\ letters["closing"][p] \in Nat
    BY Counts DEF JobInv, Informed
  <2> QED
    BY <2>1 DEF Told, Decided
<1> QED
  BY <1>1, JobsInvariant, PTL

(* A post is decided only once it is settled, so that no capture finds its *)
(* post decided: the branch for late payments is never taken.              *)
THEOREM SettledFirst == DeskSpec => []DecidedWhenSettled
<1>1. JobInv => DecidedWhenSettled
  BY DEF JobInv, Owed, Money, Decided, DecidedWhenSettled
<1> QED
  BY <1>1, JobsInvariant, PTL

(* A decision stands, its closing date does not move, and what is settled  *)
(* stays settled, whatever return pages, events and ticks come after it.   *)
THEOREM NothingReopens == DeskSpec => DecisionsStand
<1> DEFINE Stands(p) ==
      /\ post[p].status \in {"published", "removed", "expired"} =>
           /\ post'[p].status \in {post[p].status} \cup
                (IF post[p].status = "published" THEN {"expired"} ELSE {})
           /\ post'[p].expiresAt = post[p].expiresAt
      /\ post[p].payment # "pending" /\ post[p].status # "absent" =>
           post'[p].payment = post[p].payment
<1>1. ASSUME JobInv, [Next]_vars, NEW p \in Posts PROVE Stands(p)
  <2>1. post \in [Posts -> PostRows]
    BY <1>1, JobTypes DEF JobInv
  <2>2. ASSUME post'[p] = post[p] PROVE Stands(p)
    BY <2>2
  <2>3. ASSUME NEW q \in Posts, MarkJobPaid(q) \/ RecordMismatch(q) PROVE Stands(p)
    BY <2>1, <2>3 DEF MarkJobPaid, RecordMismatch, PostRows
  <2>4. ASSUME NEW q \in Posts, CreateFree(q) \/ CreatePaid(q) \/ ApproveJob(q) \/ RejectJob(q) PROVE Stands(p)
    BY <2>1, <2>4 DEF CreateFree, CreatePaid, ApproveJob, RejectJob, Decidable, PostRows
  <2>5. CASE Tick
    BY <2>1, <2>5 DEF Tick, Lapsed, PostRows
  <2>6. ASSUME NEW v \in Visits, Settle(v) PROVE Stands(p)
    BY <2>3, <2>6, <1>1 DEF Settle, JobInv, AtOrder
  <2>7. ASSUME NEW q \in Posts, NEW k \in Kinds, ApplyCapture(q, k) PROVE Stands(p)
    BY <2>3, <2>7 DEF ApplyCapture
  <2>8. ASSUME \/ AdvanceClock \/ UNCHANGED vars
               \/ \E q \in Posts : Approve(q) \/ \E kind \in NoteKinds : SendNote(kind, q)
               \/ \E v \in Visits : (\E q \in Posts : OpenReturnPage(v, q)) \/ Capture(v) \/ Leave(v)
        PROVE  Stands(p)
    <3>1. post' = post
      BY <2>8 DEF AdvanceClock, vars, Approve, SendNote, OpenReturnPage, Capture, Leave
    <3> QED
      BY <3>1, <2>2
  <2> QED
    BY <1>1, <2>4, <2>5, <2>6, <2>7, <2>8 DEF Next
<1>2. JobInv /\ [DeskNext]_all => [\A p \in Posts : Stands(p)]_vars
  BY <1>1, DeskStep
<1> QED
  BY <1>2, JobsInvariant, PTL DEF DeskSpec, DecisionsStand

-----------------------------------------------------------------------------
(* Claims: what a request read of a claim, and who has the listing.        *)

(* Who holds the listing: between its guarded UPDATE and its commit.       *)
HasListing(s) == work[s].op \in {"verify", "approve"} /\ work[s].pc = "write"

(* What a session read of a claim stays so: a row's claimant never changes.*)
ReadTrue(s) ==
  LET w == work[s]
  IN /\ w.op \in Claims!Starts => w.by \in Users /\ w.pc = "write"
     /\ w.op \in Claims!Decisions =>
          w.claim \in ClaimIds /\ claim[w.claim].status # "absent" /\ w.by = claim[w.claim].by
     /\ w.pc = "take" => w.op \in Claims!Decisions
     /\ w.pc = "idle" <=> w.op = "none"

RowsNamed == \A c \in ClaimIds : claim[c].status # "absent" => claim[c].by \in Users

(* One request at a time has the listing, and it was nobody's.             *)
HolderAlone ==
  \A s \in Sessions : HasListing(s) =>
    owner = Claims!Nobody /\ \A t \in Sessions : HasListing(t) => t = s

ClaimInv == Claims!TypeOK /\ RowsNamed /\ (\A s \in Sessions : ReadTrue(s)) /\ HolderAlone /\ Claims!ApprovedOwns

-----------------------------------------------------------------------------
(* Types.                                                                  *)
ClaimRows == [status : {"absent", "pending", "approved", "rejected"},
              by : Users \cup {Claims!Nobody}, link : BOOLEAN, expires : Nat \cup {Claims!Never},
              proof : Keys \cup {Claims!NoKey}, created : Nat \cup {Claims!Never},
              decided : Nat \cup {Claims!Never}, purged : BOOLEAN]
Works == [op : {"none"} \cup Claims!Starts \cup Claims!Decisions, pc : {"idle", "take", "write"},
          claim : ClaimIds \cup {Claims!NoClaim}, by : Users \cup {Claims!Nobody}]

LEMMA ClaimTypes ==
  Claims!TypeOK <=>
  /\ today \in 0..MaxDays
  /\ owner \in Users \cup {Claims!Nobody} /\ promoted \subseteq Users
  /\ claim \in [ClaimIds -> ClaimRows]
  /\ work \in [Sessions -> Works]
  /\ told \in [ClaimIds -> 0..Claims!Many]
  /\ signed \in [Keys -> ClaimIds \cup {Claims!NoClaim}] /\ object \in [Keys -> {"none", "held", "deleted"}]
  /\ purge \in [read : SUBSET (ClaimIds \X Keys), gone : SUBSET ClaimIds]
  /\ starts \in 0..MaxStarts
BY DEF Claims!TypeOK, ClaimRows, Works

LEMMA ClaimInit == Claims!Init => ClaimInv
<1> SUFFICES ASSUME Claims!Init PROVE ClaimInv
  OBVIOUS
<1>1. /\ Claims!NoRow \in ClaimRows /\ Claims!Idle \in Works
      /\ Claims!NoRow.status = "absent" /\ Claims!Idle.op = "none" /\ Claims!Idle.pc = "idle"
  BY DEF Claims!NoRow, Claims!Idle, ClaimRows, Works
<1>2. Claims!TypeOK
  <2>1. /\ claim \in [ClaimIds -> ClaimRows] /\ work \in [Sessions -> Works]
        /\ today \in 0..MaxDays /\ starts \in 0..MaxStarts /\ told \in [ClaimIds -> 0..Claims!Many]
    BY <1>1, DeskAssumption DEF Claims!Init, Claims!Many
  <2>2. /\ signed \in [Keys -> ClaimIds \cup {Claims!NoClaim}] /\ object \in [Keys -> {"none", "held", "deleted"}]
        /\ purge \in [read : SUBSET (ClaimIds \X Keys), gone : SUBSET ClaimIds]
        /\ owner \in Users \cup {Claims!Nobody} /\ promoted \subseteq Users
    BY DEF Claims!Init
  <2> QED
    BY <2>1, <2>2, ClaimTypes
<1>3. \A s \in Sessions : ReadTrue(s) /\ ~HasListing(s)
  BY <1>1 DEF Claims!Init, ReadTrue, HasListing, Claims!Starts, Claims!Decisions
<1>4. RowsNamed /\ Claims!ApprovedOwns
  BY <1>1 DEF Claims!Init, RowsNamed, Claims!ApprovedOwns
<1> QED
  BY <1>2, <1>3, <1>4 DEF ClaimInv, HolderAlone

(* A request that ends, or begins, and does not have the listing.          *)
LEMMA ClaimGoes ==
  ASSUME ClaimInv, NEW s \in Sessions, NEW w \in Works, Claims!Goes(s, w),
         UNCHANGED <<owner, claim>>,
         w.op \in {"verify", "approve"} /\ w.pc = "write" =>
           owner = Claims!Nobody /\ \A t \in Sessions \ {s} : ~HasListing(t),
         w.op \in Claims!Starts => w.by \in Users /\ w.pc = "write",
         w.op \in Claims!Decisions =>
           w.claim \in ClaimIds /\ claim[w.claim].status # "absent" /\ w.by = claim[w.claim].by,
         w.pc = "take" => w.op \in Claims!Decisions,
         w.pc = "idle" <=> w.op = "none",
         Claims!TypeOK'
  PROVE  ClaimInv'
<1>1. /\ work'[s] = w /\ \A t \in Sessions \ {s} : work'[t] = work[t]
  BY DEF Claims!Goes, ClaimInv, Claims!TypeOK
<1>2. \A t \in Sessions : ReadTrue(t)'
  BY <1>1 DEF ClaimInv, ReadTrue
<1>3. \A t \in Sessions \ {s} : HasListing(t)' <=> HasListing(t)
  BY <1>1 DEF HasListing
<1>4. HasListing(s)' => w.op \in {"verify", "approve"} /\ w.pc = "write"
  BY <1>1 DEF HasListing
<1>5. HolderAlone'
  BY <1>3, <1>4 DEF ClaimInv, HolderAlone
<1> QED
  BY <1>2, <1>5 DEF ClaimInv, RowsNamed, Claims!ApprovedOwns

LEMMA IdleWork == Claims!Idle \in Works /\ Claims!Idle.op = "none" /\ Claims!Idle.pc = "idle"
BY DEF Claims!Idle, Works

(* Types, for a step that moves work and one variable more.                *)
LEMMA WorkTypes ==
  ASSUME Claims!TypeOK, NEW s \in Sessions, NEW w \in Works, Claims!Goes(s, w)
  PROVE  work' \in [Sessions -> Works]
BY ClaimTypes DEF Claims!Goes

LEMMA LetterTypes ==
  ASSUME Claims!TypeOK, NEW c
  PROVE  Claims!Lettered(c) \in [ClaimIds -> 0..Claims!Many]
<1>1. told \in [ClaimIds -> 0..Claims!Many]
  BY DEF Claims!TypeOK
<1>2. \A d \in ClaimIds : (IF told[d] < Claims!Many THEN told[d] + 1 ELSE Claims!Many) \in 0..Claims!Many
  BY <1>1 DEF Claims!Many
<1> QED
  BY <1>1, <1>2 DEF Claims!Lettered

LEMMA ClaimReads ==
  ASSUME ClaimInv, NEW s \in Sessions,
         \/ \E u \in Users, kind \in Claims!Starts : Claims!StartClaim(s, u, kind)
         \/ \E c \in ClaimIds : \/ Claims!OpenLink(s, c)
                                \/ \E decision \in {"approve", "reject"} : Claims!Decide(s, c, decision)
         \/ Claims!TakeListing(s) \/ Claims!FindTaken(s)
  PROVE  ClaimInv'
<1> USE DEF Claims!Starts, Claims!Decisions
<1>1. ASSUME NEW u \in Users, NEW kind \in Claims!Starts, Claims!StartClaim(s, u, kind) PROVE ClaimInv'
  <2>1. PICK c \in ClaimIds \cup {Claims!NoClaim} : Claims!Goes(s, [op |-> kind, pc |-> "write", claim |-> c, by |-> u])
    BY <1>1 DEF Claims!StartClaim
  <2>2. [op |-> kind, pc |-> "write", claim |-> c, by |-> u] \in Works
    BY DEF Works
  <2>3. UNCHANGED <<today, owner, promoted, claim, told, signed, object, purge>> /\ starts' \in 0..MaxStarts
    BY <1>1, DeskAssumption DEF Claims!StartClaim, Claims!papers, ClaimInv, Claims!TypeOK
  <2>4. Claims!TypeOK'
    BY <2>1, <2>2, <2>3, WorkTypes, ClaimTypes DEF ClaimInv, Claims!TypeOK, Works
  <2> QED
    BY <2>1, <2>2, <2>3, <2>4, ClaimGoes
<1>2. ASSUME NEW c \in ClaimIds, NEW op \in Claims!Decisions, NEW pc \in {"take", "write"}, op = "reject" \/ pc = "take",
             Claims!Open(c), Claims!Goes(s, [op |-> op, pc |-> pc, claim |-> c, by |-> claim[c].by]),
             UNCHANGED <<today, owner, promoted, claim, told, Claims!papers, starts>>
      PROVE  ClaimInv'
  <2>1. claim[c].by \in Users \cup {Claims!Nobody} /\ claim[c].status # "absent"
    BY <1>2 DEF Claims!Open, ClaimInv, Claims!TypeOK
  <2>2. [op |-> op, pc |-> pc, claim |-> c, by |-> claim[c].by] \in Works
    BY <2>1 DEF Works
  <2>3. Claims!TypeOK'
    BY <1>2, <2>2, WorkTypes, ClaimTypes DEF ClaimInv, Claims!TypeOK, Works, Claims!papers
  <2> QED
    BY <1>2, <2>1, <2>2, <2>3, ClaimGoes
<1>3. CASE Claims!TakeListing(s)
  <2> DEFINE w == [work[s] EXCEPT !.pc = "write"]
  <2>0. work[s] \in Works
    BY ClaimTypes DEF ClaimInv
  <2>1. work[s] \in Works /\ work[s].pc = "take" /\ w \in Works
    BY <1>3, <2>0 DEF Claims!TakeListing, Works
  <2>2. /\ work[s].op \in Claims!Decisions /\ w.op = work[s].op /\ w.pc = "write"
        /\ w.claim = work[s].claim /\ w.by = work[s].by
    BY <2>1 DEF ClaimInv, ReadTrue, Works
  <2>3. owner = Claims!Nobody /\ \A t \in Sessions \ {s} : ~HasListing(t)
    BY <1>3 DEF Claims!TakeListing, Claims!Held, HasListing
  <2>4. Claims!TypeOK'
    BY <1>3, <2>1, WorkTypes, ClaimTypes DEF Claims!TakeListing, ClaimInv, Claims!TypeOK, Works,
                                             Claims!papers
  <2>5. Claims!Goes(s, w) /\ UNCHANGED <<owner, claim>>
    BY <1>3 DEF Claims!TakeListing
  <2> QED
    BY <2>1, <2>2, <2>3, <2>4, <2>5, ClaimGoes DEF ClaimInv, ReadTrue
<1>4. CASE Claims!FindTaken(s)
  <2>1. told' \in [ClaimIds -> 0..Claims!Many]
    BY <1>4, LetterTypes DEF Claims!FindTaken, ClaimInv, Claims!TypeOK
  <2>2. Claims!TypeOK'
    BY <1>4, <2>1, IdleWork, WorkTypes, ClaimTypes DEF Claims!FindTaken, ClaimInv, Claims!TypeOK, Works,
                                                       Claims!papers
  <2> QED
    BY <1>4, <2>2, IdleWork, ClaimGoes DEF Claims!FindTaken
<1> QED
  BY <1>1, <1>2, <1>3, <1>4 DEF Claims!OpenLink, Claims!Decide

(* A row written to leaves its claimant who they were.                     *)
LEMMA ClaimWritten ==
  ASSUME ClaimInv, NEW s \in Sessions, NEW c \in ClaimIds, Claims!WriteClaim(s, c), UNCHANGED owner, Claims!TypeOK'
  PROVE  ClaimInv'
<1> USE DEF Claims!Starts, Claims!Decisions
<1>1. /\ work'[s] = Claims!Idle /\ \A t \in Sessions \ {s} : work'[t] = work[t]
  BY DEF Claims!WriteClaim, Claims!Goes, ClaimInv, Claims!TypeOK
<1>2. work[s].by \in Users
  BY DEF Claims!WriteClaim, ClaimInv, ReadTrue
<1>3. /\ \A d \in ClaimIds \ {c} : claim'[d] = claim[d]
      /\ claim'[c].status = "pending" /\ claim'[c].by \in Users
      /\ claim[c].status # "absent" => claim'[c].by = claim[c].by
  <2>1. claim'[c] = Claims!Row(c, work[s].by, work[s].op) /\ \A d \in ClaimIds \ {c} : claim'[d] = claim[d]
    BY DEF Claims!WriteClaim, ClaimInv, Claims!TypeOK
  <2>2. claim[c] \in ClaimRows /\ Claims!NoRow \in ClaimRows
    BY ClaimTypes DEF ClaimInv, Claims!NoRow, ClaimRows
  <2>3. PICK old : old = IF claim[c].status = "absent"
                           THEN [Claims!NoRow EXCEPT !.by = work[s].by, !.created = today] ELSE claim[c]
    OBVIOUS
  <2>4. old \in ClaimRows /\ old.by \in Users /\ (claim[c].status # "absent" => old.by = claim[c].by)
    <3>1. CASE claim[c].status = "absent"
      <4>1. today \in Nat
        BY DeskAssumption DEF ClaimInv, Claims!TypeOK
      <4>2. [Claims!NoRow EXCEPT !.by = work[s].by, !.created = today] \in ClaimRows
        BY <1>2, <2>2, <4>1 DEF ClaimRows
      <4>3. [Claims!NoRow EXCEPT !.by = work[s].by, !.created = today].by = work[s].by
        BY DEF Claims!NoRow
      <4> QED
        BY <1>2, <2>3, <3>1, <4>2, <4>3
    <3>2. CASE claim[c].status # "absent"
      BY <2>2, <2>3, <3>2 DEF ClaimInv, RowsNamed
    <3> QED
      BY <3>1, <3>2
  <2>5. claim'[c] = IF work[s].op = "domain" THEN [old EXCEPT !.status = "pending", !.link = TRUE, !.expires = today + LinkLife]
                                            ELSE [old EXCEPT !.status = "pending"]
    BY <2>1, <2>3 DEF Claims!Row
  <2>6. claim'[c].status = "pending" /\ claim'[c].by = old.by
    BY <2>4, <2>5 DEF ClaimRows
  <2> QED
    BY <2>1, <2>4, <2>6
<1>4. \A t \in Sessions : ReadTrue(t)'
  BY <1>1, <1>3, IdleWork DEF ClaimInv, ReadTrue
<1>5. \A t \in Sessions : HasListing(t)' => HasListing(t)
  BY <1>1, IdleWork DEF HasListing
<1>6. HolderAlone'
  BY <1>5 DEF ClaimInv, HolderAlone
<1> QED
  BY <1>3, <1>4, <1>6 DEF ClaimInv, RowsNamed, Claims!ApprovedOwns

LEMMA WriteTypes ==
  ASSUME Claims!TypeOK, NEW s \in Sessions, NEW c \in ClaimIds, Claims!WriteClaim(s, c)
  PROVE  claim' \in [ClaimIds -> ClaimRows] /\ work' \in [Sessions -> Works]
<1>1. claim[c] \in ClaimRows /\ Claims!NoRow \in ClaimRows /\ work[s] \in Works
  BY ClaimTypes DEF Claims!NoRow, ClaimRows
<1>2. today \in Nat /\ today + LinkLife \in Nat
  BY DeskAssumption DEF Claims!TypeOK
<1>3. [Claims!NoRow EXCEPT !.by = work[s].by, !.created = today] \in ClaimRows
  BY <1>1, <1>2 DEF ClaimRows, Works
<1>4. PICK old \in ClaimRows : old = IF claim[c].status = "absent"
                                       THEN [Claims!NoRow EXCEPT !.by = work[s].by, !.created = today]
                                       ELSE claim[c]
  BY <1>1, <1>3
<1>5. /\ [old EXCEPT !.status = "pending"] \in ClaimRows
      /\ [old EXCEPT !.status = "pending", !.link = TRUE, !.expires = today + LinkLife] \in ClaimRows
  BY <1>2 DEF ClaimRows
<1>6. Claims!Row(c, work[s].by, work[s].op) \in ClaimRows
  BY <1>4, <1>5 DEF Claims!Row
<1> QED
  BY <1>6, IdleWork, WorkTypes, ClaimTypes DEF Claims!WriteClaim

LEMMA ClaimWrites ==
  ASSUME ClaimInv, NEW s \in Sessions, NEW c \in ClaimIds, Claims!WriteDomainClaim(s, c) \/ Claims!WriteDocumentClaim(s, c)
  PROVE  ClaimInv'
<1>1. Claims!WriteClaim(s, c) /\ UNCHANGED <<today, owner, promoted, told, object, purge, starts>>
      /\ signed' \in [Keys -> ClaimIds \cup {Claims!NoClaim}]
  BY ClaimTypes DEF ClaimInv, Claims!WriteDomainClaim, Claims!WriteDocumentClaim, Claims!papers
<1>2. claim' \in [ClaimIds -> ClaimRows] /\ work' \in [Sessions -> Works]
  BY <1>1, WriteTypes DEF ClaimInv
<1>3. Claims!TypeOK'
  BY <1>1, <1>2 DEF ClaimInv, Claims!TypeOK, ClaimRows, Works
<1> QED
  BY <1>1, <1>3, ClaimWritten

(* A claim decided.                                                        *)
LEMMA DecidedIs ==
  ASSUME Claims!TypeOK, NEW c \in ClaimIds, NEW status \in {"approved", "rejected"}, Claims!Decided(c, status)
  PROVE  /\ claim' \in [ClaimIds -> ClaimRows]
         /\ claim'[c].status = status /\ claim'[c].by = claim[c].by
         /\ \A d \in ClaimIds \ {c} : claim'[d] = claim[d]
<1>1. claim[c] \in ClaimRows /\ claim \in [ClaimIds -> ClaimRows] /\ today \in Nat
  BY ClaimTypes, DeskAssumption
<1>2. PICK row : row = [claim[c] EXCEPT !.status = status, !.link = FALSE, !.expires = Claims!Never, !.decided = today]
  OBVIOUS
<1>3. row \in ClaimRows /\ row.status = status /\ row.by = claim[c].by
  BY <1>1, <1>2 DEF ClaimRows
<1>4. claim' = [claim EXCEPT ![c] = row]
  BY <1>2 DEF Claims!Decided
<1> QED
  BY <1>1, <1>3, <1>4

(* Whoever has the listing becomes its owner, and nobody was approved yet. *)
LEMMA ClaimWon ==
  ASSUME ClaimInv, NEW s \in Sessions, HasListing(s), Claims!Gains(work[s].by), Claims!Goes(s, Claims!Idle),
         UNCHANGED claim \/ Claims!Decided(work[s].claim, "approved"),
         UNCHANGED <<today, Claims!papers, starts>>, told' \in [ClaimIds -> 0..Claims!Many]
  PROVE  ClaimInv'
<1> USE DEF Claims!Starts, Claims!Decisions
<1>1. PICK c \in ClaimIds : c = work[s].claim /\ claim[c].by = work[s].by /\ claim[c].by \in Users
                          /\ claim[c].status # "absent" /\ owner = Claims!Nobody
  BY DEF ClaimInv, ReadTrue, HasListing, HolderAlone, RowsNamed
<1>2. work'[s] = Claims!Idle /\ \A t \in Sessions \ {s} : work'[t] = work[t]
  BY DEF Claims!Goes, ClaimInv, Claims!TypeOK
<1>3. \A d \in ClaimIds : claim[d].status # "approved"
  BY <1>1, DeskAssumption DEF ClaimInv, Claims!ApprovedOwns, RowsNamed, Claims!Nobody
<1>4. /\ claim' \in [ClaimIds -> ClaimRows]
      /\ \A d \in ClaimIds : claim'[d].by = claim[d].by
      /\ \A d \in ClaimIds : claim'[d].status = "absent" <=> claim[d].status = "absent"
      /\ \A d \in ClaimIds : claim'[d].status = "approved" => d = c
  <2>1. CASE UNCHANGED claim
    BY <1>3, <2>1, ClaimTypes DEF ClaimInv
  <2>2. CASE Claims!Decided(c, "approved")
    BY <1>1, <1>3, <2>2, DecidedIs DEF ClaimInv
  <2> QED
    BY <1>1, <2>1, <2>2
<1>5. owner' = claim[c].by
  BY <1>1 DEF Claims!Gains
<1>6. Claims!TypeOK'
  <2>1. work' \in [Sessions -> Works]
    BY IdleWork, WorkTypes DEF ClaimInv
  <2> QED
    BY <1>1, <1>4, <1>5, <2>1 DEF ClaimInv, Claims!TypeOK, Claims!Gains, Claims!papers, ClaimRows, Works
<1>7. \A t \in Sessions : ReadTrue(t)'
  BY <1>2, <1>4, IdleWork DEF ClaimInv, ReadTrue
<1>8. HolderAlone'
  BY <1>2, IdleWork DEF ClaimInv, HolderAlone, HasListing
<1>9. RowsNamed' /\ Claims!ApprovedOwns'
  BY <1>4, <1>5 DEF ClaimInv, RowsNamed, Claims!ApprovedOwns
<1> QED
  BY <1>6, <1>7, <1>8, <1>9 DEF ClaimInv

LEMMA ClaimTurnedDown ==
  ASSUME ClaimInv, NEW s \in Sessions, Claims!CommitRejection(s)
  PROVE  ClaimInv'
<1> USE DEF Claims!Starts, Claims!Decisions
<1>1. PICK c \in ClaimIds : c = work[s].claim /\ claim[c].status # "absent"
  BY DEF Claims!CommitRejection, ClaimInv, ReadTrue
<1>2. work'[s] = Claims!Idle /\ \A t \in Sessions \ {s} : work'[t] = work[t]
  BY DEF Claims!CommitRejection, Claims!Goes, ClaimInv, Claims!TypeOK
<1>3. /\ claim' \in [ClaimIds -> ClaimRows] /\ told' \in [ClaimIds -> 0..Claims!Many]
      /\ \A d \in ClaimIds : claim'[d].by = claim[d].by
      /\ \A d \in ClaimIds : claim'[d].status = "absent" <=> claim[d].status = "absent"
      /\ \A d \in ClaimIds : claim'[d].status = "approved" => claim[d].status = "approved"
  <2>1. CASE UNCHANGED <<claim, told>>
    BY <2>1, ClaimTypes DEF ClaimInv
  <2>2. CASE Claims!Decided(c, "rejected") /\ told' = Claims!Lettered(c)
    BY <1>1, <2>2, DecidedIs, LetterTypes DEF ClaimInv
  <2> QED
    BY <1>1, <2>1, <2>2 DEF Claims!CommitRejection
<1>4. Claims!TypeOK'
  <2>1. work' \in [Sessions -> Works] /\ UNCHANGED <<today, owner, promoted, Claims!papers, starts>>
    BY IdleWork, WorkTypes DEF ClaimInv, Claims!CommitRejection
  <2> QED
    BY <1>3, <2>1 DEF ClaimInv, Claims!TypeOK, Claims!papers, ClaimRows, Works
<1>5. UNCHANGED owner
  BY DEF Claims!CommitRejection
<1>6. \A t \in Sessions : ReadTrue(t)'
  BY <1>2, <1>3, IdleWork DEF ClaimInv, ReadTrue
<1>7. HolderAlone'
  BY <1>2, <1>5, IdleWork DEF ClaimInv, HolderAlone, HasListing
<1> QED
  BY <1>3, <1>4, <1>5, <1>6, <1>7 DEF ClaimInv, RowsNamed, Claims!ApprovedOwns

(* Documents, the purge and the clock: claimants and statuses stay.        *)
LEMMA ClaimFiled ==
  ASSUME ClaimInv, UNCHANGED <<owner, work>>, Claims!TypeOK',
         \A c \in ClaimIds : claim'[c].by = claim[c].by /\ claim'[c].status = claim[c].status
  PROVE  ClaimInv'
<1>1. (\A s \in Sessions : ReadTrue(s)') /\ HolderAlone'
  BY DEF ClaimInv, ReadTrue, HolderAlone, HasListing, Claims!Starts, Claims!Decisions
<1> QED
  BY <1>1 DEF ClaimInv, RowsNamed, Claims!ApprovedOwns

LEMMA ClaimPapers ==
  ASSUME ClaimInv,
         \/ \E k \in Keys : Claims!Upload(k) \/ Claims!Attach(k)
         \/ Claims!StartPurge \/ Claims!MarkPurged \/ Claims!AdvanceClock
         \/ \E c \in ClaimIds, k \in Keys : Claims!DeleteObject(c, k) \/ Claims!DeleteFails(c, k)
         \/ UNCHANGED claimVars
  PROVE  ClaimInv'
<1>t. claim \in [ClaimIds -> ClaimRows] /\ purge \in [read : SUBSET (ClaimIds \X Keys), gone : SUBSET ClaimIds]
  BY ClaimTypes DEF ClaimInv
<1>1. ASSUME NEW k \in Keys, Claims!Upload(k) PROVE ClaimInv'
  <2>1. Claims!TypeOK'
    BY <1>1 DEF Claims!Upload, ClaimInv, Claims!TypeOK
  <2> QED
    BY <1>1, <2>1, ClaimFiled DEF Claims!Upload
<1>2. ASSUME NEW k \in Keys, Claims!Attach(k) PROVE ClaimInv'
  <2>1. ASSUME NEW c \in ClaimIds
        PROVE  claim'[c] \in ClaimRows /\ claim'[c].by = claim[c].by /\ claim'[c].status = claim[c].status
    <3>1. claim[c] \in ClaimRows
      BY <1>t
    <3>2. [claim[c] EXCEPT !.proof = k] \in ClaimRows /\ [claim[c] EXCEPT !.proof = k].by = claim[c].by
          /\ [claim[c] EXCEPT !.proof = k].status = claim[c].status
      BY <3>1 DEF ClaimRows
    <3>3. claim'[c] \in {claim[c], [claim[c] EXCEPT !.proof = k]}
      BY <1>2, <1>t DEF Claims!Attach
    <3> QED
      BY <3>1, <3>2, <3>3
  <2>2. claim' \in [ClaimIds -> ClaimRows]
    BY <1>2, <1>t, <2>1 DEF Claims!Attach
  <2>3. Claims!TypeOK'
    BY <1>2, <2>2 DEF Claims!Attach, ClaimInv, Claims!TypeOK, Claims!papers, ClaimRows, Works
  <2> QED
    BY <1>2, <2>1, <2>3, ClaimFiled DEF Claims!Attach
<1>3. CASE Claims!MarkPurged
  <2>1. ASSUME NEW c \in ClaimIds
        PROVE  claim'[c] \in ClaimRows /\ claim'[c].by = claim[c].by /\ claim'[c].status = claim[c].status
    <3>1. claim[c] \in ClaimRows
      BY <1>t
    <3>2. PICK row : row = [claim[c] EXCEPT !.proof = Claims!NoKey, !.purged = TRUE]
      OBVIOUS
    <3>3. row \in ClaimRows /\ row.by = claim[c].by /\ row.status = claim[c].status
      BY <3>1, <3>2 DEF ClaimRows
    <3>4. claim'[c] \in {claim[c], row}
      BY <1>3, <3>2 DEF Claims!MarkPurged
    <3> QED
      BY <3>1, <3>3, <3>4
  <2>2. claim' \in [ClaimIds -> ClaimRows]
    BY <1>3, <2>1 DEF Claims!MarkPurged
  <2>3. Claims!TypeOK'
    BY <1>3, <1>t, <2>2 DEF Claims!MarkPurged, ClaimInv, Claims!TypeOK, ClaimRows, Works
  <2> QED
    BY <1>3, <2>1, <2>3, ClaimFiled DEF Claims!MarkPurged
<1>4. CASE Claims!StartPurge
  <2>1. {<<c, claim[c].proof>> : c \in Claims!Purgeable} \in SUBSET (ClaimIds \X Keys)
    BY <1>t DEF Claims!Purgeable, ClaimRows
  <2>2. purge' \in [read : SUBSET (ClaimIds \X Keys), gone : SUBSET ClaimIds]
    BY <1>4, <1>t, <2>1 DEF Claims!StartPurge
  <2>3. Claims!TypeOK'
    BY <1>4, <2>2 DEF Claims!StartPurge, ClaimInv, Claims!TypeOK
  <2> QED
    BY <1>4, <2>3, ClaimFiled DEF Claims!StartPurge
<1>5. ASSUME NEW c \in ClaimIds, NEW k \in Keys, Claims!DeleteObject(c, k) \/ Claims!DeleteFails(c, k) PROVE ClaimInv'
  <2>1. purge' \in [read : SUBSET (ClaimIds \X Keys), gone : SUBSET ClaimIds]
    BY <1>5, <1>t DEF Claims!DeleteObject, Claims!DeleteFails
  <2>2. Claims!TypeOK'
    BY <1>5, <2>1 DEF Claims!DeleteObject, Claims!DeleteFails, ClaimInv, Claims!TypeOK
  <2> QED
    BY <1>5, <2>2, ClaimFiled DEF Claims!DeleteObject, Claims!DeleteFails
<1>6. CASE Claims!AdvanceClock
  <2>1. today' \in 0..MaxDays
    BY <1>6, DeskAssumption DEF Claims!AdvanceClock, ClaimInv, Claims!TypeOK
  <2>2. Claims!TypeOK'
    BY <1>6, <2>1 DEF Claims!AdvanceClock, ClaimInv, Claims!TypeOK, Claims!papers
  <2> QED
    BY <1>6, <2>2, ClaimFiled DEF Claims!AdvanceClock
<1>7. CASE UNCHANGED claimVars
  <2>1. Claims!TypeOK'
    BY <1>7 DEF claimVars, ClaimInv, Claims!TypeOK, Claims!papers
  <2> QED
    BY <1>7, <2>1, ClaimFiled DEF claimVars
<1> QED
  BY <1>1, <1>2, <1>3, <1>4, <1>5, <1>6, <1>7

LEMMA ClaimNext == ClaimInv /\ (Claims!Next \/ UNCHANGED claimVars) => ClaimInv'
<1> SUFFICES ASSUME ClaimInv, Claims!Next \/ UNCHANGED claimVars PROVE ClaimInv'
  OBVIOUS
<1>1. ASSUME NEW s \in Sessions, Claims!CommitLink(s) PROVE ClaimInv'
  <2>1. told' \in [ClaimIds -> 0..Claims!Many]
    BY <1>1, ClaimTypes DEF Claims!CommitLink, ClaimInv
  <2> QED
    BY <1>1, <2>1, ClaimWon DEF Claims!CommitLink, HasListing
<1>2. ASSUME NEW s \in Sessions, Claims!CommitApproval(s) PROVE ClaimInv'
  <2>1. told' \in [ClaimIds -> 0..Claims!Many]
    BY <1>2, ClaimTypes, LetterTypes DEF Claims!CommitApproval, ClaimInv
  <2> QED
    BY <1>2, <2>1, ClaimWon DEF Claims!CommitApproval, HasListing
<1> QED
  BY <1>1, <1>2, ClaimReads, ClaimWrites, ClaimTurnedDown, ClaimPapers DEF Claims!Next

(* Every reachable state of the claims satisfies their invariant.          *)
THEOREM ClaimsInvariant == DeskSpec => []ClaimInv
<1>1. DeskInit => ClaimInv
  BY ClaimInit DEF DeskInit
<1>2. ClaimInv /\ [DeskNext]_all => ClaimInv'
  BY DeskStep, ClaimNext
<1> QED
  BY <1>1, <1>2, PTL DEF DeskSpec

(* However many links, tabs and admins decide claims on a listing at once, *)
(* whoever's claim is approved owns it (verifyClaimToken, decideClaim).    *)
THEOREM ApprovedIsOwner == DeskSpec => []ApprovedOwns
<1>1. ClaimInv => ApprovedOwns
  BY DEF ClaimInv, ApprovedOwns
<1> QED
  BY <1>1, ClaimsInvariant, PTL

(* A listing that has an owner is never taken by another's claim, read as  *)
(* it was before the listing was.                                          *)
THEOREM OwnersStay == DeskSpec => [][owner # Claims!Nobody => owner' = owner]_all
<1>1. ClaimInv /\ [DeskNext]_all => (owner # Claims!Nobody => owner' = owner)
  <2> SUFFICES ASSUME ClaimInv, Claims!Next \/ UNCHANGED claimVars, owner # Claims!Nobody
               PROVE  owner' = owner
    BY DeskStep
  <2>1. \A s \in Sessions : ~Claims!CommitLink(s) /\ ~Claims!CommitApproval(s)
    BY DEF Claims!CommitLink, Claims!CommitApproval, ClaimInv, HolderAlone, HasListing
  <2> QED
    BY <2>1 DEF Claims!Next, claimVars, Claims!StartClaim, Claims!WriteDomainClaim,
                Claims!WriteDocumentClaim,
                Claims!OpenLink, Claims!Decide, Claims!TakeListing, Claims!FindTaken, Claims!CommitRejection,
                Claims!Upload, Claims!Attach, Claims!StartPurge, Claims!MarkPurged, Claims!DeleteObject,
                Claims!DeleteFails, Claims!AdvanceClock
<1> QED
  BY <1>1, ClaimsInvariant, PTL DEF DeskSpec

-----------------------------------------------------------------------------
(* Claims: the documents and the two clocks of their claim.                *)

(* A claim is dated when it is made, and decided, if it is, no earlier.    *)
Dated ==
  \A c \in ClaimIds :
    /\ claim[c].created # Claims!Never => claim[c].created <= today
    /\ claim[c].decided # Claims!Never => claim[c].created <= claim[c].decided
    /\ claim[c].status # "absent" <=> claim[c].created # Claims!Never
    /\ claim[c].status = "absent" => claim[c].decided = Claims!Never

(* What is in the bucket was signed for, and a claim names its own.        *)
Filed ==
  /\ \A k \in Keys : object[k] # "none" => signed[k] # Claims!NoClaim
  /\ \A c \in ClaimIds : claim[c].proof # Claims!NoKey =>
       claim[c].proof \in Keys /\ signed[claim[c].proof] = c /\ c # Claims!NoClaim

(* What the purge read as due still is when it comes to it.                *)
Due ==
  \A p \in purge.read : signed[p[2]] = p[1] /\ p[1] # Claims!NoClaim /\ Claims!Past(p[1])

PaperInv == Dated /\ Filed /\ Due

LEMMA PaperTypes ==
  ASSUME ClaimInv
  PROVE  /\ claim \in [ClaimIds -> ClaimRows] /\ signed \in [Keys -> ClaimIds \cup {Claims!NoClaim}]
         /\ object \in [Keys -> {"none", "held", "deleted"}] /\ purge.read \in SUBSET (ClaimIds \X Keys)
         /\ today \in Nat /\ Retention \in Nat /\ Claims!Never \notin Nat
         /\ \A c \in ClaimIds : /\ claim[c].created \in Nat \cup {Claims!Never}
                                /\ claim[c].decided \in Nat \cup {Claims!Never}
                                /\ claim[c].proof \in Keys \cup {Claims!NoKey}
<1>1. /\ claim \in [ClaimIds -> ClaimRows] /\ today \in Nat /\ Retention \in Nat
      /\ purge \in [read : SUBSET (ClaimIds \X Keys), gone : SUBSET ClaimIds]
  BY ClaimTypes, DeskAssumption DEF ClaimInv
<1>2. purge.read \in SUBSET (ClaimIds \X Keys)
  BY <1>1
<1>3. \A c \in ClaimIds : claim[c] \in ClaimRows
  BY <1>1
<1> QED
  BY <1>1, <1>2, <1>3, ClaimTypes DEF ClaimInv, ClaimRows, Claims!Never

(* What a step may do to a claim's dates and to the name of its document.  *)
Ages(c) ==
  \/ /\ claim'[c].status = "absent" <=> claim[c].status = "absent"
     /\ claim'[c].created = claim[c].created
     /\ \/ claim'[c].decided = claim[c].decided
        \/ claim[c].status # "absent" /\ claim'[c].decided = today
  \/ /\ claim[c].status = "absent" /\ claim'[c].status # "absent"
     /\ claim'[c].created = today /\ claim'[c].decided = Claims!Never

Names(c) ==
  \/ claim'[c].proof \in {claim[c].proof, Claims!NoKey}
  \/ claim'[c].proof \in Keys /\ object[claim'[c].proof] # "none" /\ signed[claim'[c].proof] = c

LEMMA RowAges ==
  ASSUME ClaimInv, NEW s \in Sessions, NEW c \in ClaimIds, NEW d \in ClaimIds,
         \/ Claims!WriteClaim(s, c)
         \/ claim[c].status # "absent" /\ (Claims!Decided(c, "approved") \/ Claims!Decided(c, "rejected"))
  PROVE  Ages(d) /\ Names(d)
<1>t. claim \in [ClaimIds -> ClaimRows] /\ claim[c] \in ClaimRows
  BY PaperTypes
<1>1. CASE d # c
  <2>1. claim'[d] = claim[d]
    BY <1>1, <1>t DEF Claims!WriteClaim, Claims!Decided
  <2> QED
    BY <2>1 DEF Ages, Names
<1>2. CASE d = c /\ Claims!WriteClaim(s, c)
  <2>1. claim'[c] = Claims!Row(c, work[s].by, work[s].op)
    BY <1>2, <1>t DEF Claims!WriteClaim
  <2>2. PICK old : old = IF claim[c].status = "absent"
                           THEN [Claims!NoRow EXCEPT !.by = work[s].by, !.created = today] ELSE claim[c]
    OBVIOUS
  <2>3. \/ claim'[c] = [old EXCEPT !.status = "pending", !.link = TRUE, !.expires = today + LinkLife]
        \/ claim'[c] = [old EXCEPT !.status = "pending"]
    BY <2>1, <2>2 DEF Claims!Row
  <2>4. CASE claim[c].status = "absent"
    <3>1. old = [Claims!NoRow EXCEPT !.by = work[s].by, !.created = today]
      BY <2>2, <2>4
    <3>2. /\ claim'[c].status = "pending" /\ claim'[c].created = today
          /\ claim'[c].decided = Claims!Never /\ claim'[c].proof = Claims!NoKey
      BY <2>3, <3>1 DEF Claims!NoRow
    <3> QED
      BY <1>2, <2>4, <3>2 DEF Ages, Names
  <2>5. CASE claim[c].status # "absent"
    <3>1. old = claim[c]
      BY <2>2, <2>5
    <3>2. /\ claim'[c].status = "pending" /\ claim'[c].created = claim[c].created
          /\ claim'[c].decided = claim[c].decided /\ claim'[c].proof = claim[c].proof
      BY <1>t, <2>3, <3>1 DEF ClaimRows
    <3> QED
      BY <1>2, <2>5, <3>2 DEF Ages, Names
  <2> QED
    BY <2>4, <2>5
<1>3. ASSUME d = c, claim[c].status # "absent", NEW status \in {"approved", "rejected"}, Claims!Decided(c, status) PROVE Ages(d) /\ Names(d)
  <2>1. PICK row : row = [claim[c] EXCEPT !.status = status, !.link = FALSE, !.expires = Claims!Never, !.decided = today]
    OBVIOUS
  <2>2. /\ row.status = status /\ row.created = claim[c].created /\ row.decided = today
        /\ row.proof = claim[c].proof
    BY <1>t, <2>1 DEF ClaimRows
  <2>3. claim'[c] = row
    BY <1>3, <1>t, <2>1 DEF Claims!Decided
  <2> QED
    BY <1>3, <2>2, <2>3 DEF Ages, Names
<1> QED
  BY <1>1, <1>2, <1>3

(* A step of the claims, as the documents see it.                          *)
LEMMA PaperStep ==
  ASSUME ClaimInv, Claims!Next \/ UNCHANGED claimVars
  PROVE  /\ \A c \in ClaimIds : Ages(c) /\ Names(c)
         /\ today' \in {today, today + 1}
         /\ \A k \in Keys : /\ signed[k] # Claims!NoClaim => signed'[k] = signed[k]
                            /\ object'[k] = "held" => object[k] = "held" \/ signed[k] # Claims!NoClaim
                            /\ object[k] # "deleted" /\ object'[k] = "deleted" => \E c \in ClaimIds : <<c, k>> \in purge.read
         /\ \/ purge'.read \subseteq purge.read
            \/ UNCHANGED <<claim, signed, today>> /\ purge'.read = {<<c, claim[c].proof>> : c \in Claims!Purgeable}
<1> DEFINE Quiet == \A c \in ClaimIds : Ages(c) /\ Names(c)
           Papers == /\ \A k \in Keys : /\ signed[k] # Claims!NoClaim => signed'[k] = signed[k]
                                        /\ object'[k] = "held" => object[k] = "held" \/ signed[k] # Claims!NoClaim
                                        /\ object[k] # "deleted" /\ object'[k] = "deleted" =>
                                             \E c \in ClaimIds : <<c, k>> \in purge.read
                     /\ \/ purge'.read \subseteq purge.read
                        \/ UNCHANGED <<claim, signed, today>> /\ purge'.read = {<<c, claim[c].proof>> : c \in Claims!Purgeable}
<1>t. /\ claim \in [ClaimIds -> ClaimRows] /\ signed \in [Keys -> ClaimIds \cup {Claims!NoClaim}]
      /\ object \in [Keys -> {"none", "held", "deleted"}]
      /\ purge \in [read : SUBSET (ClaimIds \X Keys), gone : SUBSET ClaimIds]
  BY PaperTypes, ClaimTypes DEF ClaimInv
<1>q. ASSUME UNCHANGED claim PROVE Quiet
  BY <1>q DEF Ages, Names
<1>p. ASSUME UNCHANGED <<signed, object, purge>> PROVE Papers
  BY <1>p
<1> HIDE DEF Quiet, Papers
<1>1. ASSUME NEW s \in Sessions, NEW c \in ClaimIds, Claims!WriteDomainClaim(s, c) \/ Claims!WriteDocumentClaim(s, c)
      PROVE  Quiet /\ Papers /\ today' = today
  <2>1. Claims!WriteClaim(s, c) /\ UNCHANGED <<today, object, purge>>
        /\ \A k \in Keys : signed[k] # Claims!NoClaim => signed'[k] = signed[k]
    BY <1>1, <1>t DEF Claims!WriteDomainClaim, Claims!WriteDocumentClaim, Claims!papers
  <2>2. Quiet
    BY <2>1, RowAges DEF Quiet
  <2> QED
    BY <2>1, <2>2 DEF Papers
<1>2. ASSUME NEW s \in Sessions, Claims!CommitLink(s) \/ Claims!CommitApproval(s) \/ Claims!CommitRejection(s)
      PROVE  Quiet /\ Papers /\ today' = today
  <2>1. UNCHANGED <<today, signed, object, purge>>
    BY <1>2 DEF Claims!CommitLink, Claims!CommitApproval, Claims!CommitRejection, Claims!papers
  <2>2. work[s].claim \in ClaimIds /\ claim[work[s].claim].status # "absent"
    BY <1>2 DEF Claims!CommitLink, Claims!CommitApproval, Claims!CommitRejection, ClaimInv, ReadTrue, Claims!Decisions
  <2>3. \/ UNCHANGED claim
        \/ Claims!Decided(work[s].claim, "approved")
        \/ Claims!Decided(work[s].claim, "rejected")
    BY <1>2 DEF Claims!CommitLink, Claims!CommitApproval, Claims!CommitRejection
  <2>4. Quiet
    BY <2>2, <2>3, <1>q, RowAges DEF Quiet
  <2> QED
    BY <2>1, <2>4, <1>p
<1>3. ASSUME NEW k \in Keys, Claims!Attach(k) PROVE Quiet /\ Papers /\ today' = today
  <2>1. ASSUME NEW c \in ClaimIds PROVE Ages(c) /\ Names(c)
    <3>1. claim[c] \in ClaimRows
      BY <1>t
    <3>2. CASE c = signed[k]
      <4>1. claim'[c] = [claim[c] EXCEPT !.proof = k] /\ claim[c].status = "pending" /\ object[k] # "none"
        BY <1>3, <1>t, <3>2 DEF Claims!Attach, Claims!Open
      <4>2. /\ claim'[c].status = claim[c].status /\ claim'[c].created = claim[c].created
            /\ claim'[c].decided = claim[c].decided /\ claim'[c].proof = k
        BY <3>1, <4>1 DEF ClaimRows
      <4> QED
        BY <3>2, <4>1, <4>2 DEF Ages, Names
    <3>3. CASE c # signed[k]
      <4>1. claim'[c] = claim[c]
        BY <1>3, <1>t, <3>3 DEF Claims!Attach
      <4> QED
        BY <4>1 DEF Ages, Names
    <3> QED
      BY <3>2, <3>3
  <2> QED
    BY <1>3, <1>p, <2>1 DEF Quiet, Claims!Attach, Claims!papers
<1>4. ASSUME Claims!MarkPurged PROVE Quiet /\ Papers /\ today' = today
  <2>1. ASSUME NEW c \in ClaimIds PROVE Ages(c) /\ Names(c)
    <3>1. claim[c] \in ClaimRows
      BY <1>t
    <3>2. PICK row : row = [claim[c] EXCEPT !.proof = Claims!NoKey, !.purged = TRUE]
      OBVIOUS
    <3>3. /\ row.status = claim[c].status /\ row.created = claim[c].created
          /\ row.decided = claim[c].decided /\ row.proof = Claims!NoKey
      BY <3>1, <3>2 DEF ClaimRows
    <3>4. claim'[c] \in {claim[c], row}
      BY <1>4, <3>2 DEF Claims!MarkPurged
    <3> QED
      BY <3>3, <3>4 DEF Ages, Names
  <2>2. Papers /\ today' = today
    BY <1>4, <1>t DEF Papers, Claims!MarkPurged
  <2> QED
    BY <2>1, <2>2 DEF Quiet
<1>5. ASSUME NEW k \in Keys, Claims!Upload(k) PROVE Quiet /\ Papers /\ today' = today
  BY <1>5, <1>q, <1>t DEF Papers, Claims!Upload
<1>6. ASSUME Claims!StartPurge PROVE Quiet /\ Papers /\ today' = today
  <2>1. purge'.read = {<<c, claim[c].proof>> : c \in Claims!Purgeable}
    BY <1>6, <1>t DEF Claims!StartPurge
  <2> QED
    BY <1>6, <1>q, <2>1 DEF Papers, Claims!StartPurge
<1>7. ASSUME NEW c \in ClaimIds, NEW k \in Keys, Claims!DeleteObject(c, k) \/ Claims!DeleteFails(c, k)
      PROVE  Quiet /\ Papers /\ today' = today
  <2>1. purge'.read \subseteq purge.read
    BY <1>7, <1>t DEF Claims!DeleteObject, Claims!DeleteFails
  <2>2. <<c, k>> \in purge.read /\ object' \in {object, [object EXCEPT ![k] = "deleted"]}
        /\ UNCHANGED <<signed, claim, today>>
    BY <1>7 DEF Claims!DeleteObject, Claims!DeleteFails
  <2>3. \A j \in Keys : object[j] # "deleted" /\ object'[j] = "deleted" => j = k
    BY <1>t, <2>2
  <2>4. \A j \in Keys : object'[j] = "held" => object[j] = "held"
    BY <1>t, <2>2
  <2> QED
    BY <1>q, <1>t, <2>1, <2>2, <2>3, <2>4 DEF Papers
<1>8. ASSUME \/ Claims!AdvanceClock \/ UNCHANGED claimVars
             \/ \E s \in Sessions :
                  \/ \E u \in Users, kind \in Claims!Starts : Claims!StartClaim(s, u, kind)
                  \/ \E c \in ClaimIds : \/ Claims!OpenLink(s, c)
                                         \/ \E decision \in {"approve", "reject"} : Claims!Decide(s, c, decision)
                  \/ Claims!TakeListing(s) \/ Claims!FindTaken(s)
      PROVE  Quiet /\ Papers /\ today' \in {today, today + 1}
  <2>1. UNCHANGED <<claim, signed, object, purge>> /\ today' \in {today, today + 1}
    BY <1>8 DEF Claims!AdvanceClock, claimVars, Claims!StartClaim, Claims!OpenLink, Claims!Decide,
                Claims!TakeListing, Claims!FindTaken, Claims!papers
  <2> QED
    BY <1>p, <1>q, <2>1
<1>9. Quiet /\ Papers /\ today' \in {today, today + 1}
  BY <1>1, <1>2, <1>3, <1>4, <1>5, <1>6, <1>7, <1>8 DEF Claims!Next
<1> QED
  BY <1>9 DEF Quiet, Papers

(* Neither clock of a claim is ever set back past its end.                 *)
LEMMA PastStays ==
  ASSUME ClaimInv, ClaimInv', Dated, NEW c \in ClaimIds, Ages(c), today' \in {today, today + 1}, Claims!Past(c)
  PROVE  Claims!Past(c)'
<1>1. /\ today \in Nat /\ today' \in Nat /\ Retention \in Nat /\ today <= today'
      /\ claim[c].created \in Nat \cup {Claims!Never} /\ claim[c].decided \in Nat \cup {Claims!Never}
      /\ Claims!Never \notin Nat
  BY PaperTypes
<1>2. claim[c].status # "absent" /\ claim[c].created \in Nat
  BY <1>1 DEF Dated, Claims!Past
<1>3. claim'[c].created = claim[c].created /\ claim'[c].decided \in {claim[c].decided, today}
  BY <1>2 DEF Ages
<1>4. CASE claim[c].decided # Claims!Never /\ claim[c].decided + Retention <= today
  <2>1. claim[c].created + Retention <= today
    BY <1>1, <1>2, <1>4 DEF Dated
  <2> QED
    BY <1>1, <1>2, <1>3, <2>1 DEF Claims!Past
<1>5. CASE claim[c].created # Claims!Never /\ claim[c].created + Retention <= today
  BY <1>1, <1>2, <1>3, <1>5 DEF Claims!Past
<1> QED
  BY <1>4, <1>5 DEF Claims!Past

LEMMA PaperInit == Claims!Init => PaperInv
BY DEF Claims!Init, PaperInv, Dated, Filed, Due, Claims!NoRow

LEMMA PaperNext ==
  ASSUME ClaimInv, ClaimInv', PaperInv, Claims!Next \/ UNCHANGED claimVars
  PROVE  PaperInv'
<1>1. /\ \A c \in ClaimIds : Ages(c) /\ Names(c)
      /\ today' \in {today, today + 1}
      /\ \A k \in Keys : /\ signed[k] # Claims!NoClaim => signed'[k] = signed[k]
                         /\ object'[k] = "held" => object[k] = "held" \/ signed[k] # Claims!NoClaim
                         /\ object[k] # "deleted" /\ object'[k] = "deleted" => \E c \in ClaimIds : <<c, k>> \in purge.read
      /\ \/ purge'.read \subseteq purge.read
         \/ UNCHANGED <<claim, signed, today>> /\ purge'.read = {<<c, claim[c].proof>> : c \in Claims!Purgeable}
  BY PaperStep
<1>t. /\ today \in Nat /\ today' \in Nat /\ Claims!Never \notin Nat /\ purge.read \in SUBSET (ClaimIds \X Keys)
      /\ \A c \in ClaimIds : /\ claim[c].created \in Nat \cup {Claims!Never}
                             /\ claim[c].decided \in Nat \cup {Claims!Never}
                             /\ claim[c].proof \in Keys \cup {Claims!NoKey}
  BY <1>1, PaperTypes
<1>2. Dated'
  <2> SUFFICES ASSUME NEW c \in ClaimIds
               PROVE  /\ claim'[c].created # Claims!Never => claim'[c].created <= today'
                      /\ claim'[c].decided # Claims!Never => claim'[c].created <= claim'[c].decided
                      /\ claim'[c].status # "absent" <=> claim'[c].created # Claims!Never
                      /\ claim'[c].status = "absent" => claim'[c].decided = Claims!Never
    BY DEF Dated, Claims!Never
  <2>1. Ages(c)
    BY <1>1
  <2> QED
    BY <1>1, <1>t, <2>1 DEF PaperInv, Dated, Ages
<1>3. Filed'
  <2>1. ASSUME NEW k \in Keys, object'[k] # "none" PROVE signed'[k] # Claims!NoClaim
    <3>1. CASE object[k] # "none"
      BY <1>1, <3>1 DEF PaperInv, Filed
    <3>2. CASE object'[k] = "deleted" /\ object[k] # "deleted"
      BY <1>1, <3>2 DEF PaperInv, Due
    <3>3. object'[k] \in {"held", "deleted"}
      BY <2>1 DEF ClaimInv, Claims!TypeOK
    <3> QED
      BY <1>1, <3>1, <3>2, <3>3
  <2>2. ASSUME NEW c \in ClaimIds, claim'[c].proof # Claims!NoKey
        PROVE  claim'[c].proof \in Keys /\ signed'[claim'[c].proof] = c /\ c # Claims!NoClaim
    <3>1. Names(c)
      BY <1>1
    <3>2. CASE claim'[c].proof = claim[c].proof
      BY <1>1, <2>2, <3>2 DEF PaperInv, Filed
    <3>3. CASE claim'[c].proof \in Keys /\ object[claim'[c].proof] # "none" /\ signed[claim'[c].proof] = c
      BY <1>1, <3>3 DEF PaperInv, Filed
    <3> QED
      BY <2>2, <3>1, <3>2, <3>3 DEF Names
  <2> QED
    BY <2>1, <2>2 DEF Filed, Claims!NoClaim, Claims!NoKey
<1>4. Due'
  <2>1. ASSUME NEW p \in purge.read PROVE signed'[p[2]] = p[1] /\ p[1] # Claims!NoClaim /\ Claims!Past(p[1])'
    <3>1. p[1] \in ClaimIds /\ p[2] \in Keys /\ signed[p[2]] = p[1] /\ p[1] # Claims!NoClaim /\ Claims!Past(p[1])
      BY <1>t DEF PaperInv, Due
    <3>2. Claims!Past(p[1])'
      BY <1>1, <3>1, PastStays DEF PaperInv
    <3> QED
      BY <1>1, <3>1, <3>2
  <2>2. CASE purge'.read \subseteq purge.read
    BY <2>1, <2>2 DEF Due, Claims!NoClaim
  <2>3. CASE UNCHANGED <<claim, signed, today>> /\ purge'.read = {<<c, claim[c].proof>> : c \in Claims!Purgeable}
    <3>1. ASSUME NEW c \in Claims!Purgeable
          PROVE  signed'[claim[c].proof] = c /\ c # Claims!NoClaim /\ Claims!Past(c)'
      <4>1. c \in ClaimIds /\ Claims!Past(c) /\ claim[c].proof # Claims!NoKey
        BY DEF Claims!Purgeable
      <4> QED
        BY <1>1, <2>3, <4>1, PastStays DEF PaperInv, Filed
    <3>2. ASSUME NEW p \in purge'.read PROVE signed'[p[2]] = p[1] /\ p[1] # Claims!NoClaim /\ Claims!Past(p[1])'
      <4>1. PICK c \in Claims!Purgeable : p = <<c, claim[c].proof>>
        BY <2>3
      <4>2. p[1] = c /\ p[2] = claim[c].proof
        BY <4>1
      <4> QED
        BY <3>1, <4>2
    <3> QED
      BY <3>2 DEF Due, Claims!NoClaim
  <2> QED
    BY <1>1, <2>2, <2>3
<1> QED
  BY <1>2, <1>3, <1>4 DEF PaperInv

(* A claimant's document is erased only when the claim it was uploaded for *)
(* has run out of a clock, though the purge deletes what it read earlier,  *)
(* and claims are decided, reopened and given other documents meanwhile    *)
(* (purgeClaimDocuments, claimsWithPurgeableDocuments).                    *)
THEOREM ErasedOnlyWhenPast == DeskSpec => Claims!ErasedWhenPast
<1>1. DeskInit => ClaimInv /\ PaperInv
  BY ClaimInit, PaperInit DEF DeskInit
<1>2. ClaimInv /\ PaperInv /\ [DeskNext]_all => ClaimInv' /\ PaperInv'
  BY DeskStep, ClaimNext, PaperNext
<1>3. ClaimInv /\ PaperInv /\ [DeskNext]_all =>
        [\A k \in Keys : object[k] # "deleted" /\ object'[k] = "deleted" =>
           signed[k] # Claims!NoClaim /\ Claims!Past(signed[k])]_(Claims!vars)
  <2> SUFFICES ASSUME ClaimInv, PaperInv, Claims!Next \/ UNCHANGED claimVars,
                      NEW k \in Keys, object[k] # "deleted", object'[k] = "deleted"
               PROVE  signed[k] # Claims!NoClaim /\ Claims!Past(signed[k])
    BY DeskStep
  <2>1. PICK c \in ClaimIds : <<c, k>> \in purge.read
    BY PaperStep
  <2> QED
    BY <2>1 DEF PaperInv, Due
<1> QED
  BY <1>1, <1>2, <1>3, PTL DEF DeskSpec, Claims!ErasedWhenPast

-----------------------------------------------------------------------------
(* Reviews: the row locks.  What a session has read of a review it holds   *)
(* stays so, and what it counted stays so unless another commits.          *)

ReviewRows == [status : {"absent", "pending"} \cup Opinions!Verdicts, verified : BOOLEAN]
Asked == [op : {"none", "verify", "moderate", "resend"},
          pc : {"idle", "write", "count", "rate", "commit"},
          id : Ids \cup {Opinions!NoReview}, status : {"absent", "pending"} \cup Opinions!Verdicts,
          confirmed : BOOLEAN, counted : SUBSET Ids, late : BOOLEAN]

Shape ==
  /\ review \in [Ids -> ReviewRows] /\ request \in [Sessions -> Asked]
  /\ \A s \in Sessions :
       /\ request[s].op # "none" => request[s].id \in Ids
       /\ request[s].op = "none" => request[s] = Opinions!Idle
       /\ request[s].op = "resend" => request[s].pc = "write"
       /\ request[s].pc = "rate" \/ request[s].pc = "count" =>
            request[s].op = "moderate" \/ request[s].confirmed
       /\ request[s].confirmed => request[s].op = "verify" /\ request[s].pc \in {"count", "rate", "commit"}

Holds(s) == request[s].pc \in {"count", "rate", "commit"}

HeldOnce == \A s, t \in Sessions : Holds(s) /\ Holds(t) /\ request[s].id = request[t].id => s = t

(* A click that has written its review found it pending, and it still is.  *)
ConfirmedIsPending ==
  \A s \in Sessions : request[s].confirmed =>
    review[request[s].id].status = "pending" /\ request[s].status \in {"pending", "published"}

(* An admin puts up only what was verified.                                *)
PutUpIsVerified ==
  \A s \in Sessions : request[s].op = "moderate" =>
    /\ request[s].status \in Opinions!Verdicts
    /\ request[s].status = "published" => review[request[s].id].verified

(* What a session has counted is what will be published, unless another    *)
(* committed since.                                                        *)
AsPublished(w) == IF w.status = "published" THEN Opinions!Published \cup {w.id} ELSE Opinions!Published \ {w.id}

CountTrue ==
  \A s \in Sessions :
    LET w == request[s]
    IN w.pc \in {"rate", "commit"} /\ (w.op = "moderate" \/ w.confirmed) /\ ~w.late => w.counted = AsPublished(w)

ReviewInv == Shape /\ HeldOnce /\ ConfirmedIsPending /\ PutUpIsVerified /\ Opinions!PublishedIsVerified
        /\ CountTrue /\ Opinions!RatingTrueUnlessRaced

LEMMA ReviewIdle ==
  Opinions!Idle \in Asked /\ Opinions!Idle.op = "none" /\ Opinions!Idle.pc = "idle" /\ ~Opinions!Idle.confirmed
BY DEF Opinions!Idle, Asked, Opinions!NoReview

LEMMA ReviewInit == Opinions!Init => ReviewInv
<1> SUFFICES ASSUME Opinions!Init PROVE ReviewInv
  OBVIOUS
<1>1. Shape
  <2>1. review \in [Ids -> ReviewRows] /\ request \in [Sessions -> Asked]
    BY ReviewIdle DEF Opinions!Init, ReviewRows
  <2> QED
    BY <2>1, ReviewIdle DEF Opinions!Init, Shape
<1>2. HeldOnce /\ ConfirmedIsPending /\ PutUpIsVerified /\ CountTrue
  BY ReviewIdle DEF Opinions!Init, HeldOnce, ConfirmedIsPending, PutUpIsVerified, CountTrue, Holds
<1>3. Opinions!PublishedIsVerified /\ Opinions!RatingTrueUnlessRaced
  BY DEF Opinions!Init, Opinions!PublishedIsVerified, Opinions!RatingTrueUnlessRaced, Opinions!Published
<1> QED
  BY <1>1, <1>2, <1>3 DEF ReviewInv

(* A step that commits nothing keeps the invariant if the session it moves *)
(* is as the invariant has it.                                             *)
LEMMA ReviewSessionKeeps ==
  ASSUME ReviewInv, UNCHANGED <<review, rating, raced>>, NEW s \in Sessions, NEW w \in Asked, Opinions!Goes(s, w),
         w.op # "none" => w.id \in Ids,
         w.op = "none" => w = Opinions!Idle,
         w.op = "resend" => w.pc = "write",
         w.pc \in {"rate", "count"} => w.op = "moderate" \/ w.confirmed,
         w.confirmed => /\ w.op = "verify" /\ w.pc \in {"count", "rate", "commit"}
                        /\ review[w.id].status = "pending" /\ w.status \in {"pending", "published"},
         w.pc \in {"count", "rate", "commit"} =>
           \A t \in Sessions \ {s} : Holds(t) => request[t].id # w.id,
         w.op = "moderate" => w.status \in Opinions!Verdicts /\ (w.status = "published" => review[w.id].verified),
         w.pc \in {"rate", "commit"} /\ (w.op = "moderate" \/ w.confirmed) /\ ~w.late => w.counted = AsPublished(w)
  PROVE  ReviewInv'
<1>1. /\ request' \in [Sessions -> Asked] /\ request'[s] = w
      /\ \A t \in Sessions \ {s} : request'[t] = request[t]
  BY DEF ReviewInv, Shape, Opinions!Goes
<1>2. Shape'
  BY <1>1 DEF ReviewInv, Shape
<1>3. HeldOnce'
  BY <1>1 DEF ReviewInv, HeldOnce, Holds
<1>4. ConfirmedIsPending' /\ PutUpIsVerified'
  BY <1>1 DEF ReviewInv, ConfirmedIsPending, PutUpIsVerified
<1>5. CountTrue'
  <2>1. Opinions!Published' = Opinions!Published
    BY DEF Opinions!Published
  <2> QED
    BY <1>1, <2>1 DEF ReviewInv, CountTrue, AsPublished
<1>6. Opinions!PublishedIsVerified' /\ Opinions!RatingTrueUnlessRaced'
  BY DEF ReviewInv, Opinions!PublishedIsVerified, Opinions!RatingTrueUnlessRaced, Opinions!Published
<1> QED
  BY <1>2, <1>3, <1>4, <1>5, <1>6 DEF ReviewInv

LEMMA ReviewCreateKeeps ==
  ASSUME ReviewInv, NEW r \in Ids, Opinions!CreateReview(r)
  PROVE  ReviewInv'
<1>1. /\ review[r].status = "absent" /\ review' = [review EXCEPT ![r].status = "pending"]
      /\ UNCHANGED <<rating, request, raced>>
  BY DEF Opinions!CreateReview
<1>2. /\ review' \in [Ids -> ReviewRows] /\ \A q \in Ids \ {r} : review'[q] = review[q]
      /\ review'[r].status = "pending" /\ review'[r].verified = review[r].verified
  BY <1>1 DEF ReviewInv, Shape, ReviewRows
<1>3. Shape'
  BY <1>1, <1>2 DEF ReviewInv, Shape
<1>4. HeldOnce'
  BY <1>1 DEF ReviewInv, HeldOnce, Holds
<1>5. ConfirmedIsPending'
  BY <1>1, <1>2 DEF ReviewInv, ConfirmedIsPending, Shape
<1>6. PutUpIsVerified'
  BY <1>1, <1>2 DEF ReviewInv, PutUpIsVerified, Shape
<1>7. Opinions!Published' = Opinions!Published
  BY <1>1, <1>2 DEF Opinions!Published
<1>8. CountTrue' /\ Opinions!RatingTrueUnlessRaced'
  BY <1>1, <1>7 DEF ReviewInv, CountTrue, AsPublished, Opinions!RatingTrueUnlessRaced
<1>9. Opinions!PublishedIsVerified'
  BY <1>2 DEF ReviewInv, Opinions!PublishedIsVerified
<1> QED
  BY <1>3, <1>4, <1>5, <1>6, <1>8, <1>9 DEF ReviewInv

(* A decision or a click commits: its review is as it wrote it, the rating *)
(* is its count, and every count taken meanwhile is late.                  *)
LEMMA ReviewCommitKeeps ==
  ASSUME ReviewInv, NEW s \in Sessions, Opinions!CommitDecision(s) \/ Opinions!CommitClick(s)
  PROVE  ReviewInv'
<1>r. PICK r \in Ids : r = request[s].id
  BY DEF ReviewInv, Shape, Opinions!CommitDecision, Opinions!CommitClick
<1>w. PICK w \in Asked : w = request[s]
  BY DEF ReviewInv, Shape
<1>1. /\ w.pc = "commit" /\ (w.op = "moderate" \/ w.confirmed) /\ r = w.id
      /\ review' \in [Ids -> ReviewRows] /\ \A q \in Ids \ {r} : review'[q] = review[q]
      /\ review'[r].status = w.status /\ (review[r].verified => review'[r].verified)
      /\ w.status = "published" => review'[r].verified
      /\ rating' = w.counted /\ raced' = w.late
      /\ Opinions!Ends(s)
  <2>1. CASE Opinions!CommitDecision(s)
    <3>1. review[r].verified \/ w.status # "published"
      BY <2>1, <1>r, <1>w DEF Opinions!CommitDecision, ReviewInv, PutUpIsVerified
    <3> QED
      BY <2>1, <3>1, <1>r, <1>w DEF Opinions!CommitDecision, ReviewInv, Shape, ReviewRows, Asked
  <2>2. CASE Opinions!CommitClick(s)
    <3>1. review' = [review EXCEPT ![r] = [status |-> w.status, verified |-> TRUE]]
      BY <2>2, <1>r, <1>w DEF Opinions!CommitClick
    <3>2. [status |-> w.status, verified |-> TRUE] \in ReviewRows
      BY <1>w DEF ReviewRows, Asked
    <3>3. review' \in [Ids -> ReviewRows] /\ review'[r].status = w.status /\ review'[r].verified
          /\ \A q \in Ids \ {r} : review'[q] = review[q]
      BY <3>1, <3>2 DEF ReviewInv, Shape
    <3> QED
      BY <2>2, <3>3, <1>r, <1>w DEF Opinions!CommitClick
  <2> QED
    BY <2>1, <2>2
<1>2. /\ request' \in [Sessions -> Asked] /\ request'[s] = Opinions!Idle
      /\ \A t \in Sessions \ {s} :
           /\ request[t].pc \in {"rate", "commit"} => request'[t] = [request[t] EXCEPT !.late = TRUE]
           /\ request[t].pc \notin {"rate", "commit"} => request'[t] = request[t]
  <2>1. request \in [Sessions -> Asked]
    BY DEF ReviewInv, Shape
  <2>2. \A t \in Sessions : [request[t] EXCEPT !.late = TRUE] \in Asked
    BY <2>1 DEF Asked
  <2>3. request' = [t \in Sessions |->
                      IF t = s THEN Opinions!Idle
                      ELSE IF request[t].pc \in {"rate", "commit"} THEN [request[t] EXCEPT !.late = TRUE]
                      ELSE request[t]]
    BY <1>1 DEF Opinions!Ends
  <2> QED
    BY <2>1, <2>2, <2>3, ReviewIdle
<1>3. \A t \in Sessions \ {s} :
        /\ request'[t].op = request[t].op /\ request'[t].pc = request[t].pc
        /\ request'[t].id = request[t].id /\ request'[t].status = request[t].status
        /\ request'[t].confirmed = request[t].confirmed
        /\ request'[t].pc \in {"rate", "commit"} => request'[t].late
        /\ request[t].op = "none" => request'[t] = request[t]
  <2> SUFFICES ASSUME NEW t \in Sessions \ {s}
               PROVE  /\ request'[t].op = request[t].op /\ request'[t].pc = request[t].pc
                      /\ request'[t].id = request[t].id /\ request'[t].status = request[t].status
                      /\ request'[t].confirmed = request[t].confirmed
                      /\ request'[t].pc \in {"rate", "commit"} => request'[t].late
                      /\ request[t].op = "none" => request'[t] = request[t]
    OBVIOUS
  <2>1. request[t] \in Asked /\ (request[t].op = "none" => request[t].pc = "idle")
    BY ReviewIdle DEF ReviewInv, Shape
  <2> QED
    BY <2>1, <1>2 DEF Asked
<1>4. Shape'
  BY <1>1, <1>2, <1>3, ReviewIdle DEF ReviewInv, Shape
<1>5. HeldOnce'
  BY <1>2, <1>3, ReviewIdle DEF ReviewInv, HeldOnce, Holds
<1>6. ConfirmedIsPending'
  <2>1. \A t \in Sessions \ {s} : request[t].confirmed => request[t].id \in Ids /\ request[t].id # r
    BY <1>1, <1>r, <1>w DEF ReviewInv, Shape, HeldOnce, Holds
  <2> QED
    BY <2>1, <1>1, <1>2, <1>3, ReviewIdle DEF ReviewInv, ConfirmedIsPending
<1>7. PutUpIsVerified'
  <2>1. \A t \in Sessions \ {s} : request[t].op = "moderate" => request[t].id \in Ids
    BY DEF ReviewInv, Shape
  <2> QED
    BY <2>1, <1>1, <1>2, <1>3, ReviewIdle DEF ReviewInv, PutUpIsVerified
<1>8. Opinions!PublishedIsVerified'
  BY <1>1 DEF ReviewInv, Opinions!PublishedIsVerified
<1>9. CountTrue'
  BY <1>2, <1>3, ReviewIdle DEF CountTrue
<1>10. Opinions!RatingTrueUnlessRaced'
  <2>1. Opinions!Published' = AsPublished(w)
    BY <1>1 DEF Opinions!Published, AsPublished
  <2>2. w.late \/ w.counted = AsPublished(w)
    BY <1>1, <1>w DEF ReviewInv, CountTrue
  <2> QED
    BY <2>1, <2>2, <1>1 DEF Opinions!RatingTrueUnlessRaced
<1> QED
  BY <1>4, <1>5, <1>6, <1>7, <1>8, <1>9, <1>10 DEF ReviewInv

(* Forms, clicks, decisions, resends and the letters keep the invariant.   *)
LEMMA ReviewNext == ReviewInv /\ (Opinions!Next \/ UNCHANGED reviewVars) => ReviewInv'
<1> SUFFICES ASSUME ReviewInv, Opinions!Next \/ UNCHANGED reviewVars PROVE ReviewInv'
  OBVIOUS
<1>i. Shape /\ HeldOnce /\ ConfirmedIsPending /\ PutUpIsVerified /\ CountTrue
  BY DEF ReviewInv
<1>u. ASSUME UNCHANGED <<review, rating, request, raced>> PROVE ReviewInv'
  BY <1>u DEF ReviewInv, Shape, HeldOnce, Holds, ConfirmedIsPending, PutUpIsVerified,
              Opinions!PublishedIsVerified,
              CountTrue, AsPublished, Opinions!Published, Opinions!RatingTrueUnlessRaced
<1>1. ASSUME NEW r \in Ids, Opinions!MailOwner(r) \/ \E k \in Opinions!Links : Opinions!MailLink(r, k) PROVE ReviewInv'
  BY <1>1, <1>u DEF Opinions!MailOwner, Opinions!MailLink
<1>2. ASSUME NEW s \in Sessions, Opinions!Goes(s, Opinions!Idle), UNCHANGED <<review, rating, raced>> PROVE ReviewInv'
  BY <1>2, ReviewIdle, ReviewSessionKeeps
<1>3. ASSUME NEW s \in Sessions, Opinions!SpendLink(s) \/ Opinions!Resend(s) \/ Opinions!Crash(s) PROVE ReviewInv'
  BY <1>2, <1>3 DEF Opinions!SpendLink, Opinions!Resend, Opinions!Crash
<1>4. ASSUME NEW s \in Sessions, NEW r \in Ids, NEW k \in Opinions!Links,
             Opinions!ClickLink(s, r, k) \/ Opinions!AskAgain(s, r, k)
      PROVE  ReviewInv'
  <2>1. PICK op \in {"verify", "resend"} :
          Opinions!Goes(s, [Opinions!Idle EXCEPT !.op = op, !.pc = "write", !.id = r]) /\ UNCHANGED <<review, rating, raced>>
    BY <1>4 DEF Opinions!ClickLink, Opinions!AskAgain
  <2>2. PICK w : w = [Opinions!Idle EXCEPT !.op = op, !.pc = "write", !.id = r]
    OBVIOUS
  <2>3. w \in Asked /\ w.op = op /\ w.pc = "write" /\ w.id = r /\ ~w.confirmed
    BY <2>2, ReviewIdle DEF Asked, Opinions!Idle
  <2> QED
    BY <2>1, <2>2, <2>3, ReviewSessionKeeps
<1>5. ASSUME NEW s \in Sessions, NEW r \in Ids, NEW verdict \in Opinions!Verdicts,
             Opinions!Moderate(s, r, verdict)
      PROVE  ReviewInv'
  <2>1. PICK w : w = [Opinions!Idle EXCEPT !.op = "moderate", !.pc = "write", !.id = r, !.status = verdict]
    OBVIOUS
  <2>2. w \in Asked /\ w.op = "moderate" /\ w.pc = "write" /\ w.id = r /\ ~w.confirmed /\ w.status = verdict
    BY <2>1, ReviewIdle DEF Asked, Opinions!Idle
  <2>3. Opinions!Goes(s, w) /\ UNCHANGED <<review, rating, raced>> /\ (verdict = "published" => review[r].verified)
    BY <1>5, <2>1 DEF Opinions!Moderate
  <2> QED
    BY <2>2, <2>3, ReviewSessionKeeps
<1>6. ASSUME NEW s \in Sessions, Opinions!Verify(s) PROVE ReviewInv'
  <2>1. PICK v \in Asked : v = request[s] /\ v.op = "verify" /\ v.pc = "write" /\ v.id \in Ids /\ ~Opinions!ReviewHeld(v.id)
    BY <1>6, <1>i DEF Opinions!Verify, Shape
  <2>2. ~v.confirmed
    BY <2>1, <1>i DEF Shape
  <2>3. \A t \in Sessions \ {s} : Holds(t) => request[t].id # v.id
    BY <2>1 DEF Opinions!ReviewHeld, Holds
  <2>4. UNCHANGED <<review, rating, raced>>
    BY <1>6 DEF Opinions!Verify
  <2>5. CASE review[v.id].status = "pending"
    <3>1. PICK w : w = [v EXCEPT !.confirmed = TRUE, !.pc = "count",
                                 !.status = IF v.id \in Wary THEN "pending" ELSE "published"]
      OBVIOUS
    <3>2. /\ w \in Asked /\ w.op = "verify" /\ w.pc = "count" /\ w.id = v.id /\ w.confirmed
          /\ w.status \in {"pending", "published"}
      BY <2>1, <3>1 DEF Asked, Opinions!Verdicts
    <3>3. Opinions!Goes(s, w)
      BY <1>6, <2>1, <2>5, <3>1 DEF Opinions!Verify
    <3> QED
      BY <2>1, <2>3, <2>4, <2>5, <3>2, <3>3, ReviewSessionKeeps
  <2>6. CASE review[v.id].status # "pending"
    <3>1. PICK w : w = [v EXCEPT !.pc = "commit"]
      OBVIOUS
    <3>2. w \in Asked /\ w.op = "verify" /\ w.pc = "commit" /\ w.id = v.id /\ ~w.confirmed
      BY <2>1, <2>2, <3>1 DEF Asked
    <3>3. Opinions!Goes(s, w)
      BY <1>6, <2>1, <2>6, <3>1 DEF Opinions!Verify
    <3> QED
      BY <2>1, <2>3, <2>4, <3>2, <3>3, ReviewSessionKeeps
  <2> QED
    BY <2>5, <2>6
<1>7. ASSUME NEW s \in Sessions, Opinions!Decide(s) PROVE ReviewInv'
  <2>1. PICK v \in Asked : v = request[s] /\ v.op = "moderate" /\ v.pc = "write" /\ v.id \in Ids /\ ~Opinions!ReviewHeld(v.id)
    BY <1>7, <1>i DEF Opinions!Decide, Shape
  <2>2. ~v.confirmed /\ v.status \in Opinions!Verdicts /\ (v.status = "published" => review[v.id].verified)
    BY <2>1, <1>i DEF Shape, PutUpIsVerified
  <2>3. \A t \in Sessions \ {s} : Holds(t) => request[t].id # v.id
    BY <2>1 DEF Opinions!ReviewHeld, Holds
  <2>4. PICK w : w = [v EXCEPT !.pc = "count"]
    OBVIOUS
  <2>5. w \in Asked /\ w.op = "moderate" /\ w.pc = "count" /\ w.id = v.id /\ ~w.confirmed /\ w.status = v.status
    BY <2>1, <2>2, <2>4 DEF Asked
  <2>6. Opinions!Goes(s, w) /\ UNCHANGED <<review, rating, raced>>
    BY <1>7, <2>1, <2>4 DEF Opinions!Decide
  <2> QED
    BY <2>1, <2>2, <2>3, <2>5, <2>6, ReviewSessionKeeps
<1>8. ASSUME NEW s \in Sessions, Opinions!Count(s) \/ Opinions!Rate(s) PROVE ReviewInv'
  <2>1. PICK v \in Asked : v = request[s] /\ v.id \in Ids
    BY <1>8, ReviewIdle, <1>i DEF Opinions!Count, Opinions!Rate, Shape
  <2>2. /\ v.pc \in {"count", "rate"} /\ (v.op = "moderate" \/ v.confirmed)
        /\ (v.confirmed => v.op = "verify" /\ review[v.id].status = "pending" /\ v.status \in {"pending", "published"})
        /\ (v.op = "moderate" => v.status \in Opinions!Verdicts /\ (v.status = "published" => review[v.id].verified))
    BY <1>8, <2>1, <1>i DEF Opinions!Count, Opinions!Rate, Shape, ConfirmedIsPending, PutUpIsVerified
  <2>3. \A t \in Sessions \ {s} : Holds(t) => request[t].id # v.id
    BY <2>1, <2>2, <1>i DEF HeldOnce, Holds
  <2>4. PICK w : /\ w \in Asked /\ Opinions!Goes(s, w) /\ UNCHANGED <<review, rating, raced>>
                 /\ w.op = v.op /\ w.id = v.id /\ w.status = v.status /\ w.confirmed = v.confirmed
                 /\ w.pc \in {"rate", "commit"} /\ (~w.late => w.counted = AsPublished(w))
    <3>1. CASE Opinions!Count(s)
      <4>1. PICK w : w = [v EXCEPT !.pc = "rate", !.counted = AsPublished(v)]
        OBVIOUS
      <4>2. AsPublished(v) \in SUBSET Ids
        BY <2>1 DEF AsPublished, Opinions!Published
      <4>3. /\ w \in Asked /\ w.op = v.op /\ w.id = v.id /\ w.status = v.status /\ w.confirmed = v.confirmed
            /\ w.pc = "rate" /\ w.counted = AsPublished(w)
        BY <4>1, <4>2 DEF Asked, AsPublished
      <4>4. Opinions!Goes(s, w) /\ UNCHANGED <<review, rating, raced>>
        BY <3>1, <2>1, <4>1 DEF Opinions!Count, AsPublished
      <4> QED
        BY <4>3, <4>4
    <3>2. CASE Opinions!Rate(s)
      <4>1. PICK w : w = [v EXCEPT !.pc = "commit"]
        OBVIOUS
      <4>2. /\ w \in Asked /\ w.op = v.op /\ w.id = v.id /\ w.status = v.status /\ w.confirmed = v.confirmed
            /\ w.pc = "commit" /\ w.counted = v.counted /\ w.late = v.late
        BY <4>1 DEF Asked
      <4>3. Opinions!Goes(s, w) /\ UNCHANGED <<review, rating, raced>>
        BY <3>2, <2>1, <4>1 DEF Opinions!Rate
      <4>4. ~v.late => v.counted = AsPublished(v)
        BY <3>2, <2>1, <2>2, <1>i DEF Opinions!Rate, CountTrue
      <4> QED
        BY <4>2, <4>3, <4>4 DEF AsPublished
    <3> QED
      BY <1>8, <3>1, <3>2
  <2> QED
    BY <2>1, <2>2, <2>3, <2>4, ReviewSessionKeeps
<1>9. CASE UNCHANGED reviewVars
  BY <1>9, <1>u DEF reviewVars
<1> QED
  BY <1>1, <1>3, <1>4, <1>5, <1>6, <1>7, <1>8, <1>9, ReviewCreateKeeps, ReviewCommitKeeps
     DEF Opinions!Next

(* Every reachable state of the reviews satisfies the invariant.           *)
THEOREM ReviewsInvariant == DeskSpec => []ReviewInv
<1>1. DeskInit => ReviewInv
  BY ReviewInit DEF DeskInit
<1>2. ReviewInv /\ [DeskNext]_all => ReviewInv'
  BY DeskStep, ReviewNext
<1> QED
  BY <1>1, <1>2, PTL DEF DeskSpec

(* A review is public only after its address clicked a link, whatever      *)
(* decisions, clicks and resends race.                                     *)
THEOREM PublicIsVerified == DeskSpec => []Opinions!PublishedIsVerified
<1>1. ReviewInv => Opinions!PublishedIsVerified
  BY DEF ReviewInv
<1> QED
  BY <1>1, ReviewsInvariant, PTL

(* The rating is that of the published reviews, unless the count behind it *)
(* missed another transaction's commit.                                    *)
THEOREM RatingsTrue == DeskSpec => []RatingTrueUnlessRaced
<1>1. ReviewInv => RatingTrueUnlessRaced
  BY DEF ReviewInv, RatingTrueUnlessRaced
<1> QED
  BY <1>1, ReviewsInvariant, PTL

(* What was turned down goes up only by an admin's decision.               *)
THEOREM ClicksOverruleNothing == DeskSpec => ClickNeverOverrules
<1>1. ASSUME ReviewInv, Opinions!Next \/ UNCHANGED reviewVars, NEW r \in Ids,
             review[r].status = "rejected", review'[r].status # "rejected"
      PROVE  \E s \in Sessions : request[s].op = "moderate" /\ request[s].id = r /\ request'[s] = Opinions!Idle
  <2>1. review \in [Ids -> ReviewRows]
    BY <1>1 DEF ReviewInv, Shape
  <2>2. ~(\E q \in Ids : Opinions!CreateReview(q))
    BY <1>1, <2>1 DEF Opinions!CreateReview
  <2>3. ASSUME NEW s \in Sessions, Opinions!CommitClick(s) PROVE FALSE
    <3>1. PICK q \in Ids : q = request[s].id
      BY <2>3, <1>1 DEF Opinions!CommitClick, ReviewInv, Shape
    <3>2. review[q].status = "pending"
      BY <2>3, <3>1, <1>1 DEF Opinions!CommitClick, ReviewInv, ConfirmedIsPending
    <3>3. \A p \in Ids \ {q} : review'[p] = review[p]
      BY <2>3, <3>1, <2>1 DEF Opinions!CommitClick
    <3> QED
      BY <3>2, <3>3, <1>1
  <2>4. ASSUME NEW s \in Sessions, Opinions!CommitDecision(s)
        PROVE  request[s].op = "moderate" /\ request[s].id = r /\ request'[s] = Opinions!Idle
    BY <2>4, <2>1, <1>1 DEF Opinions!CommitDecision, Opinions!Ends
  <2>5. review' # review
    BY <1>1
  <2>6. ~(UNCHANGED reviewVars)
    BY <2>5 DEF reviewVars
  <2>7. \A q \in Ids : ~Opinions!MailOwner(q) /\ \A k \in Opinions!Links : ~Opinions!MailLink(q, k)
    BY <2>5 DEF Opinions!MailOwner, Opinions!MailLink
  <2>8. \A s \in Sessions :
          /\ ~Opinions!Verify(s) /\ ~Opinions!Decide(s) /\ ~Opinions!Count(s) /\ ~Opinions!Rate(s)
          /\ ~Opinions!SpendLink(s) /\ ~Opinions!Resend(s) /\ ~Opinions!Crash(s)
    BY <2>5 DEF Opinions!Verify, Opinions!Decide, Opinions!Count, Opinions!Rate, Opinions!SpendLink,
                Opinions!Resend, Opinions!Crash
  <2>9. \A s \in Sessions, q \in Ids :
          /\ \A k \in Opinions!Links : ~Opinions!ClickLink(s, q, k) /\ ~Opinions!AskAgain(s, q, k)
          /\ \A verdict \in Opinions!Verdicts : ~Opinions!Moderate(s, q, verdict)
    BY <2>5 DEF Opinions!ClickLink, Opinions!AskAgain, Opinions!Moderate
  <2> QED
    BY <1>1, <2>2, <2>3, <2>4, <2>6, <2>7, <2>8, <2>9 DEF Opinions!Next
<1>2. ReviewInv /\ [DeskNext]_all =>
        [\A r \in Ids : review[r].status = "rejected" /\ review'[r].status # "rejected" =>
           \E s \in Sessions : request[s].op = "moderate" /\ request[s].id = r /\ request'[s] = Opinions!Idle]_Opinions!vars
  BY <1>1, DeskStep
<1> QED
  BY <1>2, ReviewsInvariant, PTL DEF DeskSpec, ClickNeverOverrules, Opinions!ClickNeverOverrules
=============================================================================
