------------------------------- MODULE Reviews -------------------------------
(***************************************************************************)
(* Reviews of one listing: written, confirmed by a mailed link, held or    *)
(* published by the heuristics, decided by an admin, and added up into the *)
(* rating its page shows.                                                  *)
(*                                                                         *)
(*   src/lib/db/queries/reviews.ts          the rows and the aggregate     *)
(*   src/lib/actions/review.ts              the form, the resend           *)
(*   src/app/review/verify/[token]/confirm/route.ts                        *)
(*   src/lib/actions/admin-reviews.ts       the admin's two decisions      *)
(*   src/worker/jobs/notify.ts              runReviewSubmitted, -Verified  *)
(*                                                                         *)
(* A click or a decision reads, then writes the review (whose row it then  *)
(* holds), reads the published reviews, writes the listing (whose row it   *)
(* then holds) and commits.  A row is seen as last committed, and as the   *)
(* transaction itself has written it.  Each review has an address of its   *)
(* own: the unique index leaves an address one review per listing.  Two    *)
(* conditions that only turn a click or a resend away are left out: a link *)
(* older than a week, and a listing that has come down.                    *)
(***************************************************************************)
EXTENDS Integers, FiniteSets

CONSTANTS
  Ids,         \* reviews.id
  Wary,        \* the reviews whose text flagReview holds for a moderator
  Sessions,    \* requests under way
  MaxLinks,    \* bound on the links minted for one review
  MaxDecisions \* bound on the decisions admins make

VARIABLES
  review,    \* the reviews rows
  invite,    \* the review's review_invites row, its link named by its number
  rating,    \* the reviews rating_avg and rating_count were computed from
  request,   \* what each session has read, and written but not committed
  queue,     \* jobs: <<"link", review, link>>
  decided,   \* "review.verified" jobs waiting, per review
  mailbox,   \* the links each author has been sent
  heard,     \* letters to the owner about each review, counted up to Many
  raced,     \* history: whether the last aggregate missed a commit
  decisions  \* decisions made

post == <<queue, decided, mailbox, heard>>
vars == <<review, invite, rating, request, post, raced, decisions>>

-----------------------------------------------------------------------------
Many == 2
Links == 1..MaxLinks
NoReview == "no review"
Idle == [op |-> "none", pc |-> "idle", id |-> NoReview, status |-> "absent", confirmed |-> FALSE,
         counted |-> {}, late |-> FALSE]
Verdicts == {"published", "rejected"}

TypeOK ==
  /\ review \in [Ids -> [status : {"absent", "pending"} \cup Verdicts, verified : BOOLEAN]]
  /\ invite \in [Ids -> [link : 0..MaxLinks, used : BOOLEAN]]
  /\ rating \subseteq Ids
  /\ request \in [Sessions -> [op : {"none", "verify", "moderate", "resend"},
                               pc : {"idle", "write", "count", "rate", "commit"},
                               id : Ids \cup {NoReview}, status : {"absent", "pending"} \cup Verdicts,
                               confirmed : BOOLEAN, counted : SUBSET Ids, late : BOOLEAN]]
  /\ queue \subseteq Ids \X Links /\ mailbox \subseteq Ids \X Links
  /\ decided \in [Ids -> 0..Many] /\ heard \in [Ids -> 0..Many]
  /\ raced \in BOOLEAN /\ decisions \in 0..MaxDecisions

Init ==
  /\ review = [r \in Ids |-> [status |-> "absent", verified |-> FALSE]]
  /\ invite = [r \in Ids |-> [link |-> 0, used |-> FALSE]]
  /\ rating = {}
  /\ request = [s \in Sessions |-> Idle]
  /\ queue = {} /\ mailbox = {}
  /\ decided = [r \in Ids |-> 0] /\ heard = [r \in Ids |-> 0]
  /\ raced = FALSE /\ decisions = 0

Goes(s, w) == request' = [request EXCEPT ![s] = w]
Published == {r \in Ids : review[r].status = "published"}
Counted(f, r) == [f EXCEPT ![r] = IF @ < Many THEN @ + 1 ELSE Many]

(* Row locks, held from the write to the commit.                           *)
ReviewHeld(r) == \E s \in Sessions : request[s].id = r /\ request[s].pc \in {"count", "rate", "commit"}
ListingHeld == \E s \in Sessions : request[s].pc = "commit" /\ request[s].op # "resend"

-----------------------------------------------------------------------------
(* createReview: the pending row, its invite and the job that mails the    *)
(* link, in one transaction.                                               *)
CreateReview(r) ==
  /\ review[r].status = "absent"
  /\ review' = [review EXCEPT ![r].status = "pending"]
  /\ invite' = [invite EXCEPT ![r].link = 1]
  /\ queue' = queue \cup {<<r, 1>>}
  /\ UNCHANGED <<rating, request, decided, mailbox, heard, raced, decisions>>

(* verifyReviewToken's reads: the link resolves and is not used.           *)
(* (Otherwise nothing is written.)                                         *)
ClickLink(s, r, k) ==
  /\ request[s] = Idle
  /\ <<r, k>> \in mailbox /\ invite[r].link = k
  /\ ~invite[r].used
  /\ Goes(s, [Idle EXCEPT !.op = "verify", !.pc = "write", !.id = r])
  /\ UNCHANGED <<review, invite, rating, post, raced, decisions>>

(* Mutation: the click's UPDATE names the row and not its status.          *)
VerifyAnyway(s) ==
  LET w == request[s]
  IN /\ w.op = "verify" /\ w.pc = "write" /\ ~ReviewHeld(w.id)
     /\ Goes(s, [w EXCEPT !.confirmed = TRUE, !.pc = "count",
                          !.status = IF w.id \in Wary THEN "pending" ELSE "published"])
     /\ UNCHANGED <<review, invite, rating, post, raced, decisions>>

(* Its guarded UPDATE.  A review decided in between is left alone, and     *)
(* only the link is spent.                                                 *)
Verify(s) ==
  LET w == request[s]
  IN /\ w.op = "verify" /\ w.pc = "write" /\ ~ReviewHeld(w.id)
     /\ Goes(s, IF review[w.id].status = "pending"
                THEN [w EXCEPT !.confirmed = TRUE, !.pc = "count",
                               !.status = IF w.id \in Wary THEN "pending" ELSE "published"]
                ELSE [w EXCEPT !.pc = "commit"])
     /\ UNCHANGED <<review, invite, rating, post, raced, decisions>>

-----------------------------------------------------------------------------
(* moderateReview's read.  The page the admin acts on may be out of date;  *)
(* only what was verified can be published.                                *)
Moderate(s, r, verdict) ==
  /\ request[s] = Idle /\ decisions < MaxDecisions
  /\ review[r].status # "absent"
  /\ verdict = "published" => review[r].verified
  /\ decisions' = decisions + 1
  /\ Goes(s, [Idle EXCEPT !.op = "moderate", !.pc = "write", !.id = r, !.status = verdict])
  /\ UNCHANGED <<review, invite, rating, post, raced>>

(* Its UPDATE asks nothing of the row.                                     *)
Decide(s) ==
  LET w == request[s]
  IN /\ w.op = "moderate" /\ w.pc = "write" /\ ~ReviewHeld(w.id)
     /\ Goes(s, [w EXCEPT !.pc = "count"])
     /\ UNCHANGED <<review, invite, rating, post, raced, decisions>>

-----------------------------------------------------------------------------
(* recomputeListingRating: one UPDATE whose subselect reads the published  *)
(* reviews as the statement starts, and is not read again if the statement *)
(* then waits for the listing's row.                                       *)
Count(s) ==
  LET w == request[s]
  IN /\ w.pc = "count"
     /\ Goes(s, [w EXCEPT !.pc = "rate",
                   !.counted = IF w.status = "published" THEN Published \cup {w.id} ELSE Published \ {w.id}])
     /\ UNCHANGED <<review, invite, rating, post, raced, decisions>>

Rate(s) ==
  /\ request[s].pc = "rate" /\ ~ListingHeld
  /\ Goes(s, [request[s] EXCEPT !.pc = "commit"])
  /\ UNCHANGED <<review, invite, rating, post, raced, decisions>>

(* Other aggregates already counted miss what this one commits.            *)
Ends(s) ==
  request' = [t \in Sessions |->
                IF t = s THEN Idle
                ELSE IF request[t].pc \in {"rate", "commit"} THEN [request[t] EXCEPT !.late = TRUE]
                ELSE request[t]]

CommitUnrated(s) ==
  LET w == request[s]
  IN /\ w.op = "moderate" /\ w.pc = "commit"
     /\ review' = [review EXCEPT ![w.id].status = w.status]
     /\ rating' = IF w.status = "published" THEN w.counted ELSE rating
     /\ raced' = w.late
     /\ Ends(s)
     /\ UNCHANGED <<invite, post, decisions>>

CommitDecision(s) ==
  LET w == request[s]
  IN /\ w.op = "moderate" /\ w.pc = "commit"
     /\ review' = [review EXCEPT ![w.id].status = w.status]
     /\ rating' = w.counted /\ raced' = w.late
     /\ Ends(s)
     /\ UNCHANGED <<invite, post, decisions>>

CommitClick(s) ==
  LET w == request[s]
  IN /\ w.op = "verify" /\ w.pc = "commit" /\ w.confirmed
     /\ review' = [review EXCEPT ![w.id] = [status |-> w.status, verified |-> TRUE]]
     /\ invite' = [invite EXCEPT ![w.id].used = TRUE]
     /\ rating' = w.counted /\ raced' = w.late
     /\ decided' = Counted(decided, w.id)
     /\ Ends(s)
     /\ UNCHANGED <<queue, mailbox, heard, decisions>>

SpendLink(s) ==
  LET w == request[s]
  IN /\ w.op = "verify" /\ w.pc = "commit" /\ ~w.confirmed
     /\ invite' = [invite EXCEPT ![w.id].used = TRUE]
     /\ Goes(s, Idle)
     /\ UNCHANGED <<review, rating, post, raced, decisions>>

-----------------------------------------------------------------------------
(* resendReviewVerification: a new link for a review not yet confirmed,    *)
(* asked for with the old one.  The invite is rewritten as found.          *)
AskAgain(s, r, k) ==
  /\ request[s] = Idle
  /\ <<r, k>> \in mailbox /\ invite[r].link = k
  /\ review[r].status = "pending" /\ ~review[r].verified
  /\ Goes(s, [Idle EXCEPT !.op = "resend", !.pc = "write", !.id = r])
  /\ UNCHANGED <<review, invite, rating, post, raced, decisions>>

Resend(s) ==
  LET r == request[s].id
  IN /\ request[s].op = "resend" /\ invite[r].link < MaxLinks
     /\ invite' = [invite EXCEPT ![r] = [link |-> @.link + 1, used |-> FALSE]]
     /\ queue' = queue \cup {<<r, invite[r].link + 1>>}
     /\ Goes(s, Idle)
     /\ UNCHANGED <<review, rating, decided, mailbox, heard, raced, decisions>>

(* The process dies, or the transaction fails: nothing is written.         *)
Crash(s) ==
  /\ request[s] # Idle
  /\ Goes(s, Idle)
  /\ UNCHANGED <<review, invite, rating, post, raced, decisions>>

-----------------------------------------------------------------------------
(* The worker. *)

(* runReviewSubmitted: the link goes out while it is the live one.         *)
MailLink(r, k) ==
  /\ <<r, k>> \in queue
  /\ queue' = queue \ {<<r, k>>}
  /\ mailbox' = IF invite[r].link = k /\ ~invite[r].used THEN mailbox \cup {<<r, k>>} ELSE mailbox
  /\ UNCHANGED <<review, invite, rating, request, decided, heard, raced, decisions>>

(* runReviewVerified: the owner hears of a review that is on the page.     *)
MailOwner(r) ==
  /\ decided[r] > 0
  /\ decided' = [decided EXCEPT ![r] = @ - 1]
  /\ heard' = IF review[r].status = "published" THEN Counted(heard, r) ELSE heard
  /\ UNCHANGED <<review, invite, rating, request, queue, mailbox, raced, decisions>>

Next ==
  \/ \E r \in Ids :
       \/ CreateReview(r) \/ MailOwner(r)
       \/ \E k \in Links : MailLink(r, k)
       \/ \E s \in Sessions, k \in Links : ClickLink(s, r, k) \/ AskAgain(s, r, k)
       \/ \E s \in Sessions, verdict \in Verdicts : Moderate(s, r, verdict)
  \/ \E s \in Sessions :
       \/ Verify(s) \/ Decide(s) \/ Count(s) \/ Rate(s)
       \/ CommitDecision(s) \/ CommitClick(s) \/ SpendLink(s) \/ Resend(s) \/ Crash(s)

Spec == Init /\ [][Next]_vars

-----------------------------------------------------------------------------
(* Properties. *)

(* A review is public only after its address clicked a link: no decision,  *)
(* late click or resend gets round it ("A review is `published` only after *)
(* the address that wrote it clicked a link sent to it").                  *)
PublishedIsVerified == \A r \in Ids : review[r].status = "published" => review[r].verified

(* A click never overrules an admin: what was turned down while the link   *)
(* was open goes up only by an admin's decision.                           *)
ClickNeverOverrules ==
  [][\A r \in Ids : review[r].status = "rejected" /\ review'[r].status # "rejected" =>
       \E s \in Sessions : request[s].op = "moderate" /\ request[s].id = r /\ request'[s] = Idle]_vars

(* The rating is that of the published reviews, unless another transaction *)
(* committed between the count and the commit of the last one.             *)
RatingTrueUnlessRaced == raced \/ rating = Published

-----------------------------------------------------------------------------
(* What is not so.  Statements the source makes, or seems to rely on, that *)
(* some interleaving breaks; README.md, Disagreements, tells each one's    *)
(* story, and nothing relies on them.                                      *)

(* "no sequence of verifications, rejections and restorations can leave    *)
(* the public number disagreeing with the reviews underneath it"           *)
(* (recomputeListingRating).                                               *)
RatingAgrees == rating = Published

(* Once the address is proved no link is live (resendReviewVerification).  *)
ProvedHasNoLink == \A r \in Ids : review[r].verified => invite[r].used

(* The owner hears about a review once (notifyReviewVerified).             *)
OwnerHearsOnce == \A r \in Ids : heard[r] <= 1
=============================================================================
