--------------------------- MODULE ListingClaims ---------------------------
(***************************************************************************)
(* Claims on one listing: a link mailed to the business's own domain, or a *)
(* document an admin looks at, makes a claimant its owner; documents are   *)
(* erased when their time is up.                                           *)
(*                                                                         *)
(*   src/lib/db/queries/claims.ts           claims, links, decisions       *)
(*   src/lib/actions/claim.ts               the forms and the admin's page *)
(*   src/app/claim/verify/[token]/confirm/route.ts                         *)
(*   src/lib/media/claim-docs.ts            the private bucket             *)
(*   src/worker/jobs/purge-claim-docs.ts    the purge                      *)
(*                                                                         *)
(* Starting a claim reads, and then writes.  A decision reads the claim,   *)
(* takes the listing (whose row it then holds), and writes the claim as it *)
(* commits.  No unique index stands behind "one open claim".               *)
(***************************************************************************)
EXTENDS Integers, FiniteSets

CONSTANTS
  Users,
  Claims,      \* claims.id
  Sessions,    \* requests under way
  Keys,        \* object keys in the private bucket, one per upload
  LinkLife,    \* MAGIC_TOKEN_TTL_MINUTES
  Retention,   \* DOCUMENT_RETENTION_DAYS
  MaxStarts,   \* bound on the times a claim form is sent
  MaxTime      \* bound on the clock

VARIABLES
  now,
  owner,     \* listings.owner_id; the listing is unclaimed while it has none
  promoted,  \* profiles whose role is owner
  claim,     \* the claims rows
  work,      \* what each session has read and is about to write
  letters,   \* notifyClaimDecided jobs queued for each claim, counted up to Many
  signed,    \* the claim each object key was minted for
  object,    \* what the private bucket holds under each key
  purge,     \* the purge under way: what it has read, and what it has deleted
  starts     \* claim forms sent

papers == <<signed, object, purge>>
vars == <<now, owner, promoted, claim, work, letters, papers, starts>>

-----------------------------------------------------------------------------
Nobody == "nobody"
NoClaim == "no claim"
NoKey == "no key"
Never == -1      \* a null date

NoRow == [status |-> "absent", by |-> Nobody, link |-> FALSE, expires |-> Never, proof |-> NoKey,
          created |-> Never, decided |-> Never, purged |-> FALSE]
Idle == [op |-> "none", pc |-> "idle", claim |-> NoClaim, by |-> Nobody]

Many == 2
Starts == {"domain", "document"}
Decisions == {"verify", "approve", "reject"}

TypeOK ==
  /\ now \in 0..MaxTime
  /\ owner \in Users \cup {Nobody} /\ promoted \subseteq Users
  /\ claim \in [Claims -> [status : {"absent", "pending", "approved", "rejected"},
                           by : Users \cup {Nobody}, link : BOOLEAN, expires : Nat \cup {Never},
                           proof : Keys \cup {NoKey}, created : Nat \cup {Never},
                           decided : Nat \cup {Never}, purged : BOOLEAN]]
  /\ work \in [Sessions -> [op : {"none"} \cup Starts \cup Decisions, pc : {"idle", "take", "write"},
                            claim : Claims \cup {NoClaim}, by : Users \cup {Nobody}]]
  /\ letters \in [Claims -> 0..Many]
  /\ signed \in [Keys -> Claims \cup {NoClaim}] /\ object \in [Keys -> {"none", "held", "deleted"}]
  /\ purge \in [read : SUBSET (Claims \X Keys), gone : SUBSET Claims]
  /\ starts \in 0..MaxStarts

Init ==
  /\ now = 0
  /\ owner = Nobody /\ promoted = {}
  /\ claim = [c \in Claims |-> NoRow]
  /\ work = [s \in Sessions |-> Idle]
  /\ letters = [c \in Claims |-> 0]
  /\ signed = [k \in Keys |-> NoClaim] /\ object = [k \in Keys |-> "none"]
  /\ purge = [read |-> {}, gone |-> {}]
  /\ starts = 0

Goes(s, w) == work' = [work EXCEPT ![s] = w]
Open(c) == claim[c].status = "pending"

(* Ids and keys are random: which of the unused ones is next is immaterial. *)
NextClaim == CHOOSE c \in Claims : claim[c].status = "absent"
NextKey == CHOOSE k \in Keys : signed[k] = NoClaim

-----------------------------------------------------------------------------
(* Starting a claim. *)

(* getClaimableListing and openClaim: the listing must be unclaimed, and a *)
(* claim the user already has open is used again.                          *)
StartClaim(s, u, kind) ==
  LET mine == {c \in Claims : Open(c) /\ claim[c].by = u}
  IN /\ work[s] = Idle /\ starts < MaxStarts
     /\ starts' = starts + 1
     /\ owner = Nobody
     /\ \E c \in IF mine = {} THEN {NoClaim} ELSE mine :
          Goes(s, [op |-> kind, pc |-> "write", claim |-> c, by |-> u])
     /\ UNCHANGED <<now, owner, promoted, claim, letters, papers>>

(* startDomainClaim mints a new link; startDocumentClaim leaves the link   *)
(* alone.  Either writes a pending row, whatever has become of the row it  *)
(* read.  (New rows are written while the clock has a retention to run.)   *)
Row(c, u, kind) ==
  LET old == IF claim[c].status = "absent" THEN [NoRow EXCEPT !.by = u, !.created = now] ELSE claim[c]
  IN IF kind = "domain" THEN [old EXCEPT !.status = "pending", !.link = TRUE, !.expires = now + LinkLife]
                        ELSE [old EXCEPT !.status = "pending"]

WriteClaim(s, c) ==
  LET w == work[s]
  IN /\ w.op \in Starts
     /\ IF w.claim = NoClaim THEN claim[c].status = "absent" /\ c = NextClaim /\ now + Retention <= MaxTime
                             ELSE c = w.claim
     /\ claim' = [claim EXCEPT ![c] = Row(c, w.by, w.op)]
     /\ Goes(s, Idle)

WriteDomainClaim(s, c) ==
  /\ work[s].op = "domain"
  /\ WriteClaim(s, c)
  /\ UNCHANGED <<now, owner, promoted, letters, papers, starts>>

(* prepareClaimDocument: the row, and then a key to upload to, unless the  *)
(* bucket could not be asked to sign one.                                  *)
WriteDocumentClaim(s, c) ==
  /\ work[s].op = "document"
  /\ WriteClaim(s, c)
  /\ \/ UNCHANGED signed
     \/ \E k \in Keys : signed[k] = NoClaim /\ k = NextKey /\ signed' = [signed EXCEPT ![k] = c]
  /\ UNCHANGED <<now, owner, promoted, letters, object, purge, starts>>

(* The browser's upload, straight into the bucket.                         *)
Upload(k) ==
  /\ signed[k] # NoClaim /\ object[k] = "none"
  /\ object' = [object EXCEPT ![k] = "held"]
  /\ UNCHANGED <<now, owner, promoted, claim, work, letters, signed, purge, starts>>

(* confirmClaimDocument with attachClaimDocument: the claimant's own claim,*)
(* while it is open.                                                       *)
Attach(k) ==
  /\ object[k] # "none" /\ Open(signed[k]) /\ claim[signed[k]].proof # k
  /\ claim' = [claim EXCEPT ![signed[k]].proof = k]
  /\ UNCHANGED <<now, owner, promoted, work, letters, papers, starts>>

-----------------------------------------------------------------------------
(* Deciding a claim. *)

(* verifyClaimToken, reading the row its link opens.  The button may be    *)
(* pressed in two tabs.                                                    *)
OpenLink(s, c) ==
  /\ work[s] = Idle
  /\ Open(c) /\ claim[c].link /\ now <= claim[c].expires
  /\ Goes(s, [op |-> "verify", pc |-> "take", claim |-> c, by |-> claim[c].by])
  /\ UNCHANGED <<now, owner, promoted, claim, letters, papers, starts>>

(* decideClaim, reading the row the admin has in front of them.            *)
Decide(s, c, decision) ==
  /\ work[s] = Idle
  /\ Open(c)
  /\ Goes(s, [op |-> decision, pc |-> IF decision = "approve" THEN "take" ELSE "write",
              claim |-> c, by |-> claim[c].by])
  /\ UNCHANGED <<now, owner, promoted, claim, letters, papers, starts>>

Lettered(c) == [letters EXCEPT ![c] = IF @ < Many THEN @ + 1 ELSE Many]

Held == \E s \in Sessions : work[s].op \in {"verify", "approve"} /\ work[s].pc = "write"

(* The guarded UPDATE of the listing, once nobody holds its row.           *)
TakeAsRead(s) ==
  /\ work[s].pc = "take"
  /\ Goes(s, [work[s] EXCEPT !.pc = "write"])
  /\ UNCHANGED <<now, owner, promoted, claim, letters, papers, starts>>

TakeListing(s) ==
  /\ work[s].pc = "take" /\ ~Held
  /\ owner = Nobody
  /\ Goes(s, [work[s] EXCEPT !.pc = "write"])
  /\ UNCHANGED <<now, owner, promoted, claim, letters, papers, starts>>

(* It changed no row.  If the listing is this claimant's by now, a link is *)
(* told so, and an admin too -- whose page then queues the letter about    *)
(* the decision; otherwise the claim is left as it is.                     *)
FindTaken(s) ==
  LET w == work[s]
  IN /\ w.pc = "take" /\ ~Held
     /\ owner # Nobody
     /\ letters' = IF w.op = "approve" /\ owner = w.by THEN Lettered(w.claim) ELSE letters
     /\ Goes(s, Idle)
     /\ UNCHANGED <<now, owner, promoted, claim, papers, starts>>

Decided(c, status) ==
  claim' = [claim EXCEPT ![c].status = status, ![c].link = FALSE, ![c].expires = Never, ![c].decided = now]

Gains(u) == owner' = u /\ promoted' = promoted \cup {u}

(* The link's own UPDATE of the claim asks nothing of its status.          *)
CommitLink(s) ==
  LET w == work[s]
  IN /\ w.op = "verify" /\ w.pc = "write"
     /\ Gains(w.by)
     /\ Decided(w.claim, "approved")
     /\ Goes(s, Idle)
     /\ UNCHANGED <<now, letters, papers, starts>>

(* The admin's does; but the listing taken before it is kept either way.   *)
CommitApproval(s) ==
  LET w == work[s]
  IN /\ w.op = "approve" /\ w.pc = "write"
     /\ Gains(w.by)
     /\ IF Open(w.claim)
        THEN Decided(w.claim, "approved") /\ letters' = Lettered(w.claim)
        ELSE UNCHANGED <<claim, letters>>
     /\ Goes(s, Idle)
     /\ UNCHANGED <<now, papers, starts>>

CommitRejection(s) ==
  LET w == work[s]
  IN /\ w.op = "reject"
     /\ IF Open(w.claim)
        THEN Decided(w.claim, "rejected") /\ letters' = Lettered(w.claim)
        ELSE UNCHANGED <<claim, letters>>
     /\ Goes(s, Idle)
     /\ UNCHANGED <<now, owner, promoted, papers, starts>>

-----------------------------------------------------------------------------
(* The purge: one job, one transaction.  It reads what is due, deletes the *)
(* objects, skips a claim whose object it could not delete, and records    *)
(* the others.                                                             *)

PastByDecision(c) == claim[c].decided # Never /\ claim[c].decided + Retention <= now

Past(c) ==
  \/ claim[c].decided # Never /\ claim[c].decided + Retention <= now
  \/ claim[c].created # Never /\ claim[c].created + Retention <= now

Purgeable == {c \in Claims : Past(c) /\ ~claim[c].purged /\ claim[c].proof # NoKey}

StartPurge ==
  /\ purge.read = {} /\ purge.gone = {}
  /\ Purgeable # {}
  /\ purge' = [purge EXCEPT !.read = {<<c, claim[c].proof>> : c \in Purgeable}]
  /\ UNCHANGED <<now, owner, promoted, claim, work, letters, signed, object, starts>>

DeleteObject(c, k) ==
  /\ <<c, k>> \in purge.read
  /\ object' = [object EXCEPT ![k] = "deleted"]
  /\ purge' = [read |-> purge.read \ {<<c, k>>}, gone |-> purge.gone \cup {c}]
  /\ UNCHANGED <<now, owner, promoted, claim, work, letters, signed, starts>>

(* Mutation: what could not be deleted is recorded as purged all the same. *)
FailsForGood(c, k) ==
  /\ <<c, k>> \in purge.read
  /\ purge' = [read |-> purge.read \ {<<c, k>>}, gone |-> purge.gone \cup {c}]
  /\ UNCHANGED <<now, owner, promoted, claim, work, letters, signed, object, starts>>

(* The catch: the row keeps its path, and the next tick tries again.       *)
DeleteFails(c, k) ==
  /\ <<c, k>> \in purge.read
  /\ purge' = [purge EXCEPT !.read = @ \ {<<c, k>>}]
  /\ UNCHANGED <<now, owner, promoted, claim, work, letters, signed, object, starts>>

(* markClaimDocumentsPurged.                                               *)
MarkPurged ==
  /\ purge.read = {} /\ purge.gone # {}
  /\ claim' = [c \in Claims |-> IF c \in purge.gone
                                THEN [claim[c] EXCEPT !.proof = NoKey, !.purged = TRUE] ELSE claim[c]]
  /\ purge' = [purge EXCEPT !.gone = {}]
  /\ UNCHANGED <<now, owner, promoted, work, letters, signed, object, starts>>

AdvanceClock ==
  /\ now < MaxTime
  /\ now' = now + 1
  /\ UNCHANGED <<owner, promoted, claim, work, letters, papers, starts>>

Next ==
  \/ \E s \in Sessions :
       \/ \E u \in Users, kind \in Starts : StartClaim(s, u, kind)
       \/ \E c \in Claims :
            \/ WriteDomainClaim(s, c) \/ WriteDocumentClaim(s, c) \/ OpenLink(s, c)
            \/ \E decision \in {"approve", "reject"} : Decide(s, c, decision)
       \/ TakeListing(s) \/ FindTaken(s)
       \/ CommitLink(s) \/ CommitApproval(s) \/ CommitRejection(s)
  \/ \E k \in Keys : Upload(k) \/ Attach(k)
  \/ StartPurge \/ MarkPurged
  \/ \E c \in Claims, k \in Keys : DeleteObject(c, k) \/ DeleteFails(c, k)
  \/ AdvanceClock

Spec == Init /\ [][Next]_vars

(* Time passes and the purge runs daily; a delete that is tried for ever   *)
(* does not fail for ever.                                                 *)
Fairness ==
  /\ WF_vars(AdvanceClock) /\ WF_vars(StartPurge) /\ WF_vars(MarkPurged)
  /\ \A k \in Keys : SF_vars(\E c \in Claims : DeleteObject(c, k))

FairSpec == Spec /\ Fairness

-----------------------------------------------------------------------------
(* Properties. *)

(* An approved claim is the owner's: however many links, tabs and admins   *)
(* decide claims at once, at most one claimant is told they have won, and  *)
(* the listing is theirs.                                                  *)
ApprovedOwns == \A c \in Claims : claim[c].status = "approved" => owner = claim[c].by

(* A document the next purges are to erase: a claim points to it that was  *)
(* never purged, and no purge under way has read the one it replaced.      *)
Recorded(k) ==
  \E c \in Claims :
    /\ claim[c].proof = k /\ ~claim[c].purged
    /\ c \notin purge.gone /\ \A j \in Keys \ {k} : <<c, j>> \notin purge.read

Replaced(k) == \E c \in Claims : claim[c].proof # k /\ claim[c].proof # NoKey /\ signed[k] = c

(* The document a claim points to is itself erased in the end, decided or  *)
(* not, however often its delete fails, unless the claimant sends another  *)
(* in its place -- if the claim was never purged before, and the document  *)
(* was not attached while the purge was at work on the one before it.      *)
RecordedIsErased == \A k \in Keys : Recorded(k) ~> object[k] = "deleted" \/ Replaced(k)

(* A document is erased only when the claim it was uploaded for has run    *)
(* out of a clock, its decision's or its own, however long ago the purge   *)
(* read that it had, and whatever was decided or attached meanwhile.       *)
ErasedWhenPast ==
  [][\A k \in Keys : object[k] # "deleted" /\ object'[k] = "deleted" =>
       signed[k] # NoClaim /\ Past(signed[k])]_vars

-----------------------------------------------------------------------------
(* What is not so.  Statements the source makes, or seems to rely on, that *)
(* some interleaving breaks; README.md, Disagreements, tells each one's    *)
(* story, and nothing relies on them.                                      *)

(* Two admins who decide one claim at once do not both get their way: who  *)
(* has been turned down does not own the listing.                          *)
RejectedGetsNothing ==
  \A c \in Claims : claim[c].status = "rejected" /\ claim[c].by = owner =>
    \E d \in Claims : claim[d].status = "approved" /\ claim[d].by = owner

(* One letter for each claim decided.                                      *)
ToldOnce == \A c \in Claims : letters[c] <= 1

(* Every document uploaded is erased in the end: not one that is replaced, *)
(* nor one attached while the purge is at work, or after it.               *)
DocumentsErased == \A k \in Keys : object[k] = "held" ~> object[k] = "deleted"

(* The document of a claim that was decided is kept for as long again.     *)
DecidedIsKept ==
  [][\A k \in Keys : object[k] # "deleted" /\ object'[k] = "deleted" =>
       claim[signed[k]].decided = Never \/ PastByDecision(signed[k])]_vars

(* One open claim per listing and user.                                    *)
OneOpenClaim ==
  \A c, d \in Claims : Open(c) /\ Open(d) /\ claim[c].by = claim[d].by => c = d
=============================================================================
