--------------------------------- MODULE Desk ---------------------------------
(***************************************************************************)
(* The three things an admin decides on: job posts (JobBoard), claims      *)
(* (ListingClaims) and reviews (Reviews).  They share no row, so a         *)
(* behaviour is one of one of them, chosen at the start.  The job board is *)
(* extended, and lends its clock's name; the other two are instances.      *)
(***************************************************************************)
EXTENDS JobBoard

CONSTANTS
  Users, ClaimIds, Keys, LinkLife, Retention, MaxStarts, MaxDays,  \* ListingClaims
  Ids, Wary, MaxLinks, MaxDecisions,                               \* Reviews
  Sessions                                                         \* either's requests under way

ASSUME DeskAssumption ==
  /\ "nobody" \notin Users
  /\ {LinkLife, Retention, MaxStarts, MaxDays} \subseteq Nat

VARIABLES
  desk,                                              \* which of the three
  today, owner, promoted, claim, work, told, signed, object, purge, starts,
  review, invite, rating, request, queue, decided, mailbox, heard, raced, decisions

claimVars == <<today, owner, promoted, claim, work, told, signed, object, purge, starts>>
reviewVars == <<review, invite, rating, request, queue, decided, mailbox, heard, raced, decisions>>
all == <<desk, vars, claimVars, reviewVars>>

Claims == INSTANCE ListingClaims WITH
  now <- today, letters <- told, Claims <- ClaimIds, MaxTime <- MaxDays

Opinions == INSTANCE Reviews

DeskInit == desk \in {"jobs", "claims", "reviews"} /\ Init /\ Claims!Init /\ Opinions!Init

OfJobs(A) == desk = "jobs" /\ A /\ UNCHANGED <<desk, claimVars, reviewVars>>
OfClaims(A) == desk = "claims" /\ A /\ UNCHANGED <<desk, vars, reviewVars>>
OfReviews(A) == desk = "reviews" /\ A /\ UNCHANGED <<desk, vars, claimVars>>

DeskNext == OfJobs(Next) \/ OfClaims(Claims!Next) \/ OfReviews(Opinions!Next)

(* JobBoard's fairness and ListingClaims'; Reviews is asked for safety.    *)
DeskFairness ==
  /\ WF_all(OfJobs(AdvanceClock)) /\ WF_all(OfJobs(Tick))
  /\ \A p \in Posts :
       /\ WF_all(OfJobs(ApplyCapture(p, "own")))
       /\ \A kind \in NoteKinds : WF_all(OfJobs(SendNote(kind, p)))
  /\ WF_all(OfClaims(Claims!AdvanceClock))
  /\ WF_all(OfClaims(Claims!StartPurge)) /\ WF_all(OfClaims(Claims!MarkPurged))
  /\ \A k \in Keys : SF_all(OfClaims(\E c \in ClaimIds : Claims!DeleteObject(c, k)))

DeskSpec == DeskInit /\ [][DeskNext]_all /\ DeskFairness

-----------------------------------------------------------------------------
(* An approved claim's claimant is the owner (ListingClaims).              *)
ApprovedOwns == Claims!ApprovedOwns
(* A recorded document is erased in the end (ListingClaims).               *)
RecordedIsErased == Claims!RecordedIsErased
(* A click never overrules an admin (Reviews).                             *)
ClickNeverOverrules == Opinions!ClickNeverOverrules
(* The rating is true unless its count was overtaken (Reviews).            *)
RatingTrueUnlessRaced == Opinions!RatingTrueUnlessRaced
=============================================================================
