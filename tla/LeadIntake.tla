----------------------------- MODULE LeadIntake -----------------------------
(***************************************************************************)
(* How a stranger's request becomes a lead: the forms, the link that must  *)
(* be confirmed, the rules a lead passes, the sweep, the admin's flag and  *)
(* the delivery of a confirmed request to the businesses it chose.         *)
(*                                                                         *)
(*   src/lib/db/queries/quotes.ts          requests, links, sweep, flag    *)
(*   src/lib/db/queries/leads.ts           the three doors                 *)
(*   src/lib/leads/rules.ts                checkLeadRules                  *)
(*   src/app/get-quotes/verify/[token]/confirm/route.ts                    *)
(*   src/lib/actions/{quotes,lead-capture,enquiry}.ts                      *)
(*   src/worker/jobs/{quotes-expire,notify}.ts                             *)
(*                                                                         *)
(* A confirmation is one transaction in four steps: it reads the row, sets *)
(* it verified (from here it holds the row's lock), passes its door -- the *)
(* reads that decide whether there is a lead -- and commits.  What it has  *)
(* written is seen by nobody until then.                                   *)
(***************************************************************************)
EXTENDS Integers, FiniteSets

CONSTANTS
  Requests,    \* requests, each with the link it was mailed
  Legacy,      \* those a previous release may have left, with no link and no expiry
  Alike,       \* pairs of requests with a phone or an address in common
  Unsound,     \* requests without a usable phone or with a throwaway inbox
  Listings,    \* the listings of the one town and trade
  Clicks,      \* confirmations under way
  Lifetime,    \* QUOTE_VERIFY_TTL_HOURS
  Window,      \* DUPLICATE_WINDOW_DAYS
  MaxTime,     \* bound on the clock
  MaxCrashes,  \* bound on the confirmations that die
  MaxTurns     \* bound on the changes to listings, flags and the blocklist

ASSUME IntakeAssumption ==
  /\ Legacy \subseteq Requests /\ Unsound \subseteq Requests
  /\ Alike \subseteq Requests \X Requests
  /\ \A r \in Requests : <<r, r>> \in Alike
  /\ \A pair \in Alike : <<pair[2], pair[1]>> \in Alike
  /\ Lifetime \in Nat \ {0} /\ Window \in Nat
  /\ MaxTime \in Nat /\ MaxCrashes \in Nat /\ MaxTurns \in Nat

VARIABLES
  now,
  request,   \* the quote_requests row and its quote_recipients
  listing,   \* who would read a message sent to it, and whether it pays
  blocked,   \* requests with an entry in lead_blocklist
  click,     \* the open transaction of each confirmation
  lead,      \* the leads made from each request
  muted,     \* listings whose address has unsubscribed
  queued,    \* notifyQuoteRequest jobs not yet done
  carrying,  \* jobs whose request the worker has read and is mailing
  toMail,    \* the recipients such a job has still to write to
  mailed,    \* the recipients of each request that have been written to
  excused,   \* history: those the worker, reading the request, had cause to pass over
  crashes, turns

world == <<listing, muted, blocked, turns>>
delivery == <<queued, carrying, toMail, mailed, excused>>
vars == <<now, request, world, click, lead, delivery, crashes>>

-----------------------------------------------------------------------------
Nobody == "nobody"
NoDate == 0       \* a null verify_expires_at: every real one is later
NoRequest == [status |-> "absent", source |-> "none", spam |-> FALSE, to |-> {}, expires |-> NoDate]
Old == [NoRequest EXCEPT !.status = "pending", !.source = "quote"]
Away == [pc |-> "idle", of |-> Nobody, lapsed |-> FALSE, lead |-> FALSE, at |-> 0, beside |-> {}]

(* beside: the requests whose own confirmation had passed its door and not *)
(* committed when this lead's rules were checked (a history variable).     *)
NoLead == [made |-> 0, at |-> 0, beside |-> {}]

TypeOK ==
  /\ now \in 0..MaxTime
  /\ request \in [Requests -> [status : {"absent", "pending", "verified", "expired"},
                               source : {"none", "quote", "capture", "enquiry"}, spam : BOOLEAN,
                               to : SUBSET Listings, expires : Nat]]
  /\ listing \in [Listings -> {"silent", "free", "paid"}]
  /\ blocked \subseteq Requests
  /\ click \in [Clicks -> [pc : {"idle", "read", "door", "commit"}, of : Requests \cup {Nobody},
                           lapsed : BOOLEAN, lead : BOOLEAN, at : Nat, beside : SUBSET Requests]]
  /\ lead \in [Requests -> [made : Nat, at : Nat, beside : SUBSET Requests]]
  /\ muted \subseteq Listings
  /\ queued \subseteq Requests /\ carrying \subseteq queued
  /\ toMail \in [Requests -> SUBSET Listings]
  /\ mailed \in [Requests -> SUBSET Listings] /\ excused \in [Requests -> SUBSET Listings]
  /\ crashes \in 0..MaxCrashes /\ turns \in 0..MaxTurns

(* A listing is silent when it is unclaimed and has no address: an enquiry *)
(* to it would be read by nobody.                                          *)
Init ==
  /\ now = 0
  /\ \E left \in SUBSET Legacy :
       request = [r \in Requests |-> IF r \in left THEN Old ELSE NoRequest]
  /\ listing \in [Listings -> {"silent", "free", "paid"}]
  /\ blocked = {}
  /\ click = [s \in Clicks |-> Away]
  /\ lead = [r \in Requests |-> NoLead]
  /\ muted = {} /\ queued = {} /\ carrying = {}
  /\ toMail = [r \in Requests |-> {}] /\ mailed = toMail /\ excused = toMail
  /\ crashes = 0 /\ turns = 0

(* selectQuoteRecipients and quoteNotification: an address to write to,    *)
(* and no unsubscribe on it.                                               *)
Reachable == {l \in Listings : listing[l] # "silent" /\ l \notin muted}

Resembles(r) == {q \in Requests : <<r, q>> \in Alike}

(* checkLeadRules, over the leads that have been committed.  (The bound is *)
(* strict: a lead exactly thirty days old no longer counts.)               *)
Duplicate(r) == \E q \in Resembles(r) : lead[q].made > 0 /\ lead[q].at > now - Window
RulesAllow(r) == r \notin Unsound /\ r \notin blocked /\ ~Duplicate(r)

Locked(r) == \E s \in Clicks : click[s].of = r /\ click[s].pc \in {"door", "commit"}

-----------------------------------------------------------------------------
(* The forms.  Each writes the request with its link in one transaction,   *)
(* while the clock has a lifetime left to run.                             *)

Write(r, source, to) ==
  /\ now + Lifetime <= MaxTime
  /\ request' = [request EXCEPT ![r] = [status |-> "pending", source |-> source, spam |-> FALSE,
                                        to |-> to, expires |-> now + Lifetime]]

(* submitQuoteRequest with createQuoteRequest: the recipients are chosen   *)
(* here; with none, it is kept only if it could become a lead.  Which of   *)
(* the reachable listings are chosen is the ranking's business.            *)
SubmitQuote(r) ==
  /\ request[r] = NoRequest
  /\ \E to \in SUBSET Reachable :
       /\ to = {} => Reachable = {}
       /\ to = {} => RulesAllow(r)
       /\ Write(r, "quote", to)
  /\ UNCHANGED <<now, world, click, lead, delivery, crashes>>

(* The lead-capture box: no recipients, and the rules are checked first.   *)
SubmitCapture(r) ==
  /\ request[r] = NoRequest
  /\ RulesAllow(r)
  /\ Write(r, "capture", {})
  /\ UNCHANGED <<now, world, click, lead, delivery, crashes>>

(* An enquiry to a silent listing (createEnquiryLeadRequest).  Its target  *)
(* is kept in "to"; it has no recipients.                                  *)
SubmitEnquiry(r) ==
  /\ request[r] = NoRequest
  /\ RulesAllow(r)
  /\ \E l \in Listings : listing[l] = "silent" /\ Write(r, "enquiry", {l})
  /\ UNCHANGED <<now, world, click, lead, delivery, crashes>>

-----------------------------------------------------------------------------
(* The confirmation. *)

Lapsed(r) == request[r].expires = NoDate \/ request[r].expires <= now

(* rowForToken, and the clock.  A request without an expiry has no link; a *)
(* link is unknown while its request is flagged, and is answered at once   *)
(* when its request is verified or expired.                                *)
OpenLink(s, r) ==
  /\ click[s].pc = "idle"
  /\ request[r].expires # NoDate
  /\ request[r].status = "pending" /\ ~request[r].spam
  /\ click' = [click EXCEPT ![s] = [Away EXCEPT !.pc = "read", !.of = r, !.lapsed = Lapsed(r)]]
  /\ UNCHANGED <<now, request, world, lead, delivery, crashes>>

(* The UPDATE of a link found lapsed, and the end of its transaction.      *)
ExpireAtClick(s) ==
  LET r == click[s].of
  IN /\ click[s].pc = "read" /\ click[s].lapsed
     /\ ~Locked(r)
     /\ request' = IF request[r].status = "pending"
                   THEN [request EXCEPT ![r].status = "expired"] ELSE request
     /\ click' = [click EXCEPT ![s] = Away]
     /\ UNCHANGED <<now, world, lead, delivery, crashes>>

(* The one conditional UPDATE, which waits for the row's lock and then     *)
(* finds the status as it is.                                              *)
VerifyAsRead(s) ==
  /\ click[s].pc = "read" /\ ~click[s].lapsed
  /\ click' = [click EXCEPT ![s].pc = "door"]
  /\ UNCHANGED <<now, request, world, lead, delivery, crashes>>

Verify(s) ==
  LET r == click[s].of
  IN /\ click[s].pc = "read" /\ ~click[s].lapsed
     /\ ~Locked(r)
     /\ request[r].status = "pending"
     /\ click' = [click EXCEPT ![s].pc = "door"]
     /\ UNCHANGED <<now, request, world, lead, delivery, crashes>>

(* It changed no row: the visitor is told the link was used before.        *)
AlreadyVerified(s) ==
  /\ click[s].pc = "read" /\ ~click[s].lapsed
  /\ ~Locked(click[s].of)
  /\ request[click[s].of].status # "pending"
  /\ click' = [click EXCEPT ![s] = Away]
  /\ UNCHANGED <<now, request, world, lead, delivery, crashes>>

(* createLeadFromQuote, createLeadFromCaptureRequest and                   *)
(* createLeadFromEnquiryRequest: what each asks of its own request.        *)
DoorTrusting(r) ==
  CASE request[r].source = "quote"   -> \A l \in request[r].to : listing[l] # "paid"
    [] request[r].source = "enquiry" -> \A l \in request[r].to : listing[l] = "silent"
    [] OTHER                         -> TRUE

DoorOpen(r) ==
  /\ ~request[r].spam
  /\ CASE request[r].source = "quote"   -> \A l \in request[r].to : listing[l] # "paid"
       [] request[r].source = "enquiry" -> \A l \in request[r].to : listing[l] = "silent"
       [] OTHER                         -> TRUE

PassDoorUnruled(s) ==
  LET r == click[s].of
  IN /\ click[s].pc = "door"
     /\ click' = [click EXCEPT ![s].pc = "commit", ![s].at = now,
                    ![s].lead = DoorOpen(r) /\ lead[r].made = 0,
                    ![s].beside = {click[t].of : t \in {u \in Clicks : click[u].pc = "commit"}}]
     /\ UNCHANGED <<now, request, world, lead, delivery, crashes>>

PassDoor(s) ==
  LET r == click[s].of
  IN /\ click[s].pc = "door"
     /\ click' = [click EXCEPT ![s].pc = "commit", ![s].at = now,
                    ![s].lead = DoorOpen(r) /\ lead[r].made = 0 /\ RulesAllow(r),
                    ![s].beside = {click[t].of : t \in {u \in Clicks : click[u].pc = "commit"}}]
     /\ UNCHANGED <<now, request, world, lead, delivery, crashes>>

(* Mutation: a request that becomes a lead is not delivered as well.       *)
ConfirmOneWay(s) ==
  LET r == click[s].of
  IN /\ click[s].pc = "commit"
     /\ request' = [request EXCEPT ![r].status = "verified"]
     /\ lead' = IF click[s].lead
                THEN [lead EXCEPT ![r] = [made |-> @.made + 1, at |-> click[s].at, beside |-> click[s].beside]]
                ELSE lead
     /\ queued' = IF request[r].source = "quote" /\ request[r].to # {} /\ ~click[s].lead
                  THEN queued \cup {r} ELSE queued
     /\ click' = [click EXCEPT ![s] = Away]
     /\ UNCHANGED <<now, world, carrying, toMail, mailed, excused, crashes>>

Confirm(s) ==
  LET r == click[s].of
  IN /\ click[s].pc = "commit"
     /\ request' = [request EXCEPT ![r].status = "verified"]
     /\ lead' = IF click[s].lead
                THEN [lead EXCEPT ![r] = [made |-> @.made + 1, at |-> click[s].at, beside |-> click[s].beside]]
                ELSE lead
     /\ queued' = IF request[r].source = "quote" /\ request[r].to # {} THEN queued \cup {r} ELSE queued
     /\ click' = [click EXCEPT ![s] = Away]
     /\ UNCHANGED <<now, world, carrying, toMail, mailed, excused, crashes>>

(* The transaction dies before its commit; nothing it did is kept.         *)
Crash(s) ==
  /\ click[s].pc \in {"door", "commit"}
  /\ crashes < MaxCrashes
  /\ crashes' = crashes + 1
  /\ click' = [click EXCEPT ![s] = Away]
  /\ UNCHANGED <<now, request, world, lead, delivery>>

-----------------------------------------------------------------------------
(* The worker. *)

(* expireQuoteRequests, one UPDATE of every pending row that is due; it    *)
(* waits for the rows a confirmation has locked.  A row with no expiry is  *)
(* due a lifetime after it was written, which here was at time 0.          *)
DueByLink(r) == request[r].status = "pending" /\ request[r].expires # NoDate /\ request[r].expires <= now

Due(r) ==
  /\ request[r].status = "pending"
  /\ IF request[r].expires = NoDate THEN Lifetime <= now ELSE request[r].expires <= now

Sweep ==
  LET due == {r \in Requests : Due(r)}
  IN /\ due # {} /\ \A r \in due : ~Locked(r)
     /\ request' = [r \in Requests |-> IF r \in due THEN [request[r] EXCEPT !.status = "expired"]
                                                    ELSE request[r]]
     /\ UNCHANGED <<now, world, click, lead, delivery, crashes>>

(* runQuote reads the request and its recipients (quoteNotification).  A   *)
(* request flagged by then is a finished job with nothing to send.  (How   *)
(* refused mails are retried is JobQueue's subject.)                       *)
Deliverable(r) == request[r].status = "verified" /\ ~request[r].spam

Fetch(r) ==
  /\ r \in queued \ carrying
  /\ IF Deliverable(r)
     THEN /\ carrying' = carrying \cup {r} /\ UNCHANGED queued
          /\ toMail' = [toMail EXCEPT ![r] = request[r].to \cap Reachable]
     ELSE queued' = queued \ {r} /\ UNCHANGED <<carrying, toMail>>
  /\ excused' = [excused EXCEPT ![r] = {l \in request[r].to : request[r].spam \/ l \notin Reachable}]
  /\ UNCHANGED <<now, request, world, click, lead, mailed, crashes>>

(* Each recipient in turn, but those without an address and those who have *)
(* unsubscribed, which it skips.                                           *)
Mail(r, l) ==
  /\ r \in carrying /\ l \in toMail[r]
  /\ mailed' = [mailed EXCEPT ![r] = @ \cup {l}]
  /\ toMail' = [toMail EXCEPT ![r] = @ \ {l}]
  /\ UNCHANGED <<now, request, world, click, lead, queued, carrying, excused, crashes>>

(* The requester comes last, told how many; then the job is done.          *)
Acknowledge(r) ==
  /\ r \in carrying /\ toMail[r] = {}
  /\ carrying' = carrying \ {r} /\ queued' = queued \ {r}
  /\ UNCHANGED <<now, request, world, click, lead, toMail, mailed, excused, crashes>>

-----------------------------------------------------------------------------
(* Everybody else. *)

(* flagQuoteRequestSpam: the flag goes up, or comes down again.            *)
Flag(r) ==
  /\ turns < MaxTurns
  /\ request[r].status # "absent" /\ ~Locked(r)
  /\ request' = [request EXCEPT ![r].spam = ~@]
  /\ turns' = turns + 1
  /\ UNCHANGED <<now, listing, muted, blocked, click, lead, delivery, crashes>>

(* A listing is claimed or given an address, upgrades, lapses, or loses    *)
(* its address.                                                            *)
ListingChanges(l) ==
  /\ turns < MaxTurns
  /\ \E st \in {"silent", "free", "paid"} \ {listing[l]} : listing' = [listing EXCEPT ![l] = st]
  /\ turns' = turns + 1
  /\ UNCHANGED <<now, request, muted, blocked, click, lead, delivery, crashes>>

(* One unsubscribe is for ever.                                            *)
Unsubscribe(l) ==
  /\ turns < MaxTurns /\ l \notin muted
  /\ muted' = muted \cup {l}
  /\ turns' = turns + 1
  /\ UNCHANGED <<now, request, listing, blocked, click, lead, delivery, crashes>>

(* A phone or an address is put on the blocklist, or its entry ends.       *)
BlocklistChanges(r) ==
  /\ turns < MaxTurns
  /\ blocked' = IF r \in blocked THEN blocked \ {r} ELSE blocked \cup {r}
  /\ turns' = turns + 1
  /\ UNCHANGED <<now, request, listing, muted, click, lead, delivery, crashes>>

AdvanceClock ==
  /\ now < MaxTime
  /\ now' = now + 1
  /\ UNCHANGED <<request, world, click, lead, delivery, crashes>>

ClickStep(s) == ExpireAtClick(s) \/ Verify(s) \/ AlreadyVerified(s) \/ PassDoor(s) \/ Confirm(s)

Next ==
  \/ \E r \in Requests :
       \/ SubmitQuote(r) \/ SubmitCapture(r) \/ SubmitEnquiry(r)
       \/ Fetch(r) \/ Acknowledge(r) \/ Flag(r) \/ BlocklistChanges(r)
       \/ \E l \in Listings : Mail(r, l)
       \/ \E s \in Clicks : OpenLink(s, r)
  \/ \E s \in Clicks : ClickStep(s) \/ Crash(s)
  \/ \E l \in Listings : ListingChanges(l) \/ Unsubscribe(l)
  \/ Sweep
  \/ AdvanceClock

Spec == Init /\ [][Next]_vars

(* Time passes, transactions run on, and the worker ticks.  Nothing makes  *)
(* anybody open a link.                                                    *)
Fairness ==
  /\ WF_vars(AdvanceClock) /\ WF_vars(Sweep)
  /\ \A s \in Clicks : WF_vars(ClickStep(s))
  /\ \A r \in Requests : WF_vars(Fetch(r)) /\ \A l \in Listings : WF_vars(Mail(r, l))

FairSpec == Spec /\ Fairness

-----------------------------------------------------------------------------
(* Properties. *)

(* However often a link is clicked, and whatever else races the click, a   *)
(* request is sold as a lead at most once, and only if it was confirmed.   *)
OneLeadPerRequest ==
  \A r \in Requests : lead[r].made <= (IF request[r].status = "verified" THEN 1 ELSE 0)

(* Two leads of one person within the window of the duplicate rule.        *)
Near(r, q) == lead[r].at - lead[q].at < Window /\ lead[q].at - lead[r].at < Window
Twins(r, q) ==
  r # q /\ <<r, q>> \in Alike /\ lead[r].made > 0 /\ lead[q].made > 0 /\ Near(r, q)

(* The exposure of the unlocked check: two leads of one person within the  *)
(* window come only from two confirmations that were open at once, each    *)
(* past its check before the other had committed.                          *)
DuplicatesOnlyTogether ==
  \A r, q \in Requests : Twins(r, q) => r \in lead[q].beside \/ q \in lead[r].beside

(* While a request is flagged it goes nowhere: it makes no lead and no     *)
(* delivery of it begins, although a click may have read it before.        *)
FlaggedGoesNowhere ==
  [][\A r \in Requests : request[r].spam /\ request'[r].spam =>
       /\ lead'[r] = lead[r]
       /\ r \in carrying' => r \in carrying]_vars

(* A request nobody confirms does not stay pending, with a link or not.    *)
RequestEnds == \A r \in Requests : request[r].status = "pending" ~> request[r].status # "pending"

(* Every business a confirmed quote request chose is written to in the     *)
(* end, whether or not the request is a lead too, unless the request was   *)
(* flagged, or the business had unsubscribed or lost its address, when the *)
(* worker came to it.                                                      *)
Chosen(r, l) == request[r].status = "verified" /\ request[r].source = "quote" /\ l \in request[r].to

ConfirmedIsDelivered ==
  \A r \in Requests, l \in Listings : Chosen(r, l) ~> l \in mailed[r] \cup excused[r]

-----------------------------------------------------------------------------
(* What is not so.  Statements the source makes, or seems to rely on, that *)
(* some interleaving breaks; README.md, Disagreements, tells each one's    *)
(* story, and nothing relies on them.                                      *)

(* No two leads of one person within the window, as the rules' comment has *)
(* it.                                                                     *)
NoDuplicateLeads == \A r, q \in Requests : ~Twins(r, q)

(* "Already confirmed" is said only of a request that was confirmed.       *)
AlreadyMeansVerified ==
  [][\A s \in Clicks : AlreadyVerified(s) => request[click[s].of].status = "verified"]_vars
=============================================================================
