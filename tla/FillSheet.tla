----------------------------- MODULE FillSheet -----------------------------
(***************************************************************************)
(* Filling the weekly timesheet of Testhuset or DSB from the completed     *)
(* work, in a temporary browser: scan, preview, review, reconciliation and *)
(* the writes (TesthusetService, DsbService, TesthusetWorker and the two   *)
(* browser adapters).                                                      *)
(*                                                                         *)
(* A row stands for a date and a task.  The server keeps the hours of a    *)
(* row; the page of the browser shows what it loaded, and what is typed    *)
(* into it.  Testhuset saves what is typed at once, DSB when it is sent.   *)
(* The owner of the timesheet may type into the page and into another      *)
(* browser, and record work, while the worker goes on.  The hours are      *)
(* those of whole sessions: rounding is left out.                          *)
(***************************************************************************)
EXTENDS Naturals, FiniteSets

CONSTANTS Row, Session,
          MaxEdits    \* bound: changes made outside the worker

ASSUME FillSheetAssumption == IsFiniteSet(Session)

VARIABLES portal,     \* "testhuset" or "dsb"
          work,       \* per session, its row, or "none" while it is not completed
          included,   \* the sessions of the branches included in DSB, and how often
          generation, \* they were chosen
          offered,    \* rows the portal offers
          cache,      \* rows of the latest scan
          server,     \* hours at the portal
          page,       \* hours in the page
          worker,     \* the worker of the dialog
          edits,      \* number of changes outside the worker
          since       \* history: rows changed by others since the fill was confirmed

vars == <<portal, work, included, generation, offered, cache, server, page, worker, edits, since>>
diary == <<work, included, generation>>

Hours == 0..Cardinality(Session)
None == "none"
NoReview == [rows |-> {}, proposed |-> [r \in Row |-> 0], existing |-> [r \in Row |-> 0],
             generation |-> 0]
Closed == [at |-> "closed", review |-> NoReview, replace |-> {}, todo |-> {},
           wrote |-> {}, cancelled |-> FALSE, confirmed |-> FALSE, outcome |-> "none"]
At(step) == worker.at = step
Go(step) == worker' = [worker EXCEPT !.at = step]
End(outcome) == worker' = [worker EXCEPT !.at = "ended", !.outcome = outcome]
Testhuset == portal = "testhuset"

----------------------------------------------------------------------------
(* What is proposed. *)

\* completed_segments: running and deleted sessions do not count.
Completed == {s \in Session : work[s] # None}

\* Testhuset counts all of them, DSB those of the included branches.
TesthusetCounted == Completed
DsbCounted == Completed \cap included
Counted == IF Testhuset THEN TesthusetCounted ELSE DsbCounted

Proposal == [r \in Row |-> Cardinality({s \in Counted : work[s] = r})]
ProposedRows == {work[s] : s \in Counted}

\* Without a row of the latest scan for every session there is no proposal; DSB
\* wants branches, Testhuset wants work.
Proposable(scanned) ==
    /\ ProposedRows \subseteq scanned
    /\ IF Testhuset THEN ProposedRows # {} ELSE included # {}

Review(hours) ==
    [rows |-> ProposedRows, proposed |-> Proposal,
     existing |-> [r \in Row |-> IF r \in ProposedRows THEN hours[r] ELSE 0],
     generation |-> generation]
Differing(review) == {r \in review.rows : review.existing[r] # review.proposed[r]}

----------------------------------------------------------------------------
(* The scan. *)

\* The page is loaded again.  An empty scan leaves the latest one in place.
ScanTesthuset ==
    Testhuset /\ offered # {} /\ cache' = offered /\ page' = server
ScanDsb ==
    ~Testhuset /\ offered # {} /\ cache' = offered /\ UNCHANGED page
Scan == ScanTesthuset \/ ScanDsb

\* The scan of Settings, which DSB needs before a preview.
ScanOnly ==
    /\ At("closed")
    /\ Scan
    /\ UNCHANGED <<portal, diary, offered, server, worker, edits, since>>

----------------------------------------------------------------------------
(* The worker, until the review. *)

Open ==
    /\ At("closed")
    /\ Go("open")
    /\ UNCHANGED <<portal, diary, offered, cache, server, page, edits, since>>

\* temporary_sheet: the browser starts and its user signs in.
OpenTesthuset ==
    /\ At("open") /\ ~worker.cancelled /\ Testhuset
    /\ Go("preview")
    /\ UNCHANGED <<portal, diary, offered, cache, server, page, edits, since>>

OpenDsb ==
    /\ At("open") /\ ~worker.cancelled /\ ~Testhuset
    /\ Go("preview")
    /\ UNCHANGED <<portal, diary, offered, cache, server, page, edits, since>>

\* Anything may fail before a preview is there; what went wrong in the browser of
\* Testhuset says that no hours were changed.
BrowserFails ==
    /\ Testhuset /\ worker.at \in {"open", "preview"}
    /\ End("unchanged")
    /\ UNCHANGED <<portal, diary, offered, cache, server, page, edits, since>>

FailEarly ==
    /\ worker.at \in {"open", "preview"}
    /\ End("failed")
    /\ (At("preview") /\ ScanTesthuset) \/ UNCHANGED <<cache, page>>
    /\ UNCHANGED <<portal, diary, offered, server, edits, since>>

\* Testhuset scans first, and then reads the rows proposed from that scan.
PreviewTesthuset ==
    /\ At("preview") /\ ~worker.cancelled
    /\ ScanTesthuset
    /\ Proposable(offered)
    /\ worker' = [worker EXCEPT !.at = "review", !.review = Review(server)]
    /\ UNCHANGED <<portal, diary, offered, server, edits, since>>

\* DSB goes by the latest scan of Settings.
PreviewDsb ==
    /\ At("preview") /\ ~worker.cancelled /\ ~Testhuset
    /\ Proposable(cache \cap offered)
    /\ page' = server
    /\ worker' = [worker EXCEPT !.at = "review", !.review = Review(server)]
    /\ UNCHANGED <<portal, diary, offered, cache, server, edits, since>>

\* Every row that differs wants a choice: those to replace.
Choices == SUBSET Differing(worker.review)
CanFill == At("review") /\ ~worker.confirmed /\ ~worker.cancelled /\ worker.review.rows # {}

Confirm ==
    /\ CanFill
    /\ \E replace \in Choices :
         worker' = [worker EXCEPT !.confirmed = TRUE, !.replace = replace,
                                  !.todo = worker.review.rows]
    /\ since' = {}
    /\ UNCHANGED <<portal, diary, offered, cache, server, page, edits>>

\* reject, or the end of the application.
Cancel ==
    /\ worker.at \notin {"closed", "ended"} /\ ~worker.cancelled
    /\ worker' = [worker EXCEPT !.cancelled = TRUE]
    /\ UNCHANGED <<portal, diary, offered, cache, server, page, edits, since>>

\* The worker wakes up: a cancellation wins, also over a confirmation.
Decide ==
    /\ At("review") /\ (worker.cancelled \/ worker.confirmed)
    /\ IF worker.cancelled
       THEN End("cancelled")
       ELSE Go(IF Testhuset THEN "rescan" ELSE "recheck")
    /\ UNCHANGED <<portal, diary, offered, cache, server, page, edits, since>>

----------------------------------------------------------------------------
(* The fill. *)

\* Seeded fault: the page is not loaded again.
Rescan_SamePage ==
    /\ At("rescan") /\ ~worker.cancelled
    /\ cache' = offered
    /\ Go("recheck")
    /\ UNCHANGED <<portal, diary, offered, server, page, edits, since>>

\* Testhuset is scanned again, with the values the server has now.
Rescan ==
    /\ At("rescan") /\ ~worker.cancelled
    /\ ScanTesthuset
    /\ Go("recheck")
    /\ UNCHANGED <<portal, diary, offered, server, edits, since>>

\* Local hours, mappings and the values of the page are still those of the review.
SameProposal ==
    Proposable(cache) /\ ProposedRows = worker.review.rows /\ Proposal = worker.review.proposed
PageAsReviewed == \A r \in worker.review.rows : page[r] = worker.review.existing[r]

\* Nothing is written unless all of the review still holds.
RecheckTesthuset ==
    /\ At("recheck") /\ Testhuset /\ ~worker.cancelled
    /\ SameProposal /\ PageAsReviewed
    /\ Go("fill")
    /\ UNCHANGED <<portal, diary, offered, cache, server, page, edits, since>>

\* The generation stands for the configuration, the coverage for what is counted. The
\* week is open since the preview, so that no cancellation is looked for.
RecheckDsb ==
    /\ At("recheck") /\ ~Testhuset
    /\ SameProposal /\ generation = worker.review.generation /\ PageAsReviewed
    /\ Go("fill")
    /\ UNCHANGED <<portal, diary, offered, cache, server, page, edits, since>>

Without(r) == [worker EXCEPT !.todo = @ \ {r}]
Filling(r) == At("fill") /\ r \in worker.todo \cap worker.replace

\* A row that matches, or is kept.
Skip(r) ==
    /\ At("fill") /\ r \in worker.todo \ worker.replace
    /\ worker' = Without(r)
    /\ UNCHANGED <<portal, diary, offered, cache, server, page, edits, since>>

\* A row that is locked or invoiced can be read but not written; DSB may show no
\* row of that name under the date, or two.
RefuseTesthuset(r) ==
    /\ Filling(r) /\ Testhuset
    /\ End("stopped")
    /\ UNCHANGED <<portal, diary, offered, cache, server, page, edits, since>>

RefuseDsb(r) ==
    /\ Filling(r) /\ ~Testhuset
    /\ End("stopped")
    /\ UNCHANGED <<portal, diary, offered, cache, server, page, edits, since>>

\* The row is read once more. Testhuset looks for a cancellation before it reads and
\* writes; DSB does so when it opens the week and when it sends, not in between.
Writable(r) == /\ Filling(r)
               /\ Testhuset => ~worker.cancelled
               /\ page[r] = worker.review.existing[r]
Stored(hours, r) == [hours EXCEPT ![r] = worker.review.proposed[r]]

\* write_verified: the server confirmed the value, and the page shows it.
WriteTesthuset(r) ==
    /\ Writable(r) /\ Testhuset
    /\ page' = Stored(page, r) /\ server' = Stored(server, r)
    /\ worker' = [Without(r) EXCEPT !.wrote = @ \cup {r}]
    /\ UNCHANGED <<portal, diary, offered, cache, edits, since>>

\* write_verified: the page shows the value; nothing is stored before it is sent.
WriteDsb(r) ==
    /\ Writable(r) /\ ~Testhuset
    /\ page' = Stored(page, r)
    /\ worker' = [Without(r) EXCEPT !.wrote = @ \cup {r}]
    /\ UNCHANGED <<portal, diary, offered, cache, server, edits, since>>

\* No confirmation, or a refusal of the server: nobody knows whether it is stored.
WriteUnconfirmed(r) ==
    /\ Writable(r)
    /\ page' = Stored(page, r)
    /\ server' \in {server} \cup (IF Testhuset THEN {Stored(server, r)} ELSE {})
    /\ worker' = [worker EXCEPT !.at = "ended", !.outcome = "stopped", !.wrote = @ \cup {r}]
    /\ UNCHANGED <<portal, diary, offered, cache, edits, since>>

\* It is stored, but the page does not come to show it.
WriteNotShown(r) ==
    /\ Testhuset
    /\ Writable(r)
    /\ server' = Stored(server, r)
    /\ worker' = [worker EXCEPT !.at = "ended", !.outcome = "unchanged", !.wrote = @ \cup {r}]
    /\ UNCHANGED <<portal, diary, offered, cache, page, edits, since>>

\* Seeded fault: the changes are not sent.
Finish_NotSent ==
    /\ At("fill") /\ worker.todo = {}
    /\ End("verified")
    /\ UNCHANGED <<portal, diary, offered, cache, server, page, edits, since>>

\* Nothing is left to send.
Finish ==
    /\ At("fill") /\ worker.todo = {}
    /\ Testhuset \/ worker.wrote = {}
    /\ End("verified")
    /\ UNCHANGED <<portal, diary, offered, cache, server, page, edits, since>>

Sending == At("fill") /\ worker.todo = {} /\ ~Testhuset /\ worker.wrote # {} /\ ~worker.cancelled

\* commit_verified: DSB takes what the page shows, and says so.
Send ==
    /\ Sending
    /\ server' = page /\ End("verified")
    /\ UNCHANGED <<portal, diary, offered, cache, page, edits, since>>

\* It does not say so within two minutes.
SendUnconfirmed ==
    /\ Sending
    /\ server' \in {server, page} /\ End("stopped")
    /\ UNCHANGED <<portal, diary, offered, cache, page, edits, since>>

\* Seeded fault: a cancellation is reported as it is before the fill.
Stop_SaysCancelled ==
    /\ worker.at \in {"rescan", "recheck", "fill"}
    /\ End(IF worker.cancelled THEN "cancelled" ELSE "stopped")
    /\ UNCHANGED <<portal, diary, offered, cache, server, page, edits, since>>

\* A cancellation is seen before an access to the page, a failure may come any time;
\* what was saved stays saved.
Stop ==
    /\ worker.at \in {"rescan", "recheck", "fill"}
    /\ \/ End("stopped")
       \/ Testhuset /\ At("rescan") /\ End("unchanged")
    /\ UNCHANGED <<portal, diary, offered, cache, server, page, edits, since>>

Close ==
    /\ At("ended")
    /\ worker' = Closed
    /\ UNCHANGED <<portal, diary, offered, cache, server, page, edits, since>>

Fill(r) ==
    \/ Skip(r) \/ RefuseTesthuset(r) \/ RefuseDsb(r) \/ WriteTesthuset(r) \/ WriteDsb(r)
    \/ WriteUnconfirmed(r) \/ WriteNotShown(r)

\* Seeded fault: the worker sleeps until there is a decision.
Worker_NotWoken ==
    \/ OpenTesthuset \/ OpenDsb \/ PreviewTesthuset \/ PreviewDsb \/ BrowserFails \/ FailEarly
    \/ (Decide /\ worker.confirmed) \/ Rescan \/ RecheckTesthuset \/ RecheckDsb
    \/ Finish \/ Send \/ SendUnconfirmed \/ Stop \/ \E r \in Row : Fill(r)

Worker ==
    \/ OpenTesthuset \/ OpenDsb \/ PreviewTesthuset \/ PreviewDsb \/ BrowserFails \/ FailEarly
    \/ Decide \/ Rescan \/ RecheckTesthuset \/ RecheckDsb
    \/ Finish \/ Send \/ SendUnconfirmed \/ Stop \/ \E r \in Row : Fill(r)

----------------------------------------------------------------------------
(* The owner of the timesheet. *)

Edit == edits < MaxEdits /\ edits' = edits + 1

\* A session is completed or deleted.
Record(s, r) ==
    /\ Edit
    /\ work' = [work EXCEPT ![s] = IF @ = None THEN r ELSE None]
    /\ UNCHANGED <<portal, included, generation, offered, cache, server, page, worker, since>>

\* A completed session is assigned to a row of the latest scan.
Assign(s, r) ==
    /\ Edit
    /\ work[s] \notin {None, r} /\ r \in cache
    /\ work' = [work EXCEPT ![s] = r]
    /\ UNCHANGED <<portal, included, generation, offered, cache, server, page, worker, since>>

\* set_included_branches.
Include(S) ==
    /\ Edit /\ included # S
    /\ included' = S /\ generation' = generation + 1
    /\ UNCHANGED <<portal, work, offered, cache, server, page, worker, since>>

\* Somewhere else.
ChangeAtPortal(r, h) ==
    /\ Edit /\ server[r] # h
    /\ server' = [server EXCEPT ![r] = h] /\ since' = since \cup {r}
    /\ UNCHANGED <<portal, diary, offered, cache, page, worker>>

\* In the temporary browser.
TypeIntoPage(r, h) ==
    /\ worker.at \notin {"closed", "open", "preview", "ended"}
    /\ Edit /\ page[r] # h
    /\ page' = [page EXCEPT ![r] = h] /\ since' = since \cup {r}
    /\ server' = IF Testhuset THEN [server EXCEPT ![r] = h] ELSE server
    /\ UNCHANGED <<portal, diary, offered, cache, worker>>

OfferRows(rows) ==
    /\ Edit /\ offered # rows
    /\ offered' = rows
    /\ UNCHANGED <<portal, diary, cache, server, page, worker, since>>

Init ==
    /\ portal \in {"testhuset", "dsb"}
    /\ work \in [Session -> Row] /\ included \in {{}, Session} /\ generation = 0
    /\ offered = Row /\ cache \in {{}, Row}
    /\ server = [r \in Row |-> 0] /\ page = server
    /\ worker = Closed /\ edits = 0 /\ since = {}

Next ==
    \/ Open \/ ScanOnly \/ Confirm \/ Cancel \/ Close \/ Worker
    \/ \E s \in Session, r \in Row : Record(s, r) \/ Assign(s, r)
    \/ \E S \in SUBSET Session : Include(S)
    \/ \E r \in Row, h \in Hours : ChangeAtPortal(r, h) \/ TypeIntoPage(r, h)
    \/ \E rows \in SUBSET Row : OfferRows(rows)

\* The thread of the worker goes on.
Spec == Init /\ [][Next]_vars /\ WF_vars(Worker)

----------------------------------------------------------------------------
(* Properties. *)

\* Cancelled before the fill means that nothing was written, however the click on
\* Fill and the cancellation met (TesthusetWorker.run).
CancelledMeansUntouched == worker.outcome = "cancelled" => worker.wrote = {}

\* A fill reported as verified left at the portal, in every row nobody else touched
\* meanwhile, the hours of the review: the proposed ones where they match or were to
\* replace, the existing ones where they were to be kept (fill, commit_verified).
VerifiedMeansAgreed ==
    worker.outcome = "verified" =>
        \A r \in worker.review.rows \ since :
            Testhuset \/ worker.wrote # {} =>
                server[r] = IF r \in worker.replace THEN worker.review.proposed[r]
                            ELSE worker.review.existing[r]

\* Whatever its end, a fill of Testhuset overwrites only hours that the user saw in
\* the review, or that were changed after the fill was confirmed (fill, scan).
NoBlindOverwrite ==
    [][At("fill") /\ worker' # worker /\ Testhuset =>
          \A r \in Row \ since :
              server'[r] # server[r] => server[r] = worker.review.existing[r]]_vars

\* A cancelled operation ends.
CancelEnds == worker.cancelled ~> worker.at \in {"closed", "ended"}
=============================================================================
