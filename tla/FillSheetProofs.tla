-------------------------- MODULE FillSheetProofs --------------------------
(***************************************************************************)
(* What filling a sheet guarantees, for any rows, sessions and outside     *)
(* changes.  The properties are not inductive: what makes a fill safe is   *)
(* what the page was known to show when the fill began, and which rows     *)
(* others have touched since.                                              *)
(***************************************************************************)
EXTENDS FillSheet, FiniteSetTheorems, TLAPS

Step == {"closed", "open", "preview", "review", "rescan", "recheck", "fill", "ended"}
Outcomes == {"none", "unchanged", "failed", "cancelled", "stopped", "verified"}
ReviewRec == [rows : SUBSET Row, proposed : [Row -> Hours], existing : [Row -> Hours],
              generation : Nat]
WorkerRec == [at : Step, review : ReviewRec, replace : SUBSET Row, todo : SUBSET Row,
              wrote : SUBSET Row, cancelled : BOOLEAN, confirmed : BOOLEAN, outcome : Outcomes]

TypeOK ==
    /\ portal \in {"testhuset", "dsb"}
    /\ work \in [Session -> Row \cup {None}] /\ generation \in Nat
    /\ server \in [Row -> Hours] /\ page \in [Row -> Hours]
    /\ worker \in WorkerRec /\ since \in SUBSET Row

\* What the user agreed to have in a row, as far as the fill has come.
Agreed(w, r) == IF r \in w.replace \ w.todo THEN w.review.proposed[r] ELSE w.review.existing[r]

\* What the worker relies on, by how far it has come.
Begun(w) ==
    /\ w.at \in {"closed", "open", "preview"} => ~w.confirmed
    /\ w.at \notin {"fill", "ended"} => w.wrote = {}
    /\ w.at \in {"rescan", "recheck", "fill"} => w.confirmed
    /\ w.confirmed /\ w.at \in {"review", "rescan", "recheck"} => w.todo = w.review.rows
    /\ w.outcome # "none" => w.at = "ended"
    /\ w.outcome = "cancelled" => w.wrote = {}

\* The page of Testhuset shows what the server has, apart from what others did.
Loaded(w, shown, stored, others) ==
    Testhuset /\ w.at \in {"recheck", "fill"} => \A r \in Row \ others : shown[r] = stored[r]

\* While a row is filled the page shows what was agreed.
Shown(w, shown, others) ==
    w.at = "fill" => \A r \in w.review.rows \ others : shown[r] = Agreed(w, r)

Verified(w, stored, others) ==
    w.outcome = "verified" /\ (Testhuset \/ w.wrote # {}) =>
        /\ w.todo = {}
        /\ \A r \in w.review.rows \ others : stored[r] = Agreed(w, r)

IInv ==
    /\ TypeOK
    /\ Begun(worker)
    /\ Loaded(worker, page, server, since)
    /\ Shown(worker, page, since)
    /\ Verified(worker, server, since)


LEMMA HoursTyped == Cardinality(Session) \in Nat /\ 0 \in Hours /\ \A S \in SUBSET Session : Cardinality(S) \in Hours
<1>1. Cardinality(Session) \in Nat
  BY FillSheetAssumption, FS_CardinalityType
<1>2. ASSUME NEW S \in SUBSET Session PROVE Cardinality(S) \in Hours
  BY <1>1, FillSheetAssumption, FS_Subset, FS_CardinalityType DEF Hours
<1> QED
  BY <1>1, <1>2 DEF Hours

LEMMA ReviewTyped ==
    ASSUME TypeOK
    PROVE  Review(server) \in ReviewRec
<1>1. ProposedRows \subseteq Row
  BY DEF ProposedRows, Counted, TesthusetCounted, DsbCounted, Completed, TypeOK
<1>2. Proposal \in [Row -> Hours]
  <2>1. \A r \in Row : {s \in Counted : work[s] = r} \in SUBSET Session
    BY DEF Counted, TesthusetCounted, DsbCounted, Completed
  <2> QED
    BY <2>1, HoursTyped DEF Proposal
<1> QED
  BY <1>1, <1>2, HoursTyped DEF Review, ReviewRec, TypeOK


----------------------------------------------------------------------------
\* Steps by what they do to the worker.

\* A step of the worker that leaves the portal and the page alone.
LEMMA WorkerOnly ==
    ASSUME IInv, NEW w \in WorkerRec, worker' = w,
           UNCHANGED <<portal, work, generation, server, page, since>>,
           Begun(w), Loaded(w, page, server, since), Shown(w, page, since), Verified(w, server, since)
    PROVE  IInv'
BY DEF IInv, TypeOK, Begun, Loaded, Shown, Verified, Agreed, Testhuset

\* The worker ends, and does not say that all is well.
LEMMA EndSafe ==
    ASSUME IInv, NEW o \in Outcomes \ {"none", "verified"}, End(o),
           o = "cancelled" => worker.wrote = {},
           UNCHANGED <<portal, work, generation, since>>,
           server' \in [Row -> Hours], page' \in [Row -> Hours]
    PROVE  IInv'
<1>1. worker \in WorkerRec
  BY DEF IInv, TypeOK
<1>2. /\ worker' \in WorkerRec /\ worker'.at = "ended" /\ worker'.outcome = o
      /\ worker'.wrote = worker.wrote
  BY <1>1 DEF End, WorkerRec, Step, Outcomes
<1>3. TypeOK'
  BY <1>2 DEF IInv, TypeOK
<1>4. Begun(worker')
  BY <1>2 DEF Begun
<1> QED
  BY <1>2, <1>3, <1>4 DEF IInv, Begun, Loaded, Shown, Verified

\* The worker goes on to a step before the fill.
LEMMA GoSafe ==
    ASSUME IInv, NEW s \in {"open", "preview", "rescan", "recheck"}, Go(s),
           s \in {"open", "preview"} => ~worker.confirmed,
           s \in {"rescan", "recheck"} => worker.confirmed,
           worker.at \in {"closed", "open", "review", "rescan"},
           s \in {"rescan", "recheck"} => worker.at \in {"review", "rescan"},
           UNCHANGED <<portal, work, generation, server, since>>, page' \in [Row -> Hours],
           Testhuset /\ s = "recheck" => page' = server
    PROVE  IInv'
<1>1. worker \in WorkerRec /\ Begun(worker)
  BY DEF IInv, TypeOK
<1>2. /\ worker' \in WorkerRec /\ worker'.at = s /\ worker'.outcome = worker.outcome
      /\ worker'.wrote = worker.wrote /\ worker'.confirmed = worker.confirmed
      /\ worker'.todo = worker.todo /\ worker'.review = worker.review
  BY <1>1 DEF Go, WorkerRec, Step
<1>3. TypeOK'
  BY <1>2 DEF IInv, TypeOK
<1>4. worker.outcome = "none" /\ worker.wrote = {}
  BY <1>1 DEF Begun
<1>5. Begun(worker')
  BY <1>1, <1>2, <1>4 DEF Begun
<1>6. Loaded(worker', page', server', since')
  BY <1>2 DEF Loaded, Testhuset
<1> QED
  BY <1>2, <1>3, <1>4, <1>5, <1>6 DEF IInv, Begun, Loaded, Shown, Verified, Testhuset


----------------------------------------------------------------------------
\* The steps.

LEMMA ScanOnlySafe ==
    ASSUME IInv, ScanOnly
    PROVE  IInv'
<1>1. At("closed") /\ UNCHANGED <<portal, work, generation, server, worker, since>>
  BY DEF ScanOnly, diary
<1>2. page' \in [Row -> Hours]
  BY DEF ScanOnly, Scan, ScanTesthuset, ScanDsb, IInv, TypeOK
<1>3. worker.outcome = "none"
  BY <1>1 DEF IInv, Begun, At
<1> QED
  BY <1>1, <1>2, <1>3 DEF IInv, TypeOK, Begun, Loaded, Shown, Verified, At, Testhuset

LEMMA OpenSafe ==
    ASSUME IInv, Open \/ OpenTesthuset \/ OpenDsb
    PROVE  IInv'
<1>1. worker.at \in {"closed", "open"} /\ (Go("open") \/ Go("preview"))
  BY DEF Open, OpenTesthuset, OpenDsb, At
<1>2. UNCHANGED <<portal, work, generation, server, page, since>>
  BY DEF Open, OpenTesthuset, OpenDsb, diary
<1>3. ~worker.confirmed /\ page' \in [Row -> Hours]
  BY <1>1, <1>2 DEF IInv, Begun, TypeOK
<1> QED
  BY <1>1, <1>2, <1>3, GoSafe

LEMMA FailSafe ==
    ASSUME IInv, BrowserFails \/ FailEarly
    PROVE  IInv'
<1>1. End("unchanged") \/ End("failed")
  BY DEF BrowserFails, FailEarly
<1>2. UNCHANGED <<portal, work, generation, server, since>> /\ page' \in {page, server}
  BY DEF BrowserFails, FailEarly, ScanTesthuset, diary
<1>3. server' \in [Row -> Hours] /\ page' \in [Row -> Hours]
  BY <1>2 DEF IInv, TypeOK
<1> QED
  BY <1>1, <1>2, <1>3, EndSafe DEF Outcomes

LEMMA PreviewSafe ==
    ASSUME IInv, PreviewTesthuset \/ PreviewDsb
    PROVE  IInv'
<1>1. /\ worker.at = "preview" /\ worker' = [worker EXCEPT !.at = "review", !.review = Review(server)]
      /\ UNCHANGED <<portal, work, generation, server, since>> /\ page' = server
  BY DEF PreviewTesthuset, PreviewDsb, ScanTesthuset, At, diary
<1>2. worker \in WorkerRec /\ Begun(worker) /\ Review(server) \in ReviewRec
  BY ReviewTyped DEF IInv, TypeOK
<1>3. /\ worker' \in WorkerRec /\ worker'.at = "review" /\ worker'.wrote = worker.wrote
      /\ worker'.confirmed = worker.confirmed /\ worker'.outcome = worker.outcome
  BY <1>1, <1>2 DEF WorkerRec, Step
<1>4. ~worker.confirmed /\ worker.wrote = {} /\ worker.outcome = "none"
  BY <1>1, <1>2 DEF Begun
<1>5. TypeOK'
  BY <1>1, <1>3 DEF IInv, TypeOK
<1> QED
  BY <1>3, <1>4, <1>5 DEF IInv, Begun, Loaded, Shown, Verified

LEMMA ConfirmSafe ==
    ASSUME IInv, Confirm
    PROVE  IInv'
<1>1. PICK replace \in Choices :
        worker' = [worker EXCEPT !.confirmed = TRUE, !.replace = replace, !.todo = worker.review.rows]
  BY DEF Confirm
<1>2. worker \in WorkerRec /\ Begun(worker) /\ worker.at = "review"
  BY DEF IInv, TypeOK, Confirm, CanFill, At
<1>3. replace \subseteq Row /\ worker.review.rows \subseteq Row
  BY <1>2 DEF Choices, Differing, WorkerRec, ReviewRec
<1>4. /\ worker' \in WorkerRec /\ worker'.at = "review" /\ worker'.wrote = worker.wrote
      /\ worker'.confirmed /\ worker'.todo = worker.review.rows /\ worker'.review = worker.review
      /\ worker'.outcome = worker.outcome
  BY <1>1, <1>2, <1>3 DEF WorkerRec
<1>5. UNCHANGED <<portal, work, generation, server, page>> /\ since' = {}
  BY DEF Confirm, diary
<1>6. worker.outcome = "none" /\ worker.wrote = {}
  BY <1>2 DEF Begun
<1>7. TypeOK'
  BY <1>4, <1>5 DEF IInv, TypeOK
<1> QED
  BY <1>4, <1>6, <1>7 DEF IInv, Begun, Loaded, Shown, Verified

LEMMA CancelSafe ==
    ASSUME IInv, Cancel
    PROVE  IInv'
<1>1. PICK w : w = worker'
  OBVIOUS
<1>2. worker \in WorkerRec
  BY DEF IInv, TypeOK
<1>3. /\ w \in WorkerRec /\ w.at = worker.at /\ w.review = worker.review /\ w.replace = worker.replace
      /\ w.todo = worker.todo /\ w.wrote = worker.wrote /\ w.confirmed = worker.confirmed
      /\ w.outcome = worker.outcome
  BY <1>1, <1>2 DEF Cancel, WorkerRec
<1>4. UNCHANGED <<portal, work, generation, server, page, since>>
  BY DEF Cancel, diary
<1>5. Begun(w) /\ Loaded(w, page, server, since) /\ Shown(w, page, since) /\ Verified(w, server, since)
  BY <1>3 DEF IInv, Begun, Loaded, Shown, Verified, Agreed
<1> QED
  BY <1>1, <1>3, <1>4, <1>5, WorkerOnly

LEMMA DecideSafe ==
    ASSUME IInv, Decide
    PROVE  IInv'
<1>1. worker.at = "review" /\ UNCHANGED <<portal, work, generation, server, page, since>>
  BY DEF Decide, At, diary
<1>2. server' \in [Row -> Hours] /\ page' \in [Row -> Hours] /\ worker.wrote = {}
  BY <1>1 DEF IInv, TypeOK, Begun
<1>3. CASE worker.cancelled
  <2>1. End("cancelled")
    BY <1>3 DEF Decide
  <2> QED
    BY <1>1, <1>2, <2>1, EndSafe DEF Outcomes
<1>4. CASE ~worker.cancelled
  <2>1. worker.confirmed /\ ((Testhuset /\ Go("rescan")) \/ (~Testhuset /\ Go("recheck")))
    BY <1>4 DEF Decide
  <2> QED
    BY <1>1, <1>2, <2>1, GoSafe
<1> QED
  BY <1>3, <1>4

LEMMA RescanSafe ==
    ASSUME IInv, Rescan
    PROVE  IInv'
<1>1. /\ worker.at = "rescan" /\ Go("recheck") /\ page' = server
      /\ UNCHANGED <<portal, work, generation, server, since>>
  BY DEF Rescan, ScanTesthuset, At, diary
<1>2. worker.confirmed /\ page' \in [Row -> Hours]
  BY <1>1 DEF IInv, Begun, TypeOK
<1> QED
  BY <1>1, <1>2, GoSafe

\* The fill begins with a page that shows what was reviewed.
LEMMA RecheckSafe ==
    ASSUME IInv, RecheckTesthuset \/ RecheckDsb
    PROVE  IInv'
<1>1. /\ worker.at = "recheck" /\ Go("fill") /\ PageAsReviewed
      /\ UNCHANGED <<portal, work, generation, server, page, since>>
  BY DEF RecheckTesthuset, RecheckDsb, At, diary
<1>2. worker \in WorkerRec /\ Begun(worker)
  BY DEF IInv, TypeOK
<1>3. PICK w : w = worker'
  OBVIOUS
<1>4. /\ w \in WorkerRec /\ w.at = "fill" /\ w.review = worker.review /\ w.replace = worker.replace
      /\ w.todo = worker.todo /\ w.wrote = worker.wrote /\ w.confirmed = worker.confirmed
      /\ w.outcome = worker.outcome
  BY <1>1, <1>2, <1>3 DEF Go, WorkerRec, Step
<1>5. worker.todo = worker.review.rows /\ worker.confirmed /\ worker.outcome = "none"
  BY <1>1, <1>2 DEF Begun
<1>6. Begun(w) /\ Verified(w, server, since)
  BY <1>4, <1>5 DEF Begun, Verified
<1>7. Shown(w, page, since)
  BY <1>1, <1>4, <1>5 DEF Shown, Agreed, PageAsReviewed
<1>8. Loaded(w, page, server, since)
  BY <1>1, <1>4 DEF IInv, Loaded
<1> QED
  BY <1>1, <1>3, <1>4, <1>6, <1>7, <1>8, WorkerOnly



LEMMA SkipSafe ==
    ASSUME IInv, NEW r \in Row, Skip(r)
    PROVE  IInv'
<1>1. PICK w : w = worker'
  OBVIOUS
<1>2. worker \in WorkerRec /\ Begun(worker) /\ worker.at = "fill" /\ r \in worker.todo \ worker.replace
  BY DEF IInv, TypeOK, Skip, At
<1>3. /\ w \in WorkerRec /\ w.at = "fill" /\ w.review = worker.review /\ w.replace = worker.replace
      /\ w.todo = worker.todo \ {r} /\ w.wrote = worker.wrote /\ w.confirmed = worker.confirmed
      /\ w.outcome = worker.outcome
  BY <1>1, <1>2 DEF Skip, Without, WorkerRec
<1>4. UNCHANGED <<portal, work, generation, server, page, since>>
  BY DEF Skip, diary
<1>5. worker.outcome = "none"
  BY <1>2 DEF Begun
<1>6. Begun(w) /\ Verified(w, server, since)
  BY <1>2, <1>3, <1>5 DEF Begun, Verified
<1>7. Shown(w, page, since)
  BY <1>2, <1>3 DEF IInv, Shown, Agreed
<1>8. Loaded(w, page, server, since)
  BY <1>2, <1>3 DEF IInv, Loaded
<1> QED
  BY <1>1, <1>3, <1>4, <1>6, <1>7, <1>8, WorkerOnly

LEMMA RefuseSafe ==
    ASSUME IInv, NEW r \in Row, RefuseTesthuset(r) \/ RefuseDsb(r)
    PROVE  IInv'
<1>1. End("stopped") /\ UNCHANGED <<portal, work, generation, server, page, since>>
  BY DEF RefuseTesthuset, RefuseDsb, diary
<1>2. server' \in [Row -> Hours] /\ page' \in [Row -> Hours]
  BY <1>1 DEF IInv, TypeOK
<1> QED
  BY <1>1, <1>2, EndSafe DEF Outcomes

LEMMA StoredTyped ==
    ASSUME IInv, NEW r \in Row, NEW hours \in [Row -> Hours]
    PROVE  /\ Stored(hours, r) \in [Row -> Hours]
           /\ Stored(hours, r)[r] = worker.review.proposed[r]
           /\ \A o \in Row \ {r} : Stored(hours, r)[o] = hours[o]
<1>1. worker.review.proposed[r] \in Hours
  BY DEF IInv, TypeOK, WorkerRec, ReviewRec
<1> QED
  BY <1>1 DEF Stored

\* A row is written, and the page shows what was agreed for it.
LEMMA WriteSafe ==
    ASSUME IInv, NEW r \in Row, WriteTesthuset(r) \/ WriteDsb(r)
    PROVE  IInv'
<1>1. PICK w : w = worker'
  OBVIOUS
<1>2. /\ worker \in WorkerRec /\ Begun(worker) /\ worker.at = "fill"
      /\ r \in worker.todo /\ r \in worker.replace
  BY DEF IInv, TypeOK, WriteTesthuset, WriteDsb, Writable, Filling, At
<1>3. PICK u : u = Without(r)
  OBVIOUS
<1>4. /\ u \in WorkerRec /\ u.at = worker.at /\ u.review = worker.review /\ u.replace = worker.replace
      /\ u.todo = worker.todo \ {r} /\ u.wrote = worker.wrote
      /\ u.confirmed = worker.confirmed /\ u.outcome = worker.outcome
  BY <1>2, <1>3 DEF Without, WorkerRec
<1>5. w = [u EXCEPT !.wrote = u.wrote \cup {r}]
  BY <1>1, <1>3 DEF WriteTesthuset, WriteDsb
<1>6. /\ w \in WorkerRec /\ w.at = "fill" /\ w.review = worker.review /\ w.replace = worker.replace
      /\ w.todo = worker.todo \ {r} /\ w.wrote = worker.wrote \cup {r}
      /\ w.confirmed = worker.confirmed /\ w.outcome = worker.outcome
  <2>1. u.wrote \cup {r} \in SUBSET Row
    BY <1>4 DEF WorkerRec
  <2> QED
    BY <1>2, <1>4, <1>5, <2>1 DEF WorkerRec
<1>7. UNCHANGED <<portal, work, generation, since>>
  BY DEF WriteTesthuset, WriteDsb, diary
<1>8. /\ page' = Stored(page, r)
      /\ server' = IF Testhuset THEN Stored(server, r) ELSE server
  BY DEF WriteTesthuset, WriteDsb
<1>9. page \in [Row -> Hours] /\ server \in [Row -> Hours]
  BY DEF IInv, TypeOK
<1>10. page' \in [Row -> Hours] /\ server' \in [Row -> Hours]
  BY <1>8, <1>9, StoredTyped
<1>11. /\ page'[r] = worker.review.proposed[r]
       /\ \A o \in Row \ {r} : page'[o] = page[o]
  BY <1>8, <1>9, StoredTyped
<1>12. Testhuset => /\ server'[r] = worker.review.proposed[r]
                    /\ \A o \in Row \ {r} : server'[o] = server[o]
  BY <1>8, <1>9, StoredTyped
<1>13. worker.outcome = "none"
  BY <1>2 DEF Begun
<1>14. TypeOK'
  BY <1>1, <1>6, <1>7, <1>10 DEF IInv, TypeOK
<1>15. Begun(w) /\ Verified(w, server', since)
  BY <1>2, <1>6, <1>13 DEF Begun, Verified
<1>16. Shown(w, page', since)
  <2> SUFFICES ASSUME NEW o \in worker.review.rows \ since
               PROVE  page'[o] = Agreed(w, o)
    BY <1>6 DEF Shown
  <2>1. o \in Row /\ page[o] = Agreed(worker, o)
    BY <1>2 DEF IInv, Shown, WorkerRec, ReviewRec
  <2>2. CASE o = r
    BY <2>2, <1>2, <1>6, <1>11 DEF Agreed
  <2>3. CASE o # r
    BY <2>1, <2>3, <1>6, <1>11 DEF Agreed
  <2> QED
    BY <2>2, <2>3
<1>17. Loaded(w, page', server', since)
  BY <1>2, <1>6, <1>11, <1>12 DEF IInv, Loaded
<1>18. Testhuset' = Testhuset
  BY <1>7 DEF Testhuset
<1> QED
  BY <1>1, <1>7, <1>14, <1>15, <1>16, <1>17, <1>18 DEF IInv, Begun, Loaded, Shown, Verified, Agreed


\* A write that nobody confirmed ends the fill.
LEMMA WriteDoubtfulSafe ==
    ASSUME IInv, NEW r \in Row, WriteUnconfirmed(r) \/ WriteNotShown(r)
    PROVE  IInv'
<1>1. PICK w : w = worker'
  OBVIOUS
<1>2. /\ worker \in WorkerRec /\ page \in [Row -> Hours] /\ server \in [Row -> Hours]
      /\ worker.confirmed
  BY DEF IInv, TypeOK, Begun, WriteUnconfirmed, WriteNotShown, Writable, Filling, At
<1>3. /\ w \in WorkerRec /\ w.at = "ended"
      /\ w.outcome \in {"stopped", "unchanged"} /\ w.confirmed
  <2>1. PICK o \in {"stopped", "unchanged"} :
          w = [worker EXCEPT !.at = "ended", !.outcome = o, !.wrote = worker.wrote \cup {r}]
    BY <1>1 DEF WriteUnconfirmed, WriteNotShown
  <2>2. PICK W \in SUBSET Row : W = worker.wrote \cup {r}
    BY <1>2 DEF WorkerRec
  <2> QED
    BY <1>2, <2>1, <2>2 DEF WorkerRec, Step, Outcomes
<1>4. /\ page' \in {page, Stored(page, r)} /\ server' \in {server, Stored(server, r)}
      /\ UNCHANGED <<portal, work, generation, since>>
  BY DEF WriteUnconfirmed, WriteNotShown, diary
<1>5. page' \in [Row -> Hours] /\ server' \in [Row -> Hours]
  BY <1>2, <1>4, StoredTyped
<1>6. TypeOK'
  BY <1>1, <1>3, <1>4, <1>5 DEF IInv, TypeOK
<1> QED
  BY <1>1, <1>3, <1>6 DEF IInv, Begun, Loaded, Shown, Verified

\* The fill is reported as verified.
LEMMA FinishSafe ==
    ASSUME IInv, Finish
    PROVE  IInv'
<1>1. PICK w : w = worker'
  OBVIOUS
<1>2. /\ worker \in WorkerRec /\ worker.at = "fill" /\ worker.todo = {} /\ End("verified")
      /\ Testhuset \/ worker.wrote = {}
  BY DEF IInv, TypeOK, Finish, At
<1>3. /\ w \in WorkerRec /\ w.at = "ended" /\ w.outcome = "verified" /\ w.review = worker.review
      /\ w.replace = worker.replace /\ w.todo = {} /\ w.wrote = worker.wrote
      /\ w.confirmed = worker.confirmed
  BY <1>1, <1>2 DEF End, WorkerRec, Step, Outcomes
<1>4. UNCHANGED <<portal, work, generation, server, page, since>>
  BY DEF Finish, diary
<1>5. Verified(w, server, since)
  <2> SUFFICES ASSUME Testhuset, NEW r \in worker.review.rows \ since
               PROVE  server[r] = Agreed(w, r)
    BY <1>2, <1>3 DEF Verified
  <2>1. r \in Row /\ page[r] = Agreed(worker, r)
    BY <1>2 DEF IInv, Shown, WorkerRec, ReviewRec
  <2>2. page[r] = server[r]
    BY <1>2, <2>1 DEF IInv, Loaded
  <2> QED
    BY <1>2, <1>3, <2>1, <2>2 DEF Agreed
<1>6. Begun(w) /\ Loaded(w, page, server, since) /\ Shown(w, page, since)
  BY <1>3 DEF Begun, Loaded, Shown
<1> QED
  BY <1>1, <1>3, <1>4, <1>5, <1>6, WorkerOnly

\* DSB stores what the page shows.
LEMMA SendSafe ==
    ASSUME IInv, Send
    PROVE  IInv'
<1>1. PICK w : w = worker'
  OBVIOUS
<1>2. /\ worker \in WorkerRec /\ worker.at = "fill" /\ worker.todo = {} /\ End("verified")
      /\ ~Testhuset /\ page \in [Row -> Hours]
  BY DEF IInv, TypeOK, Send, Sending, At
<1>3. /\ w \in WorkerRec /\ w.at = "ended" /\ w.outcome = "verified" /\ w.review = worker.review
      /\ w.replace = worker.replace /\ w.todo = {} /\ w.wrote = worker.wrote
      /\ w.confirmed = worker.confirmed
  BY <1>1, <1>2 DEF End, WorkerRec, Step, Outcomes
<1>4. server' = page /\ UNCHANGED <<portal, work, generation, page, since>>
  BY DEF Send, diary
<1>5. Verified(w, page, since)
  BY <1>2, <1>3 DEF IInv, Shown, Verified, Agreed
<1>6. TypeOK'
  BY <1>1, <1>2, <1>3, <1>4 DEF IInv, TypeOK
<1> QED
  BY <1>1, <1>3, <1>4, <1>5, <1>6 DEF IInv, Begun, Loaded, Shown, Verified, Agreed, Testhuset

LEMMA StopSafe ==
    ASSUME IInv, SendUnconfirmed \/ Stop
    PROVE  IInv'
<1>1. /\ End("stopped") \/ End("unchanged")
      /\ server' \in {server, page} /\ UNCHANGED <<portal, work, generation, page, since>>
  BY DEF SendUnconfirmed, Stop, diary
<1>2. server' \in [Row -> Hours] /\ page' \in [Row -> Hours]
  BY <1>1 DEF IInv, TypeOK
<1> QED
  BY <1>1, <1>2, EndSafe DEF Outcomes

LEMMA ClosedTyped == Closed \in WorkerRec
BY HoursTyped DEF Closed, NoReview, WorkerRec, ReviewRec, Step, Outcomes

LEMMA CloseSafe ==
    ASSUME IInv, Close
    PROVE  IInv'
<1>1. UNCHANGED <<portal, work, generation, server, page, since>> /\ worker' = Closed
  BY DEF Close, diary
<1>2. PICK w : w = Closed
  OBVIOUS
<1>3. /\ w \in WorkerRec /\ w.at = "closed" /\ w.outcome = "none" /\ w.wrote = {}
      /\ ~w.confirmed
  BY <1>2, ClosedTyped DEF Closed
<1>4. Begun(w) /\ Loaded(w, page, server, since) /\ Shown(w, page, since) /\ Verified(w, server, since)
  BY <1>3 DEF Begun, Loaded, Shown, Verified
<1> QED
  BY <1>1, <1>2, <1>3, <1>4, WorkerOnly


\* Changes made outside the worker: a row that another hand touched is in since.
LEMMA DiarySafe ==
    ASSUME IInv, UNCHANGED <<portal, server, page, worker, since>>,
           work' \in [Session -> Row \cup {None}], generation' \in Nat
    PROVE  IInv'
BY DEF IInv, TypeOK, Loaded, Shown, Verified, Begun, Agreed, Testhuset

LEMMA OwnerSafe ==
    ASSUME IInv, NEW s \in Session, NEW r \in Row, Record(s, r) \/ Assign(s, r)
    PROVE  IInv'
<1>1. UNCHANGED <<portal, server, page, worker, since, generation>>
  BY DEF Record, Assign
<1>2. work \in [Session -> Row \cup {None}] /\ generation \in Nat
  BY DEF IInv, TypeOK
<1>3. work' \in [Session -> Row \cup {None}]
  BY <1>2 DEF Record, Assign
<1> QED
  BY <1>1, <1>2, <1>3, DiarySafe

LEMMA IncludeSafe ==
    ASSUME IInv, NEW S \in SUBSET Session, Include(S)
    PROVE  IInv'
<1>1. UNCHANGED <<portal, server, page, worker, since, work>> /\ generation' = generation + 1
  BY DEF Include
<1>2. work \in [Session -> Row \cup {None}] /\ generation \in Nat
  BY DEF IInv, TypeOK
<1> QED
  BY <1>1, <1>2, DiarySafe

LEMMA OfferSafe ==
    ASSUME IInv, NEW rows \in SUBSET Row, OfferRows(rows)
    PROVE  IInv'
<1>1. UNCHANGED <<portal, server, page, worker, since, work, generation>>
  BY DEF OfferRows, diary
<1>2. work \in [Session -> Row \cup {None}] /\ generation \in Nat
  BY DEF IInv, TypeOK
<1> QED
  BY <1>1, <1>2, DiarySafe

LEMMA ChangeAtPortalSafe ==
    ASSUME IInv, NEW r \in Row, NEW h \in Hours, ChangeAtPortal(r, h)
    PROVE  IInv'
<1>1. /\ UNCHANGED <<portal, work, generation, page, worker>>
      /\ server' = [server EXCEPT ![r] = h] /\ since' = since \cup {r}
  BY DEF ChangeAtPortal, diary
<1>2. server \in [Row -> Hours] /\ since \subseteq Row
  BY DEF IInv, TypeOK
<1>3. server' \in [Row -> Hours] /\ \A o \in Row \ {r} : server'[o] = server[o]
  BY <1>1, <1>2
<1>4. TypeOK'
  BY <1>1, <1>2, <1>3 DEF IInv, TypeOK
<1>5. worker.review.rows \subseteq Row
  BY DEF IInv, TypeOK, WorkerRec, ReviewRec
<1>6. Loaded(worker, page, server', since')
  BY <1>1, <1>3 DEF IInv, Loaded
<1>7. Shown(worker, page, since') /\ Verified(worker, server', since')
  BY <1>1, <1>3, <1>5 DEF IInv, Shown, Verified
<1> QED
  BY <1>1, <1>4, <1>6, <1>7 DEF IInv, Loaded, Shown, Verified, Begun, Agreed, Testhuset

LEMMA TypeIntoPageSafe ==
    ASSUME IInv, NEW r \in Row, NEW h \in Hours, TypeIntoPage(r, h)
    PROVE  IInv'
<1>1. /\ UNCHANGED <<portal, work, generation, worker>>
      /\ page' = [page EXCEPT ![r] = h] /\ since' = since \cup {r}
      /\ server' = IF Testhuset THEN [server EXCEPT ![r] = h] ELSE server
      /\ worker.at \notin {"closed", "open", "preview", "ended"}
  BY DEF TypeIntoPage, diary
<1>2. server \in [Row -> Hours] /\ page \in [Row -> Hours] /\ since \subseteq Row
  BY DEF IInv, TypeOK
<1>3. /\ server' \in [Row -> Hours] /\ page' \in [Row -> Hours]
      /\ \A o \in Row \ {r} : server'[o] = server[o] /\ page'[o] = page[o]
  BY <1>1, <1>2
<1>4. TypeOK'
  BY <1>1, <1>2, <1>3 DEF IInv, TypeOK
<1>5. worker.review.rows \subseteq Row /\ worker.outcome = "none"
  BY <1>1 DEF IInv, TypeOK, WorkerRec, ReviewRec, Begun
<1>6. Loaded(worker, page', server', since')
  BY <1>1, <1>3 DEF IInv, Loaded
<1>7. Shown(worker, page', since') /\ Verified(worker, server', since')
  BY <1>1, <1>3, <1>5 DEF IInv, Shown, Verified
<1> QED
  BY <1>1, <1>4, <1>6, <1>7 DEF IInv, Loaded, Shown, Verified, Begun, Agreed, Testhuset



----------------------------------------------------------------------------
\* What the specification guarantees.

LEMMA InitSafe ==
    ASSUME Init
    PROVE  IInv
<1>1. worker = Closed /\ server = [r \in Row |-> 0] /\ page = server /\ since = {}
  BY DEF Init
<1>2. TypeOK
  <2>1. portal \in {"testhuset", "dsb"} /\ work \in [Session -> Row \cup {None}] /\ generation \in Nat
    BY DEF Init
  <2> QED
    BY <1>1, <2>1, ClosedTyped, HoursTyped DEF TypeOK
<1>3. Closed.at = "closed" /\ Closed.outcome = "none" /\ Closed.wrote = {} /\ ~Closed.confirmed
  BY DEF Closed
<1> QED
  BY <1>1, <1>2, <1>3 DEF IInv, Begun, Loaded, Shown, Verified

LEMMA NextSafe ==
    ASSUME IInv, Next
    PROVE  IInv'
<1>1. CASE Open \/ ScanOnly \/ Confirm \/ Cancel \/ Close
  BY <1>1, OpenSafe, ScanOnlySafe, ConfirmSafe, CancelSafe, CloseSafe
<1>2. CASE Worker
  <2>1. CASE \E r \in Row : Fill(r)
    BY <2>1, SkipSafe, RefuseSafe, WriteSafe, WriteDoubtfulSafe DEF Fill
  <2>2. CASE ~\E r \in Row : Fill(r)
    BY <1>2, <2>2, OpenSafe, FailSafe, PreviewSafe, DecideSafe, RescanSafe, RecheckSafe, FinishSafe,
       SendSafe, StopSafe DEF Worker
  <2> QED
    BY <2>1, <2>2
<1>3. CASE \E s \in Session, r \in Row : Record(s, r) \/ Assign(s, r)
  BY <1>3, OwnerSafe
<1>4. CASE \E S \in SUBSET Session : Include(S)
  BY <1>4, IncludeSafe
<1>5. CASE \E r \in Row, h \in Hours : ChangeAtPortal(r, h) \/ TypeIntoPage(r, h)
  BY <1>5, ChangeAtPortalSafe, TypeIntoPageSafe
<1>6. CASE \E rows \in SUBSET Row : OfferRows(rows)
  BY <1>6, OfferSafe
<1> QED
  BY <1>1, <1>2, <1>3, <1>4, <1>5, <1>6 DEF Next

LEMMA StutterSafe ==
    ASSUME IInv, UNCHANGED vars
    PROVE  IInv'
BY DEF vars, diary, IInv, TypeOK, Begun, Loaded, Shown, Verified, Agreed, Testhuset

LEMMA IInvHolds == Spec => []IInv
<1>1. Init => IInv
  BY InitSafe
<1>2. IInv /\ [Next]_vars => IInv'
  BY NextSafe, StutterSafe
<1> QED
  BY <1>1, <1>2, PTL DEF Spec

\* However the click on Fill and the cancellation met, a fill that reports itself
\* cancelled has written no row (TesthusetWorker.run).
THEOREM CancelledUntouched == Spec => []CancelledMeansUntouched
<1>1. IInv => CancelledMeansUntouched
  BY DEF IInv, Begun, CancelledMeansUntouched
<1> QED
  BY <1>1, IInvHolds, PTL

\* A fill that reports itself verified left the agreed hours at the portal, in every
\* row of the review that nobody else touched (fill, commit_verified).
THEOREM VerifiedAgreed == Spec => []VerifiedMeansAgreed
<1>1. ASSUME IInv PROVE VerifiedMeansAgreed
  BY <1>1 DEF IInv, Verified, Agreed, VerifiedMeansAgreed
<1> QED
  BY <1>1, IInvHolds, PTL

\* No write of Testhuset replaces hours that neither the review showed nor anyone
\* changed after the fill was confirmed (fill, scan).
THEOREM NoneBlindlyOverwritten == Spec => NoBlindOverwrite
<1> DEFINE Seen == At("fill") /\ worker' # worker /\ Testhuset =>
                     \A r \in Row \ since :
                         server'[r] # server[r] => server[r] = worker.review.existing[r]
<1>1. ASSUME IInv, [Next]_vars
      PROVE  [Seen]_vars
  <2> SUFFICES ASSUME worker.at = "fill", worker' # worker, Testhuset,
                      NEW r \in Row \ since, server'[r] # server[r]
               PROVE  server[r] = worker.review.existing[r]
    BY DEF At
  <2>1. Next
    BY <1>1 DEF vars
  <2>2. CASE \E o \in Row : WriteTesthuset(o) \/ WriteDsb(o) \/ WriteUnconfirmed(o) \/ WriteNotShown(o)
    <3>1. PICK o \in Row : WriteTesthuset(o) \/ WriteDsb(o) \/ WriteUnconfirmed(o) \/ WriteNotShown(o)
      BY <2>2
    <3>2. page[o] = worker.review.existing[o] /\ server' \in {server, Stored(server, o)}
      BY <3>1 DEF WriteTesthuset, WriteDsb, WriteUnconfirmed, WriteNotShown, Writable
    <3>3. server \in [Row -> Hours]
      BY <1>1 DEF IInv, TypeOK
    <3>4. r = o
      BY <1>1, <3>2, <3>3, StoredTyped
    <3>5. page[r] = server[r]
      BY <1>1 DEF IInv, Loaded
    <3> QED
      BY <3>2, <3>4, <3>5
  <2>3. CASE \E o \in Row : Skip(o) \/ RefuseTesthuset(o) \/ RefuseDsb(o)
    BY <2>3 DEF Skip, RefuseTesthuset, RefuseDsb
  <2>4. CASE Worker /\ ~\E o \in Row : Fill(o)
    BY <2>4 DEF Worker, OpenTesthuset, OpenDsb, PreviewTesthuset, PreviewDsb, BrowserFails, FailEarly,
       Decide, Rescan, RecheckTesthuset, RecheckDsb, Finish, Send, SendUnconfirmed, Sending, Stop
  <2>5. CASE Next /\ ~Worker
    BY <2>5 DEF Next, Open, ScanOnly, Confirm, Cancel, Close, Record, Assign, Include, ChangeAtPortal,
       TypeIntoPage, OfferRows
  <2> QED
    BY <2>1, <2>2, <2>3, <2>4, <2>5 DEF Worker, Fill
<1> QED
  BY <1>1, IInvHolds, PTL DEF Spec, NoBlindOverwrite
=============================================================================
