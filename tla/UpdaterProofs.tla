---------------------------- MODULE UpdaterProofs ----------------------------
(***************************************************************************)
(* The safety of an update for any number of failing file operations.      *)
(* That an installation survives is not inductive: the helper trusts what  *)
(* it remembers of the folders.  Knows says that this is still true in     *)
(* each step: it owns a recovery folder while it has to return to it,      *)
(* what it placed is in place, and an installation is in place whenever a  *)
(* removal begins.                                                         *)
(***************************************************************************)
EXTENDS Updater, TLAPS

Steps == {"ended", "wait", "find", "verify", "stage", "move", "place", "unmove", "launch",
          "watch", "clean", "failed", "restore", "putback", "putaside", "relaunch", "message"}

HelperOK ==
    /\ helper \in [at : Steps, recovery : BOOLEAN, placed : BOOLEAN, mine : BOOLEAN,
                   base : Folders, lived : BOOLEAN]

\* What the helper remembers is so.
Knows ==
    /\ helper.recovery => previous \in Versions
    /\ helper.mine => app # "nothing"
    /\ helper.at \in {"place", "unmove", "launch", "watch", "clean", "putback", "putaside"}
          => helper.recovery
    /\ helper.at \in {"verify", "stage", "move"} => install = helper.base /\ install # "nothing"
    /\ helper.placed /\ helper.at \in {"failed", "restore", "putback", "putaside"} => helper.recovery
    /\ helper.at \in {"wait", "find", "verify", "stage", "move", "place", "unmove"} => ~helper.placed
    /\ helper.placed /\ helper.at \in {"launch", "watch", "clean", "failed", "restore"}
          => install = "new"
    /\ helper.at \in {"launch", "watch"} => helper.placed
    /\ helper.at \in {"clean", "relaunch"} => install \in Versions
    /\ helper.at = "clean" => helper.lived
    /\ helper.at \in {"putback", "putaside"} => displaced # "rest"

\* Something may be left without an installation in place only after two failures
\* or a stop of the machine.
Lost == stopped \/ failures > 1
InPlace ==
    /\ helper.at \notin {"place", "unmove", "putback", "putaside"} => Lost \/ install \in Versions
    /\ helper.at = "unmove" => failures > 0 \/ install \in Versions
    /\ helper.at \in {"putback", "putaside"} =>
          Lost \/ displaced \in Versions \/ install \in Versions
    /\ helper.at = "putaside" => failures > 0

\* The page of the update is open only while the application runs.
PageOK == page # "idle" => app # "nothing"

IInv == TypeOK /\ PageOK /\ HelperOK /\ Knows /\ AnInstallationSurvives /\ InPlace

(* What the helper remembers after a step. *)

LEMMA EndedFields ==
    /\ Ended.at = "ended" /\ Ended.recovery = FALSE /\ Ended.placed = FALSE
    /\ Ended.mine = FALSE /\ Ended.base = "nothing" /\ Ended.lived = FALSE
    /\ Ended \in [at : Steps, recovery : BOOLEAN, placed : BOOLEAN, mine : BOOLEAN,
                  base : Folders, lived : BOOLEAN]
BY DEF Ended, Steps, Folders

LEMMA GoFields ==
    ASSUME HelperOK, NEW step \in Steps, Go(step)
    PROVE  /\ HelperOK' /\ helper'.at = step
           /\ helper'.recovery = helper.recovery /\ helper'.placed = helper.placed
           /\ helper'.mine = helper.mine /\ helper'.base = helper.base
           /\ helper'.lived = helper.lived
BY DEF HelperOK, Go

(* The application. *)

\* On its page nothing moves but the package.
LEMMA PageKeeps ==
    ASSUME IInv, \/ CheckForUpdates \/ Check \/ Answer \/ Download \/ Prepare \/ Approve
    PROVE  IInv'
<1>1. UNCHANGED <<install, previous, displaced, app, helper, failures, stopped>>
  BY DEF CheckForUpdates, Check, Answer, Download, Prepare, Approve, folders
<1>2. archive' \in {"nothing", "part", "whole"}
  BY DEF IInv, TypeOK, CheckForUpdates, Check, Answer, Download, Prepare, Approve
<1>3. PageOK'
  BY DEF IInv, PageOK, CheckForUpdates, Check, Answer, Download, Prepare, Approve
<1> QED
  BY <1>1, <1>2, <1>3 DEF IInv, TypeOK, HelperOK, Knows, AnInstallationSurvives, InPlace, Lost

LEMMA StartKeeps == IInv /\ Start => IInv'
BY DEF IInv, TypeOK, PageOK, HelperOK, Knows, AnInstallationSurvives, InPlace, Lost,
   Start, Versions, Folders, folders

LEMMA AppEndsKeeps ==
    ASSUME IInv, AppEnds
    PROVE  IInv'
<1>1. /\ HelperOK' /\ helper'.at = helper.at
      /\ helper'.recovery = helper.recovery /\ helper'.placed = helper.placed
      /\ helper'.mine = FALSE /\ helper'.base = helper.base /\ helper'.lived = helper.lived
  BY DEF IInv, HelperOK, AppEnds
<1>2. app' = "nothing" /\ UNCHANGED <<install, previous, displaced, archive, failures, stopped>>
  BY DEF AppEnds, folders
<1>3. TypeOK' /\ AnInstallationSurvives'
  BY <1>2 DEF IInv, TypeOK, AnInstallationSurvives, Versions, Folders
<1>5. PageOK'
  BY DEF PageOK, AppEnds
<1>4. Knows' /\ InPlace'
  BY <1>1, <1>2 DEF IInv, Knows, InPlace, Lost
<1> QED
  BY <1>1, <1>3, <1>4, <1>5 DEF IInv

\* A helper is started while the application runs, so that it finds an installation.
LEMMA LeaveKeeps ==
    ASSUME IInv, Leave
    PROVE  IInv'
<1>1. /\ HelperOK' /\ helper'.at = "wait" /\ helper'.recovery = FALSE
      /\ helper'.placed = FALSE /\ helper'.mine = FALSE
  BY EndedFields DEF Leave, Ended, HelperOK, Steps
<1>2. UNCHANGED <<install, previous, displaced, archive, app, failures, stopped>>
  BY DEF Leave, folders
<1>3. app # "nothing"
  BY DEF IInv, PageOK, Leave
<1>4. TypeOK' /\ PageOK' /\ AnInstallationSurvives'
  BY <1>2, <1>3 DEF IInv, TypeOK, PageOK, AnInstallationSurvives
<1>5. Knows' /\ InPlace'
  BY <1>1, <1>2, <1>3 DEF IInv, TypeOK, Knows, InPlace, Lost
<1> QED
  BY <1>1, <1>4, <1>5 DEF IInv

(* The helper. *)

\* A step that leaves the folders alone and goes on, or gives up, or fails on the way.
LEMMA QuietSteps ==
    ASSUME IInv, Wait \/ Verify \/ Stage
    PROVE  IInv'
<1>1. PICK step \in Steps : Go(step) /\ helper.at \in {"wait", "verify", "stage"}
                            /\ step \in {"find", "stage", "move", "failed"}
                            /\ (step \in {"stage", "move"} => helper.at \in {"verify", "stage"})
  BY DEF Wait, Verify, Stage, At, Steps
<1>2. /\ HelperOK' /\ helper'.at = step
      /\ helper'.recovery = helper.recovery /\ helper'.placed = helper.placed
      /\ helper'.mine = helper.mine /\ helper'.base = helper.base
  BY <1>1, GoFields DEF IInv
<1>3. UNCHANGED <<install, previous, displaced, archive, app, page, stopped>>
  BY DEF Wait, Verify, Stage, folders, program
<1>4. failures' \in 0..MaxFailures /\ failures' >= failures
  BY UpdaterAssumption DEF Wait, Verify, Stage, Failure, IInv, TypeOK
<1>5. TypeOK' /\ PageOK' /\ AnInstallationSurvives'
  BY <1>3, <1>4 DEF IInv, TypeOK, PageOK, AnInstallationSurvives
<1>6. Knows'
  BY <1>1, <1>2, <1>3 DEF IInv, Knows
<1>7. InPlace'
  <2>1. helper.at \notin {"place", "unmove", "putback", "putaside"}
    BY <1>1
  <2>2. Lost' \/ install' \in Versions
    BY <2>1, <1>3, <1>4 DEF IInv, TypeOK, InPlace, Lost
  <2> QED
    BY <2>2, <1>1, <1>2 DEF InPlace
<1> QED
  BY <1>2, <1>5, <1>6, <1>7 DEF IInv

LEMMA FindKeeps ==
    ASSUME IInv, Find
    PROVE  IInv'
<1>1. /\ HelperOK'
      /\ helper'.at = IF install # "nothing" /\ previous = "nothing" THEN "verify" ELSE "failed"
      /\ helper'.recovery = helper.recovery /\ helper'.placed = helper.placed
      /\ helper'.mine = helper.mine /\ helper'.base = install
  BY DEF IInv, TypeOK, HelperOK, Find, Steps
<1>2. UNCHANGED <<install, previous, displaced, archive, app, page, failures, stopped>>
  BY DEF Find, folders, program
<1>3. TypeOK' /\ PageOK' /\ AnInstallationSurvives'
  BY <1>2 DEF IInv, TypeOK, PageOK, AnInstallationSurvives
<1>4. Knows' /\ InPlace'
  BY <1>1, <1>2 DEF IInv, Knows, InPlace, Lost, Find, At
<1> QED
  BY <1>1, <1>3, <1>4 DEF IInv

LEMMA MoveKeeps ==
    ASSUME IInv, Move
    PROVE  IInv'
<1>1. At("move") /\ UNCHANGED <<displaced, archive, app, page, stopped>>
  BY DEF Move, program
<1>2. CASE Movable /\ previous = "nothing" /\ previous' = install /\ install' = "nothing"
           /\ helper' = [helper EXCEPT !.at = "place", !.recovery = TRUE] /\ UNCHANGED failures
  <2>1. /\ HelperOK' /\ helper'.at = "place" /\ helper'.recovery = TRUE
        /\ helper'.placed = helper.placed /\ helper'.mine = helper.mine
    BY <1>2 DEF IInv, HelperOK, Steps
  <2>2. previous' \in Versions /\ app = "nothing"
    BY <1>2 DEF Movable
  <2>3. TypeOK' /\ PageOK' /\ AnInstallationSurvives'
    BY <1>1, <1>2, <2>2 DEF IInv, TypeOK, PageOK, AnInstallationSurvives, Versions, Folders
  <2>4. Knows' /\ InPlace'
    BY <1>1, <1>2, <2>1, <2>2 DEF IInv, Knows, InPlace, At
  <2> QED
    BY <2>1, <2>3, <2>4 DEF IInv
<1>3. CASE Go("failed") /\ UNCHANGED <<install, previous>> /\ (Failure \/ UNCHANGED failures)
  <2>1. /\ HelperOK' /\ helper'.at = "failed" /\ helper'.recovery = helper.recovery
        /\ helper'.placed = helper.placed /\ helper'.mine = helper.mine
    BY <1>3, GoFields DEF IInv, Steps
  <2>2. failures' \in 0..MaxFailures /\ failures' >= failures
    BY <1>3, UpdaterAssumption DEF Failure, IInv, TypeOK
  <2>3. TypeOK' /\ PageOK' /\ AnInstallationSurvives'
    BY <1>1, <1>3, <2>2 DEF IInv, TypeOK, PageOK, AnInstallationSurvives
  <2>4. Knows' /\ InPlace'
    BY <1>1, <1>3, <2>1, <2>2 DEF IInv, TypeOK, Knows, InPlace, Lost, At
  <2> QED
    BY <2>1, <2>3, <2>4 DEF IInv
<1> QED
  BY <1>2, <1>3 DEF Move

LEMMA PlaceKeeps ==
    ASSUME IInv, Place
    PROVE  IInv'
<1>1. At("place") /\ UNCHANGED <<previous, displaced, archive, app, page, stopped>>
  BY DEF Place, program
<1>2. previous \in Versions
  BY <1>1 DEF IInv, Knows, At
<1>3. CASE install = "nothing" /\ install' = "new" /\ UNCHANGED failures
           /\ helper' = [helper EXCEPT !.at = "launch", !.placed = TRUE]
  <2>1. /\ HelperOK' /\ helper'.at = "launch" /\ helper'.recovery = helper.recovery
        /\ helper'.placed = TRUE /\ helper'.mine = helper.mine
    BY <1>3 DEF IInv, HelperOK, Steps
  <2>2. TypeOK' /\ PageOK' /\ AnInstallationSurvives'
    BY <1>1, <1>2, <1>3 DEF IInv, TypeOK, PageOK, AnInstallationSurvives, Versions, Folders
  <2>3. Knows' /\ InPlace'
    BY <1>1, <1>3, <2>1 DEF IInv, Knows, InPlace, At, Versions
  <2> QED
    BY <2>1, <2>2, <2>3 DEF IInv
<1>4. CASE Go("unmove") /\ UNCHANGED install
           /\ (Failure \/ (install # "nothing" /\ UNCHANGED failures))
  <2>1. /\ HelperOK' /\ helper'.at = "unmove" /\ helper'.recovery = helper.recovery
        /\ helper'.placed = helper.placed /\ helper'.mine = helper.mine
    BY <1>4, GoFields DEF IInv, Steps
  <2>2. failures' \in 0..MaxFailures /\ (failures' > 0 \/ install # "nothing")
    BY <1>4, UpdaterAssumption DEF Failure, IInv, TypeOK
  <2>3. TypeOK' /\ PageOK' /\ AnInstallationSurvives'
    BY <1>1, <1>4, <2>2 DEF IInv, TypeOK, PageOK, AnInstallationSurvives
  <2>4. Knows'
    BY <1>1, <1>4, <2>1 DEF IInv, Knows, At
  <2>5. InPlace'
    BY <1>4, <2>1, <2>2 DEF IInv, TypeOK, InPlace, Folders
  <2> QED
    BY <2>1, <2>3, <2>4, <2>5 DEF IInv
<1> QED
  BY <1>3, <1>4 DEF Place

LEMMA UnmoveKeeps ==
    ASSUME IInv, Unmove
    PROVE  IInv'
<1>1. At("unmove") /\ UNCHANGED <<displaced, archive, app, page, stopped>>
  BY DEF Unmove, program
<1>2. previous \in Versions
  BY <1>1 DEF IInv, Knows, At
<1>3. CASE install = "nothing" /\ install' = previous /\ previous' = "nothing"
           /\ helper' = [helper EXCEPT !.at = "failed", !.recovery = FALSE] /\ UNCHANGED failures
  <2>1. /\ HelperOK' /\ helper'.at = "failed" /\ helper'.recovery = FALSE
        /\ helper'.placed = helper.placed /\ helper'.mine = helper.mine
    BY <1>3 DEF IInv, HelperOK, Steps
  <2>2. install' \in Versions /\ app = "nothing"
    BY <1>2, <1>3 DEF IInv, TypeOK, Versions
  <2>3. TypeOK' /\ PageOK' /\ AnInstallationSurvives'
    BY <1>1, <1>3, <2>2 DEF IInv, TypeOK, PageOK, AnInstallationSurvives, Versions, Folders
  <2>4. Knows' /\ InPlace'
    BY <1>1, <2>1, <2>2 DEF IInv, Knows, InPlace, At
  <2> QED
    BY <2>1, <2>3, <2>4 DEF IInv
<1>4. CASE Go("failed") /\ UNCHANGED <<install, previous>>
           /\ (Failure \/ (install # "nothing" /\ UNCHANGED failures))
  <2>1. /\ HelperOK' /\ helper'.at = "failed" /\ helper'.recovery = helper.recovery
        /\ helper'.placed = helper.placed /\ helper'.mine = helper.mine
    BY <1>4, GoFields DEF IInv, Steps
  <2>2. failures' \in 0..MaxFailures /\ failures' >= failures
    BY <1>4, UpdaterAssumption DEF Failure, IInv, TypeOK
  <2>3. install \in Versions \/ failures' > 1
    BY <1>1, <1>4 DEF IInv, TypeOK, InPlace, Failure, At, Folders
  <2>4. TypeOK' /\ PageOK' /\ AnInstallationSurvives'
    BY <1>1, <1>4, <2>2 DEF IInv, TypeOK, PageOK, AnInstallationSurvives
  <2>5. Knows' /\ InPlace'
    BY <1>1, <1>4, <2>1, <2>3 DEF IInv, Knows, InPlace, Lost, At
  <2> QED
    BY <2>1, <2>4, <2>5 DEF IInv
<1> QED
  BY <1>3, <1>4 DEF Unmove

LEMMA LaunchKeeps ==
    ASSUME IInv, Launch
    PROVE  IInv'
<1>1. At("launch") /\ UNCHANGED <<install, previous, displaced, archive, page, stopped>>
  BY DEF Launch, folders
<1>2. install = "new" /\ helper.placed /\ helper.recovery
  BY <1>1 DEF IInv, Knows, At
<1>3. CASE app = "nothing" /\ app' = install /\ UNCHANGED failures
           /\ helper' = [helper EXCEPT !.at = "watch", !.mine = TRUE]
  <2>1. /\ HelperOK' /\ helper'.at = "watch" /\ helper'.recovery = helper.recovery
        /\ helper'.placed = helper.placed
    BY <1>3 DEF IInv, HelperOK, Steps
  <2>2. TypeOK' /\ PageOK' /\ AnInstallationSurvives'
    BY <1>1, <1>2, <1>3 DEF IInv, TypeOK, PageOK, AnInstallationSurvives, Versions
  <2>3. Knows' /\ InPlace'
    BY <1>1, <1>2, <1>3, <2>1 DEF IInv, Knows, InPlace, Versions
  <2> QED
    BY <2>1, <2>2, <2>3 DEF IInv
<1>4. CASE UNCHANGED app /\ (Failure \/ UNCHANGED failures)
           /\ (Go("watch") \/ Go("failed"))
  <2>1. /\ HelperOK' /\ helper'.at \in {"watch", "failed"}
        /\ helper'.recovery = helper.recovery
        /\ helper'.placed = helper.placed /\ helper'.mine = helper.mine
    BY <1>4, GoFields DEF IInv, Steps
  <2>2. failures' \in 0..MaxFailures
    BY <1>4, UpdaterAssumption DEF Failure, IInv, TypeOK
  <2>3. TypeOK' /\ PageOK' /\ AnInstallationSurvives'
    BY <1>1, <1>4, <2>2 DEF IInv, TypeOK, PageOK, AnInstallationSurvives
  <2>4. Knows' /\ InPlace'
    BY <1>1, <1>2, <1>4, <2>1 DEF IInv, Knows, InPlace, Versions
  <2> QED
    BY <2>1, <2>3, <2>4 DEF IInv
<1> QED
  BY <1>3, <1>4 DEF Launch

\* A removal begins only when what was started still runs, from the place itself.
LEMMA WatchKeeps ==
    ASSUME IInv, Watch
    PROVE  IInv'
<1>1. /\ HelperOK' /\ helper'.at = IF helper.mine THEN "clean" ELSE "restore"
      /\ helper'.recovery = helper.recovery /\ helper'.placed = helper.placed
      /\ helper'.mine = helper.mine /\ helper'.lived = helper.mine
  BY DEF IInv, HelperOK, Watch, Steps
<1>2. At("watch") /\ UNCHANGED <<install, previous, displaced, archive, app, page, failures, stopped>>
  BY DEF Watch, folders, program
<1>3. install = "new" /\ helper.recovery
  BY <1>2 DEF IInv, Knows, At
<1>4. TypeOK' /\ PageOK' /\ AnInstallationSurvives'
  BY <1>2 DEF IInv, TypeOK, PageOK, AnInstallationSurvives
<1>5. Knows' /\ InPlace'
  BY <1>1, <1>2, <1>3 DEF IInv, Knows, InPlace, Versions
<1> QED
  BY <1>1, <1>4, <1>5 DEF IInv

\* A helper that has ended knows nothing.
LEMMA EndedKeeps ==
    ASSUME helper' = Ended, (stopped \/ failures > 1 \/ install \in Versions)'
    PROVE  HelperOK' /\ Knows' /\ InPlace'
<1>1. /\ HelperOK' /\ helper'.at = "ended" /\ helper'.recovery = FALSE
      /\ helper'.placed = FALSE /\ helper'.mine = FALSE
  BY EndedFields DEF HelperOK
<1> QED
  BY <1>1 DEF Knows, InPlace, Lost

\* Nor does one that shows its last message need to.
LEMMA MessageKeeps ==
    ASSUME IInv, Go("message"), previous' = previous, app' = app,
           (stopped \/ failures > 1 \/ install \in Versions)'
    PROVE  HelperOK' /\ Knows' /\ InPlace'
<1>1. /\ HelperOK' /\ helper'.at = "message" /\ helper'.recovery = helper.recovery
      /\ helper'.placed = helper.placed /\ helper'.mine = helper.mine
  BY GoFields DEF IInv, Steps
<1> QED
  BY <1>1 DEF IInv, Knows, InPlace, Lost

LEMMA CleanKeeps ==
    ASSUME IInv, Clean
    PROVE  IInv'
<1>1. /\ At("clean") /\ helper' = Ended
      /\ UNCHANGED <<install, displaced, archive, app, page, stopped>>
  BY DEF Clean, program
<1>2. install \in Versions /\ previous \in Versions
  BY <1>1 DEF IInv, Knows, At
<1>3. previous' \in Folders /\ failures' \in 0..MaxFailures
  BY <1>2, UpdaterAssumption DEF Clean, Remove, Failure, IInv, TypeOK, Folders
<1>4. TypeOK' /\ PageOK' /\ AnInstallationSurvives'
  BY <1>1, <1>2, <1>3 DEF IInv, TypeOK, PageOK, AnInstallationSurvives
<1>5. HelperOK' /\ Knows' /\ InPlace'
  BY <1>1, <1>2, EndedKeeps
<1> QED
  BY <1>4, <1>5 DEF IInv

\* Only what this update placed is moved aside, and only for what it moved away.
LEMMA RestoreKeeps ==
    ASSUME IInv, Restore
    PROVE  IInv'
<1>1. /\ At("restore") /\ failures' \in 0..MaxFailures /\ failures' >= failures
      /\ UNCHANGED <<previous, archive, app, page, stopped>>
  BY UpdaterAssumption DEF Restore, Failure, IInv, TypeOK, program
<1>2. /\ Lost \/ install \in Versions
      /\ helper.recovery => previous \in Versions
      /\ helper.placed => install = "new"
  BY <1>1 DEF IInv, Knows, InPlace, At
<1>3. CASE (helper' = Ended \/ Go("message")) /\ UNCHANGED <<install, displaced>>
  <2>1. TypeOK' /\ PageOK' /\ AnInstallationSurvives'
    BY <1>1, <1>3 DEF IInv, TypeOK, PageOK, AnInstallationSurvives
  <2>2. (stopped \/ failures > 1 \/ install \in Versions)'
    BY <1>1, <1>2, <1>3 DEF Lost, IInv, TypeOK
  <2> QED
    BY <1>1, <1>3, <2>1, <2>2, EndedKeeps, MessageKeeps DEF IInv
<1>4. CASE /\ helper.recovery /\ Go("putback") /\ UNCHANGED failures
           /\ \/ install = "nothing" /\ displaced' = "nothing" /\ UNCHANGED install
              \/ Movable /\ displaced' = install /\ install' = "nothing"
  <2>1. /\ HelperOK' /\ helper'.at = "putback" /\ helper'.recovery = TRUE
        /\ helper'.placed = helper.placed /\ helper'.mine = helper.mine
    BY <1>4, GoFields DEF IInv, HelperOK, Steps
  <2>2. /\ install' = "nothing" /\ displaced' \in Versions \cup {"nothing"}
        /\ install # "nothing" => displaced' \in Versions
    BY <1>4 DEF Movable
  <2>3. TypeOK' /\ PageOK' /\ AnInstallationSurvives'
    BY <1>1, <1>2, <1>4, <2>2
       DEF IInv, TypeOK, PageOK, AnInstallationSurvives, Folders, Versions, Movable
  <2>4. Knows'
    BY <1>1, <1>2, <1>4, <2>1, <2>2 DEF IInv, Knows, Versions
  <2>5. InPlace'
    BY <1>1, <1>2, <1>4, <2>1, <2>2 DEF InPlace, Lost, Versions
  <2> QED
    BY <2>1, <2>3, <2>4, <2>5 DEF IInv
<1> QED
  BY <1>3, <1>4 DEF Restore

LEMMA PutBackKeeps ==
    ASSUME IInv, PutBack
    PROVE  IInv'
<1>1. At("putback") /\ UNCHANGED <<archive, app, page, stopped>>
  BY DEF PutBack, program
<1>2. previous \in Versions /\ displaced # "rest"
      /\ (Lost \/ displaced \in Versions \/ install \in Versions)
  BY <1>1 DEF IInv, Knows, InPlace, At
<1>3. CASE /\ install = "nothing" /\ install' = previous /\ previous' = "nothing"
           /\ helper' = [helper EXCEPT !.at = "relaunch", !.recovery = FALSE, !.placed = FALSE]
           /\ UNCHANGED <<displaced, failures>>
  <2>1. /\ HelperOK' /\ helper'.at = "relaunch" /\ helper'.recovery = FALSE
        /\ helper'.placed = FALSE /\ helper'.mine = helper.mine
    BY <1>3 DEF IInv, HelperOK, Steps
  <2>2. install' \in Versions /\ app = "nothing"
    BY <1>2, <1>3 DEF IInv, TypeOK, Versions
  <2>3. TypeOK' /\ PageOK' /\ AnInstallationSurvives'
    BY <1>1, <1>3, <2>2 DEF IInv, TypeOK, PageOK, AnInstallationSurvives, Versions, Folders
  <2>4. Knows' /\ InPlace'
    BY <1>1, <2>1, <2>2 DEF IInv, Knows, InPlace
  <2> QED
    BY <2>1, <2>3, <2>4 DEF IInv
<1>4. CASE install # "nothing" /\ Go("message")
           /\ UNCHANGED <<install, previous, displaced, failures>>
  <2>1. TypeOK' /\ PageOK' /\ AnInstallationSurvives'
    BY <1>1, <1>4 DEF IInv, TypeOK, PageOK, AnInstallationSurvives
  <2>2. install' \in Versions
    BY <1>4 DEF IInv, TypeOK, Folders
  <2> QED
    BY <1>1, <1>4, <2>1, <2>2, MessageKeeps DEF IInv
<1>5. CASE install = "nothing" /\ Failure /\ Go("putaside")
           /\ UNCHANGED <<install, previous, displaced>>
  <2>1. /\ HelperOK' /\ helper'.at = "putaside" /\ helper'.recovery = helper.recovery
        /\ helper'.placed = helper.placed /\ helper'.mine = helper.mine
    BY <1>5, GoFields DEF IInv, Steps
  <2>2. failures' \in 0..MaxFailures /\ failures' > 0 /\ failures' >= failures
    BY <1>5, UpdaterAssumption DEF Failure, IInv, TypeOK
  <2>3. TypeOK' /\ PageOK' /\ AnInstallationSurvives'
    BY <1>1, <1>5, <2>2 DEF IInv, TypeOK, PageOK, AnInstallationSurvives
  <2>4. Knows'
    BY <1>1, <1>5, <2>1 DEF IInv, Knows, At
  <2>5. InPlace'
    BY <1>1, <1>2, <1>5, <2>1, <2>2 DEF IInv, TypeOK, InPlace, Lost
  <2> QED
    BY <2>1, <2>3, <2>4, <2>5 DEF IInv
<1> QED
  BY <1>3, <1>4, <1>5 DEF PutBack

LEMMA PutAsideBackKeeps ==
    ASSUME IInv, PutAsideBack
    PROVE  IInv'
<1>1. /\ At("putaside") /\ Go("message")
      /\ UNCHANGED <<previous, archive, app, page, stopped>>
  BY DEF PutAsideBack, program
<1>2. /\ displaced # "rest" /\ previous \in Versions /\ failures > 0
      /\ Lost \/ displaced \in Versions \/ install \in Versions
  BY <1>1 DEF IInv, Knows, InPlace, At
<1>3. failures' \in 0..MaxFailures /\ failures' >= failures
  BY UpdaterAssumption DEF PutAsideBack, Failure, IInv, TypeOK
<1>4. install' \in Folders \ {"rest"} /\ displaced' \in Folders
      /\ (install # "nothing" => install' = install)
  BY <1>2 DEF PutAsideBack, IInv, TypeOK, Folders
<1>5. TypeOK' /\ PageOK' /\ AnInstallationSurvives'
  BY <1>1, <1>2, <1>3, <1>4 DEF IInv, TypeOK, PageOK, AnInstallationSurvives, Versions
<1>6. (stopped \/ failures > 1 \/ install \in Versions)'
  <2>1. CASE Failure
    BY <2>1, <1>2 DEF Failure, IInv, TypeOK
  <2>2. CASE displaced # "nothing" /\ install' = displaced
    BY <2>2, <1>2 DEF IInv, TypeOK, Folders
  <2>3. CASE (displaced = "nothing" \/ install # "nothing") /\ UNCHANGED <<install, failures>>
    BY <2>3, <1>1, <1>2 DEF IInv, TypeOK, Folders, Versions, Lost
  <2> QED
    BY <2>1, <2>2, <2>3 DEF PutAsideBack
<1> QED
  BY <1>1, <1>5, <1>6, MessageKeeps DEF IInv

LEMMA RelaunchKeeps ==
    ASSUME IInv, Relaunch
    PROVE  IInv'
<1>1. /\ At("relaunch")
      /\ helper' = Ended \/ (Go("message") /\ UNCHANGED app)
      /\ UNCHANGED <<install, previous, archive, page, stopped>>
  BY DEF Relaunch
<1>2. install \in Versions
  BY <1>1 DEF IInv, Knows, At
<1>3. displaced' \in Folders /\ failures' \in 0..MaxFailures
  BY UpdaterAssumption DEF Relaunch, Remove, Failure, IInv, TypeOK, Folders
<1>4. TypeOK' /\ PageOK' /\ AnInstallationSurvives'
  BY <1>1, <1>2, <1>3 DEF Relaunch, IInv, TypeOK, PageOK, AnInstallationSurvives, Versions
<1> QED
  BY <1>1, <1>2, <1>4, EndedKeeps, MessageKeeps DEF IInv

(* The world. *)

LEMMA CloseMessageKeeps ==
    ASSUME IInv, CloseMessage
    PROVE  IInv'
<1>1. UNCHANGED <<install, previous, displaced, archive, app, page, failures, stopped>>
  BY DEF CloseMessage, folders, program
<1>2. TypeOK' /\ PageOK' /\ AnInstallationSurvives'
  BY <1>1 DEF IInv, TypeOK, PageOK, AnInstallationSurvives
<1>3. Lost \/ install \in Versions
  BY DEF CloseMessage, Shown, At, IInv, InPlace
<1>4. CASE At("failed") /\ Go("restore")
  <2>1. /\ HelperOK' /\ helper'.at = "restore" /\ helper'.recovery = helper.recovery
        /\ helper'.placed = helper.placed /\ helper'.mine = helper.mine
    BY <1>4, GoFields DEF IInv, Steps
  <2>2. Knows' /\ InPlace'
    BY <1>1, <1>3, <1>4, <2>1 DEF IInv, Knows, InPlace, Lost, At
  <2> QED
    BY <1>2, <2>1, <2>2 DEF IInv
<1>5. CASE helper' = Ended
  BY <1>1, <1>2, <1>3, <1>5, EndedKeeps DEF IInv, Lost
<1> QED
  BY <1>4, <1>5 DEF CloseMessage


LEMMA OtherInstallsKeeps ==
    ASSUME IInv, OtherInstalls
    PROVE  IInv'
<1>1. /\ install = "nothing" /\ install' = "other"
      /\ UNCHANGED <<previous, displaced, archive, app, page, helper, failures, stopped>>
  BY DEF OtherInstalls, program
<1>2. TypeOK' /\ PageOK' /\ HelperOK' /\ AnInstallationSurvives'
  BY <1>1 DEF IInv, TypeOK, PageOK, HelperOK, AnInstallationSurvives, Versions, Folders
<1>3. helper.at \notin {"verify", "stage", "move"}
  BY <1>1 DEF IInv, Knows
<1>4. Knows' /\ InPlace'
  BY <1>1, <1>3 DEF IInv, Knows, InPlace, Versions
<1> QED
  BY <1>2, <1>4 DEF IInv

LEMMA MachineStopsKeeps ==
    ASSUME IInv, MachineStops
    PROVE  IInv'
<1>1. /\ stopped' = TRUE /\ helper' = Ended /\ app' = "nothing" /\ page' = "idle"
      /\ UNCHANGED <<install, archive, failures>>
  BY DEF MachineStops
<1>2. previous' \in Folders /\ displaced' \in Folders
  BY DEF MachineStops, IInv, TypeOK, Folders
<1>3. AnInstallationSurvives'
  <2>1. CASE helper.at \in {"clean", "relaunch"}
    BY <2>1, <1>1 DEF IInv, Knows, AnInstallationSurvives
  <2>2. CASE helper.at \notin {"clean", "relaunch"}
    BY <2>2, <1>1 DEF MachineStops, At, IInv, AnInstallationSurvives
  <2> QED
    BY <2>1, <2>2
<1>4. TypeOK' /\ PageOK'
  BY <1>1, <1>2 DEF IInv, TypeOK, PageOK
<1> QED
  BY <1>1, <1>3, <1>4, EndedKeeps DEF IInv

(* Every behaviour. *)

LEMMA InitHolds == Init => IInv
<1> SUFFICES ASSUME Init PROVE IInv
  OBVIOUS
<1>1. TypeOK /\ PageOK /\ AnInstallationSurvives
  <2>1. /\ install = "old" /\ previous = "nothing" /\ displaced = "nothing"
        /\ archive = "nothing" /\ app = "nothing" /\ page = "idle"
        /\ failures = 0 /\ stopped \in BOOLEAN
    BY DEF Init
  <2>2. TypeOK
    BY <2>1, UpdaterAssumption DEF TypeOK, Versions, Folders
  <2>3. PageOK /\ AnInstallationSurvives
    BY <2>1 DEF PageOK, AnInstallationSurvives, Versions
  <2> QED
    BY <2>2, <2>3
<1>2. HelperOK /\ helper.at = "ended" /\ ~helper.recovery /\ ~helper.placed /\ ~helper.mine
  BY EndedFields DEF Init, HelperOK
<1>3. Knows /\ InPlace
  BY <1>2 DEF Init, Knows, InPlace, Versions
<1> QED
  BY <1>1, <1>2, <1>3 DEF IInv

LEMMA NextKeeps ==
    ASSUME IInv, [Next]_vars
    PROVE  IInv'
<1>1. CASE UNCHANGED vars
  BY <1>1 DEF vars, IInv, TypeOK, PageOK, HelperOK, Knows, AnInstallationSurvives, InPlace, Lost
<1>2. CASE Help
  BY <1>2, QuietSteps, FindKeeps, MoveKeeps, PlaceKeeps, UnmoveKeeps, LaunchKeeps, WatchKeeps,
     CleanKeeps, RestoreKeeps, PutBackKeeps, PutAsideBackKeeps, RelaunchKeeps DEF Help
<1>3. CASE Next /\ ~Help
  BY <1>3, PageKeeps, StartKeeps, AppEndsKeeps, LeaveKeeps, CloseMessageKeeps, OtherInstallsKeeps,
     MachineStopsKeeps
     DEF Next
<1> QED
  BY <1>1, <1>2, <1>3

LEMMA IInvHolds == Spec => []IInv
<1>1. Init => IInv
  BY InitHolds
<1>2. IInv /\ [Next]_vars => IInv'
  BY NextKeeps
<1> QED
  BY <1>1, <1>2, PTL DEF Spec

\* Whatever fails, however often, and wherever the machine stops, a whole
\* installation is left in one of the folders.
THEOREM InstallationSurvives == Spec => []AnInstallationSurvives
<1>1. IInv => AnInstallationSurvives
  BY DEF IInv
<1> QED
  BY <1>1, IInvHolds, PTL

\* A helper that has ended after one failed operation left something to start.
THEOREM OneFailureRecovered == Spec => []OneFailureIsRecovered
<1>1. IInv => OneFailureIsRecovered
  BY DEF IInv, TypeOK, InPlace, Lost, OneFailureIsRecovered, Helping, At
<1> QED
  BY <1>1, IInvHolds, PTL

\* The helper returns to the previous installation until it has seen the new one run.
THEOREM PreviousKept == Spec => KeptUntilAlive
<1> DEFINE Kept == (previous \in Versions /\ previous' # previous) =>
                      helper.lived \/ install' = previous
<1>1. ASSUME IInv, [Next]_vars
      PROVE  [Kept]_vars
  <2> SUFFICES ASSUME previous \in Versions, previous' # previous, ~helper.lived
               PROVE  install' = previous
    OBVIOUS
  <2>1. helper.at # "clean"
    BY <1>1 DEF IInv, Knows
  <2>2. CASE Help
    BY <2>1, <2>2 DEF Help, Wait, Find, Verify, Stage, Move, Place, Unmove, Launch, Watch, Clean,
       Restore, PutBack, PutAsideBack, Relaunch, At, folders, Versions
  <2>3. CASE Next /\ ~Help
    BY <2>1, <2>3 DEF Next, Start, AppEnds, CheckForUpdates, Check, Answer, Download, Prepare,
       Approve, Leave, CloseMessage, OtherInstalls, MachineStops, At, folders
  <2> QED
    BY <1>1, <2>2, <2>3 DEF vars
<1> QED
  BY <1>1, IInvHolds, PTL DEF Spec, KeptUntilAlive

\* No step moves or removes what another installer has put in the place meanwhile.
THEOREM OthersKept == Spec => OthersUntouched
<1> DEFINE Untouched == install = "other" /\ install' # "other" => helper.base = "other"
<1>1. ASSUME IInv, [Next]_vars
      PROVE  [Untouched]_vars
  <2> SUFFICES ASSUME install = "other", install' # "other"
               PROVE  helper.base = "other"
    OBVIOUS
  <2>1. CASE Move
    BY <1>1, <2>1 DEF IInv, Knows, Move, At
  <2>2. CASE Restore
    BY <1>1, <2>2 DEF IInv, Knows, Restore, At
  <2>3. CASE Help /\ ~Move /\ ~Restore
    BY <2>3 DEF Help, Wait, Find, Verify, Stage, Place, Unmove, Launch, Watch, Clean,
       PutBack, PutAsideBack, Relaunch, folders
  <2>4. CASE Next /\ ~Help
    BY <2>4 DEF Next, Start, AppEnds, CheckForUpdates, Check, Answer, Download, Prepare,
       Approve, Leave, CloseMessage, OtherInstalls, MachineStops, folders
  <2> QED
    BY <1>1, <2>1, <2>2, <2>3, <2>4 DEF vars
<1> QED
  BY <1>1, IInvHolds, PTL DEF Spec, OthersUntouched
=============================================================================
