------------------------------ MODULE Updater ------------------------------
(***************************************************************************)
(* An update of the installed application: the check and the download on   *)
(* request, the approval, and the helper process that swaps the folders    *)
(* once the application has ended.  The user may start and close the       *)
(* application meanwhile, another installer may use the free place, any    *)
(* file operation may fail, and the machine may stop between any two.      *)
(*                                                                         *)
(* A folder holds "nothing", a whole installation ("old", "new", or        *)
(* "other" that of somebody else) or the "rest" of one whose removal was   *)
(* interrupted.  Windows refuses to move a folder a program runs from, and *)
(* to overwrite the helper while it runs, so that there is one at a time.  *)
(***************************************************************************)
EXTENDS Naturals

CONSTANT MaxFailures    \* bound: file operations that fail

ASSUME UpdaterAssumption == MaxFailures \in Nat

VARIABLES install, previous,  \* the folders QI Flow and QI Flow.previous
          displaced,          \* the folder of the last attempt for what it moved aside
          archive,            \* the downloaded package: "nothing", "part" or "whole"
          app,                \* the version that runs, or "nothing"
          page,               \* of the update in the application
          helper,             \* the helper process
          failures, stopped   \* failed operations; whether the machine has stopped

vars == <<install, previous, displaced, archive, app, page, helper, failures, stopped>>
folders == <<install, previous, displaced>>
program == <<archive, app, page>>

Versions == {"old", "new", "other"}
Folders == Versions \cup {"nothing", "rest"}

\* `recovery` and `placed` are _SwapState; `mine`: the process it started still runs;
\* `base` and `lived` are history: what it found, and that it saw the new version live.
Ended == [at |-> "ended", recovery |-> FALSE, placed |-> FALSE, mine |-> FALSE,
          base |-> "nothing", lived |-> FALSE]
At(step) == helper.at = step
Go(step) == helper' = [helper EXCEPT !.at = step]
Helping == ~At("ended")

\* _show_error: a message box holds the helper up until the user closes it. After
\* "failed" the helper tries to return to the previous installation, after "message"
\* it ends.
Shown == At("failed") \/ At("message")
Failure == failures < MaxFailures /\ failures' = failures + 1

\* _remove_owned_tree: all of a folder goes, or some of it may stay.
Remove(before, after) ==
    \/ after = "nothing" /\ UNCHANGED failures
    \/ Failure /\ after \in {before, "rest"}

\* What a rename finds: a program that runs keeps its folder.
Movable == install \in Versions /\ app = "nothing"

----------------------------------------------------------------------------
(* The application. *)

Start ==
    /\ app = "nothing" /\ install \in Versions
    /\ app' = install
    /\ UNCHANGED <<folders, archive, page, helper, failures, stopped>>

\* It ends, or crashes; a download that was not finished stays as it is.
AppEnds ==
    /\ app # "nothing"
    /\ app' = "nothing" /\ page' = "idle"
    /\ helper' = [helper EXCEPT !.mine = FALSE]
    /\ UNCHANGED <<folders, archive, failures, stopped>>

CheckForUpdates ==
    /\ page = "idle" /\ app # "nothing"
    /\ page' = "checking"
    /\ UNCHANGED <<folders, archive, app, helper, failures, stopped>>

\* The release service has a newer version, or none, or does not answer; releases
\* follow each other.
Check ==
    /\ page = "checking"
    /\ page' \in {"idle", "offered"}
    /\ UNCHANGED <<folders, archive, app, helper, failures, stopped>>

\* The user declines, or accepts: the package is written from the start.
Answer ==
    /\ page = "offered"
    /\ \/ page' = "idle" /\ UNCHANGED archive
       \/ page' = "downloading" /\ archive' = "part"
    /\ UNCHANGED <<folders, app, helper, failures, stopped>>

\* The package has the published size and digest; anything else is removed.
Download ==
    /\ page = "downloading"
    /\ \/ archive' = "whole" /\ page' = "downloaded"
       \/ archive' = "nothing" /\ page' = "idle"
    /\ UNCHANGED <<folders, app, helper, failures, stopped>>

\* prepare_update puts the helper in place, which it cannot while one runs.
Prepare ==
    /\ page = "downloaded"
    /\ page' \in (IF Helping \/ install = "nothing" \/ archive = "nothing"
                  THEN {"idle"} ELSE {"idle", "prepared"})
    /\ UNCHANGED <<folders, archive, app, helper, failures, stopped>>

\* The exit that the update needs is approved or not.
Approve ==
    /\ page = "prepared"
    /\ page' \in {"idle", "leaving"}
    /\ UNCHANGED <<folders, archive, app, helper, failures, stopped>>

\* The last thing the application does is to start the helper.
Leave ==
    /\ page = "leaving"
    /\ page' = "gone"
    /\ helper' = [Ended EXCEPT !.at = "wait"]
    /\ UNCHANGED <<folders, archive, app, failures, stopped>>

----------------------------------------------------------------------------
(* The helper: apply_update. *)

\* Seeded fault: there is no limit to the wait.
Wait_Forever ==
    /\ At("wait") /\ page # "gone"
    /\ Go("find")
    /\ UNCHANGED <<folders, program, failures, stopped>>

\* _wait_for_process_exit, fifteen minutes at most.
Wait ==
    /\ At("wait")
    /\ Go(IF page = "gone" THEN "failed" ELSE "find")
    /\ UNCHANGED <<folders, program, failures, stopped>>

\* Nothing is touched when a recovery folder is there, or nothing to update.
Find ==
    /\ At("find")
    /\ helper' = [helper EXCEPT
          !.at = IF install # "nothing" /\ previous = "nothing" THEN "verify" ELSE "failed",
          !.base = install]
    /\ UNCHANGED <<folders, program, failures, stopped>>

\* Nor when the package is not the published one.
Verify ==
    /\ At("verify")
    /\ Go(IF archive = "whole" /\ install # "nothing" THEN "stage" ELSE "failed")
    /\ UNCHANGED <<folders, program, failures, stopped>>

\* The package is read again when it is extracted.
Stage ==
    /\ At("stage")
    /\ \/ archive = "whole" /\ Go("move") /\ UNCHANGED failures
       \/ archive # "whole" /\ Go("failed") /\ UNCHANGED failures
       \/ Failure /\ Go("failed")
    /\ UNCHANGED <<folders, program, stopped>>

\* The first rename: from here on the helper owns a recovery folder.
Move ==
    /\ At("move")
    /\ \/ /\ Movable /\ previous = "nothing"
          /\ previous' = install /\ install' = "nothing"
          /\ helper' = [helper EXCEPT !.at = "place", !.recovery = TRUE]
          /\ UNCHANGED failures
       \/ ~Movable /\ Go("failed") /\ UNCHANGED <<install, previous, failures>>
       \/ Failure /\ Go("failed") /\ UNCHANGED <<install, previous>>
    /\ UNCHANGED <<displaced, program, stopped>>

\* Seeded fault: a rename that fails ends the update.
Place_GivesUp ==
    /\ At("place")
    /\ \/ /\ install = "nothing"
          /\ install' = "new"
          /\ helper' = [helper EXCEPT !.at = "launch", !.placed = TRUE]
          /\ UNCHANGED failures
       \/ install # "nothing" /\ Go("ended") /\ UNCHANGED <<install, failures>>
       \/ Failure /\ Go("ended") /\ UNCHANGED install
    /\ UNCHANGED <<previous, displaced, program, stopped>>

\* The second rename.
Place ==
    /\ At("place")
    /\ \/ /\ install = "nothing"
          /\ install' = "new"
          /\ helper' = [helper EXCEPT !.at = "launch", !.placed = TRUE]
          /\ UNCHANGED failures
       \/ install # "nothing" /\ Go("unmove") /\ UNCHANGED <<install, failures>>
       \/ Failure /\ Go("unmove") /\ UNCHANGED install
    /\ UNCHANGED <<previous, displaced, program, stopped>>

\* When it fails, the first is undone; if that fails too, the recovery stays owned.
Unmove ==
    /\ At("unmove")
    /\ \/ /\ install = "nothing"
          /\ install' = previous /\ previous' = "nothing"
          /\ helper' = [helper EXCEPT !.at = "failed", !.recovery = FALSE]
          /\ UNCHANGED failures
       \/ install # "nothing" /\ Go("failed") /\ UNCHANGED <<install, previous, failures>>
       \/ Failure /\ Go("failed") /\ UNCHANGED <<install, previous>>
    /\ UNCHANGED <<displaced, program, stopped>>

----------------------------------------------------------------------------
(* The helper: main. *)

\* What the helper starts runs, unless it exits because another instance does, or
\* cannot be started.
Launch ==
    /\ At("launch")
    /\ \/ /\ app = "nothing" /\ install \in Versions
          /\ app' = install
          /\ helper' = [helper EXCEPT !.at = "watch", !.mine = TRUE]
          /\ UNCHANGED failures
       \/ app # "nothing" /\ Go("watch") /\ UNCHANGED <<app, failures>>
       \/ Failure /\ Go("failed") /\ UNCHANGED app
    /\ UNCHANGED <<folders, archive, page, stopped>>

\* Seeded fault: an exit is taken for a start.
Watch_AnyExit ==
    /\ At("watch")
    /\ helper' = [helper EXCEPT !.at = "clean", !.lived = helper.mine]
    /\ UNCHANGED <<folders, program, failures, stopped>>

\* _wait_until_alive: the process still runs after fifteen seconds.
Watch ==
    /\ At("watch")
    /\ helper' = [helper EXCEPT !.at = IF helper.mine THEN "clean" ELSE "restore",
                                !.lived = helper.mine]
    /\ UNCHANGED <<folders, program, failures, stopped>>

\* The update is done; a recovery folder that cannot be removed stays, or part of it.
Clean ==
    /\ At("clean")
    /\ Remove(previous, previous')
    /\ helper' = Ended
    /\ UNCHANGED <<install, displaced, program, stopped>>

\* Seeded fault: any recovery folder is taken for that of this update.
Restore_AnyRecovery ==
    /\ At("restore")
    /\ IF previous = "nothing"
       THEN helper' = Ended /\ UNCHANGED <<install, displaced>>
       ELSE IF install = "nothing"
            THEN Go("putback") /\ displaced' = "nothing" /\ UNCHANGED install
            ELSE IF Movable
                 THEN displaced' = install /\ install' = "nothing" /\ Go("putback")
                 ELSE helper' = Ended /\ UNCHANGED <<install, displaced>>
    /\ UNCHANGED <<previous, program, failures, stopped>>

\* Seeded fault: what is in place is taken to be what this update placed.
Restore_AnyInstall ==
    /\ At("restore")
    /\ \/ /\ ~helper.recovery \/ previous = "nothing"
          /\ helper' = Ended /\ UNCHANGED <<install, displaced>>
       \/ /\ helper.recovery /\ previous # "nothing" /\ install = "nothing"
          /\ Go("putback") /\ displaced' = "nothing" /\ UNCHANGED install
       \/ /\ helper.recovery /\ previous # "nothing" /\ Movable
          /\ displaced' = install /\ install' = "nothing" /\ Go("putback")
       \/ /\ helper.recovery /\ install # "nothing" /\ ~Movable
          /\ helper' = Ended /\ UNCHANGED <<install, displaced>>
    /\ UNCHANGED <<previous, program, failures, stopped>>

\* _restore_owned_recovery: only what this update moved away is put back, and only
\* what it placed is moved aside for it.
Restore ==
    /\ At("restore")
    /\ LET owned == helper.recovery /\ previous # "nothing"
           aside == owned /\ helper.placed /\ install # "nothing"
       IN \/ /\ ~owned
             /\ helper' = Ended /\ UNCHANGED <<install, displaced, failures>>
          \/ /\ owned /\ install # "nothing" /\ ~helper.placed
             /\ Go("message") /\ UNCHANGED <<install, displaced, failures>>
          \/ /\ owned /\ install = "nothing"
             /\ displaced' = "nothing"
             /\ Go("putback") /\ UNCHANGED <<install, failures>>
          \/ /\ aside /\ Movable
             /\ displaced' = install /\ install' = "nothing"
             /\ Go("putback") /\ UNCHANGED failures
          \/ /\ aside
             /\ (~Movable /\ UNCHANGED failures) \/ Failure
             /\ Go("message") /\ UNCHANGED <<install, displaced>>
    /\ UNCHANGED <<previous, program, stopped>>

\* The recovery returns, or else what was moved aside.
PutBack ==
    /\ At("putback")
    /\ \/ /\ install = "nothing"
          /\ install' = previous /\ previous' = "nothing"
          /\ helper' = [helper EXCEPT !.at = "relaunch", !.recovery = FALSE, !.placed = FALSE]
          /\ UNCHANGED <<displaced, failures>>
       \/ /\ install # "nothing"
          /\ Go("message") /\ UNCHANGED <<install, previous, displaced, failures>>
       \/ /\ install = "nothing" /\ Failure
          /\ Go("putaside") /\ UNCHANGED <<install, previous, displaced>>
    /\ UNCHANGED <<program, stopped>>

PutAsideBack ==
    /\ At("putaside")
    /\ \/ /\ displaced # "nothing" /\ install = "nothing"
          /\ install' = displaced /\ displaced' = "nothing" /\ UNCHANGED failures
       \/ /\ displaced = "nothing" \/ install # "nothing"
          /\ UNCHANGED <<install, displaced, failures>>
       \/ Failure /\ UNCHANGED <<install, displaced>>
    /\ Go("message")
    /\ UNCHANGED <<previous, program, stopped>>

\* The failed version is removed as far as it can be; the previous one is started,
\* or a message says that it cannot be.
Relaunch ==
    /\ At("relaunch")
    /\ IF displaced = "nothing"
       THEN UNCHANGED <<displaced, failures>>
       ELSE Remove(displaced, displaced')
    /\ \/ /\ app' = IF app = "nothing" /\ install \in Versions THEN install ELSE app
          /\ helper' = Ended
       \/ UNCHANGED app /\ Go("message")
    /\ UNCHANGED <<install, previous, archive, page, stopped>>

Help == \/ Wait \/ Find \/ Verify \/ Stage \/ Move \/ Place \/ Unmove \/ Launch \/ Watch
        \/ Clean \/ Restore \/ PutBack \/ PutAsideBack \/ Relaunch

----------------------------------------------------------------------------
(* The world. *)

\* The user closes a message box, or never does.
CloseMessage ==
    /\ Shown
    /\ IF At("failed") THEN Go("restore") ELSE helper' = Ended
    /\ UNCHANGED <<folders, program, failures, stopped>>

\* Another installer finds the place free.
OtherInstalls ==
    /\ install = "nothing"
    /\ install' = "other"
    /\ UNCHANGED <<previous, displaced, program, helper, failures, stopped>>

\* Nothing resumes an update; a removal may stop halfway.
MachineStops ==
    /\ Helping
    /\ stopped' = TRUE
    /\ helper' = Ended
    /\ app' = "nothing" /\ page' = "idle"
    /\ previous' \in {previous} \cup (IF At("clean") THEN {"rest"} ELSE {})
    /\ displaced' \in {displaced} \cup (IF At("relaunch") /\ displaced # "nothing"
                                         THEN {"rest"} ELSE {})
    /\ UNCHANGED <<install, archive, failures>>

Init ==
    /\ install = "old" /\ previous = "nothing" /\ displaced = "nothing"
    /\ archive = "nothing" /\ app = "nothing" /\ page = "idle"
    /\ helper = Ended /\ failures = 0 /\ stopped = FALSE

Next == \/ Start \/ AppEnds \/ CheckForUpdates \/ Check \/ Answer \/ Download
        \/ Prepare \/ Approve \/ Leave
        \/ Help \/ CloseMessage \/ OtherInstalls \/ MachineStops

\* The helper goes on by itself, but where it waits for the user; users do what they like.
Spec == Init /\ [][Next]_vars /\ WF_vars(Help)

----------------------------------------------------------------------------
(* Properties. *)

\* The variables have their types: what is in the place of the installation is whole.
TypeOK ==
    /\ install \in Folders \ {"rest"} /\ previous \in Folders /\ displaced \in Folders
    /\ archive \in {"nothing", "part", "whole"}
    /\ app \in Versions \cup {"nothing"}
    /\ app # "nothing" => install = app
    /\ failures \in 0..MaxFailures /\ stopped \in BOOLEAN

\* Whatever fails, and wherever the machine stops, a whole installation is left in
\* one of the folders (apply_update, _restore_owned_recovery).
AnInstallationSurvives == \E folder \in {install, previous, displaced} : folder \in Versions

\* An update that has ended, or shows its last message, leaves something to start,
\* when a single operation failed and the machine did not stop (apply_update, main).
OneFailureIsRecovered ==
    (~Helping \/ At("message")) /\ ~stopped /\ failures <= 1 => install \in Versions

\* The previous installation is removed only after the new one was seen to run;
\* until then it is there to return to (main, _wait_until_alive).
KeptUntilAlive ==
    [][(previous \in Versions /\ previous' # previous) =>
          helper.lived \/ install' = previous]_vars

\* What somebody else installed while the update had moved the installation away is
\* neither removed nor moved (_restore_owned_recovery).
OthersUntouched ==
    [][install = "other" /\ install' # "other" => helper.base = "other"]_vars

\* A helper ends, also when the application it waits for does not, unless a message
\* box of it stays open for ever: nothing else holds it up (main, _show_error).
UpdateEnds == []<>~Shown => (Helping ~> ~Helping)
=============================================================================
