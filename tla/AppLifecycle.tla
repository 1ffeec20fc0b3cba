---------------------------- MODULE AppLifecycle ----------------------------
(***************************************************************************)
(* Who may touch the data directory, and when: launches and the instance   *)
(* lock (SingleInstanceGuard, bootstrap.run), the background threads of a  *)
(* running process, and the shutdown that drains them before an exit, a    *)
(* restart for an update, or a restore of a backup (ShutdownGroup,         *)
(* RuntimeLifecycle).                                                      *)
(*                                                                         *)
(* Threads end on their own; the main thread learns of it later, when it   *)
(* receives their finished signal or joins them.  A slot on the main       *)
(* thread, with the slots it signals, is one action; a crash may come      *)
(* between any two.  The workers up to Controllers are those of the         *)
(* registered controllers (Google, backups); the last one stands for the   *)
(* tracked threads (browser, update check and download), one at a time.    *)
(* They are joined in this order.                                          *)
(***************************************************************************)
EXTENDS Integers

CONSTANTS
    Procs,          \* processes that may exist at a time
    Nobody,         \* the holder of a free lock
    Controllers     \* how many controllers are registered

ASSUME AppLifecycleAssumption ==
    /\ Nobody \notin Procs
    /\ Controllers \in Nat

VARIABLES
    lock,      \* holder of the instance lock; the system frees it with its process
    database,  \* "readable" or "unreadable"
    app        \* for each process, what its main thread knows and its threads do

vars == <<lock, database, app>>

Workers == 1..(Controllers + 1)

\* A process that does not run.
Off == [phase |-> "off",
        worker |-> [w \in Workers |-> "idle"],
        joined |-> 0,          \* workers wait_for_shutdown has joined
        closing |-> FALSE, readySent |-> FALSE,     \* ShutdownGroup
        pending |-> FALSE, backup |-> FALSE, command |-> FALSE,   \* RuntimeLifecycle
        restart |-> FALSE,     \* pending_restart
        \* History: what the user approved, whether data was replaced, and whether
        \* a restore failed ("late": after the event loop had ended).
        approved |-> "nothing", restored |-> FALSE, failed |-> "no"]

Become(p, a) == app' = [app EXCEPT ![p] = a]
Looping(p) == app[p].phase \in {"running", "dialog"}   \* an event loop runs
-----------------------------------------------------------------------------
(* Launching. *)

Launch(p) ==
    /\ app[p].phase = "off"
    /\ Become(p, [Off EXCEPT !.phase = "launched"])
    /\ UNCHANGED <<lock, database>>

\* try_acquire: a second instance asks the first to show itself, and leaves.
TryAcquire(p) ==
    /\ app[p].phase = "launched"
    /\ IF lock = Nobody THEN lock' = p /\ Become(p, [app[p] EXCEPT !.phase = "opening"])
       ELSE Become(p, Off) /\ UNCHANGED lock
    /\ UNCHANGED database

\* build_runtime, then the event loop.
OpenDatabase(p) ==
    /\ app[p].phase = "opening" /\ database = "readable"
    /\ Become(p, [app[p] EXCEPT !.phase = "running"])
    /\ UNCHANGED <<lock, database>>

\* An unreadable database is replaced by the newest backup, with the user's
\* consent and before anything else uses it; otherwise the process gives up.
RecoverDatabase(p) ==
    /\ app[p].phase = "opening" /\ database = "unreadable"
    /\ lock' = Nobody
    /\ \/ /\ database' = "readable"
          /\ Become(p, [app[p] EXCEPT !.phase = "released", !.restart = TRUE,
                                      !.approved = "restore", !.restored = TRUE])
       \/ Become(p, Off) /\ UNCHANGED database
-----------------------------------------------------------------------------
(* Workers and shutdown. *)

\* Seeded fault: only the registered controllers are waited for.
Quiet_ControllersOnly(a) == \A w \in 1..Controllers : a.worker[w] = "idle"

Quiet(a) == \A w \in Workers : a.worker[w] = "idle"

\* finish_exit; quit ends the event loop, and is ignored once that has ended.
Quit(a) == [a EXCEPT !.restart = a.command,
                     !.phase = IF a.phase = "running" THEN "drain" ELSE a.phase]

\* The restore failed: service resumes.  Its message box has an event loop of
\* its own, which matters when the main one has ended already.
Resumed(a) ==
    [a EXCEPT !.closing = FALSE, !.readySent = FALSE, !.pending = FALSE,
              !.approved = "nothing",
              !.phase = IF a.phase = "draining" THEN "dialog" ELSE a.phase,
              !.failed = IF a.phase = "running" THEN "yes" ELSE "late"]

\* _check_ready and, when everything is quiet, RuntimeLifecycle._ready: what may
\* become of the process.
CheckReady(a) ==
    IF ~a.closing \/ a.readySent \/ ~Quiet(a) THEN {a}
    ELSE LET ready == [a EXCEPT !.readySent = TRUE, !.backup = FALSE]
         IN IF a.backup THEN {Quit([ready EXCEPT !.restored = TRUE]), Resumed(ready)}
            ELSE {Quit(ready)}

StartWorker(p, w) ==
    /\ Looping(p) /\ ~app[p].closing /\ app[p].worker[w] = "idle"
    /\ Become(p, [app[p] EXCEPT !.worker[w] = "busy"])
    /\ UNCHANGED <<lock, database>>

\* The thread has stopped: it was done, or saw that it was cancelled.
WorkerEnds(p, w) ==
    /\ app[p].worker[w] = "busy"
    /\ Become(p, [app[p] EXCEPT !.worker[w] = "ended"])
    /\ UNCHANGED <<lock, database>>

\* Seeded fault: the end of a tracked thread does not count for readiness.
ReceiveEnd_NoCheck(p, w) ==
    /\ Looping(p) /\ app[p].worker[w] = "ended"
    /\ \E a \in {[app[p] EXCEPT !.worker[w] = "idle"]} :
          \E b \in (IF w <= Controllers THEN CheckReady(a) ELSE {a}) : Become(p, b)
    /\ UNCHANGED <<lock, database>>

ReceiveEnd(p, w) ==
    /\ Looping(p) /\ app[p].worker[w] = "ended"
    /\ \E a \in CheckReady([app[p] EXCEPT !.worker[w] = "idle"]) : Become(p, a)
    /\ UNCHANGED <<lock, database>>

Requested(a, what) ==
    [a EXCEPT !.pending = TRUE, !.closing = TRUE, !.approved = what,
              !.backup = what = "restore", !.command = what # "exit",
              !.failed = IF a.failed = "late" THEN "late" ELSE "no"]

\* Seeded fault: a second request replaces the first one.
RequestExit_Again(p, what) ==
    /\ Looping(p)
    /\ \E a \in CheckReady([Requested(app[p], what) EXCEPT
                 !.approved = IF app[p].pending THEN app[p].approved ELSE what]) :
          Become(p, a)
    /\ UNCHANGED <<lock, database>>

\* RuntimeLifecycle.exit and restore: only the first request counts.
RequestExit(p, what) ==
    /\ Looping(p) /\ ~app[p].pending
    /\ \E a \in CheckReady(Requested(app[p], what)) : Become(p, a)
    /\ UNCHANGED <<lock, database>>

\* The event loop ends for a reason of its own.
LoopEnds(p) ==
    /\ app[p].phase = "running"
    /\ Become(p, [app[p] EXCEPT !.phase = "drain"])
    /\ UNCHANGED <<lock, database>>
-----------------------------------------------------------------------------
(* After the event loop: wait_for_shutdown, the release and the replacement. *)

BeginDrain(p) ==
    /\ app[p].phase = "drain"
    /\ LET a == [app[p] EXCEPT !.phase = "draining", !.closing = TRUE]
       IN \E b \in (IF app[p].closing THEN {a} ELSE CheckReady(a)) : Become(p, b)
    /\ UNCHANGED <<lock, database>>

\* Waits for the next worker's thread and does what its finished signal would
\* have done; the last join checks readiness in any case.
Join(p) ==
    LET w == app[p].joined + 1
        a == [app[p] EXCEPT !.worker[w] = "idle", !.joined = w]
    IN /\ app[p].phase = "draining" /\ w \in Workers
       /\ app[p].worker[w] # "busy"
       /\ \E b \in (IF app[p].worker[w] = "ended" \/ w + 1 \notin Workers
                    THEN CheckReady(a) ELSE {a}) : Become(p, b)
       /\ UNCHANGED <<lock, database>>

\* The user closes the message box of a failed restore.
CloseDialog(p) ==
    /\ app[p].phase = "dialog"
    /\ Become(p, [app[p] EXCEPT !.phase = "draining"])
    /\ UNCHANGED <<lock, database>>

\* Seeded fault: the lock is given up as soon as the event loop has ended.
Release_Undrained(p) ==
    /\ app[p].phase \in {"drain", "draining"}
    /\ lock' = Nobody
    /\ Become(p, [app[p] EXCEPT !.phase = "released"])
    /\ UNCHANGED database

Release(p) ==
    /\ app[p].phase = "draining" /\ app[p].joined + 1 \notin Workers
    /\ lock' = Nobody
    /\ Become(p, [app[p] EXCEPT !.phase = "released"])
    /\ UNCHANGED database

\* The process ends, once it has started its replacement if it can.
Leave(p) ==
    /\ app[p].phase = "released"
    /\ \/ app' = [app EXCEPT ![p] = Off]
       \/ /\ app[p].restart
          /\ \E q \in Procs \ {p} :
                /\ app[q].phase = "off"
                /\ app' = [app EXCEPT ![p] = Off, ![q] = [Off EXCEPT !.phase = "launched"]]
    /\ UNCHANGED <<lock, database>>

\* The process is killed, or the power goes; the data may suffer.
Crash(p) ==
    /\ app[p].phase # "off"
    /\ lock' = IF lock = p THEN Nobody ELSE lock
    /\ Become(p, Off)
    /\ \/ UNCHANGED database
       \/ lock = p /\ database' = "unreadable"
-----------------------------------------------------------------------------
Init ==
    /\ lock = Nobody
    /\ database = "readable"
    /\ app = [p \in Procs |-> Off]

\* What a process does whether anybody uses it or not.
Proceeds(p) ==
    \/ \E w \in Workers : WorkerEnds(p, w) \/ ReceiveEnd(p, w)
    \/ BeginDrain(p) \/ Join(p) \/ Release(p) \/ Leave(p)

Next ==
    \E p \in Procs :
        \/ Launch(p) \/ TryAcquire(p) \/ OpenDatabase(p) \/ RecoverDatabase(p)
        \/ \E w \in Workers : StartWorker(p, w)
        \/ \E what \in {"exit", "update", "restore"} : RequestExit(p, what)
        \/ LoopEnds(p) \/ CloseDialog(p) \/ Crash(p)
        \/ Proceeds(p)

\* Cancelled threads end, the event loop delivers what is posted to it, and the
\* main thread runs on once its loop has ended.  Nobody has to use the program.
Fairness ==
    \A p \in Procs :
        /\ \A w \in Workers : WF_vars(WorkerEnds(p, w)) /\ WF_vars(ReceiveEnd(p, w))
        /\ WF_vars(BeginDrain(p)) /\ WF_vars(Join(p))
        /\ WF_vars(Release(p)) /\ WF_vars(Leave(p))

Spec == Init /\ [][Next]_vars /\ Fairness
-----------------------------------------------------------------------------
(* What the barrier promises. *)

Phases == {"off", "launched", "opening", "running", "dialog", "drain", "draining",
           "released"}

AppState ==
    [phase : Phases, worker : [Workers -> {"idle", "busy", "ended"}],
     joined : 0..(Controllers + 1), closing : BOOLEAN, readySent : BOOLEAN,
     pending : BOOLEAN, backup : BOOLEAN, command : BOOLEAN, restart : BOOLEAN,
     approved : {"nothing", "exit", "update", "restore"}, restored : BOOLEAN,
     failed : {"no", "yes", "late"}]

\* Types; readiness is announced only while the group is closing.
TypeOK ==
    /\ lock \in Procs \cup {Nobody}
    /\ database \in {"readable", "unreadable"}
    /\ app \in [Procs -> AppState]
    /\ \A p \in Procs : app[p].readySent => app[p].closing

\* p may read or write the data directory.
UsesData(p) ==
    \/ app[p].phase \in {"opening", "running", "dialog", "drain", "draining"}
    \/ \E w \in Workers : app[p].worker[w] = "busy"

\* Only the holder of the lock uses the data, unless its restore failed after its
\* event loop had ended: through exits, second launches, failed restores and
\* crashes, no thread outlives its process's hold on the lock (SingleInstanceGuard,
\* RuntimeLifecycle).
OwnerUsesData ==
    \A p \in Procs : UsesData(p) /\ app[p].failed # "late" => lock = p

\* A backup is restored, or tried, by the holder of the lock while no thread of
\* any process works (restore runs from the barrier's ready signal).
RestoreStep ==
    \A p \in Procs :
       \/ app[p].backup /\ ~app'[p].backup /\ app'[p].phase \notin {"off", "launched"}
       \/ ~app[p].restored /\ app'[p].restored
       => \/ \E q \in Procs : app[q].failed = "late"
          \/ /\ lock = p
             /\ \A q \in Procs, w \in Workers : app[q].worker[w] # "busy"
RestoreAlone == [][RestoreStep]_vars

Leaves(p, what) ==
    /\ app[p].restored <=> what = "restore"
    /\ app[p].restart <=> what \in {"update", "restore"}

\* When no restore has failed since anything was last asked, the first request is
\* carried out and no later one changes it (RuntimeLifecycle.request_exit).
FirstRequestServed ==
    \A p \in Procs :
        app[p].phase = "released" /\ app[p].failed = "no" => Leaves(p, app[p].approved)

\* A requested exit ends the process, or a failed restore hands it back to its
\* user: waiting for workers never stalls (unless the loop has ended before).
ExitCompletes ==
    \A p \in Procs :
        app[p].pending /\ app[p].failed # "late" ~> ~app[p].pending
=============================================================================
