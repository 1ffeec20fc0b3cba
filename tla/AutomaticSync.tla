---------------------------- MODULE AutomaticSync ----------------------------
(***************************************************************************)
(* When a synchronisation job runs: the schedule (SyncSchedule), the       *)
(* one-shot timer around it (AutomaticSyncController), the one owned       *)
(* worker thread (GoogleSyncController) that manual jobs share, and the    *)
(* settings the jobs are bound to.                                         *)
(*                                                                         *)
(* Every slot runs to its end on the Qt main thread, so a slot with the    *)
(* slots it signals directly is one action.  The worker thread posts its   *)
(* result and then its end; the main thread receives them in that order,   *)
(* other slots in between.  Instants are kept as the time left until them, *)
(* so the model needs no bound on time.                                    *)
(***************************************************************************)
EXTENDS Integers

CONSTANTS
    Grace,            \* the 30 seconds work_finished waits for an Undo
    BackoffUnit, BackoffCap,   \* the 15 and the 300 seconds of the failure backoff
    RetryAfters,      \* delays a failed job asks for; 0 when it asks for none
    MaxGeneration,    \* bound of the model: how often the connection is replaced
    MaxEvents         \* bound of the model: how often the user does something

ASSUME AutomaticSyncAssumption ==
    /\ Grace \in Nat /\ BackoffUnit \in Nat \ {0} /\ BackoffCap \in Nat \ {0}
    /\ RetryAfters \subseteq Nat
    /\ MaxGeneration \in Nat /\ MaxEvents \in Nat

VARIABLES
    generation, connected,  \* settings and credentials: is the generation usable?
    observed,   \* SyncSchedule._binding
    requested,  \* time left until _requested_at; Never without a request
    retry,      \* time left until _retry_at; 0 when there is none or it passed
    backoff,    \* backoff of the last failure; 0 after a success (_failures)
    closed,     \* _closing, _closed of schedule, controller and worker: set together
    running,    \* AutomaticSyncController._running
    timer,      \* time left of the one-shot timer; Never when stopped
    worker,     \* the owned worker thread
    grace,      \* history: what is left of the Undo window of the last finish
    owed,       \* history: "yes" until that finish is offered to a synchronisation,
                \* "cut" if the process started again before it could be, else "no"
    cooldown,   \* history: time left of a delay the last failure asked for; below 0
                \* once a shutdown that was called off has discarded that delay
    events      \* bound of the model: user events so far

settings == <<generation, connected>>
schedule == <<observed, requested, retry, backoff>>
history == <<grace, owed, cooldown>>
vars == <<settings, schedule, closed, running, timer, worker, history, events>>

Never == -1
NoBinding == -1
Nothing == -2
NoWorker == [kind |-> "none", automatic |-> FALSE, of |-> Nothing, cancelled |-> FALSE,
             phase |-> "none", after |-> Never]

Busy == worker # NoWorker
Max2(a, b) == IF a >= b THEN a ELSE b
Min2(a, b) == IF a <= b THEN a ELSE b

\* schedule_state: an authorised computer with a migrated target, or nothing.
Binding == IF connected THEN generation ELSE NoBinding

\* min(15 * 2^(failures - 1), 300): doubling the last backoff gives the next.
NextBackoff == Min2(IF backoff = 0 THEN BackoffUnit ELSE 2 * backoff, BackoffCap)
-----------------------------------------------------------------------------
(* SyncSchedule. *)

\* _observe: another binding than before starts without retry delay.
RetryObserved == IF observed = Binding THEN retry ELSE 0
Observe ==
    /\ observed' = Binding
    /\ retry' = RetryObserved
    /\ backoff' = IF observed = Binding THEN backoff ELSE 0

IsDue == ~closed /\ Binding # NoBinding /\ requested = 0 /\ RetryObserved = 0

\* _arm: the time left until a request may run.
Alarm(request, delay) == IF request = Never THEN Never ELSE Max2(request, delay)

\* Seeded fault: a failure does not wait for what the server asked for.
Finished_IgnoresServer(of, after) ==
    IF closed \/ of # observed THEN UNCHANGED <<retry, backoff>>
    ELSE IF after = Never THEN retry' = 0 /\ backoff' = 0
    ELSE retry' = NextBackoff /\ backoff' = NextBackoff

\* finished: of the job bound to "of", which asks to wait "after" if it failed.
Finished(of, after) ==
    IF closed \/ of # observed THEN UNCHANGED <<retry, backoff>>
    ELSE IF after = Never THEN retry' = 0 /\ backoff' = 0
    ELSE retry' = Max2(NextBackoff, after) /\ backoff' = NextBackoff
-----------------------------------------------------------------------------
(* Jobs. *)

Job(kind, automatic) == [kind |-> kind, automatic |-> automatic, of |-> generation,
                         cancelled |-> FALSE, phase |-> "running", after |-> Never]

\* Seeded fault: a manual job takes the request along before its time.
StartSync_TakesRequest(automatic) ==
    /\ worker' = Job("sync", automatic) /\ running' = Binding /\ timer' = Never
    /\ Observe
    /\ requested' = Never
    /\ owed' = IF grace = 0 /\ Binding # NoBinding THEN "no" ELSE owed

\* start("sync"): the timer stops, the request is taken if it is due.
StartSync(automatic) ==
    /\ worker' = Job("sync", automatic) /\ running' = Binding /\ timer' = Never
    /\ Observe
    /\ requested' = IF IsDue THEN Never ELSE requested
    /\ owed' = IF grace = 0 /\ Binding # NoBinding THEN "no" ELSE owed

\* poll, when the timer fires: without a connection the request is dropped; a
\* request whose turn has not come is waited for again.  The worker is free:
\* the timer is stopped while there is one (TimerMatchesRequest).
Poll ==
    /\ timer = 0 /\ ~closed /\ ~Busy
    /\ IF IsDue THEN StartSync(TRUE)
       ELSE /\ Observe
            /\ requested' = IF Binding = NoBinding THEN Never ELSE requested
            /\ owed' = IF Binding = NoBinding THEN "no" ELSE owed
            /\ timer' = Alarm(requested', retry')
            /\ UNCHANGED <<running, worker>>
    /\ UNCHANGED <<settings, closed, grace, cooldown, events>>

\* The thread ends; the main thread will receive its result, then its end.
WorkerEnds ==
    /\ worker.phase = "running"
    /\ \/ /\ ~worker.cancelled
          /\ worker' = [worker EXCEPT !.phase = "result"]
       \/ \E after \in (IF worker.cancelled THEN {0} ELSE RetryAfters) :
             worker' = [worker EXCEPT !.phase = "result", !.after = after]
    /\ UNCHANGED <<settings, schedule, closed, running, timer, history, events>>

\* A job may report while nothing closes and its connection was not replaced.
Reports == ~closed /\ worker.of = generation /\ (worker.automatic => connected)

\* completed or failed, delivered.
ReceiveResult ==
    /\ worker.phase = "result"
    /\ worker' = [worker EXCEPT !.phase = "end"]
    /\ IF Reports /\ worker.kind = "sync" /\ running # Nothing
       THEN /\ Finished(running, worker.after) /\ running' = Nothing
            /\ cooldown' = Max2(worker.after, 0)
       ELSE UNCHANGED <<retry, backoff, running, cooldown>>
    /\ UNCHANGED <<settings, observed, requested, closed, timer, grace, owed, events>>

\* Seeded fault: requests that came during the job are not looked for.
ReceiveEnd_NoArm ==
    /\ worker.phase = "end"
    /\ worker' = NoWorker
    /\ UNCHANGED <<settings, schedule, closed, running, timer, history, events>>

\* Seeded fault: nothing is done for a worker that ends during a shutdown.
ReceiveEnd_NotClosing ==
    /\ worker.phase = "end" /\ ~closed
    /\ worker' = NoWorker
    /\ timer' = Alarm(requested, retry)
    /\ UNCHANGED <<settings, schedule, closed, running, history, events>>

\* finished, delivered: the worker is free and the timer armed again.
ReceiveEnd ==
    /\ worker.phase = "end"
    /\ worker' = NoWorker
    /\ timer' = IF closed THEN Never ELSE Alarm(requested, retry)
    /\ UNCHANGED <<settings, schedule, closed, running, history, events>>

\* Authorising this computer, or completing its migration, makes the saved
\* connection usable while the job still runs.
JobConnects ==
    /\ worker.kind = "setup" /\ worker.phase = "running" /\ ~connected
    /\ connected' = TRUE /\ cooldown' = 0
    /\ UNCHANGED <<generation, schedule, closed, running, timer, worker, grace, owed, events>>
-----------------------------------------------------------------------------
(* The user. *)

UserEvent == events < MaxEvents /\ events' = events + 1

\* finish_work committed (see TimeTracking!FinishWork).
WorkFinished ==
    /\ UserEvent /\ ~closed
    /\ requested' = Grace
    /\ timer' = IF Busy THEN Never ELSE Alarm(Grace, retry)
    /\ grace' = Grace /\ owed' = "yes"
    /\ UNCHANGED <<settings, observed, retry, backoff, closed, running, worker, cooldown>>

\* "Save and sync now", after SaveConnection when the form holds new values.
SyncNow ==
    /\ UserEvent /\ ~closed /\ ~Busy
    /\ StartSync(FALSE)
    /\ UNCHANGED <<settings, closed, grace, cooldown>>

\* Authorisation, migration or the resolution of a conflict.
StartSetup ==
    /\ UserEvent /\ ~closed /\ ~Busy
    /\ worker' = Job("setup", FALSE) /\ timer' = Never
    /\ UNCHANGED <<settings, schedule, closed, running, history>>

Cancel ==
    /\ UserEvent /\ Busy /\ ~worker.cancelled
    /\ worker' = [worker EXCEPT !.cancelled = TRUE]
    /\ UNCHANGED <<settings, schedule, closed, running, timer, history>>

\* GoogleSyncSettings.save with other values.  The buttons are disabled while a
\* job runs, but a successful sync enables them before the worker has ended.
SaveConnection ==
    /\ UserEvent /\ ~closed /\ generation < MaxGeneration
    /\ ~Busy \/ (worker.phase = "end" /\ worker.kind = "sync" /\ worker.after = Never)
    /\ generation' = generation + 1 /\ connected' = FALSE /\ cooldown' = 0
    /\ UNCHANGED <<schedule, closed, running, timer, worker, grace, owed>>

Disconnect ==
    /\ UserEvent /\ ~closed /\ ~Busy /\ connected
    /\ connected' = FALSE /\ cooldown' = 0
    /\ UNCHANGED <<generation, schedule, closed, running, timer, worker, grace, owed>>
-----------------------------------------------------------------------------
(* Shutdown (RuntimeLifecycle) and time. *)

BeginShutdown ==
    /\ ~closed /\ closed' = TRUE
    /\ timer' = Never /\ requested' = Never
    /\ worker' = IF Busy THEN [worker EXCEPT !.cancelled = TRUE] ELSE worker
    /\ UNCHANGED <<settings, observed, retry, backoff, running, history, events>>

\* A process that starts, or goes on, makes a request for everything before it.
OwedAtStart == IF owed = "yes" /\ grace > 0 THEN "cut" ELSE owed
Abs(n) == IF n < 0 THEN -n ELSE n

\* The restore the shutdown was for failed: the process goes on.
Resume ==
    /\ UserEvent /\ closed /\ ~Busy /\ closed' = FALSE
    /\ running' = Nothing
    /\ requested' = 0 /\ retry' = 0 /\ backoff' = 0 /\ timer' = 0
    /\ owed' = OwedAtStart /\ cooldown' = -Abs(cooldown)
    /\ UNCHANGED <<settings, observed, worker, grace>>

\* The process ends, orderly or not, and is opened again.
Reopen ==
    /\ UserEvent
    /\ closed' = FALSE /\ running' = Nothing /\ worker' = NoWorker
    /\ observed' = NoBinding /\ requested' = 0 /\ retry' = 0 /\ backoff' = 0 /\ timer' = 0
    /\ owed' = OwedAtStart /\ cooldown' = 0
    /\ UNCHANGED <<settings, grace>>

Less(left) == IF left > 0 THEN left - 1 ELSE left

Tick ==
    /\ requested' = Less(requested) /\ retry' = Less(retry) /\ timer' = Less(timer)
    /\ grace' = Less(grace)
    /\ cooldown' = IF cooldown < 0 THEN cooldown + 1 ELSE Less(cooldown)
    /\ UNCHANGED <<settings, observed, backoff, closed, running, worker, owed, events>>
-----------------------------------------------------------------------------
Init ==
    /\ generation = 0 /\ connected \in BOOLEAN
    /\ observed = NoBinding /\ requested = 0 /\ retry = 0 /\ backoff = 0
    /\ closed = FALSE /\ running = Nothing /\ timer = 0 /\ worker = NoWorker
    /\ grace = 0 /\ owed = "no" /\ cooldown = 0
    /\ events = 0

WorkerNext == WorkerEnds \/ ReceiveResult \/ ReceiveEnd \/ JobConnects
UserNext == WorkFinished \/ SyncNow \/ StartSetup \/ Cancel \/ SaveConnection \/ Disconnect

\* The lifecycle: shutdowns, shutdowns called off, and further openings.
Next == Poll \/ WorkerNext \/ UserNext \/ BeginShutdown \/ Resume \/ Reopen \/ Tick

\* The event loop delivers what is posted and fires timers that ran out; a job
\* ends, since it polls its cancellation and has a deadline of two minutes; time
\* passes.  Nothing is assumed of the user.
Fairness ==
    /\ WF_vars(Poll) /\ WF_vars(Tick)
    /\ WF_vars(WorkerEnds) /\ WF_vars(ReceiveResult) /\ WF_vars(ReceiveEnd)

Spec == Init /\ [][Next]_vars /\ Fairness
-----------------------------------------------------------------------------
(* Properties. *)

\* No lost wake-up: whenever the worker is free a request has a timer, which
\* fires as soon as the request may run and not before the Undo window is over;
\* whatever else takes the worker stops it, and gives it back (_arm).
TimerMatchesRequest ==
    IF Busy \/ closed THEN timer = Never
    ELSE /\ timer = Never <=> requested = Never
         /\ requested <= timer /\ timer <= Max2(requested, retry)

\* A Finish work is offered to a synchronisation once its Undo window is over,
\* unless the process started again within that window: whatever manual jobs,
\* cancellations, failures and replaced connections come between, the request
\* stands (work_finished, started).
FinishIsNeverForgotten == owed = "yes" /\ ~closed => requested # Never

\* No automatic job starts within the delay the last failure asked for, unless a
\* shutdown was called off meanwhile: no sequence of manual and setup jobs, new
\* requests and late results shortens it (finished).
CooldownHonoured ==
    [][~Busy /\ Busy' /\ worker'.automatic => cooldown <= 0]_vars

\* Every request is served, or dropped for want of a connection or of a process.
RequestIsServed == requested # Never ~> requested = Never

\* A shutdown ends with the worker's thread gone.
ShutdownDrains == closed ~> ~Busy
=============================================================================
