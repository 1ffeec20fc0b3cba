-------------------------- MODULE AutomaticSyncProofs --------------------------
(***************************************************************************)
(* The schedule of synchronisation for any delays and any bounds: the      *)
(* timer stands for the request, a finish is not forgotten, and the delay  *)
(* of a failure is kept.                                                   *)
(*                                                                         *)
(* The last two are not inductive.  A request that is taken because it is  *)
(* due could take a finish along whose Undo window is open, were the       *)
(* request not at least as far away as the end of that window (Awaited).   *)
(* A delay could be credited to a connection that is not the observed one, *)
(* were the binding of a job that reports not the current one (Bound); and *)
(* it is kept because it is part of the retry delay of the current         *)
(* connection (Cooled).                                                    *)
(***************************************************************************)
EXTENDS AutomaticSync, TLAPS

Workers == [kind : {"none", "sync", "setup"}, automatic : BOOLEAN, of : Int,
            cancelled : BOOLEAN, phase : {"none", "running", "result", "end"}, after : Int]

Types ==
    /\ generation \in Nat /\ connected \in BOOLEAN
    /\ observed \in Int /\ requested \in Nat \cup {Never}
    /\ retry \in Nat /\ backoff \in Nat
    /\ closed \in BOOLEAN /\ running \in Int /\ timer \in Nat \cup {Never}
    /\ worker \in Workers
    /\ grace \in Nat /\ cooldown \in Int

\* A finish that is owed has a request, not before the end of its Undo window.
Awaited == owed = "yes" /\ ~closed => requested # Never /\ grace <= requested

\* A synchronisation that may still report is of the connection that is observed.
Bound ==
    worker.kind = "sync" /\ worker.phase \in {"running", "result"} =>
        /\ running # Nothing => running = observed
        /\ worker.of = generation => observed = Binding

\* The delay of the last failure is within the retry delay that counts.
Cooled == cooldown > 0 => observed = Binding /\ cooldown <= retry

IInv == Types /\ TimerMatchesRequest /\ Awaited /\ Bound /\ Cooled
-----------------------------------------------------------------------------
(* What the pieces of an action do. *)

LEMMA MaxFacts ==
    ASSUME NEW a \in Int, NEW b \in Int
    PROVE  /\ Max2(a, b) \in Int /\ a <= Max2(a, b) /\ b <= Max2(a, b)
           /\ Max2(a, b) \in {a, b}
BY DEF Max2

LEMMA AlarmFacts ==
    ASSUME NEW r \in Nat \cup {Never}, NEW delay \in Nat
    PROVE  /\ Alarm(r, delay) \in Nat \cup {Never}
           /\ Alarm(r, delay) = Never <=> r = Never
           /\ r <= Alarm(r, delay) /\ Alarm(r, delay) <= Max2(r, delay)
BY DEF Alarm, Max2, Never

LEMMA NextBackoffType ==
    ASSUME backoff \in Nat
    PROVE  NextBackoff \in Nat
BY AutomaticSyncAssumption DEF NextBackoff, Min2

LEMMA BindingType ==
    ASSUME Types
    PROVE  Binding \in Int /\ Binding # Nothing
BY DEF Types, Binding, NoBinding, Nothing

\* Observing keeps the delay that counts.
LEMMA ObserveKeeps ==
    ASSUME Types, Cooled, Observe, cooldown' = cooldown, UNCHANGED settings
    PROVE  /\ observed' \in Int /\ retry' \in Nat /\ backoff' \in Nat
           /\ observed' = Binding' /\ Cooled'
BY BindingType DEF Types, Cooled, Observe, RetryObserved, settings, Binding

LEMMA JobType ==
    ASSUME generation \in Nat, NEW kind \in {"sync", "setup"}, NEW automatic \in BOOLEAN
    PROVE  /\ Job(kind, automatic) \in Workers /\ Job(kind, automatic) # NoWorker
           /\ Job(kind, automatic).kind = kind /\ Job(kind, automatic).of = generation
           /\ Job(kind, automatic).phase = "running"
           /\ Job(kind, automatic).automatic = automatic
BY DEF Job, Workers, NoWorker, Never

LEMMA NoWorkerType ==
    /\ NoWorker \in Workers /\ NoWorker.kind = "none" /\ NoWorker.phase = "none"
BY DEF NoWorker, Workers, Never, Nothing

LEMMA InitHolds ==
    Init => IInv
<1> SUFFICES ASSUME Init
             PROVE  IInv
  OBVIOUS
<1>1. Types
  <2>1. generation \in Nat /\ connected \in BOOLEAN /\ closed \in BOOLEAN
    BY DEF Init
  <2>2. observed \in Int /\ requested \in Nat \cup {Never} /\ running \in Int /\ timer \in Nat \cup {Never}
    BY DEF Init, NoBinding, Nothing
  <2>3. retry \in Nat /\ backoff \in Nat /\ grace \in Nat /\ cooldown \in Int
    BY DEF Init
  <2>4. worker \in Workers
    BY NoWorkerType DEF Init
  <2> QED
    BY <2>1, <2>2, <2>3, <2>4 DEF Types
<1>2. TimerMatchesRequest
  BY DEF Init, TimerMatchesRequest, Busy, Max2, Never
<1>3. Awaited /\ Bound /\ Cooled
  BY NoWorkerType DEF Init, Awaited, Bound, Cooled
<1> QED
  BY <1>1, <1>2, <1>3 DEF IInv
-----------------------------------------------------------------------------
(* One lemma per action. *)

LEMMA StartSyncKeeps ==
    ASSUME IInv, NEW automatic \in BOOLEAN, StartSync(automatic), ~closed,
           UNCHANGED <<settings, closed, grace, cooldown>>
    PROVE  IInv'
<1>1. Types'
  BY JobType, BindingType, ObserveKeeps
     DEF IInv, StartSync, Types, settings, Never
<1>2. TimerMatchesRequest'
  BY JobType DEF IInv, StartSync, TimerMatchesRequest, Busy, Types
<1>3. Awaited'
  BY DEF IInv, StartSync, Awaited, IsDue, Types, Never
<1>4. Bound'
  BY ObserveKeeps, JobType DEF IInv, StartSync, Bound, Types, settings, Binding
<1>5. Cooled'
  BY ObserveKeeps DEF IInv, StartSync
<1> QED
  BY <1>1, <1>2, <1>3, <1>4, <1>5 DEF IInv

LEMMA PollKeeps ==
    ASSUME IInv, Poll
    PROVE  IInv'
<1>1. CASE IsDue
  BY <1>1, StartSyncKeeps DEF Poll
<1>2. CASE ~IsDue
  <2>1. /\ Observe /\ UNCHANGED <<settings, closed, grace, cooldown, running, worker>>
        /\ requested' = IF Binding = NoBinding THEN Never ELSE requested
        /\ owed' = IF Binding = NoBinding THEN "no" ELSE owed
        /\ timer' = Alarm(requested', retry')
        /\ ~closed /\ ~Busy
    BY <1>2 DEF Poll
  <2>2. observed' \in Int /\ retry' \in Nat /\ backoff' \in Nat /\ Cooled'
    BY <2>1, ObserveKeeps DEF IInv
  <2>3. requested' \in Nat \cup {Never}
    BY <2>1 DEF IInv, Types
  <2>4. /\ timer' \in Nat \cup {Never}
        /\ timer' = Never <=> requested' = Never
        /\ requested' <= timer' /\ timer' <= Max2(requested', retry')
    BY <2>1, <2>2, <2>3, AlarmFacts
  <2>5. Types'
    <3>1. /\ generation' = generation /\ connected' = connected /\ closed' = closed
          /\ grace' = grace /\ cooldown' = cooldown /\ running' = running /\ worker' = worker
      BY <2>1 DEF settings
    <3>2. /\ generation' \in Nat /\ connected' \in BOOLEAN /\ closed' \in BOOLEAN
          /\ running' \in Int /\ worker' \in Workers /\ grace' \in Nat /\ cooldown' \in Int
      BY <3>1 DEF IInv, Types
    <3> QED
      BY <2>2, <2>3, <2>4, <3>2 DEF Types
  <2>6. TimerMatchesRequest'
    BY <2>1, <2>4 DEF TimerMatchesRequest, Busy
  <2>7. Awaited'
    BY <2>1 DEF IInv, Awaited
  <2>8. Bound'
    BY <2>1, NoWorkerType DEF Bound, Busy
  <2> QED
    BY <2>2, <2>5, <2>6, <2>7, <2>8 DEF IInv
<1> QED
  BY <1>1, <1>2

LEMMA WorkerEndsKeeps ==
    ASSUME IInv, WorkerEnds
    PROVE  IInv'
<1>1. /\ UNCHANGED <<settings, schedule, closed, running, timer, history, events>>
      /\ worker.phase = "running" /\ worker'.phase = "result" /\ worker' \in Workers
      /\ worker'.kind = worker.kind /\ worker'.of = worker.of
  <2>1. worker.phase = "running" /\ worker \in Workers
    BY DEF IInv, Types, WorkerEnds
  <2>2. \/ worker' = [worker EXCEPT !.phase = "result"]
        \/ \E after \in Int : worker' = [worker EXCEPT !.phase = "result", !.after = after]
    <3>1. (IF worker.cancelled THEN {0} ELSE RetryAfters) \subseteq Int
      BY AutomaticSyncAssumption
    <3> QED
      BY <3>1 DEF WorkerEnds
  <2>3. /\ worker'.phase = "result" /\ worker' \in Workers
        /\ worker'.kind = worker.kind /\ worker'.of = worker.of
    BY <2>1, <2>2 DEF Workers
  <2> QED
    BY <2>1, <2>3 DEF WorkerEnds
<1>2. Busy /\ Busy'
  BY <1>1, NoWorkerType DEF Busy
<1>3. Types' /\ Awaited' /\ Cooled'
  BY <1>1 DEF IInv, Types, Awaited, Cooled, Binding, settings, schedule, history
<1>4. TimerMatchesRequest'
  BY <1>1, <1>2 DEF IInv, TimerMatchesRequest, settings, schedule, history
<1>5. Bound'
  BY <1>1 DEF IInv, Bound, Binding, settings, schedule, history
<1> QED
  BY <1>3, <1>4, <1>5 DEF IInv

LEMMA ReceiveResultKeeps ==
    ASSUME IInv, ReceiveResult
    PROVE  IInv'
<1>1. /\ UNCHANGED <<settings, observed, requested, closed, timer, grace, owed, events>>
      /\ worker.phase = "result" /\ worker'.phase = "end" /\ worker' \in Workers
  BY DEF IInv, Types, ReceiveResult, Workers
<1>2. Busy /\ Busy'
  BY <1>1, NoWorkerType DEF Busy
<1>3. TimerMatchesRequest' /\ Awaited' /\ Bound'
  BY <1>1, <1>2 DEF IInv, TimerMatchesRequest, Awaited, Bound
<1>4. CASE Reports /\ worker.kind = "sync" /\ running # Nothing
  <2>1. /\ running = observed /\ observed = Binding /\ ~closed
        /\ Finished(running, worker.after) /\ running' = Nothing
        /\ cooldown' = Max2(worker.after, 0)
    BY <1>1, <1>4 DEF IInv, Bound, ReceiveResult, Reports
  <2>2. worker.after \in Int
    BY DEF IInv, Types, Workers
  <2>3. /\ retry' \in Nat /\ backoff' \in Nat /\ cooldown' \in Int
        /\ cooldown' > 0 => cooldown' <= retry'
    BY <2>1, <2>2, NextBackoffType DEF IInv, Types, Finished, Max2, Never
  <2>4. Types'
    BY <1>1, <2>1, <2>3 DEF IInv, Types, settings, Nothing
  <2>5. Cooled'
    BY <1>1, <2>1, <2>3 DEF Cooled, Binding, settings
  <2> QED
    BY <1>3, <2>4, <2>5 DEF IInv
<1>5. CASE ~(Reports /\ worker.kind = "sync" /\ running # Nothing)
  <2>1. UNCHANGED <<retry, backoff, running, cooldown>>
    BY <1>5 DEF ReceiveResult
  <2> QED
    BY <1>1, <1>3, <2>1 DEF IInv, Types, Cooled, Binding, settings
<1> QED
  BY <1>4, <1>5

LEMMA ReceiveEndKeeps ==
    ASSUME IInv, ReceiveEnd
    PROVE  IInv'
<1>1. /\ UNCHANGED <<settings, schedule, closed, running, history, events>>
      /\ worker' = NoWorker /\ timer' = IF closed THEN Never ELSE Alarm(requested, retry)
  BY DEF ReceiveEnd
<1>2. /\ Alarm(requested, retry) \in Nat \cup {Never}
      /\ Alarm(requested, retry) = Never <=> requested = Never
      /\ requested <= Alarm(requested, retry) /\ Alarm(requested, retry) <= Max2(requested, retry)
  BY AlarmFacts DEF IInv, Types
<1>3. Types' /\ Awaited' /\ Bound' /\ Cooled'
  BY <1>1, <1>2, NoWorkerType
     DEF IInv, Types, Awaited, Bound, Cooled, Binding, settings, schedule, history
<1>4. TimerMatchesRequest'
  BY <1>1, <1>2 DEF TimerMatchesRequest, Busy, schedule
<1> QED
  BY <1>3, <1>4 DEF IInv

LEMMA JobConnectsKeeps ==
    ASSUME IInv, JobConnects
    PROVE  IInv'
BY DEF IInv, Types, TimerMatchesRequest, Awaited, Bound, Cooled, JobConnects, Busy, schedule

LEMMA WorkFinishedKeeps ==
    ASSUME IInv, WorkFinished
    PROVE  IInv'
<1>1. /\ UNCHANGED <<settings, observed, retry, backoff, closed, running, worker, cooldown>>
      /\ requested' = Grace /\ grace' = Grace
      /\ timer' = IF Busy THEN Never ELSE Alarm(Grace, retry)
  BY DEF WorkFinished
<1>2. /\ Alarm(Grace, retry) \in Nat \cup {Never}
      /\ Alarm(Grace, retry) = Never <=> Grace = Never
      /\ Grace <= Alarm(Grace, retry) /\ Alarm(Grace, retry) <= Max2(Grace, retry)
  BY AlarmFacts, AutomaticSyncAssumption DEF IInv, Types
<1>3. Types' /\ Awaited' /\ Bound' /\ Cooled'
  BY <1>1, <1>2, AutomaticSyncAssumption
     DEF IInv, Types, Awaited, Bound, Cooled, Binding, settings, Never
<1>4. TimerMatchesRequest'
  BY <1>1, <1>2 DEF TimerMatchesRequest, Busy, WorkFinished
<1> QED
  BY <1>3, <1>4 DEF IInv

LEMMA SyncNowKeeps ==
    ASSUME IInv, SyncNow
    PROVE  IInv'
BY StartSyncKeeps DEF SyncNow

LEMMA StartSetupKeeps ==
    ASSUME IInv, StartSetup
    PROVE  IInv'
<1>1. /\ UNCHANGED <<settings, schedule, closed, running, history>>
      /\ worker' = Job("setup", FALSE) /\ timer' = Never
  BY DEF StartSetup
<1>2. Types' /\ Awaited' /\ Bound' /\ Cooled'
  BY <1>1, JobType DEF IInv, Types, Awaited, Bound, Cooled, Binding, settings, schedule, history
<1>3. TimerMatchesRequest'
  BY <1>1, JobType DEF IInv, Types, TimerMatchesRequest, Busy
<1> QED
  BY <1>2, <1>3 DEF IInv

\* A job that is told to stop keeps what it is of.
LEMMA CancelledKeeps ==
    ASSUME Types, Bound, Busy, worker' = [worker EXCEPT !.cancelled = TRUE],
           UNCHANGED <<settings, observed, running>>
    PROVE  worker' \in Workers /\ Busy' /\ Bound'
<1>1. /\ worker' \in Workers /\ worker'.cancelled = TRUE
      /\ worker'.kind = worker.kind /\ worker'.of = worker.of /\ worker'.phase = worker.phase
  BY DEF Types, Workers
<1>2. NoWorker.cancelled = FALSE
  BY DEF NoWorker
<1>3. Busy'
  BY <1>1, <1>2 DEF Busy
<1>4. Bound'
  BY <1>1 DEF Bound, Binding, settings
<1> QED
  BY <1>1, <1>3, <1>4

LEMMA CancelKeeps ==
    ASSUME IInv, Cancel
    PROVE  IInv'
<1>1. /\ UNCHANGED <<settings, schedule, closed, running, timer, history>>
      /\ Busy /\ worker' = [worker EXCEPT !.cancelled = TRUE]
  BY DEF Cancel
<1>2. worker' \in Workers /\ Busy' /\ Bound'
  BY <1>1, CancelledKeeps DEF IInv, schedule
<1>3. Types' /\ Awaited' /\ Cooled'
  BY <1>1, <1>2 DEF IInv, Types, Awaited, Cooled, Binding, settings, schedule, history
<1>4. TimerMatchesRequest'
  BY <1>1, <1>2 DEF IInv, TimerMatchesRequest, schedule
<1> QED
  BY <1>2, <1>3, <1>4 DEF IInv

LEMMA SaveConnectionKeeps ==
    ASSUME IInv, SaveConnection
    PROVE  IInv'
<1>1. ~(worker.kind = "sync" /\ worker.phase \in {"running", "result"})
  BY NoWorkerType DEF SaveConnection, Busy
<1>2. /\ UNCHANGED <<schedule, closed, running, timer, worker, grace, owed>>
      /\ generation' \in Nat /\ connected' \in BOOLEAN /\ cooldown' = 0
  <2>1. generation' \in Nat
    BY DEF IInv, Types, SaveConnection
  <2>2. connected' \in BOOLEAN
    BY DEF SaveConnection
  <2> QED
    BY <2>1, <2>2 DEF SaveConnection
<1>3. Types' /\ Awaited' /\ Bound' /\ Cooled'
  BY <1>1, <1>2 DEF IInv, Types, Awaited, Bound, Cooled, schedule
<1>4. TimerMatchesRequest'
  BY <1>2 DEF IInv, TimerMatchesRequest, Busy, schedule
<1> QED
  BY <1>3, <1>4 DEF IInv

LEMMA DisconnectKeeps ==
    ASSUME IInv, Disconnect
    PROVE  IInv'
<1>1. worker.kind # "sync"
  BY NoWorkerType DEF Disconnect, Busy
<1>2. /\ UNCHANGED <<schedule, closed, running, timer, worker, grace, owed>>
      /\ generation' \in Nat /\ connected' \in BOOLEAN /\ cooldown' = 0
  BY DEF IInv, Types, Disconnect
<1>3. Types' /\ Awaited' /\ Bound' /\ Cooled'
  BY <1>1, <1>2 DEF IInv, Types, Awaited, Bound, Cooled, schedule
<1>4. TimerMatchesRequest'
  BY <1>2 DEF IInv, TimerMatchesRequest, Busy, schedule
<1> QED
  BY <1>3, <1>4 DEF IInv

LEMMA BeginShutdownKeeps ==
    ASSUME IInv, BeginShutdown
    PROVE  IInv'
<1>1. /\ UNCHANGED <<settings, observed, retry, backoff, running, history, events>>
      /\ closed' = TRUE /\ timer' = Never /\ requested' = Never
      /\ worker' = IF Busy THEN [worker EXCEPT !.cancelled = TRUE] ELSE worker
  BY DEF BeginShutdown
<1>2. worker' \in Workers /\ Bound'
  <2>1. CASE Busy
    BY <1>1, <2>1, CancelledKeeps DEF IInv
  <2>2. CASE ~Busy
    BY <1>1, <2>2 DEF IInv, Types, Bound, Binding, settings
  <2> QED
    BY <2>1, <2>2
<1>3. Types' /\ Awaited' /\ Cooled'
  BY <1>1, <1>2 DEF IInv, Types, Awaited, Cooled, Binding, settings, history
<1>4. TimerMatchesRequest'
  BY <1>1 DEF TimerMatchesRequest
<1> QED
  BY <1>2, <1>3, <1>4 DEF IInv

LEMMA ResumeKeeps ==
    ASSUME IInv, Resume
    PROVE  IInv'
<1>1. -Abs(cooldown) \in Int /\ -Abs(cooldown) <= 0
  BY DEF IInv, Types, Abs
<1>2. /\ UNCHANGED <<settings, observed, worker, grace>>
      /\ ~Busy /\ closed' = FALSE /\ running' = Nothing
      /\ requested' = 0 /\ retry' = 0 /\ backoff' = 0 /\ timer' = 0
      /\ owed' = OwedAtStart /\ cooldown' = -Abs(cooldown)
  BY DEF Resume
<1>3. Types' /\ Cooled'
  <2>1. /\ generation' = generation /\ connected' = connected /\ observed' = observed
        /\ worker' = worker /\ grace' = grace
    BY <1>2 DEF settings
  <2>2. requested' \in Nat \cup {Never} /\ retry' \in Nat /\ backoff' \in Nat /\ running' \in Int
    BY <1>2 DEF Nothing
  <2>3. timer' \in Nat \cup {Never} /\ cooldown' \in Int /\ ~(cooldown' > 0)
    BY <1>1, <1>2
  <2>4. closed' \in BOOLEAN
    BY <1>2
  <2> QED
    BY <2>1, <2>2, <2>3, <2>4 DEF IInv, Types, Cooled
<1>4. Awaited'
  BY <1>2 DEF IInv, Types, Awaited, OwedAtStart, Never
<1>5. TimerMatchesRequest' /\ Bound'
  BY <1>2, NoWorkerType DEF TimerMatchesRequest, Bound, Busy, Max2, Never
<1> QED
  BY <1>3, <1>4, <1>5 DEF IInv

LEMMA ReopenKeeps ==
    ASSUME IInv, Reopen
    PROVE  IInv'
<1>1. /\ UNCHANGED <<settings, grace>>
      /\ closed' = FALSE /\ running' = Nothing /\ worker' = NoWorker /\ observed' = NoBinding
      /\ requested' = 0 /\ retry' = 0 /\ backoff' = 0 /\ timer' = 0
      /\ owed' = OwedAtStart /\ cooldown' = 0
  BY DEF Reopen
<1>2. Types' /\ Cooled'
  <2>1. generation' = generation /\ connected' = connected /\ grace' = grace
    BY <1>1 DEF settings
  <2>2. requested' \in Nat \cup {Never} /\ retry' \in Nat /\ backoff' \in Nat /\ running' \in Int
    BY <1>1 DEF Nothing
  <2>3. timer' \in Nat \cup {Never} /\ cooldown' \in Int /\ ~(cooldown' > 0)
    BY <1>1
  <2>5. closed' \in BOOLEAN
    BY <1>1
  <2>4. observed' \in Int /\ worker' \in Workers
    BY <1>1, NoWorkerType DEF NoBinding
  <2> QED
    BY <2>1, <2>2, <2>3, <2>4, <2>5 DEF IInv, Types, Cooled
<1>3. Awaited'
  BY <1>1 DEF IInv, Types, Awaited, OwedAtStart, Never
<1>4. TimerMatchesRequest' /\ Bound'
  BY <1>1, NoWorkerType DEF TimerMatchesRequest, Bound, Busy, Max2, Never
<1> QED
  BY <1>2, <1>3, <1>4 DEF IInv

LEMMA TickKeeps ==
    ASSUME IInv, Tick
    PROVE  IInv'
<1>1. /\ UNCHANGED <<settings, observed, backoff, closed, running, worker, owed, events>>
      /\ requested' = Less(requested) /\ retry' = Less(retry) /\ timer' = Less(timer)
      /\ grace' = Less(grace)
      /\ cooldown' = IF cooldown < 0 THEN cooldown + 1 ELSE Less(cooldown)
  BY DEF Tick
<1>2. Types'
  BY <1>1 DEF IInv, Types, Less, settings, Never
<1>3. TimerMatchesRequest'
  BY <1>1 DEF IInv, Types, TimerMatchesRequest, Busy, Less, Max2, Never
<1>4. Awaited'
  BY <1>1 DEF IInv, Types, Awaited, Less, Never
<1>5. Bound' /\ Cooled'
  BY <1>1 DEF IInv, Types, Bound, Cooled, Less, Binding, settings
<1> QED
  BY <1>2, <1>3, <1>4, <1>5 DEF IInv
-----------------------------------------------------------------------------
LEMMA StepKeeps ==
    ASSUME IInv, [Next]_vars
    PROVE  IInv'
<1>1. CASE UNCHANGED vars
  BY <1>1 DEF vars, IInv, Types, TimerMatchesRequest, Awaited, Bound, Cooled, Busy, Binding,
              settings, schedule, history
<1>2. CASE WorkerNext
  BY <1>2, WorkerEndsKeeps, ReceiveResultKeeps, ReceiveEndKeeps, JobConnectsKeeps DEF WorkerNext
<1>3. CASE UserNext
  BY <1>3, WorkFinishedKeeps, SyncNowKeeps, StartSetupKeeps, CancelKeeps, SaveConnectionKeeps,
     DisconnectKeeps DEF UserNext
<1> QED
  BY <1>1, <1>2, <1>3, PollKeeps, BeginShutdownKeeps, ResumeKeeps, ReopenKeeps, TickKeeps DEF Next

LEMMA IInvHolds == Spec => []IInv
<1>1. Init => IInv
  BY InitHolds
<1>2. IInv /\ [Next]_vars => IInv'
  BY StepKeeps
<1> QED
  BY <1>1, <1>2, PTL DEF Spec

\* No wake-up is lost (_arm): whenever the worker is free a request has a timer,
\* and a timer a request.
THEOREM TimerMatchesRequestHolds == Spec => []TimerMatchesRequest
<1>1. IInv => TimerMatchesRequest
  BY DEF IInv
<1> QED
  BY <1>1, IInvHolds, PTL

\* A finish that is owed has a request (work_finished, started), unless the process
\* started again within its Undo window.
THEOREM FinishIsKept == Spec => []FinishIsNeverForgotten
<1>1. IInv => FinishIsNeverForgotten
  BY DEF IInv, Awaited, FinishIsNeverForgotten
<1> QED
  BY <1>1, IInvHolds, PTL

\* No automatic job starts within the delay the last failure asked for (finished).
THEOREM CooldownKept == Spec => CooldownHonoured
<1> DEFINE Honoured == ~Busy /\ Busy' /\ worker'.automatic => cooldown <= 0
<1>1. ASSUME IInv, [Next]_vars
      PROVE  [Honoured]_vars
  <2> SUFFICES ASSUME Next, ~Busy, Busy', worker'.automatic
               PROVE  cooldown <= 0
    BY <1>1
  <2>1. CASE Poll /\ IsDue
    BY <1>1, <2>1 DEF IInv, Types, Cooled, IsDue, RetryObserved
  <2>2. ~(Poll /\ ~IsDue) /\ ~SyncNow /\ ~StartSetup
    BY <1>1, JobType DEF Poll, SyncNow, StartSync, StartSetup, Busy, IInv, Types
  <2>3. ~WorkerNext
    BY NoWorkerType DEF WorkerNext, WorkerEnds, ReceiveResult, ReceiveEnd, JobConnects, Busy
  <2>4. ~WorkFinished /\ ~Cancel /\ ~SaveConnection /\ ~Disconnect
    BY DEF WorkFinished, Cancel, SaveConnection, Disconnect, Busy
  <2>5. ~BeginShutdown /\ ~Resume /\ ~Reopen /\ ~Tick
    BY DEF BeginShutdown, Resume, Reopen, Tick, Busy
  <2> QED
    BY <2>1, <2>2, <2>3, <2>4, <2>5 DEF Next, UserNext
<1> QED
  BY <1>1, IInvHolds, PTL DEF Spec, CooldownHonoured
=============================================================================
