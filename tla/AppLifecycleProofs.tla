------------------------- MODULE AppLifecycleProofs -------------------------
(***************************************************************************)
(* Ownership of the data directory for any number of processes and         *)
(* controllers.  OwnerUsesData is not inductive: that no thread works when *)
(* the lock is given up follows from the joins, and that joined workers    *)
(* stay idle follows from where the event loop can run.  Good says so of   *)
(* one process; the lock itself is needed for the processes in use.  What  *)
(* a request asked for is followed to the release by Served: the last join *)
(* finds every worker idle, so readiness is announced before the release.  *)
(***************************************************************************)
EXTENDS AppLifecycle, TLAPS

Using == {"opening", "running", "dialog", "drain", "draining"}
Calm(a) == \A w \in Workers : a.worker[w] # "busy"

Good(a) ==
    /\ a.readySent => a.closing
    /\ a.backup => a.pending
    /\ a.phase \in {"launched", "opening", "running", "drain"} => a.joined = 0
    /\ a.phase \in {"off", "launched", "opening"} => Calm(a)
    /\ a.failed # "late" =>
          /\ a.phase # "dialog"
          /\ a.phase = "released" => Calm(a)
          /\ \A w \in Workers : w <= a.joined => a.worker[w] # "busy"

IInv ==
    /\ TypeOK
    /\ \A p \in Procs : Good(app[p]) /\ (app[p].phase \in Using => lock = p)

(* Records of one process. *)

LEMMA OffGood == Off \in AppState /\ Good(Off) /\ Off.phase = "off" /\ Calm(Off)
  BY AppLifecycleAssumption DEF Off, AppState, Good, Calm, Phases

\* A process that has been started is one of its own.
LEMMA LaunchedGood ==
    ASSUME NEW a, a = [Off EXCEPT !.phase = "launched"]
    PROVE  a \in AppState /\ Good(a) /\ a.phase = "launched"
  <1> USE AppLifecycleAssumption
  <1>1. a \in AppState
    BY OffGood DEF AppState, Phases
  <1>2. a.phase = "launched" /\ a.readySent = FALSE /\ a.joined = 0 /\ a.worker = Off.worker
        /\ a.backup = FALSE
    BY DEF Off
  <1>3. \A w \in Workers : a.worker[w] # "busy"
    BY <1>2, OffGood DEF Calm
  <1> QED
    BY <1>1, <1>2, <1>3 DEF Good, Calm

\* Good looks at six fields only.
LEMMA GoodFields ==
    ASSUME NEW a, NEW b, Good(a), b.worker = a.worker, b.joined = a.joined,
           b.readySent => b.closing, b.backup => b.pending, b.failed # "late" => a.failed # "late",
           \/ b.phase = a.phase
           \/ a.phase = "running" /\ b.phase = "drain"
           \/ b.phase = "dialog" /\ b.failed = "late"
    PROVE  Good(b)
  BY DEF Good, Calm

LEMMA QuitGood ==
    ASSUME NEW a \in AppState, Good(a), a.phase \in {"running", "dialog", "draining"},
           NEW b, b = Quit(a)
    PROVE  /\ b \in AppState /\ Good(b)
           /\ b.phase \in {"running", "dialog", "drain", "draining"}
           /\ b.worker = a.worker
  <1>1. b \in AppState
    BY DEF Quit, AppState, Phases
  <1>2. /\ b.worker = a.worker /\ b.joined = a.joined /\ b.failed = a.failed
        /\ b.readySent = a.readySent /\ b.closing = a.closing
        /\ b.backup = a.backup /\ b.pending = a.pending
        /\ b.phase = IF a.phase = "running" THEN "drain" ELSE a.phase
    BY DEF Quit, AppState
  <1>3. Good(b)
    BY <1>2, GoodFields DEF Good
  <1> QED
    BY <1>1, <1>2, <1>3

LEMMA ResumedGood ==
    ASSUME NEW a \in AppState, Good(a), a.phase \in {"running", "dialog", "draining"},
           a.backup = FALSE, NEW b, b = Resumed(a)
    PROVE  /\ b \in AppState /\ Good(b)
           /\ b.phase \in {"running", "dialog", "drain", "draining"}
           /\ b.worker = a.worker
  <1>1. b \in AppState
    BY DEF Resumed, AppState, Phases
  <1>2. /\ b.worker = a.worker /\ b.joined = a.joined /\ b.readySent = FALSE
        /\ b.backup = FALSE
        /\ b.failed = IF a.phase = "running" THEN "yes" ELSE "late"
        /\ b.phase = IF a.phase = "draining" THEN "dialog" ELSE a.phase
    BY DEF Resumed, AppState
  <1>3. CASE a.phase = "running"
    <2>1. b.joined = 0 /\ b.phase = "running"
      BY <1>2, <1>3 DEF Good
    <2>2. \A w \in Workers : ~(w <= 0)
      BY AppLifecycleAssumption DEF Workers
    <2>3. \A w \in Workers : w <= b.joined => b.worker[w] # "busy"
      BY <2>1, <2>2
    <2>4. Good(b)
      BY <1>2, <2>1, <2>3 DEF Good
    <2> QED
      BY <1>1, <1>2, <2>1, <2>4
  <1>4. CASE a.phase \in {"dialog", "draining"}
    <2>1. b.phase = "dialog" /\ b.failed = "late"
      BY <1>2, <1>4
    <2>2. Good(b)
      BY <1>2, <2>1 DEF Good
    <2> QED
      BY <1>1, <1>2, <2>1, <2>2
  <1> QED
    BY <1>3, <1>4

\* Becoming ready, and what the lifecycle does then, keeps a process good.
LEMMA CheckReadyGood ==
    ASSUME NEW a \in AppState, Good(a), a.phase \in {"running", "dialog", "draining"},
           NEW b \in CheckReady(a)
    PROVE  /\ b \in AppState /\ Good(b)
           /\ b.phase \in {"running", "dialog", "drain", "draining"}
           /\ b.worker = a.worker
  <1>1. CASE ~a.closing \/ a.readySent \/ ~Quiet(a)
    BY <1>1 DEF CheckReady
  <1>2. CASE ~(~a.closing \/ a.readySent \/ ~Quiet(a))
    <2> DEFINE ready == [a EXCEPT !.readySent = TRUE, !.backup = FALSE]
               restored == [ready EXCEPT !.restored = TRUE]
    <2>1. ready \in AppState /\ restored \in AppState
      BY DEF AppState
    <2>2. /\ ready.worker = a.worker /\ ready.joined = a.joined /\ ready.failed = a.failed
          /\ ready.phase = a.phase /\ ready.closing = a.closing
          /\ ready.backup = FALSE
      BY DEF AppState
    <2>3. /\ restored.worker = a.worker /\ restored.joined = a.joined
          /\ restored.failed = a.failed
          /\ restored.phase = a.phase /\ restored.closing = a.closing
          /\ restored.backup = FALSE
      BY DEF AppState
    <2>4. Good(ready)
      BY <1>2, <2>2, GoodFields
    <2>5. Good(restored)
      BY <1>2, <2>3, GoodFields
    <2>6. b \in {Quit(restored), Resumed(ready), Quit(ready)}
      BY <1>2 DEF CheckReady
    <2> HIDE DEF ready, restored
    <2>7. CASE b = Quit(restored)
      BY <2>1, <2>3, <2>5, <2>7, QuitGood
    <2>8. CASE b = Resumed(ready)
      BY <2>1, <2>2, <2>4, <2>8, ResumedGood
    <2>9. CASE b = Quit(ready)
      BY <2>1, <2>2, <2>4, <2>9, QuitGood
    <2> QED
      BY <2>6, <2>7, <2>8, <2>9
  <1> QED
    BY <1>1, <1>2

(* One process changes; the lock changes hands with it. *)

LEMMA OneProcess ==
    ASSUME IInv, NEW p \in Procs, NEW b \in AppState, Good(b), Become(p, b),
           b.phase \in Using => lock' = p,
           \/ lock' = lock
           \/ lock = Nobody /\ lock' = p
           \/ lock = p /\ lock' = Nobody,
           database' \in {"readable", "unreadable"}
    PROVE  IInv'
  <1> USE AppLifecycleAssumption
  <1>1. app' \in [Procs -> AppState] /\ app'[p] = b
    BY DEF IInv, TypeOK, Become
  <1>2. \A q \in Procs \ {p} : app'[q] = app[q]
    BY DEF IInv, TypeOK, Become
  <1>3. \A q \in Procs : Good(app'[q])
    BY <1>1, <1>2 DEF IInv
  <1>4. \A q \in Procs : app'[q].phase \in Using => lock' = q
    BY <1>1, <1>2 DEF IInv
  <1>5. TypeOK'
    <2>1. lock' \in Procs \cup {Nobody}
      BY DEF IInv, TypeOK
    <2> QED
      BY <1>1, <1>3, <2>1 DEF TypeOK, Good
  <1> QED
    BY <1>3, <1>4, <1>5 DEF IInv, Good, Calm

(* The actions. *)

\* Initially nothing runs.
LEMMA InitIInv == Init => IInv
  BY OffGood DEF Init, IInv, TypeOK, Using, Good

\* What IInv says of one process.
LEMMA OfProcess ==
    ASSUME IInv, NEW p \in Procs
    PROVE  /\ app[p] \in AppState /\ Good(app[p])
           /\ app[p].phase \in Using => lock = p
  BY DEF IInv, TypeOK

LEMMA LaunchStep ==
    ASSUME IInv, NEW p \in Procs, Launch(p)
    PROVE  IInv'
  <1> DEFINE b == [Off EXCEPT !.phase = "launched"]
  <1>1. b \in AppState /\ Good(b) /\ b.phase = "launched"
    BY LaunchedGood
  <1>2. Become(p, b) /\ lock' = lock /\ database' = database
    BY DEF Launch
  <1> HIDE DEF b
  <1> QED
    BY <1>1, <1>2, OneProcess DEF Using, IInv, TypeOK

LEMMA TryAcquireStep ==
    ASSUME IInv, NEW p \in Procs, TryAcquire(p)
    PROVE  IInv'
  <1>1. app[p] \in AppState /\ Good(app[p]) /\ app[p].phase = "launched"
    BY OfProcess DEF TryAcquire
  <1>2. database' = database /\ database \in {"readable", "unreadable"}
    BY DEF TryAcquire, IInv, TypeOK
  <1>3. CASE lock = Nobody
    <2> DEFINE b == [app[p] EXCEPT !.phase = "opening"]
    <2>1. b \in AppState
      BY <1>1 DEF AppState, Phases
    <2>2. /\ b.phase = "opening" /\ b.worker = app[p].worker /\ b.joined = app[p].joined
          /\ b.readySent = app[p].readySent /\ b.closing = app[p].closing
          /\ b.failed = app[p].failed
          /\ b.backup = app[p].backup /\ b.pending = app[p].pending
      BY <1>1 DEF AppState
    <2>3. Become(p, b) /\ lock' = p
      BY <1>3 DEF TryAcquire
    <2> HIDE DEF b
    <2>4. Good(b)
      BY <1>1, <2>2 DEF Good, Calm
    <2> QED
      BY <1>2, <1>3, <2>1, <2>3, <2>4, OneProcess
  <1>4. CASE lock # Nobody
    <2>1. Become(p, Off) /\ lock' = lock
      BY <1>4 DEF TryAcquire
    <2> QED
      BY <1>2, <2>1, OffGood, OneProcess DEF Using
  <1> QED
    BY <1>3, <1>4

LEMMA OpenDatabaseStep ==
    ASSUME IInv, NEW p \in Procs, OpenDatabase(p)
    PROVE  IInv'
  <1> DEFINE b == [app[p] EXCEPT !.phase = "running"]
  <1>1. app[p] \in AppState /\ Good(app[p]) /\ app[p].phase = "opening" /\ lock = p
    BY OfProcess DEF OpenDatabase, Using
  <1>2. b \in AppState
    BY <1>1 DEF AppState, Phases
  <1>3. /\ b.phase = "running" /\ b.worker = app[p].worker /\ b.joined = app[p].joined
        /\ b.readySent = app[p].readySent /\ b.closing = app[p].closing
        /\ b.failed = app[p].failed
        /\ b.backup = app[p].backup /\ b.pending = app[p].pending
    BY <1>1 DEF AppState
  <1>4. Become(p, b) /\ lock' = lock /\ database' = database
    BY DEF OpenDatabase
  <1> HIDE DEF b
  <1>5. Good(b)
    BY <1>1, <1>3 DEF Good, Calm
  <1> QED
    BY <1>1, <1>2, <1>4, <1>5, OneProcess DEF IInv, TypeOK

LEMMA RecoverDatabaseStep ==
    ASSUME IInv, NEW p \in Procs, RecoverDatabase(p)
    PROVE  IInv'
  <1> DEFINE b == [app[p] EXCEPT !.phase = "released", !.restart = TRUE,
                                 !.approved = "restore", !.restored = TRUE]
  <1>1. app[p] \in AppState /\ Good(app[p]) /\ app[p].phase = "opening" /\ lock = p
    BY OfProcess DEF RecoverDatabase, Using
  <1>2. lock' = Nobody /\ database' \in {"readable", "unreadable"}
    BY DEF RecoverDatabase, IInv, TypeOK
  <1>3. CASE Become(p, b)
    <2>1. b \in AppState
      BY <1>1 DEF AppState, Phases
    <2>2. /\ b.phase = "released" /\ b.worker = app[p].worker /\ b.joined = app[p].joined
          /\ b.readySent = app[p].readySent /\ b.closing = app[p].closing
          /\ b.failed = app[p].failed
          /\ b.backup = app[p].backup /\ b.pending = app[p].pending
      BY <1>1 DEF AppState
    <2> HIDE DEF b
    <2>3. Good(b)
      BY <1>1, <2>2 DEF Good, Calm
    <2> QED
      BY <1>1, <1>2, <1>3, <2>1, <2>2, <2>3, OneProcess DEF Using
  <1>4. CASE Become(p, Off)
    BY <1>1, <1>2, <1>4, OffGood, OneProcess DEF Using
  <1> QED
    BY <1>3, <1>4 DEF RecoverDatabase

LEMMA StartWorkerStep ==
    ASSUME IInv, NEW p \in Procs, NEW w \in Workers, StartWorker(p, w)
    PROVE  IInv'
  <1> DEFINE b == [app[p] EXCEPT !.worker[w] = "busy"]
  <1>1. app[p] \in AppState /\ Good(app[p]) /\ app[p].phase \in {"running", "dialog"}
        /\ lock = p
    BY OfProcess DEF StartWorker, Looping, Using
  <1>2. b \in AppState
    BY <1>1 DEF AppState
  <1>3. /\ b.phase = app[p].phase /\ b.joined = app[p].joined
        /\ b.readySent = app[p].readySent /\ b.closing = app[p].closing
        /\ b.failed = app[p].failed
        /\ b.backup = app[p].backup /\ b.pending = app[p].pending
    BY <1>1 DEF AppState
  <1>4. Become(p, b) /\ lock' = lock /\ database' = database
    BY DEF StartWorker
  <1>5. \A v \in Workers : ~(v <= 0)
    BY AppLifecycleAssumption DEF Workers
  <1> HIDE DEF b
  <1>6. CASE app[p].phase = "running"
    <2>1. b.joined = 0
      BY <1>1, <1>3, <1>6 DEF Good
    <2>2. Good(b)
      BY <1>1, <1>3, <1>5, <1>6, <2>1 DEF Good
    <2> QED
      BY <1>1, <1>2, <1>3, <1>4, <2>2, OneProcess DEF IInv, TypeOK
  <1>7. CASE app[p].phase = "dialog"
    <2>1. Good(b)
      BY <1>1, <1>3, <1>7 DEF Good
    <2> QED
      BY <1>1, <1>2, <1>3, <1>4, <2>1, OneProcess DEF IInv, TypeOK
  <1> QED
    BY <1>1, <1>6, <1>7

\* Ending a thread, or learning of its end, can only calm a process.
LEMMA CalmerGood ==
    ASSUME NEW a \in AppState, Good(a), NEW w \in Workers,
           NEW to \in {"idle", "ended"}, NEW b, b = [a EXCEPT !.worker[w] = to]
    PROVE  /\ b \in AppState /\ Good(b) /\ b.phase = a.phase
           /\ \A v \in Workers \ {w} : b.worker[v] = a.worker[v]
  <1>1. b \in AppState
    BY DEF AppState
  <1>2. /\ b.phase = a.phase /\ b.joined = a.joined /\ b.readySent = a.readySent
        /\ b.closing = a.closing /\ b.failed = a.failed
        /\ b.backup = a.backup /\ b.pending = a.pending
        /\ b.worker = [a.worker EXCEPT ![w] = to]
    BY DEF AppState
  <1>3. a.worker \in [Workers -> {"idle", "busy", "ended"}]
    BY DEF AppState
  <1>4. \A v \in Workers : b.worker[v] = IF v = w THEN to ELSE a.worker[v]
    BY <1>2, <1>3
  <1>5. \A v \in Workers : a.worker[v] # "busy" => b.worker[v] # "busy"
    BY <1>4
  <1>6. Good(b)
    BY <1>2, <1>5 DEF Good, Calm
  <1> QED
    BY <1>1, <1>2, <1>4, <1>6

LEMMA WorkerEndsStep ==
    ASSUME IInv, NEW p \in Procs, NEW w \in Workers, WorkerEnds(p, w)
    PROVE  IInv'
  <1> DEFINE b == [app[p] EXCEPT !.worker[w] = "ended"]
  <1>1. app[p] \in AppState /\ Good(app[p]) /\ (app[p].phase \in Using => lock = p)
    BY OfProcess
  <1>2. Become(p, b) /\ lock' = lock /\ database' = database
    BY DEF WorkerEnds
  <1>3. b \in AppState /\ Good(b) /\ b.phase = app[p].phase
    BY <1>1, CalmerGood
  <1> HIDE DEF b
  <1> QED
    BY <1>1, <1>2, <1>3, OneProcess DEF IInv, TypeOK

LEMMA ReceiveEndStep ==
    ASSUME IInv, NEW p \in Procs, NEW w \in Workers, ReceiveEnd(p, w)
    PROVE  IInv'
  <1> DEFINE a == [app[p] EXCEPT !.worker[w] = "idle"]
  <1>1. app[p] \in AppState /\ Good(app[p]) /\ app[p].phase \in {"running", "dialog"}
        /\ lock = p
    BY OfProcess DEF ReceiveEnd, Looping, Using
  <1>2. a \in AppState /\ Good(a) /\ a.phase = app[p].phase
    BY <1>1, CalmerGood
  <1>3. PICK b \in CheckReady(a) : Become(p, b)
    BY DEF ReceiveEnd
  <1>4. lock' = lock /\ database' = database
    BY DEF ReceiveEnd
  <1> HIDE DEF a
  <1>5. b \in AppState /\ Good(b)
    BY <1>1, <1>2, CheckReadyGood
  <1> QED
    BY <1>1, <1>3, <1>4, <1>5, OneProcess DEF IInv, TypeOK

LEMMA RequestedGood ==
    ASSUME NEW a \in AppState, Good(a), NEW what \in {"exit", "update", "restore"},
           NEW b, b = Requested(a, what)
    PROVE  b \in AppState /\ Good(b) /\ b.phase = a.phase /\ b.worker = a.worker
  <1>1. b \in AppState
    BY DEF Requested, AppState
  <1>2. /\ b.phase = a.phase /\ b.worker = a.worker /\ b.joined = a.joined
        /\ b.closing = TRUE /\ b.pending = TRUE
        /\ b.failed = IF a.failed = "late" THEN "late" ELSE "no"
    BY DEF Requested, AppState
  <1> QED
    BY <1>1, <1>2, GoodFields

LEMMA RequestExitStep ==
    ASSUME IInv, NEW p \in Procs, NEW what \in {"exit", "update", "restore"},
           RequestExit(p, what)
    PROVE  IInv'
  <1>1. app[p] \in AppState /\ Good(app[p]) /\ app[p].phase \in {"running", "dialog"}
        /\ lock = p
    BY OfProcess DEF RequestExit, Looping, Using
  <1>2. PICK b \in CheckReady(Requested(app[p], what)) : Become(p, b)
    BY DEF RequestExit
  <1>3. lock' = lock /\ database' = database
    BY DEF RequestExit
  <1>4. PICK a : a = Requested(app[p], what)
    OBVIOUS
  <1>5. a \in AppState /\ Good(a) /\ a.phase \in {"running", "dialog"}
    BY <1>1, <1>4, RequestedGood
  <1>6. b \in AppState /\ Good(b)
    BY <1>2, <1>4, <1>5, CheckReadyGood
  <1> QED
    BY <1>1, <1>2, <1>3, <1>6, OneProcess DEF IInv, TypeOK

LEMMA LoopEndsStep ==
    ASSUME IInv, NEW p \in Procs, LoopEnds(p)
    PROVE  IInv'
  <1> DEFINE b == [app[p] EXCEPT !.phase = "drain"]
  <1>1. app[p] \in AppState /\ Good(app[p]) /\ app[p].phase = "running" /\ lock = p
    BY OfProcess DEF LoopEnds, Using
  <1>2. b \in AppState
    BY <1>1 DEF AppState, Phases
  <1>3. /\ b.phase = "drain" /\ b.worker = app[p].worker /\ b.joined = app[p].joined
        /\ b.readySent = app[p].readySent /\ b.closing = app[p].closing
        /\ b.failed = app[p].failed
        /\ b.backup = app[p].backup /\ b.pending = app[p].pending
    BY <1>1 DEF AppState
  <1>4. Become(p, b) /\ lock' = lock /\ database' = database
    BY DEF LoopEnds
  <1> HIDE DEF b
  <1>5. Good(b)
    BY <1>1, <1>3, GoodFields DEF Good
  <1> QED
    BY <1>1, <1>2, <1>4, <1>5, OneProcess DEF IInv, TypeOK

LEMMA BeginDrainStep ==
    ASSUME IInv, NEW p \in Procs, BeginDrain(p)
    PROVE  IInv'
  <1> DEFINE a == [app[p] EXCEPT !.phase = "draining", !.closing = TRUE]
  <1>1. app[p] \in AppState /\ Good(app[p]) /\ app[p].phase = "drain" /\ lock = p
    BY OfProcess DEF BeginDrain, Using
  <1>2. a \in AppState
    BY <1>1 DEF AppState, Phases
  <1>3. /\ a.phase = "draining" /\ a.worker = app[p].worker /\ a.joined = app[p].joined
        /\ a.closing = TRUE /\ a.failed = app[p].failed
        /\ a.backup = app[p].backup /\ a.pending = app[p].pending
    BY <1>1 DEF AppState
  <1>4. PICK b \in {a} \cup CheckReady(a) : Become(p, b)
    BY DEF BeginDrain
  <1>5. lock' = lock /\ database' = database
    BY DEF BeginDrain
  <1> HIDE DEF a
  <1>6. Good(a)
    BY <1>1, <1>3 DEF Good
  <1>7. b \in AppState /\ Good(b)
    BY <1>2, <1>3, <1>4, <1>6, CheckReadyGood
  <1> QED
    BY <1>1, <1>4, <1>5, <1>7, OneProcess DEF IInv, TypeOK

LEMMA JoinStep ==
    ASSUME IInv, NEW p \in Procs, Join(p)
    PROVE  IInv'
  <1> DEFINE w == app[p].joined + 1
             a == [app[p] EXCEPT !.worker[w] = "idle", !.joined = w]
  <1> USE AppLifecycleAssumption
  <1>1. app[p] \in AppState /\ Good(app[p]) /\ app[p].phase = "draining" /\ lock = p
    BY OfProcess DEF Join, Using
  <1>2. w \in Workers /\ app[p].joined \in Nat /\ w \in 0..(Controllers + 1)
    BY <1>1 DEF Join, AppState, Workers
  <1>3. a \in AppState
    BY <1>1, <1>2 DEF AppState
  <1>4. /\ a.phase = "draining" /\ a.joined = w
        /\ a.worker = [app[p].worker EXCEPT ![w] = "idle"]
        /\ a.closing = app[p].closing /\ a.readySent = app[p].readySent
        /\ a.failed = app[p].failed
        /\ a.backup = app[p].backup /\ a.pending = app[p].pending
    BY <1>1 DEF AppState
  <1>5. app[p].worker \in [Workers -> {"idle", "busy", "ended"}]
    BY <1>1 DEF AppState
  <1>6. \A v \in Workers : a.worker[v] = IF v = w THEN "idle" ELSE app[p].worker[v]
    BY <1>2, <1>4, <1>5
  <1>7. \A v \in Workers : v <= w => v = w \/ v <= app[p].joined
    BY <1>2 DEF Workers
  <1>8. Good(a)
    <2> HIDE DEF a, w
    <2> QED
      BY <1>1, <1>4, <1>6, <1>7 DEF Good
  <1>9. PICK b \in {a} \cup CheckReady(a) : Become(p, b)
    BY DEF Join
  <1>10. lock' = lock /\ database' = database
    BY DEF Join
  <1>11. b \in AppState /\ Good(b)
    <2> HIDE DEF a, w
    <2> QED
      BY <1>3, <1>4, <1>8, <1>9, CheckReadyGood
  <1> HIDE DEF a, w
  <1> QED
    BY <1>1, <1>9, <1>10, <1>11, OneProcess DEF IInv, TypeOK

LEMMA CloseDialogStep ==
    ASSUME IInv, NEW p \in Procs, CloseDialog(p)
    PROVE  IInv'
  <1> DEFINE b == [app[p] EXCEPT !.phase = "draining"]
  <1>1. app[p] \in AppState /\ Good(app[p]) /\ app[p].phase = "dialog" /\ lock = p
    BY OfProcess DEF CloseDialog, Using
  <1>2. b \in AppState
    BY <1>1 DEF AppState, Phases
  <1>3. /\ b.phase = "draining" /\ b.worker = app[p].worker /\ b.joined = app[p].joined
        /\ b.readySent = app[p].readySent /\ b.closing = app[p].closing
        /\ b.failed = app[p].failed
        /\ b.backup = app[p].backup /\ b.pending = app[p].pending
    BY <1>1 DEF AppState
  <1>4. Become(p, b) /\ lock' = lock /\ database' = database
    BY DEF CloseDialog
  <1> HIDE DEF b
  <1>5. Good(b)
    BY <1>1, <1>3 DEF Good
  <1> QED
    BY <1>1, <1>2, <1>4, <1>5, OneProcess DEF IInv, TypeOK

\* Every worker was joined, so none works when the lock is given up.
LEMMA ReleaseStep ==
    ASSUME IInv, NEW p \in Procs, Release(p)
    PROVE  IInv'
  <1> DEFINE b == [app[p] EXCEPT !.phase = "released"]
  <1> USE AppLifecycleAssumption
  <1>1. app[p] \in AppState /\ Good(app[p]) /\ app[p].phase = "draining" /\ lock = p
    BY OfProcess DEF Release, Using
  <1>2. b \in AppState
    BY <1>1 DEF AppState, Phases
  <1>3. /\ b.phase = "released" /\ b.worker = app[p].worker /\ b.joined = app[p].joined
        /\ b.readySent = app[p].readySent /\ b.closing = app[p].closing
        /\ b.failed = app[p].failed
        /\ b.backup = app[p].backup /\ b.pending = app[p].pending
    BY <1>1 DEF AppState
  <1>4. Become(p, b) /\ lock' = Nobody /\ database' = database
    BY DEF Release
  <1>5. app[p].joined \in Nat /\ app[p].joined + 1 \notin Workers
    BY <1>1 DEF Release, AppState
  <1>6. \A w \in Workers : w <= app[p].joined
    BY <1>5 DEF Workers
  <1> HIDE DEF b
  <1>7. Good(b)
    BY <1>1, <1>3, <1>6 DEF Good, Calm
  <1> QED
    BY <1>1, <1>2, <1>3, <1>4, <1>7, OneProcess DEF IInv, TypeOK, Using

\* The process ends; a replacement starts from nothing.
LEMMA LeaveStep ==
    ASSUME IInv, NEW p \in Procs, Leave(p)
    PROVE  IInv'
  <1> DEFINE launched == [Off EXCEPT !.phase = "launched"]
  <1>1. launched \in AppState /\ Good(launched) /\ launched.phase = "launched"
    BY LaunchedGood
  <1>2. lock' = lock /\ database' = database
    BY DEF Leave
  <1>3. app \in [Procs -> AppState]
    BY DEF IInv, TypeOK
  <1>4. \A q \in Procs : app'[q] \in {app[q], Off, launched}
    BY <1>3 DEF Leave
  <1>5. app' \in [Procs -> AppState]
    BY <1>1, <1>3, OffGood DEF Leave
  <1> HIDE DEF launched
  <1>6. \A q \in Procs : Good(app'[q]) /\ (app'[q].phase \in Using => lock' = q)
    BY <1>1, <1>2, <1>4, OffGood DEF IInv, Using
  <1> QED
    BY <1>2, <1>5, <1>6 DEF IInv, TypeOK, Good, Calm

LEMMA CrashStep ==
    ASSUME IInv, NEW p \in Procs, Crash(p)
    PROVE  IInv'
  <1>1. /\ Become(p, Off) /\ database' \in {"readable", "unreadable"}
        /\ lock' = lock \/ (lock = p /\ lock' = Nobody)
    BY DEF Crash, IInv, TypeOK
  <1> QED
    BY <1>1, OffGood, OneProcess DEF Using

LEMMA StepIInv == IInv /\ [Next]_vars => IInv'
  <1> SUFFICES ASSUME IInv, [Next]_vars PROVE IInv'
    OBVIOUS
  <1>1. ASSUME NEW p \in Procs, Launch(p) \/ TryAcquire(p) \/ OpenDatabase(p)
                                \/ RecoverDatabase(p)
        PROVE  IInv'
    BY <1>1, LaunchStep, TryAcquireStep, OpenDatabaseStep, RecoverDatabaseStep
  <1>2. ASSUME NEW p \in Procs, NEW w \in Workers,
               StartWorker(p, w) \/ WorkerEnds(p, w) \/ ReceiveEnd(p, w)
        PROVE  IInv'
    BY <1>2, StartWorkerStep, WorkerEndsStep, ReceiveEndStep
  <1>3. ASSUME NEW p \in Procs, NEW what \in {"exit", "update", "restore"},
               RequestExit(p, what)
        PROVE  IInv'
    BY <1>3, RequestExitStep
  <1>4. ASSUME NEW p \in Procs, LoopEnds(p) \/ BeginDrain(p) \/ Join(p) \/ CloseDialog(p)
        PROVE  IInv'
    BY <1>4, LoopEndsStep, BeginDrainStep, JoinStep, CloseDialogStep
  <1>5. ASSUME NEW p \in Procs, Release(p) \/ Leave(p) \/ Crash(p)
        PROVE  IInv'
    BY <1>5, ReleaseStep, LeaveStep, CrashStep
  <1>6. CASE UNCHANGED vars
    BY <1>6 DEF vars, IInv, TypeOK, Good, Calm
  <1> QED
    BY <1>1, <1>2, <1>3, <1>4, <1>5, <1>6 DEF Next, Proceeds
-----------------------------------------------------------------------------
LEMMA Invariance == Spec => []IInv
  <1>1. Init => IInv
    BY InitIInv
  <1>2. IInv /\ [Next]_vars => IInv'
    BY StepIInv
  <1> QED
    BY <1>1, <1>2, PTL DEF Spec

\* Every process keeps the fields its classes declare, and announces readiness
\* only while it is closing (ShutdownGroup, RuntimeLifecycle, bootstrap.run).
THEOREM TypeCorrect == Spec => []TypeOK
  <1>1. IInv => TypeOK
    BY DEF IInv
  <1> QED
    BY <1>1, Invariance, PTL

\* A process that holds no lock has no thread at work.
LEMMA OthersCalm ==
    ASSUME IInv, NEW p \in Procs, lock # p, app[p].failed # "late"
    PROVE  app[p].phase \notin Using /\ Calm(app[p])
  <1>1. app[p] \in AppState /\ Good(app[p]) /\ (app[p].phase \in Using => lock = p)
    BY OfProcess
  <1>2. app[p].phase \in {"off", "launched", "released"}
    BY <1>1 DEF AppState, Phases, Using
  <1> QED
    BY <1>1, <1>2 DEF Good, Using

\* Whatever uses the data directory belongs to the holder of the instance lock,
\* in any number of processes with any number of workers, unless a restore failed
\* after the event loop had ended (SingleInstanceGuard, wait_for_shutdown).
THEOREM OwnerUsesDataHolds == Spec => []OwnerUsesData
  <1>1. IInv => OwnerUsesData
    BY OthersCalm DEF OwnerUsesData, UsesData, Using, Calm
  <1> QED
    BY <1>1, Invariance, PTL
-----------------------------------------------------------------------------
(* Restores. *)

\* A restore, tried or done, by a process that goes on.
Restores(a, b) ==
    \/ a.backup /\ ~b.backup /\ b.phase \notin {"off", "launched"}
    \/ ~a.restored /\ b.restored

\* It needs every worker of the process to be idle.
LEMMA CheckReadyQuiet ==
    ASSUME NEW a \in AppState, NEW b \in CheckReady(a), Restores(a, b)
    PROVE  Quiet(a)
  <1>1. CASE ~a.closing \/ a.readySent \/ ~Quiet(a)
    BY <1>1 DEF CheckReady, Restores
  <1> QED
    BY <1>1

\* In a step that restores, the process that does so holds the lock and is calm.
LEMMA RestoreNeeds ==
    ASSUME IInv, Next, NEW p \in Procs, Restores(app[p], app'[p])
    PROVE  lock = p /\ Calm(app[p])
  <1> USE AppLifecycleAssumption
  <1> DEFINE Goal == lock = p /\ Calm(app[p])
  <1>0. /\ app[p] \in AppState /\ Good(app[p]) /\ (app[p].phase \in Using => lock = p)
        /\ app \in [Procs -> AppState]
    BY OfProcess DEF IInv, TypeOK
  <1>1. ASSUME NEW q \in Procs, NEW b, Become(q, b)
        PROVE  app'[p] = IF p = q THEN b ELSE app[p]
    BY <1>0, <1>1 DEF Become
  <1>2. ~Restores(app[p], app[p]) /\ ~Restores(app[p], Off)
    BY DEF Restores, Off
  <1>3. ~Restores(app[p], [Off EXCEPT !.phase = "launched"])
    BY DEF Restores, Off
  <1>4. ASSUME NEW q \in Procs, Launch(q) PROVE Goal
    BY <1>1, <1>2, <1>3, <1>4 DEF Launch
  <1>5. ASSUME NEW q \in Procs, TryAcquire(q) PROVE Goal
    <2>1. ~Restores(app[p], [app[p] EXCEPT !.phase = "opening"])
      BY <1>0 DEF Restores, AppState
    <2> QED
      BY <1>1, <1>2, <1>5, <2>1 DEF TryAcquire
  <1>6. ASSUME NEW q \in Procs, OpenDatabase(q) PROVE Goal
    <2>1. ~Restores(app[p], [app[p] EXCEPT !.phase = "running"])
      BY <1>0 DEF Restores, AppState
    <2> QED
      BY <1>1, <1>2, <1>6, <2>1 DEF OpenDatabase
  <1>7. ASSUME NEW q \in Procs, RecoverDatabase(q) PROVE Goal
    <2>1. CASE p = q
      BY <1>0, <1>7, <2>1 DEF RecoverDatabase, Using, Good
    <2>2. CASE p # q
      BY <1>1, <1>2, <1>7, <2>2 DEF RecoverDatabase
    <2> QED
      BY <2>1, <2>2
  <1>8. ASSUME NEW q \in Procs, NEW w \in Workers, StartWorker(q, w) \/ WorkerEnds(q, w)
        PROVE  Goal
    <2>1. /\ ~Restores(app[p], [app[p] EXCEPT !.worker[w] = "busy"])
          /\ ~Restores(app[p], [app[p] EXCEPT !.worker[w] = "ended"])
      BY <1>0 DEF Restores, AppState
    <2> QED
      BY <1>1, <1>2, <1>8, <2>1 DEF StartWorker, WorkerEnds
  <1>9. ASSUME NEW q \in Procs, NEW w \in Workers, ReceiveEnd(q, w) PROVE Goal
    <2> DEFINE a == [app[q] EXCEPT !.worker[w] = "idle"]
    <2>1. PICK b \in CheckReady(a) : Become(q, b)
      BY <1>9 DEF ReceiveEnd
    <2>2. p = q /\ app'[p] = b
      BY <1>1, <1>2, <2>1
    <2>3. a \in AppState /\ a.backup = app[p].backup /\ a.restored = app[p].restored
      BY <1>0, <2>2 DEF AppState
    <2>4. Quiet(a)
      <3> HIDE DEF a
      <3> QED
        BY <2>1, <2>2, <2>3, CheckReadyQuiet DEF Restores
    <2>5. \A v \in Workers : app[p].worker[v] = a.worker[v] \/ v = w
      BY <1>0, <2>2 DEF AppState
    <2>6. app[p].worker[w] = "ended" /\ app[p].phase \in Using
      BY <1>9, <2>2 DEF ReceiveEnd, Looping, Using
    <2> HIDE DEF a
    <2> QED
      BY <1>0, <2>4, <2>5, <2>6 DEF Calm, Quiet
  <1>10. ASSUME NEW q \in Procs, NEW what \in {"exit", "update", "restore"},
                RequestExit(q, what)
         PROVE  Goal
    <2>1. PICK a : a = Requested(app[q], what)
      OBVIOUS
    <2>2. PICK b \in CheckReady(a) : Become(q, b)
      BY <1>10, <2>1 DEF RequestExit
    <2>3. p = q /\ app'[p] = b
      BY <1>1, <1>2, <2>2
    <2>4. app[p].backup = FALSE /\ app[p].phase \in Using
      BY <1>0, <1>10, <2>3 DEF RequestExit, Good, Looping, Using, AppState
    <2>5. a \in AppState /\ a.worker = app[p].worker /\ a.restored = app[p].restored
      BY <1>0, <2>1, <2>3 DEF Requested, AppState
    <2>6. Quiet(a)
      BY <2>2, <2>3, <2>4, <2>5, CheckReadyQuiet DEF Restores
    <2> QED
      BY <1>0, <2>4, <2>5, <2>6 DEF Quiet, Calm
  <1>11. ASSUME NEW q \in Procs, LoopEnds(q) \/ CloseDialog(q) \/ Release(q) PROVE Goal
    <2>1. \A f \in {"drain", "draining", "released"} :
             ~Restores(app[p], [app[p] EXCEPT !.phase = f])
      BY <1>0 DEF Restores, AppState
    <2> QED
      BY <1>1, <1>2, <1>11, <2>1 DEF LoopEnds, CloseDialog, Release
  <1>12. ASSUME NEW q \in Procs, BeginDrain(q) PROVE Goal
    <2> DEFINE a == [app[q] EXCEPT !.phase = "draining", !.closing = TRUE]
    <2>1. PICK b \in {a} \cup CheckReady(a) : Become(q, b)
      BY <1>12 DEF BeginDrain
    <2>2. p = q /\ app'[p] = b
      BY <1>1, <1>2, <2>1
    <2>3. /\ a \in AppState /\ a.backup = app[p].backup /\ a.restored = app[p].restored
          /\ a.worker = app[p].worker
      BY <1>0, <2>2 DEF AppState, Phases
    <2>4. Quiet(a)
      <3> HIDE DEF a
      <3> QED
        BY <2>1, <2>2, <2>3, CheckReadyQuiet DEF Restores
    <2>5. app[p].phase \in Using
      BY <1>12, <2>2 DEF BeginDrain, Using
    <2> HIDE DEF a
    <2> QED
      BY <1>0, <2>3, <2>4, <2>5 DEF Quiet, Calm
  <1>13. ASSUME NEW q \in Procs, Join(q) PROVE Goal
    <2> DEFINE w == app[q].joined + 1
               a == [app[q] EXCEPT !.worker[w] = "idle", !.joined = w]
    <2>1. PICK b \in {a} \cup CheckReady(a) : Become(q, b)
      BY <1>13 DEF Join
    <2>2. p = q /\ app'[p] = b
      BY <1>1, <1>2, <2>1
    <2>3. /\ w \in Workers /\ app[p].worker[w] # "busy" /\ app[p].phase \in Using
          /\ w \in 0..(Controllers + 1)
      BY <1>0, <1>13, <2>2 DEF Join, AppState, Workers, Using
    <2>4. a \in AppState /\ a.backup = app[p].backup /\ a.restored = app[p].restored
      <3> HIDE DEF w
      <3> QED
        BY <1>0, <2>2, <2>3 DEF AppState
    <2>5. \A v \in Workers : app[p].worker[v] = a.worker[v] \/ v = w
      BY <1>0, <2>2 DEF AppState
    <2>6. Quiet(a)
      <3> HIDE DEF a
      <3> QED
        BY <2>1, <2>2, <2>4, CheckReadyQuiet DEF Restores
    <2> HIDE DEF a, w
    <2> QED
      BY <1>0, <2>3, <2>5, <2>6 DEF Quiet, Calm
  <1>14. ASSUME NEW q \in Procs, Leave(q) \/ Crash(q) PROVE Goal
    <2>1. app'[p] \in {app[p], Off, [Off EXCEPT !.phase = "launched"]}
      BY <1>0, <1>1, <1>14 DEF Leave, Crash
    <2> QED
      BY <1>2, <1>3, <2>1
  <1> HIDE DEF Goal
  <1>15. Goal
    BY <1>4, <1>5, <1>6, <1>7, <1>8, <1>9, <1>10, <1>11, <1>12, <1>13, <1>14
    DEF Next, Proceeds
  <1> QED
    BY <1>15 DEF Goal

\* A backup is restored by the holder of the lock while no thread of any process
\* works, however many there are (RuntimeLifecycle._ready, bootstrap.run).
THEOREM RestoreAloneHolds == Spec => RestoreAlone
  <1>1. IInv /\ [Next]_vars => [RestoreStep]_vars
    <2> SUFFICES ASSUME IInv, Next, NEW p \in Procs, Restores(app[p], app'[p]),
                        \A q \in Procs : app[q].failed # "late"
                 PROVE  lock = p /\ \A q \in Procs, w \in Workers : app[q].worker[w] # "busy"
      BY DEF RestoreStep, Restores
    <2>1. lock = p /\ Calm(app[p])
      BY RestoreNeeds
    <2>2. \A q \in Procs : q # p => Calm(app[q])
      BY <2>1, OthersCalm
    <2> QED
      BY <2>1, <2>2 DEF Calm
  <1> QED
    BY <1>1, Invariance, PTL DEF Spec, RestoreAlone

-----------------------------------------------------------------------------
(* Requests. *)

\* How far a process is, while no restore of it failed late.
Steady(a) ==
    /\ a.failed = "late" => a.phase \in {"dialog", "draining", "released"}
    /\ a.failed # "late" =>
          /\ a.phase # "dialog"
          /\ a.readySent => a.phase \in {"drain", "draining", "released"}
          /\ ~a.readySent /\ a.phase # "released" => ~a.restored /\ ~a.restart
          /\ a.phase \in {"off", "launched", "opening", "running", "drain"} => a.joined = 0
          /\ a.phase = "draining" =>
                a.closing /\ \A w \in Workers : w <= a.joined => a.worker[w] = "idle"

\* Once every worker was joined, readiness has been announced.
Drained(a) ==
    a.failed # "late" /\ a.phase = "draining" /\ a.joined + 1 \notin Workers => a.readySent

\* What was asked first is what is being done, or was done.
Serving(a) ==
    a.failed = "no" =>
       /\ a.phase # "released" => (a.command <=> a.approved \in {"update", "restore"})
       /\ ~a.readySent /\ a.phase # "released" => (a.backup <=> a.approved = "restore")
       /\ a.readySent \/ a.phase = "released" =>
             /\ a.restored <=> a.approved = "restore"
             /\ a.restart <=> a.approved \in {"update", "restore"}

Served(a) == Steady(a) /\ Drained(a) /\ Serving(a)

ServedInv == IInv /\ \A p \in Procs : Served(app[p])

LEMMA OffServed == Served(Off) /\ Served([Off EXCEPT !.phase = "launched"])
  <1>1. /\ Off.phase = "off" /\ Off.failed = "no" /\ Off.readySent = FALSE /\ Off.restored = FALSE
        /\ Off.restart = FALSE /\ Off.joined = 0 /\ Off.command = FALSE /\ Off.backup = FALSE
        /\ Off.approved = "nothing"
    BY DEF Off
  <1>2. PICK a : a = [Off EXCEPT !.phase = "launched"]
    OBVIOUS
  <1>3. /\ a.phase = "launched" /\ a.failed = "no" /\ a.readySent = FALSE /\ a.restored = FALSE
        /\ a.restart = FALSE /\ a.joined = 0 /\ a.command = FALSE /\ a.backup = FALSE
        /\ a.approved = "nothing"
    BY <1>2 DEF Off
  <1>4. Served(Off)
    BY <1>1 DEF Served, Steady, Drained, Serving
  <1>5. Served(a)
    BY <1>3 DEF Served, Steady, Drained, Serving
  <1> QED
    BY <1>2, <1>4, <1>5

\* Becoming ready carries out what was asked.
LEMMA CheckReadyServed ==
    ASSUME NEW a \in AppState, Steady(a), Serving(a), a.phase \in {"running", "dialog", "draining"},
           NEW b \in CheckReady(a)
    PROVE  /\ Steady(b) /\ Serving(b)
           /\ Drained(a) \/ (a.closing /\ Quiet(a)) => Drained(b)
  <1>1. CASE ~a.closing \/ a.readySent \/ ~Quiet(a)
    BY <1>1 DEF CheckReady, Drained
  <1>2. CASE a.closing /\ ~a.readySent /\ Quiet(a)
    <2>1. PICK ready \in AppState : ready = [a EXCEPT !.readySent = TRUE, !.backup = FALSE]
      BY DEF AppState
    <2>2. PICK restored \in AppState : restored = [ready EXCEPT !.restored = TRUE]
      BY DEF AppState
    <2>3. b \in (IF a.backup THEN {Quit(restored), Resumed(ready)} ELSE {Quit(ready)})
      BY <1>2, <2>1, <2>2 DEF CheckReady
    <2>4. /\ ready.worker = a.worker /\ ready.joined = a.joined /\ ready.failed = a.failed
          /\ ready.phase = a.phase /\ ready.closing = a.closing /\ ready.readySent = TRUE
          /\ ready.command = a.command /\ ready.approved = a.approved
          /\ ready.restored = a.restored /\ ready.restart = a.restart
      BY <2>1 DEF AppState
    <2>5. /\ restored.worker = a.worker /\ restored.joined = a.joined
          /\ restored.failed = a.failed
          /\ restored.phase = a.phase /\ restored.closing = a.closing
          /\ restored.readySent = TRUE
          /\ restored.command = a.command /\ restored.approved = a.approved
          /\ restored.restored = TRUE
      BY <2>2, <2>4 DEF AppState
    <2>6. ASSUME NEW r \in {ready, restored}, b = Quit(r)
          PROVE  /\ b.worker = a.worker /\ b.joined = a.joined /\ b.failed = a.failed
                 /\ b.phase = IF a.phase = "running" THEN "drain" ELSE a.phase
                 /\ b.closing = a.closing /\ b.readySent = TRUE
                 /\ b.command = a.command /\ b.approved = a.approved
                 /\ b.restart = a.command /\ b.restored = r.restored
      BY <2>4, <2>5, <2>6 DEF Quit, AppState
    <2>7. CASE a.backup /\ b = Quit(restored)
      <3>1. /\ b.worker = a.worker /\ b.joined = a.joined /\ b.failed = a.failed
            /\ b.phase = IF a.phase = "running" THEN "drain" ELSE a.phase
            /\ b.closing = a.closing /\ b.readySent = TRUE
            /\ b.command = a.command /\ b.approved = a.approved
            /\ b.restart = a.command /\ b.restored = TRUE
        BY <2>5, <2>6, <2>7
      <3> QED
        BY <1>2, <2>7, <3>1 DEF Steady, Serving, Drained
    <2>8. CASE ~a.backup /\ b = Quit(ready)
      <3>1. /\ b.worker = a.worker /\ b.joined = a.joined /\ b.failed = a.failed
            /\ b.phase = IF a.phase = "running" THEN "drain" ELSE a.phase
            /\ b.closing = a.closing /\ b.readySent = TRUE
            /\ b.command = a.command /\ b.approved = a.approved
            /\ b.restart = a.command /\ b.restored = a.restored
        BY <2>4, <2>6, <2>8
      <3> QED
        BY <1>2, <2>8, <3>1 DEF Steady, Serving, Drained
    <2>9. CASE b = Resumed(ready)
      <3>1. /\ b.failed = IF a.phase = "running" THEN "yes" ELSE "late"
            /\ b.joined = a.joined /\ b.readySent = FALSE
            /\ b.restored = a.restored /\ b.restart = a.restart
            /\ b.phase = IF a.phase = "draining" THEN "dialog" ELSE a.phase
        BY <2>4, <2>9 DEF Resumed, AppState
      <3> QED
        BY <1>2, <2>9, <3>1 DEF Steady, Serving, Drained
    <2> QED
      BY <2>3, <2>7, <2>8, <2>9
  <1> QED
    BY <1>1, <1>2

\* Fields Served does not look at, and phases that say less.
LEMMA SameServed ==
    ASSUME NEW a, NEW b, Served(a),
           b.joined = a.joined, b.failed = a.failed, b.closing = a.closing,
           b.readySent = a.readySent, b.backup = a.backup, b.command = a.command,
           b.restart = a.restart, b.approved = a.approved, b.restored = a.restored,
           \A w \in Workers : a.worker[w] = "idle" => b.worker[w] = "idle",
           \/ b.phase = a.phase
           \/ a.phase = "launched" /\ b.phase = "opening"
           \/ a.phase = "opening" /\ b.phase = "running"
           \/ a.phase = "running" /\ b.phase = "drain"
           \/ a.phase = "dialog" /\ b.phase = "draining"
    PROVE  Served(b)
  BY DEF Served, Steady, Drained, Serving


(* One step of one process, on its record. *)

\* Only the idle workers of the barrier matter: a thread may start while the
\* event loop runs, and may end at any time.
LEMMA WorkerServed ==
    ASSUME NEW a \in AppState, Served(a), NEW w \in Workers, NEW to \in {"idle", "busy", "ended"},
           to = "idle" \/ a.worker[w] # "idle" \/ a.phase \in {"running", "dialog"},
           NEW b, b = [a EXCEPT !.worker[w] = to]
    PROVE  b \in AppState /\ Served(b) /\ b.phase = a.phase
  <1>1. b \in AppState
    BY DEF AppState
  <1>2. /\ b.phase = a.phase /\ b.joined = a.joined /\ b.failed = a.failed
        /\ b.closing = a.closing /\ b.readySent = a.readySent
        /\ b.backup = a.backup /\ b.command = a.command /\ b.restart = a.restart
        /\ b.approved = a.approved /\ b.restored = a.restored
        /\ \A v \in Workers : v = w \/ b.worker[v] = a.worker[v]
        /\ b.worker[w] = to
    BY DEF AppState
  <1>3. CASE to = "idle" \/ a.worker[w] # "idle"
    <2>1. \A v \in Workers : a.worker[v] = "idle" => b.worker[v] = "idle"
      BY <1>2, <1>3
    <2>2. Served(b)
      BY <1>2, <2>1 DEF Served, Steady, Drained, Serving
    <2> QED
      BY <1>1, <1>2, <2>2
  <1>4. CASE a.phase \in {"running", "dialog"}
    BY <1>1, <1>2, <1>4 DEF Served, Steady, Drained, Serving
  <1> QED
    BY <1>3, <1>4

\* A request is recorded with what it asks for.
LEMMA RequestedServed ==
    ASSUME NEW a \in AppState, Served(a), a.phase \in {"running", "dialog"},
           NEW what \in {"exit", "update", "restore"}, NEW b, b = Requested(a, what)
    PROVE  b \in AppState /\ Served(b) /\ b.phase = a.phase
  <1>1. b \in AppState
    BY DEF Requested, AppState
  <1>2. /\ b.phase = a.phase /\ b.joined = a.joined /\ b.worker = a.worker
        /\ b.failed = IF a.failed = "late" THEN "late" ELSE "no"
        /\ b.readySent = a.readySent
        /\ b.backup = (what = "restore") /\ b.command = (what # "exit")
        /\ b.restart = a.restart /\ b.approved = what /\ b.restored = a.restored
    BY DEF Requested, AppState
  <1>3. b.backup <=> what = "restore"
    BY <1>2, Zenon
  <1>4. b.command <=> what \in {"update", "restore"}
    <2>1. b.command <=> what # "exit"
      BY <1>2, Zenon
    <2> QED
      BY <2>1
  <1>5. Steady(b) /\ Drained(b)
    BY <1>2 DEF Served, Steady, Drained
  <1>6. Serving(b)
    BY <1>2, <1>3, <1>4 DEF Served, Steady, Serving
  <1> QED
    BY <1>1, <1>2, <1>5, <1>6 DEF Served

\* The drain begins with the workers of a group that is closing.
LEMMA DrainServed ==
    ASSUME NEW a \in AppState, Served(a), a.phase = "drain",
           NEW b, b = [a EXCEPT !.phase = "draining", !.closing = TRUE]
    PROVE  b \in AppState /\ Served(b) /\ b.phase = "draining"
  <1> USE AppLifecycleAssumption
  <1>1. b \in AppState
    BY DEF AppState, Phases
  <1>2. /\ b.phase = "draining" /\ b.joined = a.joined /\ b.worker = a.worker
        /\ b.failed = a.failed /\ b.closing = TRUE
        /\ b.readySent = a.readySent /\ b.backup = a.backup /\ b.command = a.command
        /\ b.restart = a.restart /\ b.approved = a.approved /\ b.restored = a.restored
    BY DEF AppState
  <1>3. a.failed # "late" /\ a.joined = 0
    BY DEF Served, Steady
  <1>4. 0 + 1 \in Workers /\ \A w \in Workers : ~(w <= 0)
    BY DEF Workers
  <1>5. Steady(b) /\ Drained(b) /\ Serving(b)
    BY <1>2, <1>3, <1>4 DEF Served, Steady, Drained, Serving
  <1> QED
    BY <1>1, <1>2, <1>5 DEF Served

\* The last join finds every worker idle and announces readiness.
LEMMA JoinServed ==
    ASSUME NEW a \in AppState, Served(a), a.phase = "draining",
           NEW w \in Workers, w = a.joined + 1,
           NEW b, b = [a EXCEPT !.worker[w] = "idle", !.joined = w],
           NEW c, c \in (IF a.worker[w] = "ended" \/ w + 1 \notin Workers
                         THEN CheckReady(b) ELSE {b})
    PROVE  Served(c)
  <1> USE AppLifecycleAssumption
  <1>1. a.joined \in Nat /\ w \in 0..(Controllers + 1)
    BY DEF AppState, Workers
  <1>2. b \in AppState
    BY <1>1 DEF AppState
  <1>3. /\ b.phase = "draining" /\ b.joined = w
        /\ b.failed = a.failed /\ b.closing = a.closing
        /\ b.readySent = a.readySent /\ b.backup = a.backup /\ b.command = a.command
        /\ b.restart = a.restart /\ b.approved = a.approved /\ b.restored = a.restored
        /\ b.worker = [a.worker EXCEPT ![w] = "idle"]
    BY <1>2 DEF AppState
  <1>4. \A v \in Workers : b.worker[v] = IF v = w THEN "idle" ELSE a.worker[v]
    BY <1>3 DEF AppState
  <1>5. \A v \in Workers : v <= w => v = w \/ v <= a.joined
    BY <1>1 DEF Workers
  <1>6. Steady(b) /\ Serving(b)
    BY <1>3, <1>4, <1>5 DEF Served, Steady, Serving
  <1>7. CASE b.failed = "late"
    <2>1. c = b \/ c \in CheckReady(b)
      OBVIOUS
    <2>2. Drained(b)
      BY <1>7 DEF Drained
    <2> QED
      BY <1>2, <1>3, <1>6, <2>1, <2>2, CheckReadyServed DEF Served
  <1>8. CASE b.failed # "late" /\ w + 1 \in Workers
    <2>1. Drained(b)
      BY <1>3, <1>8 DEF Drained
    <2>2. c = b \/ c \in CheckReady(b)
      OBVIOUS
    <2> QED
      BY <1>2, <1>3, <1>6, <2>1, <2>2, CheckReadyServed DEF Served
  <1>9. CASE b.failed # "late" /\ w + 1 \notin Workers
    <2>1. \A v \in Workers : v <= w
      BY <1>1, <1>9 DEF Workers
    <2>2. b.closing /\ Quiet(b)
      BY <1>3, <1>6, <1>9, <2>1 DEF Steady, Quiet
    <2>3. c \in CheckReady(b)
      BY <1>9
    <2> QED
      BY <1>2, <1>3, <1>6, <2>2, <2>3, CheckReadyServed DEF Served
  <1> QED
    BY <1>7, <1>8, <1>9

\* The process is released when it was drained, with what it announced.
LEMMA ReleaseServed ==
    ASSUME NEW a \in AppState, Served(a), a.phase = "draining", a.joined + 1 \notin Workers,
           NEW b, b = [a EXCEPT !.phase = "released"]
    PROVE  Served(b)
  <1>1. /\ b.phase = "released" /\ b.joined = a.joined /\ b.worker = a.worker
        /\ b.failed = a.failed
        /\ b.readySent = a.readySent
        /\ b.restart = a.restart /\ b.approved = a.approved /\ b.restored = a.restored
    BY DEF AppState
  <1> QED
    BY <1>1 DEF Served, Steady, Drained, Serving

LEMMA RecoveredServed ==
    ASSUME NEW a \in AppState, Served(a), a.phase = "opening",
           NEW b, b = [a EXCEPT !.phase = "released", !.restart = TRUE,
                                !.approved = "restore", !.restored = TRUE]
    PROVE  Served(b)
  <1>1. /\ b.phase = "released" /\ b.restart = TRUE /\ b.approved = "restore"
        /\ b.restored = TRUE /\ b.failed = a.failed
    BY DEF AppState
  <1> QED
    BY <1>1 DEF Served, Steady, Drained, Serving


(* One step of the system. *)

\* A step of one process is a step of its record.
LEMMA OneServed ==
    ASSUME ServedInv, NEW p \in Procs, NEW b, Become(p, b), Served(b)
    PROVE  \A q \in Procs : Served(app'[q])
  <1>1. app'[p] = b /\ \A q \in Procs \ {p} : app'[q] = app[q]
    BY DEF Become, ServedInv, IInv, TypeOK
  <1> QED
    BY <1>1 DEF ServedInv

LEMMA ServedStep == ServedInv /\ [Next]_vars => ServedInv'
  <1> SUFFICES ASSUME ServedInv, [Next]_vars PROVE ServedInv'
    OBVIOUS
  <1> DEFINE Goal == \A q \in Procs : Served(app'[q])
  <1>0. \A p \in Procs : app[p] \in AppState /\ Served(app[p])
    BY OfProcess DEF ServedInv
  <1>1. ASSUME NEW p \in Procs, Launch(p) PROVE Goal
    BY <1>1, OffServed, OneServed DEF Launch
  <1>2. ASSUME NEW p \in Procs, NEW f \in {"opening", "running", "drain", "draining"},
               Become(p, [app[p] EXCEPT !.phase = f]),
               \/ app[p].phase = "launched" /\ f = "opening"
               \/ app[p].phase = "opening" /\ f = "running"
               \/ app[p].phase = "running" /\ f = "drain"
               \/ app[p].phase = "dialog" /\ f = "draining"
        PROVE  Goal
    <2>1. PICK b : b = [app[p] EXCEPT !.phase = f]
      OBVIOUS
    <2>2. /\ b.phase = f /\ b.joined = app[p].joined /\ b.worker = app[p].worker
          /\ b.failed = app[p].failed /\ b.closing = app[p].closing
          /\ b.readySent = app[p].readySent /\ b.backup = app[p].backup
          /\ b.command = app[p].command /\ b.restart = app[p].restart
          /\ b.approved = app[p].approved /\ b.restored = app[p].restored
      BY <1>0, <2>1 DEF AppState
    <2>3. Served(b)
      BY <1>0, <1>2, <2>2, SameServed
    <2> QED
      BY <1>2, <2>1, <2>3, OneServed
  <1>3. ASSUME NEW p \in Procs, TryAcquire(p) PROVE Goal
    BY <1>2, <1>3, OffServed, OneServed DEF TryAcquire
  <1>4. ASSUME NEW p \in Procs, OpenDatabase(p) \/ LoopEnds(p) \/ CloseDialog(p) PROVE Goal
    BY <1>2, <1>4 DEF OpenDatabase, LoopEnds, CloseDialog
  <1>5. ASSUME NEW p \in Procs, RecoverDatabase(p) PROVE Goal
    BY <1>0, <1>5, OffServed, RecoveredServed, OneServed DEF RecoverDatabase
  <1>6. ASSUME NEW p \in Procs, NEW w \in Workers, StartWorker(p, w) \/ WorkerEnds(p, w)
        PROVE  Goal
    <2>1. PICK to \in {"busy", "ended"} :
             /\ Become(p, [app[p] EXCEPT !.worker[w] = to])
             /\ app[p].worker[w] # "idle" \/ app[p].phase \in {"running", "dialog"}
      BY <1>6 DEF StartWorker, WorkerEnds, Looping
    <2> QED
      BY <1>0, <2>1, WorkerServed, OneServed
  <1>7. ASSUME NEW p \in Procs, NEW w \in Workers, ReceiveEnd(p, w) PROVE Goal
    <2>1. PICK a : a = [app[p] EXCEPT !.worker[w] = "idle"]
      OBVIOUS
    <2>2. PICK b \in CheckReady(a) : Become(p, b)
      BY <1>7, <2>1 DEF ReceiveEnd
    <2>3. a \in AppState /\ Served(a) /\ a.phase \in {"running", "dialog"}
      BY <1>0, <1>7, <2>1, WorkerServed DEF ReceiveEnd, Looping
    <2>4. Served(b)
      BY <2>2, <2>3, CheckReadyServed DEF Served
    <2> QED
      BY <2>2, <2>4, OneServed
  <1>8. ASSUME NEW p \in Procs, NEW what \in {"exit", "update", "restore"}, RequestExit(p, what)
        PROVE  Goal
    <2>1. PICK a : a = Requested(app[p], what)
      OBVIOUS
    <2>2. PICK b \in CheckReady(a) : Become(p, b)
      BY <1>8, <2>1 DEF RequestExit
    <2>3. a \in AppState /\ Served(a) /\ a.phase \in {"running", "dialog"}
      BY <1>0, <1>8, <2>1, RequestedServed DEF RequestExit, Looping
    <2>4. Served(b)
      BY <2>2, <2>3, CheckReadyServed DEF Served
    <2> QED
      BY <2>2, <2>4, OneServed
  <1>9. ASSUME NEW p \in Procs, BeginDrain(p) PROVE Goal
    <2>1. PICK a : a = [app[p] EXCEPT !.phase = "draining", !.closing = TRUE]
      OBVIOUS
    <2>2. PICK b \in {a} \cup CheckReady(a) : Become(p, b)
      BY <1>9, <2>1 DEF BeginDrain
    <2>3. a \in AppState /\ Served(a) /\ a.phase = "draining"
      BY <1>0, <1>9, <2>1, DrainServed DEF BeginDrain
    <2>4. Served(b)
      BY <2>2, <2>3, CheckReadyServed DEF Served
    <2> QED
      BY <2>2, <2>4, OneServed
  <1>10. ASSUME NEW p \in Procs, Join(p) PROVE Goal
    <2>1. PICK w : w = app[p].joined + 1
      OBVIOUS
    <2>2. PICK a : a = [app[p] EXCEPT !.worker[w] = "idle", !.joined = w]
      OBVIOUS
    <2>3. PICK b \in (IF app[p].worker[w] = "ended" \/ w + 1 \notin Workers
                      THEN CheckReady(a) ELSE {a}) : Become(p, b)
      BY <1>10, <2>1, <2>2 DEF Join
    <2>4. app[p].phase = "draining" /\ w \in Workers
      BY <1>10, <2>1 DEF Join
    <2>5. Served(b)
      BY <1>0, <2>1, <2>2, <2>3, <2>4, JoinServed
    <2> QED
      BY <2>3, <2>5, OneServed
  <1>11. ASSUME NEW p \in Procs, Release(p) PROVE Goal
    BY <1>0, <1>11, ReleaseServed, OneServed DEF Release
  <1>12. ASSUME NEW p \in Procs, Leave(p) PROVE Goal
    <2>1. \A q \in Procs : app'[q] \in {app[q], Off, [Off EXCEPT !.phase = "launched"]}
      BY <1>12 DEF Leave, ServedInv, IInv, TypeOK
    <2> QED
      BY <1>0, <2>1, OffServed
  <1>13. ASSUME NEW p \in Procs, Crash(p) PROVE Goal
    BY <1>13, OffServed, OneServed DEF Crash
  <1>14. ASSUME UNCHANGED vars PROVE Goal
    BY <1>0, <1>14 DEF vars
  <1> HIDE DEF Goal
  <1>15. ASSUME NEW p \in Procs,
                \/ Launch(p) \/ TryAcquire(p) \/ OpenDatabase(p) \/ RecoverDatabase(p)
                \/ \E w \in Workers : StartWorker(p, w)
                \/ \E what \in {"exit", "update", "restore"} : RequestExit(p, what)
                \/ LoopEnds(p) \/ CloseDialog(p) \/ Crash(p)
         PROVE  Goal
    BY <1>1, <1>3, <1>4, <1>5, <1>6, <1>8, <1>13, <1>15
  <1>16. ASSUME NEW p \in Procs, Proceeds(p) PROVE Goal
    BY <1>6, <1>7, <1>9, <1>10, <1>11, <1>12, <1>16 DEF Proceeds
  <1>17. Goal
    BY <1>14, <1>15, <1>16 DEF Next
  <1>18. \A q \in Procs : Served(app[q])'
    BY <1>17 DEF Goal, Served, Steady, Drained, Serving
  <1>19. IInv'
    BY StepIInv DEF ServedInv
  <1> QED
    BY <1>18, <1>19 DEF ServedInv

\* The first request is carried out and no later one changes it, for any number of
\* workers to wait for and whichever way the event loop ends, when no restore has
\* failed since anything was last asked (RuntimeLifecycle, wait_for_shutdown).
THEOREM FirstRequestServedHolds == Spec => []FirstRequestServed
  <1>1. Init => ServedInv
    BY InitIInv, OffServed DEF Init, ServedInv
  <1>2. ServedInv /\ [Next]_vars => ServedInv'
    BY ServedStep
  <1>3. ServedInv => FirstRequestServed
    BY DEF ServedInv, Served, Serving, FirstRequestServed, Leaves
  <1> QED
    BY <1>1, <1>2, <1>3, PTL DEF Spec
=============================================================================
