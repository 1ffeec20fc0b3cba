--------------------------- MODULE BackupsProofs ---------------------------
(***************************************************************************)
(* What backups and restores guarantee, for any folders, days and number   *)
(* of backups kept.  A database carries its own record of the last         *)
(* success, so that the invariant speaks of every copy there is: whichever *)
(* one is restored, what it claims about today has to be true.             *)
(***************************************************************************)
EXTENDS Backups, FiniteSetTheorems, TLAPS

Phases == {"off", "open", "closing", "safety", "verify", "stage", "recover", "drop", "swap"}
Steps == {"idle", "check", "copy", "replace", "retain", "confirm", "settle", "report"}
Job == [at : Steps, where : Folder, day : 0..MaxDay, copy : SUBSET Database,
        made : BOOLEAN, raised : BOOLEAN, cancelled : BOOLEAN]
Backup == [folder : Folder, day : Day]

TypeOK ==
    /\ file \in Database /\ wal \subseteq Database
    /\ \A c, e \in wal : c = e
    /\ daily \in [Folder -> [Day -> SUBSET Database]]
    /\ safety \subseteq Database /\ draft \subseteq Database
    /\ recorded \subseteq Fact /\ lost \subseteq Fact
    /\ today \in Day /\ phase \in Phases /\ want \subseteq Backup
    /\ job \in Job

Safe == FactsOf(safety)

\* Every backup can be read, and the live database, but for a file that was damaged.
AllWhole ==
    /\ \A c \in wal \cup Copies \cup job.copy : c.whole
    /\ phase \in {"open", "closing", "safety", "verify", "stage"} => file.whole
    /\ phase = "recover" => ~file.whole

\* What a restore replaces is in a safety copy, once that was made, and has no log.
Replaceable ==
    /\ phase = "verify" => Live.facts \subseteq FactsOf(draft)
    /\ phase \in {"stage", "drop", "swap"} => Live.facts \subseteq Safe
    /\ phase \in {"verify", "stage", "drop", "swap"} /\ file.whole => wal = {}
    /\ phase = "swap" => wal = {}

\* The worker runs while the application is open or closing.
WorkerRuns ==
    /\ ~At("idle") => phase \in {"open", "closing"} /\ job.day \in Day /\ job.day <= today
    /\ At("idle") => job = Idle

\* Nothing is lost.
Recoverable == recorded \ lost \subseteq Live.facts \cup Safe

\* What a database says of today's backup holds.
Truthful(db) == db.success <= today /\ (db.success = today => HasDaily(db.where, today))
AllTruthful == \A c \in {file} \cup wal \cup Copies \cup job.copy : Truthful(c)

\* No backup is of a day to come, and that of the job is there once it was made.
InOrder ==
    /\ \A f \in Folder, d \in Day : d > today => daily[f][d] = {}
    /\ job.made \/ At("retain") => (job.day = today => HasDaily(job.where, today))

IInv == TypeOK /\ AllWhole /\ Replaceable /\ WorkerRuns /\ Recoverable /\ AllTruthful /\ InOrder



----------------------------------------------------------------------------
\* What a connection reads.

Reads(f, w) == IF f.whole THEN CHOOSE d \in w \cup {f} : w # {} => d \in w ELSE Torn

LEMMA DatabasesTyped == Fresh \in Database /\ Torn \in Database /\ ~Torn.whole /\ Torn.facts = {}
<1>1. Default \in Folder /\ 0 \in 0..MaxDay
  BY BackupsAssumption
<1>2. PICK fresh : fresh = Fresh
  OBVIOUS
<1>3. fresh \in Database /\ fresh.facts = {}
  BY <1>1, <1>2 DEF Fresh, Database
<1> QED
  BY <1>2, <1>3 DEF Torn, Database

LEMMA ReadsWhich ==
    ASSUME NEW f, f.whole
    PROVE  /\ Reads(f, {}) = f
           /\ \A d : Reads(f, {d}) = d
<1>1. Reads(f, {}) = f
  BY DEF Reads
<1>2. ASSUME NEW d PROVE Reads(f, {d}) = d
  <2>1. \E c \in {d} \cup {f} : {d} # {} => c \in {d}
    OBVIOUS
  <2>2. \A c \in {d} \cup {f} : ({d} # {} => c \in {d}) => c = d
    OBVIOUS
  <2> QED
    BY <2>1, <2>2 DEF Reads
<1> QED
  BY <1>1, <1>2

LEMMA LogIs ==
    ASSUME IInv
    PROVE  wal = {} \/ \E d \in Database : wal = {d} /\ d.whole /\ Truthful(d)
<1>1. ASSUME NEW d \in wal PROVE wal = {d} /\ d \in Database /\ d.whole /\ Truthful(d)
  BY <1>1 DEF IInv, TypeOK, AllWhole, AllTruthful
<1> QED
  BY <1>1

LEMMA LiveIs ==
    ASSUME IInv
    PROVE  /\ Live = Reads(file, wal)
           /\ Live \in Database
           /\ Live.whole <=> file.whole
           /\ ~file.whole => Live.facts = {}
           /\ Truthful(Live)
           /\ wal = {} /\ file.whole => Live = file
<1>1. Live = Reads(file, wal)
  BY DEF Live, Reads
<1>2. CASE ~file.whole
  <2>1. Live = Torn
    BY <1>2 DEF Live
  <2>2. Torn.success = 0 /\ today \in Nat /\ today # 0
    BY DEF Torn, Fresh, IInv, TypeOK, Day
  <2>3. Truthful(Torn)
    BY <2>2 DEF Truthful
  <2> QED
    BY <1>1, <1>2, <2>1, <2>3, DatabasesTyped
<1>3. CASE file.whole /\ wal = {}
  BY <1>1, <1>3, ReadsWhich DEF IInv, TypeOK, AllTruthful
<1>4. CASE file.whole /\ wal # {}
  <2>1. PICK d \in Database : wal = {d} /\ d.whole /\ Truthful(d)
    BY <1>4, LogIs
  <2>2. Live = d
    BY <1>1, <1>4, <2>1, ReadsWhich
  <2> QED
    BY <1>1, <1>4, <2>1, <2>2
<1> QED
  BY <1>2, <1>3, <1>4


----------------------------------------------------------------------------
\* Steps by what they leave alone.

LEMMA SafetyGrows ==
    ASSUME safety \subseteq safety'
    PROVE  Safe \subseteq Safe'
BY DEF Safe, FactsOf

LEMMA DailyKept ==
    ASSUME UNCHANGED daily
    PROVE  Copies' = Copies /\ \A f, d : HasDaily(f, d)' <=> HasDaily(f, d)
BY DEF Copies, HasDaily, Valid

\* The live database and the backups are left alone, and no safety copy goes.
LEMMA DiskKept ==
    ASSUME IInv, UNCHANGED <<file, wal, daily, today, recorded, lost>>,
           safety \subseteq safety', safety' \subseteq Database, draft' \subseteq Database,
           phase' \in Phases, want' \subseteq Backup, job' \in Job, job'.copy \subseteq job.copy,
           phase' \in {"open", "closing", "safety", "verify", "stage"} => file.whole,
           phase' = "recover" => ~file.whole,
           phase' = "verify" => Live.facts \subseteq FactsOf(draft)',
           phase' \in {"stage", "drop", "swap"} => Live.facts \subseteq Safe',
           phase' \in {"verify", "stage", "drop", "swap"} => (file.whole => wal = {}),
           phase' = "swap" => wal = {},
           job'.at # "idle" => phase' \in {"open", "closing"} /\ job'.day \in Day /\ job'.day <= today,
           job'.at = "idle" => job' = Idle,
           job'.made \/ job'.at = "retain" => (job'.day = today => HasDaily(job'.where, today))
    PROVE  IInv'
<1>1. Copies' = Copies /\ \A f, d : HasDaily(f, d)' <=> HasDaily(f, d)
  BY DailyKept
<1>2. Live' = Live /\ Safe \subseteq Safe'
  BY SafetyGrows DEF Live
<1>3. TypeOK'
  BY DEF IInv, TypeOK
<1>4. AllWhole'
  BY <1>1 DEF IInv, AllWhole
<1>5. Replaceable'
  BY <1>2 DEF Replaceable
<1>6. WorkerRuns'
  BY DEF WorkerRuns, At
<1>7. Recoverable'
  BY <1>2 DEF IInv, Recoverable
<1>8. AllTruthful'
  BY <1>1 DEF IInv, AllTruthful, Truthful
<1>9. InOrder'
  BY <1>1 DEF IInv, InOrder, At
<1> QED
  BY <1>3, <1>4, <1>5, <1>6, <1>7, <1>8, <1>9 DEF IInv

\* The live database becomes d, which has whatever it had.
LEMMA LiveWritten ==
    ASSUME IInv, UNCHANGED <<daily, today, lost>>,
           safety \subseteq safety', safety' \subseteq Database, draft' \subseteq Database,
           NEW d \in Database, d.whole, Truthful(d), Live.facts \subseteq d.facts,
           recorded' \subseteq Fact, recorded' \subseteq recorded \cup d.facts,
           file' \in {file, d}, file'.whole, wal' \subseteq {d}, file' = d \/ wal' = {d},
           phase' \in {"open", "closing", "verify"}, want' \subseteq Backup,
           phase' = "verify" => wal' = {} /\ draft' = {d},
           job' \in Job, job'.copy \subseteq job.copy \cup {d},
           job'.at # "idle" => phase' \in {"open", "closing"} /\ job'.day \in Day /\ job'.day <= today,
           job'.at = "idle" => job' = Idle,
           job'.made \/ job'.at = "retain" => (job'.day = today => HasDaily(job'.where, today))
    PROVE  IInv' /\ Live' = d
<1>1. Copies' = Copies /\ \A f, e : HasDaily(f, e)' <=> HasDaily(f, e)
  BY DailyKept
<1>2. Live' = d
  <2>1. Live' = Reads(file', wal')
    BY DEF Live, Reads
  <2>2. wal' = {} \/ wal' = {d}
    OBVIOUS
  <2> QED
    BY <2>1, <2>2, ReadsWhich
<1>3. TypeOK'
  BY DEF IInv, TypeOK, Phases
<1>4. AllWhole'
  BY <1>1 DEF IInv, AllWhole
<1>5. Replaceable'
  <2>1. phase' = "verify" => d.facts \subseteq FactsOf(draft)'
    BY DEF FactsOf
  <2> QED
    BY <1>2, <2>1 DEF Replaceable
<1>6. WorkerRuns'
  BY DEF WorkerRuns, At
<1>7. Recoverable'
  BY <1>2, SafetyGrows DEF IInv, Recoverable
<1>8. AllTruthful'
  <2>1. \A c \in {file, d} \cup wal \cup Copies \cup job.copy : Truthful(c)
    BY DEF IInv, AllTruthful
  <2>2. \A c \in {file'} \cup wal' \cup Copies' \cup job'.copy : Truthful(c)
    BY <1>1, <2>1
  <2> QED
    BY <1>1, <2>2 DEF AllTruthful, Truthful
<1>9. InOrder'
  BY <1>1 DEF IInv, InOrder, At
<1> QED
  BY <1>2, <1>3, <1>4, <1>5, <1>6, <1>7, <1>8, <1>9 DEF IInv



----------------------------------------------------------------------------
\* The steps of the schedule and of the worker that leave the disk alone.

LEMMA JobTyped ==
    ASSUME IInv
    PROVE  job \in Job /\ Idle \in Job /\ Idle.copy = {} /\ ~Idle.made /\ Idle.at = "idle"
<1>1. Idle \in Job /\ Idle.copy = {} /\ ~Idle.made /\ Idle.at = "idle"
  BY BackupsAssumption DEF Idle, Job, Steps
<1> QED
  BY <1>1 DEF IInv, TypeOK

LEMMA RequestedTyped ==
    ASSUME NEW f \in Folder, NEW j, today \in Day, j = Requested(f)
    PROVE  j \in Job /\ j.at = "check" /\ j.day = today /\ j.copy = {} /\ ~j.made
<1>1. PICK i : i = Idle
  OBVIOUS
<1>2. i \in Job /\ i.copy = {} /\ i.made = FALSE
  BY <1>1, BackupsAssumption DEF Idle, Job, Steps
<1>3. j = [i EXCEPT !.at = "check", !.where = f, !.day = today]
  BY <1>1 DEF Requested
<1>4. today \in 0..MaxDay
  BY BackupsAssumption DEF Day
<1> QED
  BY <1>2, <1>3, <1>4 DEF Job, Steps

\* The worker goes on, in a process that goes on.
LEMMA WorkerGoesOn ==
    ASSUME IInv, UNCHANGED <<disk, today, history, phase, want>>,
           job' \in Job, job'.copy \subseteq job.copy,
           job'.at # "idle" => phase \in {"open", "closing"} /\ job'.day \in Day /\ job'.day <= today,
           job'.at = "idle" => job' = Idle,
           job'.made \/ job'.at = "retain" => (job'.day = today => HasDaily(job'.where, today))
    PROVE  IInv'
<1>1. /\ UNCHANGED <<file, wal, daily, safety, draft, today, recorded, lost, phase, want>>
      /\ draft' = draft /\ safety' = safety
  BY DEF disk, stored, saved, history
<1>2. /\ phase' \in Phases /\ want' \subseteq Backup
      /\ phase' \in {"open", "closing", "safety", "verify", "stage"} => file.whole
      /\ phase' = "recover" => ~file.whole
      /\ phase' = "verify" => Live.facts \subseteq FactsOf(draft)'
      /\ phase' \in {"stage", "drop", "swap"} => Live.facts \subseteq Safe'
      /\ phase' \in {"verify", "stage", "drop", "swap"} => (file.whole => wal = {})
      /\ phase' = "swap" => wal = {}
      /\ job'.at # "idle" => phase' \in {"open", "closing"} /\ job'.day \in Day /\ job'.day <= today
  BY <1>1 DEF IInv, TypeOK, AllWhole, Replaceable, Safe
<1>3. safety' \subseteq Database /\ draft' \subseteq Database
  BY <1>1 DEF IInv, TypeOK
<1> QED
  BY <1>1, <1>2, <1>3, DiskKept

LEMMA RequestSafe ==
    ASSUME IInv, Poll \/ BackUpNow
    PROVE  IInv'
<1>1. /\ phase = "open" /\ job' = Requested(Live.folder)
      /\ UNCHANGED <<disk, today, history, phase, want>>
  BY DEF Poll, BackUpNow, Request
<1>2. Live.folder \in Folder /\ today \in Day /\ today \in 0..MaxDay /\ today <= today
  BY LiveIs DEF IInv, TypeOK, Day, Database
<1>3. job' \in Job /\ job'.at = "check" /\ job'.day = today /\ job'.copy = {} /\ ~job'.made
  <2>1. PICK f \in Folder : f = Live.folder
    BY <1>2
  <2>2. PICK j : j = Requested(f)
    OBVIOUS
  <2> QED
    BY <1>1, <1>2, <2>1, <2>2, RequestedTyped
<1> QED
  BY <1>1, <1>2, <1>3, WorkerGoesOn

LEMMA StepsJob ==
    ASSUME IInv, ~At("idle"), NEW s \in Steps \ {"idle", "retain"}, NEW raised \in BOOLEAN,
           job' = [job EXCEPT !.at = s, !.raised = raised],
           UNCHANGED <<disk, today, history, phase, want>>
    PROVE  IInv'
<1>1. /\ job' \in Job /\ job'.at = s /\ job'.copy = job.copy /\ job'.day = job.day
      /\ job'.made = job.made /\ job'.where = job.where
  BY JobTyped DEF Job
<1>2. /\ phase \in {"open", "closing"} /\ job.day \in Day /\ job.day <= today
      /\ job.made => (job.day = today => HasDaily(job.where, today))
  BY DEF IInv, WorkerRuns, InOrder
<1> QED
  BY <1>1, <1>2, WorkerGoesOn

LEMMA CheckSafe ==
    ASSUME IInv, Check \/ Raise \/ Confirm
    PROVE  IInv'
<1>1. /\ ~At("idle") /\ UNCHANGED <<disk, today, history, phase, want>>
  BY DEF Check, Raise, Confirm, At, world
<1>2. PICK r \in BOOLEAN : r = job.raised
  BY JobTyped DEF Job
<1>3. CASE Check \/ Confirm
  <2>1. PICK s \in {"report", "copy", "settle"} : job' = [job EXCEPT !.at = s]
    BY <1>3 DEF Check, Confirm, Go
  <2>2. job' = [job EXCEPT !.at = s, !.raised = r]
    BY <1>2, <2>1, JobTyped DEF Job
  <2> QED
    BY <1>1, <2>1, <2>2, StepsJob DEF Steps
<1>4. CASE Raise
  <2>1. job' = [job EXCEPT !.at = "report", !.raised = TRUE]
    BY <1>4 DEF Raise
  <2>2. PICK s \in Steps \ {"idle", "retain"} : s = "report"
    BY DEF Steps
  <2> QED
    BY <1>1, <2>1, <2>2, StepsJob
<1> QED
  BY <1>3, <1>4

LEMMA ReportSafe ==
    ASSUME IInv, Report
    PROVE  IInv'
<1>1. job' = Idle /\ UNCHANGED <<disk, today, history, phase, want>>
  BY DEF Report, world
<1> QED
  BY <1>1, JobTyped, WorkerGoesOn

LEMMA QuarterSafe ==
    ASSUME IInv, QuarterPasses
    PROVE  IInv'
<1>1. UNCHANGED <<disk, today, history, phase, want, job>>
  BY DEF QuarterPasses, world
<1>2. /\ job.at # "idle" => phase \in {"open", "closing"} /\ job.day \in Day /\ job.day <= today
      /\ job.at = "idle" => job = Idle
      /\ job.made \/ job.at = "retain" => (job.day = today => HasDaily(job.where, today))
  BY DEF IInv, WorkerRuns, InOrder, At
<1> QED
  BY <1>1, <1>2, JobTyped, WorkerGoesOn



----------------------------------------------------------------------------
\* The steps that write the live database.

\* A commit ends in the file or in its log.
LEMMA CommitWrites ==
    ASSUME IInv, NEW d \in Database, d.whole, Truthful(d), Live.facts \subseteq d.facts, Commit(d),
           phase \in {"open", "closing"}, phase' = phase, want' = want,
           UNCHANGED <<daily, saved, today, lost>>,
           recorded' \subseteq Fact, recorded' \subseteq recorded \cup d.facts,
           job' \in Job, job'.copy \subseteq job.copy,
           job'.at # "idle" => job'.day \in Day /\ job'.day <= today,
           job'.at = "idle" => job' = Idle,
           job'.made \/ job'.at = "retain" => (job'.day = today => HasDaily(job'.where, today))
    PROVE  IInv'
<1>1. /\ file.whole /\ want \subseteq Backup
      /\ UNCHANGED <<daily, today, lost>> /\ safety \subseteq safety'
      /\ safety' \subseteq Database /\ draft' \subseteq Database
  BY DEF IInv, TypeOK, AllWhole, saved
<1>2. /\ file' \in {file, d} /\ file'.whole /\ wal' \subseteq {d}
      /\ file' = d \/ wal' = {d}
  BY <1>1 DEF Commit
<1> QED
  BY <1>1, <1>2, LiveWritten

LEMMA ChooseFolderSafe ==
    ASSUME IInv, NEW f \in Folder, ChooseFolder(f)
    PROVE  IInv'
<1>1. PICK d : d = [Live EXCEPT !.folder = f]
  OBVIOUS
<1>2. /\ phase = "open" /\ Commit(d) /\ UNCHANGED <<daily, saved, today, lost, phase, want>>
      /\ recorded' = recorded /\ recorded \subseteq Fact
      /\ job' = Requested(f) \/ job' = job
  BY <1>1 DEF ChooseFolder, SetFolder, history, IInv, TypeOK
<1>3. d \in Database /\ d.whole = Live.whole /\ d.facts = Live.facts /\ Truthful(d)
  BY <1>1, LiveIs DEF Database, Truthful
<1>4. d.whole
  BY <1>2, <1>3, LiveIs DEF IInv, AllWhole
<1>5. today \in Day /\ today <= today
  BY DEF IInv, TypeOK, Day
<1>6. CASE job' = job
  BY <1>2, <1>3, <1>4, <1>6, JobTyped, CommitWrites DEF IInv, WorkerRuns, InOrder, At
<1>7. CASE job' = Requested(f)
  <2>1. job' \in Job /\ job'.at = "check" /\ job'.day = today /\ job'.copy = {} /\ ~job'.made
    BY <1>5, <1>7, RequestedTyped
  <2> QED
    BY <1>2, <1>3, <1>4, <1>5, <2>1, CommitWrites
<1> QED
  BY <1>2, <1>6, <1>7

\* What is settled is true: the backup of the job is there.
LEMMA SettleSafe ==
    ASSUME IInv, Settle
    PROVE  IInv'
<1>1. PICK d : d = IF job.made
                   THEN [Live EXCEPT !.success = job.day, !.where = job.where, !.warned = FALSE]
                   ELSE [Live EXCEPT !.warned = TRUE]
  OBVIOUS
<1>2. /\ job.at = "settle" /\ Commit(d) /\ UNCHANGED <<daily, saved, today, lost, phase, want>>
      /\ job' = [job EXCEPT !.at = "report"] /\ recorded' = recorded /\ recorded \subseteq Fact
  BY <1>1 DEF Settle, At, Go, world, history, IInv, TypeOK
<1>3. /\ phase \in {"open", "closing"} /\ job.day \in Day /\ job.day <= today
      /\ job.made => (job.day = today => HasDaily(job.where, today))
  BY <1>2 DEF IInv, WorkerRuns, InOrder, At
<1>4. job \in Job /\ Live \in Database /\ Live.whole /\ Truthful(Live)
  BY <1>3, JobTyped, LiveIs DEF IInv, AllWhole
<1>5. d \in Database /\ d.whole /\ d.facts = Live.facts
  BY <1>1, <1>3, <1>4 DEF Job, Database, Day
<1>6. Truthful(d)
  <2>1. CASE job.made
    <3>1. d.success = job.day /\ d.where = job.where
      BY <1>1, <1>4, <2>1 DEF Database
    <3> QED
      BY <1>3, <2>1, <3>1 DEF Truthful
  <2>2. CASE ~job.made
    <3>1. d.success = Live.success /\ d.where = Live.where
      BY <1>1, <1>4, <2>2 DEF Database
    <3> QED
      BY <1>4, <3>1 DEF Truthful
  <2> QED
    BY <2>1, <2>2
<1>7. /\ job' \in Job /\ job'.at = "report" /\ job'.copy = job.copy /\ job'.day = job.day
      /\ job'.made = job.made /\ job'.where = job.where
  BY <1>2, <1>4 DEF Job, Steps
<1> QED
  BY <1>2, <1>3, <1>5, <1>6, <1>7, CommitWrites

LEMMA RecordSafe ==
    ASSUME IInv, Record
    PROVE  IInv'
<1>1. PICK n \in Fact : /\ Commit([Live EXCEPT !.facts = Live.facts \cup {n}])
                        /\ recorded' = recorded \cup {n}
  BY DEF Record
<1>2. PICK d : d = [Live EXCEPT !.facts = Live.facts \cup {n}]
  OBVIOUS
<1>3. phase = "open" /\ UNCHANGED <<daily, saved, today, lost, phase, want, job>>
  BY DEF Record
<1>4. Live \in Database /\ Live.whole /\ Truthful(Live)
  BY <1>3, LiveIs DEF IInv, AllWhole
<1>5. /\ d \in Database /\ d.whole /\ Live.facts \subseteq d.facts /\ n \in d.facts
      /\ d.success = Live.success /\ d.where = Live.where
  BY <1>2, <1>4 DEF Database
<1>6. Truthful(d)
  BY <1>4, <1>5 DEF Truthful
<1>7. /\ job.at # "idle" => job.day \in Day /\ job.day <= today
      /\ job.at = "idle" => job = Idle
      /\ job.made \/ job.at = "retain" => (job.day = today => HasDaily(job.where, today))
  BY DEF IInv, WorkerRuns, InOrder, At
<1>8. recorded' \subseteq Fact /\ recorded' \subseteq recorded \cup d.facts
  BY <1>1, <1>5 DEF IInv, TypeOK
<1> QED
  BY <1>1, <1>2, <1>3, <1>5, <1>6, <1>7, <1>8, JobTyped, CommitWrites

\* The log is brought into the file.
LEMMA Checkpoints ==
    ASSUME IInv, Checkpoint, file.whole, UNCHANGED <<daily, today, history>>,
           safety \subseteq safety', safety' \subseteq Database, draft' \subseteq Database,
           phase' \in {"open", "closing", "verify"}, want' \subseteq Backup,
           phase' = "verify" => draft' = {Live},
           job' \in Job, job'.copy \subseteq job.copy \cup {Live},
           job'.at # "idle" => phase' \in {"open", "closing"} /\ job'.day \in Day /\ job'.day <= today,
           job'.at = "idle" => job' = Idle,
           job'.made \/ job'.at = "retain" => (job'.day = today => HasDaily(job'.where, today))
    PROVE  IInv' /\ Live' = Live
<1>1. PICK d : d = Live
  OBVIOUS
<1>2. d \in Database /\ d.whole /\ Truthful(d)
  BY <1>1, LiveIs
<1>3. /\ file' = d /\ wal' = {} /\ lost' = lost
      /\ recorded' \subseteq Fact /\ recorded' \subseteq recorded \cup d.facts
  BY <1>1 DEF Checkpoint, history, IInv, TypeOK
<1> QED
  BY <1>1, <1>2, <1>3, LiveWritten

\* The worker brings it in.
LEMMA WorkerCheckpoints ==
    ASSUME IInv, Checkpoint, phase \in {"open", "closing"},
           UNCHANGED <<daily, saved, today, history, phase, want>>,
           job' \in Job, job'.copy \subseteq job.copy \cup {Live},
           job'.at # "idle", job'.day \in Day, job'.day <= today,
           job'.made \/ job'.at = "retain" => (job'.day = today => HasDaily(job'.where, today))
    PROVE  IInv'
<1>1. /\ file.whole /\ want \subseteq Backup /\ safety \subseteq safety'
      /\ safety' \subseteq Database /\ draft' \subseteq Database
  BY DEF IInv, TypeOK, AllWhole, saved
<1> QED
  BY <1>1, Checkpoints

LEMMA CopySafe ==
    ASSUME IInv, Copy
    PROVE  IInv'
<1>1. /\ job.at = "copy" /\ Checkpoint /\ UNCHANGED <<daily, saved, today, history, phase, want>>
      /\ job' = [job EXCEPT !.at = "replace", !.copy = {Live}]
  BY DEF Copy, At, world
<1>2. /\ phase \in {"open", "closing"} /\ job.day \in Day /\ job.day <= today
      /\ job.made => (job.day = today => HasDaily(job.where, today))
  BY <1>1 DEF IInv, WorkerRuns, InOrder, At
<1>3. Live \in Database
  BY LiveIs
<1>4. /\ job' \in Job /\ job'.at = "replace" /\ job'.copy = {Live} /\ job'.day = job.day
      /\ job'.made = job.made /\ job'.where = job.where
  BY <1>1, <1>3, JobTyped DEF Job, Steps
<1> QED
  BY <1>1, <1>2, <1>4, WorkerCheckpoints

LEMMA FailSafe ==
    ASSUME IInv, Fail
    PROVE  IInv'
<1>1. /\ job.at \in {"copy", "replace", "retain"} /\ job' = [job EXCEPT !.at = "confirm"]
      /\ UNCHANGED <<daily, saved, today, history, phase, want>>
      /\ Checkpoint \/ UNCHANGED stored
  BY DEF Fail, At, Go
<1>2. /\ phase \in {"open", "closing"} /\ job.day \in Day /\ job.day <= today
      /\ job.made => (job.day = today => HasDaily(job.where, today))
  BY <1>1 DEF IInv, WorkerRuns, InOrder, At
<1>3. /\ job' \in Job /\ job'.at = "confirm" /\ job'.copy = job.copy /\ job'.day = job.day
      /\ job'.made = job.made /\ job'.where = job.where
  BY <1>1, JobTyped DEF Job, Steps
<1>4. CASE Checkpoint
  BY <1>1, <1>2, <1>3, <1>4, WorkerCheckpoints
<1>5. CASE UNCHANGED stored
  BY <1>1, <1>2, <1>3, <1>5, WorkerGoesOn DEF disk
<1> QED
  BY <1>1, <1>4, <1>5



----------------------------------------------------------------------------
\* The steps that write the daily backups.

LEMMA WrittenIs ==
    ASSUME IInv, NEW f \in Folder, NEW d \in Day, NEW copy, daily' = Written(f, d, copy)
    PROVE  /\ daily'[f][d] = {copy}
           /\ \A g \in Folder, e \in Day : ~(g = f /\ e = d) => daily'[g][e] = daily[g][e]
           /\ copy \in Database => daily' \in [Folder -> [Day -> SUBSET Database]]
<1>1. PICK table : table = [daily[f] EXCEPT ![d] = {copy}]
  OBVIOUS
<1>2. daily[f] \in [Day -> SUBSET Database] /\ DOMAIN daily = Folder
  BY DEF IInv, TypeOK
<1>3. /\ table[d] = {copy} /\ \A e \in Day \ {d} : table[e] = daily[f][e]
      /\ copy \in Database => table \in [Day -> SUBSET Database]
  BY <1>1, <1>2
<1>4. daily' = [daily EXCEPT ![f] = table]
  BY <1>1 DEF Written
<1> QED
  BY <1>2, <1>3, <1>4 DEF IInv, TypeOK

LEMMA ReplaceSafe ==
    ASSUME IInv, Replace
    PROVE  IInv'
<1>1. PICK copy \in job.copy : daily' = Written(job.where, job.day, copy)
  BY DEF Replace
<1>2. /\ job.at = "replace" /\ job' = [job EXCEPT !.at = "retain"]
      /\ UNCHANGED <<file, wal, safety, draft, today, recorded, lost, phase, want>>
  BY DEF Replace, At, Go, world, stored, saved, history
<1>3. /\ phase \in {"open", "closing"} /\ job.day \in Day /\ job.day <= today
      /\ job \in Job /\ job.where \in Folder /\ today \in Nat
  BY <1>2, JobTyped DEF IInv, TypeOK, WorkerRuns, At, Job, Day
<1>4. /\ copy \in Database /\ copy.whole /\ Truthful(copy)
  BY <1>3 DEF IInv, AllWhole, AllTruthful, Job
<1>5. /\ daily'[job.where][job.day] = {copy}
      /\ \A g \in Folder, e \in Day :
             ~(g = job.where /\ e = job.day) => daily'[g][e] = daily[g][e]
      /\ daily' \in [Folder -> [Day -> SUBSET Database]]
  BY <1>1, <1>3, <1>4, WrittenIs
<1>6. /\ job' \in Job /\ job'.at = "retain" /\ job'.copy = job.copy /\ job'.day = job.day
      /\ job'.made = job.made /\ job'.where = job.where
  BY <1>2, <1>3 DEF Job, Steps
<1>7. Copies' \subseteq Copies \cup job.copy
  <2> SUFFICES ASSUME NEW f \in Folder, NEW d \in Day
               PROVE  daily'[f][d] \subseteq Copies \cup job.copy
    BY DEF Copies
  <2>1. daily[f][d] \subseteq Copies
    BY DEF Copies
  <2> QED
    BY <1>5, <2>1
<1>8. /\ \A f \in Folder, d \in Day : HasDaily(f, d) => HasDaily(f, d)'
      /\ \A f \in Folder, d \in Day : f = job.where /\ d = job.day => HasDaily(f, d)'
  <2>1. ASSUME NEW f \in Folder, NEW d \in Day, f = job.where /\ d = job.day
        PROVE  HasDaily(f, d)'
    <3>1. daily'[f][d] = {copy}
      BY <1>5, <2>1
    <3> QED
      BY <1>4, <3>1 DEF HasDaily, Valid
  <2>2. ASSUME NEW f \in Folder, NEW d \in Day, HasDaily(f, d), ~(f = job.where /\ d = job.day)
        PROVE  HasDaily(f, d)'
    <3>1. daily'[f][d] = daily[f][d]
      BY <1>5, <2>2
    <3> QED
      BY <2>2, <3>1 DEF HasDaily, Valid
  <2> QED
    BY <2>1, <2>2
<1>9. Live' = Live /\ Safe' = Safe
  BY <1>2 DEF Live, Safe
<1>10. TypeOK'
  BY <1>2, <1>5, <1>6 DEF IInv, TypeOK
<1>11. AllWhole'
  BY <1>2, <1>6, <1>7 DEF IInv, AllWhole
<1>12. Replaceable'
  BY <1>2, <1>9 DEF IInv, Replaceable
<1>13. WorkerRuns'
  BY <1>2, <1>3, <1>6 DEF WorkerRuns, At
<1>14. Recoverable'
  BY <1>2, <1>9 DEF IInv, Recoverable
<1>15. AllTruthful'
  <2> SUFFICES ASSUME NEW c \in {file} \cup wal \cup Copies \cup job.copy
               PROVE  Truthful(c)'
    BY <1>2, <1>6, <1>7 DEF AllTruthful
  <2>1. c \in Database /\ Truthful(c)
    BY DEF IInv, TypeOK, AllTruthful, Copies, Job
  <2>2. c.where \in Folder /\ today \in Day
    BY <2>1 DEF Database, IInv, TypeOK
  <2> QED
    BY <1>2, <1>8, <2>1, <2>2 DEF Truthful
<1>16. InOrder'
  <2>1. ASSUME NEW f \in Folder, NEW d \in Day, d > today PROVE daily'[f][d] = {}
    BY <1>3, <1>5, <2>1 DEF IInv, InOrder, Day
  <2>2. (job.day = today => HasDaily(job.where, today))'
    BY <1>2, <1>3, <1>6, <1>8 DEF Day
  <2> QED
    BY <1>2, <2>1, <2>2 DEF InOrder, At
<1> QED
  BY <1>10, <1>11, <1>12, <1>13, <1>14, <1>15, <1>16 DEF IInv

\* Today's backup is among the newest, and stays.
LEMMA RetainSafe ==
    ASSUME IInv, Retain
    PROVE  IInv'
<1>1. /\ job.at = "retain" /\ job' = [job EXCEPT !.at = "confirm", !.made = TRUE]
      /\ UNCHANGED <<file, wal, safety, draft, today, recorded, lost, phase, want>>
  BY DEF Retain, At, world, stored, saved, history
<1>2. /\ phase \in {"open", "closing"} /\ job.day \in Day /\ job.day <= today
      /\ job \in Job /\ job.where \in Folder /\ today \in Nat /\ today \in Day
  BY <1>1, JobTyped DEF IInv, TypeOK, WorkerRuns, At, Job, Day
<1>3. PICK table : table = [d \in Day |-> {copy \in daily[job.where][d] :
                               Valid(copy) => Cardinality(Newer(job.where, d)) < Keep}]
  OBVIOUS
<1>4. daily' = [daily EXCEPT ![job.where] = table]
  BY <1>3 DEF Retain
<1>5. daily \in [Folder -> [Day -> SUBSET Database]]
  BY DEF IInv, TypeOK
<1>6. table \in [Day -> SUBSET Database] /\ \A d \in Day : table[d] \subseteq daily[job.where][d]
  BY <1>2, <1>3, <1>5
<1>7. table[today] = daily[job.where][today]
  <2>1. Newer(job.where, today) = {}
    <3>1. \A e \in Day : e > today => daily[job.where][e] = {}
      BY <1>2 DEF IInv, InOrder
    <3> QED
      BY <3>1 DEF Newer, ValidIn, HasDaily
  <2>2. Cardinality(Newer(job.where, today)) < Keep
    BY <2>1, FS_EmptySet, BackupsAssumption
  <2> QED
    BY <1>2, <1>3, <2>2
<1>8. /\ daily' \in [Folder -> [Day -> SUBSET Database]]
      /\ \A f \in Folder, d \in Day : daily'[f][d] \subseteq daily[f][d]
      /\ \A f \in Folder : daily'[f][today] = daily[f][today]
  BY <1>2, <1>4, <1>5, <1>6, <1>7
<1>9. /\ job' \in Job /\ job'.at = "confirm" /\ job'.copy = job.copy /\ job'.day = job.day
      /\ job'.where = job.where
  BY <1>1, <1>2 DEF Job, Steps
<1>10. Copies' \subseteq Copies
  <2> SUFFICES ASSUME NEW f \in Folder, NEW d \in Day
               PROVE  daily'[f][d] \subseteq Copies
    BY DEF Copies
  <2>1. daily[f][d] \subseteq Copies
    BY DEF Copies
  <2> QED
    BY <1>8, <2>1
<1>11. \A f \in Folder : HasDaily(f, today) => HasDaily(f, today)'
  BY <1>1, <1>8 DEF HasDaily, Valid
<1>12. Live' = Live /\ Safe' = Safe
  BY <1>1 DEF Live, Safe
<1>13. TypeOK'
  BY <1>1, <1>8, <1>9 DEF IInv, TypeOK
<1>14. AllWhole'
  BY <1>1, <1>9, <1>10 DEF IInv, AllWhole
<1>15. Replaceable'
  BY <1>1, <1>12 DEF IInv, Replaceable
<1>16. WorkerRuns'
  BY <1>1, <1>2, <1>9 DEF WorkerRuns, At
<1>17. Recoverable'
  BY <1>1, <1>12 DEF IInv, Recoverable
<1>18. AllTruthful'
  <2> SUFFICES ASSUME NEW c \in {file} \cup wal \cup Copies \cup job.copy
               PROVE  Truthful(c)'
    BY <1>1, <1>9, <1>10 DEF AllTruthful
  <2>1. c \in Database /\ Truthful(c)
    BY DEF IInv, TypeOK, AllTruthful, Copies, Job
  <2>2. c.where \in Folder
    BY <2>1 DEF Database
  <2> QED
    BY <1>1, <1>11, <2>1, <2>2 DEF Truthful
<1>19. InOrder'
  <2>1. ASSUME NEW f \in Folder, NEW d \in Day, d > today PROVE daily'[f][d] = {}
    BY <1>8, <2>1 DEF IInv, InOrder
  <2>2. job.day = today => HasDaily(job.where, today)
    BY <1>1 DEF IInv, InOrder, At
  <2>3. (job.day = today => HasDaily(job.where, today))'
    BY <1>1, <1>2, <1>9, <1>11, <2>2
  <2> QED
    BY <1>1, <2>1, <2>3 DEF InOrder, At
<1> QED
  BY <1>13, <1>14, <1>15, <1>16, <1>17, <1>18, <1>19 DEF IInv



----------------------------------------------------------------------------
\* The steps of the process.

LEMMA OffSafe ==
    ASSUME IInv, Off(file, wal), UNCHANGED <<daily, today, history>>,
           safety \subseteq safety', safety' \subseteq Database, draft' \subseteq Database
    PROVE  IInv'
<1>1. UNCHANGED <<file, wal, recorded, lost>> /\ phase' = "off" /\ want' = {} /\ job' = Idle
  BY DEF Off, history
<1> QED
  BY <1>1, JobTyped, DiskKept DEF Phases

LEMMA EndSafe ==
    ASSUME IInv, Exit \/ Crash
    PROVE  IInv'
<1>1. /\ Off(file, wal) /\ UNCHANGED <<daily, today, history>> /\ safety \subseteq safety'
      /\ safety' \subseteq Database /\ draft' \subseteq Database
  BY DEF Exit, Crash, world, saved, IInv, TypeOK
<1> QED
  BY <1>1, OffSafe

LEMMA StartSafe ==
    ASSUME IInv, Start
    PROVE  IInv'
<1>1. /\ phase = "off" /\ Live.whole /\ Checkpoint /\ phase' = "open"
      /\ UNCHANGED <<daily, today, history, want, job>>
      /\ safety \subseteq safety' /\ safety' \subseteq Database /\ draft' \subseteq Database
  BY DEF Start, world, saved, IInv, TypeOK
<1>2. job.at = "idle" /\ job = Idle /\ want \subseteq Backup
  BY <1>1 DEF IInv, TypeOK, WorkerRuns, At
<1> QED
  BY <1>1, <1>2, LiveIs, JobTyped, Checkpoints

LEMMA RecoverSafe ==
    ASSUME IInv, Recover
    PROVE  IInv'
<1>1. /\ phase = "off" /\ ~Live.whole /\ phase' = "recover"
      /\ UNCHANGED <<file, wal, daily, today, recorded, lost, job>>
      /\ safety \subseteq safety' /\ safety' \subseteq Database /\ draft' \subseteq Database
  BY DEF Recover, disk, world, stored, saved, history, IInv, TypeOK
<1>2. want' \subseteq Backup
  BY BackupsAssumption DEF Recover, Backup, ValidIn
<1>3. job.at = "idle" /\ job = Idle
  BY <1>1 DEF IInv, WorkerRuns, At
<1> QED
  BY <1>1, <1>2, <1>3, LiveIs, JobTyped, DiskKept DEF Phases

LEMMA ShutdownSafe ==
    ASSUME IInv, NEW backup, backup \subseteq Backup, BeginShutdown(backup)
    PROVE  IInv'
<1>1. /\ phase = "open" /\ phase' = "closing" /\ want' = backup
      /\ UNCHANGED <<file, wal, daily, today, recorded, lost>>
      /\ safety \subseteq safety' /\ safety' \subseteq Database /\ draft' \subseteq Database
      /\ IF At("idle") THEN job' = job ELSE job' = [job EXCEPT !.cancelled = TRUE]
  BY DEF BeginShutdown, disk, stored, saved, history, IInv, TypeOK
<1>2. /\ job' \in Job /\ job'.at = job.at /\ job'.copy = job.copy /\ job'.day = job.day
      /\ job'.made = job.made /\ job'.where = job.where
      /\ job.at = "idle" => job' = job
  BY <1>1, JobTyped DEF Job, At
<1>3. /\ file.whole
      /\ job.at # "idle" => job.day \in Day /\ job.day <= today
      /\ job.at = "idle" => job = Idle
      /\ job.made \/ job.at = "retain" => (job.day = today => HasDaily(job.where, today))
  BY <1>1 DEF IInv, AllWhole, WorkerRuns, InOrder, At
<1> QED
  BY <1>1, <1>2, <1>3, DiskKept DEF Phases

LEMMA RequestsSafe ==
    ASSUME IInv, RequestExit \/ \E b \in Listed : RequestRestore(b)
    PROVE  IInv'
<1>1. CASE RequestExit
  BY <1>1, ShutdownSafe DEF RequestExit
<1>2. CASE \E b \in Listed : RequestRestore(b)
  <2>1. PICK b \in Listed : BeginShutdown({b})
    BY <1>2 DEF RequestRestore
  <2>2. b \in Backup
    BY LiveIs DEF Listed, ValidIn, Backup, Database
  <2> QED
    BY <2>1, <2>2, ShutdownSafe
<1> QED
  BY <1>1, <1>2

LEMMA ResumeSafe ==
    ASSUME IInv, Resume, job = Idle, file.whole, UNCHANGED <<stored, daily, today, history>>,
           safety \subseteq safety', safety' \subseteq Database, draft' \subseteq Database
    PROVE  IInv'
<1>1. /\ UNCHANGED <<file, wal, daily, today, recorded, lost, job>>
      /\ phase' = "open" /\ want' = {}
  BY DEF Resume, stored, history
<1> QED
  BY <1>1, JobTyped, DiskKept DEF Phases

LEMMA CannotGoOnSafe ==
    ASSUME IInv, CannotGoOn
    PROVE  IInv'
<1>1. /\ phase \in {"closing", "stage", "recover", "drop", "swap"} /\ Refuse
      /\ UNCHANGED <<daily, today, history>> /\ safety \subseteq safety'
      /\ safety' \subseteq Database /\ draft' \subseteq Database
  BY DEF CannotGoOn, saved, IInv, TypeOK
<1>2. job = Idle
  BY <1>1 DEF CannotGoOn, IInv, WorkerRuns, At
<1>3. CASE Recovering
  BY <1>1, <1>3, OffSafe DEF Refuse
<1>4. CASE ~Recovering
  <2>1. Resume /\ UNCHANGED stored
    BY <1>4, <1>1 DEF Refuse
  <2>2. file.whole
    BY <1>1, <1>4 DEF IInv, AllWhole, Recovering
  <2> QED
    BY <1>1, <1>2, <2>1, <2>2, ResumeSafe
<1> QED
  BY <1>3, <1>4

\* The copying of the live database, which nothing else writes by now.
LEMMA BeginSafetySafe ==
    ASSUME IInv, BeginSafety
    PROVE  IInv'
<1>1. /\ phase = "closing" /\ phase' = "safety" /\ job.at = "idle" /\ draft' = {Torn}
      /\ UNCHANGED <<file, wal, daily, safety, today, recorded, lost, want, job>>
  BY DEF BeginSafety, At, stored, world, history
<1>2. /\ job = Idle /\ file.whole /\ want \subseteq Backup
      /\ safety' \subseteq Database /\ draft' \subseteq Database
  BY <1>1, DatabasesTyped DEF IInv, TypeOK, AllWhole, WorkerRuns, At
<1> QED
  BY <1>1, <1>2, JobTyped, DiskKept DEF Phases

LEMMA FinishSafetySafe ==
    ASSUME IInv, FinishSafety
    PROVE  IInv'
<1>1. /\ phase = "safety" /\ phase' = "verify" /\ draft' = {Live} /\ Checkpoint
      /\ UNCHANGED <<daily, safety, today, history, want, job>>
  BY DEF FinishSafety, world
<1>2. job = Idle /\ job.at = "idle" /\ file.whole /\ want \subseteq Backup
  BY <1>1 DEF IInv, TypeOK, AllWhole, WorkerRuns, At
<1>3. safety' \subseteq Database /\ draft' \subseteq Database
  BY <1>1, LiveIs DEF IInv, TypeOK
<1> QED
  BY <1>1, <1>2, <1>3, JobTyped, Checkpoints

LEMMA KeepSafetySafe ==
    ASSUME IInv, KeepSafety
    PROVE  IInv'
<1>1. /\ phase = "verify" /\ phase' = "stage" /\ safety' = safety \cup draft /\ draft' = {}
      /\ UNCHANGED <<file, wal, daily, today, recorded, lost, want, job>>
  BY DEF KeepSafety, stored, world, history
<1>2. /\ job = Idle /\ file.whole /\ want \subseteq Backup /\ wal = {}
      /\ safety' \subseteq Database
  BY <1>1 DEF IInv, TypeOK, AllWhole, Replaceable, WorkerRuns, At
<1>3. Live.facts \subseteq Safe'
  BY <1>1 DEF IInv, Replaceable, Safe, FactsOf
<1> QED
  BY <1>1, <1>2, <1>3, JobTyped, DiskKept DEF Phases

LEMMA SafetyFailsSafe ==
    ASSUME IInv, SafetyFails
    PROVE  IInv'
<1>1. /\ phase \in {"safety", "verify"} /\ Resume /\ UNCHANGED <<daily, today, history>>
      /\ Checkpoint \/ UNCHANGED stored
  BY DEF SafetyFails
<1>2. job = Idle /\ job.at = "idle" /\ file.whole
  BY <1>1 DEF IInv, AllWhole, WorkerRuns, At
<1>3. safety \subseteq safety' /\ safety' \subseteq Database /\ draft' \subseteq Database
  BY DEF SafetyFails, IInv, TypeOK
<1>4. CASE Checkpoint
  <2>1. phase' = "open" /\ want' = {} /\ job' = job
    BY <1>1 DEF Resume
  <2> QED
    BY <1>1, <1>2, <1>3, <1>4, <2>1, JobTyped, Checkpoints
<1>5. CASE UNCHANGED stored
  BY <1>1, <1>2, <1>3, <1>5, ResumeSafe
<1> QED
  BY <1>1, <1>4, <1>5

LEMMA StageSafe ==
    ASSUME IInv, Stage \/ StageRecovery
    PROVE  IInv'
<1>1. /\ phase \in {"stage", "recover"} /\ phase' = "drop"
      /\ UNCHANGED <<file, wal, daily, safety, draft, today, recorded, lost, want, job>>
  BY DEF Stage, StageRecovery, disk, world, stored, saved, history
<1>2. /\ job = Idle /\ want \subseteq Backup
      /\ safety' \subseteq Database /\ draft' \subseteq Database
  BY <1>1 DEF IInv, TypeOK, WorkerRuns, At
<1>3. Live.facts \subseteq Safe' /\ (file.whole => wal = {})
  BY <1>1, LiveIs DEF IInv, AllWhole, Replaceable, Safe
<1> QED
  BY <1>1, <1>2, <1>3, JobTyped, DiskKept DEF Phases

LEMMA DropLogSafe ==
    ASSUME IInv, DropLog
    PROVE  IInv' /\ Live' = Live
<1>1. /\ phase = "drop" /\ phase' = "swap" /\ wal' = {}
      /\ UNCHANGED <<file, daily, safety, draft, today, recorded, lost, want, job>>
  BY DEF DropLog, world, saved, history
<1>2. job = Idle /\ file.whole => wal = {}
  BY <1>1 DEF IInv, Replaceable, WorkerRuns, At
<1>3. Live' = Live
  BY <1>1, <1>2 DEF Live, IInv, Replaceable
<1>4. Copies' = Copies /\ Safe' = Safe /\ \A f, d : HasDaily(f, d)' <=> HasDaily(f, d)
  BY <1>1, DailyKept DEF Safe
<1>5. TypeOK'
  BY <1>1 DEF IInv, TypeOK, Phases
<1>6. AllWhole' /\ Replaceable'
  BY <1>1, <1>3, <1>4 DEF IInv, AllWhole, Replaceable
<1>7. WorkerRuns'
  BY <1>1 DEF IInv, WorkerRuns, At
<1>8. Recoverable'
  BY <1>1, <1>3, <1>4 DEF IInv, Recoverable
<1>9. AllTruthful'
  BY <1>1, <1>4 DEF IInv, AllTruthful, Truthful
<1>10. InOrder'
  BY <1>1, <1>4 DEF IInv, InOrder, At
<1> QED
  BY <1>3, <1>5, <1>6, <1>7, <1>8, <1>9, <1>10 DEF IInv

\* The backup takes the place of the database, which has its safety copy.
LEMMA SwapSafe ==
    ASSUME IInv, Swap
    PROVE  IInv' /\ Live'.whole
<1>1. wal = {} /\ Live.facts \subseteq Safe
  BY DEF Swap, IInv, Replaceable
<1>2. PICK copy \in Copies : Off(copy, {})
  <2>1. PICK b \in want : \E c \in daily[b.folder][b.day] : Off(c, {})
    BY <1>1 DEF Swap
  <2>2. b.folder \in Folder /\ b.day \in Day
    BY DEF IInv, TypeOK, Backup
  <2> QED
    BY <2>1, <2>2 DEF Copies
<1>3. /\ file' = copy /\ wal' = {} /\ phase' = "off" /\ want' = {} /\ job' = Idle
      /\ UNCHANGED <<daily, safety, draft, today, recorded, lost>>
  BY <1>2 DEF Off, Swap, world, saved, history
<1>4. copy \in Database /\ copy.whole /\ Truthful(copy)
  BY DEF IInv, TypeOK, AllWhole, AllTruthful, Copies
<1>5. Live' = copy
  <2>1. Live' = Reads(file', wal')
    BY DEF Live, Reads
  <2> QED
    BY <1>3, <1>4, <2>1, ReadsWhich
<1>6. Copies' = Copies /\ Safe' = Safe /\ \A f, d : HasDaily(f, d)' <=> HasDaily(f, d)
  BY <1>3, DailyKept DEF Safe
<1>7. TypeOK'
  BY <1>3, <1>4, JobTyped DEF IInv, TypeOK, Phases
<1>8. AllWhole' /\ Replaceable' /\ WorkerRuns'
  BY <1>3, <1>6, JobTyped DEF IInv, AllWhole, Replaceable, WorkerRuns, At
<1>9. Recoverable'
  BY <1>1, <1>3, <1>6 DEF IInv, Recoverable
<1>10. AllTruthful'
  BY <1>3, <1>4, <1>6, JobTyped DEF IInv, AllTruthful, Truthful
<1>11. InOrder'
  BY <1>3, <1>6, JobTyped DEF IInv, InOrder, At
<1> QED
  BY <1>4, <1>5, <1>7, <1>8, <1>9, <1>10, <1>11 DEF IInv


----------------------------------------------------------------------------
\* The world.

\* A new day: no database can speak of it yet.
LEMMA NextDaySafe ==
    ASSUME IInv, NextDay
    PROVE  IInv'
<1>1. /\ today < MaxDay /\ today' = today + 1
      /\ UNCHANGED <<file, wal, daily, safety, draft, recorded, lost, phase, want, job>>
  BY DEF NextDay, disk, stored, saved, history
<1>2. today \in Nat /\ today' \in Day /\ job.day \in Nat
  BY <1>1, BackupsAssumption DEF IInv, TypeOK, Day, Job
<1>3. Copies' = Copies /\ Safe' = Safe /\ Live' = Live /\ \A f, d : HasDaily(f, d)' <=> HasDaily(f, d)
  BY <1>1, DailyKept DEF Safe, Live
<1>4. TypeOK'
  BY <1>1, <1>2 DEF IInv, TypeOK
<1>5. AllWhole' /\ Replaceable'
  BY <1>1, <1>3 DEF IInv, AllWhole, Replaceable
<1>6. WorkerRuns'
  BY <1>1, <1>2 DEF IInv, WorkerRuns, At
<1>7. Recoverable'
  BY <1>1, <1>3 DEF IInv, Recoverable
<1>8. AllTruthful'
  <2> SUFFICES ASSUME NEW c \in {file} \cup wal \cup Copies \cup job.copy
               PROVE  Truthful(c)'
    BY <1>1, <1>3 DEF AllTruthful
  <2>1. c \in Database /\ Truthful(c)
    BY DEF IInv, TypeOK, AllTruthful, Copies, Job
  <2>2. c.success \in Nat
    BY <2>1 DEF Database
  <2> QED
    BY <1>1, <1>2, <2>1, <2>2 DEF Truthful
<1>9. InOrder'
  <2>1. job.day # today'
    BY <1>1, <1>2, JobTyped DEF IInv, WorkerRuns, At, Idle
  <2>2. \A f \in Folder, d \in Day : d > today' => daily[f][d] = {}
    BY <1>1, <1>2 DEF IInv, InOrder, Day
  <2> QED
    BY <1>1, <2>1, <2>2 DEF InOrder
<1> QED
  BY <1>4, <1>5, <1>6, <1>7, <1>8, <1>9 DEF IInv

LEMMA DamageSafe ==
    ASSUME IInv, Damage
    PROVE  IInv' /\ Live.facts \subseteq lost'
<1>1. /\ phase = "off" /\ file' = Torn /\ lost' = lost \cup Live.facts
      /\ UNCHANGED <<wal, daily, safety, draft, today, recorded, phase, want, job>>
  BY DEF Damage, saved
<1>2. Live' = Torn /\ Torn.facts = {} /\ Torn \in Database
  BY <1>1, DatabasesTyped DEF Live
<1>3. Copies' = Copies /\ Safe' = Safe /\ \A f, d : HasDaily(f, d)' <=> HasDaily(f, d)
  BY <1>1, DailyKept DEF Safe
<1>4. Live.facts \subseteq Fact
  BY LiveIs DEF Database
<1>5. TypeOK'
  BY <1>1, <1>2, <1>4 DEF IInv, TypeOK
<1>6. AllWhole' /\ Replaceable' /\ WorkerRuns'
  BY <1>1, <1>3 DEF IInv, AllWhole, Replaceable, WorkerRuns, At
<1>7. Recoverable'
  BY <1>1, <1>2, <1>3 DEF IInv, Recoverable
<1>8. AllTruthful'
  <2>1. Torn.success = 0 /\ today \in Nat /\ today # 0
    BY DEF Torn, Fresh, IInv, TypeOK, Day
  <2>2. Truthful(Torn)
    BY <2>1 DEF Truthful
  <2> QED
    BY <1>1, <1>3, <2>2 DEF IInv, AllTruthful, Truthful
<1>9. InOrder'
  BY <1>1, <1>3 DEF IInv, InOrder, At
<1> QED
  BY <1>1, <1>5, <1>6, <1>7, <1>8, <1>9 DEF IInv



----------------------------------------------------------------------------
\* What the specification guarantees.

LEMMA InitSafe ==
    ASSUME Init
    PROVE  IInv
<1>1. /\ file = Fresh /\ wal = {} /\ safety = {} /\ draft = {} /\ recorded = {} /\ lost = {} /\ today = 1 /\ phase = "off"
      /\ want = {} /\ job = Idle /\ daily = [f \in Folder |-> [d \in Day |-> {}]]
  BY DEF Init
<1>2. /\ Fresh \in Database /\ Fresh.facts = {} /\ Fresh.whole /\ Fresh.success = 0
      /\ 1 \in Day
  BY DatabasesTyped, BackupsAssumption DEF Fresh, Day
<1>3. Live = Fresh
  <2>1. Live = Reads(file, wal)
    BY DEF Live, Reads
  <2> QED
    BY <1>1, <1>2, <2>1, ReadsWhich
<1>4. Idle \in Job /\ Idle.copy = {} /\ ~Idle.made /\ Idle.at = "idle"
  BY BackupsAssumption DEF Idle, Job, Steps
<1>5. Copies = {}
  BY <1>1 DEF Copies
<1>6. TypeOK
  BY <1>1, <1>2, <1>4 DEF TypeOK, Phases
<1>7. AllWhole /\ Replaceable /\ WorkerRuns
  BY <1>1, <1>4, <1>5 DEF AllWhole, Replaceable, WorkerRuns, At
<1>8. Recoverable
  BY <1>1 DEF Recoverable
<1>9. AllTruthful
  BY <1>1, <1>2, <1>4, <1>5 DEF AllTruthful, Truthful
<1>10. InOrder
  BY <1>1, <1>4 DEF InOrder, At
<1> QED
  BY <1>6, <1>7, <1>8, <1>9, <1>10 DEF IInv

LEMMA NextSafe ==
    ASSUME IInv, Next
    PROVE  IInv'
<1>1. CASE Poll \/ BackUpNow \/ QuarterPasses
  BY <1>1, RequestSafe, QuarterSafe
<1>2. CASE Worker
  BY <1>2, CheckSafe, CopySafe, ReplaceSafe, RetainSafe, FailSafe, SettleSafe, ReportSafe DEF Worker
<1>3. CASE \E f \in Folder : ChooseFolder(f)
  BY <1>3, ChooseFolderSafe
<1>4. CASE RequestExit \/ \E b \in Listed : RequestRestore(b)
  BY <1>4, RequestsSafe
<1>5. CASE Start \/ Recover \/ Exit \/ Crash
  BY <1>5, StartSafe, RecoverSafe, EndSafe
<1>6. CASE CannotGoOn \/ Stage \/ StageRecovery \/ DropLog \/ Swap
  BY <1>6, CannotGoOnSafe, StageSafe, DropLogSafe, SwapSafe
<1>7. CASE Record \/ NextDay \/ Damage
  BY <1>7, RecordSafe, NextDaySafe, DamageSafe
<1>8. CASE BeginSafety \/ FinishSafety \/ KeepSafety \/ SafetyFails
  BY <1>8, BeginSafetySafe, FinishSafetySafe, KeepSafetySafe, SafetyFailsSafe
<1> QED
  BY <1>1, <1>2, <1>3, <1>4, <1>5, <1>6, <1>7, <1>8 DEF Next

LEMMA StutterSafe ==
    ASSUME IInv, UNCHANGED vars
    PROVE  IInv'
<1>1. UNCHANGED <<disk, today, history, phase, want, job>>
  BY DEF vars, disk, stored, saved, history
<1>2. /\ job.at # "idle" => phase \in {"open", "closing"} /\ job.day \in Day /\ job.day <= today
      /\ job.at = "idle" => job = Idle
      /\ job.made \/ job.at = "retain" => (job.day = today => HasDaily(job.where, today))
  BY DEF IInv, WorkerRuns, InOrder, At
<1> QED
  BY <1>1, <1>2, JobTyped, WorkerGoesOn

LEMMA IInvHolds == Spec => []IInv
<1>1. Init => IInv
  BY InitSafe
<1>2. IInv /\ [Next]_vars => IInv'
  BY NextSafe, StutterSafe
<1> QED
  BY <1>1, <1>2, PTL DEF Spec

\* Whatever was ever recorded is in the live database or in a safety copy, or was lost
\* to damage from outside: no failure and no crash between the steps of a restore
\* takes anything away (restore, _create_safety_backup).
THEOREM RestoresLoseNothing == Spec => []RestoreLosesNothing
<1>1. IInv => RestoreLosesNothing
  BY DEF IInv, Recoverable, Safe, RestoreLosesNothing
<1> QED
  BY <1>1, IInvHolds, PTL

\* Every daily backup can be read, however the job that wrote it ended
\* (_create_daily_backup).
THEOREM BackupsWhole == Spec => []BackupsAreWhole
<1>1. IInv => BackupsAreWhole
  BY DEF IInv, AllWhole, BackupsAreWhole
<1> QED
  BY <1>1, IInvHolds, PTL

\* The success the settings tell of is a backup that is there, although the settings
\* are themselves part of what is restored (ensure_daily_backup).
THEOREM SuccessIsABackup == Spec => []SuccessMeansBackup
<1>1. ASSUME IInv PROVE SuccessMeansBackup
  BY <1>1, LiveIs DEF Truthful, SuccessMeansBackup
<1> QED
  BY <1>1, IInvHolds, PTL

\* Only damage to the file of a closed application makes the database unreadable, and
\* what is put in its place can be read (restore, replace_unreadable_database).
THEOREM LiveKeptWhole == Spec => LiveStaysWhole
<1> DEFINE Same == Live.whole <=> file.whole
           Kept == /\ file.whole /\ ~file'.whole => phase = "off" /\ Live.facts \subseteq lost'
                   /\ Swap => Live'.whole
           Stays == /\ Live.whole /\ ~Live'.whole => phase = "off" /\ Live.facts \subseteq lost'
                    /\ Swap => Live'.whole
<1>1. IInv => Same
  BY LiveIs
<1>2. ASSUME IInv, IInv', [Next]_vars
      PROVE  [Kept]_vars
  <2>1. Swap => Live'.whole
    BY <1>2, SwapSafe
  <2>2. ASSUME file.whole, ~file'.whole
        PROVE  phase = "off" /\ Live.facts \subseteq lost'
    <3>1. phase' \notin {"open", "closing", "safety", "verify", "stage"}
      BY <1>2, <2>2 DEF IInv, AllWhole
    <3>2. CASE Damage
      BY <1>2, <3>2, DamageSafe DEF Damage
    <3>3. CASE Worker
      <4>1. phase' = phase /\ ~At("idle")
        BY <3>3 DEF Worker, Check, Copy, Replace, Retain, Fail, Raise, Confirm, Settle, Report, At
      <4> QED
        BY <1>2, <3>1, <4>1 DEF IInv, WorkerRuns
    <3>4. CASE Poll \/ BackUpNow \/ QuarterPasses \/ RequestExit \/ \E b \in Listed : RequestRestore(b)
      BY <3>1, <3>4 DEF Poll, BackUpNow, Request, QuarterPasses, RequestExit, RequestRestore, BeginShutdown
    <3>5. CASE (\E f \in Folder : ChooseFolder(f)) \/ Record
      BY <3>1, <3>5 DEF ChooseFolder, Record
    <3>6. CASE Start \/ Recover \/ Exit \/ Crash \/ CannotGoOn
      BY <2>2, <3>1, <3>6 DEF Start, Recover, Exit, Crash, CannotGoOn, Refuse, Resume, Off, disk, stored
    <3>7. CASE Stage \/ StageRecovery \/ DropLog \/ NextDay \/ UNCHANGED vars
      BY <2>2, <3>1, <3>7 DEF Stage, StageRecovery, DropLog, NextDay, disk, stored, vars
    <3>9. CASE BeginSafety \/ FinishSafety \/ KeepSafety \/ SafetyFails
      BY <3>1, <3>9 DEF BeginSafety, FinishSafety, KeepSafety, SafetyFails, Resume
    <3>8. CASE Swap
      <4>1. wal = {}
        BY <1>2, <3>8 DEF Swap, IInv, Replaceable
      <4>2. PICK b \in want : \E copy \in daily[b.folder][b.day] : file' = copy
        BY <3>8, <4>1 DEF Swap, Off
      <4>3. b.folder \in Folder /\ b.day \in Day
        BY <1>2 DEF IInv, TypeOK, Backup
      <4>4. file' \in Copies
        BY <4>2, <4>3 DEF Copies
      <4> QED
        BY <1>2, <2>2, <4>4 DEF IInv, AllWhole
    <3> QED
      BY <1>2, <3>2, <3>3, <3>4, <3>5, <3>6, <3>7, <3>8, <3>9 DEF Next
  <2> QED
    BY <2>1, <2>2
<1>3. ASSUME Same, Same', [Kept]_vars
      PROVE  [Stays]_vars
  BY <1>3
<1> QED
  BY <1>1, <1>2, <1>3, IInvHolds, PTL DEF Spec, LiveStaysWhole
=============================================================================
