------------------------ MODULE SyncMigrationProofs ------------------------
(***************************************************************************)
(* The cutover for any number of machines, histories and contents of the   *)
(* V1 tab.  That a machine which uses the log left nobody behind follows   *)
(* from what a completion collected before it wrote anything: Covers says  *)
(* so of the seeds on their way to the log, in a job or in a request whose *)
(* answer was lost, and of the log once it is complete.  The ledger and    *)
(* the log only grow, so that what was collected stays enough.             *)
(***************************************************************************)
EXTENDS SyncMigration, TLAPS

Phase == {"idle", "initialize", "acknowledge", "seed", "cutover", "activate", "commit"}
Plan == [log : Machine, rows : LegacyRows]
Ack == [by : Machine, history : History, backup : Nat]
Job == [at : Phase, body : SUBSET (Plan \cup Ack \cup LegacyRows \cup History),
        mine : History \cup {Nothing}]
Database == [history : History, backups : Nat, problem : BOOLEAN, active : BOOLEAN,
             head : History \cup {Nothing}]

TypeInv ==
    /\ legacy \in LegacyRows
    /\ manifest \subseteq Plan
    /\ acks \subseteq Ack
    /\ local \in [Machine -> Database]
    /\ job \in [Machine -> Job]
    /\ transit \subseteq Job

\* S holds the frozen rows of the plan and a contribution of every participant.
Covers(plan, contributions, S) ==
    /\ plan # {}
    /\ \A p \in plan : p.rows \in S
    /\ \A m \in Machine : \E a \in contributions : a.by = m /\ a.history \in S

\* What the steps of a job rely on, at its machine or on the way.
Prepared(j, plan, contributions, S, complete) ==
    /\ j.at = "initialize" => j.body \subseteq Plan
    /\ j.at = "acknowledge" => j.body \subseteq Ack
    /\ j.at \in {"seed", "cutover"} => Covers(plan, contributions, j.body) /\ j.mine \in j.body
    /\ j.at = "cutover" => j.body \subseteq S
    /\ j.at \in {"activate", "commit"} => j.mine \in S
    /\ j.at = "commit" => complete

IInv ==
    /\ TypeInv
    /\ \A m \in Machine : Prepared(job[m], manifest, acks, seeds, cutover)
    /\ \A r \in transit : Prepared(r, manifest, acks, seeds, cutover)
    /\ cutover => Covers(manifest, acks, seeds)
    /\ \A m \in Machine : local[m].active => cutover

(* The ledger and the log only grow. *)

Grows ==
    /\ Begun => manifest' = manifest
    /\ acks \subseteq acks' /\ seeds \subseteq seeds'
    /\ cutover => cutover'

LEMMA PreparedGrows ==
    ASSUME NEW j, NEW plan, NEW plan2, NEW A, NEW A2, NEW S, NEW S2, NEW c, NEW c2,
           plan # {} => plan2 = plan, A \subseteq A2, S \subseteq S2, c => c2,
           Prepared(j, plan, A, S, c)
    PROVE  Prepared(j, plan2, A2, S2, c2)
BY DEF Prepared, Covers

\* What an action has to show: what it adds is prepared.
LEMMA Suffices ==
    ASSUME IInv, TypeInv', Grows,
           \A n \in Machine : job'[n] = job[n] \/ Prepared(job'[n], manifest', acks', seeds', cutover'),
           \A r \in transit' : r \in transit \/ Prepared(r, manifest', acks', seeds', cutover'),
           cutover' => cutover \/ Covers(manifest', acks', seeds'),
           \A n \in Machine : local'[n].active => local[n].active \/ cutover'
    PROVE  IInv'
<1>1. \A n \in Machine : Prepared(job'[n], manifest', acks', seeds', cutover')
  <2> SUFFICES ASSUME NEW n \in Machine, job'[n] = job[n]
               PROVE  Prepared(job[n], manifest', acks', seeds', cutover')
    OBVIOUS
  <2> QED
    BY PreparedGrows DEF IInv, Grows, Begun
<1>2. \A r \in transit' : Prepared(r, manifest', acks', seeds', cutover')
  BY PreparedGrows DEF IInv, Grows, Begun
<1>3. cutover' => Covers(manifest', acks', seeds')
  BY DEF IInv, Grows, Begun, Covers
<1>4. \A n \in Machine : local'[n].active => cutover'
  BY DEF IInv, Grows
<1> QED
  BY <1>1, <1>2, <1>3, <1>4 DEF IInv

(* Jobs. *)

LEMMA GoJob ==
    ASSUME TypeInv, NEW m \in Machine, NEW phase \in Phase,
           NEW body \in SUBSET (Plan \cup Ack \cup LegacyRows \cup History), Go(m, phase, body)
    PROVE  /\ job' \in [Machine -> Job]
           /\ job'[m].at = phase /\ job'[m].body = body /\ job'[m].mine = job[m].mine
           /\ \A n \in Machine : n # m => job'[n] = job[n]
BY DEF TypeInv, Job, Go

LEMMA DoneJob ==
    ASSUME TypeInv, NEW m \in Machine, Done(m)
    PROVE  /\ job' \in [Machine -> Job]
           /\ \A P, A, S, c : Prepared(job'[m], P, A, S, c)
           /\ \A n \in Machine : n # m => job'[n] = job[n]
<1>1. NoJob \in Job /\ NoJob.at = "idle"
  BY DEF NoJob, Job, Phase
<1>2. job' = [job EXCEPT ![m] = NoJob]
  BY DEF Done
<1>3. job'[m] = NoJob /\ job' \in [Machine -> Job] /\ \A n \in Machine : n # m => job'[n] = job[n]
  BY <1>1, <1>2 DEF TypeInv
<1> QED
  BY <1>1, <1>3 DEF Prepared

LEMMA SheetStays ==
    ASSUME UNCHANGED sheet
    PROVE  /\ UNCHANGED <<legacy, manifest, acks, cutover, seeds, transit>>
           /\ Grows
BY DEF sheet, Grows

\* A job that ends leaves the database as it is, or with a problem.
LEMMA EndKeeps ==
    ASSUME IInv, NEW m \in Machine, Done(m), UNCHANGED sheet,
           UNCHANGED local \/ local' = [local EXCEPT ![m].problem = TRUE]
    PROVE  IInv'
<1> DEFINE db == [local[m] EXCEPT !.problem = TRUE]
<1>a. db \in Database
  BY DEF IInv, TypeInv, Database
<1>b. db.active = local[m].active
  BY DEF IInv, TypeInv, Database
<1>1. local' \in [Machine -> Database] /\ \A n \in Machine : local'[n].active = local[n].active
  <2>1. CASE local' = [local EXCEPT ![m] = db]
    <3> HIDE DEF db
    <3> QED
      BY <2>1, <1>a, <1>b DEF IInv, TypeInv
  <2>2. CASE UNCHANGED local
    BY <2>2 DEF IInv, TypeInv
  <2> QED
    BY <2>1, <2>2
<1>2. TypeInv' /\ Grows /\ UNCHANGED <<manifest, acks, cutover, seeds, transit>>
  BY <1>1, DoneJob, SheetStays DEF IInv, TypeInv
<1>3. \A n \in Machine : job'[n] = job[n] \/ Prepared(job'[n], manifest', acks', seeds', cutover')
  BY DoneJob DEF IInv
<1> QED
  BY <1>1, <1>2, <1>3, Suffices

LEMMA RefuseKeeps ==
    ASSUME IInv, NEW m \in Machine, RefuseUnfrozen(m)
    PROVE  IInv'
BY EndKeeps DEF RefuseUnfrozen

\* A job makes a safety copy and goes on with what it will write.
LEMMA CopyKeeps ==
    ASSUME IInv, NEW m \in Machine, NEW phase \in {"initialize", "acknowledge"}, NEW row,
           phase = "initialize" => row \in Plan, phase = "acknowledge" => row \in Ack,
           local' = [local EXCEPT ![m].backups = @ + 1], Go(m, phase, {row}), UNCHANGED sheet
    PROVE  IInv'
<1>1. local' \in [Machine -> Database] /\ \A n \in Machine : local'[n].active = local[n].active
  BY DEF IInv, TypeInv, Database
<1>2. /\ job' \in [Machine -> Job] /\ job'[m].at = phase /\ job'[m].body = {row}
      /\ \A n \in Machine : n # m => job'[n] = job[n]
  BY GoJob DEF IInv, Phase
<1>3. TypeInv' /\ Grows /\ UNCHANGED <<manifest, acks, cutover, seeds, transit>>
  BY <1>1, <1>2, SheetStays DEF IInv, TypeInv
<1>4. Prepared(job'[m], manifest', acks', seeds', cutover')
  BY <1>2 DEF Prepared
<1> QED
  BY <1>1, <1>2, <1>3, <1>4, Suffices

LEMMA BeginKeeps ==
    ASSUME IInv, NEW m \in Machine, Begin(m)
    PROVE  IInv'
<1>1. [log |-> m, rows |-> legacy] \in Plan
  BY DEF IInv, TypeInv, Plan
<1> QED
  BY <1>1, RefuseKeeps, CopyKeeps DEF Begin

LEMMA InitializeKeeps ==
    ASSUME IInv, NEW m \in Machine, Initialize(m)
    PROVE  IInv'
<1>1. job[m].body \subseteq Plan
  BY DEF IInv, Prepared, Initialize, At
<1>2. Grows /\ UNCHANGED <<legacy, acks, cutover, seeds, transit, local>> /\ manifest' \subseteq Plan
  BY <1>1 DEF Initialize, Grows, Begun, IInv, TypeInv
<1>3. /\ job' \in [Machine -> Job]
      /\ \A n \in Machine : job'[n] = job[n] \/ Prepared(job'[n], manifest', acks', seeds', cutover')
  BY DoneJob DEF IInv, Initialize
<1>4. TypeInv'
  BY <1>2, <1>3 DEF IInv, TypeInv
<1> QED
  BY <1>2, <1>3, <1>4, Suffices

LEMMA ContributeKeeps ==
    ASSUME IInv, NEW m \in Machine, Contribute(m)
    PROVE  IInv'
<1>1. Contribution(m) \in Ack
  BY DEF IInv, TypeInv, Database, Ack, Contribution
<1> QED
  BY <1>1, RefuseKeeps, EndKeeps, CopyKeeps DEF Contribute, Repeated

LEMMA AcknowledgeKeeps ==
    ASSUME IInv, NEW m \in Machine, Acknowledge(m)
    PROVE  IInv'
<1>1. job[m].body \subseteq Ack
  BY DEF IInv, Prepared, Acknowledge, At
<1>2. Grows /\ UNCHANGED <<legacy, manifest, cutover, seeds, transit, local>> /\ acks' \subseteq Ack
  BY <1>1 DEF Acknowledge, Grows, IInv, TypeInv
<1>3. /\ job' \in [Machine -> Job]
      /\ \A n \in Machine : job'[n] = job[n] \/ Prepared(job'[n], manifest', acks', seeds', cutover')
  BY DoneJob DEF IInv, Acknowledge
<1>4. TypeInv'
  BY <1>2, <1>3 DEF IInv, TypeInv
<1> QED
  BY <1>2, <1>3, <1>4, Suffices

\* A completion begins with the frozen rows and a contribution of every participant.
LEMMA CompleteKeeps ==
    ASSUME IInv, NEW m \in Machine, Complete(m)
    PROVE  IInv'
<1>1. CASE RefuseUnfrozen(m)
  BY <1>1, RefuseKeeps
<1>2. CASE /\ Begun /\ Ready(m) /\ UNCHANGED <<sheet, local>>
           /\ job' = [job EXCEPT ![m] = [at |-> "seed", body |-> AllSeeds, mine |-> Contributed(m)]]
  <2>1. \A p \in Machine : \E a \in acks : a.by = p
    BY <1>2 DEF Ready, Acknowledged, AcksOf
  <2>2. PICK a \in acks : a.by = m /\ Contributed(m) = a.history
    BY <2>1 DEF Contributed, AcksOf
  <2>3. AllSeeds \subseteq LegacyRows \cup History /\ Contributed(m) \in History
    BY <2>2 DEF IInv, TypeInv, AllSeeds, FrozenRows, Plan, Ack
  <2>4. Contributed(m) \in AllSeeds
    BY <2>2 DEF AllSeeds
  <2>5. Covers(manifest, acks, AllSeeds)
    BY <1>2, <2>1 DEF Covers, AllSeeds, FrozenRows, Begun
  <2>6. /\ job' \in [Machine -> Job]
        /\ job'[m].at = "seed" /\ job'[m].body = AllSeeds /\ job'[m].mine = Contributed(m)
        /\ \A n \in Machine : n # m => job'[n] = job[n]
    BY <1>2, <2>3 DEF IInv, TypeInv, Job, Phase
  <2>7. TypeInv' /\ Grows /\ UNCHANGED <<manifest, acks, cutover, seeds, transit, local>>
    BY <1>2, <2>6, SheetStays DEF IInv, TypeInv
  <2>8. Prepared(job'[m], manifest', acks', seeds', cutover')
    BY <2>4, <2>5, <2>6, <2>7 DEF Prepared
  <2> QED
    BY <2>6, <2>7, <2>8, Suffices
<1> QED
  BY <1>1, <1>2 DEF Complete

LEMMA AppendSeedsKeeps ==
    ASSUME IInv, NEW m \in Machine, AppendSeeds(m)
    PROVE  IInv'
<1>1. CASE RefuseUnfrozen(m)
  BY <1>1, RefuseKeeps
<1>2. CASE /\ seeds' = seeds \cup job[m].body /\ Go(m, "cutover", job[m].body)
           /\ UNCHANGED <<legacy, manifest, acks, cutover, transit, local>>
  <2>1. Prepared(job[m], manifest, acks, seeds, cutover) /\ job[m].at = "seed" /\ job[m] \in Job
    BY DEF IInv, TypeInv, AppendSeeds, At
  <2>2. /\ job' \in [Machine -> Job] /\ job'[m].at = "cutover"
        /\ job'[m].body = job[m].body /\ job'[m].mine = job[m].mine
        /\ \A n \in Machine : n # m => job'[n] = job[n]
    BY <1>2, <2>1, GoJob DEF IInv, Job, Phase
  <2>3. TypeInv' /\ Grows
    BY <1>2, <2>2 DEF IInv, TypeInv, Grows
  <2>4. Prepared(job'[m], manifest', acks', seeds', cutover')
    BY <1>2, <2>1, <2>2 DEF Prepared
  <2> QED
    BY <1>2, <2>2, <2>3, <2>4, Suffices
<1> QED
  BY <1>1, <1>2 DEF AppendSeeds

LEMMA AppendCutoverKeeps ==
    ASSUME IInv, NEW m \in Machine, AppendCutover(m)
    PROVE  IInv'
<1>1. /\ cutover' = TRUE /\ Go(m, "activate", {})
      /\ UNCHANGED <<legacy, manifest, acks, seeds, transit, local>>
  BY DEF AppendCutover
<1>2. Prepared(job[m], manifest, acks, seeds, cutover) /\ job[m].at = "cutover"
  BY DEF IInv, AppendCutover, At
<1>3. /\ job' \in [Machine -> Job] /\ job'[m].at = "activate" /\ job'[m].mine = job[m].mine
      /\ \A n \in Machine : n # m => job'[n] = job[n]
  BY <1>1, GoJob DEF IInv, Phase
<1>4. TypeInv' /\ Grows
  BY <1>1, <1>3 DEF IInv, TypeInv, Grows
<1>5. Covers(manifest, acks, seeds)
  BY <1>2 DEF Prepared, Covers
<1>6. Prepared(job'[m], manifest', acks', seeds', cutover')
  BY <1>1, <1>2, <1>3 DEF Prepared
<1> QED
  BY <1>1, <1>3, <1>4, <1>5, <1>6, Suffices

LEMMA VerifyCutoverKeeps ==
    ASSUME IInv, NEW m \in Machine, VerifyCutover(m)
    PROVE  IInv'
<1>1. CASE RefuseUnfrozen(m)
  BY <1>1, RefuseKeeps
<1>2. CASE cutover /\ Go(m, "commit", {}) /\ UNCHANGED <<sheet, local>>
  <2>1. Prepared(job[m], manifest, acks, seeds, cutover) /\ job[m].at = "activate"
    BY DEF IInv, VerifyCutover, At
  <2>2. /\ job' \in [Machine -> Job] /\ job'[m].at = "commit" /\ job'[m].mine = job[m].mine
        /\ \A n \in Machine : n # m => job'[n] = job[n]
    BY <1>2, GoJob DEF IInv, Phase
  <2>3. TypeInv' /\ Grows /\ UNCHANGED <<manifest, acks, cutover, seeds, transit, local>>
    BY <1>2, <2>2, SheetStays DEF IInv, TypeInv
  <2>4. Prepared(job'[m], manifest', acks', seeds', cutover')
    BY <1>2, <2>1, <2>2, <2>3 DEF Prepared
  <2> QED
    BY <2>2, <2>3, <2>4, Suffices
<1> QED
  BY <1>1, <1>2 DEF VerifyCutover

LEMMA ActivateKeeps ==
    ASSUME IInv, NEW m \in Machine, Activate(m)
    PROVE  IInv'
<1> DEFINE db == [local[m] EXCEPT !.active = TRUE, !.head = job[m].mine]
<1>1. cutover /\ job[m] \in Job
  BY DEF IInv, TypeInv, Prepared, Activate, At
<1>2. db \in Database
  BY <1>1 DEF IInv, TypeInv, Database, Job
<1>3. local' = [local EXCEPT ![m] = db]
  BY DEF Activate
<1>4. local' \in [Machine -> Database] /\ \A n \in Machine : n # m => local'[n] = local[n]
  <2> HIDE DEF db
  <2> QED
    BY <1>2, <1>3 DEF IInv, TypeInv
<1>5. /\ job' \in [Machine -> Job] /\ UNCHANGED sheet
      /\ \A n \in Machine : job'[n] = job[n] \/ Prepared(job'[n], manifest', acks', seeds', cutover')
  BY DoneJob DEF IInv, Activate
<1>6. TypeInv' /\ Grows /\ UNCHANGED <<manifest, acks, cutover, seeds, transit>>
  BY <1>4, <1>5, SheetStays DEF IInv, TypeInv
<1> QED
  BY <1>1, <1>4, <1>5, <1>6, Suffices

(* Around the jobs. *)

LEMMA EditKeeps ==
    ASSUME IInv, NEW m \in Machine, Edit(m)
    PROVE  IInv'
<1>1. PICK h \in History : local' = [local EXCEPT ![m].history = h]
  BY DEF Edit
<1>2. local' \in [Machine -> Database] /\ \A n \in Machine : local'[n].active = local[n].active
  BY <1>1 DEF IInv, TypeInv, Database
<1>3. TypeInv' /\ Grows /\ UNCHANGED <<manifest, acks, cutover, seeds, transit, job>>
  BY <1>2, SheetStays DEF Edit, IInv, TypeInv
<1> QED
  BY <1>2, <1>3, Suffices

LEMMA UnansweredKeeps ==
    ASSUME IInv, NEW m \in Machine, Unanswered(m)
    PROVE  IInv'
<1>1. /\ transit' = {job[m]} /\ job[m] \in Job
      /\ UNCHANGED <<legacy, manifest, acks, cutover, seeds, local>>
  BY DEF Unanswered, IInv, TypeInv
<1>2. /\ job' \in [Machine -> Job]
      /\ \A n \in Machine : job'[n] = job[n] \/ Prepared(job'[n], manifest', acks', seeds', cutover')
  BY DoneJob DEF IInv, Unanswered
<1>3. TypeInv' /\ Grows
  BY <1>1, <1>2 DEF IInv, TypeInv, Grows
<1>4. Prepared(job[m], manifest', acks', seeds', cutover')
  BY <1>1 DEF IInv
<1> QED
  BY <1>1, <1>2, <1>3, <1>4, Suffices

LEMMA FailKeeps ==
    ASSUME IInv, NEW m \in Machine, Fail(m)
    PROVE  IInv'
BY EndKeeps DEF Fail

LEMMA OldClientKeeps ==
    ASSUME IInv, OldClientWrites
    PROVE  IInv'
<1>1. TypeInv' /\ Grows /\ UNCHANGED <<manifest, acks, cutover, seeds, transit, local, job>>
  BY DEF OldClientWrites, IInv, TypeInv, Grows
<1> QED
  BY <1>1, Suffices

\* A late request adds what its job would have added.
LEMMA LandKeeps ==
    ASSUME IInv, Land
    PROVE  IInv'
<1>1. PICK r \in transit :
        /\ manifest' = IF r.at = "initialize" /\ ~Begun THEN r.body ELSE manifest
        /\ acks' = IF r.at = "acknowledge" THEN acks \cup r.body ELSE acks
        /\ seeds' = IF r.at = "seed" THEN seeds \cup r.body ELSE seeds
        /\ cutover' = (cutover \/ r.at = "cutover")
  BY DEF Land
<1>2. transit' = {} /\ UNCHANGED <<legacy, local, job>>
  BY DEF Land
<1>3. Prepared(r, manifest, acks, seeds, cutover)
  BY DEF IInv
<1>4. Grows
  BY <1>1 DEF Grows, Begun
<1>5. TypeInv'
  BY <1>1, <1>2, <1>3 DEF IInv, TypeInv, Prepared
<1>6. cutover' => cutover \/ Covers(manifest', acks', seeds')
  BY <1>1, <1>3 DEF Prepared, Covers
<1> QED
  BY <1>2, <1>4, <1>5, <1>6, Suffices

(* Every behaviour. *)

LEMMA InitHolds ==
    ASSUME Init
    PROVE  IInv
<1>1. PICK h \in [Machine -> History] :
        local = [m \in Machine |-> [history |-> h[m], backups |-> 0,
                                    problem |-> FALSE, active |-> FALSE, head |-> Nothing]]
  BY DEF Init
<1>2. \A m \in Machine : local[m] \in Database /\ local[m].active = FALSE
  BY <1>1 DEF Database
<1>3. NoJob \in Job /\ NoJob.at = "idle"
  BY DEF NoJob, Job, Phase
<1>4. TypeInv
  BY <1>1, <1>2, <1>3 DEF Init, TypeInv
<1>5. \A m \in Machine : Prepared(job[m], manifest, acks, seeds, cutover)
  BY <1>3 DEF Init, Prepared
<1> QED
  BY <1>2, <1>4, <1>5 DEF Init, IInv

LEMMA NextKeeps ==
    ASSUME IInv, [Next]_vars
    PROVE  IInv'
<1>1. CASE UNCHANGED vars
  <2>1. TypeInv' /\ Grows /\ UNCHANGED <<manifest, acks, cutover, seeds, transit, local, job>>
    BY <1>1 DEF vars, IInv, TypeInv, Grows
  <2> QED
    BY <2>1, Suffices
<1>2. CASE OldClientWrites \/ Land
  BY <1>2, OldClientKeeps, LandKeeps
<1>3. ASSUME NEW m \in Machine, Step(m)
      PROVE  IInv'
  BY <1>3, BeginKeeps, InitializeKeeps, ContributeKeeps, AcknowledgeKeeps, CompleteKeeps,
     AppendSeedsKeeps, AppendCutoverKeeps, VerifyCutoverKeeps, ActivateKeeps, EditKeeps,
     UnansweredKeeps, FailKeeps DEF Step
<1> QED
  BY <1>1, <1>2, <1>3 DEF Next

LEMMA IInvHolds == Spec => []IInv
<1>1. Init => IInv
  BY InitHolds
<1>2. IInv /\ [Next]_vars => IInv'
  BY NextKeeps
<1> QED
  BY <1>1, <1>2, PTL DEF Spec

\* A machine that uses the log left nobody's history behind, however many take part.
THEOREM NobodyLeft == Spec => []NobodyLeftBehind
<1>1. IInv => NobodyLeftBehind
  BY DEF IInv, Covers, NobodyLeftBehind, FrozenRows, AcksOf
<1> QED
  BY <1>1, IInvHolds, PTL

\* Only an activation makes a machine use the log.
LEMMA OnlyActivates ==
    ASSUME TypeInv, NEW m \in Machine, Step(m), ~Activate(m), NEW n \in Machine
    PROVE  local'[n].active = local[n].active
<1>1. \/ UNCHANGED local
      \/ local' = [local EXCEPT ![m].problem = TRUE]
      \/ local' = [local EXCEPT ![m].backups = @ + 1]
      \/ \E h \in History : local' = [local EXCEPT ![m].history = h]
  BY DEF Step, Begin, Initialize, Contribute, Repeated, Acknowledge, Complete, AppendSeeds,
     AppendCutover, VerifyCutover, Edit, Unanswered, Fail, RefuseUnfrozen
<1> QED
  BY <1>1 DEF TypeInv, Database

\* What a machine continues from is what it shows, and the log has it.
THEOREM ShownActivated == Spec => ActivatedAsShown
<1> DEFINE Shown == \A m \in Machine : (~local[m].active /\ local'[m].active) =>
                       /\ local'[m].head = local[m].history
                       /\ local[m].history \in seeds
<1>1. IInv /\ [Next]_vars => [Shown]_vars
  <2> SUFFICES ASSUME IInv, [Next]_vars, NEW n \in Machine, ~local[n].active, local'[n].active
               PROVE  local'[n].head = local[n].history /\ local[n].history \in seeds
    OBVIOUS
  <2>1. ASSUME NEW m \in Machine, Activate(m)
        PROVE  local'[n].head = local[n].history /\ local[n].history \in seeds
    <3>1. local[m].history = job[m].mine /\ job[m].mine \in seeds
      BY <2>1 DEF IInv, Prepared, Activate, At
    <3>2. local' = [local EXCEPT ![m] = [@ EXCEPT !.active = TRUE, !.head = job[m].mine]]
      BY <2>1 DEF Activate
    <3>3. n = m
      BY <3>2 DEF IInv, TypeInv
    <3>4. local'[m].head = job[m].mine
      BY <3>2 DEF IInv, TypeInv, Database
    <3> QED
      BY <3>1, <3>3, <3>4
  <2>2. ASSUME NEW m \in Machine, Step(m), ~Activate(m)
        PROVE  FALSE
    <3>1. local'[n].active = local[n].active
      BY <2>2, OnlyActivates DEF IInv
    <3> QED
      BY <3>1
  <2>3. CASE OldClientWrites \/ Land \/ UNCHANGED vars
    <3>1. UNCHANGED local
      BY <2>3 DEF OldClientWrites, Land, vars
    <3> QED
      BY <3>1
  <2> QED
    BY <2>1, <2>2, <2>3 DEF Next
<1> QED
  BY <1>1, IInvHolds, PTL DEF Spec, ActivatedAsShown

\* The ledger names one log for good, whoever begins how often.
THEOREM OneLogHolds == Spec => OneLog
<1>1. [Next]_vars => [Begun => manifest' = manifest]_vars
  <2> SUFFICES ASSUME [Next]_vars, Begun
               PROVE  manifest' = manifest
    OBVIOUS
  <2>1. ASSUME NEW m \in Machine, Step(m)
        PROVE  manifest' = manifest
    BY <2>1 DEF Step, Begin, Initialize, Contribute, Repeated, Acknowledge, Complete, AppendSeeds,
       AppendCutover, VerifyCutover, Activate, Edit, Unanswered, Fail, RefuseUnfrozen, sheet
  <2>2. OldClientWrites \/ Land \/ UNCHANGED vars => manifest' = manifest
    BY DEF OldClientWrites, Land, vars
  <2> QED
    BY <2>1, <2>2 DEF Next
<1> QED
  BY <1>1, PTL DEF Spec, OneLog
=============================================================================
