--------------------------- MODULE SyncMigration ---------------------------
(***************************************************************************)
(* The cutover from the V1 rows of a Sheet to the V2 change log: begin,    *)
(* contribute and complete, on every participating machine, as sequences   *)
(* of requests to the Sheet and local transactions that interleave with    *)
(* those of other machines, with local edits, with old clients that write  *)
(* again, with cancellations, crashes and answers that are lost.           *)
(*                                                                         *)
(* A history stands for the completed records of a machine, rows for the   *)
(* content of the V1 tab. A read-only request is merged with the step that *)
(* uses its answer; every write has a step of its own.                     *)
(***************************************************************************)
EXTENDS Naturals, FiniteSets

CONSTANTS Machine,    \* the declared participants
          History,    \* completed histories of a machine
          LegacyRows, \* contents of the V1 tab
          MaxBackups  \* bound: safety copies a machine makes

Nothing == "nothing"

VARIABLES legacy,    \* the V1 tab
          manifest,  \* first row of the ledger, if any: whose log it is, the frozen rows
          acks,      \* acknowledged snapshots in the ledger
          cutover,   \* whether the ledger holds the completion
          seeds,     \* histories whose records are in the V2 log
          transit,   \* the ledger and log rows of requests that got no answer
          local,     \* per machine, its database
          job        \* per machine, the migration job

vars == <<legacy, manifest, acks, cutover, seeds, transit, local, job>>
sheet == <<legacy, manifest, acks, cutover, seeds, transit>>

----------------------------------------------------------------------------
\* `body` is what the next request of the job writes, `mine` the contribution of
\* its machine that a completion read at its beginning.
NoJob == [at |-> "idle", body |-> {}, mine |-> Nothing]
At(m, phase) == job[m].at = phase
Go(m, phase, body) == job' = [job EXCEPT ![m] = [@ EXCEPT !.at = phase, !.body = body]]
Done(m) == job' = [job EXCEPT ![m] = NoJob]

\* _plan: the ledger names the log and holds the frozen rows.
Begun == manifest # {}
FrozenRows == {p.rows : p \in manifest}

\* _snapshots: a participant whose acknowledgements differ makes the ledger invalid.
AcksOf(m) == {a \in acks : a.by = m}
Readable == \A m \in Machine : Cardinality(AcksOf(m)) <= 1
Acknowledged(m) == AcksOf(m) # {}
Contributed(m) == (CHOOSE a \in AcksOf(m) : TRUE).history

\* seed_groups of the frozen rows and of every snapshot: the identifiers follow
\* from the log and the records, so that every machine makes the same ones.
AllSeeds == FrozenRows \cup {a.history : a \in acks}

\* verify_legacy_frozen; what it finds is recorded as a problem of the machine.
Frozen == FrozenRows = {legacy}
RefuseUnfrozen(m) ==
    /\ ~Frozen
    /\ local' = [local EXCEPT ![m].problem = TRUE]
    /\ Done(m)
    /\ UNCHANGED sheet

----------------------------------------------------------------------------
\* begin

\* An existing migration is joined; otherwise a safety copy is made, the rows are
\* read and the identity of the log is saved before anything is written: a machine
\* that begins again, begins the same log.
Begin(m) ==
    /\ At(m, "idle")
    /\ ~local[m].active
    /\ \/ Begun /\ RefuseUnfrozen(m)
       \/ /\ ~Begun
          /\ local[m].backups < MaxBackups
          /\ local' = [local EXCEPT ![m].backups = @ + 1]
          /\ Go(m, "initialize", {[log |-> m, rows |-> legacy]})
          /\ UNCHANGED sheet

\* Seeded fault: tabs that exist already are not looked for.
Initialize_Unguarded(m) ==
    /\ At(m, "initialize")
    /\ manifest' = manifest \cup job[m].body
    /\ Done(m)
    /\ UNCHANGED <<legacy, acks, cutover, seeds, transit, local>>

\* initialize_migration: one batch creates both tabs or is rejected.
Initialize(m) ==
    /\ At(m, "initialize")
    /\ manifest' = IF Begun THEN manifest ELSE job[m].body
    /\ Done(m)
    /\ UNCHANGED <<legacy, acks, cutover, seeds, transit, local>>

----------------------------------------------------------------------------
\* contribute

\* The history of a new safety copy, and where the copy is.
Contribution(m) ==
    [by |-> m, history |-> local[m].history, backup |-> local[m].backups + 1]

\* What was acknowledged before must still be the history of this machine.
Repeated(m) ==
    /\ Acknowledged(m)
    /\ Done(m)
    /\ UNCHANGED <<sheet, local>>

\* Otherwise a verified safety copy is made, of a history that did not change
\* meanwhile.
Contribute(m) ==
    /\ At(m, "idle")
    /\ Begun
    /\ \/ RefuseUnfrozen(m)
       \/ /\ Frozen /\ Readable
          /\ \/ Repeated(m)
             \/ /\ ~Acknowledged(m)
                /\ local[m].backups < MaxBackups
                /\ local' = [local EXCEPT ![m].backups = @ + 1]
                /\ Go(m, "acknowledge", {Contribution(m)})
                /\ UNCHANGED sheet

\* append_migration_events, then the ledger is read back.
Acknowledge(m) ==
    /\ At(m, "acknowledge")
    /\ acks' = acks \cup job[m].body
    /\ Done(m)
    /\ UNCHANGED <<legacy, manifest, cutover, seeds, transit, local>>

----------------------------------------------------------------------------
\* complete

\* Seeded fault: a completion does not wait for the other participants.
Ready_Alone(m) ==
    /\ Frozen /\ Readable
    /\ Acknowledged(m)
    /\ local[m].history = Contributed(m)

\* Every participant acknowledged, and this machine still has what it contributed.
Ready(m) ==
    /\ Frozen /\ Readable
    /\ \A p \in Machine : Acknowledged(p)
    /\ local[m].history = Contributed(m)

Complete(m) ==
    /\ At(m, "idle")
    /\ ~local[m].active
    /\ Begun
    /\ \/ RefuseUnfrozen(m)
       \/ /\ Ready(m)
          /\ job' = [job EXCEPT ![m] = [at |-> "seed", body |-> AllSeeds, mine |-> Contributed(m)]]
          /\ UNCHANGED <<sheet, local>>

\* Whole groups that are missing are appended; _guard_migration reads the V1 tab.
AppendSeeds(m) ==
    /\ At(m, "seed")
    /\ \/ RefuseUnfrozen(m)
       \/ /\ Frozen
          /\ seeds' = seeds \cup job[m].body
          /\ Go(m, "cutover", job[m].body)
          /\ UNCHANGED <<legacy, manifest, acks, cutover, transit, local>>

\* After the seeds were read back the completion is written, unless it is there.
AppendCutover(m) ==
    /\ At(m, "cutover")
    /\ job[m].body \subseteq seeds
    /\ cutover' = TRUE
    /\ Go(m, "activate", {})
    /\ UNCHANGED <<legacy, manifest, acks, seeds, transit, local>>

\* The ledger is read back and the V1 tab verified once more. One transaction
\* then checks the history again and makes this machine use the log.
VerifyCutover(m) ==
    /\ At(m, "activate")
    /\ \/ RefuseUnfrozen(m)
       \/ Frozen /\ cutover /\ Go(m, "commit", {}) /\ UNCHANGED <<sheet, local>>

\* Seeded fault: the history is not compared again before the activation.
Activate_Unchecked(m) ==
    /\ At(m, "commit")
    /\ ~local[m].problem
    /\ local' = [local EXCEPT ![m] = [@ EXCEPT !.active = TRUE, !.head = job[m].mine]]
    /\ Done(m)
    /\ UNCHANGED sheet

Activate(m) ==
    /\ At(m, "commit")
    /\ local[m].history = job[m].mine
    /\ ~local[m].problem
    /\ local' = [local EXCEPT ![m] = [@ EXCEPT !.active = TRUE, !.head = job[m].mine]]
    /\ Done(m)
    /\ UNCHANGED sheet

----------------------------------------------------------------------------
\* Everything around the jobs.

\* A completed record changes before the machine captures changes.
Edit(m) ==
    /\ ~local[m].active
    /\ \E h \in History \ {local[m].history} : local' = [local EXCEPT ![m].history = h]
    /\ UNCHANGED <<sheet, job>>

\* An old client writes to the V1 tab.
OldClientWrites ==
    /\ \E r \in LegacyRows \ {legacy} : legacy' = r
    /\ UNCHANGED <<manifest, acks, cutover, seeds, transit, local, job>>

\* A request gets no answer: it is executed later, or never.
Unanswered(m) ==
    /\ transit = {}
    /\ job[m].at \in {"initialize", "acknowledge", "seed", "cutover"}
    /\ transit' = {job[m]}
    /\ Done(m)
    /\ UNCHANGED <<legacy, manifest, acks, cutover, seeds, local>>

Land ==
    /\ \E r \in transit :
        /\ manifest' = IF r.at = "initialize" /\ ~Begun THEN r.body ELSE manifest
        /\ acks' = IF r.at = "acknowledge" THEN acks \cup r.body ELSE acks
        /\ seeds' = IF r.at = "seed" THEN seeds \cup r.body ELSE seeds
        /\ cutover' = (cutover \/ r.at = "cutover")
    /\ transit' = {}
    /\ UNCHANGED <<legacy, local, job>>

\* Cancellation, the deadline, a failed request, other settings, or a crash.
Fail(m) ==
    /\ ~At(m, "idle")
    /\ Done(m)
    /\ UNCHANGED <<sheet, local>>

Init ==
    /\ legacy \in LegacyRows
    /\ manifest = {}
    /\ acks = {}
    /\ cutover = FALSE
    /\ seeds = {}
    /\ transit = {}
    /\ \E h \in [Machine -> History] :
        local = [m \in Machine |-> [history |-> h[m], backups |-> 0,
                                    problem |-> FALSE, active |-> FALSE, head |-> Nothing]]
    /\ job = [m \in Machine |-> NoJob]

Step(m) ==
    \/ Begin(m) \/ Initialize(m)
    \/ Contribute(m) \/ Acknowledge(m)
    \/ Complete(m) \/ AppendSeeds(m) \/ AppendCutover(m) \/ VerifyCutover(m) \/ Activate(m)
    \/ Edit(m) \/ Unanswered(m) \/ Fail(m)

Next == OldClientWrites \/ Land \/ \E m \in Machine : Step(m)

Spec == Init /\ [][Next]_vars

----------------------------------------------------------------------------
\* Properties.

\* A machine uses the log only when the log has the frozen rows and a contribution
\* of every participant: nobody's history is left behind.
NobodyLeftBehind ==
    \A m \in Machine : local[m].active =>
        /\ cutover
        /\ \A p \in Machine : \E a \in AcksOf(p) : a.history \in seeds
        /\ FrozenRows \subseteq seeds

\* The head from which later changes of a machine descend is the history it shows
\* at its activation: no edit made during the migration is lost or overwritten.
ActivatedAsShown ==
    [][\A m \in Machine : (~local[m].active /\ local'[m].active) =>
        /\ local'[m].head = local[m].history
        /\ local[m].history \in seeds]_vars

\* Two machines that begin at once end up with one log, which is never replaced.
OneLog == [][Begun => manifest' = manifest]_vars
=============================================================================
