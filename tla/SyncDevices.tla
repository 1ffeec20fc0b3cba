---------------------------- MODULE SyncDevices ----------------------------
(***************************************************************************)
(* Synchronisation of completed records between devices over the change    *)
(* log of one Sheet: capture of local commands, the steps of a job (read   *)
(* and store, reconcile, collect, append, read back, verify, confirm),     *)
(* Undo and review on the main thread while a job runs, resolution of      *)
(* conflicts, unanswered requests, failures and crashes between any two    *)
(* transactions.                                                           *)
(*                                                                         *)
(* A group is the set of changes one transaction captured; its content     *)
(* never changes, so `group` keeps it once for all and devices, requests   *)
(* and the Sheet hold group numbers. A key stands for an aggregate (a work *)
(* session with its deductions, or a day).                                 *)
(***************************************************************************)
EXTENDS Integers, Sequences, FiniteSets, SequencesExt, TLC

CONSTANTS Device,     \* the installations sharing the Sheet
          KeySeq,     \* the keys, in the order of their identifiers
          Value,      \* contents of a completed aggregate
          Wide,       \* the contents of which a timesheet holds at most one
          Snapshots,  \* what each device may contribute to the migration
          MaxCommands,  \* bound: commands captured, resolutions and disconnections
          MaxTransit    \* bound: unanswered requests at a time

Key == Range(KeySeq)
Gone == "gone"        \* no row, or a deleted one
Running == "running"  \* a row without an end: local to its device
Row == Value \cup {Gone, Running}
None == [none |-> TRUE]
Migration == "migration"  \* the author of what the migration published

\* Identifiers are unique, and what a timesheet may hold is bounded.
ASSUME SyncDevicesAssumption ==
    /\ Migration \notin Device
    /\ KeySeq \in Seq(Key) /\ \A x, y \in DOMAIN KeySeq : KeySeq[x] = KeySeq[y] => x = y
    /\ IsFiniteSet(Value) /\ Gone \notin Value /\ Running \notin Value
    /\ Snapshots \subseteq [Device -> [Key -> Row]]

VARIABLES group,      \* captured groups, by number
          log,        \* group numbers in the Sheet
          transit,    \* requests without an answer that may still be executed
          store,      \* per device, its database
          over,       \* per device, the last deadline its jobs found to have passed
          undo,       \* per device, the Finish work that Undo would revert
          review,     \* per device, the review of a conflict that is open
          job         \* per device, its synchronisation job

vars == <<group, log, transit, store, over, undo, review, job>>

----------------------------------------------------------------------------
\* Groups and the graph of their ancestors.

\* finalize_group: content, the heads each change replaces, and the deadline
\* before which it is not published. `lineage` and `past` are the ancestors of
\* each change and of the group, which the code finds by following parents;
\* `undoes` is a history variable: the group of the Finish work that this one took
\* back before any request had it, or 0.
Group(d, content, base, deadline, undoes) ==
    [by |-> d, content |-> content, base |-> base, notBefore |-> deadline, undoes |-> undoes,
     lineage |-> [k \in DOMAIN base |->
                    base[k] \cup UNION {group[h].lineage[k] : h \in base[k]}],
     past |-> UNION {base[k] \cup UNION {group[h].past : h \in base[k]} : k \in DOMAIN base}]

Keys(g) == DOMAIN group[g].content

\* Groups whose whole ancestry is stored; the others are staged.
Accepted(known) == {g \in known : group[g].past \subseteq known}
StagedKeys(known) == UNION {Keys(g) : g \in known \ Accepted(known)}

\* Seeded fault: the version written last wins.
Tips_LatestWins(known, k) ==
    LET versions == {g \in Accepted(known) : k \in Keys(g)}
    IN  {g \in versions : \A h \in versions : h <= g}

Tips(known, k) ==
    LET versions == {g \in Accepted(known) : k \in Keys(g)}
    IN  {g \in versions : \A h \in versions : g \notin group[h].base[k]}

\* The changes of some keys that are current.
Versions(known, C) == {x \in known \X C : x[1] \in Tips(known, x[2])}

\* Keys that share a group of which some change is current are treated together.
Component(known, k) ==
    LET joined == {Keys(g) : g \in {h \in known : \E j \in Keys(h) : h \in Tips(known, j)}}
        closed == {S \in SUBSET Key : k \in S /\ \A J \in joined : J \cap S # {} => J \subseteq S}
    IN  {j \in Key : \A S \in closed : j \in S}

Before(j, k) == \E x, y \in DOMAIN KeySeq : x < y /\ KeySeq[x] = j /\ KeySeq[y] = k

----------------------------------------------------------------------------
\* The database of one device.

\* seed_groups: one group for each different record of any participant.
Seeds(snapshot) ==
    SetToSeq({x \in Key \X Value : \E d \in Device : snapshot[d][x[1]] = x[2]})

\* At the end of the migration a device knows every seed and its own are heads;
\* it reconciles them at once. `fresh` is a history variable: versions were read
\* that no reconciliation has seen yet.
Database(seeds, rows) ==
    [rows |-> rows, known |-> DOMAIN seeds,
     heads |-> [k \in Key |-> {i \in DOMAIN seeds : seeds[i] = <<k, rows[k]>>}],
     acked |-> {}, conflicts |-> {}, enabled |-> TRUE, fresh |-> FALSE]

Commands == Cardinality({g \in DOMAIN group : group[g].by # Migration})
                + Cardinality({d \in Device : ~store[d].enabled})

Authored(d) == {g \in DOMAIN group : group[g].by = d}
Pending(d) == (Authored(d) \cap store[d].known) \ store[d].acked

\* Tables of SQLiteSyncRepository.
Observe(db, S) == [db EXCEPT !.known = @ \cup S]
StoreRead(db, S) == [Observe(db, S) EXCEPT !.fresh = @ \/ ~(S \subseteq db.known)]
Acknowledge(db, S) == [db EXCEPT !.acked = @ \cup S]
SetHeads(db, K, n) == [db EXCEPT !.heads = [k \in Key |-> IF k \in K THEN {n} ELSE @[k]]]
CloseConflict(db, c) == [db EXCEPT !.conflicts = @ \ {c}]

\* validate_intervals on the whole timesheet.
Valid(rows) == \A j, k \in Key : (j # k /\ rows[j] \in Wide) => rows[k] \notin Wide

\* _conflict: one open conflict per keys and reason, with the latest versions.
SaveConflict(db, keys, changes, reason) ==
    [db EXCEPT !.conflicts =
        {c \in @ : ~(c.keys = keys /\ c.reason = reason)}
            \cup {[keys |-> keys, changes |-> changes, reason |-> reason]}]

\* _apply_candidate: the rows the versions would make, unless one of them runs here.
Applied(db, versions) ==
    [k \in Key |-> IF \E g \in db.known : <<g, k>> \in versions
                   THEN LET g == CHOOSE h \in db.known : <<h, k>> \in versions
                        IN  group[g].content[k]
                   ELSE db.rows[k]]
Acceptable(db, versions) ==
    /\ \A x \in versions : db.rows[x[2]] # Running
    /\ Valid(Applied(db, versions))

\* Of an invalid candidate the conflict also names the local work it overlaps,
\* as far as changes were applied when the refusal came.
RefuseCandidate(db, C, versions) ==
    LET reached == {x[2] : x \in {y \in versions :
                        \A z \in versions : (z = y \/ Before(z[2], y[2])) => db.rows[z[2]] # Running}}
        near == {j \in Key : /\ db.rows[j] \in Wide
                             /\ \E k \in reached : k # j /\ Applied(db, versions)[k] \in Wide}
    IN  SaveConflict(db, C \cup near, Versions(db.known, C \cup near), "invalid_aggregate")

\* Seeded fault: a device keeps its own version of a concurrent edit.
Settle_KeepsOwn(db, C) ==
    LET sole == {x \in Versions(db.known, C) :
                    db.heads[x[2]] # {x[1]} /\ Cardinality(Tips(db.known, x[2])) = 1}
    IN  IF Acceptable(db, sole)
        THEN [db EXCEPT !.rows = Applied(db, sole),
                        !.heads = [k \in Key |-> IF \E x \in sole : x[2] = k
                                                 THEN Tips(db.known, k) ELSE @[k]]]
        ELSE db

\* One component: several tips, or a timesheet the new versions would make
\* invalid, become a conflict; otherwise rows and heads move to the tips.
Settle(db, C) ==
    LET versions == Versions(db.known, C)
        applicable == {x \in versions : db.heads[x[2]] # {x[1]}}
    IN  IF versions = {} \/ C \cap StagedKeys(db.known) # {} THEN db
        ELSE IF \E k \in C : Cardinality(Tips(db.known, k)) > 1
             THEN SaveConflict(db, C, versions, "concurrent_edit")
        ELSE IF applicable = {} THEN db
        ELSE IF Acceptable(db, applicable)
             THEN [db EXCEPT !.rows = Applied(db, applicable),
                             !.heads = [k \in Key |-> IF \E x \in applicable : x[2] = k
                                                      THEN Tips(db.known, k) ELSE @[k]]]
        ELSE RefuseCandidate(db, C, applicable)

\* Seeded fault: a conflict is closed although a version of it is still current.
Superseded_TooSoon(db, c) ==
    \A k \in {x[2] : x \in c.changes} :
        /\ \E x \in c.changes : x[2] = k /\ x[1] \notin db.heads[k]
        /\ \A g \in db.heads[k] : {x[1] : x \in {y \in c.changes : y[2] = k}}
                                    \subseteq Tips(db.known, k) \cup group[g].lineage[k]

\* A conflict is closed once later versions of all it named are materialised.
Superseded(db, c) ==
    LET keys == {x[2] : x \in c.changes}
        old(k) == {x[1] : x \in {y \in c.changes : y[2] = k}}
    IN  /\ c.keys \cap StagedKeys(db.known) = {}
        /\ \A k \in keys : \E g \in Tips(db.known, k) :
              /\ Tips(db.known, k) = {g}
              /\ db.heads[k] = {g}
              /\ old(k) \subseteq {g} \cup group[g].lineage[k]
        /\ \E k \in keys : old(k) # Tips(db.known, k)

CloseSuperseded(db) == [db EXCEPT !.conflicts = {c \in @ : ~Superseded(db, c)}]

\* Components in the order of their keys, each validated with those before it: the
\* database after the first i keys.
Passes(db) ==
    LET pass[i \in 0..Len(KeySeq)] ==
            IF i = 0 THEN db
            ELSE LET C == Component(db.known, KeySeq[i])
                 IN  IF \E j \in C : Before(j, KeySeq[i]) THEN pass[i-1] ELSE Settle(pass[i-1], C)
    IN  pass

\* Reconciliation changes rows, heads and conflicts only.
Reconcile(db) ==
    LET done == CloseSuperseded(Passes(db)[Len(KeySeq)])
    IN  [db EXCEPT !.rows = done.rows, !.heads = done.heads, !.conflicts = done.conflicts,
                   !.fresh = FALSE]

Blocked(db) == db.conflicts # {} \/ db.known # Accepted(db.known)

\* active_target, _ensure_binding: the connection is the one that was reviewed.
Bound(d) == store[d].enabled

\* The job of the worker thread.
NoJob == [at |-> "idle", seen |-> {}, out |-> {}]
At(d, phase) == job[d].at = phase
Go(d, phase, seen, out) == job' = [job EXCEPT ![d] = [at |-> phase, seen |-> seen, out |-> out]]

----------------------------------------------------------------------------
\* Local commands, each one transaction on the main thread.

\* A change waits as long as one it descends from that was not published yet.
Wait(d, K, deadline) ==
    Max({deadline} \cup {group[h].notBefore :
            h \in (UNION {store[d].heads[k] : k \in K}) \cap Pending(d)})

Written(rows, new) == [k \in Key |-> IF k \in DOMAIN new THEN new[k] ELSE rows[k]]

\* What stops being complete is withdrawn.
Published(new) == [k \in DOMAIN new |-> IF new[k] = Running THEN Gone ELSE new[k]]

\* Seeded fault: the new change is queued but not observed.
Capture_NotObserved(d, new, deadline, undoes) ==
    LET n == Len(group) + 1
        K == DOMAIN new
    IN  /\ Bound(d)
        /\ group' = Append(group, Group(d, Published(new), [k \in K |-> store[d].heads[k]],
                                        Wait(d, K, deadline), undoes))
        /\ store' = [store EXCEPT ![d] =
                        SetHeads([@ EXCEPT !.rows = Written(@, new)], K, n)]

\* captured_mutation: the group descends from the heads of what it changes.
Capture(d, new, deadline, undoes) ==
    LET db == store[d]
        n == Len(group) + 1
        K == DOMAIN new
    IN  /\ Bound(d)
        /\ group' = Append(group, Group(d, Published(new), [k \in K |-> db.heads[k]],
                                        Wait(d, K, deadline), undoes))
        /\ store' = [store EXCEPT ![d] =
                        SetHeads(Observe([db EXCEPT !.rows = Written(@, new)], {n}), K, n)]

\* An identifier nobody used yet.
Unused(k) == /\ \A g \in DOMAIN group : k \notin Keys(g)
             /\ \A d \in Device : store[d].rows[k] = Gone
Idle(d) == \A k \in Key : store[d].rows[k] # Running

\* _copy_office_context: days that have no record get that of the day work began on,
\* in the same transaction.
WithDays(d, k, v) ==
    {[j \in {k} \cup days |-> IF j = k THEN v ELSE office] :
        days \in SUBSET {j \in Key \ {k} : store[d].rows[j] = Gone}, office \in Value \ Wide}

\* Finish work defers its publication by the time Undo may take it back, and is not
\* compared with the timesheet. A row that runs for the first time is not kept:
\* nothing of it leaves its device.
Finish(d, k, v) ==
    /\ store[d].rows[k] = Running \/ (Unused(k) /\ Idle(d))
    /\ \E new \in WithDays(d, k, v) : Capture(d, new, Len(group) + 1, 0)
    /\ undo' = [undo EXCEPT ![d] = [key |-> k, finish |-> Len(group) + 1]]
    /\ UNCHANGED <<log, transit, over, review, job>>

\* What a request had, or has yet to append.
Requested(d) == log \cup job[d].out \cup UNION transit
TakenBack(d) == IF undo[d].finish \in Requested(d) THEN 0 ELSE undo[d].finish
Reopened(d) == [k \in {undo[d].key} |-> IF store[d].rows[k] = Gone THEN Gone ELSE Running]

\* Seeded fault: what takes a Finish work back waits for a grace of its own.
Undo_OwnGrace(d) ==
    /\ undo[d] # None
    /\ Idle(d)
    /\ Capture(d, Reopened(d), Len(group) + 1, TakenBack(d))
    /\ undo' = [undo EXCEPT ![d] = None]
    /\ UNCHANGED <<log, transit, over, review, job>>

\* The entry runs again, unless it was deleted meanwhile. What limits Undo is not the
\* deadline of the publication: the clock is compared, before the transaction begins,
\* with the time of the finish, which may be typed and lie ahead. So the deadline may
\* have passed, and a job may have taken the finish, when Undo comes.
Undo(d) ==
    /\ undo[d] # None
    /\ Idle(d)
    /\ Capture(d, Reopened(d), 0, TakenBack(d))
    /\ undo' = [undo EXCEPT ![d] = None]
    /\ UNCHANGED <<log, transit, over, review, job>>

\* A manual entry, a correction, a deletion or a restoration. Only what is written is
\* compared with the rest.
Edit(d, k, v) ==
    /\ store[d].rows[k] \notin {Running, v}
    /\ store[d].heads[k] # {} \/ Unused(k)
    /\ v \in Wide => \A j \in Key \ {k} : store[d].rows[j] \notin Wide
    /\ \E new \in IF v = Gone THEN {[j \in {k} |-> v]} ELSE WithDays(d, k, v) :
         Capture(d, new, 0, 0)
    /\ UNCHANGED <<log, transit, over, undo, review, job>>

----------------------------------------------------------------------------
\* Conflicts: a review opens when no job runs; jobs, commands and reads may come
\* between it and the resolution, which the worker runs in turn with the jobs.

\* The conflict that was chosen is shown, if it is still open after reconciling.
Review(d) ==
    LET db == Reconcile(store[d])
    IN  /\ At(d, "idle")
        /\ Bound(d)
        /\ store[d].conflicts # {}
        /\ store' = [store EXCEPT ![d] = db]
        /\ \/ \E c \in db.conflicts :
                 review' = [review EXCEPT ![d] = [conflict |-> c, rows |-> db.rows,
                                                    heads |-> [k \in c.keys |-> db.heads[k]]]]
           \/ UNCHANGED review
        /\ UNCHANGED <<group, log, transit, over, undo, job>>

\* resolve reconciles first.
BeginResolve(d) ==
    /\ At(d, "idle")
    /\ Bound(d)
    /\ review[d] # None
    /\ store' = [store EXCEPT ![d] = Reconcile(@)]
    /\ Go(d, "resolve", {}, {})
    /\ UNCHANGED <<group, log, transit, over, undo, review>>

\* One group that descends from the heads and from every version reviewed.
Resolve(d) ==
    LET db == store[d]
        c == review[d].conflict
        n == Len(group) + 1
        base == [k \in c.keys |-> db.heads[k] \cup {x[1] : x \in {y \in c.changes : y[2] = k}}]
    IN  /\ At(d, "resolve")
        /\ Bound(d)
        /\ Commands < MaxCommands
        /\ c \in db.conflicts
        /\ db.rows = review[d].rows
        /\ review[d].heads = [k \in c.keys |-> db.heads[k]]
        /\ \A k \in c.keys : db.rows[k] # Running
        /\ \E content \in [c.keys -> Value \cup {Gone}] :
            /\ Valid(Written(db.rows, content))
            /\ group' = Append(group, Group(d, content, base, 0, 0))
            /\ store' = [store EXCEPT ![d] = CloseConflict(
                    SetHeads(Observe([db EXCEPT !.rows = Written(@, content)], {n}), c.keys, n), c)]
        /\ review' = [review EXCEPT ![d] = None]
        /\ Go(d, "idle", {}, {})
        /\ UNCHANGED <<log, transit, over, undo>>

\* The connection is disconnected (bound: on one device): nothing is captured any
\* more, a running job is obsolete, and the device has left the log.
Disable(d) ==
    /\ \A e \in Device : store[e].enabled
    /\ store' = [store EXCEPT ![d].enabled = FALSE]
    /\ UNCHANGED <<group, log, transit, over, undo, review, job>>

----------------------------------------------------------------------------
\* A job: network requests and transactions of the worker thread, in turn.

\* run_once, _check_job, _read and _stage: what was read is stored. Reading and storing
\* are one step: commands of this device that fall between them commute with the
\* read, and writes of other devices with the transaction.
ReadLog(d) ==
    /\ At(d, "idle")
    /\ Bound(d)
    /\ store' = [store EXCEPT ![d] = StoreRead(@, log)]
    /\ Go(d, "staged", log \cap Authored(d), {})
    /\ UNCHANGED <<group, log, transit, over, undo, review>>

\* Reconciliation is a transaction of its own. Staged data or a conflict pauses
\* publication.
ReconcileRead(d) ==
    LET db == Reconcile(store[d])
    IN  /\ At(d, "staged")
        /\ Bound(d)
        /\ store' = [store EXCEPT ![d] = db]
        /\ IF Blocked(db) THEN Go(d, "idle", {}, {}) ELSE Go(d, "collect", job[d].seen, {})
        /\ UNCHANGED <<group, log, transit, over, undo, review>>

\* What may be published, as the clock that is read anew for every group finds it: a
\* deadline may pass between two of them.
Deadlines(d) == {over[d]} \cup {group[g].notBefore : g \in Authored(d)}
Readings(d) ==
    {r \in [cut : 0..Len(group), now : Deadlines(d), later : Deadlines(d)] :
        over[d] <= r.now /\ r.now <= r.later}
Eligible(d, r) == {g \in Pending(d) \ job[d].seen :
                      group[g].notBefore <= IF g <= r.cut THEN r.now ELSE r.later}

\* Acknowledges what the Sheet already has and takes what may be published.
Collect(d) ==
    /\ At(d, "collect")
    /\ Bound(d)
    /\ IF store[d].conflicts # {}
       THEN Go(d, "idle", {}, {}) /\ UNCHANGED <<store, over>>
       ELSE /\ store' = [store EXCEPT ![d] = Acknowledge(@, Pending(d) \cap job[d].seen)]
            /\ \E taken \in {<<Eligible(d, r), r.later>> : r \in Readings(d)} :
                 /\ over' = [over EXCEPT ![d] = taken[2]]
                 /\ IF taken[1] = {} THEN Go(d, "idle", {}, {}) ELSE Go(d, "append", {}, taken[1])
    /\ UNCHANGED <<group, log, transit, undo, review>>

AppendLog(d) ==
    /\ At(d, "append")
    /\ log' = log \cup job[d].out
    /\ transit' = {out \in transit : ~(out \subseteq log')}  \* the others add nothing
    /\ Go(d, "appended", {}, job[d].out)
    /\ UNCHANGED <<group, store, over, undo, review>>

\* Seeded fault: a request without an answer is taken for a success.
AppendUnanswered_TakenForSuccess(d) ==
    /\ At(d, "append")
    /\ Cardinality(transit) < MaxTransit
    /\ transit' = transit \cup {job[d].out}
    /\ store' = [store EXCEPT ![d].acked = @ \cup job[d].out]
    /\ Go(d, "idle", {}, {})
    /\ UNCHANGED <<group, log, over, undo, review>>

\* No answer: the request may have been executed, or may be later, or never.
AppendUnanswered(d) ==
    /\ At(d, "append")
    /\ Cardinality(transit) < MaxTransit
    /\ transit' = transit \cup {job[d].out}
    /\ Go(d, "idle", {}, {})
    /\ UNCHANGED <<group, log, store, over, undo, review>>

ReadBack(d) ==
    /\ At(d, "appended")
    /\ Bound(d)
    /\ store' = [store EXCEPT ![d] = StoreRead(@, log)]
    /\ Go(d, "verify", log \cap job[d].out, job[d].out)
    /\ UNCHANGED <<group, log, transit, over, undo, review>>

\* What is read back is reconciled; only what it holds is acknowledged.
Verify(d) ==
    LET db == Reconcile(store[d])
    IN  /\ At(d, "verify")
        /\ Bound(d)
        /\ store' = [store EXCEPT ![d] = db]
        /\ IF Blocked(db) \/ ~(job[d].out \subseteq job[d].seen)
           THEN Go(d, "idle", {}, {}) ELSE Go(d, "confirm", {}, job[d].out)
        /\ UNCHANGED <<group, log, transit, over, undo, review>>

\* Seeded fault: the connection is not checked again before the confirmation.
Confirm_NotChecked(d) ==
    /\ At(d, "confirm")
    /\ store' = [store EXCEPT ![d] = Acknowledge(@, job[d].out)]
    /\ Go(d, "idle", {}, {})
    /\ UNCHANGED <<group, log, transit, over, undo, review>>

Confirm(d) ==
    /\ At(d, "confirm")
    /\ Bound(d)
    /\ store' = [store EXCEPT ![d] = Acknowledge(@, job[d].out)]
    /\ Go(d, "idle", {}, {})
    /\ UNCHANGED <<group, log, transit, over, undo, review>>

\* Seeded fault: only conflicts keep a job from reporting success.
Outcome_IgnoresPending(d) == IF store[d].conflicts # {} THEN "conflict" ELSE "synced"

\* What run_once reports at its end.
Outcome(d) ==
    CASE store[d].conflicts # {} -> "conflict"
      [] store[d].conflicts = {} /\ (Pending(d) # {} \/ Blocked(store[d])) -> "pending"
      [] OTHER -> "synced"

\* Cancellation, the deadline, a failed request, or a connection that changed.
FailJob(d) ==
    /\ ~At(d, "idle")
    /\ Go(d, "idle", {}, {})
    /\ UNCHANGED <<group, log, transit, store, over, undo, review>>

\* The process ends and is started again: what it held in memory is gone.
Crash(d) ==
    /\ ~(job[d] = NoJob /\ undo[d] = None /\ review[d] = None)
    /\ job' = [job EXCEPT ![d] = NoJob]
    /\ undo' = [undo EXCEPT ![d] = None]
    /\ review' = [review EXCEPT ![d] = None]
    /\ UNCHANGED <<group, log, transit, store, over>>

\* A request given up by its job is executed.
Land ==
    /\ \E out \in transit : log' = log \cup out /\ transit' = transit \ {out}
    /\ UNCHANGED <<group, store, over, undo, review, job>>

----------------------------------------------------------------------------
Init ==
    /\ transit = {}
    /\ \E snapshot \in Snapshots :
        LET seeds == Seeds(snapshot)
        IN  /\ group = [i \in DOMAIN seeds |->
                LET k == seeds[i][1]
                IN  Group(Migration, [j \in {k} |-> seeds[i][2]], [j \in {k} |-> {}], 0, 0)]
            /\ log = DOMAIN seeds
            /\ store = [d \in Device |-> Reconcile(Database(seeds, snapshot[d]))]
    /\ over = [d \in Device |-> 0]
    /\ undo = [d \in Device |-> None]
    /\ review = [d \in Device |-> None]
    /\ job = [d \in Device |-> NoJob]

Command(d) ==
    \/ /\ Commands < MaxCommands
       /\ \/ \E k \in Key, v \in Value : Finish(d, k, v)
          \/ \E k \in Key, v \in Value \cup {Gone} : Edit(d, k, v)
          \/ Undo(d) \/ Disable(d)
    \/ Review(d)

JobStep(d) ==
    \/ ReadLog(d) \/ ReconcileRead(d) \/ Collect(d) \/ AppendLog(d) \/ AppendUnanswered(d)
    \/ ReadBack(d) \/ Verify(d) \/ Confirm(d) \/ BeginResolve(d) \/ Resolve(d) \/ FailJob(d)

Next ==
    \/ \E d \in Device : Command(d) \/ JobStep(d) \/ Crash(d)
    \/ Land

Spec == Init /\ [][Next]_vars

----------------------------------------------------------------------------
\* Properties.

\* What a device shows of a record is what the head of the record says, and a
\* row that runs has been withdrawn: capture and reconciliation, whatever their
\* order, keep the rows and the heads of the history together.
RowsMatchHeads ==
    \A d \in Device, k \in Key : store[d].enabled =>
        LET db == store[d]
        IN  IF db.heads[k] = {} THEN db.rows[k] \in {Gone, Running}
            ELSE \E g \in db.known :
                   /\ db.heads[k] = {g}
                   /\ group[g].content[k] = IF db.rows[k] = Running THEN Gone ELSE db.rows[k]

\* A version is only ever replaced by one that descends from it: no edit of
\* another device silently overwrites a local one, read in whatever order.
NoSilentOverwrite ==
    [][\A d \in Device, k \in Key :
        store'[d].heads[k] = store[d].heads[k]
        \/ \E g \in DOMAIN group' : /\ store'[d].heads[k] = {g}
                                   /\ store[d].heads[k] \subseteq group'[g].lineage[k]]_vars

\* A Finish work that is taken back before a request has it never reaches the Sheet
\* without its withdrawal, in whichever job either of them is collected. (One that a
\* job took before Undo committed is withdrawn by a later request.)
WithdrawnTogether ==
    \A w \in DOMAIN group : group[w].undoes \in log => w \in log

\* A job that reports "synced", which it does after reconciling what it read, left
\* nothing of its device unpublished, and what the device shows is the only current
\* version of every record it knows.
SyncedMeansPublished ==
    \A d \in Device : (store[d].enabled /\ ~store[d].fresh /\ Outcome(d) = "synced") =>
        /\ Authored(d) \subseteq log
        /\ \A k \in Key : store[d].heads[k] = Tips(store[d].known, k)

\* Devices that know the same history and have nothing left to decide agree.
Settled(d) ==
    LET db == store[d] IN db.enabled /\ ~Blocked(db) /\ Reconcile(db) = db
Agreement ==
    \A d, e \in Device :
        (d # e /\ store[d].known = store[e].known /\ Settled(d) /\ Settled(e)) =>
        store[d].heads = store[e].heads

\* No version is lost from sight: whatever the history of a record holds that was
\* not replaced is what the device shows, or an open conflict names it, or the
\* device waits for ancestors that were not read yet, or it was read by a job that
\* has not reconciled it, and may never, and then nothing is collected, appended or
\* confirmed before it is. (That the record itself waits would say too much: a
\* change captured meanwhile may separate it from the records it waits with, until
\* the next reconciliation.)
EveryVersionInSight ==
    \A d \in Device, k \in Key :
        LET db == store[d]
        IN  \A g \in Tips(db.known, k) :
                \/ db.heads[k] = {g}
                \/ \E c \in db.conflicts : <<g, k>> \in c.changes
                \/ db.known # Accepted(db.known)
                \/ db.fresh /\ job[d].at \notin {"collect", "append", "appended", "confirm", "resolve"}

\* A job that outlives its connection stores nothing.
ObsoleteJobStoresNothing ==
    [][\A d \in Device : ~store[d].enabled =>
        store'[d] = [store[d] EXCEPT !.rows = store'[d].rows]]_vars

Log == INSTANCE SyncLog WITH
    Change <- Nat,
    written <- [x \in Device \cup {Migration} |-> Authored(x)],
    view <- [d \in Device |-> store[d].known],
    settled <- [d \in Device |-> store[d].acked]

\* The devices implement the abstract log.
LogImplemented == Log!Spec
=============================================================================
