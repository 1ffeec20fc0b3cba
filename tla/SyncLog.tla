------------------------------ MODULE SyncLog ------------------------------
(***************************************************************************)
(* What synchronisation over the change log of the shared Sheet promises,  *)
(* whatever messages are lost and whichever job is repeated: the log only  *)
(* grows and holds what was written, a device knows what it wrote and what *)
(* it read, and a change it no longer offers is in the log. SyncDevices is *)
(* shown to implement it.                                                  *)
(***************************************************************************)
CONSTANTS Device,
          Migration,  \* the author of what the log held from the beginning
          Change

Author == Device \cup {Migration}

VARIABLES written,  \* per author, the changes it wrote (sync_outbox)
          log,      \* the changes in the Sheet
          view,     \* per device, the changes it stored (sync_changes)
          settled   \* per device, its acknowledged changes

vars == <<written, log, view, settled>>

Written == UNION {written[x] : x \in Author}

\* Every device took over what the migration had published.
Init ==
    /\ log \subseteq Change
    /\ written = [x \in Author |-> IF x = Migration THEN log ELSE {}]
    /\ view = [d \in Device |-> log]
    /\ settled = [d \in Device |-> {}]

\* A new change is stored together with its entry in the outbox.
Write(d) ==
    /\ \E c \in written'[d] \ Written :
        /\ c \in Change
        /\ written' = [written EXCEPT ![d] = @ \cup {c}]
        /\ view' = [view EXCEPT ![d] = @ \cup {c}]
    /\ UNCHANGED <<log, settled>>

\* A request reaches the Sheet, in its job or after it was given up.
Publish ==
    /\ \E S \in SUBSET Written : log' = log \cup S
    /\ UNCHANGED <<written, view, settled>>

\* A job stores what it read and settles those of its own that were there.
Learn(d) ==
    /\ \E S \in SUBSET log : view' = [view EXCEPT ![d] = @ \cup S]
    /\ \E S \in SUBSET (log \cap written[d]) : settled' = [settled EXCEPT ![d] = @ \cup S]
    /\ UNCHANGED <<written, log>>

Next == Publish \/ \E d \in Device : Write(d) \/ Learn(d)

Spec == Init /\ [][Next]_vars

\* Nothing is in the Sheet that nobody wrote; what a device gave up offering is
\* in the Sheet; what it knows it wrote itself or the Sheet holds (so that a
\* device that is lost takes nothing of another one with it).
Accounted ==
    /\ log \subseteq Written
    /\ \A d \in Device : settled[d] \subseteq log /\ view[d] \subseteq log \cup written[d]
=============================================================================
