----------------------------- MODULE AtomicFile -----------------------------
(***************************************************************************)
(* What the helper's private state files promise to their callers: a       *)
(* register read and replaced as a whole.  A save is put in force in one   *)
(* step; a save that was acknowledged survives a power loss; a save that   *)
(* fails, or is interrupted, may have been put in force or not, but never  *)
(* in part.  StateDir.tla implements it.                                   *)
(***************************************************************************)
CONSTANTS
    Helper,   \* the processes that open the directory
    Value     \* the documents they save

VARIABLES
    value,    \* what a reader finds
    stable,   \* what a reader finds after a power loss
    saving,   \* per helper: the value it is saving, and whether it is in force
    outcome   \* per helper: what its last call returned

vars == <<value, stable, saving, outcome>>

NoSave == [val |-> "none", done |-> FALSE]

Init ==
    /\ value \in Value \cup {"absent", "unsafe"}
    /\ stable = value
    /\ saving = [h \in Helper |-> NoSave]
    /\ outcome = [h \in Helper |-> "none"]

\* A call starts: a load, or the save of v.
Start(h) ==
    /\ saving[h] = NoSave
    /\ \E v \in Value \cup {"none"} :
          saving' = [saving EXCEPT ![h] = [val |-> v, done |-> FALSE]]
    /\ outcome' = [outcome EXCEPT ![h] = "none"]
    /\ UNCHANGED <<value, stable>>

\* The whole document is put in force, unless what is there is unsafe.
PutInForce(h) ==
    /\ saving[h].val \in Value /\ ~saving[h].done
    /\ value # "unsafe"
    /\ value' = saving[h].val
    /\ saving' = [saving EXCEPT ![h] = [val |-> saving[h].val, done |-> TRUE]]
    /\ UNCHANGED <<stable, outcome>>

\* A save is acknowledged only once what is in force is durable.
Acknowledge(h) ==
    /\ saving[h].done
    /\ stable' = value
    /\ saving' = [saving EXCEPT ![h] = NoSave]
    /\ outcome' = [outcome EXCEPT ![h] = "ok"]
    /\ UNCHANGED value

\* A load returns what is in force, whole.
Load(h) ==
    /\ saving[h] = NoSave
    /\ value # "unsafe"
    /\ outcome' = [outcome EXCEPT ![h] = value]
    /\ UNCHANGED <<value, stable, saving>>

\* A call fails, before or after it took effect, or its helper dies.
Fail(h) ==
    /\ saving' = [saving EXCEPT ![h] = NoSave]
    /\ \E r \in {"err", "none"} : outcome' = [outcome EXCEPT ![h] = r]
    /\ UNCHANGED <<value, stable>>

\* What is in force becomes durable by itself.
Settle == stable' = value /\ UNCHANGED <<value, saving, outcome>>

PowerLoss ==
    /\ value' = stable
    /\ saving' = [h \in Helper |-> NoSave]
    /\ outcome' = [h \in Helper |-> "none"]
    /\ UNCHANGED stable

Next ==
    \/ Settle
    \/ PowerLoss
    \/ \E h \in Helper :
          Start(h) \/ PutInForce(h) \/ Acknowledge(h) \/ Load(h) \/ Fail(h)

Spec == Init /\ [][Next]_vars

=============================================================================
