------------------------------ MODULE StateDir ------------------------------
(***************************************************************************)
(* src/backend/src/secure_state.rs: the walk to the helper's private       *)
(* directory, component by component, and the replacement of a file in it  *)
(* (check, exclusive temporary, write, sync, rename, directory sync), run  *)
(* by several helpers at once, any of which may die, on a machine that may *)
(* lose power.  One file name, Target, stands for settings.json or         *)
(* identity.json: every file is replaced in the same way and apart from    *)
(* the others.                                                             *)
(***************************************************************************)
EXTENDS Naturals, FiniteSets

CONSTANTS
    Helper,        \* the processes that open the directory
    Value,         \* the documents they save
    Name,          \* the names random_temp_name can draw
    Target,        \* the name of the state file
    Depth,         \* components of the path below the root
    TempAttempts,  \* names tried before giving up
    FirstDirs,     \* the directories found at first, by component
    MaxOps,        \* bound: calls, of all helpers together
    MaxCrashes     \* bound: deaths and power losses

ASSUME ValueAssumption ==
    \A v \in Value : v \notin {"absent", "unsafe", "partial", "none", "ok", "err"}

ASSUME NameAssumption ==
    /\ Target \notin Name
    /\ "none" \notin Name
    /\ "other" \notin Helper

ASSUME BoundAssumption ==
    /\ Depth \in Nat \ {0}
    /\ TempAttempts \in Nat \ {0}
    /\ MaxOps \in Nat /\ MaxCrashes \in Nat

ASSUME FirstDirsAssumption ==
    /\ FirstDirs \subseteq [0..Depth -> [kind: {"absent", "dir", "other"},
                                        owner: {"user", "root", "other"}, shared: BOOLEAN]]
    /\ \A d \in FirstDirs : d[0].kind = "dir"

VARIABLES
    dirs,     \* what the path names: component 0 is the root
    entries,  \* the files of the private directory, as processes see them
    durable,  \* those files as a power loss would leave them
    pc,       \* per helper: the next step of its call
    call,     \* per helper: the locals of its call
    got,      \* per helper: what its last call returned
    ops, crashes

vars == <<dirs, entries, durable, pc, call, got, ops, crashes>>
file == <<entries, durable>>
bounds == <<ops, crashes>>

\* A component: nothing, a directory, or something openat refuses to follow or
\* to open as one; shared: others may rename its entries (writable, not sticky).
Dir == [kind: {"absent", "dir", "other"}, owner: {"user", "root", "other"},
        shared: BOOLEAN]
Made == [kind |-> "dir", owner |-> "user", shared |-> FALSE]

\* A file: "partial" until all of it is written; synced once it is on disk.
File == [val: Value \cup {"absent", "unsafe", "partial"}, synced: BOOLEAN,
         by: Helper \cup {"other"}]
Absent == [val |-> "absent", synced |-> TRUE, by |-> "other"]
Unsafe == [val |-> "unsafe", synced |-> TRUE, by |-> "other"]
Left(v) == [val |-> v, synced |-> TRUE, by |-> "other"]

\* The component a walk has reached, the document to save ("none" for a load),
\* the temporary name in use and how many names were found taken.
Call == [at: 0..Depth, want: Value \cup {"none"}, tmp: Name \cup {"none"}, tries: Nat]
NoCall == [at |-> 0, want |-> "none", tmp |-> "none", tries |-> 0]

Steps == {"idle", "walk", "mkdir", "reopen", "opened", "create", "write", "sync",
          "publish", "syncdir", "unlink"}

TypeOK ==
    /\ dirs \in [0..Depth -> Dir]
    /\ entries \in [Name \cup {Target} -> File]
    /\ durable \in [Name \cup {Target} -> File]
    /\ pc \in [Helper -> Steps]
    /\ call \in [Helper -> Call]
    /\ got \in [Helper -> Value \cup {"none", "ok", "err", "absent"}]
    /\ ops \in Nat /\ crashes \in Nat

Init ==
    /\ dirs \in FirstDirs
    /\ entries \in [Name \cup {Target} ->
                     {Absent, Unsafe, Left("partial")} \cup {Left(v) : v \in Value}]
    /\ entries[Target] # Left("partial")
    /\ \A n \in Name : entries[n] \in {Absent, Left("partial")}
    /\ durable = entries
    /\ pc = [h \in Helper |-> "idle"]
    /\ call = [h \in Helper |-> NoCall]
    /\ got = [h \in Helper |-> "none"]
    /\ ops = 0
    /\ crashes = 0

-----------------------------------------------------------------------------
(* Helpers *)

Goto(h, step) == pc' = [pc EXCEPT ![h] = step] /\ UNCHANGED got

\* The call returns r; its locals are gone.
Return(h, r) ==
    /\ pc' = [pc EXCEPT ![h] = "idle"]
    /\ got' = [got EXCEPT ![h] = r]
    /\ call' = [call EXCEPT ![h] = NoCall]

\* The owner test of a walk: an ancestor may belong to root, and nobody else
\* may be able to rename what is in it; the private directory is the user's.
valid_directory_owner(d, private) ==
    /\ d.kind = "dir"
    /\ d.owner = "user" \/ (~private /\ d.owner = "root")
    /\ private \/ ~d.shared

\* A file that is there must be a regular file of the user.
validate_owned_regular_file(f) == f.val # "unsafe"

\* Sixteen random bytes: any name, or none when the source fails.
random_temp_name == Name \cup {"none"}

renameat(from) ==
    entries' = [entries EXCEPT ![Target] = entries[from], ![from] = Absent]

unlinkat(n) == entries' = [entries EXCEPT ![n] = Absent]

-----------------------------------------------------------------------------
(* The walk *)

Begin(h) ==
    /\ pc[h] = "idle" /\ ops < MaxOps
    /\ \E v \in Value \cup {"none"} : call' = [call EXCEPT ![h].want = v]
    /\ pc' = [pc EXCEPT ![h] = "walk"]
    /\ got' = [got EXCEPT ![h] = "none"]
    /\ ops' = ops + 1
    /\ UNCHANGED <<dirs, file, crashes>>

\* A component was opened: test its owner, make the last one private, go on.
Enter(h) ==
    LET i == call[h].at IN
    \/ /\ ~valid_directory_owner(dirs[i], i = Depth)
       /\ Return(h, "err") /\ UNCHANGED dirs
    \/ /\ valid_directory_owner(dirs[i], FALSE) /\ i < Depth
       /\ call' = [call EXCEPT ![h].at = i + 1]
       /\ Goto(h, "walk") /\ UNCHANGED dirs
    \/ /\ valid_directory_owner(dirs[i], TRUE) /\ i = Depth
       /\ dirs' = [dirs EXCEPT ![Depth].shared = FALSE]
       /\ Goto(h, "opened") /\ UNCHANGED call

OpenComponent(h) ==
    LET found == dirs[call[h].at].kind IN
    /\ pc[h] = "walk"
    /\ \/ found = "dir" /\ Enter(h)
       \/ found = "absent" /\ Goto(h, "mkdir") /\ UNCHANGED <<dirs, call>>
       \/ found = "other" /\ Return(h, "err") /\ UNCHANGED dirs
    /\ UNCHANGED <<file, bounds>>

FaultyMakeDir(h) ==
    LET i == call[h].at IN
    /\ pc[h] = "mkdir"
    /\ \/ /\ dirs[i].kind = "absent"
          /\ dirs' = [dirs EXCEPT ![i] = Made]
          /\ Goto(h, "reopen") /\ UNCHANGED call
       \/ dirs[i].kind # "absent" /\ Return(h, "err") /\ UNCHANGED dirs
    /\ UNCHANGED <<file, bounds>>

\* mkdirat may fail in a directory of root's; another helper may have made the
\* directory in the meantime, which is as good.
MakeDir(h) ==
    LET i == call[h].at IN
    /\ pc[h] = "mkdir"
    /\ \/ /\ dirs' = IF dirs[i].kind = "absent" THEN [dirs EXCEPT ![i] = Made] ELSE dirs
          /\ Goto(h, "reopen") /\ UNCHANGED call
       \/ dirs[i - 1].owner = "root" /\ Return(h, "err") /\ UNCHANGED dirs
    /\ UNCHANGED <<file, bounds>>

OpenCreated(h) ==
    /\ pc[h] = "reopen"
    /\ IF dirs[call[h].at].kind = "dir"
         THEN Enter(h)
         ELSE Return(h, "err") /\ UNCHANGED dirs
    /\ UNCHANGED <<file, bounds>>

-----------------------------------------------------------------------------
(* Reading and replacing the file *)

\* open_regular and the read of what it opened.  No file that a directory entry
\* Target names is written to any more: its writer closed it before the rename.
OpenRegular(h) ==
    /\ pc[h] = "opened" /\ call[h].want = "none"
    /\ IF validate_owned_regular_file(entries[Target])
         THEN Return(h, entries[Target].val)
         ELSE Return(h, "err")
    /\ UNCHANGED <<dirs, file, bounds>>

\* replace: an unsafe object under the name is left alone.
CheckExisting(h) ==
    /\ pc[h] = "opened" /\ call[h].want # "none"
    /\ IF validate_owned_regular_file(entries[Target])
         THEN Goto(h, "create") /\ UNCHANGED call
         ELSE Return(h, "err")
    /\ UNCHANGED <<dirs, file, bounds>>

\* The file n is created for h, empty and not on disk.
Create(h, n) ==
    /\ entries' = [entries EXCEPT ![n] = [val |-> "partial", synced |-> FALSE, by |-> h]]
    /\ call' = [call EXCEPT ![h].tmp = n]
    /\ Goto(h, "write")

\* O_EXCL: a name in use is never opened; another is tried, TempAttempts times.
CreateTemp(h) ==
    /\ pc[h] = "create"
    /\ \/ \E n \in random_temp_name \ {"none"} :
             \/ entries[n].val = "absent" /\ Create(h, n)
             \/ /\ entries[n].val # "absent"
                /\ call[h].tries + 1 < TempAttempts
                /\ call' = [call EXCEPT ![h].tries = @ + 1]
                /\ UNCHANGED <<pc, got, entries>>
       \/ Return(h, "err") /\ UNCHANGED entries
    /\ UNCHANGED <<dirs, durable, bounds>>

\* The exact mode, then all the bytes.
WriteTemp(h) ==
    /\ pc[h] = "write"
    /\ \/ /\ entries' = [entries EXCEPT ![call[h].tmp].val = call[h].want]
          /\ Goto(h, "sync")
       \/ Goto(h, "unlink") /\ UNCHANGED entries
    /\ UNCHANGED <<dirs, durable, call, bounds>>

FaultySyncTemp(h) ==
    /\ pc[h] = "sync"
    /\ Goto(h, "publish")
    /\ UNCHANGED <<dirs, file, call, bounds>>

SyncTemp(h) ==
    /\ pc[h] = "sync"
    /\ \/ /\ entries' = [entries EXCEPT ![call[h].tmp].synced = TRUE]
          /\ Goto(h, "publish")
       \/ Goto(h, "unlink") /\ UNCHANGED entries
    /\ UNCHANGED <<dirs, durable, call, bounds>>

\* From the rename on, the temporary name is nobody's.
Publish(h) ==
    /\ pc[h] = "publish"
    /\ \/ renameat(call[h].tmp) /\ Goto(h, "syncdir")
       \/ Goto(h, "unlink") /\ UNCHANGED entries
    /\ UNCHANGED <<dirs, durable, call, bounds>>

\* The cleanup of a failed attempt; its own failure is ignored.
RemoveTemp(h) ==
    /\ pc[h] = "unlink"
    /\ unlinkat(call[h].tmp) \/ UNCHANGED entries
    /\ Return(h, "err")
    /\ UNCHANGED <<dirs, durable, bounds>>

EagerSyncDirectory(h) ==
    /\ pc[h] = "syncdir"
    /\ Return(h, "ok")
    /\ UNCHANGED <<file, dirs, bounds>>

\* A failure here is reported although the new file is in force.
SyncDirectory(h) ==
    /\ pc[h] = "syncdir"
    /\ \/ durable' = entries /\ Return(h, "ok")
       \/ Return(h, "err") /\ UNCHANGED durable
    /\ UNCHANGED <<dirs, entries, bounds>>

-----------------------------------------------------------------------------
(* The machine *)

\* The kernel writes the directory back when it likes.
WriteBack ==
    /\ durable' = entries
    /\ UNCHANGED <<dirs, entries, pc, call, got, bounds>>

Die(h) ==
    /\ pc[h] # "idle" /\ crashes < MaxCrashes
    /\ Return(h, "none")
    /\ crashes' = crashes + 1
    /\ UNCHANGED <<dirs, file, ops>>

\* A file that was not synced may come back with any part of its bytes.
PowerLoss ==
    /\ crashes < MaxCrashes
    /\ \E torn \in SUBSET {n \in Name \cup {Target} : ~durable[n].synced} :
          entries' = [n \in Name \cup {Target} |->
                        IF n \in torn THEN Left("partial")
                        ELSE [durable[n] EXCEPT !.synced = TRUE]]
    /\ durable' = entries'
    /\ pc' = [h \in Helper |-> "idle"]
    /\ got' = [h \in Helper |-> "none"]
    /\ call' = [h \in Helper |-> NoCall]
    /\ crashes' = crashes + 1
    /\ UNCHANGED <<dirs, ops>>

Next ==
    \/ WriteBack
    \/ PowerLoss
    \/ \E h \in Helper :
          \/ Begin(h) \/ OpenComponent(h) \/ MakeDir(h) \/ OpenCreated(h)
          \/ OpenRegular(h) \/ CheckExisting(h) \/ CreateTemp(h) \/ WriteTemp(h)
          \/ SyncTemp(h) \/ Publish(h) \/ RemoveTemp(h) \/ SyncDirectory(h) \/ Die(h)

Spec == Init /\ [][Next]_vars

-----------------------------------------------------------------------------
(* Properties *)

Owning(h) == pc[h] \in {"write", "sync", "publish", "unlink"}
Saving(h) == Owning(h) \/ pc[h] \in {"create", "syncdir"}

\* secure_state.rs:307-323: what is linked under the file's name, now and after a
\* power loss, is never a document written in part.
NeverPartial ==
    /\ entries[Target].val # "partial" /\ entries[Target].synced
    /\ durable[Target].val # "partial" /\ durable[Target].synced

\* secure_state.rs:169-216: the directory a helper works in was reached through
\* components that are directories, of the user or of root, and cannot be swapped.
OpenedIsSafe ==
    \A h \in Helper : pc[h] = "opened" \/ Saving(h) =>
        \A i \in 0..Depth : valid_directory_owner(dirs[i], i = Depth)

\* secure_state.rs:281-332: a helper at work on a temporary file is the one that
\* created it, and publishes only what it wrote and synced.
OwnsTemp ==
    \A h \in Helper :
        /\ Saving(h) => call[h].want \in Value /\ entries[Target].val # "unsafe"
        /\ Owning(h) => /\ call[h].tmp \in Name /\ entries[call[h].tmp].by = h
                        /\ entries[call[h].tmp].val # "absent"
        /\ pc[h] \in {"sync", "publish"} => entries[call[h].tmp].val = call[h].want
        /\ pc[h] = "publish" => entries[call[h].tmp].synced

Reached ==
    /\ dirs[0].kind = "dir"
    /\ \A h \in Helper :
          /\ pc[h] # "idle" =>
                \A i \in 0..(call[h].at - 1) : valid_directory_owner(dirs[i], FALSE)
          /\ pc[h] = "mkdir" => call[h].at > 0
          /\ pc[h] = "idle" => call[h].at = 0
          /\ pc[h] = "reopen" => dirs[call[h].at].kind # "absent"

\* The inductive invariant of StateDir_proofs.tla.
IndInv ==
    /\ TypeOK /\ NeverPartial /\ OpenedIsSafe /\ OwnsTemp /\ Reached
    /\ durable[Target].val = "unsafe" <=> entries[Target].val = "unsafe"

\* secure_state.rs:321-331: a name disappears only when the helper that created
\* the file under it publishes or removes it; in particular a failed directory
\* sync does not remove the file of another that drew the same name again.
RemovesOwn ==
    \A n \in Name : entries[n].val # "absent" /\ entries'[n].val = "absent" =>
        \/ crashes' # crashes
        \/ \E h \in Helper :
              call[h].tmp = n /\ entries[n].by = h /\ pc[h] \in {"publish", "unlink"}

\* secure_state.rs:276-278: an unsafe object under the file's name is neither
\* replaced nor removed.
KeepsUnsafe == entries[Target].val = "unsafe" => entries'[Target].val = "unsafe"

\* secure_state.rs:188-204: helpers that start at once and race to create the
\* directory both get through: a walk is refused only for what it found, or by a
\* directory of root's it may not write to.
RefusedForCause ==
    \A h \in Helper :
        pc[h] \in {"walk", "mkdir", "reopen"} /\ pc'[h] = "idle" =>
        \/ crashes' # crashes
        \/ /\ dirs[call[h].at].kind # "absent"
           /\ ~valid_directory_owner(dirs[call[h].at], call[h].at = Depth)
        \/ call[h].at > 0 /\ dirs[call[h].at - 1].owner = "root"

\* secure_state.rs:169-332: the three together: no step of a helper refuses, removes or
\* replaces what it should not, whatever the others do.
SafeStep == RefusedForCause /\ RemovesOwn /\ KeepsUnsafe
StepsAreSafe == [][SafeStep]_vars

Abstract == INSTANCE AtomicFile WITH
    value <- entries[Target].val,
    stable <- durable[Target].val,
    saving <- [h \in Helper |->
                 [val |-> IF pc[h] = "idle" THEN "none" ELSE call[h].want,
                  done |-> pc[h] = "syncdir"]],
    outcome <- got

\* Every step is a step of the register that AtomicFile.tla describes.
ImplementsAtomicFile == Abstract!Spec

=============================================================================
