----------------------------- MODULE DiskParts -----------------------------
(***************************************************************************)
(* What the helper does to the disk: the files of its private directory,   *)
(* and those of the save directory that a cancelled receive takes back.    *)
(* The two share no state; a behaviour is one of one of them, and the      *)
(* other stays as it begins.                                               *)
(***************************************************************************)
EXTENDS StateDir, Sequences

CONSTANTS
    Transfer, NoTransfer, Item, Folder, ItemFolder, Before,   \* Received
    MaxProgress, MaxDrops

VARIABLES
    place,  \* which of the two it is
    slot, upload, progress, folders, saved, events, files, directories,
    discard_requests, marked, cleaning, named, asked, ender, ended

receive == <<slot, upload, progress, folders, saved, events, files, directories,
             discard_requests, marked, cleaning, named, asked, ender, ended>>

Rc == INSTANCE Received WITH Name <- Item, Dir <- ItemFolder

ASSUME ReceivedAssumption == Rc!FoldersOK

DiskInit ==
    /\ place \in {"state", "downloads"}
    /\ Init /\ Rc!Init
    /\ place # "state" =>
          /\ \A i \in 1..Depth : dirs[i].kind = "absent"
          /\ \A n \in Name \cup {Target} : entries[n] = Absent

DiskNext ==
    /\ UNCHANGED place
    /\ \/ place = "state" /\ Next /\ UNCHANGED receive
       \/ place = "downloads" /\ Rc!Next /\ UNCHANGED vars

disk_vars == <<place, vars, receive>>
DiskSpec == DiskInit /\ [][DiskNext]_disk_vars

\* What the panel was told the end of, and the user had cancelled, is gone but for a file
\* that nobody was told of; a mark does not outlive its transfer (main.rs:1387-1399, 1484).
CancelledIsGone == Rc!ReportedFilesGone /\ Rc!NoStaleMark

\* A file goes only if its transfer was cancelled, and the user had asked for that before
\* its end was told (main.rs:1387-1399, 1484).
OnlyCancelledGoes == [][Rc!DiscardStep]_receive
=============================================================================
