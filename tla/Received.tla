------------------------------ MODULE Received ------------------------------
(***************************************************************************)
(* What a receive leaves on the disk when the user cancels it: the helper  *)
(* that notes it (src/backend/src/received.rs 5-79), the task that reads   *)
(* the server's events and the command loop (src/backend/src/main.rs       *)
(* 1321-1412, 1484).  The server is what module Receiver says of it, with  *)
(* one open session.  Paths: each file of a transfer goes into a folder of *)
(* the save directory, that another transfer, or the user, may use.        *)
(***************************************************************************)
EXTENDS Naturals, Sequences, FiniteSets

CONSTANTS
    Transfer, NoTransfer,
    Name,            \* of the files of a transfer
    Folder,
    Dir,             \* Dir[n]: the folder the file n goes into
    Before,          \* folders that were there before, with nothing in them
    MaxProgress,     \* bound: progress events
    MaxDrops         \* bound: handlers dropped as they publish

\* What the constants are to be.
FoldersOK ==
    /\ NoTransfer \notin Transfer
    /\ Dir \in [Name -> Folder] /\ Before \subseteq Folder /\ {MaxProgress, MaxDrops} \subseteq Nat

File == Transfer \X Name
DirOf(f) == Dir[f[2]]

VARIABLES
    slot,              \* the server's session
    upload,            \* per file: where its upload is; "lost": its handler never
                       \* came to report it
    progress,
    folders,           \* that exist
    saved,             \* files published and there
    events,            \* from the server to the helper's event task
    files, directories, \* ReceivedFiles: per transfer, what it has put on disk
    discard_requests,
    marked,            \* loop: it has marked this transfer, and is to cancel it
    cleaning,          \* the clean-up, on a thread that the event task waits for
    named, asked,      \* history: told to the panel, and cancelled by the user
    ender,             \* history: who ended each transfer
    ended              \* history: how each transfer ended, as the panel was told

disk == <<folders, saved>>
notes == <<files, directories>>
vars == <<slot, upload, progress, disk, events, notes, discard_requests, marked,
          cleaning, named, asked, ender, ended>>

Idle == [for |-> NoTransfer, files |-> {}, dirs |-> {}]
InFolder(d) == {f \in saved : DirOf(f) = d}

Phase == {"new", "reserved", "part", "linking", "linked", "saved", "adrift",
          "lost", "gone"}
\* The handler holds the lock.
Publishing == {"linking", "linked"}
Unlocked == \A f \in File : upload[f] \notin Publishing

\* The types; a handler that publishes holds the lock, so its session is the current one.
TypeOK ==
    /\ slot \in Transfer \cup {NoTransfer}
    /\ upload \in [File -> Phase]
    /\ \A f \in saved : upload[f] \in {"linked", "saved", "lost"} /\ DirOf(f) \in folders
    /\ \A f \in File : upload[f] \in Publishing => slot = f[1]
    /\ ender \in [Transfer -> {"nobody", "user", "sender", "server"}]
    /\ \A t \in Transfer : files[t] \subseteq {f \in File : f[1] = t /\ upload[f] = "saved"}
    /\ \A t \in Transfer : directories[t] \subseteq Folder
    /\ marked \in Transfer \cup {NoTransfer}
    /\ discard_requests \subseteq asked

Init ==
    /\ slot = NoTransfer
    /\ upload = [f \in File |-> "new"] /\ progress = 0
    /\ folders = Before /\ saved = {}
    /\ events = <<>>
    /\ files = [t \in Transfer |-> {}] /\ directories = [t \in Transfer |-> {}]
    /\ discard_requests = {} /\ marked = NoTransfer
    /\ cleaning = Idle /\ named = {} /\ asked = {}
    /\ ender = [t \in Transfer |-> "nobody"] /\ ended = [t \in Transfer |-> "no"]

-----------------------------------------------------------------------------
(* The server *)

Sends(kind, t, f) == events' = Append(events, [kind |-> kind, t |-> t, file |-> f])
consumer == <<notes, discard_requests, marked, cleaning, named, asked, ended>>

NoFile == <<>>
Began(t) == slot = t \/ \E f \in File : f[1] = t /\ upload[f] # "new"

Accepted(t) ==
    /\ Unlocked /\ slot = NoTransfer /\ ~Began(t) /\ ender[t] = "nobody"
    /\ slot' = t
    /\ UNCHANGED <<upload, progress, disk, events, ender, consumer>>

Goto(f, phase) == upload' = [upload EXCEPT ![f] = phase]

\* An upload is let in under the lock, then makes its folders without it, and its partial
\* file in the save directory itself.
Reserve(f) ==
    /\ Unlocked /\ slot = f[1] /\ upload[f] = "new" /\ Goto(f, "reserved")
    /\ UNCHANGED <<slot, progress, disk, events, ender, consumer>>

MakeDirs(f) ==
    /\ upload[f] = "reserved" /\ Goto(f, "part")
    /\ folders' = folders \cup {DirOf(f)}
    /\ UNCHANGED <<slot, progress, saved, events, ender, consumer>>

\* The session ends, if it is still the current one.
End(t, kind, who) ==
    IF slot = t
      THEN slot' = NoTransfer /\ ender' = [ender EXCEPT ![t] = who] /\ Sends(kind, t, NoFile)
      ELSE UNCHANGED <<slot, ender, events>>

Progress(f) ==
    /\ slot = f[1] /\ upload[f] = "part" /\ progress < MaxProgress
    /\ progress' = progress + 1
    /\ Sends("progress", f[1], f)
    /\ UNCHANGED <<slot, upload, disk, ender, consumer>>

\* The writer finds at its next chunk that the session is gone.
DropPart(f) ==
    /\ slot # f[1] /\ upload[f] = "part"
    /\ Goto(f, "gone")
    /\ UNCHANGED <<slot, progress, disk, events, ender, consumer>>

\* Mutant: the session is not looked at again.
LateRevalidate(f) ==
    /\ Unlocked /\ upload[f] = "part" /\ Goto(f, "linking")
    /\ UNCHANGED <<slot, progress, disk, events, ender, consumer>>

\* The body is there: the handler takes the lock, and goes on if its session is current.
Revalidate(f) ==
    /\ Unlocked /\ slot = f[1] /\ upload[f] = "part" /\ Goto(f, "linking")
    /\ UNCHANGED <<slot, progress, disk, events, ender, consumer>>

\* commit_temp_file: the folders are made again if need be, and the file is linked.
LinkFile(f) ==
    /\ upload[f] = "linking" /\ Goto(f, "linked")
    /\ saved' = saved \cup {f} /\ folders' = folders \cup {DirOf(f)}
    /\ UNCHANGED <<slot, progress, events, ender, consumer>>

\* It could not be: the disk, or a clean-up that took the folder away meanwhile.
LinkFails(f) ==
    /\ upload[f] = "linking" /\ Goto(f, "gone") /\ End(f[1], "failed", "server")
    /\ UNCHANGED <<progress, disk, consumer>>

\* The partial file could not be unlinked: the session fails, the file stays.
UnlinkFails(f) ==
    /\ upload[f] = "linked" /\ Goto(f, "lost") /\ End(f[1], "failed", "server")
    /\ UNCHANGED <<progress, disk, consumer>>

\* The file is recorded and reported; with the last the session ends.
RecordFile(f) ==
    /\ upload[f] = "linked" /\ Goto(f, "saved")
    /\ LET got == [kind |-> "file", t |-> f[1], file |-> f]
           done == [kind |-> "completed", t |-> f[1], file |-> NoFile]
           all == \A n \in Name : n # f[2] => upload[<<f[1], n>>] = "saved"
       IN  IF all
             THEN /\ events' = events \o <<got, done>> /\ slot' = NoTransfer
                  /\ ender' = [ender EXCEPT ![f[1]] = "server"]
             ELSE events' = Append(events, got) /\ UNCHANGED <<slot, ender>>
    /\ UNCHANGED <<progress, disk, consumer>>

\* The sender closes its connection, and the handler is dropped at the await: the lock
\* is let go, the session goes on, and a link that was begun is made all the same.
DropUpload(f) ==
    /\ Cardinality({g \in File : upload[g] \in {"adrift", "lost"}}) < MaxDrops
    /\ \/ upload[f] = "linking" /\ Goto(f, "adrift")
       \/ upload[f] = "linked" /\ Goto(f, "lost")
    /\ UNCHANGED <<slot, progress, disk, events, ender, consumer>>

LinkAdrift(f) ==
    /\ upload[f] = "adrift"
    /\ \/ /\ Goto(f, "lost")
          /\ saved' = saved \cup {f} /\ folders' = folders \cup {DirOf(f)}
       \/ Goto(f, "gone") /\ UNCHANGED disk
    /\ UNCHANGED <<slot, progress, events, ender, consumer>>

\* The sender cancels.
SenderCancels(t) ==
    /\ Unlocked /\ slot = t /\ End(t, "cancelled", "sender")
    /\ UNCHANGED <<upload, progress, disk, consumer>>

\* An upload fails, or the session is swept.
SessionFails(t) ==
    /\ Unlocked /\ slot = t /\ End(t, "failed", "server")
    /\ UNCHANGED <<upload, progress, disk, consumer>>

-----------------------------------------------------------------------------
(* The command loop: CancelIncoming *)

\* The panel knows a session by an event of it.
CancelIncoming(t) ==
    /\ marked = NoTransfer /\ t \in named \ asked
    /\ asked' = asked \cup {t}
    /\ discard_requests' = discard_requests \cup {t}
    /\ marked' = t
    /\ UNCHANGED <<slot, upload, progress, disk, events, notes, cleaning, named, ender, ended>>

\* Server::cancel_session; the mark goes if there was no such session.
CancelSession ==
    /\ Unlocked /\ marked # NoTransfer /\ marked' = NoTransfer
    /\ End(marked, "cancelled", "user")
    /\ discard_requests' = IF slot = marked THEN discard_requests
                           ELSE discard_requests \ {marked}
    /\ UNCHANGED <<upload, progress, disk, notes, cleaning, named, asked, ended>>

-----------------------------------------------------------------------------
(* The event task *)

FolderOf(file) == IF file = NoFile THEN {} ELSE {DirOf(file)}

\* note_upload and note_saved.
Note(e) ==
    /\ files' = IF e.kind = "file" THEN [files EXCEPT ![e.t] = @ \cup {e.file}] ELSE files
    /\ directories' = [directories EXCEPT ![e.t] = @ \cup FolderOf(e.file)]

\* ReceivedFiles::finish.
Finish(t) ==
    /\ files' = [files EXCEPT ![t] = {}]
    /\ directories' = [directories EXCEPT ![t] = {}]

ReadNote ==
    /\ cleaning = Idle /\ events # <<>> /\ events' = Tail(events)
    /\ Head(events).kind \in {"progress", "file"}
    /\ Note(Head(events))
    /\ named' = named \cup {Head(events).t}
    /\ UNCHANGED <<slot, upload, progress, disk, discard_requests, marked, cleaning, asked,
                   ender, ended>>

ReadEnd ==
    /\ cleaning = Idle /\ events # <<>> /\ events' = Tail(events)
    /\ Head(events).kind \in {"completed", "failed"}
    /\ Finish(Head(events).t)
    /\ ended' = [ended EXCEPT ![Head(events).t] = Head(events).kind]
    /\ UNCHANGED <<slot, upload, progress, disk, discard_requests, marked, cleaning, named,
                   asked, ender>>

CarelessReadCancelled ==
    /\ cleaning = Idle /\ events # <<>> /\ events' = Tail(events)
    /\ Head(events).kind = "cancelled"
    /\ LET t == Head(events).t IN
       /\ Finish(t)
       /\ cleaning' = [for |-> t, files |-> files[t], dirs |-> directories[t]]
       /\ UNCHANGED <<ended, discard_requests>>
    /\ UNCHANGED <<slot, upload, progress, disk, marked, named, asked, ender>>

\* The files of a cancelled receive go if the user asked for it.
ReadCancelled ==
    /\ cleaning = Idle /\ events # <<>> /\ events' = Tail(events)
    /\ Head(events).kind = "cancelled"
    /\ LET t == Head(events).t IN
       /\ Finish(t)
       /\ discard_requests' = discard_requests \ {t}
       /\ IF t \in discard_requests
            THEN /\ cleaning' = [for |-> t, files |-> files[t], dirs |-> directories[t]]
                 /\ UNCHANGED ended
            ELSE ended' = [ended EXCEPT ![t] = "cancelled"] /\ UNCHANGED cleaning
    /\ UNCHANGED <<slot, upload, progress, disk, marked, named, asked, ender>>

\* received::discard, one file and then one folder at a time.
RemoveFile ==
    /\ \E f \in cleaning.files :
          /\ saved' = saved \ {f}
          /\ cleaning' = [cleaning EXCEPT !.files = @ \ {f}]
    /\ UNCHANGED <<slot, upload, progress, folders, events, notes, discard_requests, marked,
                   named, asked, ender, ended>>

RemoveDir ==
    /\ cleaning.files = {}
    /\ \E d \in cleaning.dirs :
          /\ folders' = IF InFolder(d) = {} THEN folders \ {d} ELSE folders
          /\ cleaning' = [cleaning EXCEPT !.dirs = @ \ {d}]
    /\ UNCHANGED <<slot, upload, progress, saved, events, notes, discard_requests, marked,
                   named, asked, ender, ended>>

Cleaned ==
    /\ cleaning # Idle /\ cleaning.files = {} /\ cleaning.dirs = {}
    /\ ended' = [ended EXCEPT ![cleaning.for] = "discarded"]
    /\ cleaning' = Idle
    /\ UNCHANGED <<slot, upload, progress, disk, events, notes, discard_requests, marked, named,
                   asked, ender>>

Server ==
    \/ \E t \in Transfer : Accepted(t) \/ SenderCancels(t) \/ SessionFails(t)
    \/ \E f \in File :
          \/ Reserve(f) \/ MakeDirs(f) \/ Progress(f) \/ DropPart(f)
          \/ Revalidate(f) \/ LinkFile(f) \/ LinkFails(f) \/ UnlinkFails(f) \/ RecordFile(f)
          \/ DropUpload(f) \/ LinkAdrift(f)

EventTask == ReadNote \/ ReadEnd \/ ReadCancelled \/ RemoveFile \/ RemoveDir \/ Cleaned

Next == Server \/ EventTask \/ CancelSession \/ \E t \in Transfer : CancelIncoming(t)

Spec == Init /\ [][Next]_vars

\* The loop finishes the command it is at; the event task reads its events.
FairSpec == Spec /\ WF_vars(CancelSession) /\ WF_vars(EventTask)

-----------------------------------------------------------------------------
(* Properties *)

\* docs/USAGE.md:47-49: "everything that transfer saved is deleted": once the panel is
\* told that the transfer the user cancelled ended, none of its files is left, nor will
\* one be saved.
FilesGone ==
    \A f \in File : ended[f[1]] = "discarded" => f \notin saved

\* What is left of it (handlers.rs:653, main.rs:1387-1399): of a transfer the user
\* cancelled no file stays, nor will one be saved, but one whose handler was dropped
\* while it was being linked, which nobody was told of.
ReportedFilesGone ==
    \A f \in File : ended[f[1]] = "discarded" /\ f \in saved => upload[f] = "lost"

\* docs/USAGE.md:52: "If the sender cancels or the connection drops, finished files
\* stay": a file goes only if the user's cancel is what ended its transfer.
FinishedFilesStay ==
    [][\A f \in saved \ saved' : ender[f[1]] = "user"]_vars

\* What is left of it (main.rs:1387-1399, 1484): a file goes only if its transfer was
\* cancelled, and the user had asked for that before its end was told, even though the
\* sender's cancel may have come first; those of a completed or failed one stay.
DiscardStep == \A f \in saved \ saved' : f[1] \in asked /\ ender[f[1]] \in {"user", "sender"}
OnlyCancelledGo == [][DiscardStep]_vars

\* main.rs:1389, 1484: the mark does not outlive the transfer.
NoStaleMark == \A t \in Transfer : ended[t] # "no" /\ marked # t => t \notin discard_requests

\* docs/USAGE.md:47-50: "leaves the folder as it was: everything that transfer saved is
\* deleted, including files that had already arrived and folders it created".
LeavesNoFolder ==
    \A t \in Transfer :
        LET over == \A n \in Name : upload[<<t, n>>] \in {"new", "gone", "saved", "lost"} IN
        ended[t] = "discarded" /\ over
            => \A n \in Name :
                  upload[<<t, n>>] # "new" /\ Dir[n] \in folders \ Before
                     => \E f \in File : f[1] # t /\ DirOf(f) = Dir[n] /\ upload[f] # "new"

\* docs/USAGE.md:50-51: "while anything that was already there stays".
WhatWasThereStays == Before \subseteq folders

=============================================================================
