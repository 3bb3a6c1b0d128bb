----------------------------- MODULE Lifecycle -----------------------------
(***************************************************************************)
(* The life of the helper process: the shell service that starts it, stops *)
(* it and starts it again (src/Service.qml), the steps of the helper from  *)
(* its start to its end (main, src/backend/src/main.rs), and the entry of  *)
(* shell.json that both the receiver switch and the folder are kept in.    *)
(*                                                                         *)
(* The service never holds that entry: it asks the shell to write it, and  *)
(* sees it when the file has been read again.  So there are two copies,    *)
(* `file` and `entry`, and every write is made from the older one.         *)
(***************************************************************************)
EXTENDS Naturals, Sequences

CONSTANTS
  Folders,   \* the folders files may be received in
  Stick,     \* the one that cannot be created while `cause` is "folder"
  Causes,    \* what may keep a helper from serving, of those below
  Prompt,    \* a helper told to stop ends within the 250 ms it is given
  Calm,      \* the user waits until what was written has been read again
  MaxActs,   \* bound on what the user does
  MaxEnv     \* bound on crashes and changes of cause

ASSUME FoldersAssumption == Stick \in Folders /\ \E d \in Folders : d # Stick
ASSUME CausesAssumption ==
  Causes \subseteq {"none", "missing", "old", "security", "folder", "port"}

VARIABLES
  file,      \* the entry in shell.json: the switch and the folder
  entry,     \* the entry as the service last read it
  proc,      \* the process: where it is, its folder, told to stop or not
  pipe,      \* what it printed, and its exit, not yet handled
  svc,       \* the state of the service that concerns the helper
  parts,     \* the folders that hold a partial file
  cause,     \* what keeps a helper from serving now
  tries,     \* starts since the user asked for one, or since one was ready
  untried,   \* a folder was chosen and no helper started with it yet
  stopped,   \* the folder of the helper serving when it was turned off
  chosen,    \* the folder the user chose last
  acts, env

vars == <<file, entry, proc, pipe, svc, parts, cause, tries, untried,
          stopped, chosen, acts, env>>
ghosts == <<tries, untried, stopped, chosen>>

Live == {"starting", "boot", "serving", "closing", "cleaned"}
Running == proc.at # "none"        \* Process.running, until the exit is told
Idle(d) == [at |-> "none", dir |-> d, told |-> FALSE]
Launch(d) == [at |-> "starting", dir |-> d, told |-> FALSE]

Told(p) == [p EXCEPT !.told = TRUE]          \* a shutdown written to stdin
HelperUpdateOffered == svc.mismatch \/ svc.missing
Failed == {"port", "couldnt", "security", "unavailable", "outofdate"}

Init ==
  /\ file \in [on : BOOLEAN, dir : Folders]
  /\ entry = [on |-> FALSE, dir |-> CHOOSE d \in Folders : d # Stick]
  /\ proc = Idle(Stick) /\ pipe = <<>> /\ parts = {}
  /\ svc = [shutdown |-> FALSE, mismatch |-> FALSE, missing |-> FALSE,
            accepted |-> FALSE, ready |-> FALSE, code |-> "", attempts |-> 0,
            timer |-> FALSE, fallback |-> FALSE, restart |-> FALSE,
            status |-> "starting"]
  /\ cause \in Causes
  /\ tries = 0 /\ untried = FALSE /\ stopped = {} /\ chosen = file.dir
  /\ acts = 0 /\ env = 0

-----------------------------------------------------------------------------
(* The entry of shell.json.                                                *)

\* persistSettings: what was read last, with the change, replaces the entry.
Persist(change) == file' = change
WriteOn(b) == Persist([entry EXCEPT !.on = b])
WriteDir(d) == Persist([entry EXCEPT !.dir = d])

\* restartBackend, on a process p: the service and the process after it.
RestartService(p, on) ==
  IF svc.shutdown THEN svc
  ELSE IF p.at # "none" THEN [svc EXCEPT !.restart = TRUE]
  ELSE IF ~on \/ svc.mismatch \/ svc.missing THEN svc
  ELSE [svc EXCEPT !.attempts = 0, !.timer = TRUE, !.status = "starting"]
RestartProcess(p) == IF svc.shutdown \/ p.at = "none" THEN p ELSE Told(p)

\* The binding of Process.running, when the switch it reads has changed: a
\* process is started unless there is one, or sent SIGTERM.
Rebound(d) ==
  IF file.on THEN IF Running THEN proc ELSE Launch(d)
  ELSE IF proc.at \in Live THEN [proc EXCEPT !.at = "gone"] ELSE proc

\* The file is read again.  When the switch was turned on and the folder
\* changed at once, the order of the two is not known: the process may have
\* the old folder and be restarted, or have the new one from the start.
Reload ==
  /\ file # entry
  /\ entry' = file
  /\ \E first \in BOOLEAN :
       LET turned == file.on # entry.on
           moved  == file.dir # entry.dir
           again  == moved /\ (first \/ ~turned \/ ~file.on)
           p == IF turned THEN Rebound(IF again THEN entry.dir ELSE file.dir) ELSE proc
       IN /\ proc' = IF again THEN RestartProcess(p) ELSE p
          /\ svc' = IF again THEN RestartService(p, file.on) ELSE svc
          /\ pipe' = IF p.at = "gone" /\ proc.at \in Live
                     THEN Append(pipe, "exit") ELSE pipe
          /\ tries' = IF p.at = "starting" /\ ~Running THEN tries + 1
                      ELSE IF again THEN 0 ELSE tries
          /\ untried' = (/\ untried \/ again
                         /\ file.on /\ ~svc.shutdown)
  /\ UNCHANGED <<file, parts, cause, stopped, chosen, acts, env>>

-----------------------------------------------------------------------------
(* The user.                                                               *)

UserActs ==
  /\ acts < MaxActs
  /\ acts' = acts + 1
  /\ Calm => file = entry

\* toggleReceiver.
Toggle ==
  /\ UserActs /\ ~svc.shutdown
  /\ tries' = 0 /\ untried' = FALSE
  /\ \/ /\ ~entry.on
        /\ WriteOn(TRUE)
        /\ svc' = [svc EXCEPT !.timer = FALSE, !.attempts = 0, !.status = "starting"]
        /\ UNCHANGED <<proc, stopped>>
     \/ /\ entry.on
        /\ svc' = [svc EXCEPT !.timer = FALSE, !.shutdown = TRUE, !.fallback = TRUE]
        /\ proc' = IF Running THEN Told(proc) ELSE proc
        /\ stopped' = IF proc.at = "serving" /\ svc.ready THEN {proc.dir} ELSE {}
        /\ UNCHANGED file
  /\ UNCHANGED <<entry, pipe, parts, cause, chosen, env>>

\* setDownloadDir and useDownloads.
ChooseFolder(d) ==
  /\ UserActs
  /\ d # entry.dir
  /\ Calm => ~svc.shutdown
  /\ WriteDir(d) /\ chosen' = d
  /\ UNCHANGED <<entry, proc, pipe, svc, parts, cause, tries, untried, stopped, env>>

\* finishHelperUpdate, of a repair that installed the wanted helper.
UpdateHelper ==
  /\ UserActs
  /\ cause' = IF cause \in {"old", "missing"} /\ "none" \in Causes THEN "none" ELSE cause
  /\ svc' = [svc EXCEPT !.missing = FALSE, !.mismatch = FALSE, !.code = "",
                        !.timer = FALSE, !.attempts = 0, !.status = "starting"]
  /\ IF entry.on /\ ~Running
       THEN proc' = Launch(entry.dir) /\ tries' = 1 /\ untried' = FALSE
       ELSE tries' = 0 /\ UNCHANGED <<proc, untried>>
  /\ UNCHANGED <<file, entry, pipe, parts, stopped, chosen, env>>

-----------------------------------------------------------------------------
(* The service.                                                            *)

Launched(s) == [s EXCEPT !.accepted = FALSE, !.mismatch = FALSE, !.missing = FALSE,
                         !.code = ""]

\* onStarted; or, for a command that is not there, onRunningChanged.
Started ==
  /\ proc.at = "starting"
  /\ IF cause = "missing"
       THEN /\ proc' = [proc EXCEPT !.at = "none"]
            /\ svc' = IF entry.on THEN [svc EXCEPT !.ready = FALSE, !.missing = TRUE,
                                                   !.status = "unavailable"]
                      ELSE svc
       ELSE proc' = [proc EXCEPT !.at = "boot"] /\ svc' = Launched(svc)
  /\ untried' = (untried /\ proc.dir # entry.dir)
  /\ stopped' = {}
  /\ UNCHANGED <<file, entry, pipe, parts, cause, tries, chosen, acts, env>>

\* finishReceiverShutdown.
FinishShutdown(s) ==
  /\ WriteOn(FALSE)
  /\ svc' = [s EXCEPT !.fallback = FALSE, !.shutdown = FALSE, !.ready = FALSE,
                      !.status = "off"]

\* receiverShutdownFallback, 250 ms after the helper was asked to stop.
ShutdownFallback ==
  /\ svc.fallback
  /\ Prompt => proc.at \in {"none", "starting", "boot"}
  /\ FinishShutdown(svc)
  /\ UNCHANGED <<entry, proc, pipe, parts, cause, tries, untried, stopped, chosen,
                 acts, env>>

\* Mutant: the timer does not put the binding back.
RestartTimerForgets ==
  /\ svc.timer
  /\ svc' = [svc EXCEPT !.timer = FALSE]
  /\ UNCHANGED <<file, entry, proc, pipe, parts, cause, tries, untried, stopped,
                 chosen, acts, env>>

\* backendRestart.
RestartTimer ==
  /\ svc.timer
  /\ svc' = [svc EXCEPT !.timer = FALSE]
  /\ IF entry.on /\ ~Running
       THEN proc' = Launch(entry.dir) /\ tries' = tries + 1
       ELSE UNCHANGED <<proc, tries>>
  /\ UNCHANGED <<file, entry, pipe, parts, cause, untried, stopped, chosen, acts, env>>

\* The events handleEvent takes before and at "ready".
HandleEvent ==
  /\ pipe # <<>> /\ Head(pipe) # "exit"
  /\ pipe' = Tail(pipe)
  /\ \/ /\ Head(pipe) \in {"security", "port"}
        /\ svc' = IF svc.mismatch THEN svc ELSE [svc EXCEPT !.code = Head(pipe)]
        /\ UNCHANGED <<proc, tries>>
     \/ /\ Head(pipe) = "old"
        /\ svc' = [svc EXCEPT !.missing = FALSE, !.ready = FALSE, !.mismatch = TRUE,
                              !.status = "outofdate"]
        /\ proc' = Told(proc)
        /\ UNCHANGED tries
     \/ /\ Head(pipe) = "ready"
        /\ svc' = [svc EXCEPT !.missing = FALSE, !.accepted = TRUE, !.ready = TRUE,
                              !.mismatch = FALSE, !.attempts = 0, !.status = "ready"]
        /\ tries' = 0
        /\ UNCHANGED proc
  /\ UNCHANGED <<file, entry, parts, cause, untried, stopped, chosen, acts, env>>

\* What handleBackendExit says of an exit nobody asked for.
ExitStatus ==
  IF svc.accepted THEN IF svc.restart THEN "restarting" ELSE "stopped"
  ELSE IF svc.code = "security" THEN "security"
  ELSE IF svc.attempts < 4 THEN "retrying"
  ELSE IF svc.code = "port" THEN "port" ELSE "couldnt"

\* Mutants: one retry too many; a refusal retried.
MayRetryOneMore == svc.code # "security" /\ svc.attempts <= 4
MayRetryRefused == svc.attempts < 4

MayRetry == svc.code # "security" /\ svc.attempts < 4

\* handleBackendExit.
HandleExit ==
  /\ pipe # <<>> /\ Head(pipe) = "exit"
  /\ pipe' = Tail(pipe)
  /\ proc' = [proc EXCEPT !.at = "none", !.told = FALSE]
  /\ LET s == [svc EXCEPT !.restart = FALSE, !.ready = FALSE]
     IN \/ svc.shutdown /\ FinishShutdown(s)
        \/ /\ ~svc.shutdown
           /\ svc' = IF ~entry.on THEN [s EXCEPT !.status = "off"]
                     ELSE IF svc.mismatch THEN s
                     ELSE IF MayRetry
                     THEN [s EXCEPT !.status = ExitStatus, !.timer = TRUE,
                                    !.attempts = @ + 1]
                     ELSE [s EXCEPT !.status = ExitStatus]
           /\ UNCHANGED file
  /\ UNCHANGED <<entry, parts, cause, tries, untried, stopped, chosen, acts, env>>

-----------------------------------------------------------------------------
(* The helper.                                                             *)

Exits == proc' = [proc EXCEPT !.at = "gone"]

\* main, up to its loop: the first thing that fails ends it.
Boot ==
  /\ proc.at = "boot"
  /\ CASE cause \in {"security", "port"} ->
            Exits /\ pipe' = pipe \o <<cause, "exit">>
       [] cause = "folder" /\ proc.dir = Stick ->
            Exits /\ pipe' = Append(pipe, "exit")
       [] OTHER ->
            /\ proc' = [proc EXCEPT !.at = "serving"]
            /\ pipe' = Append(pipe, IF cause = "old" THEN "old" ELSE "ready")
  /\ UNCHANGED <<file, entry, svc, parts, cause, ghosts, acts, env>>

\* A file is received: its partial file appears, and goes.  The tasks of the
\* connections outlive the loop, until the process ends.
Receive ==
  /\ proc.at \in (IF Prompt THEN {"serving"} ELSE {"serving", "closing", "cleaned"})
  /\ \/ parts' = parts \union {proc.dir}
     \/ parts' = parts \ {proc.dir}
  /\ parts' # parts
  /\ UNCHANGED <<file, entry, proc, pipe, svc, cause, ghosts, acts, env>>

\* The command shutdown ends the loop.
ReadShutdown ==
  /\ proc.at = "serving" /\ proc.told
  /\ proc' = [proc EXCEPT !.at = "closing"]
  /\ UNCHANGED <<file, entry, pipe, svc, parts, cause, ghosts, acts, env>>

\* cleanup_stale_partial_files(.., ZERO), the last thing main does.
CleanUp ==
  /\ proc.at = "closing"
  /\ proc' = [proc EXCEPT !.at = "cleaned"]
  /\ parts' = parts \ {proc.dir}
  /\ UNCHANGED <<file, entry, pipe, svc, cause, ghosts, acts, env>>

Exit ==
  /\ proc.at = "cleaned"
  /\ Exits /\ pipe' = Append(pipe, "exit")
  /\ UNCHANGED <<file, entry, svc, parts, cause, ghosts, acts, env>>

\* The helper crashes.
Crash ==
  /\ env < MaxEnv /\ env' = env + 1
  /\ proc.at \in {"serving", "closing"}
  /\ Exits /\ pipe' = Append(pipe, "exit")
  /\ stopped' = {}
  /\ UNCHANGED <<file, entry, svc, parts, cause, tries, untried, chosen, acts>>

\* What keeps a helper from serving appears or goes.
ChangeCause ==
  /\ env < MaxEnv /\ env' = env + 1
  /\ cause' \in Causes \ {cause}
  /\ UNCHANGED <<file, entry, proc, pipe, svc, parts, ghosts, acts>>

User == Toggle \/ UpdateHelper \/ \E d \in Folders : ChooseFolder(d)
Service == Reload \/ Started \/ ShutdownFallback \/ RestartTimer \/ HandleEvent \/ HandleExit
Helper == Boot \/ ReadShutdown \/ CleanUp \/ Exit

Next == User \/ Service \/ Helper \/ Receive \/ Crash \/ ChangeCause

Spec == Init /\ [][Next]_vars

\* Files are watched, timers fire, processes run and their output is read.
Fairness ==
  /\ WF_vars(Reload) /\ WF_vars(Started) /\ WF_vars(ShutdownFallback)
  /\ WF_vars(RestartTimer) /\ WF_vars(HandleEvent) /\ WF_vars(HandleExit)
  /\ WF_vars(Helper)
FairSpec == Spec /\ Fairness

-----------------------------------------------------------------------------
(* Properties.                                                             *)

TypeOK ==
  /\ file \in [on : BOOLEAN, dir : Folders] /\ entry \in [on : BOOLEAN, dir : Folders]
  /\ proc \in [at : Live \union {"none", "gone"}, dir : Folders, told : BOOLEAN]
  /\ pipe \in Seq({"security", "port", "old", "ready", "exit"})
  /\ svc \in [shutdown : BOOLEAN, mismatch : BOOLEAN, missing : BOOLEAN,
              accepted : BOOLEAN, ready : BOOLEAN, code : {"", "security", "port"},
              attempts : Nat, timer : BOOLEAN, fallback : BOOLEAN, restart : BOOLEAN,
              status : Failed \union {"starting", "ready", "retrying", "restarting",
                                      "stopped", "off"}]
  /\ parts \subseteq Folders /\ stopped \subseteq Folders /\ chosen \in Folders
  /\ cause \in Causes /\ tries \in Nat /\ untried \in BOOLEAN

\* Start-up retries are bounded: between two things the user asked for, or
\* since a helper was last ready, at most five starts are made, whatever exits,
\* timers and readings of shell.json came between; a folder chosen, a toggle and
\* a repair are things the user asked for, and begin the count anew
\* (handleBackendExit, src/docs/TROUBLESHOOTING.md:54).
StartsBounded == tries <= 5

\* The panel says the receiver is ready only of a helper of a version it can
\* use that said so itself and whose end it has not been told of.
ReadyIsReal ==
  svc.ready => Running /\ svc.accepted /\ ~svc.mismatch /\ proc.at \notin {"starting", "boot"}

\* A helper that refused to serve because its security settings are invalid is
\* not started again until the user asks for it.
RefusalStands ==
  [][(~Running /\ Running' /\ svc.code = "security") => (tries = 0 \/ tries' = 1)]_vars

\* After the user and the world have come to rest, so does the service: off
\* with no process; on with a helper serving the folder of the entry, and said
\* to be ready; or on without one, with no start to come and either the cause
\* told or the repair of the helper offered.
Settled ==
  /\ file = entry /\ ~svc.shutdown
  /\ \/ ~entry.on /\ ~Running
     \/ entry.on /\ proc.at = "serving" /\ svc.ready /\ proc.dir = entry.dir
     \/ entry.on /\ ~Running /\ ~svc.timer /\ (svc.status \in Failed \/ HelperUpdateOffered)
Settles == <>[]Settled

\* The folder the user chose last is the one in the entry.
ChoiceIsStored == file.dir = chosen

\* Turning Nearby off removes the partial files of the helper that served.
OffRemovesPartials == (~entry.on /\ ~Running) => stopped \cap parts = {}

\* A folder chosen while the receiver is on is tried: a helper is started with
\* it, unless the user turns the receiver off or the helper itself is at fault.
NewFolderIsTried == []<>(~untried \/ HelperUpdateOffered)
=============================================================================
