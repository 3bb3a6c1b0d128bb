-------------------------- MODULE Lifecycle_proofs --------------------------
(***************************************************************************)
(* Proofs about Lifecycle, for any folders, causes and bounds.             *)
(***************************************************************************)
EXTENDS Lifecycle, TLAPS

Line == {"security", "port", "old", "ready", "exit"}
Process == [at : Live \union {"none", "gone"}, dir : Folders, told : BOOLEAN]
Status == Failed \union {"starting", "ready", "retrying", "restarting", "stopped", "off"}
ServiceState ==
  [shutdown : BOOLEAN, mismatch : BOOLEAN, missing : BOOLEAN, accepted : BOOLEAN,
   ready : BOOLEAN, code : {"", "security", "port"}, attempts : Nat, timer : BOOLEAN,
   fallback : BOOLEAN, restart : BOOLEAN, status : Status]

Types ==
  /\ file \in [on : BOOLEAN, dir : Folders] /\ entry \in [on : BOOLEAN, dir : Folders]
  /\ proc \in Process /\ pipe \in Seq(Line) /\ svc \in ServiceState
  /\ parts \subseteq Folders /\ stopped \subseteq Folders /\ chosen \in Folders
  /\ cause \in Causes /\ tries \in Nat /\ untried \in BOOLEAN

\* What a helper prints, at each point of its life, and has not been read.
PipeInv ==
  /\ proc.at \in {"none", "starting", "boot"} => pipe = <<>>
  /\ proc.at \in {"serving", "closing", "cleaned"} =>
        Len(pipe) <= 1 /\ (Len(pipe) = 1 => pipe[1] \in {"old", "ready"})
  /\ proc.at = "gone" =>
        Len(pipe) \in {1, 2} /\ pipe[Len(pipe)] = "exit" /\ (Len(pipe) = 2 => pipe[1] # "exit")

ReadyInv ==
  svc.ready =>
    /\ svc.accepted /\ ~svc.mismatch
    /\ proc.at \notin {"none", "starting", "boot"}
    /\ Len(pipe) > 0 => Len(pipe) = 1 /\ pipe[1] = "exit"

\* Each start that was not asked for is paid for by an exit that was counted.
StartsInv ==
  /\ svc.attempts <= 4 /\ tries <= svc.attempts + 1
  /\ svc.timer => proc.at = "none" /\ tries <= svc.attempts
  /\ svc.timer /\ svc.code = "security" => tries = 0
  /\ file.on /\ ~entry.on => tries = 0 /\ ~svc.timer

IndInv == Types /\ PipeInv /\ ReadyInv /\ StartsInv

LEMMA TypesAre == Types <=> TypeOK
BY Zenon DEF Types, TypeOK, Process, ServiceState, Status, Line

-----------------------------------------------------------------------------
LEMMA InitInv == Init => IndInv
<1>. SUFFICES ASSUME Init
              PROVE  IndInv
  OBVIOUS
<1>. DEFINE d == CHOOSE d \in Folders : d # Stick
<1>1. d \in Folders
  BY FoldersAssumption
<1>2. /\ entry = [on |-> FALSE, dir |-> d] /\ pipe = <<>> /\ tries = 0 /\ untried = FALSE
      /\ parts = {} /\ stopped = {} /\ file \in [on : BOOLEAN, dir : Folders]
      /\ cause \in Causes /\ chosen = file.dir
  BY DEF Init
<1>. HIDE DEF d
<1>3. svc \in ServiceState /\ svc.attempts = 0 /\ ~svc.timer /\ ~svc.ready /\ svc.code = ""
  BY DEF Init, ServiceState, Status
<1>4. proc \in Process /\ proc.at = "none"
  BY FoldersAssumption DEF Init, Idle, Process
<1>. HIDE DEF Init
<1>5. Types
  <2>1. entry \in [on : BOOLEAN, dir : Folders] /\ chosen \in Folders
    BY <1>1, <1>2
  <2>2. pipe \in Seq(Line)
    BY <1>2
  <2>3. tries \in Nat /\ parts \subseteq Folders /\ stopped \subseteq Folders
    BY <1>2
  <2>4. untried \in BOOLEAN
    BY <1>2
  <2>. QED
    BY <1>2, <1>3, <1>4, <2>1, <2>2, <2>3, <2>4 DEF Types
<1>6. PipeInv /\ ReadyInv
  BY <1>2, <1>3, <1>4 DEF PipeInv, ReadyInv
<1>7. StartsInv
  <2>1. tries = 0 /\ svc.attempts = 0 /\ ~svc.timer
    BY <1>2, <1>3
  <2>. QED
    BY <2>1 DEF StartsInv
<1>. QED
  BY <1>5, <1>6, <1>7 DEF IndInv

-----------------------------------------------------------------------------
(* What the actions do to the service and the process *)

\* The end of a process that was alive is the last thing in the pipe.
LEMMA ExitPrinted ==
  ASSUME pipe \in Seq(Line), PipeInv, ReadyInv, proc.at \in Live,
         pipe' = Append(pipe, "exit"), proc'.at = "gone",
         svc'.ready = svc.ready, svc'.accepted = svc.accepted, svc'.mismatch = svc.mismatch
  PROVE  PipeInv' /\ ReadyInv' /\ pipe' \in Seq(Line)
<1>1. /\ pipe' \in Seq(Line) /\ Len(pipe') = Len(pipe) + 1 /\ pipe'[Len(pipe) + 1] = "exit"
      /\ Len(pipe) \in Nat /\ \A i \in 1..Len(pipe) : pipe'[i] = pipe[i]
  BY DEF Line
<1>2. CASE Len(pipe) = 0
  <2>2. Len(pipe') = 1 /\ pipe'[1] = "exit"
    BY <1>1, <1>2
  <2>. QED
    BY <1>1, <2>2 DEF PipeInv, ReadyInv
<1>3. CASE Len(pipe) = 1 /\ pipe[1] \in {"old", "ready"}
  <2>1. Len(pipe') = 2 /\ pipe'[2] = "exit" /\ pipe'[1] = pipe[1]
    BY <1>1, <1>3
  <2>2. ~svc.ready
    BY <1>3 DEF ReadyInv
  <2>. QED
    BY <1>1, <1>3, <2>1, <2>2 DEF PipeInv, ReadyInv
<1>4. CASE proc.at \in {"starting", "boot"}
  <2>1. pipe = << >>
    BY <1>4 DEF PipeInv
  <2>2. Len(pipe) = 0
    BY <2>1
  <2>. QED
    BY <1>2, <2>2
<1>5. CASE proc.at \in {"serving", "closing", "cleaned"}
  <2>1. Len(pipe) <= 1 /\ (Len(pipe) = 1 => pipe[1] \in {"old", "ready"})
    BY <1>5 DEF PipeInv
  <2>2. Len(pipe) = 0 \/ Len(pipe) = 1
    <3>1. \A n \in Nat : n <= 1 => n = 0 \/ n = 1
      OBVIOUS
    <3>2. Len(pipe) \in Nat
      BY <1>1
    <3>. QED
      BY <2>1, <3>1, <3>2
  <2>. QED
    BY <1>2, <1>3, <2>1, <2>2
<1>. QED
  BY <1>4, <1>5 DEF Live

LEMMA ReloadInv ==
  ASSUME IndInv, Reload
  PROVE  IndInv'
<1>0. /\ file \in [on : BOOLEAN, dir : Folders] /\ entry \in [on : BOOLEAN, dir : Folders]
      /\ proc \in Process /\ pipe \in Seq(Line) /\ svc \in ServiceState
      /\ tries \in Nat /\ PipeInv /\ ReadyInv /\ StartsInv
  BY DEF IndInv, Types
<1>a. PICK first \in BOOLEAN :
       LET turned == file.on # entry.on
           moved  == file.dir # entry.dir
           again  == moved /\ (first \/ ~turned \/ ~file.on)
           p == IF turned THEN Rebound(IF again THEN entry.dir ELSE file.dir) ELSE proc
       IN /\ proc' = IF again THEN RestartProcess(p) ELSE p
          /\ svc' = IF again THEN RestartService(p, file.on) ELSE svc
          /\ pipe' = IF p.at = "gone" /\ proc.at \in Live
                     THEN Append(pipe, "exit") ELSE pipe
          /\ tries' = IF p.at = "starting" /\ ~Running THEN tries + 1
                      ELSE IF again THEN 0 ELSE tries
          /\ untried' = (/\ untried \/ again
                         /\ file.on /\ ~svc.shutdown)
  BY DEF Reload
<1>. DEFINE turned == file.on # entry.on
            moved  == file.dir # entry.dir
            again  == moved /\ (first \/ ~turned \/ ~file.on)
            d == IF again THEN entry.dir ELSE file.dir
            p == IF turned THEN Rebound(d) ELSE proc
<1>1. /\ entry' = file /\ UNCHANGED <<file, parts, cause, stopped, chosen, acts, env>>
      /\ untried' \in BOOLEAN
  BY <1>a DEF Reload, IndInv, Types
<1>2. /\ d \in Folders
      /\ p \in Process
      /\ \/ p = proc
         \/ proc.at = "none" /\ p.at = "starting" /\ file.on /\ ~entry.on
         \/ proc.at \in Live /\ p.at = "gone" /\ ~file.on /\ entry.on
  BY <1>0 DEF Rebound, Running, Launch, Live, Process
<1>3. /\ pipe' = IF p.at = "gone" /\ proc.at \in Live THEN Append(pipe, "exit") ELSE pipe
      /\ proc' = IF again THEN RestartProcess(p) ELSE p
      /\ svc' = IF again THEN RestartService(p, file.on) ELSE svc
      /\ tries' = IF p.at = "starting" /\ proc.at = "none" THEN tries + 1
                  ELSE IF again THEN 0 ELSE tries
  BY <1>a DEF Running
<1>. HIDE DEF p, again
<1>4. /\ proc' \in Process
      /\ proc'.at = p.at
  BY <1>2, <1>3 DEF RestartProcess, Told, Process
<1>5. /\ svc' \in ServiceState
      /\ svc'.ready = svc.ready /\ svc'.accepted = svc.accepted /\ svc'.mismatch = svc.mismatch
      /\ svc'.code = svc.code
      /\ \/ svc'.attempts = svc.attempts /\ svc'.timer = svc.timer
         \/ svc'.attempts = 0 /\ again /\ p.at = "none" /\ file.on
  <2>1. svc \in ServiceState /\ "starting" \in Status
    BY <1>0 DEF Status
  <2>2. \/ svc' = svc \/ svc' = [svc EXCEPT !.restart = TRUE]
        \/ /\ svc' = [svc EXCEPT !.attempts = 0, !.timer = TRUE, !.status = "starting"]
           /\ again /\ p.at = "none" /\ file.on
    BY <1>3 DEF RestartService
  <2>3. CASE svc' = svc
    BY <2>1, <2>3
  <2>4. CASE svc' = [svc EXCEPT !.restart = TRUE]
    BY <2>1, <2>4 DEF ServiceState
  <2>5. CASE /\ svc' = [svc EXCEPT !.attempts = 0, !.timer = TRUE, !.status = "starting"]
             /\ again /\ p.at = "none" /\ file.on
    <3>1. svc' \in ServiceState
      BY <2>1, <2>5 DEF ServiceState
    <3>2. svc'.attempts = 0
      BY <2>1, <2>5 DEF ServiceState
    <3>3. svc'.code = svc.code
      BY <2>1, <2>5 DEF ServiceState
    <3>4. svc'.ready = svc.ready /\ svc'.accepted = svc.accepted /\ svc'.mismatch = svc.mismatch
      BY <2>1, <2>5 DEF ServiceState
    <3>. QED
      BY <2>5, <3>1, <3>2, <3>3, <3>4
  <2>. QED
    BY <2>2, <2>3, <2>4, <2>5
<1>6. \/ pipe' = pipe /\ p.at = proc.at
      \/ pipe' = pipe /\ proc.at = "none" /\ p.at = "starting" /\ file.on /\ ~entry.on
      \/ pipe' = Append(pipe, "exit") /\ proc.at \in Live /\ p.at = "gone"
  BY <1>2, <1>3 DEF Live, Process
<1>7. PipeInv' /\ ReadyInv' /\ pipe' \in Seq(Line)
  <2>1. CASE pipe' = pipe
    <3>1. PipeInv'
      BY <1>0, <1>4, <1>6, <2>1 DEF PipeInv, Live
    <3>2. ReadyInv'
      BY <1>0, <1>4, <1>5, <1>6, <2>1 DEF ReadyInv, Live
    <3>. QED
      BY <1>0, <2>1, <3>1, <3>2
  <2>2. CASE pipe' = Append(pipe, "exit") /\ proc.at \in Live /\ p.at = "gone"
    BY <1>0, <1>4, <1>5, <2>2, ExitPrinted
  <2>. QED
    BY <1>6, <2>1, <2>2
<1>9. StartsInv' /\ tries' \in Nat
  <2>1. tries' \in Nat /\ svc.attempts \in Nat
    <3>1. svc.attempts \in Nat
      BY <1>0 DEF ServiceState
    <3>2. tries' = tries + 1 \/ tries' = 0 \/ tries' = tries
      BY <1>3
    <3>. QED
      BY <1>0, <3>1, <3>2
  <2>2. file'.on = file.on /\ entry'.on = file.on
    BY <1>1
  <2>3. CASE proc.at = "none" /\ p.at = "starting" /\ file.on /\ ~entry.on
    <3>1. tries' = 1
      BY <1>0, <1>3, <2>3 DEF StartsInv
    <3>2. svc'.attempts = svc.attempts /\ ~svc'.timer
      BY <1>0, <1>5, <2>3 DEF StartsInv
    <3>3. svc.attempts <= 4 /\ entry'.on
      BY <1>0, <2>2, <2>3 DEF StartsInv
    <3>. QED
      BY <2>1, <3>1, <3>2, <3>3 DEF StartsInv
  <2>4. CASE p.at \in {proc.at, "gone"} /\ ~(p.at = "starting" /\ proc.at = "none")
    <3>1. tries' \in {tries, 0} /\ (again => tries' = 0)
      BY <1>3, <2>4
    <3>2. svc'.timer /\ ~svc.timer => tries' = 0 /\ proc'.at = "none"
      BY <1>4, <1>5, <3>1
    <3>3. svc.timer => p.at = "none" /\ proc.at = "none"
      BY <1>0, <1>2, <2>4 DEF StartsInv, Live
    <3>. QED
      BY <1>0, <1>4, <1>5, <2>1, <2>2, <3>1, <3>2, <3>3 DEF StartsInv
  <2>. QED
    BY <1>2, <2>3, <2>4
<1>. QED
  BY <1>0, <1>1, <1>4, <1>5, <1>7, <1>9 DEF IndInv, Types

\* What the other actions have at hand.
LEMMA Facts ==
  ASSUME IndInv
  PROVE  /\ file \in [on : BOOLEAN, dir : Folders] /\ entry \in [on : BOOLEAN, dir : Folders]
         /\ proc \in Process /\ pipe \in Seq(Line) /\ svc \in ServiceState
         /\ tries \in Nat /\ svc.attempts \in Nat
         /\ PipeInv /\ ReadyInv /\ StartsInv
<1>1. svc \in ServiceState => svc.attempts \in Nat
  BY DEF ServiceState
<1>. QED
  BY <1>1 DEF IndInv, Types

LEMMA Statuses ==
  {"starting", "ready", "retrying", "restarting", "stopped", "off", "unavailable", "outofdate",
   "security", "port", "couldnt"} \subseteq Status
BY DEF Status, Failed

\* What the user does changes neither what was printed nor what is ready.
LEMMA ToggleInv ==
  ASSUME IndInv, Toggle
  PROVE  IndInv'
<1>1. UNCHANGED <<entry, pipe, parts, cause, chosen>> /\ tries' = 0 /\ untried' = FALSE
  BY DEF Toggle
<1>2. CASE ~entry.on
  <2>1. /\ file' = [entry EXCEPT !.on = TRUE]
        /\ svc' = [svc EXCEPT !.timer = FALSE, !.attempts = 0, !.status = "starting"]
        /\ UNCHANGED <<proc, stopped>>
    BY <1>2 DEF Toggle, WriteOn, Persist
  <2>2. file' \in [on : BOOLEAN, dir : Folders]
    BY <2>1, Facts
  <2>3. svc' \in ServiceState /\ svc'.attempts = 0 /\ ~svc'.timer
    BY <2>1, Facts, Statuses DEF ServiceState
  <2>4. svc'.ready = svc.ready /\ svc'.accepted = svc.accepted /\ svc'.mismatch = svc.mismatch
    BY <2>1, Facts DEF ServiceState
  <2>5. untried' \in BOOLEAN
    BY <1>1
  <2>6. Types'
    BY <1>1, <2>1, <2>2, <2>3, <2>5 DEF IndInv, Types
  <2>7. PipeInv' /\ ReadyInv'
    BY <1>1, <2>1, <2>4, Facts DEF PipeInv, ReadyInv
  <2>8. StartsInv'
    BY <1>1, <2>3 DEF StartsInv
  <2>. QED
    BY <2>6, <2>7, <2>8 DEF IndInv
<1>3. CASE entry.on
  <2>1. /\ svc' = [svc EXCEPT !.timer = FALSE, !.shutdown = TRUE, !.fallback = TRUE]
        /\ proc' = IF Running THEN Told(proc) ELSE proc
        /\ stopped' = IF proc.at = "serving" /\ svc.ready THEN {proc.dir} ELSE {}
        /\ UNCHANGED file
    BY <1>3 DEF Toggle
  <2>2. svc' \in ServiceState /\ svc'.attempts = svc.attempts /\ ~svc'.timer
    BY <2>1, Facts DEF ServiceState
  <2>3. svc'.ready = svc.ready /\ svc'.accepted = svc.accepted /\ svc'.mismatch = svc.mismatch
    BY <2>1, Facts DEF ServiceState
  <2>4. proc' \in Process /\ proc'.at = proc.at
    BY <2>1, Facts DEF Told, Process
  <2>5. untried' \in BOOLEAN /\ stopped' \subseteq Folders
    BY <1>1, <2>1, Facts DEF Process
  <2>6. Types'
    BY <1>1, <2>1, <2>2, <2>4, <2>5 DEF IndInv, Types
  <2>7. PipeInv' /\ ReadyInv'
    BY <1>1, <2>3, <2>4, Facts DEF PipeInv, ReadyInv
  <2>8. StartsInv'
    <3>1. svc.attempts <= 4 /\ svc.attempts \in Nat
      BY Facts DEF StartsInv
    <3>. QED
      BY <1>1, <1>3, <2>2, <3>1 DEF StartsInv
  <2>. QED
    BY <2>6, <2>7, <2>8 DEF IndInv
<1>. QED
  BY <1>2, <1>3

LEMMA ChooseFolderInv ==
  ASSUME IndInv, NEW d \in Folders, ChooseFolder(d)
  PROVE  IndInv'
<1>1. /\ file' = [entry EXCEPT !.dir = d] /\ chosen' = d
      /\ UNCHANGED <<entry, proc, pipe, svc, parts, cause, tries, untried, stopped>>
  BY DEF ChooseFolder, WriteDir, Persist
<1>2. file' \in [on : BOOLEAN, dir : Folders] /\ file'.on = entry.on
  BY <1>1, Facts
<1>3. Types'
  BY <1>1, <1>2 DEF IndInv, Types
<1>4. PipeInv' /\ ReadyInv'
  BY <1>1, Facts DEF PipeInv, ReadyInv
<1>5. StartsInv'
  BY <1>1, <1>2, Facts DEF StartsInv
<1>. QED
  BY <1>3, <1>4, <1>5 DEF IndInv

LEMMA UpdateHelperInv ==
  ASSUME IndInv, UpdateHelper
  PROVE  IndInv'
<1>1. /\ svc' = [svc EXCEPT !.missing = FALSE, !.mismatch = FALSE, !.code = "",
                        !.timer = FALSE, !.attempts = 0, !.status = "starting"]
      /\ UNCHANGED <<file, entry, pipe, parts, stopped, chosen>>
      /\ \/ entry.on /\ ~Running /\ proc' = Launch(entry.dir) /\ tries' = 1 /\ untried' = FALSE
         \/ tries' = 0 /\ UNCHANGED <<proc, untried>>
  BY DEF UpdateHelper
<1>2. cause' \in Causes
  BY DEF UpdateHelper, IndInv, Types
<1>3. svc' \in ServiceState
  BY <1>1, Facts, Statuses DEF ServiceState
<1>4. svc'.attempts = 0 /\ ~svc'.timer
  BY <1>1, Facts DEF ServiceState
<1>5. svc'.ready = svc.ready /\ svc'.accepted = svc.accepted /\ ~svc'.mismatch
  BY <1>1, Facts DEF ServiceState
<1>6. proc' \in Process /\ (proc' = proc \/ (proc.at = "none" /\ proc'.at = "starting"))
  <2>1. CASE UNCHANGED proc
    BY <2>1, Facts
  <2>2. CASE ~Running /\ proc' = Launch(entry.dir)
    BY <2>2, Facts DEF Launch, Running, Process, Live
  <2>. QED
    BY <1>1, <2>1, <2>2
<1>7. tries' \in {0, 1} /\ untried' \in BOOLEAN /\ (tries' = 0 \/ entry.on)
  BY <1>1 DEF IndInv, Types
<1>8. Types'
  BY <1>1, <1>2, <1>3, <1>6, <1>7 DEF IndInv, Types
<1>9. PipeInv' /\ ReadyInv'
  BY <1>1, <1>5, <1>6, Facts DEF PipeInv, ReadyInv
<1>10. StartsInv'
  BY <1>1, <1>4, <1>7 DEF StartsInv
<1>. QED
  BY <1>8, <1>9, <1>10 DEF IndInv

-----------------------------------------------------------------------------
(* The service *)

LEMMA Tailed ==
  ASSUME NEW q \in Seq(Line), q # << >>
  PROVE  /\ Tail(q) \in Seq(Line) /\ Len(q) \in Nat /\ Len(q) >= 1 /\ Len(Tail(q)) = Len(q) - 1
         /\ Head(q) = q[1] /\ (Len(q) = 2 => Tail(q)[1] = q[2])
OBVIOUS

\* The exit alone, as what is left to read of a helper that is gone.
LEMMA OnlyExit ==
  ASSUME NEW q \in Seq(Line), Len(q) = 1, q[1] = "exit"
  PROVE  Len(q) \in {1, 2} /\ q[Len(q)] = "exit" /\ (Len(q) = 2 => q[1] # "exit")
OBVIOUS

\* An event that is read leaves at most the exit.
LEMMA EventTaken ==
  ASSUME IndInv, pipe # << >>, Head(pipe) # "exit", pipe' = Tail(pipe), proc'.at = proc.at
  PROVE  /\ PipeInv' /\ pipe' \in Seq(Line) /\ proc.at \notin {"none", "starting", "boot"}
         /\ Len(pipe') > 0 => Len(pipe') = 1 /\ pipe'[1] = "exit"
<1>1. /\ pipe' \in Seq(Line) /\ Len(pipe) \in Nat /\ Len(pipe) >= 1 /\ Len(pipe') = Len(pipe) - 1
      /\ pipe[1] # "exit" /\ (Len(pipe) = 2 => pipe'[1] = pipe[2])
  BY Tailed, Facts
<1>2. proc.at \notin {"none", "starting", "boot"}
  BY Facts DEF PipeInv
<1>3. CASE proc.at = "gone"
  <2>1. Len(pipe) = 2 /\ pipe[2] = "exit"
    BY <1>1, <1>3, Facts DEF PipeInv
  <2>2. Len(pipe') = 1 /\ pipe'[1] = "exit"
    BY <1>1, <2>1
  <2>3. Len(pipe') \in {1, 2} /\ pipe'[Len(pipe')] = "exit" /\ (Len(pipe') = 2 => pipe'[1] # "exit")
    BY <1>1, <2>2, OnlyExit
  <2>4. PipeInv'
    BY <1>3, <2>3 DEF PipeInv
  <2>. QED
    BY <1>1, <1>2, <2>2, <2>4
<1>4. CASE proc.at \in {"serving", "closing", "cleaned"}
  <2>1. Len(pipe) <= 1
    BY <1>4, Facts DEF PipeInv
  <2>2. Len(pipe') = 0
    BY <1>1, <2>1
  <2>. QED
    BY <1>1, <1>4, <2>2 DEF PipeInv
<1>5. proc.at \in {"none", "starting", "boot", "serving", "closing", "cleaned", "gone"}
  BY Facts DEF Process, Live
<1>. QED
  BY <1>1, <1>2, <1>3, <1>4, <1>5

\* The exit is the last event.
LEMMA ExitTaken ==
  ASSUME IndInv, pipe # << >>, Head(pipe) = "exit", pipe' = Tail(pipe)
  PROVE  pipe' = << >> /\ pipe' \in Seq(Line) /\ proc.at = "gone"
<1>1. /\ pipe' \in Seq(Line) /\ Len(pipe) \in Nat /\ Len(pipe) >= 1 /\ Len(pipe') = Len(pipe) - 1
      /\ pipe[1] = "exit"
  BY Tailed, Facts
<1>2. proc.at \in {"none", "starting", "boot", "serving", "closing", "cleaned", "gone"}
  BY Facts DEF Process, Live
<1>3. proc.at \notin {"none", "starting", "boot"}
  BY Facts DEF PipeInv
<1>4. proc.at \notin {"serving", "closing", "cleaned"}
  <2>. SUFFICES ASSUME proc.at \in {"serving", "closing", "cleaned"}
                PROVE  FALSE
    OBVIOUS
  <2>1. Len(pipe) <= 1 /\ (Len(pipe) = 1 => pipe[1] \in {"old", "ready"})
    BY Facts DEF PipeInv
  <2>2. Len(pipe) = 1
    BY <1>1, <2>1
  <2>. QED
    BY <1>1, <2>1, <2>2
<1>5. Len(pipe) = 1
  BY <1>1, <1>2, <1>3, <1>4, Facts DEF PipeInv
<1>6. Len(pipe') = 0
  BY <1>1, <1>5
<1>7. \A q \in Seq(Line) : Len(q) = 0 => q = << >>
  OBVIOUS
<1>. QED
  BY <1>1, <1>2, <1>3, <1>4, <1>6, <1>7

LEMMA StartedInv ==
  ASSUME IndInv, Started
  PROVE  IndInv'
<1>1. /\ proc.at = "starting" /\ UNCHANGED <<file, entry, pipe, parts, cause, tries, chosen>>
      /\ untried' = (untried /\ proc.dir # entry.dir) /\ stopped' = {}
  BY DEF Started
<1>2. ~svc.ready /\ pipe = << >> /\ ~svc.timer
  BY <1>1, Facts DEF PipeInv, ReadyInv, StartsInv
<1>3. \/ proc' = [proc EXCEPT !.at = "none"]
      \/ proc' = [proc EXCEPT !.at = "boot"]
  BY DEF Started
<1>4. \/ svc' = [svc EXCEPT !.ready = FALSE, !.missing = TRUE, !.status = "unavailable"]
      \/ svc' = svc
      \/ svc' = [svc EXCEPT !.accepted = FALSE, !.mismatch = FALSE, !.missing = FALSE, !.code = ""]
  BY DEF Started, Launched
<1>5. proc' \in Process /\ proc'.at \in {"none", "boot"}
  BY <1>3, Facts DEF Process, Live
<1>6. svc' \in ServiceState /\ svc'.attempts = svc.attempts
  <2>1. CASE svc' = [svc EXCEPT !.ready = FALSE, !.missing = TRUE, !.status = "unavailable"]
    BY <2>1, Facts, Statuses DEF ServiceState
  <2>2. CASE svc' = [svc EXCEPT !.accepted = FALSE, !.mismatch = FALSE, !.missing = FALSE, !.code = ""]
    BY <2>2, Facts DEF ServiceState
  <2>. QED
    BY <1>4, <2>1, <2>2, Facts
<1>7. ~svc'.ready /\ ~svc'.timer
  <2>1. CASE svc' = [svc EXCEPT !.ready = FALSE, !.missing = TRUE, !.status = "unavailable"]
    BY <1>2, <2>1, Facts DEF ServiceState
  <2>2. CASE svc' = [svc EXCEPT !.accepted = FALSE, !.mismatch = FALSE, !.missing = FALSE, !.code = ""]
    BY <1>2, <2>2, Facts DEF ServiceState
  <2>. QED
    BY <1>2, <1>4, <2>1, <2>2
<1>8. untried' \in BOOLEAN
  BY <1>1
<1>9. Types'
  BY <1>1, <1>5, <1>6, <1>8 DEF IndInv, Types
<1>10. PipeInv' /\ ReadyInv'
  BY <1>1, <1>2, <1>5, <1>7 DEF PipeInv, ReadyInv
<1>11. StartsInv'
  BY <1>1, <1>6, <1>7, Facts DEF StartsInv
<1>. QED
  BY <1>9, <1>10, <1>11 DEF IndInv

\* finishReceiverShutdown, on a service state that counts as many exits.
LEMMA Finished ==
  ASSUME IndInv, NEW s \in ServiceState, FinishShutdown(s)
  PROVE  /\ file' \in [on : BOOLEAN, dir : Folders] /\ ~file'.on
         /\ svc' \in ServiceState /\ ~svc'.ready
         /\ svc'.attempts = s.attempts /\ svc'.timer = s.timer /\ svc'.code = s.code
<1>1. /\ file' = [entry EXCEPT !.on = FALSE]
      /\ svc' = [s EXCEPT !.fallback = FALSE, !.shutdown = FALSE, !.ready = FALSE,
                          !.status = "off"]
  BY DEF FinishShutdown, WriteOn, Persist
<1>2. file' \in [on : BOOLEAN, dir : Folders] /\ ~file'.on
  BY <1>1, Facts
<1>3. svc' \in ServiceState
  BY <1>1, Statuses DEF ServiceState
<1>4. ~svc'.ready /\ svc'.attempts = s.attempts /\ svc'.timer = s.timer /\ svc'.code = s.code
  BY <1>1 DEF ServiceState
<1>. QED
  BY <1>2, <1>3, <1>4

LEMMA ShutdownFallbackInv ==
  ASSUME IndInv, ShutdownFallback
  PROVE  IndInv'
<1>1. UNCHANGED <<entry, proc, pipe, parts, cause, tries, untried, stopped, chosen>>
      /\ FinishShutdown(svc)
  BY DEF ShutdownFallback
<1>2. /\ file' \in [on : BOOLEAN, dir : Folders] /\ ~file'.on
      /\ svc' \in ServiceState /\ ~svc'.ready
      /\ svc'.attempts = svc.attempts /\ svc'.timer = svc.timer /\ svc'.code = svc.code
  BY <1>1, Finished, Facts
<1>3. Types'
  BY <1>1, <1>2 DEF IndInv, Types
<1>4. PipeInv' /\ ReadyInv'
  BY <1>1, <1>2, Facts DEF PipeInv, ReadyInv
<1>5. StartsInv'
  BY <1>1, <1>2, Facts DEF StartsInv
<1>. QED
  BY <1>3, <1>4, <1>5 DEF IndInv

LEMMA RestartTimerInv ==
  ASSUME IndInv, RestartTimer
  PROVE  IndInv'
<1>1. /\ svc.timer /\ svc' = [svc EXCEPT !.timer = FALSE]
      /\ UNCHANGED <<file, entry, pipe, parts, cause, untried, stopped, chosen>>
      /\ \/ entry.on /\ proc' = Launch(entry.dir) /\ tries' = tries + 1
         \/ UNCHANGED <<proc, tries>>
  BY DEF RestartTimer
<1>2. svc' \in ServiceState /\ ~svc'.timer /\ svc'.attempts = svc.attempts
  BY <1>1, Facts DEF ServiceState
<1>3. svc'.ready = svc.ready
  BY <1>1, Facts DEF ServiceState
<1>4. proc.at = "none" /\ tries <= svc.attempts /\ pipe = << >> /\ ~svc.ready
  BY <1>1, Facts DEF StartsInv, PipeInv, ReadyInv
<1>5. proc' \in Process /\ proc'.at \in {"none", "starting"}
  <2>1. CASE UNCHANGED proc
    BY <1>4, <2>1, Facts
  <2>2. CASE proc' = Launch(entry.dir)
    BY <2>2, Facts DEF Launch, Process, Live
  <2>. QED
    BY <1>1, <2>1, <2>2
<1>6. tries' \in Nat /\ tries' <= svc.attempts + 1
  BY <1>1, <1>4, Facts
<1>7. Types'
  BY <1>1, <1>2, <1>5, <1>6 DEF IndInv, Types
<1>8. PipeInv' /\ ReadyInv'
  BY <1>1, <1>3, <1>4, <1>5 DEF PipeInv, ReadyInv
<1>9. StartsInv'
  BY <1>1, <1>2, <1>6, Facts DEF StartsInv
<1>. QED
  BY <1>7, <1>8, <1>9 DEF IndInv

LEMMA HandleEventInv ==
  ASSUME IndInv, HandleEvent
  PROVE  IndInv'
<1>1. /\ pipe # << >> /\ Head(pipe) # "exit" /\ pipe' = Tail(pipe)
      /\ UNCHANGED <<file, entry, parts, cause, untried, stopped, chosen>>
  BY DEF HandleEvent
<1>2. \/ /\ Head(pipe) \in {"security", "port"}
         /\ svc' = IF svc.mismatch THEN svc ELSE [svc EXCEPT !.code = Head(pipe)]
         /\ UNCHANGED <<proc, tries>>
      \/ /\ svc' = [svc EXCEPT !.missing = FALSE, !.ready = FALSE, !.mismatch = TRUE,
                               !.status = "outofdate"]
         /\ proc' = Told(proc)
         /\ UNCHANGED tries
      \/ /\ svc' = [svc EXCEPT !.missing = FALSE, !.accepted = TRUE, !.ready = TRUE,
                               !.mismatch = FALSE, !.attempts = 0, !.status = "ready"]
         /\ tries' = 0
         /\ UNCHANGED proc
  BY DEF HandleEvent
<1>3. proc' \in Process /\ proc'.at = proc.at
  BY <1>2, Facts DEF Told, Process
<1>4. /\ PipeInv' /\ pipe' \in Seq(Line) /\ proc.at \notin {"none", "starting", "boot"}
      /\ Len(pipe') > 0 => Len(pipe') = 1 /\ pipe'[1] = "exit"
  BY <1>1, <1>3, EventTaken
<1>5. ~svc.ready /\ ~svc.timer
  <2>1. Len(pipe) > 0 /\ pipe[1] # "exit"
    BY <1>1, Tailed, Facts
  <2>. QED
    BY <1>4, <2>1, Facts DEF ReadyInv, StartsInv
<1>6. CASE /\ Head(pipe) \in {"security", "port"}
           /\ svc' = IF svc.mismatch THEN svc ELSE [svc EXCEPT !.code = Head(pipe)]
           /\ UNCHANGED <<proc, tries>>
  <2>1. svc' \in ServiceState /\ svc'.attempts = svc.attempts
    BY <1>6, Facts DEF ServiceState
  <2>2. ~svc'.ready /\ ~svc'.timer
    BY <1>5, <1>6, Facts DEF ServiceState
  <2>3. Types'
    BY <1>1, <1>3, <1>4, <1>6, <2>1 DEF IndInv, Types
  <2>4. StartsInv'
    BY <1>1, <1>6, <2>1, <2>2, Facts DEF StartsInv
  <2>. QED
    BY <1>4, <2>2, <2>3, <2>4 DEF IndInv, ReadyInv
<1>7. CASE /\ svc' = [svc EXCEPT !.missing = FALSE, !.ready = FALSE, !.mismatch = TRUE,
                                 !.status = "outofdate"]
           /\ UNCHANGED tries
  <2>1. svc' \in ServiceState /\ svc'.attempts = svc.attempts
    BY <1>7, Facts, Statuses DEF ServiceState
  <2>2. ~svc'.ready /\ ~svc'.timer
    BY <1>5, <1>7, Facts DEF ServiceState
  <2>3. Types'
    BY <1>1, <1>3, <1>4, <1>7, <2>1 DEF IndInv, Types
  <2>4. StartsInv'
    BY <1>1, <1>7, <2>1, <2>2, Facts DEF StartsInv
  <2>. QED
    BY <1>4, <2>2, <2>3, <2>4 DEF IndInv, ReadyInv
<1>8. CASE /\ svc' = [svc EXCEPT !.missing = FALSE, !.accepted = TRUE, !.ready = TRUE,
                                 !.mismatch = FALSE, !.attempts = 0, !.status = "ready"]
           /\ tries' = 0
  <2>1. svc' \in ServiceState /\ svc'.attempts = 0
    BY <1>8, Facts, Statuses DEF ServiceState
  <2>2. svc'.accepted /\ ~svc'.mismatch /\ ~svc'.timer
    BY <1>5, <1>8, Facts DEF ServiceState
  <2>3. Types'
    BY <1>1, <1>3, <1>4, <1>8, <2>1 DEF IndInv, Types
  <2>4. StartsInv'
    BY <1>1, <1>8, <2>1, <2>2 DEF StartsInv
  <2>. QED
    BY <1>3, <1>4, <2>2, <2>3, <2>4 DEF IndInv, ReadyInv
<1>. QED
  BY <1>2, <1>6, <1>7, <1>8

LEMMA HandleExitInv ==
  ASSUME IndInv, HandleExit
  PROVE  IndInv'
<1>. DEFINE s == [svc EXCEPT !.restart = FALSE, !.ready = FALSE]
<1>1. /\ pipe # << >> /\ Head(pipe) = "exit" /\ pipe' = Tail(pipe)
      /\ proc' = [proc EXCEPT !.at = "none", !.told = FALSE]
      /\ UNCHANGED <<entry, parts, cause, tries, untried, stopped, chosen>>
  BY DEF HandleExit
<1>2. pipe' = << >> /\ pipe' \in Seq(Line) /\ proc.at = "gone"
  BY <1>1, ExitTaken
<1>3. proc' \in Process /\ proc'.at = "none"
  BY <1>1, Facts DEF Process
<1>4. ~svc.timer
  BY <1>2, Facts DEF StartsInv
<1>5. s \in ServiceState /\ s.attempts = svc.attempts /\ ~s.ready /\ ~s.timer /\ s.code = svc.code
  <2>1. s \in ServiceState
    BY Facts DEF ServiceState
  <2>2. s.attempts = svc.attempts /\ ~s.ready /\ s.code = svc.code
    BY Facts DEF ServiceState
  <2>3. ~s.timer
    BY <1>4, Facts DEF ServiceState
  <2>. QED
    BY <2>1, <2>2, <2>3
<1>6. \/ FinishShutdown(s)
      \/ UNCHANGED file /\ (svc' = s \/ \E st \in Status : svc' = [s EXCEPT !.status = st])
      \/ /\ UNCHANGED file /\ MayRetry /\ entry.on
         /\ \E st \in Status : svc' = [s EXCEPT !.status = st, !.timer = TRUE, !.attempts = @ + 1]
  BY Statuses DEF HandleExit, ExitStatus
<1>. HIDE DEF s
<1>7. ASSUME ~svc'.ready, svc' \in ServiceState, file' \in [on : BOOLEAN, dir : Folders],
             StartsInv'
      PROVE  IndInv'
  <2>1. Types'
    BY <1>1, <1>2, <1>3, <1>7 DEF IndInv, Types
  <2>. QED
    BY <1>2, <1>3, <1>7, <2>1 DEF IndInv, PipeInv, ReadyInv
<1>8. /\ svc.attempts \in Nat /\ tries \in Nat /\ svc.attempts <= 4 /\ tries <= svc.attempts + 1
      /\ (file.on /\ ~entry.on => tries = 0)
  BY Facts DEF StartsInv
<1>9. CASE FinishShutdown(s)
  <2>1. /\ ~svc'.ready /\ ~svc'.timer /\ svc' \in ServiceState /\ ~file'.on
        /\ file' \in [on : BOOLEAN, dir : Folders] /\ svc'.attempts = svc.attempts
    BY <1>5, <1>9, Finished
  <2>2. StartsInv'
    BY <1>1, <1>8, <2>1 DEF StartsInv
  <2>. QED
    BY <1>7, <2>1, <2>2
<1>10. CASE UNCHANGED file /\ (svc' = s \/ \E st \in Status : svc' = [s EXCEPT !.status = st])
  <2>1. svc' \in ServiceState /\ svc'.attempts = svc.attempts
    BY <1>5, <1>10 DEF ServiceState
  <2>2. ~svc'.ready /\ ~svc'.timer
    BY <1>5, <1>10 DEF ServiceState
  <2>3. StartsInv'
    BY <1>1, <1>8, <1>10, <2>1, <2>2 DEF StartsInv
  <2>. QED
    BY <1>7, <1>10, <2>1, <2>2, <2>3, Facts
<1>11. ASSUME UNCHANGED file, MayRetry, entry.on, NEW st \in Status,
              svc' = [s EXCEPT !.status = st, !.timer = TRUE, !.attempts = @ + 1]
       PROVE  IndInv'
  <2>. DEFINE n == s.attempts + 1
  <2>0. s.attempts \in Nat /\ n \in Nat /\ svc' = [s EXCEPT !.status = st, !.timer = TRUE, !.attempts = n]
    <3>1. s.attempts \in Nat /\ n \in Nat
      BY <1>5, <1>8
    <3>2. svc' = [s EXCEPT !.status = st, !.timer = TRUE, !.attempts = n]
      BY <1>11
    <3>. QED
      BY <3>1, <3>2
  <2>a. n = svc.attempts + 1
    BY <1>5
  <2>. HIDE DEF n
  <2>1. svc' \in ServiceState /\ svc'.attempts = n
    BY <1>5, <2>0 DEF ServiceState
  <2>2. svc'.attempts = svc.attempts + 1
    BY <2>1, <2>a
  <2>3. ~svc'.ready /\ svc'.code = svc.code
    BY <1>5, <1>11 DEF ServiceState
  <2>4. svc.attempts < 4 /\ svc.code # "security"
    BY <1>11 DEF MayRetry
  <2>5. svc'.attempts <= 4 /\ tries <= svc'.attempts
    BY <1>8, <2>2, <2>4
  <2>6. StartsInv'
    <3>1. tries <= svc'.attempts + 1
      BY <1>8, <2>2
    <3>2. tries' = tries /\ entry'.on
      BY <1>1, <1>11
    <3>. QED
      BY <1>3, <2>3, <2>4, <2>5, <3>1, <3>2 DEF StartsInv
  <2>. QED
    BY <1>7, <1>11, <2>1, <2>3, <2>6, Facts
<1>. QED
  BY <1>6, <1>9, <1>10, <1>11

-----------------------------------------------------------------------------
(* The helper, the files and the world *)

\* Only the process, what it printed and what it leaves behind change.
LEMMA HelperInv ==
  ASSUME IndInv, UNCHANGED <<file, entry, svc, tries, untried, chosen>>, cause' \in Causes,
         parts' \subseteq Folders, stopped' \subseteq Folders, proc' \in Process,
         proc.at \notin {"none"} \/ proc' = proc, pipe' \in Seq(Line), PipeInv', ReadyInv'
  PROVE  IndInv'
<1>1. Types'
  BY DEF IndInv, Types
<1>2. StartsInv'
  BY Facts DEF StartsInv
<1>. QED
  BY <1>1, <1>2 DEF IndInv

LEMMA BootInv ==
  ASSUME IndInv, Boot
  PROVE  IndInv'
<1>1. /\ proc.at = "boot" /\ pipe = << >> /\ ~svc.ready
      /\ UNCHANGED <<file, entry, svc, parts, cause, tries, untried, stopped, chosen>>
  BY Facts DEF Boot, PipeInv, ReadyInv, ghosts
<1>2. \/ \E x \in {"security", "port"} : Exits /\ pipe' = pipe \o <<x, "exit">>
      \/ Exits /\ pipe' = Append(pipe, "exit")
      \/ \E x \in {"old", "ready"} : proc' = [proc EXCEPT !.at = "serving"] /\ pipe' = Append(pipe, x)
  BY DEF Boot
<1>3. ~svc'.ready
  BY <1>1
<1>. DEFINE Printed == proc' \in Process /\ PipeInv' /\ pipe' \in Seq(Line)
<1>4. Printed
  <2>1. ASSUME NEW x \in {"security", "port"}, Exits, pipe' = pipe \o <<x, "exit">>
        PROVE  Printed
    <3>1. pipe' = <<x, "exit">>
      BY <1>1, <2>1
    <3>2. /\ Len(pipe') = 2 /\ pipe'[1] = x /\ pipe'[2] = "exit" /\ pipe' \in Seq(Line)
      BY <3>1 DEF Line
    <3>3. proc' \in Process /\ proc'.at = "gone"
      BY <2>1, Facts DEF Exits, Process
    <3>. QED
      BY <2>1, <3>2, <3>3 DEF PipeInv
  <2>2. ASSUME Exits, pipe' = Append(pipe, "exit")
        PROVE  Printed
    <3>1. pipe' = <<"exit">>
      BY <1>1, <2>2
    <3>2. /\ Len(pipe') = 1 /\ pipe'[1] = "exit" /\ pipe' \in Seq(Line)
      BY <3>1 DEF Line
    <3>3. proc' \in Process /\ proc'.at = "gone"
      BY <2>2, Facts DEF Exits, Process
    <3>. QED
      BY <3>2, <3>3 DEF PipeInv
  <2>3. ASSUME NEW x \in {"old", "ready"}, proc' = [proc EXCEPT !.at = "serving"],
               pipe' = Append(pipe, x)
        PROVE  Printed
    <3>1. pipe' = <<x>>
      BY <1>1, <2>3
    <3>2. /\ Len(pipe') = 1 /\ pipe'[1] = x /\ pipe' \in Seq(Line)
      BY <3>1 DEF Line
    <3>3. proc' \in Process /\ proc'.at = "serving"
      BY <2>3, Facts DEF Process, Live
    <3>. QED
      BY <3>2, <3>3 DEF PipeInv
  <2>. QED
    BY <1>2, <2>1, <2>2, <2>3
<1>. QED
  BY <1>1, <1>3, <1>4, HelperInv DEF IndInv, Types, ReadyInv

\* The helper ends, by itself or in a crash.
LEMMA EndInv ==
  ASSUME IndInv, Exit \/ Crash
  PROVE  IndInv'
<1>1. /\ proc.at \in {"serving", "closing", "cleaned"} /\ proc' = [proc EXCEPT !.at = "gone"]
      /\ pipe' = Append(pipe, "exit") /\ stopped' \in {stopped, {}}
      /\ UNCHANGED <<file, entry, svc, parts, cause, tries, untried, chosen>>
  BY DEF Exit, Crash, Exits, ghosts
<1>2. proc' \in Process /\ proc'.at = "gone" /\ proc.at \in Live
  BY <1>1, Facts DEF Process, Live
<1>3. PipeInv' /\ ReadyInv' /\ pipe' \in Seq(Line)
  BY <1>1, <1>2, Facts, ExitPrinted
<1>. QED
  BY <1>1, <1>2, <1>3, HelperInv DEF IndInv, Types

\* The helper stops serving and cleans up, and partial files come and go.
LEMMA ServingInv ==
  ASSUME IndInv, ReadShutdown \/ CleanUp \/ Receive \/ ChangeCause
  PROVE  IndInv'
<1>1. /\ UNCHANGED <<file, entry, svc, tries, untried, chosen, pipe, stopped>>
      /\ \/ proc' = proc
         \/ proc.at = "serving" /\ proc' = [proc EXCEPT !.at = "closing"]
         \/ proc.at = "closing" /\ proc' = [proc EXCEPT !.at = "cleaned"]
      /\ parts' \subseteq parts \cup {proc.dir}
      /\ cause' = cause \/ cause' \in Causes
  BY DEF ReadShutdown, CleanUp, Receive, ChangeCause, ghosts
<1>2. cause' \in Causes /\ parts' \subseteq Folders
  BY <1>1, Facts DEF IndInv, Types, Process
<1>3. proc' \in Process /\ (proc' = proc \/ proc.at # "none")
  BY <1>1, Facts DEF Process, Live
<1>4. \/ proc'.at = proc.at
      \/ proc.at \in {"serving", "closing"} /\ proc'.at \in {"closing", "cleaned"}
  BY <1>1, Facts DEF Process
<1>5. PipeInv' /\ ReadyInv'
  BY <1>1, <1>4, Facts DEF PipeInv, ReadyInv
<1>. QED
  BY <1>1, <1>2, <1>3, <1>5, HelperInv DEF IndInv, Types

-----------------------------------------------------------------------------
(* Theorems *)

LEMMA Step == IndInv /\ [Next]_vars => IndInv'
<1>1. IndInv /\ UNCHANGED vars => IndInv'
  BY DEF vars, IndInv, Types, PipeInv, ReadyInv, StartsInv
<1>. QED
  BY <1>1, ToggleInv, UpdateHelperInv, ChooseFolderInv, ReloadInv, StartedInv,
     ShutdownFallbackInv, RestartTimerInv, HandleEventInv, HandleExitInv, BootInv, EndInv, ServingInv
  DEF Next, User, Service, Helper

LEMMA ReloadStarts ==
  ASSUME IndInv, Reload, proc.at = "none", proc'.at # "none"
  PROVE  file.on /\ ~entry.on
<1>1. PICK first \in BOOLEAN :
        LET turned == file.on # entry.on
            moved  == file.dir # entry.dir
            again  == moved /\ (first \/ ~turned \/ ~file.on)
            p == IF turned THEN Rebound(IF again THEN entry.dir ELSE file.dir) ELSE proc
        IN  proc' = IF again THEN RestartProcess(p) ELSE p
  BY DEF Reload
<1>2. \A d : ~file.on => Rebound(d) = proc
  BY DEF Rebound, Live
<1>3. \A p : p.at = "none" => RestartProcess(p) = p
  BY DEF RestartProcess
<1>4. file.on # entry.on
  <2>. SUFFICES ASSUME file.on = entry.on
                PROVE  FALSE
    OBVIOUS
  <2>1. proc' = proc \/ proc' = RestartProcess(proc)
    BY <1>1
  <2>. QED
    BY <1>3, <2>1
<1>5. file.on
  <2>. SUFFICES ASSUME ~file.on
                PROVE  FALSE
    OBVIOUS
  <2>1. proc' = proc \/ proc' = RestartProcess(proc)
    BY <1>1, <1>2
  <2>. QED
    BY <1>3, <2>1
<1>. QED
  BY <1>4, <1>5, Facts

\* The inductive invariant of the service, the helper's process and its pipe holds of every
\* behaviour.
THEOREM Invariance == Spec => []IndInv
  BY InitInv, Step, PTL DEF Spec

\* The settings entry, the service and the helper keep their types.
THEOREM Typed == Spec => []TypeOK
<1>1. IndInv => TypeOK
  BY TypesAre DEF IndInv
<1>. QED
  BY Invariance, <1>1, PTL

\* A helper that cannot serve is started five times at most before the user acts again
\* (handleBackendExit).
THEOREM Bounded == Spec => []StartsBounded
<1>1. IndInv => StartsBounded
  BY Facts DEF StartsInv, StartsBounded
<1>. QED
  BY Invariance, <1>1, PTL

\* The service says "ready" only of a process that said so, with the right version, and whose
\* exit was not told (handleEvent, handleBackendExit).
THEOREM Real == Spec => []ReadyIsReal
<1>1. IndInv => ReadyIsReal
  BY Facts DEF ReadyInv, ReadyIsReal, Running
<1>. QED
  BY Invariance, <1>1, PTL

\* A helper that refused to start over its security settings is not started again unasked
\* (handleBackendExit).
THEOREM Stands == Spec => RefusalStands
<1>1. IndInv /\ [Next]_vars =>
        [(~Running /\ Running' /\ svc.code = "security") => (tries = 0 \/ tries' = 1)]_vars
  <2>. SUFFICES ASSUME IndInv, Next, ~Running, Running', svc.code = "security"
                PROVE  tries = 0 \/ tries' = 1
    OBVIOUS
  <2>1. proc.at = "none" /\ proc'.at # "none" /\ pipe = << >>
    BY Facts DEF Running, PipeInv
  <2>2. ~Started /\ ~HandleEvent /\ ~HandleExit /\ ~Boot /\ ~ReadShutdown /\ ~CleanUp /\ ~Exit /\ ~Crash
        /\ ~Receive
    BY <2>1 DEF Started, HandleEvent, HandleExit, Boot, ReadShutdown, CleanUp, Exit, Crash, Receive
  <2>3. ~Toggle /\ ~ShutdownFallback /\ ~ChangeCause /\ \A d \in Folders : ~ChooseFolder(d)
    BY <2>1 DEF Toggle, ShutdownFallback, ChangeCause, ChooseFolder, Running
  <2>4. CASE UpdateHelper
    BY <2>1, <2>4 DEF UpdateHelper
  <2>5. CASE RestartTimer
    BY <2>5, Facts DEF RestartTimer, StartsInv
  <2>6. CASE Reload
    <3>1. file.on /\ ~entry.on
      BY <2>1, <2>6, ReloadStarts
    <3>. QED
      BY <3>1, Facts DEF StartsInv
  <2>. QED
    BY <2>2, <2>3, <2>4, <2>5, <2>6 DEF Next, User, Service, Helper
<1>. QED
  BY Invariance, <1>1, PTL DEF Spec, RefusalStands

=============================================================================
