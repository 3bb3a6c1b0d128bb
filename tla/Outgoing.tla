------------------------------ MODULE Outgoing ------------------------------
(***************************************************************************)
(* Sending: the panel service (Service.qml), the command loop of the helper *)
(* and the send task it spawns for each transfer (backend/src/main.rs).     *)
(*                                                                          *)
(* The three run concurrently and talk through FIFO channels: commands on   *)
(* the helper's stdin, events on its stdout, and the reports of finished    *)
(* tasks.  The loop remembers one transfer, the slot, and reads its channels*)
(* in any order (tokio::select!).  A task hears of a cancel only where it   *)
(* awaits the network or the file system, and whichever is ready may win.   *)
(*                                                                          *)
(* Abstracted: what is sent and to whom, progress within a file (it has the *)
(* effect of the event that starts the file), the views that do not belong  *)
(* to sending (they are all "elsewhere"), and the end of the helper process.*)
(* An invalid PIN and a missing one open the same prompt.                   *)
(***************************************************************************)
EXTENDS Naturals, Sequences

CONSTANTS
  Transfers,     \* transfer ids; the service never uses one twice
  MaxFiles,      \* bound: files the receiver may ask for
  MaxCommands,   \* bound: a cancel is pressed only below this many commands
  NoTransfer     \* outgoingTransferId is "", outgoing is None

\* What the constants are to be.
ConstantsOK ==
  /\ MaxFiles \in Nat
  /\ MaxCommands \in Nat
  /\ NoTransfer \notin Transfers

VARIABLES
  pending,     \* pendingOutgoing is set
  current,     \* outgoingTransferId
  view,        \* viewState, as far as sending is concerned
  retries,     \* transfers dispatched from the PIN prompt
  result,      \* how the service parted with each transfer
  stdin,       \* commands on their way to the helper
  slot,        \* outgoing: the transfer the command loop remembers
  done,        \* the OutgoingDone channel
  cancelled,   \* transfers whose cancel signal was sent
  task,        \* program counter of each send task
  left,        \* files the task still has to send
  report,      \* the event the task leaves to the command loop
  told,        \* outcomes written to stdout for each transfer
  stdout       \* events on their way to the service

panelVars == <<pending, current, view, retries, result>>
taskVars == <<task, left, report>>
outVars == <<told, stdout>>
vars == <<panelVars, stdin, slot, done, cancelled, taskVars, outVars>>

-----------------------------------------------------------------------------
(* Types *)

Views == {"elsewhere", "sending", "pin"}

Results == {"unused",    \* id not used yet
            "active",    \* the transfer of the panel
            "success", "error",
            "prompted",  \* the receiver wants a PIN
            "abandoned"} \* left from the PIN prompt

Outcomes == {"done", "cancelled", "failed", "pin", "busy", "invalid"}

TaskPhases == {"none",         \* not spawned
               "registering",  \* awaiting /register
               "scanning",     \* awaiting the walk over the selected files
               "preparing",    \* awaiting /prepare-upload
               "uploading",    \* awaiting /upload of one file
               "withdrawing",  \* cancelled, awaiting /cancel
               "ended",        \* resolved, its report not sent yet
               "gone"}         \* its report was sent

\* The selects a cancel can win.
AwaitPhases == {"registering", "scanning", "preparing", "uploading"}

Running == AwaitPhases \cup {"withdrawing"}

Commands == [command : {"send", "cancel"}, id : Transfers]

Events == [event : Outcomes \cup {"preparing", "progress"}, id : Transfers]

TypeOK ==
  /\ pending \in BOOLEAN
  /\ current \in Transfers \cup {NoTransfer}
  /\ view \in Views
  /\ retries \subseteq Transfers
  /\ result \in [Transfers -> Results]
  /\ stdin \in Seq(Commands)
  /\ slot \in Transfers \cup {NoTransfer}
  /\ done \in Seq(Transfers)
  /\ cancelled \subseteq Transfers
  /\ task \in [Transfers -> TaskPhases]
  /\ left \in [Transfers -> 0..MaxFiles]
  /\ report \in [Transfers -> {"none", "failed", "pin"}]
  /\ told \in [Transfers -> Seq(Outcomes)]
  /\ stdout \in Seq(Events)

Init ==
  /\ pending = FALSE
  /\ current = NoTransfer
  /\ view = "elsewhere"
  /\ retries = {}
  /\ result = [t \in Transfers |-> "unused"]
  /\ stdin = <<>>
  /\ slot = NoTransfer
  /\ done = <<>>
  /\ cancelled = {}
  /\ task = [t \in Transfers |-> "none"]
  /\ left = [t \in Transfers |-> 0]
  /\ report = [t \in Transfers |-> "none"]
  /\ told = [t \in Transfers |-> <<>>]
  /\ stdout = <<>>

-----------------------------------------------------------------------------
(* Helpers *)

Command(name, t) == [command |-> name, id |-> t]

\* A progress event: no outcome.
Show(event, t) ==
  /\ stdout' = Append(stdout, [event |-> event, id |-> t])
  /\ UNCHANGED told

\* An outcome written to stdout.
Tell(outcome, t) ==
  /\ stdout' = Append(stdout, [event |-> outcome, id |-> t])
  /\ told' = [told EXCEPT ![t] = Append(@, outcome)]

Goto(t, phase) == task' = [task EXCEPT ![t] = phase]

\* The future of send_payload resolves; the loop is told event later.
Resolve(t, event) ==
  /\ Goto(t, "ended")
  /\ report' = [report EXCEPT ![t] = event]

\* The event is about the transfer of the panel.
Mine(e) == e.id = current

-----------------------------------------------------------------------------
(* Faulty variants: what the mistakes the properties are for would look like. *)
(* No behaviour of Spec uses one of them.                                     *)

\* The task goes on with the next file after it was cancelled.
FaultyWithdrawn(t) ==
  /\ task[t] = "withdrawing"
  /\ Tell("cancelled", t)
  /\ Goto(t, "uploading")
  /\ UNCHANGED <<panelVars, stdin, slot, done, cancelled, left, report>>

\* The walk over the files cannot be interrupted.
FaultyHearCancel(t) ==
  /\ t \in cancelled
  /\ task[t] \in AwaitPhases \ {"scanning"}
  /\ IF task[t] = "uploading"
     THEN Goto(t, "withdrawing") /\ UNCHANGED <<report, outVars>>
     ELSE Tell("cancelled", t) /\ Resolve(t, "none")
  /\ UNCHANGED <<panelVars, stdin, slot, done, cancelled, left>>

\* The task tells of the missing PIN itself, before the slot is free.
FaultyPinRefused(t) ==
  /\ task[t] = "preparing"
  /\ Tell("pin", t)
  /\ Resolve(t, "none")
  /\ UNCHANGED <<panelVars, stdin, slot, done, cancelled, left>>

\* The transfer is taken for done after its first file.
FaultyUploaded(t) ==
  /\ task[t] = "uploading"
  /\ Tell("done", t)
  /\ Resolve(t, "none")
  /\ left' = [left EXCEPT ![t] = @ - 1]
  /\ UNCHANGED <<panelVars, stdin, slot, done, cancelled>>

\* The report of an earlier transfer frees the slot of the next.
FaultyTakeDone ==
  /\ done # <<>>
  /\ done' = Tail(done)
  /\ slot' = NoTransfer
  /\ IF slot = Head(done) /\ report[Head(done)] # "none"
     THEN Tell(report[Head(done)], Head(done))
     ELSE UNCHANGED outVars
  /\ UNCHANGED <<panelVars, stdin, cancelled, taskVars>>

\* The event that came with the report is dropped.
FaultyTakeDoneSilently ==
  /\ done # <<>>
  /\ done' = Tail(done)
  /\ slot' = IF slot = Head(done) THEN NoTransfer ELSE slot
  /\ UNCHANGED <<panelVars, stdin, cancelled, taskVars, outVars>>

-----------------------------------------------------------------------------
(* The panel service *)

\* dispatchPendingOutgoing: a new id, and a command that carries it.
Dispatch(t) ==
  /\ result[t] = "unused"
  /\ result' = [result EXCEPT ![t] = "active"]
  /\ current' = t
  /\ stdin' = Append(stdin, Command("send", t))

\* The user picked something to send.  The view follows with the first event.
BeginOutgoing(t) ==
  /\ ~pending
  /\ pending' = TRUE
  /\ Dispatch(t)
  /\ UNCHANGED <<view, retries, slot, done, cancelled, taskVars, outVars>>

\* The user entered a PIN.
RetryWithPin(t) ==
  /\ view = "pin"
  /\ current = NoTransfer
  /\ pending
  /\ Dispatch(t)
  /\ retries' = retries \cup {t}
  /\ UNCHANGED <<pending, view, slot, done, cancelled, taskVars, outVars>>

\* Cancel is offered while the panel shows the transfer.
CancelOutgoing ==
  /\ view = "sending"
  /\ Len(stdin) < MaxCommands
  /\ stdin' = Append(stdin, Command("cancel", current))
  /\ UNCHANGED <<panelVars, slot, done, cancelled, taskVars, outVars>>

\* The user leaves the PIN prompt, with or without a retry in flight.
CancelPin ==
  /\ view = "pin"
  /\ IF current = NoTransfer
     THEN UNCHANGED <<stdin, result>>
     ELSE /\ stdin' = Append(stdin, Command("cancel", current))
          /\ result' = [result EXCEPT ![current] = "abandoned"]
  /\ pending' = FALSE
  /\ current' = NoTransfer
  /\ view' = "elsewhere"
  /\ UNCHANGED <<retries, slot, done, cancelled, taskVars, outVars>>

\* A file chooser or a clipboard reader left running fails: failWith replaces
\* whatever is shown.
ChooserFails ==
  /\ view # "elsewhere"
  /\ view' = "elsewhere"
  /\ UNCHANGED <<pending, current, retries, result, stdin, slot, done, cancelled, taskVars, outVars>>

\* finishOutgoing
Finish(how) ==
  /\ result' = [result EXCEPT ![current] = how]
  /\ pending' = FALSE
  /\ current' = NoTransfer
  /\ view' = "elsewhere"

\* showPinPrompt: what is pending is kept for the retry.
ShowPinPrompt ==
  /\ result' = [result EXCEPT ![current] = "prompted"]
  /\ current' = NoTransfer
  /\ view' = "pin"
  /\ UNCHANGED pending

\* handleEvent, for the events of sending.
HandleEvent ==
  /\ stdout # <<>>
  /\ stdout' = Tail(stdout)
  /\ LET e == Head(stdout) IN
       \/ /\ ~Mine(e)
          /\ UNCHANGED panelVars
       \/ /\ Mine(e)
          /\ e.event \in {"preparing", "progress"}
          /\ view' = "sending"
          /\ UNCHANGED <<pending, current, retries, result>>
       \/ /\ Mine(e)
          /\ e.event = "done"
          /\ Finish("success")
          /\ UNCHANGED retries
       \/ /\ Mine(e)
          /\ e.event \in {"cancelled", "failed", "busy", "invalid"}
          /\ Finish("error")
          /\ UNCHANGED retries
       \/ /\ Mine(e)
          /\ e.event = "pin"
          /\ ShowPinPrompt
          /\ UNCHANGED retries
  /\ UNCHANGED <<stdin, slot, done, cancelled, taskVars, told>>

-----------------------------------------------------------------------------
(* The command loop of the helper *)

\* The next command, taken from stdin.
NextCommand(name, t) ==
  /\ stdin # <<>>
  /\ Head(stdin) = Command(name, t)
  /\ stdin' = Tail(stdin)

\* SendFiles and SendText: take the slot and spawn the task.
StartSend(t) ==
  /\ NextCommand("send", t)
  /\ slot = NoTransfer
  /\ slot' = t
  /\ Goto(t, "registering")
  /\ UNCHANGED <<panelVars, done, cancelled, left, report, outVars>>

\* The slot is taken.
RefuseBusy(t) ==
  /\ NextCommand("send", t)
  /\ slot # NoTransfer
  /\ Tell("busy", t)
  /\ UNCHANGED <<panelVars, slot, done, cancelled, taskVars>>

\* The PIN of a retry is too long.  The size of a text was checked before.
RefuseInvalid(t) ==
  /\ NextCommand("send", t)
  /\ slot = NoTransfer
  /\ t \in retries
  /\ Tell("invalid", t)
  /\ UNCHANGED <<panelVars, slot, done, cancelled, taskVars>>

\* CancelOutgoing: the slot is free at once, whatever the task does.
CancelSend(t) ==
  /\ NextCommand("cancel", t)
  /\ slot = t
  /\ slot' = NoTransfer
  /\ cancelled' = cancelled \cup {t}
  /\ UNCHANGED <<panelVars, done, taskVars, outVars>>

\* A cancel that names no transfer of the loop.
IgnoreCancel(t) ==
  /\ NextCommand("cancel", t)
  /\ slot # t
  /\ UNCHANGED <<panelVars, slot, done, cancelled, taskVars, outVars>>

\* A report counts only for the transfer in the slot.
TakeDone ==
  /\ done # <<>>
  /\ done' = Tail(done)
  /\ LET t == Head(done) IN
       IF slot = t
       THEN /\ slot' = NoTransfer
            /\ IF report[t] = "none" THEN UNCHANGED outVars ELSE Tell(report[t], t)
       ELSE UNCHANGED <<slot, outVars>>
  /\ UNCHANGED <<panelVars, stdin, cancelled, taskVars>>

TakeCommand(t) ==
  \/ StartSend(t) \/ RefuseBusy(t) \/ RefuseInvalid(t)
  \/ CancelSend(t) \/ IgnoreCancel(t)

-----------------------------------------------------------------------------
(* The send task: send_payload *)

\* /register answered or not: its result is ignored.  Files are looked up next.
LookUpFiles(t) ==
  /\ task[t] = "registering"
  /\ Goto(t, "scanning")
  /\ UNCHANGED <<panelVars, stdin, slot, done, cancelled, left, report, outVars>>

\* The offer is complete: after the walk, or after /register for a text.
Offer(t) ==
  /\ task[t] \in {"registering", "scanning"}
  /\ Goto(t, "preparing")
  /\ Show("preparing", t)
  /\ UNCHANGED <<panelVars, stdin, slot, done, cancelled, left, report>>

\* The receiver accepted files: the first one starts.
Accepted(t, files) ==
  /\ task[t] = "preparing"
  /\ Goto(t, "uploading")
  /\ left' = [left EXCEPT ![t] = files]
  /\ Show("progress", t)
  /\ UNCHANGED <<panelVars, stdin, slot, done, cancelled, report>>

\* The receiver accepted and needs no file.
AcceptedEmpty(t) ==
  /\ task[t] = "preparing"
  /\ Tell("done", t)
  /\ Resolve(t, "none")
  /\ UNCHANGED <<panelVars, stdin, slot, done, cancelled, left>>

\* 401: the loop is left to tell it.
PinRefused(t) ==
  /\ task[t] = "preparing"
  /\ Resolve(t, "pin")
  /\ UNCHANGED <<panelVars, stdin, slot, done, cancelled, left, outVars>>

\* A file arrived: the next one starts, or the transfer is done.
Uploaded(t) ==
  /\ task[t] = "uploading"
  /\ left' = [left EXCEPT ![t] = @ - 1]
  /\ IF left[t] > 1
     THEN Show("progress", t) /\ UNCHANGED <<task, report>>
     ELSE Tell("done", t) /\ Resolve(t, "none")
  /\ UNCHANGED <<panelVars, stdin, slot, done, cancelled>>

\* Any error up to here: the loop is left to tell it.
Fail(t) ==
  /\ task[t] \in AwaitPhases
  /\ Resolve(t, "failed")
  /\ UNCHANGED <<panelVars, stdin, slot, done, cancelled, left, outVars>>

\* The cancel signal wins a select.  During an upload the receiver is told.
HearCancel(t) ==
  /\ t \in cancelled
  /\ task[t] \in AwaitPhases
  /\ IF task[t] = "uploading"
     THEN Goto(t, "withdrawing") /\ UNCHANGED <<report, outVars>>
     ELSE Tell("cancelled", t) /\ Resolve(t, "none")
  /\ UNCHANGED <<panelVars, stdin, slot, done, cancelled, left>>

\* /cancel answered or timed out.
Withdrawn(t) ==
  /\ task[t] = "withdrawing"
  /\ Tell("cancelled", t)
  /\ Resolve(t, "none")
  /\ UNCHANGED <<panelVars, stdin, slot, done, cancelled, left>>

\* The spawned task sends its OutgoingDone.
Report(t) ==
  /\ task[t] = "ended"
  /\ Goto(t, "gone")
  /\ done' = Append(done, t)
  /\ UNCHANGED <<panelVars, stdin, slot, cancelled, left, report, outVars>>

-----------------------------------------------------------------------------

Panel ==
  \/ \E t \in Transfers : BeginOutgoing(t) \/ RetryWithPin(t)
  \/ CancelOutgoing \/ CancelPin \/ ChooserFails \/ HandleEvent

Loop == TakeDone \/ \E t \in Transfers : TakeCommand(t)

\* What the receiver, the network or the file system decides.
Peer(t) ==
  \/ LookUpFiles(t) \/ Offer(t)
  \/ \E files \in 1..MaxFiles : Accepted(t, files)
  \/ AcceptedEmpty(t) \/ PinRefused(t) \/ Uploaded(t) \/ Fail(t)

Task(t) == Peer(t) \/ HearCancel(t) \/ Withdrawn(t) \/ Report(t)

Next == Panel \/ Loop \/ \E t \in Transfers : Task(t)

Spec == Init /\ [][Next]_vars

\* The service and the loop keep reading their channels; a task that was
\* cancelled is woken, waits at most control_timeout for /cancel, and ends.
LocalFairness ==
  /\ WF_vars(HandleEvent)
  /\ WF_vars(TakeDone)
  /\ WF_vars(\E t \in Transfers : TakeCommand(t))
  /\ \A t \in Transfers :
       WF_vars(HearCancel(t)) /\ WF_vars(Withdrawn(t)) /\ WF_vars(Report(t))

FairSpec == Spec /\ LocalFairness

\* Every request to the receiver is answered or fails, in the end.
PeerAnswers == \A t \in Transfers : WF_vars(Peer(t))

-----------------------------------------------------------------------------
(* Safety *)

\* A transfer has at most one outcome: whichever of the network, the user and
\* the loop settles it, the panel is never told a second story.
OneOutcome == \A t \in Transfers : Len(told[t]) <= 1

\* The loop loses sight of a running task only by cancelling it: two transfers
\* run at once only if the older one is being cancelled.
SlotCoversTask ==
  \A t \in Transfers : task[t] \in Running => slot = t \/ t \in cancelled

\* A retry with a PIN is never refused as busy: the prompt is told by the loop,
\* which frees the slot first.
PinRetryNotBusy ==
  \A t \in retries : \A i \in 1..Len(told[t]) : told[t][i] # "busy"

\* A success on the panel is a success of that very transfer, with every file
\* the receiver asked for sent.
SuccessIsTrue ==
  \A t \in Transfers : result[t] = "success" => told[t] = <<"done">> /\ left[t] = 0

\* While the panel shows a transfer its Cancel button names it.
SendingNamesTransfer ==
  view = "sending" => pending /\ current \in Transfers /\ result[current] = "active"

-----------------------------------------------------------------------------
(* The inductive invariant behind the safety properties *)

\* The i-th command on stdin opens a transfer.
Sends(i) == i \in 1..Len(stdin) /\ stdin[i].command = "send"

\* The panel has at most one transfer, and a pending payload with it.
OneActive ==
  /\ \A t \in Transfers : result[t] = "active" <=> current = t
  /\ current # NoTransfer => pending

\* An id that was never used left no trace.
UnusedIsNew ==
  \A t \in Transfers : result[t] = "unused" =>
    /\ task[t] = "none" /\ told[t] = <<>>
    /\ t \notin retries
    /\ \A i \in 1..Len(stdin) : stdin[i].id # t

\* A command to send is there once, and not acted upon yet.
SendsAreNew ==
  /\ \A i \in 1..Len(stdin) : Sends(i) =>
       task[stdin[i].id] = "none" /\ told[stdin[i].id] = <<>>
  /\ \A i, j \in 1..Len(stdin) :
       Sends(i) /\ Sends(j) /\ stdin[i].id = stdin[j].id => i = j

\* A report is there once, after the end of its task.
DoneIsGone ==
  /\ \A i \in 1..Len(done) : task[done[i]] = "gone"
  /\ \A i, j \in 1..Len(done) : done[i] = done[j] => i = j

\* What the loop has to tell nobody told before it.
ToldByOne ==
  /\ \A t \in Transfers : task[t] \in Running => told[t] = <<>>
  /\ \A t \in Transfers :
       task[t] = "ended" /\ report[t] # "none" => told[t] = <<>>
  /\ \A i \in 1..Len(done) : report[done[i]] # "none" => told[done[i]] = <<>>

\* An outcome on its way to the panel was told.
EventsAreTold ==
  \A i \in 1..Len(stdout) :
    stdout[i].event \in Outcomes => told[stdout[i].id] = <<stdout[i].event>>

\* A transfer is told done with nothing left to send.
DoneIsComplete ==
  \A t \in Transfers :
    /\ task[t] \in {"none", "registering", "scanning", "preparing"} => left[t] = 0
    /\ task[t] = "uploading" => left[t] > 0
    /\ told[t] = <<"done">> => left[t] = 0

\* The command of the panel's transfer is the last to open one.
CurrentIsLast ==
  \A t \in Transfers : current = t =>
    /\ \A i, j \in 1..Len(stdin) : Sends(i) /\ Sends(j) /\ stdin[i].id = t => j <= i
    /\ task[t] # "none" \/ told[t] # <<>> => \A i \in 1..Len(stdin) : ~Sends(i)

\* From the prompt to the retry the slot is free and no transfer is on its way.
PromptFindsSlotFree ==
  /\ pending /\ current = NoTransfer =>
       slot = NoTransfer /\ \A i \in 1..Len(stdin) : ~Sends(i)
  /\ \A t \in Transfers : current = t /\ told[t] = <<"pin">> => slot = NoTransfer
  /\ \A i \in 1..Len(stdin) : Sends(i) /\ stdin[i].id \in retries =>
       slot = NoTransfer /\ \A j \in 1..Len(stdin) : j < i => ~Sends(j)

IndInv ==
  /\ TypeOK /\ OneActive /\ UnusedIsNew /\ SendsAreNew /\ DoneIsGone
  /\ OneOutcome /\ ToldByOne /\ EventsAreTold /\ SlotCoversTask
  /\ DoneIsComplete /\ SuccessIsTrue /\ SendingNamesTransfer
  /\ CurrentIsLast /\ PromptFindsSlotFree /\ PinRetryNotBusy

-----------------------------------------------------------------------------
(* Liveness *)

\* A cancelled task ends whatever the receiver does.
CancelledEnds == \A t \in Transfers : t \in cancelled ~> task[t] = "gone"

\* If the receiver answers, the panel lets go of every transfer that was not
\* cancelled.
UncancelledSettles ==
  PeerAnswers => \A t \in Transfers : current = t ~> (current # t \/ t \in cancelled)

-----------------------------------------------------------------------------
(* Statements of the repository the code does not keep *)

\* "outgoing_cancelled | Cancel local": a transfer the user cancelled is told to
\* the panel by the time the loop has taken the report of its task.
CancelIsTold ==
  \A t \in cancelled :
    task[t] = "gone" /\ (\A i \in 1..Len(done) : done[i] # t) => told[t] # <<>>

\* "Another transfer is already active": a transfer refused as busy meets one
\* that has not ended.
BusyIsTrue ==
  [][\A t \in Transfers : RefuseBusy(t) => task[slot] \in Running]_vars
=============================================================================
