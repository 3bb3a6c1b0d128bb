---------------------------- MODULE ServiceParts ----------------------------
(***************************************************************************)
(* Two things the service does with its helper: it starts and stops the    *)
(* process, and it sends through it.  The transfers are those of one       *)
(* process, and what ends it is apart from them: a behaviour is one of one *)
(* of the two, and the other stays as it begins.                           *)
(***************************************************************************)
EXTENDS Lifecycle

CONSTANTS
    Transfers, MaxFiles, MaxCommands, NoTransfer   \* Outgoing

VARIABLES
    side,   \* which of the two it is
    pending, current, view, retries, result, stdin, slot, done, cancelled,
    task, left, report, told, stdout

sending == <<pending, current, view, retries, result, stdin, slot, done, cancelled,
             task, left, report, told, stdout>>

Out == INSTANCE Outgoing

ASSUME OutgoingAssumption == Out!ConstantsOK

ServiceInit ==
    /\ side \in {"process", "sending"}
    /\ Init /\ Out!Init
    /\ side # "process" => file = entry /\ cause = CHOOSE c \in Causes : TRUE

ServiceNext ==
    /\ UNCHANGED side
    /\ \/ side = "process" /\ Next /\ UNCHANGED sending
       \/ side = "sending" /\ Out!Next /\ UNCHANGED vars

ServiceFairness ==
    /\ WF_vars(side = "process" /\ Reload)
    /\ WF_vars(side = "process" /\ Started)
    /\ WF_vars(side = "process" /\ ShutdownFallback)
    /\ WF_vars(side = "process" /\ RestartTimer)
    /\ WF_vars(side = "process" /\ HandleEvent)
    /\ WF_vars(side = "process" /\ HandleExit)
    /\ WF_vars(side = "process" /\ Helper)
    /\ WF_sending(side = "sending" /\ Out!HandleEvent)
    /\ WF_sending(side = "sending" /\ Out!TakeDone)
    /\ WF_sending(side = "sending" /\ \E t \in Transfers : Out!TakeCommand(t))
    /\ \A t \in Transfers :
          /\ WF_sending(side = "sending" /\ Out!HearCancel(t))
          /\ WF_sending(side = "sending" /\ Out!Withdrawn(t))
          /\ WF_sending(side = "sending" /\ Out!Report(t))

service_vars == <<side, vars, sending>>
ServiceSpec == ServiceInit /\ [][ServiceNext]_service_vars /\ ServiceFairness

\* The panel is told at most one outcome of a transfer (main.rs:1438-1441, 1454-1483).
OneOutcome == Out!OneOutcome

\* The loop loses sight of a running task only by cancelling it (main.rs:1455-1483).
SlotCoversTask == Out!SlotCoversTask

\* A retry with a PIN is never refused as busy (main.rs:1438-1440, 1455).
PinRetryNotBusy == Out!PinRetryNotBusy

\* A success on the panel is that transfer's, with every file sent (Service.qml:691).
SuccessIsTrue == Out!SuccessIsTrue

\* A cancelled task ends, whatever the receiver does (client.rs:40, 204, 442).
CancelledEnds == side = "sending" => Out!CancelledEnds

\* If the receiver answers, the panel lets go of every transfer that was not cancelled
\* (main.rs:1438-1441, Service.qml:691-695).
UncancelledSettles == side = "sending" => Out!UncancelledSettles
=============================================================================
