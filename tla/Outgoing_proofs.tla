-------------------------- MODULE Outgoing_proofs --------------------------
(***************************************************************************)
(* Proofs about Outgoing: its inductive invariant and the safety properties *)
(* that follow from it, for any number of transfers, files and commands.    *)
(***************************************************************************)
EXTENDS ServiceParts, TLAPS

LEMMA ConstantsTrue == MaxFiles \in Nat /\ MaxCommands \in Nat /\ NoTransfer \notin Transfers
BY OutgoingAssumption DEF Out!ConstantsOK

-----------------------------------------------------------------------------
(* Types *)

\* What appending to a channel does to its elements.
LEMMA AppendFacts ==
  ASSUME NEW S, NEW s \in Seq(S), NEW e \in S
  PROVE  /\ Append(s, e) \in Seq(S)
         /\ Len(Append(s, e)) = Len(s) + 1
         /\ Len(s) \in Nat
         /\ \A i \in 1..Len(s) : Append(s, e)[i] = s[i] /\ s[i] \in S
         /\ Append(s, e)[Len(s) + 1] = e
  OBVIOUS

\* What taking the first element of a channel leaves.
LEMMA TailFacts ==
  ASSUME NEW S, NEW s \in Seq(S), s # <<>>
  PROVE  /\ Tail(s) \in Seq(S)
         /\ Len(s) \in Nat /\ Len(s) > 0
         /\ Len(Tail(s)) = Len(s) - 1
         /\ Head(s) = s[1] /\ Head(s) \in S
         /\ \A i \in 1..Len(Tail(s)) : i + 1 \in 1..Len(s) /\ Tail(s)[i] = s[i + 1]
         /\ \A i \in 1..Len(s) : s[i] \in S
  OBVIOUS

\* A command put on stdin.
LEMMA CommandTypes ==
  ASSUME Out!TypeOK, NEW t \in Transfers, NEW name \in {"send", "cancel"}
  PROVE  Append(stdin, Out!Command(name, t)) \in Seq(Out!Commands)
<1>1. Out!Command(name, t) \in Out!Commands
  BY DEF Out!Command, Out!Commands
<1> QED BY <1>1, AppendFacts DEF Out!TypeOK

\* A progress event keeps the types of stdout.
LEMMA ShowTypes ==
  ASSUME Out!TypeOK, NEW t \in Transfers, NEW event \in {"preparing", "progress"}, Out!Show(event, t)
  PROVE  stdout' \in Seq(Out!Events) /\ told' = told
<1>1. [event |-> event, id |-> t] \in Out!Events
  BY DEF Out!Events
<1> QED BY <1>1, AppendFacts DEF Out!TypeOK, Out!Show

\* So does an outcome, and it is told once more.
LEMMA TellTypes ==
  ASSUME Out!TypeOK, NEW t \in Transfers, NEW outcome \in Out!Outcomes, Out!Tell(outcome, t)
  PROVE  stdout' \in Seq(Out!Events) /\ told' \in [Transfers -> Seq(Out!Outcomes)]
<1>1. [event |-> outcome, id |-> t] \in Out!Events
  BY DEF Out!Events
<1>2. told[t] \in Seq(Out!Outcomes)
  BY DEF Out!TypeOK
<1>3. Append(told[t], outcome) \in Seq(Out!Outcomes)
  BY <1>2, AppendFacts
<1> QED BY <1>1, <1>3, AppendFacts DEF Out!TypeOK, Out!Tell

\* What is read from a channel has its type.
LEMMA ReadTypes ==
  ASSUME Out!TypeOK
  PROVE  /\ stdin # <<>> => Head(stdin) \in Out!Commands /\ Tail(stdin) \in Seq(Out!Commands)
         /\ stdout # <<>> => Head(stdout) \in Out!Events /\ Tail(stdout) \in Seq(Out!Events)
         /\ done # <<>> => Head(done) \in Transfers /\ Tail(done) \in Seq(Transfers)
  BY DEF Out!TypeOK

\* The panel keeps the types.
LEMMA PanelTypes == Out!TypeOK /\ Out!SendingNamesTransfer /\ Out!Panel => Out!TypeOK'
<1> SUFFICES ASSUME Out!TypeOK, Out!SendingNamesTransfer, Out!Panel PROVE Out!TypeOK'
  OBVIOUS
<1>1. ASSUME NEW t \in Transfers, Out!BeginOutgoing(t) PROVE Out!TypeOK'
  BY <1>1, CommandTypes DEF Out!TypeOK, Out!BeginOutgoing, Out!Dispatch, Out!Results,
     Out!taskVars, Out!outVars
<1>2. ASSUME NEW t \in Transfers, Out!RetryWithPin(t) PROVE Out!TypeOK'
  BY <1>2, CommandTypes DEF Out!TypeOK, Out!RetryWithPin, Out!Dispatch, Out!Results,
     Out!taskVars, Out!outVars
<1>3. CASE Out!CancelOutgoing
  BY <1>3, CommandTypes DEF Out!TypeOK, Out!SendingNamesTransfer, Out!CancelOutgoing,
     Out!panelVars, Out!taskVars, Out!outVars
<1>4. CASE Out!CancelPin
  BY <1>4, CommandTypes DEF Out!TypeOK, Out!CancelPin, Out!Results, Out!Views, Out!taskVars,
     Out!outVars
<1>5. CASE Out!ChooserFails
  BY <1>5 DEF Out!TypeOK, Out!ChooserFails, Out!Views, Out!taskVars, Out!outVars
<1>6. CASE Out!HandleEvent
  BY <1>6, ReadTypes DEF Out!TypeOK, Out!HandleEvent, Out!Mine, Out!Finish, Out!ShowPinPrompt,
     Out!Views, Out!Results, Out!panelVars, Out!taskVars
<1> QED BY <1>1, <1>2, <1>3, <1>4, <1>5, <1>6 DEF Out!Panel

\* The command loop keeps the types.
LEMMA LoopTypes == Out!TypeOK /\ Out!Loop => Out!TypeOK'
<1> SUFFICES ASSUME Out!TypeOK, Out!Loop PROVE Out!TypeOK'
  OBVIOUS
<1>1. CASE Out!TakeDone
  <2> DEFINE t == Head(done)
  <2>1. t \in Transfers /\ done' \in Seq(Transfers)
    BY <1>1, ReadTypes DEF Out!TakeDone
  <2>2. report[t] # "none" => report[t] \in Out!Outcomes
    BY <2>1 DEF Out!TypeOK, Out!Outcomes
  <2>3. stdout' \in Seq(Out!Events) /\ told' \in [Transfers -> Seq(Out!Outcomes)]
    <3>1. CASE slot = t /\ report[t] # "none"
      BY <1>1, <2>1, <2>2, <3>1, TellTypes DEF Out!TakeDone
    <3>2. CASE ~(slot = t /\ report[t] # "none")
      BY <1>1, <3>2 DEF Out!TypeOK, Out!TakeDone, Out!outVars
    <3> QED BY <3>1, <3>2
  <2> QED BY <1>1, <2>1, <2>3 DEF Out!TypeOK, Out!TakeDone, Out!panelVars, Out!taskVars
<1>2. ASSUME NEW t \in Transfers, Out!StartSend(t) PROVE Out!TypeOK'
  BY <1>2, ReadTypes DEF Out!TypeOK, Out!StartSend, Out!NextCommand, Out!Goto, Out!TaskPhases,
     Out!panelVars, Out!taskVars, Out!outVars
<1>3. ASSUME NEW t \in Transfers, Out!RefuseBusy(t) \/ Out!RefuseInvalid(t) PROVE Out!TypeOK'
  <2>1. stdout' \in Seq(Out!Events) /\ told' \in [Transfers -> Seq(Out!Outcomes)]
    BY <1>3, TellTypes DEF Out!RefuseBusy, Out!RefuseInvalid, Out!Outcomes
  <2> QED BY <1>3, <2>1, ReadTypes DEF Out!TypeOK, Out!RefuseBusy, Out!RefuseInvalid,
     Out!NextCommand, Out!panelVars, Out!taskVars
<1>4. ASSUME NEW t \in Transfers, Out!CancelSend(t) \/ Out!IgnoreCancel(t) PROVE Out!TypeOK'
  BY <1>4, ReadTypes DEF Out!TypeOK, Out!CancelSend, Out!IgnoreCancel, Out!NextCommand,
     Out!panelVars, Out!taskVars, Out!outVars
<1> QED BY <1>1, <1>2, <1>3, <1>4 DEF Out!Loop, Out!TakeCommand

\* A task keeps the types.
LEMMA TaskTypes ==
  ASSUME Out!TypeOK, Out!DoneIsComplete, NEW t \in Transfers, Out!Task(t) PROVE Out!TypeOK'
<1> DEFINE Channels == stdout' \in Seq(Out!Events) /\ told' \in [Transfers -> Seq(Out!Outcomes)]
<1>1a. CASE Out!LookUpFiles(t)
  BY <1>1a DEF Out!TypeOK, Out!LookUpFiles, Out!Goto, Out!TaskPhases, Out!panelVars, Out!outVars
<1>1b. CASE Out!PinRefused(t)
  BY <1>1b DEF Out!TypeOK, Out!PinRefused, Out!Goto, Out!Resolve, Out!TaskPhases, Out!panelVars,
     Out!outVars
<1>1c. CASE Out!Fail(t)
  BY <1>1c DEF Out!TypeOK, Out!Fail, Out!Goto, Out!Resolve, Out!TaskPhases, Out!panelVars,
     Out!outVars
<1>1d. CASE Out!Report(t)
  <2>1. Append(done, t) \in Seq(Transfers)
    BY AppendFacts DEF Out!TypeOK
  <2> QED BY <1>1d, <2>1 DEF Out!TypeOK, Out!Report, Out!Goto, Out!TaskPhases, Out!panelVars,
     Out!outVars
<1>2. CASE Out!Offer(t)
  BY <1>2, ShowTypes DEF Out!TypeOK, Out!Offer, Out!Goto, Out!TaskPhases, Out!panelVars
<1>3. ASSUME NEW files \in 1..MaxFiles, Out!Accepted(t, files) PROVE Out!TypeOK'
  <2>1. files \in 0..MaxFiles
    BY ConstantsTrue
  <2>2. Channels
    BY <1>3, ShowTypes DEF Out!TypeOK, Out!Accepted
  <2> QED BY <1>3, <2>1, <2>2 DEF Out!TypeOK, Out!Accepted, Out!Goto, Out!TaskPhases,
     Out!panelVars
<1>4a. CASE Out!AcceptedEmpty(t)
  <2>1. Channels
    BY <1>4a, TellTypes DEF Out!AcceptedEmpty, Out!Outcomes
  <2> QED BY <1>4a, <2>1 DEF Out!TypeOK, Out!AcceptedEmpty, Out!Goto, Out!Resolve,
     Out!TaskPhases, Out!panelVars
<1>4b. CASE Out!Withdrawn(t)
  <2>1. Channels
    BY <1>4b, TellTypes DEF Out!Withdrawn, Out!Outcomes
  <2> QED BY <1>4b, <2>1 DEF Out!TypeOK, Out!Withdrawn, Out!Goto, Out!Resolve, Out!TaskPhases,
     Out!panelVars
<1>5. CASE Out!Uploaded(t)
  <2>1. Channels /\ task' \in [Transfers -> Out!TaskPhases] /\ report' \in [Transfers -> {"none", "failed", "pin"}]
    <3>1. CASE left[t] > 1
      BY <1>5, <3>1, ShowTypes DEF Out!TypeOK, Out!Uploaded
    <3>2. CASE ~(left[t] > 1)
      BY <1>5, <3>2, TellTypes DEF Out!TypeOK, Out!Uploaded, Out!Goto, Out!Resolve,
         Out!Outcomes, Out!TaskPhases
    <3> QED BY <3>1, <3>2
  <2>2. left' \in [Transfers -> 0..MaxFiles]
    BY <1>5, ConstantsTrue DEF Out!TypeOK, Out!DoneIsComplete, Out!Uploaded
  <2> QED BY <1>5, <2>1, <2>2 DEF Out!TypeOK, Out!Uploaded, Out!panelVars
<1>6. CASE Out!HearCancel(t)
  <2>1. Channels /\ task' \in [Transfers -> Out!TaskPhases] /\ report' \in [Transfers -> {"none", "failed", "pin"}]
    <3>1. CASE task[t] = "uploading"
      BY <1>6, <3>1 DEF Out!TypeOK, Out!HearCancel, Out!Goto, Out!TaskPhases, Out!outVars
    <3>2. CASE task[t] # "uploading"
      BY <1>6, <3>2, TellTypes DEF Out!TypeOK, Out!HearCancel, Out!Goto, Out!Resolve,
         Out!Outcomes, Out!TaskPhases
    <3> QED BY <3>1, <3>2
  <2> QED BY <1>6, <2>1 DEF Out!TypeOK, Out!HearCancel, Out!panelVars
<1> QED BY <1>1a, <1>1b, <1>1c, <1>1d, <1>2, <1>3, <1>4a, <1>4b, <1>5, <1>6 DEF Out!Task, Out!Peer

-----------------------------------------------------------------------------
(* What a step does to the channels, element by element *)

\* u is s with e appended.
Grown(s, u, e) ==
  /\ Len(s) \in Nat /\ Len(u) = Len(s) + 1 /\ u[Len(s) + 1] = e
  /\ \A i \in 1..Len(s) : u[i] = s[i]

\* u is s without its first element.
Shrunk(s, u) ==
  /\ Len(s) \in Nat /\ Len(s) > 0 /\ Len(u) = Len(s) - 1
  /\ \A i \in 1..Len(u) : i + 1 \in 1..Len(s) /\ u[i] = s[i + 1]

\* The transfer gets one of the outcomes, having none, or no new one at all.
SaysOnce(t, outcomes) ==
  \/ /\ told' = told
     /\ \/ stdout' = stdout
        \/ \E e \in {"preparing", "progress"} :
             Grown(stdout, stdout', [event |-> e, id |-> t])
  \/ /\ told[t] = <<>>
     /\ \E o \in outcomes :
          /\ told' = [told EXCEPT ![t] = <<o>>]
          /\ Grown(stdout, stdout', [event |-> o, id |-> t])

\* Append and Tail, in those terms.
LEMMA ChannelFacts ==
  ASSUME NEW S, NEW s \in Seq(S)
  PROVE  /\ \A e : Grown(s, Append(s, e), e)
         /\ s # <<>> => Shrunk(s, Tail(s)) /\ Head(s) = s[1] /\ s[1] \in S
  BY DEF Grown, Shrunk

\* A transfer that was not told of is told of once.
LEMMA TellOnce ==
  ASSUME Out!TypeOK, NEW t \in Transfers, NEW outcome, Out!Tell(outcome, t), told[t] = <<>>
  PROVE  /\ told' = [told EXCEPT ![t] = <<outcome>>]
         /\ Grown(stdout, stdout', [event |-> outcome, id |-> t])
  BY ChannelFacts DEF Out!TypeOK, Out!Tell

\* A progress event tells no outcome.
LEMMA ShowGrows ==
  ASSUME Out!TypeOK, NEW t \in Transfers, NEW event, Out!Show(event, t)
  PROVE  told' = told /\ Grown(stdout, stdout', [event |-> event, id |-> t])
  BY ChannelFacts DEF Out!TypeOK, Out!Show

\* Whoever tells an outcome once keeps what was told in step with the events.
LEMMA SaysOnceTold ==
  ASSUME Out!TypeOK, Out!OneOutcome, Out!EventsAreTold,
         NEW t \in Transfers, SaysOnce(t, Out!Outcomes)
  PROVE  Out!OneOutcome' /\ Out!EventsAreTold'
<1>1. CASE told' = told /\ stdout' = stdout
  BY <1>1 DEF Out!OneOutcome, Out!EventsAreTold
<1>2. CASE told' = told /\ \E e \in {"preparing", "progress"} :
             Grown(stdout, stdout', [event |-> e, id |-> t])
  <2>1. \A i \in 1..Len(stdout') : stdout'[i].event \in Out!Outcomes =>
          i \in 1..Len(stdout) /\ stdout'[i] = stdout[i]
    BY <1>2 DEF Grown, Out!Outcomes
  <2> QED BY <1>2, <2>1 DEF Out!OneOutcome, Out!EventsAreTold
<1>3. ASSUME NEW o \in Out!Outcomes, told[t] = <<>>, told' = [told EXCEPT ![t] = <<o>>],
             Grown(stdout, stdout', [event |-> o, id |-> t])
      PROVE  Out!OneOutcome' /\ Out!EventsAreTold'
  <2>1. told'[t] = <<o>> /\ \A u \in Transfers : u # t => told'[u] = told[u]
    BY <1>3 DEF Out!TypeOK
  <2>2. Out!OneOutcome'
    <3>1. Len(<<o>>) <= 1
      OBVIOUS
    <3> QED BY <2>1, <3>1 DEF Out!OneOutcome
  <2>3. \A i \in 1..Len(stdout') : stdout'[i].event \in Out!Outcomes => told'[stdout'[i].id] = <<stdout'[i].event>>
    <3> SUFFICES ASSUME NEW i \in 1..Len(stdout'), stdout'[i].event \in Out!Outcomes
                 PROVE  told'[stdout'[i].id] = <<stdout'[i].event>>
      OBVIOUS
    <3>1. CASE i = Len(stdout) + 1
      BY <1>3, <2>1, <3>1 DEF Grown
    <3>2. CASE i # Len(stdout) + 1
      <4>1. i \in 1..Len(stdout) /\ stdout'[i] = stdout[i]
        BY <1>3, <3>2 DEF Grown
      <4>2. told[stdout[i].id] = <<stdout[i].event>>
        BY <4>1 DEF Out!EventsAreTold
      <4>3. stdout[i].id \in Transfers
        <5>1. stdout[i] \in Out!Events
          BY <4>1 DEF Out!TypeOK
        <5> QED BY <5>1 DEF Out!Events
      <4> QED BY <1>3, <2>1, <4>1, <4>2, <4>3
    <3> QED BY <3>1, <3>2
  <2> QED BY <2>2, <2>3 DEF Out!EventsAreTold
<1> QED BY <1>1, <1>2, <1>3 DEF SaysOnce

\* Taking a command moves the others up.
LEMMA StdinShrinks ==
  ASSUME Out!TypeOK, Shrunk(stdin, stdin')
  PROVE  /\ \A i : Out!Sends(i)' => Out!Sends(i + 1) /\ i \in 1..Len(stdin') /\ stdin'[i].id = stdin[i + 1].id
         /\ \A i \in 1..Len(stdin') : i + 1 \in 1..Len(stdin) /\ stdin'[i] = stdin[i + 1]
         /\ Len(stdin) \in Nat /\ Len(stdin) > 0
  BY DEF Shrunk, Out!Sends

\* A new command is the last.
LEMMA StdinGrows ==
  ASSUME Out!TypeOK, NEW t \in Transfers, NEW name, Grown(stdin, stdin', Out!Command(name, t))
  PROVE  /\ \A i : Out!Sends(i)' =>
              \/ Out!Sends(i) /\ stdin'[i].id = stdin[i].id
              \/ i = Len(stdin) + 1 /\ stdin'[i].id = t /\ name = "send"
         /\ \A i \in 1..Len(stdin') :
              \/ i \in 1..Len(stdin) /\ stdin'[i].id = stdin[i].id
              \/ i = Len(stdin) + 1 /\ stdin'[i].id = t
         /\ Len(stdin) \in Nat /\ Len(stdin') = Len(stdin) + 1
  BY DEF Grown, Out!Sends, Out!Command

\* The commands on stdin name transfers.
LEMMA StdinTypes ==
  ASSUME Out!TypeOK PROVE \A i \in 1..Len(stdin) : stdin[i] \in Out!Commands /\ stdin[i].id \in Transfers
<1>1. \A i \in 1..Len(stdin) : stdin[i] \in Out!Commands
  BY DEF Out!TypeOK
<1>2. \A c \in Out!Commands : c.id \in Transfers
  BY DEF Out!Commands
<1> QED BY <1>1, <1>2

\* A transfer told of once.
LEMMA OnceFacts ==
  ASSUME NEW a
  PROVE  /\ Len(<<a>>) = 1 /\ <<a>>[1] = a /\ <<a>> # <<>>
         /\ \A i \in 1..Len(<<a>>) : <<a>>[i] = a
         /\ \A b : <<a>> = <<b>> => a = b
  OBVIOUS

-----------------------------------------------------------------------------
(* The steps of a task *)

\* What a step of a task may do: it moves a task that has not sent its report,
\* tells an outcome only when none was told and the task is over, and touches
\* nothing of the panel and of the loop but the channel of reports.
TaskEffect(t) ==
  /\ UNCHANGED <<Out!panelVars, stdin, slot, cancelled>>
  /\ \A u \in Transfers : u # t =>
       task'[u] = task[u] /\ left'[u] = left[u] /\ report'[u] = report[u]
  /\ task[t] \in Out!Running \cup {"ended"}
  /\ \/ task[t] \in Out!Running /\ task'[t] \in Out!Running \cup {"ended"} /\ done' = done
     \/ /\ task[t] = "ended" /\ task'[t] = "gone" /\ Grown(done, done', t)
        /\ UNCHANGED <<left, report, told>>
  /\ SaysOnce(t, {"done", "cancelled"})
  /\ task'[t] \in Out!Running => told'[t] = told[t]
  /\ task'[t] = "ended" /\ report'[t] # "none" => told'[t] = told[t]
  /\ task'[t] \in {"registering", "scanning", "preparing"} => left'[t] = 0
  /\ task'[t] = "uploading" => left'[t] > 0
  /\ told'[t] = <<"done">> => left'[t] = 0

\* What the invariant says of a task that is not over.
LEMMA RunningFacts ==
  ASSUME Out!TypeOK, Out!ToldByOne, Out!DoneIsComplete, NEW t \in Transfers, task[t] \in Out!Running
  PROVE  /\ told[t] = <<>>
         /\ told[t] # <<"done">>
         /\ task[t] # "ended" /\ task[t] # "gone"
         /\ task[t] \in {"registering", "scanning", "preparing"} => left[t] = 0
         /\ task[t] = "uploading" => left[t] > 0
         /\ left[t] \in 0..MaxFiles
<1>1. told[t] = <<>>
  BY DEF Out!ToldByOne
<1>2. <<>> # <<"done">>
  OBVIOUS
<1>3. left[t] \in 0..MaxFiles
  BY DEF Out!TypeOK
<1> QED BY <1>1, <1>2, <1>3 DEF Out!DoneIsComplete, Out!Running, Out!AwaitPhases

\* Every action of a task is such a step.
LEMMA TaskEffects ==
  ASSUME Out!TypeOK, Out!ToldByOne, Out!DoneIsComplete, NEW t \in Transfers, Out!Task(t)
  PROVE  TaskEffect(t)
<1>0. <<>> # <<"done">> /\ <<"cancelled">> # <<"done">>
  OBVIOUS
<1>1. CASE Out!LookUpFiles(t)
  BY <1>1, RunningFacts DEF Out!TypeOK, TaskEffect, SaysOnce, Out!LookUpFiles, Out!Goto,
     Out!Running, Out!AwaitPhases, Out!panelVars, Out!outVars
<1>2. CASE Out!Offer(t)
  <2>1. task[t] \in Out!Running /\ SaysOnce(t, {"done", "cancelled"}) /\ told' = told
    BY <1>2, ShowGrows DEF Out!Offer, SaysOnce, Out!Running, Out!AwaitPhases
  <2> QED BY <1>2, <2>1, RunningFacts DEF Out!TypeOK, TaskEffect, Out!Offer, Out!Goto,
     Out!Running, Out!AwaitPhases, Out!panelVars
<1>3. ASSUME NEW files \in 1..MaxFiles, Out!Accepted(t, files) PROVE TaskEffect(t)
  <2>1. task[t] \in Out!Running /\ SaysOnce(t, {"done", "cancelled"}) /\ told' = told
    BY <1>3, ShowGrows DEF Out!Accepted, SaysOnce, Out!Running, Out!AwaitPhases
  <2>2. files > 0
    BY ConstantsTrue
  <2> QED BY <1>3, <2>1, <2>2, RunningFacts DEF Out!TypeOK, TaskEffect, Out!Accepted, Out!Goto,
     Out!Running, Out!AwaitPhases, Out!panelVars
<1>4. CASE Out!AcceptedEmpty(t)
  <2>1. task[t] \in Out!Running /\ told[t] = <<>> /\ left[t] = 0
    BY <1>4, RunningFacts DEF Out!AcceptedEmpty, Out!Running, Out!AwaitPhases
  <2>2. SaysOnce(t, {"done", "cancelled"})
    BY <1>4, <2>1, TellOnce DEF Out!AcceptedEmpty, SaysOnce
  <2> QED BY <1>4, <2>1, <2>2 DEF Out!TypeOK, TaskEffect, Out!AcceptedEmpty, Out!Goto,
     Out!Resolve, Out!Running, Out!AwaitPhases, Out!panelVars
<1>5. CASE Out!PinRefused(t)
  BY <1>5, RunningFacts DEF Out!TypeOK, TaskEffect, SaysOnce, Out!PinRefused, Out!Goto,
     Out!Resolve, Out!Running, Out!AwaitPhases, Out!panelVars, Out!outVars
<1>6. CASE Out!Uploaded(t)
  <2>1. task[t] = "uploading" /\ task[t] \in Out!Running /\ told[t] = <<>> /\ left[t] \in Nat /\ left[t] > 0
    BY <1>6, RunningFacts, ConstantsTrue DEF Out!Uploaded, Out!Running, Out!AwaitPhases
  <2>2. left'[t] = left[t] - 1 /\ \A u \in Transfers : u # t => left'[u] = left[u]
    BY <1>6 DEF Out!TypeOK, Out!Uploaded
  <2>3. CASE left[t] > 1
    <3>1. SaysOnce(t, {"done", "cancelled"}) /\ told' = told
      BY <1>6, <2>3, ShowGrows DEF Out!Uploaded, SaysOnce
    <3>2. task' = task /\ report' = report /\ done' = done /\ UNCHANGED <<Out!panelVars, stdin, slot, cancelled>>
      BY <1>6, <2>3 DEF Out!Uploaded
    <3> QED BY SMTT(60), <1>0, <2>1, <2>2, <2>3, <3>1, <3>2 DEF TaskEffect
  <2>4. CASE ~(left[t] > 1)
    <3>1. SaysOnce(t, {"done", "cancelled"})
      BY <1>6, <2>1, <2>4, TellOnce DEF Out!Uploaded, SaysOnce
    <3>2. /\ task'[t] = "ended" /\ report'[t] = "none" /\ done' = done
          /\ \A u \in Transfers : u # t => task'[u] = task[u] /\ report'[u] = report[u]
          /\ UNCHANGED <<Out!panelVars, stdin, slot, cancelled>>
      BY <1>6, <2>4 DEF Out!TypeOK, Out!Uploaded, Out!Resolve, Out!Goto
    <3> QED BY <2>1, <2>2, <2>4, <3>1, <3>2 DEF TaskEffect, Out!Running, Out!AwaitPhases
  <2> QED BY <2>3, <2>4
<1>7. CASE Out!Fail(t)
  BY <1>7, RunningFacts DEF Out!TypeOK, TaskEffect, SaysOnce, Out!Fail, Out!Goto, Out!Resolve,
     Out!Running, Out!AwaitPhases, Out!panelVars, Out!outVars
<1>8. CASE Out!HearCancel(t)
  <2>1. task[t] \in Out!Running /\ told[t] = <<>>
    BY <1>8, RunningFacts DEF Out!HearCancel, Out!Running
  <2>2. CASE task[t] = "uploading"
    BY <1>0, <1>8, <2>1, <2>2 DEF Out!TypeOK, TaskEffect, SaysOnce, Out!HearCancel, Out!Goto,
       Out!Running, Out!AwaitPhases, Out!panelVars, Out!outVars
  <2>3. CASE task[t] # "uploading"
    <3>1. told'[t] = <<"cancelled">> /\ SaysOnce(t, {"done", "cancelled"})
      BY <1>8, <2>1, <2>3, TellOnce DEF Out!TypeOK, Out!HearCancel, SaysOnce
    <3> QED BY <1>0, <1>8, <2>1, <2>3, <3>1 DEF Out!TypeOK, TaskEffect, Out!HearCancel,
       Out!Goto, Out!Resolve, Out!Running, Out!AwaitPhases, Out!panelVars
  <2> QED BY <2>2, <2>3
<1>9. CASE Out!Withdrawn(t)
  <2>1. task[t] \in Out!Running /\ told[t] = <<>>
    BY <1>9, RunningFacts DEF Out!Withdrawn, Out!Running
  <2>2. told'[t] = <<"cancelled">> /\ SaysOnce(t, {"done", "cancelled"})
    BY <1>9, <2>1, TellOnce DEF Out!TypeOK, Out!Withdrawn, SaysOnce
  <2> QED BY <1>0, <1>9, <2>1, <2>2 DEF Out!TypeOK, TaskEffect, Out!Withdrawn, Out!Goto,
     Out!Resolve, Out!Running, Out!AwaitPhases, Out!panelVars
<1>10. CASE Out!Report(t)
  <2>1. Grown(done, done', t)
    BY <1>10, ChannelFacts DEF Out!TypeOK, Out!Report
  <2>2. told[t] = <<"done">> => left[t] = 0
    BY DEF Out!DoneIsComplete
  <2> QED BY <1>10, <2>1, <2>2 DEF Out!TypeOK, TaskEffect, SaysOnce, Out!Report, Out!Goto,
     Out!Running, Out!AwaitPhases, Out!panelVars, Out!outVars
<1> QED BY <1>1, <1>2, <1>3, <1>4, <1>5, <1>6, <1>7, <1>8, <1>9, <1>10 DEF Out!Task, Out!Peer

\* A step of a task keeps the invariant.
LEMMA TaskKeepsInv ==
  ASSUME Out!IndInv, NEW t \in Transfers, Out!Task(t) PROVE Out!IndInv'
<1> USE DEF Out!IndInv
<1>0. TaskEffect(t)
  BY TaskEffects
<1>1. Out!TypeOK'
  BY TaskTypes
<1>2. SaysOnce(t, Out!Outcomes)
  BY <1>0 DEF TaskEffect, SaysOnce, Out!Outcomes
<1>3. Out!OneOutcome' /\ Out!EventsAreTold'
  BY <1>2, SaysOnceTold
<1>4. /\ \A u \in Transfers : u # t => told'[u] = told[u]
      /\ \/ told'[t] = told[t]
         \/ told[t] = <<>> /\ \E o \in {"done", "cancelled"} : told'[t] = <<o>>
  <2>1. CASE told' = told
    BY <2>1
  <2>2. ASSUME told[t] = <<>>, NEW o \in {"done", "cancelled"}, told' = [told EXCEPT ![t] = <<o>>]
        PROVE  /\ \A u \in Transfers : u # t => told'[u] = told[u]
               /\ told'[t] = <<o>>
    BY <2>2 DEF Out!TypeOK
  <2>3. \/ told' = told
        \/ told[t] = <<>> /\ \E o \in {"done", "cancelled"} : told' = [told EXCEPT ![t] = <<o>>]
    BY <1>0 DEF TaskEffect, SaysOnce
  <2> QED BY <2>1, <2>2, <2>3
<1>5. UNCHANGED <<pending, current, view, retries, result, stdin, slot, cancelled>>
  BY <1>0 DEF TaskEffect, Out!panelVars
<1>6. Out!OneActive' /\ Out!SendingNamesTransfer'
  BY <1>5 DEF Out!OneActive, Out!SendingNamesTransfer
<1>7. task[t] # "none" /\ task'[t] # "none" /\ task[t] # "gone"
  BY <1>0 DEF TaskEffect, Out!Running, Out!AwaitPhases
<1>8. \A u \in Transfers : u # t =>
        task'[u] = task[u] /\ left'[u] = left[u] /\ report'[u] = report[u]
  BY <1>0 DEF TaskEffect
<1>9. Out!UnusedIsNew'
  BY <1>4, <1>5, <1>7, <1>8 DEF Out!UnusedIsNew
<1>10. Out!SendsAreNew'
  <2>1. \A i \in 1..Len(stdin) : stdin[i].id \in Transfers
    BY StdinTypes
  <2> QED BY <2>1, <1>4, <1>5, <1>7, <1>8 DEF Out!SendsAreNew, Out!Sends
<1>11. \A i \in 1..Len(done) : done[i] \in Transfers /\ done[i] # t
  BY <1>7 DEF Out!TypeOK, Out!DoneIsGone
<1>12. Out!DoneIsGone' /\ \A i \in 1..Len(done)' : report'[done'[i]] # "none" => told'[done'[i]] = <<>>
  <2>1. CASE done' = done
    BY <1>4, <1>8, <1>11, <2>1 DEF Out!DoneIsGone, Out!ToldByOne
  <2>2. CASE /\ task[t] = "ended" /\ task'[t] = "gone" /\ Grown(done, done', t)
             /\ UNCHANGED <<left, report, told>>
    BY <1>8, <1>11, <2>2 DEF Out!DoneIsGone, Out!ToldByOne, Grown
  <2> QED BY <1>0, <2>1, <2>2 DEF TaskEffect
<1>13. Out!ToldByOne'
  <2>1. task'[t] \in Out!Running => told'[t] = <<>>
    BY <1>0 DEF TaskEffect, Out!ToldByOne, Out!Running, Out!AwaitPhases
  <2>2. task'[t] = "ended" /\ report'[t] # "none" => told'[t] = <<>>
    BY <1>0 DEF TaskEffect, Out!ToldByOne
  <2> QED BY <1>4, <1>8, <1>12, <2>1, <2>2 DEF Out!ToldByOne
<1>14. Out!SlotCoversTask'
  BY <1>0, <1>5, <1>8 DEF Out!SlotCoversTask, TaskEffect, Out!Running, Out!AwaitPhases
<1>15. Out!DoneIsComplete'
  <2>1. /\ task'[t] \in {"registering", "scanning", "preparing"} => left'[t] = 0
        /\ task'[t] = "uploading" => left'[t] > 0
        /\ told'[t] = <<"done">> => left'[t] = 0
    BY <1>0 DEF TaskEffect
  <2> QED BY <1>4, <1>7, <1>8, <2>1 DEF Out!DoneIsComplete
<1>16. Out!SuccessIsTrue'
  <2>1. told[t] = <<"done">> => told'[t] = told[t] /\ left'[t] = left[t]
    <3>1. <<>> # <<"done">>
      OBVIOUS
    <3>2. told[t] = <<"done">> => task[t] \notin Out!Running
      BY <3>1 DEF Out!ToldByOne
    <3> QED BY <1>0, <3>1, <3>2 DEF TaskEffect
  <2> QED BY <1>4, <1>5, <1>8, <2>1 DEF Out!SuccessIsTrue
<1>17. Out!CurrentIsLast'
  <2>1. \A i : Out!Sends(i)' <=> Out!Sends(i)
    BY <1>5 DEF Out!Sends
  <2> QED BY <1>4, <1>5, <1>7, <1>8, <2>1 DEF Out!CurrentIsLast
<1>18. Out!PromptFindsSlotFree'
  <2>1. \A i : Out!Sends(i)' <=> Out!Sends(i)
    BY <1>5 DEF Out!Sends
  <2>2. <<"done">> # <<"pin">> /\ <<"cancelled">> # <<"pin">>
    BY OnceFacts
  <2>3. \A u \in Transfers : told'[u] = <<"pin">> => told[u] = <<"pin">>
    BY <1>4, <2>2
  <2> QED BY <1>5, <2>1, <2>3 DEF Out!PromptFindsSlotFree
<1>19. Out!PinRetryNotBusy'
  <2>1. \A o \in {"done", "cancelled"} : \A i \in 1..Len(<<o>>) : <<o>>[i] # "busy"
    BY OnceFacts
  <2>2. retries \subseteq Transfers
    BY DEF Out!TypeOK
  <2> QED BY <1>4, <1>5, <2>1, <2>2 DEF Out!PinRetryNotBusy
<1> QED BY <1>1, <1>3, <1>6, <1>9, <1>10, <1>12, <1>13, <1>14, <1>15, <1>16, <1>17, <1>18, <1>19

-----------------------------------------------------------------------------
(* The steps of the command loop *)

\* What taking the first command does: a transfer that is opened or refused
\* was new, and the command was the only one to open it.
CommandEffect(t) ==
  /\ UNCHANGED <<Out!panelVars, done, left, report>>
  /\ t \in Transfers
  /\ Shrunk(stdin, stdin') /\ stdin[1].id = t
  /\ SaysOnce(t, {"busy", "invalid"})
  /\ cancelled \subseteq cancelled'
  /\ \/ /\ Out!Sends(1) /\ slot = NoTransfer /\ slot' = t
        /\ task' = [task EXCEPT ![t] = "registering"] /\ UNCHANGED told
     \/ /\ Out!Sends(1) /\ slot # NoTransfer
        /\ told' = [told EXCEPT ![t] = <<"busy">>] /\ UNCHANGED <<slot, task>>
     \/ /\ Out!Sends(1) /\ slot = NoTransfer
        /\ told' = [told EXCEPT ![t] = <<"invalid">>] /\ UNCHANGED <<slot, task>>
     \/ ~Out!Sends(1) /\ slot = t /\ slot' = NoTransfer /\ t \in cancelled' /\ UNCHANGED <<task, told>>
     \/ ~Out!Sends(1) /\ UNCHANGED <<slot, task, told>>

\* Every command has such an effect.
LEMMA CommandEffects ==
  ASSUME Out!TypeOK, Out!SendsAreNew, NEW t \in Transfers, Out!TakeCommand(t)
  PROVE  CommandEffect(t)
<1>1. \A name : Out!NextCommand(name, t) => Shrunk(stdin, stdin') /\ stdin[1] = Out!Command(name, t)
  BY ChannelFacts DEF Out!TypeOK, Out!NextCommand
<1>2. \A name : Out!NextCommand(name, t) =>
        stdin[1].id = t /\ stdin[1].command = name /\ 1 \in 1..Len(stdin)
  <2>1. \A name : Out!Command(name, t).id = t /\ Out!Command(name, t).command = name
    BY DEF Out!Command
  <2>2. Shrunk(stdin, stdin') => 1 \in 1..Len(stdin)
    BY DEF Shrunk
  <2> QED BY <1>1, <2>1, <2>2
<1>3. Out!NextCommand("send", t) => Out!Sends(1) /\ told[t] = <<>>
  BY <1>2 DEF Out!SendsAreNew, Out!Sends
<1>4. Out!NextCommand("cancel", t) => ~Out!Sends(1)
  BY <1>2 DEF Out!Sends
<1>5. CASE Out!StartSend(t)
  BY <1>1, <1>2, <1>3, <1>5 DEF CommandEffect, SaysOnce, Out!StartSend, Out!Goto, Out!outVars
<1>6. CASE Out!RefuseBusy(t)
  BY <1>1, <1>2, <1>3, <1>6, TellOnce DEF CommandEffect, SaysOnce, Out!RefuseBusy, Out!taskVars
<1>7. CASE Out!RefuseInvalid(t)
  BY <1>1, <1>2, <1>3, <1>7, TellOnce DEF CommandEffect, SaysOnce, Out!RefuseInvalid, Out!taskVars
<1>8. CASE Out!CancelSend(t)
  BY <1>1, <1>2, <1>4, <1>8 DEF CommandEffect, SaysOnce, Out!CancelSend, Out!taskVars, Out!outVars
<1>9. CASE Out!IgnoreCancel(t)
  BY <1>1, <1>2, <1>4, <1>9 DEF CommandEffect, SaysOnce, Out!IgnoreCancel, Out!taskVars,
     Out!outVars
<1> QED BY <1>5, <1>6, <1>7, <1>8, <1>9 DEF Out!TakeCommand

\* Taking a command keeps the invariant.
LEMMA CommandKeepsInv ==
  ASSUME Out!IndInv, NEW t \in Transfers, Out!TakeCommand(t) PROVE Out!IndInv'
<1> USE DEF Out!IndInv
<1>0. CommandEffect(t)
  BY CommandEffects
<1>1. Out!TypeOK'
  BY LoopTypes DEF Out!Loop
<1>2. SaysOnce(t, Out!Outcomes)
  BY <1>0 DEF CommandEffect, SaysOnce, Out!Outcomes
<1>3. Out!OneOutcome' /\ Out!EventsAreTold'
  BY <1>2, SaysOnceTold
<1>4. UNCHANGED <<pending, current, view, retries, result, done, left, report>>
  BY <1>0 DEF CommandEffect, Out!panelVars
<1>5. Out!OneActive' /\ Out!SendingNamesTransfer'
  BY <1>4 DEF Out!OneActive, Out!SendingNamesTransfer
<1>6. /\ \A i : Out!Sends(i)' => Out!Sends(i + 1) /\ i \in 1..Len(stdin') /\ stdin'[i].id = stdin[i + 1].id
      /\ \A i \in 1..Len(stdin') : i + 1 \in 1..Len(stdin) /\ stdin'[i] = stdin[i + 1]
      /\ Len(stdin) \in Nat /\ Len(stdin) > 0
  BY <1>0, StdinShrinks DEF CommandEffect
<1>7. Out!Sends(1) => task[t] = "none" /\ told[t] = <<>>
  BY <1>0 DEF CommandEffect, Out!SendsAreNew, Out!Sends
<1>8. /\ \A u \in Transfers : u # t => task'[u] = task[u] /\ told'[u] = told[u]
      /\ \/ Out!Sends(1) /\ slot = NoTransfer /\ slot' = t /\ task'[t] = "registering" /\ told' = told
         \/ Out!Sends(1) /\ slot # NoTransfer /\ slot' = slot /\ told'[t] = <<"busy">> /\ task' = task
         \/ Out!Sends(1) /\ slot' = slot /\ told'[t] = <<"invalid">> /\ task' = task
         \/ ~Out!Sends(1) /\ slot = t /\ slot' = NoTransfer /\ t \in cancelled' /\ task' = task /\ told' = told
         \/ ~Out!Sends(1) /\ slot' = slot /\ task' = task /\ told' = told
      /\ cancelled \subseteq cancelled'
  BY <1>0 DEF CommandEffect, Out!TypeOK
<1>9. Out!UnusedIsNew'
  <2>1. result[t] # "unused"
    BY <1>0, <1>6 DEF CommandEffect, Out!UnusedIsNew
  <2> QED BY <2>1, <1>4, <1>6, <1>8 DEF Out!UnusedIsNew
<1>10. \A i : Out!Sends(i)' /\ Out!Sends(1) => stdin'[i].id # t
  <2> SUFFICES ASSUME NEW i, Out!Sends(i)', Out!Sends(1), stdin'[i].id = t PROVE FALSE
    OBVIOUS
  <2>1. Out!Sends(i + 1) /\ i \in 1..Len(stdin') /\ stdin[i + 1].id = stdin[1].id
    BY <1>0, <1>6 DEF CommandEffect
  <2>2. i + 1 \in 1..Len(stdin) /\ 1 \in 1..Len(stdin)
    BY <2>1 DEF Out!Sends
  <2>3. i + 1 = 1
    BY <2>1, <2>2 DEF Out!SendsAreNew
  <2> QED BY <2>1, <2>3, <1>6
<1>11. Out!SendsAreNew'
  <2>1. ASSUME NEW i \in 1..Len(stdin'), Out!Sends(i)'
        PROVE  task'[stdin'[i].id] = "none" /\ told'[stdin'[i].id] = <<>>
    <3>1. Out!Sends(i + 1) /\ i + 1 \in 1..Len(stdin) /\ stdin'[i].id = stdin[i + 1].id
      BY <1>6, <2>1
    <3>2. task[stdin'[i].id] = "none" /\ told[stdin'[i].id] = <<>> /\ stdin'[i].id \in Transfers
      BY <3>1, StdinTypes DEF Out!SendsAreNew
    <3>3. CASE Out!Sends(1)
      BY <1>8, <1>10, <2>1, <3>2, <3>3
    <3>4. CASE ~Out!Sends(1)
      BY <1>8, <3>2, <3>4
    <3> QED BY <3>3, <3>4
  <2>2. ASSUME NEW i \in 1..Len(stdin'), NEW j \in 1..Len(stdin'), Out!Sends(i)', Out!Sends(j)',
               stdin'[i].id = stdin'[j].id
        PROVE  i = j
    <3>1. /\ i + 1 \in 1..Len(stdin) /\ j + 1 \in 1..Len(stdin)
          /\ Out!Sends(i + 1) /\ Out!Sends(j + 1) /\ stdin[i + 1].id = stdin[j + 1].id
      BY <1>6, <2>2
    <3>2. i + 1 = j + 1
      BY <3>1 DEF Out!SendsAreNew
    <3> QED BY <3>2
  <2> QED BY <2>1, <2>2 DEF Out!SendsAreNew
<1>12. Out!DoneIsGone'
  <2>1. \A u \in Transfers : task[u] = "gone" => task'[u] = "gone"
    BY <1>7, <1>8
  <2>2. \A i \in 1..Len(done) : done[i] \in Transfers
    BY DEF Out!TypeOK
  <2> QED BY <1>4, <2>1, <2>2 DEF Out!DoneIsGone
<1>13. Out!ToldByOne'
  <2>1. \A u \in Transfers : \/ task'[u] = task[u] /\ told'[u] = told[u]
                             \/ u = t /\ task[u] = "none" /\ told'[u] = <<>> /\ task'[u] = "registering"
                             \/ u = t /\ task[u] = "none" /\ task'[u] = "none"
    BY <1>7, <1>8
  <2>2. \A i \in 1..Len(done) : done[i] \in Transfers /\ task[done[i]] # "none"
    BY DEF Out!TypeOK, Out!DoneIsGone
  <2>3. \A i \in 1..Len(done) : told'[done[i]] = told[done[i]]
    BY <1>7, <1>8, <2>2
  <2> QED BY <1>4, <2>1, <2>3 DEF Out!ToldByOne, Out!Running, Out!AwaitPhases
<1>14. Out!SlotCoversTask'
  BY <1>7, <1>8, ConstantsTrue DEF Out!SlotCoversTask, Out!Running, Out!AwaitPhases
<1>15. Out!DoneIsComplete'
  <2>1. <<>> # <<"done">> /\ <<"busy">> # <<"done">> /\ <<"invalid">> # <<"done">>
    BY OnceFacts
  <2> QED BY <1>4, <1>7, <1>8, <2>1 DEF Out!DoneIsComplete
<1>16. Out!SuccessIsTrue'
  <2>1. <<>> # <<"done">>
    OBVIOUS
  <2> QED BY <1>4, <1>7, <1>8, <2>1 DEF Out!SuccessIsTrue
<1>17. Out!CurrentIsLast'
  <2>1. ASSUME NEW u \in Transfers, current = u
        PROVE  \A i, j \in 1..Len(stdin') : Out!Sends(i)' /\ Out!Sends(j)' /\ stdin'[i].id = u => j <= i
    <3> SUFFICES ASSUME NEW i \in 1..Len(stdin'), NEW j \in 1..Len(stdin'), Out!Sends(i)', Out!Sends(j)', stdin'[i].id = u
                 PROVE  j <= i
      OBVIOUS
    <3>1. j + 1 <= i + 1
      BY <1>6, <2>1 DEF Out!CurrentIsLast
    <3> QED BY <3>1
  <2>2. ASSUME NEW u \in Transfers, current = u, task'[u] # "none" \/ told'[u] # <<>>
        PROVE  \A i \in 1..Len(stdin') : ~Out!Sends(i)'
    <3>1. CASE task[u] # "none" \/ told[u] # <<>>
      BY <1>6, <2>2, <3>1 DEF Out!CurrentIsLast
    <3>2. CASE ~(task[u] # "none" \/ told[u] # <<>>)
      <4>1. u = t /\ Out!Sends(1) /\ stdin[1].id = u
        BY <1>0, <1>8, <2>2, <3>2 DEF CommandEffect
      <4>2. ASSUME NEW i \in 1..Len(stdin'), Out!Sends(i)' PROVE FALSE
        <5>1. Out!Sends(i + 1) /\ i + 1 \in 1..Len(stdin) /\ 1 \in 1..Len(stdin)
          BY <1>6, <4>2
        <5>2. i + 1 <= 1
          BY <2>2, <4>1, <5>1 DEF Out!CurrentIsLast
        <5> QED BY <5>2
      <4> QED BY <4>2
    <3> QED BY <3>1, <3>2
  <2> QED BY <1>4, <2>1, <2>2 DEF Out!CurrentIsLast
<1>18. Out!PromptFindsSlotFree'
  <2>0. 1 \in 1..Len(stdin)
    BY <1>6
  <2>1. pending /\ current = NoTransfer => slot' = NoTransfer /\ \A i \in 1..Len(stdin') : ~Out!Sends(i)'
    BY <1>6, <1>8, <2>0 DEF Out!PromptFindsSlotFree
  <2>2. ASSUME NEW u \in Transfers, current = u, told'[u] = <<"pin">> PROVE slot' = NoTransfer
    <3>1. <<>> # <<"pin">> /\ <<"busy">> # <<"pin">> /\ <<"invalid">> # <<"pin">>
      BY OnceFacts
    <3>2. told[u] = <<"pin">>
      BY <1>7, <1>8, <2>2, <3>1
    <3>3. slot = NoTransfer /\ ~Out!Sends(1)
      BY <2>0, <2>2, <3>1, <3>2 DEF Out!PromptFindsSlotFree, Out!CurrentIsLast
    <3> QED BY <1>8, <3>3
  <2>3. ASSUME NEW i \in 1..Len(stdin'), Out!Sends(i)', stdin'[i].id \in retries
        PROVE  slot' = NoTransfer /\ \A j \in 1..Len(stdin') : j < i => ~Out!Sends(j)'
    <3>1. Out!Sends(i + 1) /\ i + 1 \in 1..Len(stdin) /\ stdin[i + 1].id \in retries /\ i \in Nat
      BY <1>6, <2>3
    <3>2. slot = NoTransfer /\ \A j \in 1..Len(stdin) : j < i + 1 => ~Out!Sends(j)
      BY <3>1 DEF Out!PromptFindsSlotFree
    <3>3. ~Out!Sends(1)
      <4>1. i > 0
        BY <2>3
      <4> QED BY <2>0, <3>1, <3>2, <4>1
    <3>4. ASSUME NEW j \in 1..Len(stdin'), j < i PROVE ~Out!Sends(j)'
      <4>1. j + 1 \in 1..Len(stdin) /\ j + 1 < i + 1
        BY <1>6, <3>1, <3>4
      <4> QED BY <1>6, <3>2, <4>1
    <3> QED BY <1>8, <3>2, <3>3, <3>4
  <2> QED BY <1>4, <2>1, <2>2, <2>3 DEF Out!PromptFindsSlotFree
<1>19. Out!PinRetryNotBusy'
  <2>1. \A i \in 1..Len(<<"invalid">>) : <<"invalid">>[i] # "busy"
    BY OnceFacts
  <2>2. retries \subseteq Transfers
    BY DEF Out!TypeOK
  <2>3. t \in retries /\ Out!Sends(1) => slot = NoTransfer
    BY <1>0, <1>6 DEF CommandEffect, Out!PromptFindsSlotFree
  <2> QED BY <1>4, <1>8, <2>1, <2>2, <2>3 DEF Out!PinRetryNotBusy
<1> QED BY <1>1, <1>3, <1>5, <1>9, <1>11, <1>12, <1>13, <1>14, <1>15, <1>16, <1>17, <1>18, <1>19

\* Taking a report keeps the invariant.
LEMMA ReportKeepsInv ==
  ASSUME Out!IndInv, Out!TakeDone PROVE Out!IndInv'
<1> USE DEF Out!IndInv
<1> DEFINE t == Head(done)
<1>1. Out!TypeOK'
  BY LoopTypes DEF Out!Loop
<1>2. /\ Shrunk(done, done') /\ t = done[1] /\ t \in Transfers
      /\ UNCHANGED <<pending, current, view, retries, result, stdin, cancelled, task, left, report>>
  BY ChannelFacts DEF Out!TypeOK, Out!TakeDone, Out!panelVars, Out!taskVars
<1>3. /\ 1 \in 1..Len(done)
      /\ \A i \in 1..Len(done') : i + 1 \in 1..Len(done) /\ done'[i] = done[i + 1]
  BY <1>2 DEF Shrunk
<1>4. task[t] = "gone" /\ (report[t] # "none" => told[t] = <<>>)
  BY <1>2, <1>3 DEF Out!DoneIsGone, Out!ToldByOne
<1>5. \/ told' = told /\ stdout' = stdout /\ (slot' = slot \/ (slot' = NoTransfer /\ slot = t))
      \/ Out!Tell(report[t], t) /\ report[t] # "none" /\ slot' = NoTransfer /\ slot = t
  <2>1. CASE slot = t
    BY <2>1 DEF Out!TakeDone, Out!outVars
  <2>2. CASE slot # t
    BY <2>2 DEF Out!TakeDone, Out!outVars
  <2> QED BY <2>1, <2>2
<1>6. report[t] # "none" => report[t] \in {"failed", "pin"}
  BY <1>2 DEF Out!TypeOK
<1>7. /\ SaysOnce(t, {"failed", "pin"})
      /\ \A u \in Transfers : u # t => told'[u] = told[u]
      /\ \/ told' = told
         \/ report[t] # "none" /\ \E o \in {"failed", "pin"} : told'[t] = <<o>>
  <2>1. CASE told' = told /\ stdout' = stdout
    BY <2>1 DEF SaysOnce
  <2>2. CASE Out!Tell(report[t], t) /\ report[t] # "none"
    <3>1. told' = [told EXCEPT ![t] = <<report[t]>>] /\ Grown(stdout, stdout', [event |-> report[t], id |-> t])
      BY <1>2, <1>4, <2>2, TellOnce
    <3>2. told'[t] = <<report[t]>> /\ \A u \in Transfers : u # t => told'[u] = told[u]
      BY <1>2, <3>1 DEF Out!TypeOK
    <3> QED BY <1>4, <1>6, <2>2, <3>1, <3>2 DEF SaysOnce
  <2> QED BY <1>5, <2>1, <2>2
<1>8. SaysOnce(t, Out!Outcomes)
  BY <1>7 DEF SaysOnce, Out!Outcomes
<1>9. Out!OneOutcome' /\ Out!EventsAreTold'
  BY <1>2, <1>8, SaysOnceTold
<1>10. Out!OneActive' /\ Out!SendingNamesTransfer'
  BY <1>2 DEF Out!OneActive, Out!SendingNamesTransfer
<1>11. Out!UnusedIsNew' /\ Out!SendsAreNew'
  <2>1. \A u \in Transfers : task[u] = "none" => told'[u] = told[u]
    BY <1>4, <1>7
  <2> QED BY <1>2, <2>1, StdinTypes DEF Out!UnusedIsNew, Out!SendsAreNew, Out!Sends
<1>12. Out!DoneIsGone'
  <2>1. ASSUME NEW i \in 1..Len(done'), NEW j \in 1..Len(done'), done'[i] = done'[j] PROVE i = j
    <3>1. i + 1 = j + 1
      BY <1>3, <2>1 DEF Out!DoneIsGone
    <3> QED BY <3>1
  <2> QED BY <1>2, <1>3, <2>1 DEF Out!DoneIsGone
<1>13. \A i \in 1..Len(done') : done'[i] # t /\ done'[i] \in Transfers
  <2> SUFFICES ASSUME NEW i \in 1..Len(done') PROVE done'[i] # t /\ done'[i] \in Transfers
    OBVIOUS
  <2>1. done[i + 1] = done[1] => i + 1 = 1
    BY <1>3 DEF Out!DoneIsGone
  <2>2. done[i + 1] \in Transfers
    BY <1>3 DEF Out!TypeOK
  <2> QED BY <1>2, <1>3, <2>1, <2>2
<1>14. Out!ToldByOne'
  <2>1. \A i \in 1..Len(done') : report'[done'[i]] # "none" => told'[done'[i]] = <<>>
    BY <1>2, <1>3, <1>7, <1>13 DEF Out!ToldByOne
  <2>2. \A u \in Transfers : task[u] \in Out!Running \/ task[u] = "ended" => told'[u] = told[u]
    BY <1>4, <1>7 DEF Out!Running, Out!AwaitPhases
  <2> QED BY <1>2, <2>1, <2>2 DEF Out!ToldByOne
<1>15. Out!SlotCoversTask'
  BY <1>2, <1>4, <1>5 DEF Out!SlotCoversTask, Out!Running, Out!AwaitPhases
<1>16. \A o : \A u \in Transfers : told'[u] = <<o>> => told[u] = <<o>> \/ (u = t /\ o \in {"failed", "pin"} /\ report[t] # "none")
  BY <1>7, OnceFacts
<1>17. Out!DoneIsComplete'
  BY <1>2, <1>16 DEF Out!DoneIsComplete
<1>18. Out!SuccessIsTrue'
  <2>1. <<>> # <<"done">>
    OBVIOUS
  <2>2. \A u \in Transfers : told[u] = <<"done">> => told'[u] = told[u]
    BY <1>4, <1>7, <2>1
  <2> QED BY <1>2, <2>2 DEF Out!SuccessIsTrue
<1>19. Out!CurrentIsLast'
  <2>1. \A u \in Transfers : task[u] # "none" \/ told'[u] = told[u]
    BY <1>4, <1>7
  <2> QED BY <1>2, <2>1 DEF Out!CurrentIsLast, Out!Sends
<1>20. Out!PromptFindsSlotFree'
  <2>1. \A u \in Transfers : told'[u] = <<"pin">> => told[u] = <<"pin">> \/ slot' = NoTransfer
    BY <1>5, <1>16
  <2>2. slot = NoTransfer => slot' = NoTransfer
    BY <1>5
  <2> QED BY <1>2, <2>1, <2>2 DEF Out!PromptFindsSlotFree, Out!Sends
<1>21. Out!PinRetryNotBusy'
  <2>1. \A o \in {"failed", "pin"} : \A i \in 1..Len(<<o>>) : <<o>>[i] # "busy"
    BY OnceFacts
  <2>2. retries \subseteq Transfers
    BY DEF Out!TypeOK
  <2> QED BY <1>2, <1>7, <2>1, <2>2 DEF Out!PinRetryNotBusy
<1> QED BY <1>1, <1>9, <1>10, <1>11, <1>12, <1>14, <1>15, <1>17, <1>18, <1>19, <1>20, <1>21

-----------------------------------------------------------------------------
(* The steps of the panel *)

\* The parts of the invariant that speak of the helper only.
HelperInv ==
  /\ Out!DoneIsGone /\ Out!OneOutcome /\ Out!ToldByOne /\ Out!EventsAreTold
  /\ Out!SlotCoversTask /\ Out!DoneIsComplete

\* They stay as they are while the panel writes a command or reads an event.
LEMMA PanelKeepsHelper ==
  ASSUME Out!TypeOK, HelperInv, UNCHANGED <<slot, done, cancelled, task, left, report, told>>,
         stdout' = stdout \/ Shrunk(stdout, stdout')
  PROVE  HelperInv'
<1> USE DEF HelperInv
<1>1. Out!EventsAreTold'
  <2>1. CASE stdout' = stdout
    BY <2>1 DEF Out!EventsAreTold
  <2>2. CASE Shrunk(stdout, stdout')
    BY <2>2 DEF Out!EventsAreTold, Shrunk
  <2> QED BY <2>1, <2>2
<1>2. Out!DoneIsGone' /\ Out!OneOutcome' /\ Out!ToldByOne' /\ Out!SlotCoversTask' /\ Out!DoneIsComplete'
  BY DEF Out!DoneIsGone, Out!OneOutcome, Out!ToldByOne, Out!SlotCoversTask, Out!DoneIsComplete
<1> QED BY <1>1, <1>2

\* What a command to send leaves of the parts about stdin, for a new id.
LEMMA DispatchKeepsInv ==
  ASSUME Out!IndInv, NEW t \in Transfers, Out!BeginOutgoing(t) \/ Out!RetryWithPin(t) PROVE Out!IndInv'
<1> USE DEF Out!IndInv
<1>1. Out!TypeOK'
  BY PanelTypes DEF Out!Panel
<1>2. /\ UNCHANGED <<slot, done, cancelled, task, left, report, told, stdout, view>>
      /\ result[t] = "unused" /\ result' = [result EXCEPT ![t] = "active"]
      /\ current' = t /\ pending' = TRUE
      /\ \/ ~pending /\ retries' = retries
         \/ pending /\ current = NoTransfer /\ retries' = retries \cup {t}
  BY DEF Out!TypeOK, Out!BeginOutgoing, Out!RetryWithPin, Out!Dispatch, Out!taskVars, Out!outVars
<1>3. Grown(stdin, stdin', Out!Command("send", t))
  <2>1. stdin' = Append(stdin, Out!Command("send", t)) /\ stdin \in Seq(Out!Commands)
    BY DEF Out!TypeOK, Out!BeginOutgoing, Out!RetryWithPin, Out!Dispatch
  <2> QED BY <2>1, ChannelFacts
<1>4. /\ \A i : Out!Sends(i)' =>
           \/ Out!Sends(i) /\ stdin'[i].id = stdin[i].id
           \/ i = Len(stdin) + 1 /\ stdin'[i].id = t
      /\ \A i \in 1..Len(stdin') :
           \/ i \in 1..Len(stdin) /\ stdin'[i].id = stdin[i].id
           \/ i = Len(stdin) + 1 /\ stdin'[i].id = t
      /\ Len(stdin) \in Nat /\ Len(stdin') = Len(stdin) + 1
  BY <1>3, StdinGrows
<1>5. HelperInv'
  BY <1>2, PanelKeepsHelper DEF HelperInv
<1>6. /\ task[t] = "none" /\ told[t] = <<>> /\ t \notin retries
      /\ \A i \in 1..Len(stdin) : stdin[i].id # t
  BY <1>2 DEF Out!UnusedIsNew
<1>7. current = NoTransfer /\ t # NoTransfer
  BY <1>2, ConstantsTrue DEF Out!OneActive
<1>8. /\ result'[t] = "active" /\ \A u \in Transfers : u # t => result'[u] = result[u]
  BY <1>2 DEF Out!TypeOK
<1>9. Out!OneActive' /\ Out!SendingNamesTransfer'
  BY <1>2, <1>7, <1>8, ConstantsTrue DEF Out!OneActive, Out!SendingNamesTransfer
<1>10. Out!UnusedIsNew'
  BY <1>2, <1>4, <1>8 DEF Out!UnusedIsNew
<1>11. Out!SendsAreNew'
  <2>1. \A i \in 1..Len(stdin') : Out!Sends(i)' => task[stdin'[i].id] = "none" /\ told[stdin'[i].id] = <<>>
    BY <1>4, <1>6 DEF Out!SendsAreNew, Out!Sends
  <2>2. ASSUME NEW i \in 1..Len(stdin'), NEW j \in 1..Len(stdin'), Out!Sends(i)', Out!Sends(j)',
               stdin'[i].id = stdin'[j].id
        PROVE  i = j
    BY <1>4, <1>6, <2>2 DEF Out!SendsAreNew, Out!Sends
  <2> QED BY <1>2, <2>1, <2>2 DEF Out!SendsAreNew
<1>12. Out!SuccessIsTrue'
  BY <1>2, <1>8 DEF Out!SuccessIsTrue
<1>13. Out!CurrentIsLast'
  <2>1. \A i, j \in 1..Len(stdin') : Out!Sends(i)' /\ Out!Sends(j)' /\ stdin'[i].id = t => j <= i
    BY <1>4, <1>6
  <2> QED BY <1>2, <1>6, <2>1 DEF Out!CurrentIsLast
<1>14. Out!PromptFindsSlotFree'
  <2>1. <<>> # <<"pin">>
    OBVIOUS
  <2>2. ASSUME NEW i \in 1..Len(stdin'), Out!Sends(i)', stdin'[i].id \in retries'
        PROVE  slot = NoTransfer /\ \A j \in 1..Len(stdin') : j < i => ~Out!Sends(j)'
    <3>1. CASE stdin'[i].id # t
      <4>1. Out!Sends(i) /\ i \in 1..Len(stdin) /\ stdin[i].id \in retries
        BY <1>2, <1>4, <2>2, <3>1 DEF Out!Sends
      <4>2. slot = NoTransfer /\ \A j \in 1..Len(stdin) : j < i => ~Out!Sends(j)
        BY <4>1 DEF Out!PromptFindsSlotFree
      <4> QED BY <1>4, <4>1, <4>2
    <3>2. CASE stdin'[i].id = t
      <4>1. slot = NoTransfer /\ \A j \in 1..Len(stdin) : ~Out!Sends(j)
        BY <1>2, <1>6, <2>2, <3>2 DEF Out!PromptFindsSlotFree
      <4> QED BY <1>4, <4>1
    <3> QED BY <3>1, <3>2
  <2> QED BY <1>2, <1>6, <1>7, <2>1, <2>2 DEF Out!PromptFindsSlotFree
<1>15. Out!PinRetryNotBusy'
  BY <1>2, <1>6, OnceFacts DEF Out!PinRetryNotBusy
<1> QED BY <1>1, <1>5, <1>9, <1>10, <1>11, <1>12, <1>13, <1>14, <1>15 DEF HelperInv

\* What the other actions of the panel do: no new transfer is opened, and the
\* one on the panel is kept, or let go of for a reason.
PanelEffect ==
  /\ UNCHANGED <<slot, done, cancelled, task, left, report, told, retries>>
  /\ stdout' = stdout \/ Shrunk(stdout, stdout')
  /\ Len(stdin) \in Nat /\ Len(stdin') \in Nat /\ Len(stdin) <= Len(stdin')
  /\ \A i : Out!Sends(i)' => Out!Sends(i) /\ stdin'[i].id = stdin[i].id
  /\ \A i \in 1..Len(stdin') :
       \/ i \in 1..Len(stdin) /\ stdin'[i].id = stdin[i].id
       \/ current # NoTransfer /\ stdin'[i].id = current
  /\ \/ current' = current /\ result' = result /\ pending' = pending
     \/ /\ current' = NoTransfer
        /\ \/ current = NoTransfer /\ result' = result
           \/ /\ current # NoTransfer
              /\ \E how \in {"success", "error", "prompted", "abandoned"} :
                   /\ result' = [result EXCEPT ![current] = how]
                   /\ how = "success" => told[current] = <<"done">>
        /\ pending' => current # NoTransfer /\ told[current] = <<"pin">>
  /\ Out!SendingNamesTransfer'

\* Cancelling, leaving the prompt, a failing reader and reading an event.
LEMMA PanelEffects ==
  ASSUME Out!IndInv, Out!CancelOutgoing \/ Out!CancelPin \/ Out!ChooserFails \/ Out!HandleEvent
  PROVE  PanelEffect
<1> USE DEF Out!IndInv
<1>1. stdin \in Seq(Out!Commands) /\ Len(stdin) \in Nat
  BY DEF Out!TypeOK
<1>2. \A i : Out!Sends(i) => i \in 1..Len(stdin)
  BY DEF Out!Sends
<1>3. ASSUME current \in Transfers, stdin' = Append(stdin, Out!Command("cancel", current))
      PROVE  /\ Len(stdin') \in Nat /\ Len(stdin) <= Len(stdin')
             /\ \A i : Out!Sends(i)' => Out!Sends(i) /\ stdin'[i].id = stdin[i].id
             /\ \A i \in 1..Len(stdin') :
                  \/ i \in 1..Len(stdin) /\ stdin'[i].id = stdin[i].id
                  \/ stdin'[i].id = current
  <2>1. Grown(stdin, stdin', Out!Command("cancel", current))
    <3>1. \A e : Grown(stdin, Append(stdin, e), e)
      BY <1>1, ChannelFacts
    <3> QED BY <1>3, <3>1
  <2>2. /\ \A i : Out!Sends(i)' =>
              \/ Out!Sends(i) /\ stdin'[i].id = stdin[i].id
              \/ i = Len(stdin) + 1 /\ stdin'[i].id = current /\ "cancel" = "send"
        /\ \A i \in 1..Len(stdin') :
              \/ i \in 1..Len(stdin) /\ stdin'[i].id = stdin[i].id
              \/ i = Len(stdin) + 1 /\ stdin'[i].id = current
        /\ Len(stdin) \in Nat /\ Len(stdin') = Len(stdin) + 1
    BY <1>3, <2>1, StdinGrows
  <2> QED BY <2>2
<1>4. ASSUME stdin' = stdin
      PROVE  \A i : Out!Sends(i)' => Out!Sends(i) /\ stdin'[i].id = stdin[i].id
  BY <1>4 DEF Out!Sends
<1>5. CASE Out!CancelOutgoing
  <2>1. current \in Transfers /\ current # NoTransfer
    BY <1>5, ConstantsTrue DEF Out!SendingNamesTransfer, Out!CancelOutgoing
  <2>2. UNCHANGED <<pending, current, view, retries, result, slot, done, cancelled, task, left, report, told, stdout>>
    BY <1>5 DEF Out!CancelOutgoing, Out!panelVars, Out!taskVars, Out!outVars
  <2>3. Out!SendingNamesTransfer'
    BY <2>2 DEF Out!SendingNamesTransfer
  <2>4. stdin' = Append(stdin, Out!Command("cancel", current))
    BY <1>5 DEF Out!CancelOutgoing
  <2> QED BY <1>1, <1>3, <2>1, <2>2, <2>3, <2>4 DEF PanelEffect
<1>6. CASE Out!CancelPin
  <2>1. /\ UNCHANGED <<slot, done, cancelled, task, left, report, told, stdout, retries>>
        /\ pending' = FALSE /\ current' = NoTransfer /\ view' = "elsewhere"
    BY <1>6 DEF Out!CancelPin, Out!taskVars, Out!outVars
  <2>2. Out!SendingNamesTransfer'
    BY <2>1 DEF Out!SendingNamesTransfer
  <2>3. CASE current = NoTransfer
    <3>1. stdin' = stdin /\ result' = result
      BY <1>6, <2>3 DEF Out!CancelPin
    <3> QED BY <1>1, <1>4, <2>1, <2>2, <2>3, <3>1 DEF PanelEffect
  <2>4. CASE current # NoTransfer
    <3>1. current \in Transfers
      BY <2>4 DEF Out!TypeOK
    <3>2. /\ stdin' = Append(stdin, Out!Command("cancel", current))
          /\ result' = [result EXCEPT ![current] = "abandoned"]
      BY <1>6, <2>4 DEF Out!CancelPin
    <3>3. \E how \in {"success", "error", "prompted", "abandoned"} :
            /\ result' = [result EXCEPT ![current] = how]
            /\ how = "success" => told[current] = <<"done">>
      BY <3>2
    <3> QED BY <1>1, <1>3, <2>1, <2>2, <2>4, <3>1, <3>2, <3>3 DEF PanelEffect
  <2> QED BY <2>3, <2>4
<1>7. CASE Out!ChooserFails
  <2>1. /\ UNCHANGED <<pending, current, retries, result, stdin, slot, done, cancelled, task, left, report, told, stdout>>
        /\ view' = "elsewhere"
    BY <1>7 DEF Out!ChooserFails, Out!taskVars, Out!outVars
  <2>2. Out!SendingNamesTransfer'
    BY <2>1 DEF Out!SendingNamesTransfer
  <2> QED BY <1>1, <1>4, <2>1, <2>2 DEF PanelEffect
<1>8. CASE Out!HandleEvent
  <2> DEFINE e == Head(stdout)
  <2>1. /\ Shrunk(stdout, stdout') /\ e = stdout[1] /\ e \in Out!Events
        /\ UNCHANGED <<stdin, slot, done, cancelled, task, left, report, told>>
    BY <1>8, ChannelFacts DEF Out!TypeOK, Out!HandleEvent, Out!taskVars
  <2>2. e.id \in Transfers /\ (e.event \in Out!Outcomes => told[e.id] = <<e.event>>)
    <3>1. 1 \in 1..Len(stdout)
      BY <2>1 DEF Shrunk
    <3>2. e.id \in Transfers
      BY <2>1 DEF Out!Events
    <3> QED BY <2>1, <3>1, <3>2 DEF Out!EventsAreTold
  <2>3. CASE ~Out!Mine(e)
    <3>1. UNCHANGED <<pending, current, view, retries, result>>
      BY <1>8, <2>3 DEF Out!HandleEvent, Out!panelVars
    <3>2. Out!SendingNamesTransfer'
      BY <3>1 DEF Out!SendingNamesTransfer
    <3> QED BY <1>1, <1>4, <2>1, <3>1, <3>2 DEF PanelEffect
  <2>4. CASE Out!Mine(e) /\ e.event \in {"preparing", "progress"}
    <3>1. UNCHANGED <<pending, current, retries, result>>
      BY <1>8, <2>4 DEF Out!HandleEvent, Out!Finish, Out!ShowPinPrompt
    <3>2. current \in Transfers
      BY <2>2, <2>4 DEF Out!Mine
    <3>3. Out!SendingNamesTransfer'
      BY <3>1, <3>2, ConstantsTrue DEF Out!SendingNamesTransfer, Out!OneActive
    <3> QED BY <1>1, <1>4, <2>1, <3>1, <3>3 DEF PanelEffect
  <2>5. CASE Out!Mine(e) /\ e.event \notin {"preparing", "progress"}
    <3>1. current = e.id /\ current \in Transfers /\ current # NoTransfer /\ e.event \in Out!Outcomes
      BY <2>1, <2>2, <2>5, ConstantsTrue DEF Out!Mine, Out!Events
    <3>2. \E how \in {"success", "error", "prompted", "abandoned"} :
            /\ result' = [result EXCEPT ![current] = how]
            /\ how = "success" => e.event = "done"
      BY <1>8, <2>5 DEF Out!HandleEvent, Out!Finish, Out!ShowPinPrompt
    <3>3. /\ current' = NoTransfer /\ view' # "sending" /\ retries' = retries
          /\ pending' => e.event = "pin"
      BY <1>8, <2>5 DEF Out!HandleEvent, Out!Finish, Out!ShowPinPrompt
    <3>4. Out!SendingNamesTransfer'
      <4>1. view' # "sending"
        BY <3>3
      <4> QED BY <4>1, Zenon DEF Out!SendingNamesTransfer
    <3>5. told[current] = <<e.event>>
      BY <2>2, <3>1
    <3>6. pending' => told[current] = <<"pin">>
      BY <3>3, <3>5
    <3>7. \E how \in {"success", "error", "prompted", "abandoned"} :
            /\ result' = [result EXCEPT ![current] = how]
            /\ how = "success" => told[current] = <<"done">>
      BY <3>2, <3>5
    <3> HIDE DEF e
    <3>8. /\ Len(stdin') \in Nat /\ Len(stdin) <= Len(stdin')
          /\ \A i : Out!Sends(i)' => Out!Sends(i) /\ stdin'[i].id = stdin[i].id
          /\ \A i \in 1..Len(stdin') : i \in 1..Len(stdin) /\ stdin'[i].id = stdin[i].id
      BY <1>1, <1>4, <2>1
    <3> QED BY <1>1, <2>1, <3>1, <3>3, <3>4, <3>6, <3>7, <3>8, Zenon DEF PanelEffect
  <2> QED BY <2>3, <2>4, <2>5
<1> QED BY <1>5, <1>6, <1>7, <1>8

\* They keep the invariant.
LEMMA PanelKeepsInv ==
  ASSUME Out!IndInv, Out!CancelOutgoing \/ Out!CancelPin \/ Out!ChooserFails \/ Out!HandleEvent PROVE Out!IndInv'
<1> USE DEF Out!IndInv
<1>0. PanelEffect
  BY PanelEffects
<1>1. Out!TypeOK'
  BY PanelTypes DEF Out!Panel
<1>2. UNCHANGED <<slot, done, cancelled, task, left, report, told, retries>>
  BY <1>0 DEF PanelEffect
<1>3. HelperInv'
  BY <1>0, PanelKeepsHelper DEF PanelEffect, HelperInv
<1>4. current = NoTransfer \/ current \in Transfers
  BY DEF Out!TypeOK
<1>5. /\ \A u \in Transfers : u # current => result'[u] = result[u]
      /\ \/ current' = current /\ result' = result
         \/ /\ current' = NoTransfer
            /\ current # NoTransfer =>
                 /\ result'[current] \in {"success", "error", "prompted", "abandoned"}
                 /\ result'[current] = "success" => told[current] = <<"done">>
  <2>1. CASE result' = result
    BY <1>0, <2>1 DEF PanelEffect, Out!TypeOK
  <2>2. ASSUME NEW how \in {"success", "error", "prompted", "abandoned"}, current \in Transfers,
               result' = [result EXCEPT ![current] = how]
        PROVE  result'[current] = how /\ \A u \in Transfers : u # current => result'[u] = result[u]
    BY <2>2 DEF Out!TypeOK
  <2> QED BY <1>0, <1>4, <2>1, <2>2 DEF PanelEffect
<1>6. Out!OneActive'
  <2>1. \A u \in Transfers : u # NoTransfer
    BY ConstantsTrue
  <2>2. current' # NoTransfer => pending'
    BY <1>0 DEF PanelEffect, Out!OneActive
  <2>3. \A u \in Transfers : result'[u] = "active" <=> current' = u
    BY <1>5, <2>1 DEF Out!OneActive
  <2> QED BY <2>2, <2>3 DEF Out!OneActive
<1>7. current \in Transfers => result[current] = "active"
  BY DEF Out!OneActive
<1>8. Out!UnusedIsNew'
  <2>1. \A u \in Transfers : result'[u] = "unused" => result[u] = "unused" /\ u # current
    BY <1>5, <1>7, ConstantsTrue
  <2> QED BY <1>0, <1>2, <2>1 DEF Out!UnusedIsNew, PanelEffect
<1>9. \A i \in 1..Len(stdin') : Out!Sends(i)' => i \in 1..Len(stdin) /\ Out!Sends(i) /\ stdin'[i].id = stdin[i].id
  BY <1>0 DEF PanelEffect, Out!Sends
<1>10. Out!SendsAreNew'
  BY <1>2, <1>9 DEF Out!SendsAreNew
<1>11. Out!SuccessIsTrue'
  <2>1. \A u \in Transfers : result'[u] = "success" => told[u] = <<"done">> /\ left[u] = 0
    BY <1>5, <1>7, ConstantsTrue DEF Out!SuccessIsTrue, Out!DoneIsComplete
  <2> QED BY <1>2, <2>1 DEF Out!SuccessIsTrue
<1>12. Out!CurrentIsLast'
  <2>1. \A u \in Transfers : current' = u => current = u
    BY <1>5, ConstantsTrue
  <2> QED BY <1>2, <1>9, <2>1 DEF Out!CurrentIsLast
<1>13. Out!PromptFindsSlotFree'
  <2>1. \A u \in Transfers : current' = u => current = u
    BY <1>5, ConstantsTrue
  <2>2. pending' /\ current' = NoTransfer =>
          slot = NoTransfer /\ \A i \in 1..Len(stdin) : ~Out!Sends(i)
    <3>1. <<"pin">> # <<>>
      OBVIOUS
    <3>2. current \in Transfers /\ told[current] = <<"pin">> =>
            slot = NoTransfer /\ \A i \in 1..Len(stdin) : ~Out!Sends(i)
      BY <3>1 DEF Out!CurrentIsLast, Out!PromptFindsSlotFree
    <3>3. pending /\ current = NoTransfer =>
            slot = NoTransfer /\ \A i \in 1..Len(stdin) : ~Out!Sends(i)
      BY DEF Out!PromptFindsSlotFree
    <3> QED BY <1>0, <1>4, <3>2, <3>3 DEF PanelEffect
  <2>3. \A i \in 1..Len(stdin') : Out!Sends(i)' /\ stdin'[i].id \in retries =>
          slot = NoTransfer /\ \A j \in 1..Len(stdin') : j < i => ~Out!Sends(j)'
    BY <1>9 DEF Out!PromptFindsSlotFree
  <2> QED BY <1>2, <1>9, <2>1, <2>2, <2>3 DEF Out!PromptFindsSlotFree
<1>14. Out!PinRetryNotBusy' /\ Out!SendingNamesTransfer'
  BY <1>0, <1>2 DEF Out!PinRetryNotBusy, PanelEffect
<1> QED BY <1>1, <1>3, <1>6, <1>8, <1>10, <1>11, <1>12, <1>13, <1>14 DEF HelperInv

-----------------------------------------------------------------------------
(* Theorems *)

\* The initial states satisfy the invariant.
LEMMA InitInv == Out!Init => Out!IndInv
<1> SUFFICES ASSUME Out!Init PROVE Out!IndInv
  OBVIOUS
<1>1. Out!TypeOK
  <2>1. <<>> \in Seq(Out!Commands) /\ <<>> \in Seq(Transfers) /\ <<>> \in Seq(Out!Outcomes) /\ <<>> \in Seq(Out!Events)
    OBVIOUS
  <2>2. 0 \in 0..MaxFiles
    BY ConstantsTrue
  <2> QED BY <2>1, <2>2 DEF Out!Init, Out!TypeOK, Out!Views, Out!Results, Out!TaskPhases
<1>2. Len(stdin) = 0 /\ Len(done) = 0 /\ Len(stdout) = 0 /\ Len(<<>>) = 0 /\ <<>> # <<"done">>
  BY DEF Out!Init
<1>3. Out!OneActive /\ Out!UnusedIsNew /\ Out!SendsAreNew /\ Out!DoneIsGone
  BY <1>2, ConstantsTrue DEF Out!Init, Out!OneActive, Out!UnusedIsNew, Out!SendsAreNew,
     Out!DoneIsGone
<1>4. Out!ToldByOne /\ Out!EventsAreTold /\ Out!SlotCoversTask /\ Out!OneOutcome
  BY <1>2 DEF Out!Init, Out!ToldByOne, Out!EventsAreTold, Out!SlotCoversTask, Out!Running,
     Out!AwaitPhases, Out!OneOutcome
<1>5. Out!DoneIsComplete /\ Out!SuccessIsTrue /\ Out!SendingNamesTransfer /\ Out!PinRetryNotBusy
  BY <1>2 DEF Out!Init, Out!DoneIsComplete, Out!SuccessIsTrue, Out!SendingNamesTransfer,
     Out!PinRetryNotBusy
<1>6. Out!CurrentIsLast /\ Out!PromptFindsSlotFree
  BY <1>2, ConstantsTrue DEF Out!Init, Out!CurrentIsLast, Out!PromptFindsSlotFree
<1> QED BY <1>1, <1>3, <1>4, <1>5, <1>6 DEF Out!IndInv

\* Every step keeps the invariant.
LEMMA NextInv == Out!IndInv /\ (Out!Next \/ UNCHANGED sending) => Out!IndInv'
<1> SUFFICES ASSUME Out!IndInv, Out!Next \/ UNCHANGED sending PROVE Out!IndInv'
  OBVIOUS
<1>1. CASE Out!Panel
  <2>1. ASSUME NEW t \in Transfers, Out!BeginOutgoing(t) \/ Out!RetryWithPin(t) PROVE Out!IndInv'
    BY <2>1, DispatchKeepsInv
  <2>2. CASE Out!CancelOutgoing \/ Out!CancelPin \/ Out!ChooserFails \/ Out!HandleEvent
    BY <2>2, PanelKeepsInv
  <2> QED BY <1>1, <2>1, <2>2 DEF Out!Panel
<1>2. CASE Out!Loop
  BY <1>2, ReportKeepsInv, CommandKeepsInv DEF Out!Loop
<1>3. ASSUME NEW t \in Transfers, Out!Task(t) PROVE Out!IndInv'
  BY <1>3, TaskKeepsInv
<1>4. CASE UNCHANGED sending
  BY <1>4 DEF sending, Out!IndInv, Out!TypeOK, Out!OneActive, Out!UnusedIsNew,
     Out!SendsAreNew, Out!DoneIsGone, Out!OneOutcome, Out!ToldByOne, Out!EventsAreTold,
     Out!SlotCoversTask,
     Out!DoneIsComplete, Out!SuccessIsTrue, Out!SendingNamesTransfer, Out!CurrentIsLast,
     Out!PromptFindsSlotFree, Out!PinRetryNotBusy, Out!Sends
<1> QED BY <1>1, <1>2, <1>3, <1>4 DEF Out!Next

\* The inductive invariant holds of every behaviour.
THEOREM Invariance == ServiceSpec => []Out!IndInv
<1>1. Out!IndInv /\ [ServiceNext]_service_vars => Out!IndInv'
  <2>1. [ServiceNext]_service_vars => Out!Next \/ UNCHANGED sending
    BY DEF ServiceNext, service_vars
  <2> QED BY <2>1, NextInv
<1>2. ServiceInit => Out!IndInv
  BY InitInv DEF ServiceInit
<1> QED BY <1>1, <1>2, PTL DEF ServiceSpec

\* Every transfer has at most one outcome, whichever of the network, the user
\* and the command loop settles it.
THEOREM Outcome == ServiceSpec => []OneOutcome
<1>1. Out!IndInv => OneOutcome
  BY DEF Out!IndInv, OneOutcome
<1> QED BY <1>1, Invariance, PTL

\* A task that runs is the one in the slot, or is being cancelled.
THEOREM Covered == ServiceSpec => []SlotCoversTask
<1>1. Out!IndInv => SlotCoversTask
  BY DEF Out!IndInv, SlotCoversTask
<1> QED BY <1>1, Invariance, PTL

\* A retry with a PIN is never refused as busy.
THEOREM Retries == ServiceSpec => []PinRetryNotBusy
<1>1. Out!IndInv => PinRetryNotBusy
  BY DEF Out!IndInv, PinRetryNotBusy
<1> QED BY <1>1, Invariance, PTL

\* A success the panel shows is that transfer's, with every file sent.
THEOREM Success == ServiceSpec => []SuccessIsTrue
<1>1. Out!IndInv => SuccessIsTrue
  BY DEF Out!IndInv, SuccessIsTrue
<1> QED BY <1>1, Invariance, PTL

\* While the panel shows a transfer its Cancel button names it.
THEOREM Naming == ServiceSpec => []Out!SendingNamesTransfer
<1>1. Out!IndInv => Out!SendingNamesTransfer
  BY DEF Out!IndInv
<1> QED BY <1>1, Invariance, PTL
=============================================================================
