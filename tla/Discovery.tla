------------------------------ MODULE Discovery ------------------------------
(***************************************************************************)
(* Active discovery: the service that asks for it (src/Service.qml         *)
(* 242-251, 395-399, 655-656), the command loop that keeps one round       *)
(* (src/backend/src/main.rs 1447-1451) and the rounds, each a task         *)
(* (594-800).  Commands and events are FIFO pipes; a round that was told   *)
(* to stop goes on until it is polled, and tells its own end.              *)
(***************************************************************************)
EXTENDS Naturals, Sequences, FiniteSets

CONSTANTS
    Round, NoRound,          \* bound: tasks of rounds there are at once
    MaxViews,                \* popups: one per monitor
    MaxCommands, MaxEvents   \* bounds: what the pipes between the two hold

ASSUME BoundsAssumption == {MaxViews, MaxCommands, MaxEvents} \subseteq Nat \ {0}
ASSUME RoundAssumption == NoRound \notin Round

Stage == {"none", "announce", "grace", "fallback", "probe", "scan", "done"}
Running == {"announce", "grace", "fallback", "probe", "scan", "done"}
View == {"nearby", "target", "terminal"}  \* terminal: any view that Done leaves

VARIABLES
    open, view, active,   \* service: popups open, view, discoveryActive
    commands,             \* to the helper: "start", "rescan", "stop"
    control,              \* loop: the round it has the stop channel of
    round,                \* the tasks
    output                \* to the service: "started", "stopped"

panel == <<open, view, active>>
vars == <<panel, commands, control, round, output>>

RoundState ==
    [stage : Stage, forced : BOOLEAN, stopping : BOOLEAN,
     heard : BOOLEAN,      \* a peer was heard of before the grace period was over
     cached : BOOLEAN,     \* there are known peers to probe
     confirmed : BOOLEAN,  \* one of them has answered
     failed : BOOLEAN]     \* no client, or no interfaces

Unused == [stage |-> "none", forced |-> FALSE, stopping |-> FALSE, heard |-> FALSE,
           cached |-> FALSE, confirmed |-> FALSE, failed |-> FALSE]

\* The types; a confirmed round has known peers and is not forced.
TypeOK ==
    /\ open \in 0..MaxViews /\ view \in View /\ active \in BOOLEAN
    /\ commands \in Seq({"start", "rescan", "stop"})
    /\ output \in Seq({"started", "stopped"})
    /\ control \in Round \cup {NoRound} /\ round \in [Round -> RoundState]
    /\ \A r \in Round : round[r].confirmed => round[r].cached /\ ~round[r].forced

Init ==
    /\ open = 0 /\ view = "nearby" /\ active = FALSE
    /\ commands = <<>> /\ output = <<>>
    /\ control = NoRound /\ round = [r \in Round |-> Unused]

-----------------------------------------------------------------------------
(* The service *)

Ask(command) ==
    /\ Len(commands) < MaxCommands
    /\ commands' = Append(commands, command)
    /\ active' = (command # "stop")

AskNothing == UNCHANGED <<active, commands>>

viewOpened ==
    /\ open < MaxViews /\ open' = open + 1
    /\ IF open = 0 /\ view = "nearby" THEN Ask("start") ELSE AskNothing
    /\ UNCHANGED <<view, control, round, output>>

viewClosed ==
    /\ open > 0 /\ open' = open - 1
    /\ IF open = 1 THEN Ask("stop") ELSE AskNothing
    /\ UNCHANGED <<view, control, round, output>>

forceFullDiscovery ==
    /\ open > 0 /\ view = "nearby"
    /\ Ask("rescan")
    /\ UNCHANGED <<open, view, control, round, output>>

chooseDevice ==
    /\ open > 0 /\ view = "nearby" /\ view' = "target"
    /\ AskNothing /\ UNCHANGED <<open, control, round, output>>

clearTarget ==
    /\ open > 0 /\ view = "target" /\ view' = "nearby"
    /\ AskNothing /\ UNCHANGED <<open, control, round, output>>

\* outgoing_preparing or incoming_text takes the view, popup open or not.
TakesView ==
    /\ view # "terminal" /\ view' = "terminal"
    /\ Ask("stop") /\ UNCHANGED <<open, control, round, output>>

finishTerminal ==
    /\ open > 0 /\ view = "terminal" /\ view' = "nearby"
    /\ Ask("start") /\ UNCHANGED <<open, control, round, output>>

ReadEvent ==
    /\ output # <<>> /\ output' = Tail(output)
    /\ active' = (Head(output) = "started")
    /\ UNCHANGED <<open, view, commands, control, round>>

-----------------------------------------------------------------------------
(* The command loop *)

Tells(event) == Len(output) < MaxEvents /\ output' = Append(output, event)

Fresh(r) == round[r] = Unused

Began(rs, r, forced) ==
    /\ control' = r
    /\ round' = [rs EXCEPT ![r].stage = "announce", ![r].forced = forced]
    /\ Tells("started")

Stopped == IF control = NoRound THEN round ELSE [round EXCEPT ![control].stopping = TRUE]

\* A rescan stops the round there is; a start leaves it, if there is one.
DiscoveryStart ==
    /\ commands # <<>> /\ Head(commands) # "stop" /\ commands' = Tail(commands)
    /\ LET forced == Head(commands) = "rescan" IN
       IF control # NoRound /\ ~forced THEN UNCHANGED <<control, round, output>>
       ELSE \E r \in Round : Fresh(r) /\ Began(Stopped, r, forced)
    /\ UNCHANGED panel

DiscoveryStop ==
    /\ commands # <<>> /\ Head(commands) = "stop" /\ commands' = Tail(commands)
    /\ round' = Stopped /\ control' = NoRound
    /\ UNCHANGED <<panel, output>>

\* What the grace period looks for at its end: a peer recorded since the round began.
PeerHeard ==
    /\ round' = [r \in Round |-> IF round[r].stage \in {"announce", "grace"}
                                   THEN [round[r] EXCEPT !.heard = TRUE] ELSE round[r]]
    /\ UNCHANGED <<panel, commands, control, output>>

-----------------------------------------------------------------------------
(* A round *)

Moves(r, from, to) ==
    /\ round[r].stage = from
    /\ round' = [round EXCEPT ![r] = to]
    /\ UNCHANGED <<panel, commands, control, output>>

At(r, stage) == [round[r] EXCEPT !.stage = stage]

\* The first announcement; its failure is only logged.
Announced(r) == Moves(r, "announce", At(r, "grace"))

\* The grace period is over, beside the repeated announcements or after them: a peer
\* of this round is enough, unless forced.
GraceEnds(r) ==
    Moves(r, "grace",
          At(r, IF round[r].heard /\ ~round[r].forced THEN "done" ELSE "fallback"))

\* The HTTP client and the interfaces; then the known peers to probe, of which a
\* forced round takes none.
Fallback(r) ==
    \/ Moves(r, "fallback", [At(r, "done") EXCEPT !.failed = TRUE])
    \/ \E cached \in BOOLEAN :
          Moves(r, "fallback", [At(r, "probe") EXCEPT !.cached = cached /\ ~round[r].forced])

\* A known peer answers, and is recorded: another round may hear of it.
Confirmed(r) ==
    /\ round[r].stage = "probe" /\ round[r].cached /\ ~round[r].confirmed
    /\ round' = [q \in Round |->
          [round[q] EXCEPT !.heard = @ \/ round[q].stage \in {"announce", "grace"},
                           !.confirmed = @ \/ q = r]]
    /\ UNCHANGED <<panel, commands, control, output>>

HastyProbed(r) == Moves(r, "probe", At(r, IF round[r].cached THEN "done" ELSE "scan"))

\* remaining_subnet_targets: the whole subnet is scanned unless a known peer answered.
Probed(r) ==
    Moves(r, "probe",
          At(r, IF ~round[r].forced /\ round[r].confirmed THEN "done" ELSE "scan"))

Scanned(r) == Moves(r, "scan", At(r, "done"))

MuteStop(r) ==
    /\ round[r].stage \in Running /\ round[r].stopping
    /\ round' = [round EXCEPT ![r] = Unused]
    /\ IF round[r].stage = "done" THEN Tells("stopped") ELSE UNCHANGED output
    /\ UNCHANGED <<panel, commands, control>>

\* The task sees the stop: while it works, or once it has finished and waits for it.
Stop(r) ==
    /\ round[r].stage \in Running /\ round[r].stopping
    /\ round' = [round EXCEPT ![r] = Unused]
    /\ Tells("stopped")
    /\ UNCHANGED <<panel, commands, control>>

Task(r) ==
    \/ Announced(r) \/ GraceEnds(r) \/ Fallback(r) \/ Probed(r) \/ Scanned(r) \/ Stop(r)

Next ==
    \/ viewOpened \/ viewClosed \/ forceFullDiscovery \/ chooseDevice \/ clearTarget
    \/ TakesView \/ finishTerminal \/ ReadEvent
    \/ DiscoveryStart \/ DiscoveryStop \/ PeerHeard
    \/ \E r \in Round : Task(r) \/ Confirmed(r)

Spec == Init /\ [][Next]_vars

\* The loop reads its commands, each await of a round ends (they have timeouts), and
\* the service reads what it is told.
FairSpec ==
    /\ Spec
    /\ WF_vars(DiscoveryStart) /\ WF_vars(DiscoveryStop) /\ WF_vars(ReadEvent)
    /\ \A r \in Round : WF_vars(Task(r))

-----------------------------------------------------------------------------
(* Properties *)

\* main.rs:1447-1451: of the rounds at work all but the loop's own were told to stop,
\* and it can still stop that one.
OneRound ==
    \A r \in Round : round[r].stage \in Running => (round[r].stopping <=> r # control)

\* docs/ARCHITECTURE.md:82-85, 93-94: the subnet is scanned only as a last resort, when
\* no peer was heard of in the grace period and no known one confirmed, or if forced.
LastResort ==
    \A r \in Round :
        /\ round[r].stage = "grace" /\ round'[r].stage = "fallback"
              => ~round[r].heard \/ round[r].forced
        /\ round[r].stage # "scan" /\ round'[r].stage = "scan"
              => round[r].forced \/ ~round[r].confirmed

\* Service.qml:655-656: with nothing on its way, a panel that says it is looking for
\* devices is right.
LooksWhenItSaysSo == active /\ commands = <<>> /\ output = <<>> /\
    (\A r \in Round : round[r].stage \in Running => ~round[r].stopping) => control # NoRound

\* main.rs:1439-1519: rounds are orderly: the loop can stop each of them, or has told it
\* to stop, none scans without need, and the panel is not wrong about them for long.
RoundsAreOrderly == [][TypeOK' /\ OneRound' /\ LooksWhenItSaysSo' /\ LastResort]_vars

\* docs/ARCHITECTURE.md:87-88, 93-94: a round that is not stopped scans the subnet if it
\* is forced, or no peer was confirmed; unless it has no client or no interfaces.
Escalates ==
    \A r \in Round :
        round[r].stage = "announce"
            ~> \/ round[r].stage = "scan" \/ round[r].stopping \/ round[r].failed
               \/ ~round[r].forced /\ (round[r].heard \/ round[r].confirmed)

\* docs/USAGE.md:99: all popups closed, only passive discovery is left.
ClosedIsPassive ==
    open = 0 ~> (open > 0 \/ \A r \in Round : round[r].stage \notin Running)

\* main.rs:594-800, 1537-1549: each round comes to its end, by itself or when it is told.
RoundsEnd == ClosedIsPassive /\ Escalates

\* docs/USAGE.md:100: "Nearby on, a popup open | Active discovery also runs"; here
\* only for a popup that shows the list of devices, and only that it was asked for.
OpenLooks == open > 0 /\ view = "nearby" /\ commands = <<>> => control # NoRound

=============================================================================
