-------------------------- MODULE Discovery_proofs --------------------------
(***************************************************************************)
(* Proofs about Discovery, for any rounds, popups and sizes of the pipes.  *)
(***************************************************************************)
EXTENDS Discovery, TLAPS

\* The round whose stop channel the loop has is at work; a peer is confirmed only of
\* those that were to be probed, which a forced round does not do.
RoundsInv ==
  /\ control # NoRound => round[control].stage \in Running
  /\ \A r \in Round :
        /\ round[r].cached => ~round[r].forced
        /\ round[r].confirmed => round[r].stage \in {"probe", "scan", "done"}

AtWork == \E r \in Round : round[r].stage \in Running
Last(seq) == seq[Len(seq)]

\* What the loop will have come to when it has read its commands: a round, or none.
Intends == IF commands = <<>> THEN control # NoRound ELSE Last(commands) # "stop"

\* A round told of is at work until it has told its end; once no round is wanted, the
\* panel says so, or an end is on its way to it, or there is a round that will tell one.
ToldInv ==
  /\ output # <<>> /\ Last(output) = "started" => AtWork
  /\ ~Intends =>
       \/ AtWork
       \/ output # <<>> /\ Last(output) = "stopped"
       \/ output = <<>> /\ ~active

IndInv == TypeOK /\ OneRound /\ RoundsInv /\ ToldInv

-----------------------------------------------------------------------------
(* Pipes *)

\* What is last in a pipe that something was put in, or something else taken from.
LEMMA LastOfAppend ==
  ASSUME NEW S, NEW seq \in Seq(S), NEW x \in S
  PROVE  /\ Append(seq, x) \in Seq(S) /\ Append(seq, x) # <<>>
         /\ Last(Append(seq, x)) = x
BY DEF Last

LEMMA LastOfTail ==
  ASSUME NEW S, NEW seq \in Seq(S), seq # <<>>
  PROVE  /\ Tail(seq) \in Seq(S) /\ Head(seq) \in S
         /\ Tail(seq) = <<>> => Last(seq) = Head(seq)
         /\ Tail(seq) # <<>> => Last(Tail(seq)) = Last(seq)
<1>1. /\ Tail(seq) \in Seq(S) /\ Head(seq) \in S
      /\ Len(seq) \in Nat \ {0} /\ Len(Tail(seq)) = Len(seq) - 1 /\ Head(seq) = seq[1]
      /\ \A i \in 1..Len(Tail(seq)) : Tail(seq)[i] = seq[i + 1]
  OBVIOUS
<1>2. Tail(seq) = <<>> => Len(seq) = 1
  BY <1>1
<1>3. Tail(seq) # <<>> => Len(Tail(seq)) \in 1..Len(Tail(seq))
  <2>1. \A t \in Seq(S) : Len(t) = 0 => t = <<>>
    OBVIOUS
  <2>. QED
    BY <1>1, <2>1
<1>4. Tail(seq) # <<>> => Last(Tail(seq)) = seq[(Len(seq) - 1) + 1]
  BY <1>1, <1>3 DEF Last
<1>5. (Len(seq) - 1) + 1 = Len(seq)
  BY <1>1
<1>. QED
  BY <1>1, <1>2, <1>4, <1>5 DEF Last

-----------------------------------------------------------------------------
(* The service *)

\* It says that it looks for devices as it asks for that, and touches no round.
LEMMA ServiceInv ==
  ASSUME IndInv, UNCHANGED <<control, round, output>>,
         open' \in 0..MaxViews, view' \in View,
         \/ AskNothing
         \/ \E c \in {"start", "rescan", "stop"} : Ask(c)
  PROVE  IndInv'
<1>1. OneRound' /\ RoundsInv' /\ (AtWork <=> AtWork')
  BY DEF IndInv, OneRound, RoundsInv, AtWork
<1>2. CASE AskNothing
  <2>1. TypeOK'
    BY <1>2 DEF IndInv, TypeOK, AskNothing
  <2>2. ToldInv'
    BY <1>1, <1>2 DEF IndInv, ToldInv, Intends, AskNothing
  <2>. QED
    BY <1>1, <2>1, <2>2 DEF IndInv
<1>3. ASSUME NEW c \in {"start", "rescan", "stop"}, Ask(c)
      PROVE  IndInv'
  <2>1. /\ commands' \in Seq({"start", "rescan", "stop"}) /\ commands' # <<>>
        /\ Last(commands)' = c /\ active' = (c # "stop")
    BY <1>3, LastOfAppend DEF IndInv, TypeOK, Ask
  <2>2. TypeOK'
    BY <2>1 DEF IndInv, TypeOK
  <2>3. ToldInv'
    <3>1. output # <<>> => Last(output) \in {"started", "stopped"}
      BY DEF IndInv, TypeOK, Last
    <3>. QED
      BY <1>1, <2>1, <3>1 DEF IndInv, ToldInv, Intends
  <2>. QED
    BY <1>1, <2>2, <2>3 DEF IndInv
<1>. QED
  BY <1>2, <1>3

LEMMA ReadEventInv ==
  ASSUME IndInv, ReadEvent
  PROVE  IndInv'
<1>1. /\ output' \in Seq({"started", "stopped"})
      /\ output' = <<>> => active' = (Last(output) = "started")
      /\ output' # <<>> => Last(output)' = Last(output)
  BY LastOfTail DEF IndInv, TypeOK, ReadEvent
<1>2. Last(output) \in {"started", "stopped"}
  BY DEF IndInv, TypeOK, ReadEvent, Last
<1>3. TypeOK' /\ OneRound' /\ RoundsInv' /\ (AtWork <=> AtWork') /\ (Intends <=> Intends')
  BY <1>1 DEF IndInv, TypeOK, OneRound, RoundsInv, AtWork, Intends, ReadEvent
<1>4. ToldInv'
  BY <1>1, <1>2, <1>3 DEF IndInv, ToldInv, ReadEvent
<1>. QED
  BY <1>3, <1>4 DEF IndInv

-----------------------------------------------------------------------------
(* The loop *)

\* Stopped stops the loop's own round, and does nothing else.
LEMMA StoppedRounds ==
  ASSUME IndInv
  PROVE  /\ Stopped \in [Round -> RoundState]
         /\ \A r \in Round :
               /\ Stopped[r].stopping = (round[r].stopping \/ r = control)
               /\ Stopped[r].stage = round[r].stage /\ Stopped[r].forced = round[r].forced
               /\ Stopped[r].cached = round[r].cached /\ Stopped[r].confirmed = round[r].confirmed
BY RoundAssumption DEF IndInv, TypeOK, Stopped, RoundState

LEMMA BeganInv ==
  ASSUME IndInv, NEW r \in Round, Fresh(r), NEW forced \in BOOLEAN,
         Began(Stopped, r, forced), commands # <<>>, commands' = Tail(commands), UNCHANGED panel
  PROVE  IndInv'
<1>. USE RoundAssumption
<1>1. /\ ~round[r].stopping /\ ~round[r].cached /\ ~round[r].confirmed /\ round[r].stage = "none"
      /\ r # control
  BY DEF IndInv, RoundsInv, Fresh, Unused, Running
<1>2. /\ round' \in [Round -> RoundState]
      /\ round'[r].stage = "announce" /\ round'[r].forced = forced
      /\ ~round'[r].stopping /\ ~round'[r].cached /\ ~round'[r].confirmed
      /\ \A q \in Round : q # r => round'[q] = Stopped[q]
  <2>1. /\ round' = [Stopped EXCEPT ![r] = [[Stopped[r] EXCEPT !.stage = "announce"]
                                               EXCEPT !.forced = forced]]
        /\ Stopped \in [Round -> RoundState] /\ Stopped[r] \in RoundState
    BY StoppedRounds DEF Began
  <2>2. [[Stopped[r] EXCEPT !.stage = "announce"] EXCEPT !.forced = forced] \in RoundState
    BY <2>1 DEF RoundState, Stage
  <2>3. round'[r] = [[Stopped[r] EXCEPT !.stage = "announce"] EXCEPT !.forced = forced]
    BY <2>1
  <2>4. /\ round'[r].stage = "announce" /\ round'[r].forced = forced
        /\ round'[r].stopping = Stopped[r].stopping /\ round'[r].cached = Stopped[r].cached
        /\ round'[r].confirmed = Stopped[r].confirmed
    BY <2>1, <2>3 DEF RoundState
  <2>. QED
    BY <1>1, <2>1, <2>2, <2>4, StoppedRounds
<1>3. /\ output' \in Seq({"started", "stopped"}) /\ output' # <<>> /\ Last(output)' = "started"
  BY LastOfAppend DEF IndInv, TypeOK, Began, Tells
<1>4. commands' \in Seq({"start", "rescan", "stop"})
  BY DEF IndInv, TypeOK
<1>5. TypeOK'
  BY <1>2, <1>3, <1>4, StoppedRounds DEF IndInv, TypeOK, Began, panel
<1>6. OneRound'
  BY <1>1, <1>2, StoppedRounds DEF IndInv, OneRound, Began
<1>7. RoundsInv'
  BY <1>2, StoppedRounds DEF IndInv, RoundsInv, Began, Running
<1>8. AtWork'
  BY <1>2 DEF AtWork, Running
<1>. QED
  BY <1>5, <1>6, <1>7, <1>8 DEF IndInv, ToldInv

LEMMA StartInv ==
  ASSUME IndInv, DiscoveryStart
  PROVE  IndInv'
<1>1. Head(commands) \in {"start", "rescan", "stop"} /\ commands # <<>>
      /\ commands' = Tail(commands) /\ UNCHANGED panel /\ Head(commands) # "stop"
  BY DEF IndInv, TypeOK, DiscoveryStart
<1>2. CASE control # NoRound /\ UNCHANGED <<control, round, output>>
  <2>1. commands' \in Seq({"start", "rescan", "stop"})
        /\ (commands' # <<>> => Last(commands)' = Last(commands))
    BY <1>1, LastOfTail DEF IndInv, TypeOK
  <2>2. TypeOK' /\ OneRound' /\ RoundsInv' /\ (AtWork <=> AtWork')
    BY <1>1, <1>2, <2>1 DEF IndInv, TypeOK, OneRound, RoundsInv, AtWork, panel
  <2>3. ~Intends' => ~Intends
    BY <1>1, <1>2, <2>1 DEF Intends
  <2>. QED
    BY <1>1, <1>2, <2>2, <2>3 DEF IndInv, ToldInv, panel
<1>3. ASSUME NEW r \in Round, Fresh(r), Began(Stopped, r, Head(commands) = "rescan")
      PROVE  IndInv'
  BY <1>1, <1>3, BeganInv
<1>. QED
  BY <1>2, <1>3 DEF DiscoveryStart

LEMMA StopInv ==
  ASSUME IndInv, DiscoveryStop
  PROVE  IndInv'
<1>. USE RoundAssumption
<1>1. /\ commands' \in Seq({"start", "rescan", "stop"})
      /\ commands' # <<>> => Last(commands)' = Last(commands)
      /\ commands' = <<>> => Last(commands) = "stop"
  BY LastOfTail DEF IndInv, TypeOK, DiscoveryStop
<1>2. TypeOK'
  BY <1>1, StoppedRounds DEF IndInv, TypeOK, DiscoveryStop, panel
<1>3. OneRound' /\ RoundsInv'
  BY StoppedRounds DEF IndInv, OneRound, RoundsInv, DiscoveryStop
<1>4. AtWork <=> AtWork'
  BY StoppedRounds DEF AtWork, DiscoveryStop
<1>5. ~Intends' => ~Intends
  BY <1>1 DEF Intends, DiscoveryStop
<1>. QED
  BY <1>2, <1>3, <1>4, <1>5 DEF IndInv, ToldInv, DiscoveryStop, panel

-----------------------------------------------------------------------------
(* The rounds *)

\* A step that changes neither what a round was told nor whether it is at work.
Keeps ==
  \A r \in Round :
    /\ round'[r].stage = "none" <=> round[r].stage = "none"
    /\ round'[r].stopping = round[r].stopping

LEMMA KeepsInv ==
  ASSUME IndInv, round' \in [Round -> RoundState], Keeps,
         UNCHANGED <<panel, commands, control, output>>,
         \A r \in Round :
           /\ round'[r].cached => ~round'[r].forced
           /\ round'[r].confirmed => round'[r].cached /\ round'[r].stage \in {"probe", "scan", "done"}
  PROVE  IndInv'
<1>1. \A r \in Round : round'[r].stage \in Running <=> round[r].stage \in Running
  BY DEF IndInv, TypeOK, RoundState, Stage, Running, Keeps
<1>2. TypeOK'
  BY DEF IndInv, TypeOK, panel
<1>3. OneRound' /\ RoundsInv'
  BY <1>1, <1>2 DEF IndInv, TypeOK, OneRound, RoundsInv, Keeps
<1>4. ToldInv'
  BY <1>1 DEF IndInv, ToldInv, AtWork, Intends, panel
<1>. QED
  BY <1>2, <1>3, <1>4 DEF IndInv

LEMMA PeerHeardInv ==
  ASSUME IndInv, PeerHeard
  PROVE  IndInv'
<1>1. \A r \in Round :
        /\ round'[r] \in RoundState
        /\ round'[r].stage = round[r].stage /\ round'[r].stopping = round[r].stopping
        /\ round'[r].cached = round[r].cached /\ round'[r].forced = round[r].forced
        /\ round'[r].confirmed = round[r].confirmed
  BY DEF IndInv, TypeOK, RoundState, PeerHeard
<1>2. round' \in [Round -> RoundState]
  BY <1>1 DEF PeerHeard
<1>. QED
  BY <1>1, <1>2, KeepsInv DEF IndInv, TypeOK, RoundsInv, PeerHeard, Keeps

LEMMA ConfirmedInv ==
  ASSUME IndInv, NEW r \in Round, Confirmed(r)
  PROVE  IndInv'
<1>1. \A q \in Round :
        /\ round'[q] \in RoundState
        /\ round'[q].stage = round[q].stage /\ round'[q].stopping = round[q].stopping
        /\ round'[q].cached = round[q].cached /\ round'[q].forced = round[q].forced
        /\ round'[q].confirmed = (round[q].confirmed \/ q = r)
  BY ZenonT(40) DEF IndInv, TypeOK, RoundState, Confirmed
<1>2. round' \in [Round -> RoundState]
  BY <1>1 DEF Confirmed
<1>3. Keeps
  BY <1>1 DEF Keeps
<1>4. ASSUME NEW q \in Round
      PROVE  /\ round'[q].cached => ~round'[q].forced
             /\ round'[q].confirmed =>
                   round'[q].cached /\ round'[q].stage \in {"probe", "scan", "done"}
  <2>1. CASE q = r
    <3>1. round[r].cached /\ round[r].stage = "probe"
      BY DEF Confirmed
    <3>. QED
      BY <1>1, <2>1, <3>1 DEF IndInv, RoundsInv
  <2>2. CASE q # r
    BY <1>1, <2>2 DEF IndInv, RoundsInv, TypeOK
  <2>. QED
    BY <2>1, <2>2
<1>. QED
  BY <1>2, <1>3, <1>4, KeepsInv DEF Confirmed

\* A round that moves to another stage of its work.
LEMMA MovesInv ==
  ASSUME IndInv, NEW r \in Round, NEW from \in Running, NEW to \in RoundState, Moves(r, from, to),
         to.stage \in Running, to.stopping = round[r].stopping,
         to.cached => ~to.forced,
         to.confirmed => to.cached /\ to.stage \in {"probe", "scan", "done"}
  PROVE  IndInv'
<1>1. round' \in [Round -> RoundState] /\ round'[r] = to
      /\ \A q \in Round : q # r => round'[q] = round[q]
  BY DEF IndInv, TypeOK, Moves
<1>2. Keeps
  BY <1>1 DEF Moves, Keeps, Running
<1>. QED
  BY <1>1, <1>2, KeepsInv DEF IndInv, TypeOK, RoundsInv, Moves

LEMMA AtStage ==
  ASSUME IndInv, NEW r \in Round, NEW s \in Running
  PROVE  /\ At(r, s) \in RoundState
         /\ At(r, s).stage = s /\ At(r, s).stopping = round[r].stopping
         /\ At(r, s).cached = round[r].cached /\ At(r, s).forced = round[r].forced
         /\ At(r, s).confirmed = round[r].confirmed
BY DEF IndInv, TypeOK, RoundState, Stage, Running, At

LEMMA WorkInv ==
  ASSUME IndInv, NEW r \in Round,
         Announced(r) \/ GraceEnds(r) \/ Fallback(r) \/ Probed(r) \/ Scanned(r)
  PROVE  IndInv'
<1>. USE DEF Running
<1>1. round[r].cached => ~round[r].forced
  BY DEF IndInv, RoundsInv
<1>2. round[r].confirmed => round[r].cached /\ round[r].stage \in {"probe", "scan", "done"}
  BY DEF IndInv, RoundsInv, TypeOK
<1>3. ASSUME NEW from \in Running, NEW s \in Running, Moves(r, from, At(r, s)),
             from \in {"probe", "scan", "done"} => s \in {"probe", "scan", "done"}
      PROVE  IndInv'
  <2>1. /\ At(r, s) \in RoundState
        /\ At(r, s).stage = s /\ At(r, s).stopping = round[r].stopping
        /\ At(r, s).cached = round[r].cached /\ At(r, s).forced = round[r].forced
        /\ At(r, s).confirmed = round[r].confirmed
    BY AtStage
  <2>2. round[r].stage = from
    BY <1>3 DEF Moves
  <2>3. At(r, s).confirmed => At(r, s).cached /\ At(r, s).stage \in {"probe", "scan", "done"}
    BY <1>2, <1>3, <2>1, <2>2
  <2>. HIDE DEF Running
  <2>. QED
    BY <1>1, <1>3, <2>1, <2>3, MovesInv
<1>4. CASE Announced(r)
  BY <1>3, <1>4 DEF Announced
<1>5. CASE GraceEnds(r)
  <2>. DEFINE s == IF round[r].heard /\ ~round[r].forced THEN "done" ELSE "fallback"
  <2>1. s \in Running /\ Moves(r, "grace", At(r, s))
    BY <1>5 DEF GraceEnds
  <2>. QED
    BY <1>3, <2>1
<1>6. CASE Fallback(r)
  <2>1. CASE Moves(r, "fallback", [At(r, "done") EXCEPT !.failed = TRUE])
    <3>. DEFINE to == [At(r, "done") EXCEPT !.failed = TRUE]
    <3>1. /\ to \in RoundState /\ to.stage = "done" /\ to.stopping = round[r].stopping
          /\ to.cached = round[r].cached /\ to.forced = round[r].forced
          /\ to.confirmed = round[r].confirmed
      BY AtStage, ZenonT(40) DEF RoundState
    <3>. QED
      BY <1>1, <1>2, <2>1, <3>1, MovesInv
  <2>2. ASSUME NEW cached \in BOOLEAN,
               Moves(r, "fallback", [At(r, "probe") EXCEPT !.cached = cached /\ ~round[r].forced])
        PROVE  IndInv'
    <3>. DEFINE to == [At(r, "probe") EXCEPT !.cached = cached /\ ~round[r].forced]
    <3>1. ASSUME NEW c \in BOOLEAN, NEW x \in RoundState
          PROVE  /\ [x EXCEPT !.cached = c] \in RoundState
                 /\ [x EXCEPT !.cached = c].cached = c
                 /\ [x EXCEPT !.cached = c].stage = x.stage
                 /\ [x EXCEPT !.cached = c].stopping = x.stopping
                 /\ [x EXCEPT !.cached = c].forced = x.forced
                 /\ [x EXCEPT !.cached = c].confirmed = x.confirmed
      BY DEF RoundState
    <3>0. (cached /\ ~round[r].forced) \in BOOLEAN
      OBVIOUS
    <3>2. /\ to \in RoundState /\ to.stage = "probe" /\ to.stopping = round[r].stopping
          /\ to.cached = (cached /\ ~round[r].forced) /\ to.forced = round[r].forced
          /\ to.confirmed = round[r].confirmed
      <4>1. /\ At(r, "probe") \in RoundState
            /\ At(r, "probe").stage = "probe" /\ At(r, "probe").stopping = round[r].stopping
            /\ At(r, "probe").forced = round[r].forced
            /\ At(r, "probe").confirmed = round[r].confirmed
        BY AtStage
      <4>. HIDE DEF RoundState, At
      <4>. QED
        BY <3>0, <3>1, <4>1, ZenonT(40)
    <3>3. ~round[r].confirmed
      BY <1>2, <2>2 DEF Moves
    <3>. HIDE DEF to
    <3>4. Moves(r, "fallback", to)
      BY <2>2 DEF to
    <3>. QED
      BY <3>2, <3>3, <3>4, MovesInv
  <2>. QED
    BY <1>6, <2>1, <2>2 DEF Fallback
<1>7. CASE Probed(r)
  <2>. DEFINE s == IF ~round[r].forced /\ round[r].confirmed THEN "done" ELSE "scan"
  <2>1. s \in {"done", "scan"} /\ Moves(r, "probe", At(r, s))
    BY <1>7 DEF Probed
  <2>. QED
    BY <1>3, <2>1
<1>8. CASE Scanned(r)
  BY <1>3, <1>8 DEF Scanned
<1>. QED
  BY <1>4, <1>5, <1>6, <1>7, <1>8

\* A round that sees its stop is over, and says so.
LEMMA RoundStops ==
  ASSUME IndInv, NEW r \in Round, Stop(r)
  PROVE  IndInv'
<1>. USE RoundAssumption
<1>1. Unused \in RoundState
  BY DEF Unused, RoundState, Stage
<1>2. round' \in [Round -> RoundState] /\ round'[r] = Unused
      /\ \A q \in Round : q # r => round'[q] = round[q]
  BY <1>1 DEF IndInv, TypeOK, Stop
<1>3. r # control
  BY DEF IndInv, OneRound, Stop
<1>4. output' \in Seq({"started", "stopped"}) /\ output' # <<>> /\ Last(output)' = "stopped"
  BY LastOfAppend DEF IndInv, TypeOK, Stop, Tells
<1>5. TypeOK'
  BY <1>2, <1>4 DEF IndInv, TypeOK, Stop, panel, Unused
<1>6. OneRound' /\ RoundsInv'
  BY <1>2, <1>3, <1>5 DEF IndInv, OneRound, RoundsInv, TypeOK, Stop, Unused, Running
<1>7. ToldInv'
  BY <1>4 DEF ToldInv
<1>. QED
  BY <1>5, <1>6, <1>7 DEF IndInv

-----------------------------------------------------------------------------
(* The theorems *)

LEMMA StepInv ==
  ASSUME IndInv, [Next]_vars
  PROVE  IndInv'
<1>. USE BoundsAssumption
<1>1. CASE viewOpened
  BY <1>1, ServiceInv DEF viewOpened, IndInv, TypeOK
<1>2. CASE viewClosed
  BY <1>2, ServiceInv DEF viewClosed, IndInv, TypeOK
<1>3. CASE forceFullDiscovery
  BY <1>3, ServiceInv DEF forceFullDiscovery, IndInv, TypeOK
<1>4. CASE chooseDevice
  BY <1>4, ServiceInv DEF chooseDevice, IndInv, TypeOK, View
<1>5. CASE clearTarget
  BY <1>5, ServiceInv DEF clearTarget, IndInv, TypeOK, View
<1>6. CASE TakesView
  BY <1>6, ServiceInv DEF TakesView, IndInv, TypeOK, View
<1>7. CASE finishTerminal
  BY <1>7, ServiceInv DEF finishTerminal, IndInv, TypeOK, View
<1>8. CASE UNCHANGED vars
  BY <1>8, ServiceInv DEF vars, panel, IndInv, TypeOK, AskNothing
<1>. QED
  BY <1>1, <1>2, <1>3, <1>4, <1>5, <1>6, <1>7, <1>8, ReadEventInv, StartInv, StopInv,
     PeerHeardInv, ConfirmedInv, WorkInv, RoundStops DEF Next, Task

\* The inductive invariant holds of every behaviour (main.rs:594-800, 1439-1519).
THEOREM Invariance == Spec => []IndInv
<1>1. Init => IndInv
  <2>. SUFFICES ASSUME Init
                PROVE  IndInv
    OBVIOUS
  <2>1. Unused \in RoundState /\ Unused.stage = "none" /\ ~Unused.cached /\ ~Unused.confirmed
    BY DEF Unused, RoundState, Stage
  <2>2. round \in [Round -> RoundState] /\ \A r \in Round : round[r] = Unused
    BY <2>1 DEF Init
  <2>0. open \in 0..MaxViews
    BY BoundsAssumption DEF Init
  <2>3. TypeOK
    <3>1. commands \in Seq({"start", "rescan", "stop"}) /\ output \in Seq({"started", "stopped"})
      BY DEF Init
    <3>2. view \in View /\ active \in BOOLEAN /\ control \in Round \cup {NoRound}
      BY DEF Init, View
    <3>3. \A r \in Round : round[r].confirmed => round[r].cached /\ ~round[r].forced
      BY <2>1, <2>2
    <3>. QED
      BY <2>0, <2>2, <3>1, <3>2, <3>3 DEF TypeOK
  <2>4. OneRound /\ RoundsInv
    BY <2>1, <2>2, RoundAssumption DEF Init, OneRound, RoundsInv, Running
  <2>5. ToldInv
    BY DEF Init, ToldInv, Intends
  <2>. QED
    BY <2>3, <2>4, <2>5 DEF IndInv
<1>. QED
  BY <1>1, StepInv, PTL DEF Spec

\* A panel that says it is looking and waits for nothing has a round.
LEMMA ToldIsLooking == IndInv => LooksWhenItSaysSo
<1>. SUFFICES ASSUME IndInv, active, commands = <<>>, output = <<>>, control = NoRound,
                     \A r \in Round : round[r].stage \in Running => ~round[r].stopping
              PROVE  FALSE
  BY DEF LooksWhenItSaysSo
<1>1. ~Intends
  BY DEF Intends
<1>2. PICK r \in Round : round[r].stage \in Running
  BY <1>1 DEF IndInv, ToldInv, AtWork
<1>. QED
  BY <1>2, RoundAssumption DEF IndInv, OneRound

\* No step of a round leads to the scan but for want of a peer, or by force.
LEMMA ScanIsLast ==
  ASSUME IndInv, [Next]_vars
  PROVE  LastResort
<1>. SUFFICES ASSUME NEW r \in Round
              PROVE  /\ round[r].stage = "grace" /\ round'[r].stage = "fallback"
                           => ~round[r].heard \/ round[r].forced
                     /\ round[r].stage # "scan" /\ round'[r].stage = "scan"
                           => round[r].forced \/ ~round[r].confirmed
  BY DEF LastResort
<1>1. ASSUME round'[r].stage # round[r].stage, round'[r].stage \in {"fallback", "scan"}
      PROVE  Task(r)
  <2>1. \A q \in Round : Stopped[q].stage = round[q].stage
    BY StoppedRounds
  <2>2. CASE DiscoveryStop
    BY <1>1, <2>1, <2>2 DEF DiscoveryStop
  <2>3. ASSUME NEW q \in Round, NEW forced \in BOOLEAN, Began(Stopped, q, forced)
        PROVE  FALSE
    <3>1. CASE q = r
      BY <1>1, <2>3, <3>1, StoppedRounds DEF Began, RoundState
    <3>2. CASE q # r
      BY <1>1, <2>1, <2>3, <3>2, StoppedRounds DEF Began
    <3>. QED
      BY <3>1, <3>2
  <2>4. CASE DiscoveryStart
    BY <1>1, <2>3, <2>4 DEF DiscoveryStart
  <2>5. CASE PeerHeard
    BY <1>1, <2>5 DEF IndInv, TypeOK, RoundState, PeerHeard
  <2>6. ASSUME NEW q \in Round, Confirmed(q)
        PROVE  FALSE
    <3>1. round'[r].stage = round[r].stage
      BY <2>6, ZenonT(40) DEF IndInv, TypeOK, RoundState, Confirmed
    <3>. QED
      BY <1>1, <3>1
  <2>7. ASSUME NEW q \in Round, Task(q)
        PROVE  q = r
    BY <1>1, <2>7 DEF IndInv, TypeOK, Task, Moves, Announced, GraceEnds, Fallback, Probed, Scanned, Stop
  <2>8. CASE UNCHANGED round
    BY <1>1, <2>8
  <2>. QED
    BY <1>1, <2>2, <2>4, <2>5, <2>6, <2>7, <2>8
       DEF Next, vars, viewOpened, viewClosed, forceFullDiscovery, chooseDevice, clearTarget,
           TakesView, finishTerminal, ReadEvent
<1>2. ASSUME NEW from \in Stage, NEW to \in RoundState, Moves(r, from, to)
      PROVE  round[r].stage = from /\ round'[r] = to
  BY <1>2 DEF IndInv, TypeOK, Moves
<1>3. ASSUME Task(r), round'[r].stage = "fallback"
      PROVE  round[r].stage = "grace" => ~round[r].heard \/ round[r].forced
  BY <1>3 DEF IndInv, TypeOK, RoundState, Task, Moves, At, Announced, GraceEnds, Fallback, Probed,
     Scanned, Stop, Unused
<1>4. ASSUME Probed(r), round'[r].stage = "scan"
      PROVE  round[r].forced \/ ~round[r].confirmed
  BY <1>4 DEF IndInv, TypeOK, RoundState, Moves, At, Probed
<1>5. ASSUME Task(r), round'[r].stage = "scan"
      PROVE  Probed(r)
  <2>1. CASE Announced(r)
    BY <1>5, <2>1 DEF IndInv, TypeOK, RoundState, Moves, At, Announced
  <2>2. CASE GraceEnds(r)
    BY <1>5, <2>2 DEF IndInv, TypeOK, RoundState, Moves, At, GraceEnds
  <2>3. CASE Fallback(r)
    <3>1. \A c : [At(r, "probe") EXCEPT !.cached = c].stage = "probe"
      BY AtStage DEF Running, RoundState
    <3>2. [At(r, "done") EXCEPT !.failed = TRUE].stage = "done"
      BY AtStage DEF Running, RoundState
    <3>3. \E to : Moves(r, "fallback", to) /\ to.stage \in {"done", "probe"}
      BY <2>3, <3>1, <3>2 DEF Fallback
    <3>. QED
      BY <1>5, <3>3 DEF IndInv, TypeOK, Moves
  <2>4. CASE Scanned(r)
    BY <1>5, <2>4 DEF IndInv, TypeOK, RoundState, Moves, At, Scanned
  <2>5. CASE Stop(r)
    BY <1>5, <2>5 DEF IndInv, TypeOK, Stop, Unused
  <2>. QED
    BY <1>5, <2>1, <2>2, <2>3, <2>4, <2>5 DEF Task
<1>. QED
  BY <1>1, <1>3, <1>4, <1>5

\* Of the rounds at work all but the loop's own were told to stop; none scans without
\* need; and a panel that waits for nothing is not wrong about them (main.rs:594-800,
\* 1447-1451, Service.qml:655-656).
THEOREM Orderly == Spec => RoundsAreOrderly
<1>1. IndInv /\ [Next]_vars => TypeOK' /\ OneRound' /\ LastResort
  BY StepInv, ScanIsLast DEF IndInv
<1>. QED
  BY <1>1, Invariance, ToldIsLooking, PTL DEF Spec, RoundsAreOrderly
=============================================================================
