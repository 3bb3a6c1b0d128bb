------------------------------ MODULE Incoming ------------------------------
(***************************************************************************)
(* An incoming request on its way through the three parties that hold a    *)
(* piece of it: the server's prepare-upload handler (backend/vendor/       *)
(* localsend-rs/src/server/handlers.rs), the helper's table of pending     *)
(* requests, which its event task and its command loop share (backend/src/ *)
(* main.rs 1318-1412, 1452-1453, 1484), and the panel's service, with its  *)
(* queue, its view and the session it follows (Service.qml, Model.js).     *)
(* Module Receiver has the server in detail, module Outgoing the sending   *)
(* half of the service; here a send only takes the view and gives it back. *)
(***************************************************************************)
EXTENDS Naturals, Sequences

CONSTANTS
    Request, NoRequest,
    Text,          \* the requests that offer a text message
    MaxReports,    \* bound: progress and file events of a session
    MaxLate,       \* bound: progress sent after the end of its session
    MaxSends       \* bound: sends the user begins

\* What the constants are to be.
RequestsOK ==
    /\ NoRequest \notin Request /\ Text \subseteq Request
    /\ {MaxReports, MaxLate, MaxSends} \subseteq Nat

VARIABLES
    at,            \* server: where the handler, then the session, of a request is
    answer,        \* the decision in the oneshot of a request
    reports, late, \* how many were sent
    events,        \* from the server to the event task
    pending,       \* helper: the requests that can be answered
    reply,         \* command loop: what it is about to print
    out,           \* the helper's standard output
    commands,      \* its standard input
    incomingQueue, viewState, activeIncomingSession, lastEndedIncomingSession,
    incomingText, incomingTextPending,
    pendingOutgoing, sends,
    asked, again   \* history: the request the user accepted last, and whether it was
                   \* the one accepted before, too

server == <<at, answer, reports, late>>
panel == <<incomingQueue, viewState, activeIncomingSession, lastEndedIncomingSession,
           incomingText, incomingTextPending, pendingOutgoing, sends, asked, again>>
vars == <<server, events, pending, reply, out, commands, panel>>

\* A session is stuck once its count of uploads never returns to zero: see Leak.
Sessions == {"open", "stuck"}
Held == {"asking", "accepted"} \cup Sessions
Event == [kind : {"request", "expired", "accepted", "declined", "text", "progress",
                  "file", "done", "cancelled", "failed"}, r : Request]
Is(kind, r) == [kind |-> kind, r |-> r]

\* The types of the three parties and of the pipes between them.
TypeOK ==
    /\ at \in [Request -> Held \cup {"new", "refused", "gone", "over"}]
    /\ answer \in [Request -> {"none", "accept", "decline"}]
    /\ pending \subseteq Request
    /\ \A i \in 1..Len(events) : events[i] \in Event
    /\ \A i \in 1..Len(out) : out[i] \in Event
    /\ \A i \in 1..Len(incomingQueue) : incomingQueue[i] \in Request
    /\ \A i, j \in 1..Len(incomingQueue) : incomingQueue[i] = incomingQueue[j] => i = j
    /\ viewState \in {"nearby", "incoming", "receiving", "sending", "pin", "text", "result"}
    /\ {activeIncomingSession, lastEndedIncomingSession, incomingText}
           \subseteq Request \cup {NoRequest}
    /\ incomingTextPending => incomingText # NoRequest
    /\ \A r, s \in Request : at[r] \in Held /\ at[s] \in Held => r = s

Init ==
    /\ at = [r \in Request |-> "new"] /\ answer = [r \in Request |-> "none"]
    /\ reports = [r \in Request |-> 0] /\ late = 0
    /\ events = <<>> /\ pending = {} /\ reply = <<>> /\ out = <<>> /\ commands = <<>>
    /\ incomingQueue = <<>> /\ viewState = "nearby"
    /\ activeIncomingSession = NoRequest /\ lastEndedIncomingSession = NoRequest
    /\ incomingText = NoRequest /\ incomingTextPending = FALSE
    /\ pendingOutgoing = FALSE /\ sends = 0 /\ asked = NoRequest /\ again = FALSE

-----------------------------------------------------------------------------
(* The server *)

Goto(r, place) == at' = [at EXCEPT ![r] = place]
Ends(r) == Goto(r, "over")
Sends(es) == events' = events \o es
Beyond == <<pending, reply, out, commands, panel>>

Ask(r) ==
    /\ at[r] = "new" /\ \A s \in Request : at[s] \notin Held
    /\ Goto(r, "asking") /\ Sends(<<Is("request", r)>>)
    /\ UNCHANGED <<answer, reports, late, Beyond>>

\* An offer that finds a session idle for 300 s takes its place; nobody is told.
Replace(r, s) ==
    /\ at[r] = "new" /\ at[s] = "open"
    /\ at' = [at EXCEPT ![r] = "asking", ![s] = "gone"]
    /\ Sends(<<Is("request", r)>>)
    /\ UNCHANGED <<answer, reports, late, Beyond>>

SilentExpire(r) ==
    /\ at[r] = "asking"
    /\ Goto(r, "gone")
    /\ UNCHANGED <<answer, reports, late, events, Beyond>>

\* The timeout, or a sender that closes the connection.  Either may come after the
\* answer, as long as the handler has not run to hear it.
Expire(r) ==
    /\ at[r] = "asking"
    /\ Goto(r, "gone") /\ Sends(<<Is("expired", r)>>)
    /\ UNCHANGED <<answer, reports, late, Beyond>>

Hear(r) ==
    /\ at[r] = "asking" /\ answer[r] # "none"
    /\ Goto(r, IF answer[r] = "accept" THEN "accepted" ELSE "refused")
    /\ UNCHANGED <<answer, reports, late, events, Beyond>>

\* The prompt is resolved, so nobody is told.
GiveUp(r) ==
    /\ at[r] = "accepted"
    /\ Goto(r, "gone")
    /\ UNCHANGED <<answer, reports, late, events, Beyond>>

Open(r) ==
    /\ at[r] = "accepted"
    /\ IF r \in Text
         THEN Ends(r) /\ Sends(<<Is("text", r), Is("done", r)>>)
         ELSE Goto(r, "open") /\ UNCHANGED events
    /\ UNCHANGED <<answer, reports, late, Beyond>>

Report(r) ==
    /\ at[r] \in Sessions /\ reports[r] < MaxReports
    /\ reports' = [reports EXCEPT ![r] = @ + 1]
    /\ \E kind \in {"progress", "file"} : Sends(<<Is(kind, r)>>)
    /\ UNCHANGED <<at, answer, late, Beyond>>

\* The connection of an upload goes once its body was read: its handler does not come to
\* give back its count of active uploads, and no sweep and no offer sees the session idle.
Leak(r) ==
    /\ at[r] = "open" /\ Goto(r, "stuck")
    /\ UNCHANGED <<answer, reports, late, events, Beyond>>

\* A writer that saw its session alive sends its progress once it is not.
LateProgress(r) ==
    /\ at[r] = "over" /\ r \notin Text /\ late < MaxLate
    /\ late' = late + 1 /\ Sends(<<Is("progress", r)>>)
    /\ UNCHANGED <<at, answer, reports, Beyond>>

\* The last file, the sender's cancel, a failed upload or the idle sweep.
SessionEnds(r) ==
    /\ at[r] \in Sessions /\ Ends(r)
    /\ \/ Sends(<<Is("file", r), Is("done", r)>>)
       \/ \E kind \in {"cancelled", "failed"} : Sends(<<Is(kind, r)>>)
    /\ UNCHANGED <<answer, reports, late, Beyond>>

-----------------------------------------------------------------------------
(* The helper *)

ReadEvent ==
    /\ events # <<>> /\ events' = Tail(events)
    /\ LET e == Head(events) IN
       /\ pending' = CASE e.kind = "request" -> pending \cup {e.r}
                       [] e.kind = "expired" -> pending \ {e.r}
                       [] OTHER -> pending
       /\ out' = Append(out, e)
    /\ UNCHANGED <<server, reply, commands, panel>>

\* PendingRequest::accept and decline: whether the handler is still there to hear.
Alive(r) == r \in pending /\ at[r] = "asking" /\ answer[r] = "none"

Take(c) == commands # <<>> /\ reply = <<>> /\ Head(commands) = c /\ commands' = Tail(commands)

Answer(r, decision) ==
    /\ Take(Is(decision, r))
    /\ pending' = pending \ {r}
    /\ answer' = IF Alive(r) THEN [answer EXCEPT ![r] = decision] ELSE answer
    /\ reply' = <<IF ~Alive(r) THEN Is("expired", r)
                  ELSE Is(IF decision = "accept" THEN "accepted" ELSE "declined", r)>>
    /\ UNCHANGED <<at, reports, late, events, out, panel>>

CancelIncoming(r) ==
    /\ Take(Is("cancel", r))
    /\ IF at[r] \in Sessions THEN Ends(r) /\ Sends(<<Is("cancelled", r)>>)
       ELSE UNCHANGED <<at, events>>
    /\ UNCHANGED <<answer, reports, late, pending, reply, out, panel>>

Reply ==
    /\ reply # <<>> /\ out' = out \o reply /\ reply' = <<>>
    /\ UNCHANGED <<server, events, pending, commands, panel>>

-----------------------------------------------------------------------------
(* The panel: the user *)

incoming == IF incomingQueue = <<>> THEN NoRequest ELSE Head(incomingQueue)
helper == <<server, events, pending, reply, out>>
Queued(r) == \E i \in 1..Len(incomingQueue) : incomingQueue[i] = r
enqueueIncoming(r) == IF Queued(r) THEN incomingQueue ELSE Append(incomingQueue, r)
Without(r) ==
    LET i == CHOOSE i \in 1..Len(incomingQueue) : incomingQueue[i] = r
    IN  IF Queued(r) THEN SubSeq(incomingQueue, 1, i - 1)
                            \o SubSeq(incomingQueue, i + 1, Len(incomingQueue))
        ELSE incomingQueue
sessions == <<activeIncomingSession, lastEndedIncomingSession>>
texts == <<incomingText, incomingTextPending>>
sending == <<pendingOutgoing, sends>>
accepts == <<asked, again>>

acceptIncoming ==
    /\ viewState = "incoming" /\ incoming # NoRequest
    /\ commands' = Append(commands, Is("accept", incoming))
    /\ viewState' = "receiving"
    /\ asked' = incoming /\ again' = (incoming = asked)
    /\ UNCHANGED <<helper, incomingQueue, sessions, texts, sending>>

\* A text that was held back is shown once nothing else wants the view.
ShowNext(queue, otherwise) ==
    /\ viewState' = IF queue # <<>> THEN "incoming"
                    ELSE IF incomingTextPending THEN "text" ELSE otherwise
    /\ incomingTextPending' = (incomingTextPending /\ queue # <<>>)

declineIncoming ==
    /\ viewState = "incoming" /\ incoming # NoRequest
    /\ commands' = Append(commands, Is("decline", incoming))
    /\ incomingQueue' = Without(incoming)
    /\ ShowNext(incomingQueue', "nearby")
    /\ UNCHANGED <<helper, sessions, incomingText, sending, accepts>>

cancelIncoming ==
    /\ viewState = "receiving" /\ activeIncomingSession # NoRequest
    /\ Is("cancel", activeIncomingSession) \notin {commands[i] : i \in 1..Len(commands)}
    /\ commands' = Append(commands, Is("cancel", activeIncomingSession))
    /\ UNCHANGED <<helper, panel>>

\* finishText and finishTerminal.
Dismiss ==
    /\ viewState \in {"text", "result"} /\ viewState' = "nearby"
    /\ IF viewState = "text" THEN incomingText' = NoRequest /\ incomingTextPending' = FALSE
       ELSE UNCHANGED texts
    /\ UNCHANGED <<helper, commands, incomingQueue, sessions, sending, accepts>>

\* A chooser may answer in any view.
beginOutgoing ==
    /\ ~pendingOutgoing /\ sends < MaxSends
    /\ pendingOutgoing' = TRUE /\ sends' = sends + 1
    /\ UNCHANGED <<helper, commands, incomingQueue, viewState, sessions, texts, accepts>>

OutgoingMoves ==
    /\ pendingOutgoing /\ viewState' \in {"sending", "pin"} \ {viewState}
    /\ UNCHANGED <<helper, commands, incomingQueue, sessions, texts, sending, accepts>>

\* finishOutgoing and cancelPin.
finishOutgoing ==
    /\ pendingOutgoing /\ pendingOutgoing' = FALSE
    /\ \E terminal \in {"result", "nearby"} :
          (terminal = "nearby" => viewState = "pin") /\ ShowNext(incomingQueue, terminal)
    /\ UNCHANGED <<helper, commands, incomingQueue, sessions, incomingText, sends, accepts>>

-----------------------------------------------------------------------------
(* The panel: handleEvent *)

Read(kind, r) ==
    /\ out # <<>> /\ Head(out) = Is(kind, r) /\ out' = Tail(out)
    /\ UNCHANGED <<server, events, pending, reply, commands, sending, accepts>>

IncomingRequest(r) ==
    /\ Read("request", r)
    /\ incomingQueue' = enqueueIncoming(r)
    /\ viewState' = IF viewState \in {"sending", "receiving", "pin"} THEN viewState ELSE "incoming"
    /\ incomingText' = IF incomingTextPending THEN incomingText ELSE NoRequest
    /\ UNCHANGED <<sessions, incomingTextPending>>

IncomingText(r) ==
    /\ Read("text", r)
    /\ incomingText' = r /\ incomingTextPending' = pendingOutgoing
    /\ viewState' = IF pendingOutgoing THEN viewState ELSE "text"
    /\ UNCHANGED <<incomingQueue, sessions>>

IncomingAnswered(r) ==
    /\ Read("accepted", r) \/ Read("declined", r)
    /\ incomingQueue' = Without(r)
    /\ UNCHANGED <<viewState, sessions, texts>>

WaitingExpired(r) ==
    /\ Read("expired", r)
    /\ incomingQueue' = Without(r)
    /\ IF incoming = r /\ viewState = "incoming" /\ incomingQueue' = <<>>
         THEN ShowNext(<<>>, "result") /\ UNCHANGED incomingText
         ELSE UNCHANGED <<viewState, texts>>
    /\ UNCHANGED sessions

IncomingExpired(r) ==
    /\ Read("expired", r)
    /\ incomingQueue' = Without(r)
    /\ IF /\ incoming = r /\ incomingQueue' = <<>>
          /\ \/ viewState = "incoming"
             \/ viewState = "receiving" /\ activeIncomingSession = NoRequest
         THEN ShowNext(<<>>, "result") /\ UNCHANGED incomingText
         ELSE UNCHANGED <<viewState, texts>>
    /\ UNCHANGED sessions

\* A session is the panel's once an event of it comes while the panel waits for one.
Adopts(r) ==
    \/ activeIncomingSession = r
    \/ activeIncomingSession = NoRequest /\ viewState = "receiving"

IncomingProgress(r) ==
    /\ Read("progress", r) \/ Read("file", r)
    /\ LET mine == Adopts(r) /\ (out[1].kind = "progress" => r # lastEndedIncomingSession) IN
       /\ activeIncomingSession' = IF mine THEN r ELSE activeIncomingSession
       /\ viewState' = IF mine /\ out[1].kind = "progress" /\ ~pendingOutgoing
                       THEN "receiving" ELSE viewState
    /\ UNCHANGED <<incomingQueue, lastEndedIncomingSession, texts>>

finishIncoming(r) ==
    /\ lastEndedIncomingSession' = r /\ activeIncomingSession' = NoRequest
    /\ IF pendingOutgoing THEN UNCHANGED <<viewState, incomingTextPending>>
       ELSE ShowNext(incomingQueue, "result")

\* A completed session must have been adopted by an event before.
IncomingEnds(r) ==
    /\ Read("done", r) \/ Read("cancelled", r) \/ Read("failed", r)
    /\ IF activeIncomingSession = r \/ (out[1].kind # "done" /\ Adopts(r))
         THEN finishIncoming(r) ELSE UNCHANGED <<sessions, viewState, incomingTextPending>>
    /\ UNCHANGED <<incomingQueue, incomingText>>

-----------------------------------------------------------------------------
Sender == \E r \in Request :
    \/ Ask(r) \/ GiveUp(r) \/ Report(r) \/ Leak(r) \/ LateProgress(r) \/ SessionEnds(r)
    \/ \E s \in Request : Replace(r, s)
Handler == \E r \in Request :
    Expire(r) \/ Hear(r) \/ Open(r) \/ (at[r] = "open" /\ SessionEnds(r))
CommandLoop == Reply \/ \E r \in Request :
    Answer(r, "accept") \/ Answer(r, "decline") \/ CancelIncoming(r)
User == acceptIncoming \/ declineIncoming \/ cancelIncoming \/ Dismiss \/ beginOutgoing
PanelReads == \E r \in Request :
    \/ IncomingRequest(r) \/ IncomingText(r) \/ IncomingAnswered(r)
    \/ IncomingExpired(r) \/ IncomingProgress(r) \/ IncomingEnds(r)

Next == Sender \/ Handler \/ ReadEvent \/ CommandLoop \/ User \/ OutgoingMoves
        \/ finishOutgoing \/ PanelReads

Spec == Init /\ [][Next]_vars

\* The runtime runs its tasks, an accept times out, an idle session is swept unless its
\* count of uploads leaked, the shell reads its helper, and a send comes to an end.
FairSpec ==
    /\ Spec
    /\ WF_vars(Handler) /\ WF_vars(ReadEvent) /\ WF_vars(CommandLoop)
    /\ WF_vars(PanelReads) /\ WF_vars(finishOutgoing)

-----------------------------------------------------------------------------
(* Properties *)

Coming(seq, e) == \E i \in 1..Len(seq) : seq[i] = e

\* main.rs:1348: a request the helper keeps for an answer is one the server still
\* waits for, or its expiry is on the way: none is kept for good.
PendingIsAsked ==
    \A r \in pending : at[r] \in {"asking"} \/ Coming(events, Is("expired", r))

\* Service.qml:521, 683: the panel does not follow again the session it finished last,
\* whatever progress and files of it come late.
EndedIsNotFollowed ==
    activeIncomingSession # NoRequest => activeIncomingSession # lastEndedIncomingSession

\* handlers.rs:325-326: "a consumer must not take such late progress for a newer
\* transfer": the panel follows the session of the request the user accepted last.
\* The code does not keep this once a session ended behind a send (run followed).
FollowsTheAccepted == activeIncomingSession \in {asked, NoRequest}

\* service-state.test.js:803: "an expired approval must not leave the UI waiting for a
\* receive session that cannot start".  The code does not keep this once the sender has
\* left after the answer (run incoming_stuck).
Settles == viewState = "receiving" /\ at[asked] = "gone" ~> viewState # "receiving"

\* The ends of an accepted request that the panel is never told: its sender left before
\* the handler acted on the answer, a new offer took the place of the idle session, or
\* its count of uploads leaked, so that it is never swept.
Untold(r) == at[r] = "stuck" \/ (at[r] = "gone" /\ answer[r] = "accept")
Foreign == activeIncomingSession \notin {asked, NoRequest}

\* Service.qml:674-687: otherwise the panel leaves "receiving", unless it took the late
\* progress of an earlier session for that of the one it waits for.
SettlesIfTold ==
    viewState = "receiving" ~>
        viewState # "receiving" \/ again \/ Untold(asked) \/ Foreign

\* Service.qml:673-676: a request leaves the panel's queue, whoever lets go of it.
QueueDrains ==
    \A r \in Request : Queued(r) ~> ~Queued(r)

\* Service.qml:521-522: the session the panel follows comes to an end in the panel, with
\* the same exceptions.
FollowedEnds ==
    activeIncomingSession # NoRequest ~>
        activeIncomingSession = NoRequest \/ again \/ Foreign \/ Untold(activeIncomingSession)

\* docs/USAGE.md:67: "Received text appears in the panel": one that is held back
\* is let go only by being shown.
HeldTextAppears ==
    [][LET held == incomingTextPending IN
       held => incomingText' = incomingText
                 /\ (~incomingTextPending' => viewState' = "text")]_vars

=============================================================================
