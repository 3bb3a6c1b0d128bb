----------------------------- MODULE PanelParts -----------------------------
(***************************************************************************)
(* Three conversations of the helper with the panel: the PIN settings,     *)
(* what comes in, and the list of devices.  They share no state; a         *)
(* behaviour is one of one of them, and the other two stay as they begin.  *)
(***************************************************************************)
EXTENDS PinSettings

CONSTANTS
    Request, NoRequest, Text, MaxReports, MaxLate, MaxSends,  \* Incoming
    Fingerprint, Detail, NoPeer, MaxPeers, MaxFingerprints,
    Burst, Rate, Ttl, MaxAnnouncements                      \* Peers

VARIABLES
    talk,   \* which of the three it is
    at, answer, reports, late, events, pending, reply, out, commands,
    incomingQueue, viewState, activeIncomingSession, lastEndedIncomingSession,
    incomingText, incomingTextPending, pendingOutgoing, sends, accepted, again,
    peers, https_order, known, tokens, since, snapshot_pending, printing,
    flushing, discovering, shown, excess, seen, after,
    arrived

incoming == <<at, answer, reports, late, events, pending, reply, out, commands,
              incomingQueue, viewState, activeIncomingSession, lastEndedIncomingSession,
              incomingText, incomingTextPending, pendingOutgoing, sends, accepted, again>>
devices == <<peers, https_order, known, tokens, since, snapshot_pending, printing,
             flushing, discovering, shown, excess, seen, after, arrived>>

In == INSTANCE Incoming WITH asked <- accepted
Reg == INSTANCE Peers

ASSUME InstancesAssumption == In!RequestsOK /\ Reg!SizesOK

PanelInit ==
    /\ talk \in {"pin", "incoming", "devices"}
    /\ Init /\ In!Init /\ Reg!Init
    /\ talk # "pin" => value = "absent"

PanelNext ==
    /\ UNCHANGED talk
    /\ \/ talk = "pin" /\ Next /\ UNCHANGED <<incoming, devices>>
       \/ talk = "incoming" /\ In!Next /\ UNCHANGED <<vars, devices>>
       \/ talk = "devices" /\ Reg!Next /\ UNCHANGED <<vars, incoming>>

PanelFairness ==
    /\ WF_vars(talk = "pin" /\ (Load \/ RefuseSettings))
    /\ WF_vars(talk = "pin" /\ UpdatePin)
    /\ WF_vars(talk = "pin" /\ Saved)
    /\ WF_vars(talk = "pin" /\ Apply)
    /\ WF_vars(talk = "pin" /\ Restored)
    /\ WF_vars(talk = "pin" /\ HandleEvent)
    /\ WF_incoming(talk = "incoming" /\ In!Handler)
    /\ WF_incoming(talk = "incoming" /\ In!ReadEvent)
    /\ WF_incoming(talk = "incoming" /\ In!CommandLoop)
    /\ WF_incoming(talk = "incoming" /\ In!PanelReads)
    /\ WF_incoming(talk = "incoming" /\ In!finishOutgoing)
    /\ WF_devices(talk = "devices" /\ Reg!ExpiryTick)
    /\ WF_devices(talk = "devices" /\ Reg!TakePending)
    /\ WF_devices(talk = "devices" /\ Reg!Flush)
    /\ \A t \in Reg!Thread : WF_devices(talk = "devices" /\ Reg!Emit(t))

panel_vars == <<talk, vars, incoming, devices>>
PanelSpec == PanelInit /\ [][PanelNext]_panel_vars /\ PanelFairness

\* The panel does not wait for ever in "receiving" and the session it follows ends in it,
\* unless nobody tells it of the end, it took late progress for the session's, or the user
\* accepted twice; a request leaves its queue (Service.qml:521, 673-687); and it comes to
\* show each peer of the registry as it is (main.rs:340-349).
PanelSettles ==
    /\ talk = "incoming" => In!SettlesIfTold /\ In!FollowedEnds /\ In!QueueDrains
    /\ talk = "devices" => Reg!PeersAreShown

\* The panel is not flooded with devices, and a peer seen over HTTPS is replaced by a
\* plain HTTP one only once its fingerprint was forgotten (main.rs:337-472, 1422-1425).
PeersAreRight == Reg!DevicesAreRight
=============================================================================
