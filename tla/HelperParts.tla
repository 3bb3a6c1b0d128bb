----------------------------- MODULE HelperParts -----------------------------
(***************************************************************************)
(* What the helper does by itself: the admission of connections, its       *)
(* identity, the lines it reads, the walk over what is sent, the addresses *)
(* it probes, the codes of its failures, and a request between the server, *)
(* the helper and the panel.  They share no state; a behaviour is one of   *)
(* one of them, and the others stay as they begin.                         *)
(***************************************************************************)
EXTENDS Admission

CONSTANTS
    Helper, Cert, Stale, Broken, NoHelper, MaxStarts, MaxDeaths, MaxLosses,   \* Identity
    Byte, Newline, max_bytes, MaxText,                                        \* CommandLine
    Entry, Top, Parent, Trees, Nothing, Json, Envelope, MAX_TRANSFER_FILES,
    MAX_PREPARE_BODY_BYTES, MAX_REMOTE_DIRECTORY_DEPTH, MaxEdits,             \* Selection
    Bits, MaxSubnet, LocalRange, Special, Local, Mask, Remote, MaxInterfaces, \* ScanTargets
    PathWords, IdWords,                                                       \* Failures
    Request, NoRequest, Text, MaxReports, MaxLate, MaxSends                   \* Incoming

VARIABLES
    part,   \* which of them it is
    value, stable, saving, outcome, stage, cert, port, made, served, slipped,
    starts, deaths, losses,
    text, sent, closed, buffer, oversized, line, results,
    kind, edits, todo, stack, looked, metadata, offer_size, cancelled, result, late,
    interfaces, known, cached, confirmed, scanned, round,
    failure, code,
    at, answer, reports, lateReports, events, pending, reply, out, commands,
    incomingQueue, viewState, activeIncomingSession, lastEndedIncomingSession,
    incomingText, incomingTextPending, pendingOutgoing, sends, accepted, again

identity == <<value, stable, saving, outcome, stage, cert, port, made, served, slipped,
              starts, deaths, losses>>
reader == <<text, sent, closed, buffer, oversized, line, results>>
walk == <<kind, edits, todo, stack, looked, metadata, offer_size, cancelled, result, late>>
targets == <<interfaces, known, cached, confirmed, scanned, round>>
failures_told == <<failure, code>>
requests == <<at, answer, reports, lateReports, events, pending, reply, out, commands,
              incomingQueue, viewState, activeIncomingSession, lastEndedIncomingSession,
              incomingText, incomingTextPending, pendingOutgoing, sends, accepted, again>>

Id == INSTANCE Identity
Reader == INSTANCE CommandLine
Walk == INSTANCE Selection WITH MaxChanges <- MaxEdits, changes <- edits
Scan == INSTANCE ScanTargets WITH stage <- round
Texts == INSTANCE Failures

In == INSTANCE Incoming WITH late <- lateReports, asked <- accepted

ASSUME InstancesAssumption ==
    /\ Id!DocumentsOK /\ Reader!ReaderOK /\ Walk!TreesOK /\ Scan!AddressesOK
    /\ In!RequestsOK

HelperInit ==
    /\ part \in {"gate", "identity", "reader", "walk", "targets", "failures",
                "incoming"}
    /\ Init /\ Id!Init /\ Reader!Init /\ Walk!Init /\ Scan!Init /\ Texts!Init /\ In!Init
    /\ part # "gate" => ~pinned
    /\ part # "identity" => value = "absent"
    /\ part # "walk" => kind = CHOOSE k \in Trees : TRUE

HelperNext ==
    /\ UNCHANGED part
    /\ \/ /\ part = "gate" /\ Next
          /\ UNCHANGED <<identity, reader, walk, targets, failures_told, requests>>
       \/ /\ part = "identity" /\ Id!Next
          /\ UNCHANGED <<vars, reader, walk, targets, failures_told, requests>>
       \/ /\ part = "reader" /\ Reader!Next
          /\ UNCHANGED <<vars, identity, walk, targets, failures_told, requests>>
       \/ /\ part = "walk" /\ Walk!Next
          /\ UNCHANGED <<vars, identity, reader, targets, failures_told, requests>>
       \/ /\ part = "targets" /\ Scan!Next
          /\ UNCHANGED <<vars, identity, reader, walk, failures_told, requests>>
       \/ /\ part = "failures" /\ Texts!Next
          /\ UNCHANGED <<vars, identity, reader, walk, targets, requests>>
       \/ /\ part = "incoming" /\ In!Next
          /\ UNCHANGED <<vars, identity, reader, walk, targets, failures_told>>

helper_vars == <<part, vars, identity, reader, walk, targets, failures_told, requests>>
HelperSpec == HelperInit /\ [][HelperNext]_helper_vars

\* Every server presents the same certificate, and no key is replaced, whatever ends
\* the helper (identity.rs:94-110).
IdentityStays == [][Id!IdentityStep]_identity

\* Each command line is read once, whole, or rejected for its length (main.rs:50-113); of a
\* last one that was cut and rejected, the beginning may be read once more.
EachLineOnce == part = "reader" => Reader!EachLineOnce

\* The offer is whole and within the limits, or refused for its cause
\* (docs/USAGE.md:23-30).
OfferIsRight == part = "walk" => Walk!OfferIsRight

\* A round probes each host the documents promise once, and nothing else
\* (docs/ARCHITECTURE.md:88-92).
TargetsAreRight == part = "targets" => Scan!TargetsAreRight

\* A failure has the code of what went wrong (main.rs:2506-2553).
TextsDecide == part = "failures" => Texts!TextsDecide

\* A request the helper keeps for an answer is one the server waits for, or its expiry
\* is on the way (main.rs:1348), and the panel does not follow again the session it
\* finished last (Service.qml:683).
RequestsAreRight == In!TypeOK /\ In!PendingIsAsked /\ In!EndedIsNotFollowed
=============================================================================
