------------------------------ MODULE Identity ------------------------------
(***************************************************************************)
(* The TLS identity, src/backend/src/identity.rs load_or_create: what a    *)
(* helper does at its start with identity.json, up to the moment it has    *)
(* the port and serves with the certificate.  The file is the register of  *)
(* AtomicFile.tla; helpers may start at once, die, or lose power.          *)
(***************************************************************************)
EXTENDS Naturals, FiniteSets

CONSTANTS
    Helper,
    Cert,        \* certificates with their keys
    Stale,       \* per certificate: the document with another fingerprint
    Broken,      \* documents that read_identity or validate refuses
    NoHelper,    \* nobody has the port
    MaxStarts,   \* bound: starts of helpers
    MaxDeaths,   \* bound: helpers that end, at any step
    MaxLosses    \* bound: power losses

Stored == {Stale[c] : c \in Cert}
Document == Cert \cup Stored \cup Broken

\* What the constants are to be.
DocumentsOK ==
    /\ Stale \in [Cert -> Stored]
    /\ Cert \cap (Stored \cup Broken) = {} /\ Stored \cap Broken = {}
    /\ \A c, d \in Cert : Stale[c] = Stale[d] => c = d
    /\ Document \cap {"absent", "unsafe", "none"} = {} /\ NoHelper \notin Helper

VARIABLES
    value, stable, saving, outcome,  \* identity.json (AtomicFile)
    stage,   \* per helper: what it is doing
    cert,    \* per helper: the certificate it is to serve with
    port,    \* the helper that listens
    made,    \* history: the certificates generated, or found at first
    served,  \* history: the certificates served with
    slipped, \* history: a save ended between its rename and its success
    starts, deaths, losses

register == <<value, stable, saving, outcome>>
bounds == <<starts, deaths, losses>>
vars == <<register, stage, cert, port, made, served, slipped, bounds>>

File == INSTANCE AtomicFile WITH Value <- Document

Stages == {"off", "reading", "create", "repair", "saving", "bind", "serving"}

\* The certificate a document holds, if any.
HeldBy(d) == {c \in Cert : d = c \/ d = Stale[c]}

\* The types of the register, of each helper and of the histories.
TypeOK ==
    /\ stage \in [Helper -> Stages]
    /\ cert \in [Helper -> Cert \cup {"none"}]
    /\ \A h \in Helper : stage[h] \notin {"off", "reading"} => cert[h] \in made
    /\ port \in Helper \cup {NoHelper}
    /\ port # NoHelper <=> \E h \in Helper : stage[h] = "serving"

Init ==
    /\ File!Init
    /\ stage = [h \in Helper |-> "off"]
    /\ cert = [h \in Helper |-> "none"]
    /\ port = NoHelper
    /\ made = HeldBy(value)
    /\ served = {}
    /\ slipped = FALSE
    /\ starts = 0 /\ deaths = 0 /\ losses = 0

Goto(h, s) == stage' = [stage EXCEPT ![h] = s]
FileError(h) == File!Fail(h) /\ outcome'[h] = "err"

-----------------------------------------------------------------------------
Launch(h) ==
    /\ stage[h] = "off" /\ starts < MaxStarts
    /\ File!Start(h) /\ saving'[h].val = "none"
    /\ Goto(h, "reading") /\ starts' = starts + 1
    /\ UNCHANGED <<cert, port, made, served, slipped, deaths, losses>>

\* No file: a new certificate, which nobody has had.
Generate(h) ==
    \E c \in Cert \ made :
        /\ cert' = [cert EXCEPT ![h] = c]
        /\ made' = made \cup {c}
        /\ Goto(h, "create")

\* A file that is read and validated: serve with what it holds, once the
\* fingerprint beside it is right.
Adopt(h) ==
    \E c \in HeldBy(value) :
        /\ cert' = [cert EXCEPT ![h] = c]
        /\ Goto(h, IF value = c THEN "bind" ELSE "repair")
        /\ UNCHANGED made

Read(h) ==
    /\ stage[h] = "reading"
    /\ \/ /\ File!Load(h)
          /\ \/ value = "absent" /\ Generate(h)
             \/ Adopt(h)
             \/ value \in Broken /\ Goto(h, "off") /\ UNCHANGED <<cert, made>>
       \/ FileError(h) /\ Goto(h, "off") /\ UNCHANGED <<cert, made>>
    /\ UNCHANGED <<port, served, slipped, bounds>>

\* save, in three steps: it starts, renames, and returns.
Save(h) ==
    /\ stage[h] \in {"create", "repair"}
    /\ File!Start(h) /\ saving'[h].val = cert[h]
    /\ Goto(h, "saving")
    /\ UNCHANGED <<cert, port, made, served, slipped, bounds>>

Rename(h) ==
    /\ stage[h] = "saving"
    /\ File!PutInForce(h)
    /\ UNCHANGED <<stage, cert, port, made, served, slipped, bounds>>

ForgivingSaved(h) ==
    /\ stage[h] = "saving"
    /\ File!Acknowledge(h) \/ FileError(h)
    /\ Goto(h, "bind")
    /\ UNCHANGED <<cert, port, made, served, slipped, bounds>>

\* An identity that may not be stored is not served with.
Saved(h) ==
    /\ stage[h] = "saving"
    /\ \/ File!Acknowledge(h) /\ Goto(h, "bind") /\ UNCHANGED slipped
       \/ FileError(h) /\ Goto(h, "off") /\ slipped' = (slipped \/ saving[h].done)
    /\ UNCHANGED <<cert, port, made, served, bounds>>

\* The server takes the port, or its helper ends.
Bind(h) ==
    /\ stage[h] = "bind"
    /\ \/ /\ port = NoHelper
          /\ port' = h /\ served' = served \cup {cert[h]} /\ Goto(h, "serving")
       \/ port # NoHelper /\ Goto(h, "off") /\ UNCHANGED <<port, served>>
    /\ UNCHANGED <<register, cert, made, slipped, bounds>>

\* The helper is shut down, killed or crashes, whatever it is doing.
Exit(h) ==
    /\ stage[h] # "off" /\ deaths < MaxDeaths
    /\ File!Fail(h) /\ outcome'[h] = "none"
    /\ Goto(h, "off")
    /\ port' = IF port = h THEN NoHelper ELSE port
    /\ slipped' = (slipped \/ saving[h].done)
    /\ deaths' = deaths + 1
    /\ UNCHANGED <<cert, made, served, starts, losses>>

PowerLoss ==
    /\ losses < MaxLosses
    /\ File!PowerLoss
    /\ stage' = [h \in Helper |-> "off"] /\ port' = NoHelper
    /\ losses' = losses + 1
    /\ UNCHANGED <<cert, made, served, slipped, starts, deaths>>

Settle == File!Settle /\ UNCHANGED <<stage, cert, port, made, served, slipped, bounds>>

Next ==
    \/ PowerLoss \/ Settle
    \/ \E h \in Helper :
          Launch(h) \/ Read(h) \/ Save(h) \/ Rename(h) \/ Saved(h) \/ Bind(h) \/ Exit(h)

Spec == Init /\ [][Next]_vars

-----------------------------------------------------------------------------
(* Properties *)

\* identity.rs:94-110: every server presents the same certificate, however often
\* its helper dies, saves fail or power is lost, unless power is lost after a save
\* that ended between its rename and its success.
IdentityKept == Cardinality(served) <= 1 \/ (slipped /\ losses > 0)

\* docs/SECURITY.md:132-133: "preserves a valid identity across restarts".
OneIdentity == Cardinality(served) <= 1

\* identity.rs:102-109: the file is only ever written when there is none, or to put
\* the right fingerprint beside the same certificate; what cannot be read is kept.
KeyIsKept ==
    value' # value =>
        \/ losses' # losses
        \/ value = "absent"
        \/ value' \in Cert /\ HeldBy(value) = {value'}

\* identity.rs:94-110: one certificate is served with, and no key is replaced.
IdentityStep == TypeOK' /\ IdentityKept' /\ KeyIsKept

=============================================================================
