-------------------------------- MODULE Peers --------------------------------
(***************************************************************************)
(* The registry of peers and the gate before it, src/backend/src/main.rs   *)
(* 337-472 and 1422-1429, with the list the panel keeps (src/Model.js      *)
(* 13-34).  Devices are recorded by the command loop and by the discovery  *)
(* task at once; the loop's timers send snapshots.  Output is applied to   *)
(* the panel's list when it is printed: the pipe between them is a FIFO.   *)
(***************************************************************************)
EXTENDS Naturals, Sequences, FiniteSets, FiniteSetsExt

CONSTANTS
    Fingerprint, Detail,  \* a device: who it is, and its alias, address, port
    NoPeer,
    MaxPeers,             \* entries of the registry, and rows of the panel
    MaxFingerprints,      \* HTTPS fingerprints remembered
    Burst, Rate,          \* events at once, and then per tick of the clock
    Ttl,                  \* ticks after which a peer expires
    MaxAnnouncements      \* bound: devices that arrive

\* What the constants are to be.
SizesOK ==
    /\ {MaxPeers, MaxFingerprints, Burst, Rate} \subseteq Nat \ {0}
    /\ Ttl \in Nat /\ MaxAnnouncements \in Nat

Thread == {"loop", "scan"}
Device == [fingerprint: Fingerprint, protocol: {"http", "https"}, detail: Detail]

VARIABLES
    peers,             \* registry: per fingerprint, the device and its age
    https_order,       \* the remembered fingerprints, oldest first
    known,             \* https_fingerprints: the same, as a set
    tokens, since,     \* tokens left when last refilled, and ticks since then
    snapshot_pending,
    printing,          \* per thread: what it is about to print
    flushing,          \* the flush has taken the pending mark
    discovering,       \* the loop has a discovery
    shown,             \* the panel's list
    excess,            \* history: events beyond Rate per tick
    seen, after,       \* history: the fingerprints seen over HTTPS; those remembered
                       \* since one was remembered itself
    arrived

fingerprints == <<https_order, known, seen, after>>
gate == <<fingerprints, tokens, since, snapshot_pending>>
vars == <<peers, gate, printing, flushing, discovering, shown, excess, arrived>>

Nothing == [kind |-> "nothing", rows |-> [f \in Fingerprint |-> NoPeer]]

\* The types of the registry, the gate and the panel's list.
TypeOK ==
    /\ DOMAIN peers = Fingerprint
    /\ \A f \in Fingerprint :
          peers[f] # NoPeer => peers[f].dev.fingerprint = f /\ peers[f].age \in 0..(Ttl + 1)
    /\ known = {https_order[i] : i \in 1..Len(https_order)}
    /\ Cardinality(known) = Len(https_order) /\ Len(https_order) <= MaxFingerprints
    /\ known \subseteq seen /\ seen \subseteq Fingerprint
    /\ after \in [Fingerprint -> SUBSET Fingerprint]
    /\ tokens \in 0..Burst /\ snapshot_pending \in BOOLEAN
    /\ Cardinality({f \in Fingerprint : peers[f] # NoPeer}) <= MaxPeers
    /\ Cardinality({f \in Fingerprint : shown[f] # NoPeer}) <= MaxPeers

Init ==
    /\ peers = [f \in Fingerprint |-> NoPeer]
    /\ https_order = <<>> /\ known = {}
    /\ seen = {} /\ after = [f \in Fingerprint |-> {}]
    /\ tokens = Burst /\ since = 0
    /\ snapshot_pending = FALSE
    /\ printing = [t \in Thread |-> Nothing]
    /\ flushing = FALSE /\ discovering = FALSE
    /\ shown = [f \in Fingerprint |-> NoPeer]
    /\ excess = 0 /\ arrived = 0

-----------------------------------------------------------------------------
(* The gate *)

\* Mutant: a new HTTPS fingerprint is not remembered.
ForgetfulAdmits(d) ==
    /\ d.protocol = "http" => d.fingerprint \notin known
    /\ seen' = IF d.protocol = "https" THEN seen \cup {d.fingerprint} ELSE seen
    /\ UNCHANGED <<https_order, known, after>>

\* A new HTTPS fingerprint: the oldest is forgotten once there are too many.
Remember(f) ==
    LET order == Append(https_order, f) IN
    /\ IF Len(order) > MaxFingerprints
         THEN https_order' = Tail(order) /\ known' = (known \cup {f}) \ {Head(order)}
         ELSE https_order' = order /\ known' = known \cup {f}
    /\ seen' = seen \cup {f}
    /\ after' = [g \in Fingerprint |->
                   IF g = f \/ g \notin seen THEN {} ELSE after[g] \cup {f}]

\* PeerGate::admits: plain HTTP is refused to a remembered fingerprint.
admits(d) ==
    \/ /\ d.protocol = "http" /\ d.fingerprint \notin known
       /\ UNCHANGED fingerprints
    \/ /\ d.protocol = "https" /\ d.fingerprint \in known
       /\ UNCHANGED fingerprints
    \/ /\ d.protocol = "https" /\ d.fingerprint \notin known
       /\ Remember(d.fingerprint)

Refilled == Min({Burst, tokens + since * Rate})

\* retain: the peers that have not expired.
Live == [f \in Fingerprint |->
            IF peers[f] # NoPeer /\ peers[f].age <= Ttl THEN peers[f] ELSE NoPeer]
Held(ps) == {f \in Fingerprint : ps[f] # NoPeer}
Rows(ps) == [f \in Fingerprint |-> IF ps[f] = NoPeer THEN NoPeer ELSE ps[f].dev]

\* The peer that makes room for f, if there must be one: one heard of longest ago.
Room(f) ==
    IF f \in Held(Live) \/ Cardinality(Held(Live)) < MaxPeers
      THEN {{}}
      ELSE {{g} : g \in {g \in Held(Live) :
                            \A k \in Held(Live) : Live[k].age <= Live[g].age}}

\* take_event: an event now, or a snapshot later.
Take(t, d) ==
    /\ since' = 0
    /\ IF Refilled >= 1
         THEN /\ tokens' = Refilled - 1 /\ UNCHANGED snapshot_pending
              /\ excess' = excess + 1
              /\ printing' = [printing EXCEPT ![t] =
                   [kind |-> "device", rows |-> [Nothing.rows EXCEPT ![d.fingerprint] = d]]]
         ELSE /\ tokens' = Refilled /\ snapshot_pending' = TRUE
              /\ UNCHANGED <<excess, printing>>

\* record_peer, under the gate's lock; it prints after it has let go of it.
record_peer(t) ==
    /\ printing[t] = Nothing /\ arrived < MaxAnnouncements
    /\ t = "scan" => discovering
    /\ \E d \in Device, gone \in SUBSET Fingerprint :
          /\ admits(d)
          /\ gone \in Room(d.fingerprint)
          /\ peers' = [f \in Fingerprint |->
                         CASE f = d.fingerprint -> [dev |-> d, age |-> 0]
                           [] f \in gone -> NoPeer
                           [] OTHER -> Live[f]]
          /\ IF Live[d.fingerprint] # NoPeer /\ Live[d.fingerprint].dev = d
               THEN UNCHANGED <<tokens, since, snapshot_pending, excess, printing>>
               ELSE Take(t, d)
    /\ arrived' = arrived + 1
    /\ UNCHANGED <<flushing, discovering, shown>>

-----------------------------------------------------------------------------
(* The command loop: its timers and the discovery *)

\* expire_and_snapshot, about to be printed.
expire_and_snapshot(emits) ==
    /\ peers' = Live
    /\ printing' = IF emits
                     THEN [printing EXCEPT !["loop"] = [kind |-> "snapshot", rows |-> Rows(Live)]]
                     ELSE printing

LoopIsFree == printing["loop"] = Nothing /\ ~flushing

\* Every five seconds peers expire; the panel is told only during a discovery.
ExpiryTick ==
    /\ LoopIsFree
    /\ expire_and_snapshot(discovering)
    /\ UNCHANGED <<gate, flushing, discovering, shown, excess, arrived>>

TakePending ==
    /\ LoopIsFree /\ snapshot_pending
    /\ snapshot_pending' = FALSE /\ flushing' = TRUE
    /\ UNCHANGED <<peers, fingerprints, tokens, since, printing, discovering, shown,
                   excess, arrived>>

Flush ==
    /\ flushing /\ flushing' = FALSE
    /\ expire_and_snapshot(TRUE)
    /\ UNCHANGED <<gate, discovering, shown, excess, arrived>>

StartDiscovery ==
    /\ LoopIsFree /\ ~discovering
    /\ discovering' = TRUE
    /\ expire_and_snapshot(TRUE)
    /\ UNCHANGED <<gate, flushing, shown, excess, arrived>>

StopDiscovery ==
    /\ LoopIsFree /\ discovering
    /\ discovering' = FALSE
    /\ UNCHANGED <<peers, gate, printing, flushing, shown, excess, arrived>>

\* A line is printed, and reaches the panel: a device is put in the list, from
\* which the last row falls when it is too long; a snapshot replaces it.
Emit(t) ==
    LET p == printing[t]
        next == IF p.kind = "snapshot" THEN p.rows
                ELSE [f \in Fingerprint |-> IF p.rows[f] # NoPeer THEN p.rows[f] ELSE shown[f]]
    IN  /\ p # Nothing
        /\ IF Cardinality(Held(next)) <= MaxPeers
             THEN shown' = next
             ELSE \E f \in Held(next) : shown' = [next EXCEPT ![f] = NoPeer]
        /\ printing' = [printing EXCEPT ![t] = Nothing]
        /\ UNCHANGED <<peers, gate, flushing, discovering, excess, arrived>>

\* Time passes: peers age, tokens come back.
Tick ==
    /\ peers' = [f \in Fingerprint |->
                   IF peers[f] = NoPeer THEN NoPeer
                   ELSE [peers[f] EXCEPT !.age = Min({@ + 1, Ttl + 1})]]
    /\ since' = Min({since + 1, Burst})
    /\ excess' = IF excess > Rate THEN excess - Rate ELSE 0
    /\ UNCHANGED <<fingerprints, tokens, snapshot_pending, printing, flushing,
                   discovering, shown, arrived>>

Next ==
    \/ \E t \in Thread : record_peer(t) \/ Emit(t)
    \/ ExpiryTick \/ TakePending \/ Flush \/ StartDiscovery \/ StopDiscovery \/ Tick

Spec == Init /\ [][Next]_vars

\* The timers fire, and what was read is printed.
FairSpec ==
    /\ Spec
    /\ WF_vars(ExpiryTick) /\ WF_vars(TakePending) /\ WF_vars(Flush)
    /\ \A t \in Thread : WF_vars(Emit(t))

-----------------------------------------------------------------------------
(* Properties *)

\* main.rs:40-43: the frontend is sent a burst of device events, then Rate of them
\* per tick, whatever arrives.
RateBounded == excess <= Burst

\* main.rs:380-395: plain HTTP is admitted for a fingerprint that was seen over HTTPS
\* only after MaxFingerprints others were remembered since it was.
PlainOnlyIfForgotten ==
    \A f \in seen :
        peers[f] # NoPeer /\ peers[f].dev.protocol = "http"
            => Cardinality(after[f]) >= MaxFingerprints

\* docs/SECURITY.md:18-21: "Once a device has been seen over HTTPS, the helper
\* refuses plain HTTP announcements for its fingerprint until it restarts."  The code
\* keeps this only while a fingerprint is remembered (run downgraded).
NeverDowngraded ==
    [][\A f \in Fingerprint :
        peers[f] # NoPeer /\ peers[f].dev.protocol = "https" /\ peers'[f] # NoPeer
           => peers'[f].dev.protocol = "https"]_vars

\* main.rs:340-349, 1422-1425: while a discovery is on, the panel comes to show each
\* peer of the registry as it is, whatever was deferred, or printed out of order.
PeersAreShown ==
    \A d \in Device :
        Rows(peers)[d.fingerprint] = d
            ~> \/ shown[d.fingerprint] = d
               \/ Rows(peers)[d.fingerprint] # d
               \/ ~discovering

\* main.rs:337-472: what arrives neither floods the panel nor replaces a remembered
\* HTTPS peer by a plain one.
DevicesAreRight == TypeOK /\ RateBounded /\ PlainOnlyIfForgotten

=============================================================================
