----------------------------- MODULE ScanTargets -----------------------------
(***************************************************************************)
(* What a round probes, src/backend/src/main.rs 474-592: the known peers   *)
(* that an interface reaches directly, then, if none answers, the hosts of *)
(* the interfaces' networks.  An address is a number of Bits bits, a mask  *)
(* the set of its one bits (bit 0 the lowest); a network of more than      *)
(* MaxSubnet addresses is cut to the LocalRange around each interface.     *)
(***************************************************************************)
EXTENDS Integers, FiniteSets

CONSTANTS
    Bits, MaxSubnet, LocalRange,  \* 32, 1024, 256 in the code
    Special,                      \* unspecified, loopback, link-local, multicast, broadcast
    Local, Mask, Remote,          \* bounds: the addresses and masks there are
    MaxInterfaces

\* 2^k.
TwoTo[k \in 0..Bits] == IF k = 0 THEN 1 ELSE 2 * TwoTo[k - 1]

Address == 0..(TwoTo[Bits] - 1)
Bit == 0..(Bits - 1)

\* What the constants are to be.
AddressesOK ==
    /\ Special \subseteq Address /\ Local \subseteq Address /\ Remote \subseteq Address
    /\ Mask \subseteq SUBSET Bit /\ Bits \in Nat /\ MaxInterfaces \in Nat
    /\ MaxSubnet \in Nat /\ MaxSubnet >= 2
    /\ \E k \in Bit : LocalRange = TwoTo[k] /\ LocalRange <= MaxSubnet

VARIABLES
    interfaces,  \* <<address, mask>> of each
    known,       \* addresses of the peers in the registry
    cached,      \* those probed first
    confirmed,   \* and those that answered
    scanned,     \* addresses of the scan
    stage

vars == <<interfaces, known, cached, confirmed, scanned, stage>>

\* ipv4_prefix_length: a mask whose ones are its highest bits has one, their number.
HasPrefix(mask) == mask = {b \in Bit : b >= Bits - Cardinality(mask)}
Prefix(mask) == Cardinality(mask)

Size(prefix) == TwoTo[Bits - prefix]
NetworkOf(address, prefix) == address - (address % Size(prefix))

Usable == {i[1] : i \in interfaces} \ Special

\* The networks of the usable interfaces: <<network, prefix>>.
Subnets ==
    {<<NetworkOf(i[1], Prefix(i[2])), Prefix(i[2])>> :
        i \in {i \in interfaces : i[1] \in Usable /\ HasPrefix(i[2])}}

LocalAddresses(subnet) ==
    {i[1] : i \in {i \in interfaces :
        i[1] \in Usable /\ HasPrefix(i[2])
        /\ <<NetworkOf(i[1], Prefix(i[2])), Prefix(i[2])>> = subnet}}

FirstRanges(subnet) ==
    IF Size(subnet[2]) > MaxSubnet
      THEN {<<subnet[1], LocalRange>>}
      ELSE {<<subnet[1], Size(subnet[2])>>}

\* <<start, count>> of what is scanned of a network.
Ranges(subnet) ==
    IF Size(subnet[2]) > MaxSubnet
      THEN {<<a - (a % LocalRange), LocalRange>> : a \in LocalAddresses(subnet)}
      ELSE {<<subnet[1], Size(subnet[2])>>}

\* 1..scan_count.saturating_sub(1), which excludes its end.
Hosts(range) == {range[1] + host : host \in 1..(range[2] - 2)}

http_scan_targets == (UNION {UNION {Hosts(r) : r \in Ranges(s)} : s \in Subnets}) \ Usable

\* A mask that is no prefix reaches nothing.
Reaches(i, address) ==
    /\ HasPrefix(i[2])
    /\ LET size == Size(Prefix(i[2])) IN
       /\ NetworkOf(address, Prefix(i[2])) = NetworkOf(i[1], Prefix(i[2]))
       /\ address % size \notin {0, size - 1}
       /\ address # i[1]

cached_candidate_devices ==
    {a \in known \ Special : \E i \in interfaces : Reaches(i, a)}

Init ==
    /\ interfaces = {} /\ known = {} /\ cached = {} /\ confirmed = {} /\ scanned = {}
    /\ stage = "setup"

HasInterface ==
    /\ stage = "setup" /\ Cardinality(interfaces) < MaxInterfaces
    /\ \E a \in Local, m \in Mask : interfaces' = interfaces \cup {<<a, m>>}
    /\ UNCHANGED <<known, cached, confirmed, scanned, stage>>

KnowsPeer ==
    /\ stage = "setup" /\ known = {}
    /\ \E a \in Remote : known' = known \cup {a}
    /\ UNCHANGED <<interfaces, cached, confirmed, scanned, stage>>

\* The round probes its candidates, unless it is forced.
Probe ==
    /\ stage = "setup" /\ stage' = "probed"
    /\ \E forced \in BOOLEAN :
          cached' = IF forced THEN {} ELSE cached_candidate_devices
    /\ confirmed' \in SUBSET cached'
    /\ UNCHANGED <<interfaces, known, scanned>>

remaining_subnet_targets ==
    /\ stage = "probed" /\ stage' = "scanned"
    /\ scanned' = IF confirmed # {} THEN {} ELSE http_scan_targets \ cached
    /\ UNCHANGED <<interfaces, known, cached, confirmed>>

Next == HasInterface \/ KnowsPeer \/ Probe \/ remaining_subnet_targets

Spec == Init /\ [][Next]_vars

-----------------------------------------------------------------------------
(* Properties *)

Missed == stage = "scanned" /\ confirmed = {}

\* docs/ARCHITECTURE.md:88-91: "Networks up to `/22` are scanned completely; larger
\* networks are bounded to the local `/24` of each selected interface".  A host of a
\* network is an address that agrees with it on the bits of the mask and not all of
\* whose other bits are equal.
IsSet(address, b) == (address \div TwoTo[b]) % 2 = 1
Agree(a, c, bits) == \A b \in bits : IsSet(a, b) <=> IsSet(c, b)
IsHost(a, local, mask) ==
    /\ Agree(a, local, mask)
    /\ \E b, c \in Bit \ mask : IsSet(a, b) /\ ~IsSet(a, c)
HighBits(mask) == \A b \in mask, c \in Bit \ mask : c < b
LocalMask == {b \in Bit : TwoTo[b] >= LocalRange}

ScansCompletely ==
    Missed =>
        scanned \cup (cached \cap http_scan_targets) =
            {a \in Address :
                /\ \A i \in interfaces : a = i[1] => a \in Special
                /\ \E i \in interfaces :
                     /\ i[1] \notin Special /\ HighBits(i[2])
                     /\ IsHost(a, i[1], IF TwoTo[Cardinality(Bit \ i[2])] <= MaxSubnet
                                          THEN i[2] ELSE LocalMask)}

\* main.rs:544-575: a known peer is only probed at an address that some interface
\* reaches directly, and that is a host's.
HintsReach ==
    \A a \in cached : a \notin Special /\ \E i \in interfaces :
        HighBits(i[2]) /\ IsHost(a, i[1], i[2]) /\ a # i[1]

\* main.rs:36 and docs/ARCHITECTURE.md:91-92: a scan is bounded whatever the masks.
ScanBounded == Cardinality(scanned) <= MaxInterfaces * (MaxSubnet - 2)

\* main.rs:577-592: a round probes no address twice, and never itself.
ProbedOnce ==
    /\ scanned \cap cached = {}
    /\ stage = "scanned" => scanned \cap {i[1] : i \in interfaces} \subseteq Special

\* main.rs:474-592: a round that finds nobody has probed each host the documents
\* promise once, and nothing else.
TargetsAreRight == ScansCompletely /\ HintsReach /\ ScanBounded /\ ProbedOnce

=============================================================================
