----------------------------- MODULE Admission -----------------------------
(***************************************************************************)
(* What a sender passes before the receiver looks at its offer: a slot of  *)
(* ConnectionLimit (server/limits.rs), held until its stream is dropped,   *)
(* and the PIN gate (server/pin.rs), which counts the wrong PINs of each   *)
(* address in a least-recently-used cache of bounded size.                 *)
(***************************************************************************)
EXTENDS Naturals, Sequences, FiniteSets, SequencesExt

CONSTANTS
  Addrs,       \* IP addresses
  Streams,     \* connections that may be open or tried at a time
  MaxTotal, MaxPerIp,     \* max_connections, max_connections_per_ip
  Capacity,    \* FAILURE_CACHE_CAPACITY
  MaxChanges   \* bound on set_pin

MaxFailures == 3
Free == "free"

ASSUME LimitsAssumption ==
  /\ {MaxTotal, MaxPerIp, Capacity} \subseteq Nat \ {0} /\ MaxChanges \in Nat
  /\ Free \notin Addrs

VARIABLES
  stream,      \* the address of each open connection, or Free
  total, perIp,           \* ConnectionCounts
  pinned,      \* a PIN is asked for
  order,       \* the addresses of the cache, the most recently used first
  failures,    \* their counts; 0 for an address that is not in the cache
  wrong,       \* wrong PINs since the last right one or set_pin, up to three
  since,       \* the others that used the cache since an address last tried
  changes      \* set_pin calls so far

vars == <<stream, total, perIp, pinned, order, failures, wrong, since, changes>>
slots == <<stream, total, perIp>>
gate == <<pinned, order, failures, wrong, since, changes>>

Init ==
  /\ stream = [c \in Streams |-> Free]
  /\ total = 0 /\ perIp = [a \in Addrs |-> 0]
  /\ pinned \in BOOLEAN /\ order = <<>>
  /\ failures = [a \in Addrs |-> 0] /\ wrong = [a \in Addrs |-> 0]
  /\ since = [a \in Addrs |-> {}] /\ changes = 0

-----------------------------------------------------------------------------
(* ConnectionLimit.                                                        *)

\* Mutant: the slot is taken before the limit of the address is looked at.
AdmitCountsFirst(c, a) ==
  /\ stream[c] = Free
  /\ total < MaxTotal
  /\ total' = total + 1
  /\ IF perIp[a] < MaxPerIp
       THEN stream' = [stream EXCEPT ![c] = a] /\ perIp' = [perIp EXCEPT ![a] = @ + 1]
       ELSE UNCHANGED <<stream, perIp>>
  /\ UNCHANGED gate

\* accept: a connection over a limit is dropped and leaves no trace.
Admit(c, a) ==
  /\ stream[c] = Free
  /\ total < MaxTotal /\ perIp[a] < MaxPerIp
  /\ stream' = [stream EXCEPT ![c] = a]
  /\ total' = total + 1
  /\ perIp' = [perIp EXCEPT ![a] = @ + 1]
  /\ UNCHANGED gate

\* The stream of a connection is dropped.
DropSlot(c) ==
  /\ stream[c] # Free
  /\ stream' = [stream EXCEPT ![c] = Free]
  /\ total' = total - 1
  /\ perIp' = [perIp EXCEPT ![stream[c]] = @ - 1]
  /\ UNCHANGED gate

-----------------------------------------------------------------------------
(* The cache, and PinGate.                                                 *)

Cached(a) == a \in ToSet(order)
Position(a) == CHOOSE i \in 1..Len(order) : order[i] = a
Without(a) == IF Cached(a) THEN RemoveAt(order, Position(a)) ELSE order
Promoted(a) == <<a>> \o Without(a)

\* Mutant: a lookup does not count as a use.
GetPeeks(a) == order
\* LruCache::get.
Get(a) == IF Cached(a) THEN Promoted(a) ELSE order

\* The others see that a was looked up, or put into the cache.
Tried(a, used) ==
  since' = [b \in Addrs |-> IF b = a THEN {} ELSE IF used THEN since[b] \union {a} ELSE since[b]]

\* LruCache::put, which drops the least recently used when it overflows.
Put(a) ==
  LET full == ~Cached(a) /\ Len(order) = Capacity
      lost == IF full THEN {order[Capacity]} ELSE {}
  IN /\ order' = <<a>> \o (IF full THEN Front(order) ELSE Without(a))
     /\ failures' = [b \in Addrs |-> IF b = a THEN failures[a] + 1
                                     ELSE IF b \in lost THEN 0 ELSE failures[b]]

Blocked(a) == failures[a] >= MaxFailures

\* A wrong PIN.
Fail(a) ==
  /\ Put(a)
  /\ wrong' = [wrong EXCEPT ![a] = IF @ < MaxFailures THEN @ + 1 ELSE @]
  /\ Tried(a, TRUE)

\* The right one: pop.
Pass(a) ==
  /\ order' = Without(a)
  /\ failures' = [failures EXCEPT ![a] = 0]
  /\ wrong' = [wrong EXCEPT ![a] = 0]
  /\ Tried(a, FALSE)

\* check, of a /prepare-upload on a connection of address a.  Without a PIN
\* every request passes and nothing is looked up.
Check(a, given) ==
  /\ pinned
  /\ \/ /\ Blocked(a) \/ given = "missing"
        /\ order' = Get(a)
        /\ Tried(a, Cached(a))
        /\ UNCHANGED <<failures, wrong>>
     \/ ~Blocked(a) /\ given = "right" /\ Pass(a)
     \/ ~Blocked(a) /\ given = "wrong" /\ Fail(a)
  /\ UNCHANGED <<slots, pinned, changes>>

\* set_pin.
SetPin ==
  /\ changes < MaxChanges /\ changes' = changes + 1
  /\ pinned' \in BOOLEAN
  /\ order' = <<>> /\ failures' = [a \in Addrs |-> 0]
  /\ wrong' = [a \in Addrs |-> 0] /\ since' = [a \in Addrs |-> {}]
  /\ UNCHANGED slots

Next ==
  \/ SetPin
  \/ \E c \in Streams :
       \/ DropSlot(c)
       \/ \E a \in Addrs : Admit(c, a)
       \/ /\ stream[c] # Free
          /\ \E given \in {"right", "wrong", "missing"} : Check(stream[c], given)

Spec == Init /\ [][Next]_vars

-----------------------------------------------------------------------------
(* Properties.                                                             *)

OpenFrom(a) == {c \in Streams : stream[c] = a}

\* The types; the cache holds each address once, with a count above zero, and no more
\* than its capacity.
TypeOK ==
  /\ stream \in [Streams -> Addrs \union {Free}]
  /\ total \in Nat /\ perIp \in [Addrs -> Nat]
  /\ pinned \in BOOLEAN /\ changes \in 0..MaxChanges
  /\ Len(order) <= Capacity /\ IsInjective(order) /\ ToSet(order) \subseteq Addrs
  /\ failures \in [Addrs -> 0..MaxFailures]
  /\ \A a \in Addrs : failures[a] > 0 <=> Cached(a)

\* No slot is lost and none is made up: the two counts are those of the open
\* connections, however admissions, refusals and drops follow one another.
SlotsAreStreams ==
  /\ total = Cardinality({c \in Streams : stream[c] # Free}) /\ total <= MaxTotal
  /\ \A a \in Addrs : perIp[a] = Cardinality(OpenFrom(a)) /\ perIp[a] <= MaxPerIp

\* An address is blocked only after three wrong PINs of its own since its last
\* right one: requests without a PIN and other addresses do not count.
BlockedForCause == \A a \in Addrs : Blocked(a) => wrong[a] >= MaxFailures

\* A blocked address stays blocked until the PIN is changed, unless as many
\* other addresses as the cache holds have used it since this one last tried; and the
\* cache stays well formed, whichever address makes room for which (pin.rs:20-47).
\* docs/SECURITY.md:12-15, USAGE.md:148-150 and TROUBLESHOOTING.md:90-92 promise it
\* without the exception, which the code does not keep: an address that makes room in
\* the cache is let in again, though the PIN is the same and the helper still runs.
BlockedStays ==
  [][/\ TypeOK'
     /\ \/ changes' # changes
        \/ \A a \in Addrs : Blocked(a) => Blocked(a)' \/ Cardinality(since'[a]) >= Capacity]_vars
=============================================================================
