-------------------------- MODULE HelperParts_proofs -----------------------
(***************************************************************************)
(* Proofs about the parts of HelperParts, for any constants: the admission *)
(* of connections and the PIN gate, the identity, the reader of commands,  *)
(* a request between the server, the helper and the panel, the codes of    *)
(* failures, the walk over what is sent, and the addresses a round probes. *)
(***************************************************************************)
EXTENDS HelperParts, FiniteSetTheorems, SequenceTheorems, WellFoundedInduction, TLAPS

-----------------------------------------------------------------------------
(* The slots *)

Open == {c \in Streams : stream[c] # Free}

\* The connections that are open are finitely many, and the counts are theirs.
SlotsInv ==
  /\ stream \in [Streams -> Addrs \cup {Free}]
  /\ total \in Nat /\ perIp \in [Addrs -> Nat]
  /\ IsFiniteSet(Open)
  /\ total = Cardinality(Open) /\ total <= MaxTotal
  /\ \A a \in Addrs : perIp[a] = Cardinality(OpenFrom(a)) /\ perIp[a] <= MaxPerIp

LEMMA AdmitSlots ==
  ASSUME SlotsInv, NEW c \in Streams, NEW a \in Addrs, Admit(c, a)
  PROVE  SlotsInv'
<1>. USE LimitsAssumption
<1>1. stream' \in [Streams -> Addrs \cup {Free}] /\ perIp' \in [Addrs -> Nat] /\ total' = total + 1
  BY DEF SlotsInv, Admit
<1>2. c \notin Open /\ Open' = Open \cup {c}
  BY DEF SlotsInv, Admit, Open
<1>3. IsFiniteSet(Open') /\ Cardinality(Open') = Cardinality(Open) + 1
  BY <1>2, FS_AddElement DEF SlotsInv
<1>4. total' = Cardinality(Open') /\ total' <= MaxTotal /\ total' \in Nat
  BY <1>1, <1>3 DEF SlotsInv, Admit
<1>5. ASSUME NEW b \in Addrs
      PROVE  perIp'[b] = Cardinality(OpenFrom(b)') /\ perIp'[b] <= MaxPerIp
  <2>1. CASE b = a
    <3>1. c \notin OpenFrom(a) /\ OpenFrom(a)' = OpenFrom(a) \cup {c}
      BY DEF SlotsInv, Admit, OpenFrom
    <3>2. IsFiniteSet(OpenFrom(a))
      <4>1. OpenFrom(a) \subseteq Open
        BY DEF Open, OpenFrom
      <4>. QED
        BY <4>1, FS_Subset DEF SlotsInv
    <3>3. Cardinality(OpenFrom(a)') = Cardinality(OpenFrom(a)) + 1
      BY <3>1, <3>2, FS_AddElement
    <3>4. perIp'[a] = perIp[a] + 1 /\ perIp[a] < MaxPerIp
      BY DEF SlotsInv, Admit
    <3>. QED
      BY <2>1, <3>3, <3>4 DEF SlotsInv
  <2>2. CASE b # a
    <3>1. OpenFrom(b)' = OpenFrom(b) /\ perIp'[b] = perIp[b]
      BY <2>2 DEF SlotsInv, Admit, OpenFrom
    <3>. QED
      BY <3>1 DEF SlotsInv
  <2>. QED
    BY <2>1, <2>2
<1>. QED
  BY <1>1, <1>3, <1>4, <1>5 DEF SlotsInv

LEMMA DropSlots ==
  ASSUME SlotsInv, NEW c \in Streams, DropSlot(c)
  PROVE  SlotsInv'
<1>. USE LimitsAssumption
<1>. DEFINE a == stream[c]
<1>0. a \in Addrs /\ c \in Open /\ c \in OpenFrom(a)
  BY DEF SlotsInv, DropSlot, Open, OpenFrom
<1>1. stream' \in [Streams -> Addrs \cup {Free}] /\ total' = total - 1
      /\ perIp' = [perIp EXCEPT ![a] = @ - 1]
  BY DEF SlotsInv, DropSlot
<1>2. Open' = Open \ {c}
  BY DEF SlotsInv, DropSlot, Open
<1>3. IsFiniteSet(Open') /\ Cardinality(Open') = Cardinality(Open) - 1
  BY <1>0, <1>2, FS_RemoveElement DEF SlotsInv
<1>4. Cardinality(Open') \in Nat
  BY <1>3, FS_CardinalityType
<1>5. total' = Cardinality(Open') /\ total' \in Nat /\ total' <= MaxTotal
  BY <1>1, <1>3, <1>4 DEF SlotsInv
<1>6. ASSUME NEW b \in Addrs
      PROVE  perIp'[b] = Cardinality(OpenFrom(b)') /\ perIp'[b] \in Nat /\ perIp'[b] <= MaxPerIp
  <2>1. CASE b = a
    <3>1. OpenFrom(b)' = OpenFrom(b) \ {c}
      BY <1>0, <2>1 DEF SlotsInv, DropSlot, OpenFrom
    <3>2. IsFiniteSet(OpenFrom(b))
      <4>1. OpenFrom(b) \subseteq Open
        BY LimitsAssumption DEF Open, OpenFrom
      <4>. QED
        BY <4>1, FS_Subset DEF SlotsInv
    <3>3. IsFiniteSet(OpenFrom(b)') /\ Cardinality(OpenFrom(b)') = Cardinality(OpenFrom(b)) - 1
      BY <1>0, <2>1, <3>1, <3>2, FS_RemoveElement
    <3>4. Cardinality(OpenFrom(b)') \in Nat
      BY <3>3, FS_CardinalityType
    <3>5. perIp'[b] = perIp[b] - 1
      BY <1>1, <2>1 DEF SlotsInv
    <3>. QED
      BY <3>3, <3>4, <3>5 DEF SlotsInv
  <2>2. CASE b # a
    <3>1. OpenFrom(b)' = OpenFrom(b) /\ perIp'[b] = perIp[b]
      BY <1>0, <1>1, <2>2 DEF SlotsInv, DropSlot, OpenFrom
    <3>. QED
      BY <3>1 DEF SlotsInv
  <2>. QED
    BY <2>1, <2>2
<1>7. perIp' \in [Addrs -> Nat]
  BY <1>0, <1>1, <1>6 DEF SlotsInv
<1>. QED
  BY <1>1, <1>3, <1>5, <1>6, <1>7 DEF SlotsInv

\* A step of the PIN gate touches no slot.
LEMMA GateSlots ==
  ASSUME SlotsInv, UNCHANGED slots
  PROVE  SlotsInv'
BY DEF SlotsInv, slots, Open, OpenFrom

LEMMA SlotsAlways == Spec => []SlotsInv
<1>1. Init => SlotsInv
  <2>. SUFFICES ASSUME Init
                PROVE  SlotsInv
    OBVIOUS
  <2>1. Open = {} /\ \A a \in Addrs : OpenFrom(a) = {}
    BY LimitsAssumption DEF Init, Open, OpenFrom
  <2>2. IsFiniteSet({}) /\ Cardinality({}) = 0
    BY FS_EmptySet
  <2>3. MaxTotal \in Nat /\ MaxPerIp \in Nat
    BY LimitsAssumption
  <2>4. stream \in [Streams -> Addrs \cup {Free}]
    BY DEF Init
  <2>5. total = 0 /\ perIp \in [Addrs -> Nat] /\ \A a \in Addrs : perIp[a] = 0
    BY DEF Init
  <2>. QED
    BY <2>1, <2>2, <2>3, <2>4, <2>5 DEF SlotsInv
<1>2. SlotsInv /\ [Next]_vars => SlotsInv'
  <2>. SUFFICES ASSUME SlotsInv, [Next]_vars
                PROVE  SlotsInv'
    OBVIOUS
  <2>1. CASE SetPin
    BY <2>1, GateSlots DEF SetPin
  <2>2. ASSUME NEW c \in Streams, NEW given, Check(stream[c], given)
        PROVE  SlotsInv'
    BY <2>2, GateSlots DEF Check
  <2>3. CASE UNCHANGED vars
    BY <2>3, GateSlots DEF vars, slots
  <2>. QED
    BY <2>1, <2>2, <2>3, AdmitSlots, DropSlots DEF Next
<1>. QED
  BY <1>1, <1>2, PTL DEF Spec

\* Whatever connections come, are refused and go, the counts of ConnectionLimit are
\* those of the open connections, and within the limits (limits.rs).
THEOREM Slots == Spec => []SlotsAreStreams
<1>1. SlotsInv => SlotsAreStreams
  BY DEF SlotsInv, SlotsAreStreams, Open
<1>. QED
  BY <1>1, SlotsAlways, PTL

-----------------------------------------------------------------------------
(* The gate *)

\* The cache counts no more wrong PINs than an address sent; making room in it, or
\* changing the PIN, only forgets.
CauseInv ==
  /\ stream \in [Streams -> Addrs \cup {Free}]
  /\ failures \in [Addrs -> Nat] /\ wrong \in [Addrs -> 0..MaxFailures]
  /\ \A a \in Addrs : failures[a] <= wrong[a]

LEMMA CheckCause ==
  ASSUME CauseInv, NEW a \in Addrs, NEW given \in {"right", "wrong", "missing"}, Check(a, given)
  PROVE  CauseInv'
<1>. USE DEF CauseInv, MaxFailures
<1>0. UNCHANGED stream
  BY DEF Check, slots
<1>1. CASE UNCHANGED <<failures, wrong>>
  BY <1>0, <1>1
<1>2. CASE Pass(a)
  BY <1>0, <1>2 DEF Pass
<1>3. CASE ~Blocked(a) /\ Fail(a)
  <2>1. failures[a] < 3 /\ failures'[a] = failures[a] + 1
    BY <1>3 DEF Fail, Put, Blocked
  <2>2. \A b \in Addrs : b # a => failures'[b] \in {0, failures[b]}
    BY <1>3 DEF Fail, Put
  <2>3. failures' \in [Addrs -> Nat]
    BY <1>3 DEF Fail, Put
  <2>4. wrong'[a] = (IF wrong[a] < 3 THEN wrong[a] + 1 ELSE wrong[a])
        /\ wrong' \in [Addrs -> 0..3] /\ \A b \in Addrs : b # a => wrong'[b] = wrong[b]
    BY <1>3 DEF Fail
  <2>. QED
    BY <1>0, <2>1, <2>2, <2>3, <2>4
<1>. QED
  BY <1>1, <1>2, <1>3 DEF Check

\* An address is blocked only for three wrong PINs of its own since its last right
\* one (pin.rs).
THEOREM Cause == Spec => []BlockedForCause
<1>1. Init => CauseInv
  BY DEF Init, CauseInv, MaxFailures
<1>2. CauseInv /\ [Next]_vars => CauseInv'
  <2>. SUFFICES ASSUME CauseInv, [Next]_vars
                PROVE  CauseInv'
    OBVIOUS
  <2>1. CASE SetPin
    BY <2>1 DEF SetPin, slots, CauseInv, MaxFailures
  <2>2. ASSUME NEW c \in Streams, NEW a \in Addrs, Admit(c, a)
        PROVE  CauseInv'
    BY <2>2 DEF Admit, gate, CauseInv
  <2>3. ASSUME NEW c \in Streams, DropSlot(c)
        PROVE  CauseInv'
    BY <2>3 DEF DropSlot, gate, CauseInv
  <2>4. ASSUME NEW c \in Streams, stream[c] # Free, NEW given \in {"right", "wrong", "missing"},
               Check(stream[c], given)
        PROVE  CauseInv'
    <3>1. stream[c] \in Addrs
      BY <2>4 DEF CauseInv
    <3>. QED
      BY <2>4, <3>1, CheckCause
  <2>5. CASE UNCHANGED vars
    BY <2>5 DEF vars, CauseInv
  <2>. QED
    BY <2>1, <2>2, <2>3, <2>4, <2>5 DEF Next
<1>3. CauseInv => BlockedForCause
  BY DEF CauseInv, BlockedForCause, Blocked, MaxFailures
<1>. QED
  BY <1>1, <1>2, <1>3, PTL DEF Spec
-----------------------------------------------------------------------------
(* The cache of the gate *)

\* What is left of a sequence of which one place is removed.
LEMMA RemovedPlace ==
  ASSUME NEW S, NEW s \in Seq(S), NEW p \in 1..Len(s)
  PROVE  /\ RemoveAt(s, p) \in Seq(S) /\ Len(RemoveAt(s, p)) = Len(s) - 1
         /\ \A i \in 1..(Len(s) - 1) : RemoveAt(s, p)[i] = IF i < p THEN s[i] ELSE s[i + 1]
<1>. DEFINE t == SubSeq(s, 1, p - 1)
            u == SubSeq(s, p + 1, Len(s))
<1>1. t \in Seq(S) /\ Len(t) = p - 1 /\ \A i \in 1..(p - 1) : t[i] = s[i]
  OBVIOUS
<1>2. u \in Seq(S) /\ Len(u) = Len(s) - p /\ \A i \in 1..(Len(s) - p) : u[i] = s[p + i]
  OBVIOUS
<1>. HIDE DEF t, u
<1>3. t \o u \in Seq(S) /\ Len(t \o u) = Len(s) - 1
  BY <1>1, <1>2
<1>4. \A i \in 1..(Len(s) - 1) : (t \o u)[i] = IF i < p THEN s[i] ELSE s[i + 1]
  <2>. SUFFICES ASSUME NEW i \in 1..(Len(s) - 1)
                PROVE  (t \o u)[i] = IF i < p THEN s[i] ELSE s[i + 1]
    OBVIOUS
  <2>0. i \in Nat /\ p \in Nat /\ (i < p \/ i >= p)
    OBVIOUS
  <2>1. CASE i < p
    BY <1>1, <1>2, <2>1
  <2>2. CASE i >= p
    <3>1. (t \o u)[i] = u[i - (p - 1)]
      BY <1>1, <1>2, <2>2
    <3>. QED
      BY <1>2, <2>2, <3>1, SMTT(30)
  <2>. QED
    BY <2>0, <2>1, <2>2
<1>. QED
  BY <1>3, <1>4 DEF RemoveAt, t, u

\* The addresses of a sequence, by recency: each has seen those before it use the cache.
Recent(s, seen) ==
  /\ s \in Seq(Addrs) /\ Len(s) <= Capacity
  /\ \A i, j \in 1..Len(s) : i < j => s[i] # s[j] /\ s[i] \in seen[s[j]]

\* The cache is in the order of its use, and finitely many have used it.
CacheInv ==
  /\ stream \in [Streams -> Addrs \cup {Free}]
  /\ pinned \in BOOLEAN /\ changes \in 0..MaxChanges
  /\ since \in [Addrs -> SUBSET Addrs]
  /\ \A a \in Addrs : IsFiniteSet(since[a]) /\ a \notin since[a]
  /\ Recent(order, since)
  /\ failures \in [Addrs -> 0..MaxFailures]
  /\ \A a \in Addrs : failures[a] > 0 <=> Cached(a)

\* What Recent says, as TypeOK says it.
LEMMA RecentIsInjective ==
  ASSUME NEW s, NEW seen, Recent(s, seen)
  PROVE  IsInjective(s) /\ ToSet(s) \subseteq Addrs
<1>1. DOMAIN s = 1..Len(s) /\ Len(s) \in Nat
  BY DEF Recent
<1>. QED
  BY <1>1 DEF Recent, IsInjective, ToSet

\* A place is removed: the others keep their order, and the address of it is gone.
LEMMA RecentWithoutPlace ==
  ASSUME NEW s, NEW seen, Recent(s, seen), NEW p \in 1..Len(s), Capacity \in Nat
  PROVE  /\ Recent(RemoveAt(s, p), seen)
         /\ Len(RemoveAt(s, p)) = Len(s) - 1
         /\ ToSet(RemoveAt(s, p)) = ToSet(s) \ {s[p]}
<1>. DEFINE t == RemoveAt(s, p)
<1>1. s \in Seq(Addrs) /\ Len(s) \in Nat
  BY DEF Recent
<1>2. /\ t \in Seq(Addrs) /\ Len(t) = Len(s) - 1
      /\ \A i \in 1..(Len(s) - 1) : t[i] = IF i < p THEN s[i] ELSE s[i + 1]
  BY <1>1, RemovedPlace
<1>. HIDE DEF t
<1>3. ASSUME NEW i \in 1..Len(t), NEW j \in 1..Len(t), i < j
      PROVE  t[i] # t[j] /\ t[i] \in seen[t[j]]
  <2>. DEFINE k == IF i < p THEN i ELSE i + 1
              l == IF j < p THEN j ELSE j + 1
  <2>1. k \in 1..Len(s) /\ l \in 1..Len(s) /\ k < l
    BY <1>1, <1>2, <1>3
  <2>2. t[i] = s[k] /\ t[j] = s[l]
    BY <1>1, <1>2
  <2>. QED
    BY <2>1, <2>2 DEF Recent
<1>4. Recent(t, seen)
  BY <1>1, <1>2, <1>3 DEF Recent
<1>5. DOMAIN s = 1..Len(s) /\ DOMAIN t = 1..(Len(s) - 1)
  BY <1>1, <1>2
<1>6. ASSUME NEW x \in ToSet(t)
      PROVE  x \in ToSet(s) \ {s[p]}
  <2>1. PICK i \in 1..(Len(s) - 1) : x = t[i]
    BY <1>5 DEF ToSet
  <2>2. CASE i < p
    <3>1. x = s[i] /\ i \in 1..Len(s)
      BY <1>1, <1>2, <2>1, <2>2
    <3>. QED
      BY <1>1, <1>5, <2>2, <3>1 DEF Recent, ToSet
  <2>3. CASE i >= p
    <3>1. x = s[i + 1] /\ i + 1 \in 1..Len(s) /\ p < i + 1
      BY <1>1, <1>2, <2>1, <2>3
    <3>. QED
      BY <1>1, <1>5, <3>1 DEF Recent, ToSet
  <2>. QED
    BY <2>2, <2>3
<1>7. ASSUME NEW x \in ToSet(s), x # s[p]
      PROVE  x \in ToSet(t)
  <2>1. PICK i \in 1..Len(s) : x = s[i]
    BY <1>5 DEF ToSet
  <2>2. CASE i < p
    BY <1>1, <1>2, <1>5, <2>1, <2>2, SMTT(30) DEF ToSet
  <2>3. CASE i > p
    <3>1. i - 1 \in 1..(Len(s) - 1) /\ t[i - 1] = s[i]
      BY <1>1, <1>2, <2>1, <2>3
    <3>. QED
      BY <1>5, <2>1, <3>1 DEF ToSet
  <2>. QED
    BY <1>1, <1>7, <2>1, <2>2, <2>3
<1>8. ToSet(t) = ToSet(s) \ {s[p]}
  BY <1>6, <1>7
<1>. QED
  BY <1>2, <1>4, <1>8 DEF t

\* The same, of the place an address has in the cache.
LEMMA WithoutAddress ==
  ASSUME CacheInv, NEW a \in Addrs
  PROVE  /\ Recent(Without(a), since) /\ ToSet(Without(a)) = ToSet(order) \ {a}
         /\ Cached(a) => Len(Without(a)) = Len(order) - 1
<1>. USE LimitsAssumption
<1>0. Recent(order, since) /\ order \in Seq(Addrs) /\ DOMAIN order = 1..Len(order)
  BY DEF CacheInv, Recent
<1>1. CASE Cached(a)
  <2>1. Position(a) \in 1..Len(order) /\ order[Position(a)] = a
    BY <1>0, <1>1 DEF Cached, Position, ToSet
  <2>. QED
    BY <1>0, <1>1, <2>1, RecentWithoutPlace DEF Without
<1>2. CASE ~Cached(a)
  BY <1>0, <1>2 DEF Cached, Without
<1>. QED
  BY <1>1, <1>2
\* An address that is put before the others is the one they saw last.
LEMMA RecentWithFirst ==
  ASSUME NEW s, Recent(s, since), Len(s) < Capacity, NEW a \in Addrs, a \notin ToSet(s),
         since \in [Addrs -> SUBSET Addrs], Tried(a, TRUE), Capacity \in Nat
  PROVE  Recent(<<a>> \o s, since') /\ ToSet(<<a>> \o s) = ToSet(s) \cup {a}
<1>. DEFINE t == <<a>> \o s
<1>1. s \in Seq(Addrs) /\ Len(s) \in Nat /\ DOMAIN s = 1..Len(s)
  BY DEF Recent
<1>2. /\ t \in Seq(Addrs) /\ Len(t) = Len(s) + 1
      /\ t[1] = a /\ \A i \in 2..(Len(s) + 1) : t[i] = s[i - 1]
  BY <1>1
<1>. HIDE DEF t
<1>3. \A b \in Addrs : b # a => since'[b] = since[b] \cup {a}
  BY DEF Tried
<1>4. \A i \in 1..Len(s) : s[i] \in Addrs /\ s[i] # a
  BY <1>1 DEF ToSet
<1>5. ASSUME NEW i \in 1..Len(t), NEW j \in 1..Len(t), i < j
      PROVE  t[i] # t[j] /\ t[i] \in since'[t[j]]
  <2>1. j - 1 \in 1..Len(s) /\ t[j] = s[j - 1] /\ since'[t[j]] = since[s[j - 1]] \cup {a}
    BY <1>1, <1>2, <1>3, <1>4, <1>5
  <2>2. CASE i = 1
    BY <1>2, <1>4, <2>1, <2>2
  <2>3. CASE i # 1
    <3>1. i - 1 \in 1..Len(s) /\ t[i] = s[i - 1] /\ i - 1 < j - 1
      BY <1>1, <1>2, <1>5, <2>3
    <3>. QED
      BY <2>1, <3>1 DEF Recent
  <2>. QED
    BY <2>2, <2>3
<1>6. Recent(t, since')
  BY <1>1, <1>2, <1>5 DEF Recent
<1>7. ToSet(t) = ToSet(s) \cup {a}
  <2>1. DOMAIN t = 1..(Len(s) + 1)
    BY <1>1, <1>2
  <2>2. a \in ToSet(t)
    BY <1>1, <1>2, <2>1 DEF ToSet
  <2>3. ASSUME NEW x \in ToSet(s)
        PROVE  x \in ToSet(t)
    <3>1. PICK i \in 1..Len(s) : x = s[i]
      BY <1>1 DEF ToSet
    <3>2. i + 1 \in 2..(Len(s) + 1) /\ t[i + 1] = s[i]
      BY <1>1, <1>2
    <3>. QED
      BY <1>1, <2>1, <3>1, <3>2 DEF ToSet
  <2>4. ASSUME NEW x \in ToSet(t), x # a
        PROVE  x \in ToSet(s)
    <3>1. PICK i \in 1..(Len(s) + 1) : x = t[i]
      BY <2>1 DEF ToSet
    <3>2. i # 1
      BY <1>2, <2>4, <3>1
    <3>3. i - 1 \in 1..Len(s) /\ x = s[i - 1]
      BY <1>1, <1>2, <3>1, <3>2
    <3>. QED
      BY <1>1, <3>3 DEF ToSet
  <2>. QED
    BY <2>2, <2>3, <2>4
<1>. QED
  BY <1>6, <1>7 DEF t

\* What Tried does to who has seen whom.
LEMMA TriedTypes ==
  ASSUME CacheInv, NEW a \in Addrs, NEW used \in BOOLEAN, Tried(a, used)
  PROVE  /\ since' \in [Addrs -> SUBSET Addrs]
         /\ \A b \in Addrs : IsFiniteSet(since'[b]) /\ b \notin since'[b]
<1>1. since \in [Addrs -> SUBSET Addrs] /\ \A b \in Addrs : IsFiniteSet(since[b]) /\ b \notin since[b]
  BY DEF CacheInv
<1>2. since' \in [Addrs -> SUBSET Addrs]
  BY <1>1 DEF Tried
<1>3. ASSUME NEW b \in Addrs
      PROVE  IsFiniteSet(since'[b]) /\ b \notin since'[b]
  <2>1. CASE b = a
    BY <2>1, FS_EmptySet DEF Tried
  <2>2. CASE b # a /\ used
    <3>1. since'[b] = since[b] \cup {a}
      BY <2>2 DEF Tried
    <3>2. IsFiniteSet(since[b])
      BY <1>1
    <3>3. IsFiniteSet(since[b] \cup {a})
      BY <3>2, FS_AddElement
    <3>. QED
      BY <1>1, <2>2, <3>1, <3>3
  <2>3. CASE b # a /\ ~used
    BY <1>1, <2>3 DEF Tried
  <2>. QED
    BY <2>1, <2>2, <2>3
<1>. QED
  BY <1>2, <1>3

\* Who is at the last place of a full cache was seen by no one since that many others
\* used it.
LEMMA LastWasOvertaken ==
  ASSUME NEW t, NEW seen, Recent(t, seen), Len(t) = Capacity, LimitsAssumption,
         NEW b \in Addrs, IsFiniteSet(seen[b]), b \notin ToSet(t),
         \A x \in ToSet(t) : x \in seen[b]
  PROVE  Cardinality(seen[b]) >= Capacity
<1>1. Capacity \in Nat /\ DOMAIN t = 1..Capacity /\ t \in Seq(Addrs)
  BY DEF Recent, LimitsAssumption
<1>2. \A i \in 1..Capacity : t[i] \in seen[b]
  BY <1>1 DEF ToSet
<1>3. t \in [1..Capacity -> seen[b]]
  BY <1>1, <1>2
<1>4. \A i, j \in 1..Capacity : t[i] = t[j] => i = j
  <2>. SUFFICES ASSUME NEW i \in 1..Capacity, NEW j \in 1..Capacity, t[i] = t[j], i # j
                PROVE  FALSE
    OBVIOUS
  <2>1. i < j \/ j < i
    BY <1>1
  <2>. QED
    BY <2>1 DEF Recent
<1>5. t \in Injection(1..Capacity, seen[b])
  BY <1>3, <1>4 DEF Injection, IsInjective
<1>6. Cardinality(1..Capacity) <= Cardinality(seen[b])
  BY <1>5, FS_Injection
<1>7. Cardinality(1..Capacity) = Capacity
  BY <1>1, FS_Interval, LimitsAssumption
<1>8. Cardinality(seen[b]) \in Nat
  BY FS_CardinalityType
<1>. QED
  BY <1>1, <1>6, <1>7, <1>8
LEMMA FrontIsWithoutLast ==
  ASSUME NEW S, NEW s \in Seq(S), Len(s) > 0
  PROVE  Front(s) = RemoveAt(s, Len(s))
<1>1. SubSeq(s, Len(s) + 1, Len(s)) = <<>>
  OBVIOUS
<1>2. \A t \in Seq(S) : t \o <<>> = t
  OBVIOUS
<1>3. SubSeq(s, 1, Len(s) - 1) \in Seq(S)
  OBVIOUS
<1>. QED
  BY <1>1, <1>2, <1>3 DEF Front, RemoveAt

\* Who is blocked stays so, or was overtaken by as many as the cache holds.
Stay == \A b \in Addrs : Blocked(b) => Blocked(b)' \/ Cardinality(since'[b]) >= Capacity

\* The counts after a wrong PIN.
LEMMA FailCounts ==
  ASSUME CacheInv, NEW a \in Addrs, ~Blocked(a), NEW lost \in SUBSET Addrs,
         failures' = [b \in Addrs |-> IF b = a THEN failures[a] + 1
                                      ELSE IF b \in lost THEN 0 ELSE failures[b]],
         ToSet(order') = (ToSet(order) \ lost) \cup {a}
  PROVE  /\ failures' \in [Addrs -> 0..MaxFailures]
         /\ \A b \in Addrs : failures'[b] > 0 <=> Cached(b)'
         /\ \A b \in Addrs \ lost : Blocked(b) => Blocked(b)'
<1>. USE DEF MaxFailures
<1>1. /\ failures \in [Addrs -> 0..3]
      /\ \A b \in Addrs : failures[b] > 0 <=> b \in ToSet(order)
  BY DEF CacheInv, Cached
<1>2. failures[a] < 3
  BY <1>1 DEF Blocked
<1>3. /\ failures'[a] = failures[a] + 1
      /\ \A b \in Addrs : b # a => failures'[b] = IF b \in lost THEN 0 ELSE failures[b]
  OBVIOUS
<1>4. failures' \in [Addrs -> 0..3]
  BY <1>1, <1>2
<1>5. \A b \in Addrs : failures'[b] > 0 <=> b \in ToSet(order')
  BY <1>1, <1>2, <1>3
<1>6. \A b \in Addrs \ lost : failures[b] >= 3 => failures'[b] >= 3
  BY <1>1, <1>2, <1>3
<1>. QED
  BY <1>4, <1>5, <1>6 DEF Cached, Blocked

\* A wrong PIN: with room in the cache nobody is lost; without it the last one is,
\* whom all who stay have overtaken.
LEMMA FailCache ==
  ASSUME CacheInv, NEW a \in Addrs, ~Blocked(a), Fail(a), UNCHANGED <<slots, pinned, changes>>
  PROVE  CacheInv' /\ Stay
<1>0. /\ Recent(order, since) /\ order \in Seq(Addrs) /\ Len(order) \in Nat
      /\ Len(order) <= Capacity /\ DOMAIN order = 1..Len(order)
      /\ since \in [Addrs -> SUBSET Addrs] /\ Capacity \in Nat \ {0}
  BY LimitsAssumption DEF CacheInv, Recent
<1>1. Tried(a, TRUE)
  BY DEF Fail
<1>2. /\ since' \in [Addrs -> SUBSET Addrs]
      /\ \A b \in Addrs : IsFiniteSet(since'[b]) /\ b \notin since'[b]
  BY <1>1, TriedTypes
<1>3. /\ stream' \in [Streams -> Addrs \cup {Free}]
      /\ pinned' \in BOOLEAN /\ changes' \in 0..MaxChanges
  BY DEF CacheInv, slots
<1>4. ASSUME Cached(a) \/ Len(order) # Capacity
      PROVE  CacheInv' /\ Stay
  <2>1. /\ order' = <<a>> \o Without(a)
        /\ failures' = [b \in Addrs |-> IF b = a THEN failures[a] + 1
                                        ELSE IF b \in {} THEN 0 ELSE failures[b]]
    BY <1>4 DEF Fail, Put
  <2>2. /\ Recent(Without(a), since) /\ ToSet(Without(a)) = ToSet(order) \ {a}
        /\ Cached(a) => Len(Without(a)) = Len(order) - 1
        /\ ~Cached(a) => Without(a) = order
    BY WithoutAddress DEF Without
  <2>3. Len(Without(a)) < Capacity
    <3>1. CASE Cached(a)
      BY <1>0, <2>2, <3>1
    <3>2. CASE ~Cached(a)
      <4>1. Without(a) = order /\ Len(order) # Capacity
        BY <1>4, <2>2, <3>2
      <4>2. Capacity \in Nat /\ Len(order) \in Nat /\ Len(order) <= Capacity
        BY <1>0
      <4>3. Len(order) < Capacity
        BY <4>1, <4>2
      <4>. QED
        BY <4>1, <4>3
    <3>. QED
      BY <3>1, <3>2
  <2>4. Recent(order', since') /\ ToSet(order') = (ToSet(order) \ {a}) \cup {a}
    BY <1>0, <1>1, <2>1, <2>2, <2>3, RecentWithFirst
  <2>5. ToSet(order') = (ToSet(order) \ {}) \cup {a}
    BY <2>4
  <2>6. /\ failures' \in [Addrs -> 0..MaxFailures]
        /\ \A b \in Addrs : failures'[b] > 0 <=> Cached(b)'
        /\ \A b \in Addrs \ {} : Blocked(b) => Blocked(b)'
    BY <2>1, <2>5, FailCounts
  <2>. QED
    BY <1>2, <1>3, <2>4, <2>6 DEF CacheInv, Stay
<1>5. ASSUME ~Cached(a), Len(order) = Capacity
      PROVE  CacheInv' /\ Stay
  <2>. DEFINE last == order[Capacity]
              rest == Front(order)
  <2>0. last \in Addrs /\ last \in ToSet(order) /\ last # a /\ a \notin ToSet(order)
    BY <1>0, <1>5 DEF Cached, ToSet
  <2>1. /\ order' = <<a>> \o rest
        /\ failures' = [b \in Addrs |-> IF b = a THEN failures[a] + 1
                                        ELSE IF b \in {last} THEN 0 ELSE failures[b]]
    BY <1>5 DEF Fail, Put
  <2>2. rest = RemoveAt(order, Len(order)) /\ Len(order) \in 1..Len(order)
    BY <1>0, <1>5, FrontIsWithoutLast
  <2>3. /\ Recent(rest, since) /\ Len(rest) = Capacity - 1
        /\ ToSet(rest) = ToSet(order) \ {last}
    BY <1>0, <1>5, <2>2, RecentWithoutPlace
  <2>. HIDE DEF last, rest
  <2>4. Len(rest) < Capacity /\ a \notin ToSet(rest)
    BY <1>0, <2>0, <2>3
  <2>5. Recent(order', since') /\ ToSet(order') = ToSet(rest) \cup {a}
    BY <1>0, <1>1, <2>1, <2>3, <2>4, RecentWithFirst
  <2>6. ToSet(order') = (ToSet(order) \ {last}) \cup {a}
    BY <2>3, <2>5
  <2>7. /\ failures' \in [Addrs -> 0..MaxFailures]
        /\ \A b \in Addrs : failures'[b] > 0 <=> Cached(b)'
        /\ \A b \in Addrs \ {last} : Blocked(b) => Blocked(b)'
    BY <2>0, <2>1, <2>6, FailCounts
  <2>8. Len(order') = Capacity
    <3>1. rest \in Seq(Addrs)
      BY <2>3 DEF Recent
    <3>. QED
      BY <1>0, <2>1, <2>3, <3>1
  <2>9. \A x \in ToSet(order') : x \in since'[last]
    <3>1. since'[last] = since[last] \cup {a}
      BY <1>1, <2>0 DEF Tried
    <3>2. ASSUME NEW x \in ToSet(order), x # last
          PROVE  x \in since[last]
      <4>1. PICK i \in 1..Capacity : x = order[i]
        BY <1>0, <1>5 DEF ToSet
      <4>2. i < Capacity /\ Capacity \in 1..Len(order) /\ i \in 1..Len(order)
        BY <1>0, <1>5, <3>2, <4>1 DEF last
      <4>. QED
        BY <1>0, <4>1, <4>2 DEF Recent, last
    <3>. QED
      BY <2>6, <3>1, <3>2
  <2>10. last \notin ToSet(order')
    BY <2>0, <2>6
  <2>11. IsFiniteSet(since'[last])
    BY <1>2, <2>0
  <2>12. Cardinality(since'[last]) >= Capacity
    BY <2>0, <2>5, <2>8, <2>9, <2>10, <2>11, LastWasOvertaken, LimitsAssumption
  <2>. QED
    BY <1>2, <1>3, <2>5, <2>7, <2>12 DEF CacheInv, Stay
<1>. QED
  BY <1>4, <1>5
\* A right PIN takes its address out of the cache.
LEMMA PassCache ==
  ASSUME CacheInv, NEW a \in Addrs, ~Blocked(a), Pass(a), UNCHANGED <<slots, pinned, changes>>
  PROVE  CacheInv' /\ Stay
<1>. USE DEF MaxFailures
<1>1. /\ since' \in [Addrs -> SUBSET Addrs]
      /\ \A b \in Addrs : IsFiniteSet(since'[b]) /\ b \notin since'[b]
      /\ \A b \in Addrs : b # a => since'[b] = since[b]
  <2>1. Tried(a, FALSE)
    BY DEF Pass
  <2>. QED
    BY <2>1, TriedTypes DEF Tried
<1>2. /\ Recent(Without(a), since) /\ ToSet(Without(a)) = ToSet(order) \ {a}
      /\ order' = Without(a)
  BY WithoutAddress DEF Pass
<1>3. Recent(order', since')
  <2>1. /\ order' \in Seq(Addrs) /\ DOMAIN order' = 1..Len(order') /\ Len(order') <= Capacity
        /\ \A i \in 1..Len(order') : order'[i] # a /\ order'[i] \in Addrs
    <3>1. /\ order' \in Seq(Addrs) /\ Len(order') <= Capacity
          /\ ToSet(order') = ToSet(order) \ {a}
      BY <1>2 DEF Recent
    <3>2. DOMAIN order' = 1..Len(order')
      BY <3>1
    <3>3. \A i \in 1..Len(order') : order'[i] \in ToSet(order')
      BY <3>2 DEF ToSet
    <3>4. \A i \in 1..Len(order') : order'[i] \in Addrs
      BY <3>1, ElementOfSeq
    <3>. QED
      BY <3>1, <3>2, <3>3, <3>4
  <2>2. \A i, j \in 1..Len(order') : i < j => order'[i] # order'[j] /\ order'[i] \in since[order'[j]]
    BY <1>2 DEF Recent
  <2>. QED
    BY <1>1, <2>1, <2>2 DEF Recent
<1>4. /\ failures' \in [Addrs -> 0..3]
      /\ \A b \in Addrs : failures'[b] > 0 <=> Cached(b)'
      /\ Stay
  <2>1. /\ failures \in [Addrs -> 0..3] /\ \A b \in Addrs : failures[b] > 0 <=> b \in ToSet(order)
        /\ failures' = [failures EXCEPT ![a] = 0]
    BY DEF CacheInv, Cached, Pass
  <2>. QED
    BY <1>2, <2>1 DEF Cached, Stay, Blocked
<1>. QED
  BY <1>1, <1>3, <1>4 DEF CacheInv, slots

\* A refusal of one who is blocked, or gave no PIN, counts as a use of the cache.
LEMMA RefusalCache ==
  ASSUME CacheInv, NEW a \in Addrs, order' = Get(a), Tried(a, Cached(a)),
         UNCHANGED <<failures, wrong, slots, pinned, changes>>
  PROVE  CacheInv' /\ Stay
<1>0. /\ Recent(order, since) /\ order \in Seq(Addrs) /\ Len(order) \in Nat
      /\ Len(order) <= Capacity /\ DOMAIN order = 1..Len(order)
      /\ since \in [Addrs -> SUBSET Addrs] /\ Capacity \in Nat
  BY LimitsAssumption DEF CacheInv, Recent
<1>1. Cached(a) \in BOOLEAN
  BY DEF Cached
<1>2. /\ since' \in [Addrs -> SUBSET Addrs]
      /\ \A b \in Addrs : IsFiniteSet(since'[b]) /\ b \notin since'[b]
  BY <1>1, TriedTypes
<1>3. Stay
  BY DEF Stay, Blocked
<1>4. CASE Cached(a)
  <2>1. order' = <<a>> \o Without(a) /\ Tried(a, TRUE)
    BY <1>4 DEF Get, Promoted
  <2>2. /\ Recent(Without(a), since) /\ ToSet(Without(a)) = ToSet(order) \ {a}
        /\ Len(Without(a)) = Len(order) - 1
    BY <1>4, WithoutAddress
  <2>3. Len(Without(a)) < Capacity /\ a \notin ToSet(Without(a))
    BY <1>0, <2>2
  <2>4. Recent(<<a>> \o Without(a), since')
        /\ ToSet(<<a>> \o Without(a)) = ToSet(Without(a)) \cup {a}
    BY <1>0, <2>1, <2>2, <2>3, RecentWithFirst
  <2>5. Recent(order', since') /\ ToSet(order') = ToSet(order)
    BY <1>4, <2>1, <2>2, <2>4 DEF Cached
  <2>. QED
    BY <1>2, <1>3, <2>5 DEF CacheInv, Cached, slots
<1>5. CASE ~Cached(a)
  <2>1. order' = order /\ \A b \in Addrs : b # a => since'[b] = since[b]
    BY <1>5 DEF Get, Tried
  <2>2. \A i \in 1..Len(order) : order[i] # a /\ order[i] \in Addrs
    BY <1>0, <1>5 DEF Cached, ToSet
  <2>3. Recent(order', since')
    BY <1>0, <2>1, <2>2 DEF Recent
  <2>. QED
    BY <1>2, <1>3, <2>1, <2>3 DEF CacheInv, Cached, slots
<1>. QED
  BY <1>4, <1>5

LEMMA CheckCache ==
  ASSUME CacheInv, NEW a \in Addrs, NEW given, Check(a, given)
  PROVE  CacheInv' /\ Stay
<1>1. UNCHANGED <<slots, pinned, changes>>
  BY DEF Check
<1>2. CASE order' = Get(a) /\ Tried(a, Cached(a)) /\ UNCHANGED <<failures, wrong>>
  BY <1>1, <1>2, RefusalCache
<1>3. CASE ~Blocked(a) /\ Pass(a)
  BY <1>1, <1>3, PassCache
<1>4. CASE ~Blocked(a) /\ Fail(a)
  BY <1>1, <1>4, FailCache
<1>. QED
  BY <1>2, <1>3, <1>4 DEF Check

Forgotten ==
  /\ stream \in [Streams -> Addrs \cup {Free}] /\ pinned \in BOOLEAN /\ changes \in 0..MaxChanges
  /\ order = <<>> /\ failures = [a \in Addrs |-> 0] /\ since = [a \in Addrs |-> {}]

LEMMA EmptyCache == Forgotten => CacheInv
<1>. SUFFICES ASSUME Forgotten
              PROVE  CacheInv
  OBVIOUS
<1>. USE DEF Forgotten
<1>1. order \in Seq(Addrs) /\ Len(order) = 0 /\ DOMAIN order = {} /\ Capacity \in Nat
  BY LimitsAssumption
<1>2. since \in [Addrs -> SUBSET Addrs] /\ \A b \in Addrs : since[b] = {}
  OBVIOUS
<1>3. IsFiniteSet({})
  BY FS_EmptySet
<1>4. Recent(order, since)
  BY <1>1 DEF Recent
<1>5. \A b \in Addrs : ~Cached(b) /\ failures[b] = 0
  BY <1>1 DEF Cached, ToSet
<1>6. failures \in [Addrs -> 0..MaxFailures]
  BY DEF MaxFailures
<1>7. \A b \in Addrs : IsFiniteSet(since[b]) /\ b \notin since[b]
  BY <1>2, <1>3
<1>8. \A b \in Addrs : failures[b] > 0 <=> Cached(b)
  BY <1>5
<1>. QED
  BY <1>2, <1>4, <1>6, <1>7, <1>8 DEF CacheInv

LEMMA CacheAlways == Spec => [](SlotsInv /\ CacheInv)
<1>1. Init => CacheInv
  <2>. SUFFICES ASSUME Init
                PROVE  CacheInv
    OBVIOUS
  <2>1. stream \in [Streams -> Addrs \cup {Free}] /\ 0 \in 0..MaxChanges
    BY LimitsAssumption DEF Init
  <2>. QED
    BY <2>1, EmptyCache DEF Init, Forgotten
<1>2. SlotsInv' /\ CacheInv /\ [Next]_vars => CacheInv'
  <2>. SUFFICES ASSUME SlotsInv', CacheInv, [Next]_vars
                PROVE  CacheInv'
    OBVIOUS
  <2>0. stream' \in [Streams -> Addrs \cup {Free}]
    BY DEF SlotsInv
  <2>1. CASE SetPin
    <3>1. changes' \in 0..MaxChanges
      BY <2>1, LimitsAssumption DEF SetPin, CacheInv
    <3>2. pinned' \in BOOLEAN /\ order' = <<>> /\ failures' = [a \in Addrs |-> 0]
          /\ since' = [a \in Addrs |-> {}]
      BY <2>1 DEF SetPin
    <3>3. Forgotten'
      BY <2>0, <3>1, <3>2 DEF Forgotten
    <3>. QED
      BY <3>3, EmptyCache, PTL
  <2>2. CASE UNCHANGED gate
    BY <2>0, <2>2 DEF gate, CacheInv, Cached
  <2>3. ASSUME NEW c \in Streams, stream[c] # Free, NEW given, Check(stream[c], given)
        PROVE  CacheInv'
    <3>1. stream[c] \in Addrs
      BY <2>3 DEF CacheInv
    <3>. QED
      BY <2>3, <3>1, CheckCache
  <2>. QED
    BY <2>1, <2>2, <2>3 DEF Next, Admit, DropSlot, vars, gate
<1>. QED
  BY <1>1, <1>2, SlotsAlways, PTL DEF Spec

\* A blocked address stays blocked until the PIN is changed, unless as many others as
\* the cache holds have used it since it last tried; and the cache stays well formed
\* (pin.rs:47).
THEOREM Stays == Spec => BlockedStays
<1>1. SlotsInv /\ CacheInv => TypeOK
  <2>1. CacheInv => IsInjective(order) /\ ToSet(order) \subseteq Addrs
    BY RecentIsInjective DEF CacheInv
  <2>. QED
    BY <2>1 DEF SlotsInv, CacheInv, TypeOK, Recent
<1>2. CacheInv /\ [Next]_vars => changes' # changes \/ Stay
  <2>. SUFFICES ASSUME CacheInv, [Next]_vars
                PROVE  changes' # changes \/ Stay
    OBVIOUS
  <2>1. CASE SetPin
    BY <2>1 DEF SetPin, CacheInv
  <2>2. CASE UNCHANGED gate
    BY <2>2 DEF gate, Stay, Blocked
  <2>3. ASSUME NEW c \in Streams, stream[c] # Free, NEW given, Check(stream[c], given)
        PROVE  Stay
    <3>1. stream[c] \in Addrs
      BY <2>3 DEF CacheInv
    <3>. QED
      BY <2>3, <3>1, CheckCache
  <2>. QED
    BY <2>1, <2>2, <2>3 DEF Next, Admit, DropSlot, vars, gate
<1>3. TypeOK' /\ (changes' # changes \/ Stay)
        => [/\ TypeOK'
            /\ \/ changes' # changes
               \/ \A a \in Addrs : Blocked(a) => Blocked(a)' \/ Cardinality(since'[a]) >= Capacity]_vars
  BY DEF Stay
<1>. QED
  BY <1>1, <1>2, <1>3, CacheAlways, PTL DEF Spec, BlockedStays
-----------------------------------------------------------------------------
(* The identity, with one helper h at a time *)

\* A save slipped, and power was lost.
Exempt == slipped /\ losses > 0

\* The document, in force and stable, and the save of it.
IdFile(h) ==
  /\ value \in Id!Document \cup {"absent", "unsafe"}
  /\ stable \in Id!Document \cup {"absent", "unsafe"}
  /\ saving \in [Helper -> [val: Cert \cup {"none"}, done: BOOLEAN]]
  /\ made \subseteq Cert /\ losses \in Nat /\ slipped \in BOOLEAN
  /\ Id!HeldBy(value) \subseteq made /\ Id!HeldBy(stable) \subseteq made

\* What the helper does with it at each stage.
IdStages(h) ==
  /\ stage[h] # "saving" => saving[h] = Id!File!NoSave
  /\ stage[h] = "saving" => saving[h].val = cert[h]
  /\ stage[h] = "create" => value = "absent"
  /\ stage[h] = "repair" => value = Stale[cert[h]]
  /\ stage[h] = "saving" /\ saving[h].done => value = cert[h]
  /\ stage[h] = "saving" /\ ~saving[h].done => value \in {"absent", Stale[cert[h]]}
  /\ stage[h] \in {"bind", "serving"} => value = cert[h]

\* What was served with is what the document holds, in force and after a power loss.
IdServed(h) ==
  /\ Exempt \/ served \subseteq Id!HeldBy(value)
  /\ slipped \/ stable = value \/ (saving[h].done /\ served \subseteq Id!HeldBy(stable))

IdInv(h) == Id!TypeOK /\ IdFile(h) /\ IdStages(h) /\ IdServed(h)

\* What the documents hold.
LEMMA HeldFacts ==
  ASSUME Id!DocumentsOK
  PROVE  /\ \A c \in Cert : Id!HeldBy(c) = {c} /\ Id!HeldBy(Stale[c]) = {c}
         /\ \A c \in Cert : {c, Stale[c]} \subseteq Id!Document
         /\ Id!HeldBy("absent") = {} /\ Id!HeldBy("unsafe") = {}
         /\ \A v, c, d : c \in Id!HeldBy(v) /\ d \in Id!HeldBy(v) => c = d
         /\ "none" \notin Cert /\ NoHelper \notin Helper
<1>. USE DEF Id!DocumentsOK, Id!HeldBy, Id!Document, Id!Stored
<1>1. \A c \in Cert : Stale[c] \in Id!Stored /\ Stale[c] \notin Cert
  OBVIOUS
<1>2. \A c \in Cert : Id!HeldBy(c) = {c} /\ Id!HeldBy(Stale[c]) = {c}
  BY <1>1
<1>3. \A c \in Cert : {c, Stale[c]} \subseteq Id!Document
  BY <1>1
<1>4. Id!HeldBy("absent") = {} /\ Id!HeldBy("unsafe") = {} /\ "none" \notin Cert
  BY <1>3
<1>5. \A v, c, d : c \in Id!HeldBy(v) /\ d \in Id!HeldBy(v) => c = d
  BY <1>1
<1>6. NoHelper \notin Helper
  OBVIOUS
<1>. QED
  BY <1>2, <1>3, <1>4, <1>5, <1>6

LEMMA IdLaunch ==
  ASSUME NEW h, Helper = {h}, Id!DocumentsOK, IdInv(h), Id!Launch(h)
  PROVE  IdInv(h)' /\ Id!KeyIsKept
<1>1. /\ stage[h] = "off" /\ saving[h] = Id!File!NoSave
      /\ stage' = [stage EXCEPT ![h] = "reading"] /\ saving' = [saving EXCEPT ![h] = Id!File!NoSave]
      /\ UNCHANGED <<value, stable, cert, port, made, served, slipped, losses>>
  <2>1. PICK v : saving' = [saving EXCEPT ![h] = [val |-> v, done |-> FALSE]] /\ saving'[h].val = "none"
    BY DEF Id!Launch, Id!File!Start
  <2>2. v = "none"
    BY <2>1 DEF IdInv, IdFile
  <2>. QED
    BY <2>1, <2>2 DEF Id!Launch, Id!File!Start, Id!Goto, Id!File!NoSave
<1>2. Id!TypeOK'
  BY <1>1, HeldFacts DEF IdInv, IdFile, IdStages, Id!TypeOK, Id!Stages
<1>3. IdFile(h)'
  BY <1>1, HeldFacts DEF IdInv, IdFile, Id!TypeOK, Id!File!NoSave
<1>4. IdStages(h)'
  BY <1>1, HeldFacts DEF IdInv, IdFile, IdStages, Id!TypeOK, Id!Stages, Id!File!NoSave
<1>5. IdServed(h)'
  BY <1>1, HeldFacts DEF IdInv, IdFile, IdStages, IdServed, Exempt, Id!TypeOK, Id!Stages, Id!File!NoSave
<1>6. Id!KeyIsKept
  BY <1>1, HeldFacts DEF Id!KeyIsKept, IdInv, IdFile
<1>. QED
  BY <1>2, <1>3, <1>4, <1>5, <1>6 DEF IdInv

LEMMA IdRead ==
  ASSUME NEW h, Helper = {h}, Id!DocumentsOK, IdInv(h), Id!Read(h)
  PROVE  IdInv(h)' /\ Id!KeyIsKept
<1>1. /\ stage[h] = "reading" /\ saving[h] = Id!File!NoSave
      /\ UNCHANGED <<value, stable, port, served, slipped, losses>>
      /\ saving' = [saving EXCEPT ![h] = Id!File!NoSave]
      /\ \/ \E c \in Cert \ made :
             /\ value = "absent" /\ cert' = [cert EXCEPT ![h] = c] /\ made' = made \cup {c}
             /\ stage' = [stage EXCEPT ![h] = "create"]
         \/ \E c \in Id!HeldBy(value) :
             /\ cert' = [cert EXCEPT ![h] = c] /\ made' = made
             /\ stage' = [stage EXCEPT ![h] = IF value = c THEN "bind" ELSE "repair"]
         \/ stage' = [stage EXCEPT ![h] = "off"] /\ UNCHANGED <<cert, made>>
  <2>0. /\ saving[h] = Id!File!NoSave /\ [saving EXCEPT ![h] = saving[h]] = saving
    BY DEF Id!Read, IdInv, IdStages, IdFile
  <2>1. UNCHANGED <<value, stable, port, served, slipped, losses>> /\ stage[h] = "reading"
    BY DEF Id!Read, Id!File!Load, Id!FileError, Id!File!Fail, Id!bounds
  <2>2. saving' = [saving EXCEPT ![h] = Id!File!NoSave]
    BY <2>0 DEF Id!Read, Id!File!Load, Id!FileError, Id!File!Fail
  <2>. QED
    BY <2>0, <2>1, <2>2 DEF Id!Read, Id!Generate, Id!Adopt, Id!Goto
<1>2. Id!TypeOK'
  BY <1>1, HeldFacts DEF IdInv, IdFile, IdStages, Id!TypeOK, Id!Stages
<1>3. IdFile(h)'
  BY <1>1, HeldFacts DEF IdInv, IdFile, Id!TypeOK, Id!File!NoSave
<1>4. IdStages(h)'
  <2>1. CASE \E c \in Cert \ made :
               /\ value = "absent" /\ cert' = [cert EXCEPT ![h] = c] /\ made' = made \cup {c}
               /\ stage' = [stage EXCEPT ![h] = "create"]
    BY <1>1, <2>1 DEF IdInv, IdFile, IdStages, Id!TypeOK
  <2>2. ASSUME NEW c \in Id!HeldBy(value), cert' = [cert EXCEPT ![h] = c],
               stage' = [stage EXCEPT ![h] = IF value = c THEN "bind" ELSE "repair"]
        PROVE  IdStages(h)'
    <3>1. stage'[h] \in {"bind", "repair"} /\ cert'[h] = c /\ saving'[h] = Id!File!NoSave
      BY <1>1, <2>2 DEF IdInv, IdFile, Id!TypeOK
    <3>2. (value = c => stage'[h] = "bind") /\ (value # c => stage'[h] = "repair")
      BY <1>1, <2>2 DEF IdInv, Id!TypeOK
    <3>3. value = c \/ value = Stale[c]
      BY DEF Id!HeldBy
    <3>. QED
      BY <1>1, <3>1, <3>2, <3>3 DEF IdStages
  <2>3. CASE stage' = [stage EXCEPT ![h] = "off"]
    BY <1>1, <2>3 DEF IdInv, IdFile, IdStages, Id!TypeOK
  <2>. QED
    BY <1>1, <2>1, <2>2, <2>3
<1>5. IdServed(h)'
  BY <1>1, HeldFacts DEF IdInv, IdFile, IdStages, IdServed, Exempt, Id!TypeOK, Id!Stages, Id!File!NoSave
<1>6. Id!KeyIsKept
  BY <1>1, HeldFacts DEF Id!KeyIsKept, IdInv, IdFile
<1>. QED
  BY <1>2, <1>3, <1>4, <1>5, <1>6 DEF IdInv

LEMMA IdSave ==
  ASSUME NEW h, Helper = {h}, Id!DocumentsOK, IdInv(h), Id!Save(h)
  PROVE  IdInv(h)' /\ Id!KeyIsKept
<1>1. /\ stage[h] \in {"create", "repair"} /\ cert[h] \in made
      /\ stage' = [stage EXCEPT ![h] = "saving"]
      /\ saving' = [saving EXCEPT ![h] = [val |-> cert[h], done |-> FALSE]]
      /\ UNCHANGED <<value, stable, cert, port, made, served, slipped, losses>>
  <2>1. PICK v : saving' = [saving EXCEPT ![h] = [val |-> v, done |-> FALSE]] /\ saving'[h].val = cert[h]
    BY DEF Id!Save, Id!File!Start
  <2>2. v = cert[h]
    BY <2>1 DEF IdInv, IdFile
  <2>. QED
    BY <2>1, <2>2 DEF Id!Save, Id!File!Start, Id!Goto, IdInv, Id!TypeOK, Id!bounds
<1>2. Id!TypeOK'
  BY <1>1, HeldFacts DEF IdInv, IdFile, IdStages, Id!TypeOK, Id!Stages
<1>3. IdFile(h)'
  BY <1>1, HeldFacts DEF IdInv, IdFile, Id!TypeOK, Id!File!NoSave
<1>4. IdStages(h)'
  BY <1>1, HeldFacts DEF IdInv, IdFile, IdStages, Id!TypeOK, Id!Stages, Id!File!NoSave
<1>5. IdServed(h)'
  BY <1>1, HeldFacts DEF IdInv, IdFile, IdStages, IdServed, Exempt, Id!TypeOK, Id!Stages, Id!File!NoSave
<1>6. Id!KeyIsKept
  BY <1>1, HeldFacts DEF Id!KeyIsKept, IdInv, IdFile
<1>. QED
  BY <1>2, <1>3, <1>4, <1>5, <1>6 DEF IdInv

LEMMA IdRename ==
  ASSUME NEW h, Helper = {h}, Id!DocumentsOK, IdInv(h), Id!Rename(h)
  PROVE  IdInv(h)' /\ Id!KeyIsKept
<1>1. /\ stage[h] = "saving" /\ ~saving[h].done /\ saving[h].val = cert[h] /\ cert[h] \in made
      /\ value \in {"absent", Stale[cert[h]]} /\ value' = cert[h]
      /\ saving' = [saving EXCEPT ![h] = [val |-> saving[h].val, done |-> TRUE]]
      /\ UNCHANGED <<stable, stage, cert, port, made, served, slipped, starts, deaths, losses>>
  BY DEF Id!Rename, Id!File!PutInForce, IdInv, IdStages, Id!TypeOK, Id!bounds
<1>2. Id!TypeOK'
  BY <1>1, HeldFacts DEF IdInv, IdFile, IdStages, Id!TypeOK, Id!Stages
<1>3. IdFile(h)'
  BY <1>1, HeldFacts DEF IdInv, IdFile, Id!TypeOK, Id!File!NoSave
<1>4. IdStages(h)'
  BY <1>1, HeldFacts DEF IdInv, IdFile, IdStages, Id!TypeOK, Id!Stages, Id!File!NoSave
<1>5. IdServed(h)'
  BY <1>1, HeldFacts DEF IdInv, IdFile, IdStages, IdServed, Exempt, Id!TypeOK, Id!Stages, Id!File!NoSave
<1>6. Id!KeyIsKept
  BY <1>1, HeldFacts DEF Id!KeyIsKept, IdInv, IdFile
<1>. QED
  BY <1>2, <1>3, <1>4, <1>5, <1>6 DEF IdInv

LEMMA IdSaved ==
  ASSUME NEW h, Helper = {h}, Id!DocumentsOK, IdInv(h), Id!Saved(h)
  PROVE  IdInv(h)' /\ Id!KeyIsKept
<1>1. /\ stage[h] = "saving" /\ cert[h] \in made
      /\ saving' = [saving EXCEPT ![h] = Id!File!NoSave]
      /\ UNCHANGED <<value, cert, port, made, served, losses>>
      /\ \/ /\ saving[h].done /\ stable' = value /\ UNCHANGED slipped
            /\ stage' = [stage EXCEPT ![h] = "bind"]
         \/ /\ stable' = stable /\ slipped' = (slipped \/ saving[h].done)
            /\ stage' = [stage EXCEPT ![h] = "off"]
  BY DEF Id!Saved, Id!File!Acknowledge, Id!FileError, Id!File!Fail, Id!Goto, Id!bounds, IdInv, Id!TypeOK
<1>2. Id!TypeOK'
  BY <1>1, HeldFacts DEF IdInv, IdFile, IdStages, Id!TypeOK, Id!Stages
<1>3. IdFile(h)'
  BY <1>1, HeldFacts DEF IdInv, IdFile, Id!TypeOK, Id!File!NoSave
<1>4. IdStages(h)'
  BY <1>1, HeldFacts DEF IdInv, IdFile, IdStages, Id!TypeOK, Id!Stages, Id!File!NoSave
<1>5. IdServed(h)'
  BY <1>1, HeldFacts DEF IdInv, IdFile, IdStages, IdServed, Exempt, Id!TypeOK, Id!Stages, Id!File!NoSave
<1>6. Id!KeyIsKept
  BY <1>1, HeldFacts DEF Id!KeyIsKept, IdInv, IdFile
<1>. QED
  BY <1>2, <1>3, <1>4, <1>5, <1>6 DEF IdInv

LEMMA IdBind ==
  ASSUME NEW h, Helper = {h}, Id!DocumentsOK, IdInv(h), Id!Bind(h)
  PROVE  IdInv(h)' /\ Id!KeyIsKept
<1>1. /\ stage[h] = "bind" /\ cert[h] \in made
      /\ UNCHANGED <<value, stable, saving, cert, made, slipped, losses>>
      /\ \/ /\ port = NoHelper /\ port' = h /\ served' = served \cup {cert[h]}
            /\ stage' = [stage EXCEPT ![h] = "serving"]
         \/ /\ port # NoHelper /\ UNCHANGED <<port, served>>
            /\ stage' = [stage EXCEPT ![h] = "off"]
  BY DEF Id!Bind, Id!Goto, Id!bounds, Id!register, IdInv, Id!TypeOK
<1>2. Id!TypeOK'
  BY <1>1, HeldFacts DEF IdInv, IdFile, IdStages, Id!TypeOK, Id!Stages
<1>3. IdFile(h)'
  BY <1>1, HeldFacts DEF IdInv, IdFile, Id!TypeOK, Id!File!NoSave
<1>4. IdStages(h)'
  BY <1>1, HeldFacts DEF IdInv, IdFile, IdStages, Id!TypeOK, Id!Stages, Id!File!NoSave
<1>5. IdServed(h)'
  BY <1>1, HeldFacts DEF IdInv, IdFile, IdStages, IdServed, Exempt, Id!TypeOK, Id!Stages, Id!File!NoSave
<1>6. Id!KeyIsKept
  BY <1>1, HeldFacts DEF Id!KeyIsKept, IdInv, IdFile
<1>. QED
  BY <1>2, <1>3, <1>4, <1>5, <1>6 DEF IdInv

LEMMA IdExit ==
  ASSUME NEW h, Helper = {h}, Id!DocumentsOK, IdInv(h), Id!Exit(h)
  PROVE  IdInv(h)' /\ Id!KeyIsKept
<1>1. /\ stage[h] # "off" /\ port' = (IF port = h THEN NoHelper ELSE port)
      /\ saving' = [saving EXCEPT ![h] = Id!File!NoSave] /\ stage' = [stage EXCEPT ![h] = "off"]
      /\ slipped' = (slipped \/ saving[h].done)
      /\ UNCHANGED <<value, stable, cert, made, served, losses>>
  BY DEF Id!Exit, Id!File!Fail, Id!Goto
<1>2. Id!TypeOK'
  BY <1>1, HeldFacts DEF IdInv, IdFile, IdStages, Id!TypeOK, Id!Stages
<1>3. IdFile(h)'
  BY <1>1, HeldFacts DEF IdInv, IdFile, Id!TypeOK, Id!File!NoSave
<1>4. IdStages(h)'
  BY <1>1, HeldFacts DEF IdInv, IdFile, IdStages, Id!TypeOK, Id!Stages, Id!File!NoSave
<1>5. IdServed(h)'
  BY <1>1, HeldFacts DEF IdInv, IdFile, IdStages, IdServed, Exempt, Id!TypeOK, Id!Stages, Id!File!NoSave
<1>6. Id!KeyIsKept
  BY <1>1, HeldFacts DEF Id!KeyIsKept, IdInv, IdFile
<1>. QED
  BY <1>2, <1>3, <1>4, <1>5, <1>6 DEF IdInv

LEMMA IdPowerLoss ==
  ASSUME NEW h, Helper = {h}, Id!DocumentsOK, IdInv(h), Id!PowerLoss
  PROVE  IdInv(h)' /\ Id!KeyIsKept
<1>1. /\ value' = stable /\ saving' = [g \in Helper |-> Id!File!NoSave]
      /\ stage' = [g \in Helper |-> "off"] /\ port' = NoHelper /\ losses' = losses + 1
      /\ UNCHANGED <<stable, cert, made, served, slipped>>
  BY DEF Id!PowerLoss, Id!File!PowerLoss
<1>2. Id!TypeOK'
  BY <1>1, HeldFacts DEF IdInv, IdFile, IdStages, Id!TypeOK, Id!Stages
<1>3. IdFile(h)'
  BY <1>1, HeldFacts DEF IdInv, IdFile, Id!TypeOK, Id!File!NoSave
<1>4. IdStages(h)'
  BY <1>1, HeldFacts DEF IdInv, IdFile, IdStages, Id!TypeOK, Id!Stages, Id!File!NoSave
<1>5. IdServed(h)'
  BY <1>1, HeldFacts DEF IdInv, IdFile, IdStages, IdServed, Exempt, Id!TypeOK, Id!Stages, Id!File!NoSave
<1>6. Id!KeyIsKept
  BY <1>1, HeldFacts DEF Id!KeyIsKept, IdInv, IdFile
<1>. QED
  BY <1>2, <1>3, <1>4, <1>5, <1>6 DEF IdInv

LEMMA IdSettle ==
  ASSUME NEW h, Helper = {h}, Id!DocumentsOK, IdInv(h), Id!Settle
  PROVE  IdInv(h)' /\ Id!KeyIsKept
<1>1. /\ stable' = value
      /\ UNCHANGED <<value, saving, stage, cert, port, made, served, slipped, losses>>
  BY DEF Id!Settle, Id!File!Settle, Id!bounds
<1>2. Id!TypeOK'
  BY <1>1, HeldFacts DEF IdInv, IdFile, IdStages, Id!TypeOK, Id!Stages
<1>3. IdFile(h)'
  BY <1>1, HeldFacts DEF IdInv, IdFile, Id!TypeOK, Id!File!NoSave
<1>4. IdStages(h)'
  BY <1>1, HeldFacts DEF IdInv, IdFile, IdStages, Id!TypeOK, Id!Stages, Id!File!NoSave
<1>5. IdServed(h)'
  BY <1>1, HeldFacts DEF IdInv, IdFile, IdStages, IdServed, Exempt, Id!TypeOK, Id!Stages, Id!File!NoSave
<1>6. Id!KeyIsKept
  BY <1>1, HeldFacts DEF Id!KeyIsKept, IdInv, IdFile
<1>. QED
  BY <1>2, <1>3, <1>4, <1>5, <1>6 DEF IdInv

LEMMA IdStutter ==
  ASSUME NEW h, Helper = {h}, IdInv(h), UNCHANGED identity
  PROVE  IdInv(h)' /\ Id!KeyIsKept
BY DEF identity, IdInv, IdFile, IdStages, IdServed, Exempt, Id!TypeOK, Id!KeyIsKept

LEMMA IdInit ==
  ASSUME NEW h, Helper = {h}, Id!DocumentsOK, Id!Init
  PROVE  IdInv(h)
<1>1. /\ value \in Id!Document \cup {"absent", "unsafe"} /\ stable = value
      /\ saving = [g \in Helper |-> Id!File!NoSave]
      /\ stage = [g \in Helper |-> "off"] /\ cert = [g \in Helper |-> "none"]
      /\ port = NoHelper /\ made = Id!HeldBy(value) /\ served = {} /\ slipped = FALSE /\ losses = 0
  BY DEF Id!Init, Id!File!Init
<1>2. Id!TypeOK
  BY <1>1, HeldFacts DEF Id!TypeOK, Id!Stages
<1>3. IdFile(h)
  BY <1>1, HeldFacts DEF IdFile, Id!File!NoSave, Id!HeldBy
<1>4. IdStages(h) /\ IdServed(h)
  BY <1>1 DEF IdStages, IdServed
<1>. QED
  BY <1>2, <1>3, <1>4 DEF IdInv

LEMMA IdStep ==
  ASSUME NEW h, Helper = {h}, Id!DocumentsOK, IdInv(h), Id!Next \/ UNCHANGED identity
  PROVE  IdInv(h)' /\ Id!KeyIsKept
<1>1. ASSUME NEW g \in Helper, \/ Id!Launch(g) \/ Id!Read(g) \/ Id!Save(g) \/ Id!Rename(g)
                               \/ Id!Saved(g) \/ Id!Bind(g) \/ Id!Exit(g)
      PROVE  IdInv(h)' /\ Id!KeyIsKept
  <2>1. g = h
    OBVIOUS
  <2>. QED
    BY <1>1, <2>1, IdLaunch, IdRead, IdSave, IdRename, IdSaved, IdBind, IdExit
<1>. QED
  BY <1>1, IdPowerLoss, IdSettle, IdStutter DEF Id!Next

\* At most one certificate is served with, but for the loss of a save that slipped.
LEMMA IdServesOne ==
  ASSUME NEW h, Id!DocumentsOK
  PROVE  IdInv(h) => Id!IdentityKept
<1>1. ASSUME IdInv(h), ~Exempt
      PROVE  Cardinality(served) <= 1
  <2>1. served \subseteq Id!HeldBy(value)
    BY <1>1 DEF IdInv, IdServed
  <2>2. CASE served = {}
    BY <2>2, FS_EmptySet
  <2>3. ASSUME NEW c \in served
        PROVE  Cardinality(served) <= 1
    <3>1. served = {c}
      BY <2>1, <2>3, HeldFacts
    <3>2. Cardinality({c}) = 1
      BY FS_Singleton
    <3>. QED
      BY <3>1, <3>2
  <2>. QED
    BY <2>2, <2>3
<1>2. Exempt => Id!IdentityKept
  BY DEF Exempt, Id!IdentityKept
<1>3. Cardinality(served) <= 1 => Id!IdentityKept
  BY Zenon DEF Id!IdentityKept, Id!Cardinality, Cardinality
<1>. QED
  BY <1>1, <1>2, <1>3

\* Of a behaviour of the helper's parts, what it says of the identity.
LEMMA HelperIdentity ==
  /\ HelperInit => Id!Init
  /\ [HelperNext]_helper_vars => (Id!Next \/ UNCHANGED identity)
BY DEF HelperInit, HelperNext, helper_vars, identity

\* Every server presents the same certificate, however often the helper dies, its saves
\* fail or power is lost, unless power is lost after a save that ended between its rename
\* and its success; and no key is replaced but by that (identity.rs:94-110).  There is one
\* helper at a time.
THEOREM OneIdentity ==
  ASSUME NEW h, Helper = {h}
  PROVE  HelperSpec => IdentityStays
<1>. USE InstancesAssumption
<1>1. HelperInit => IdInv(h)
  BY HelperIdentity, IdInit
<1>2. IdInv(h) /\ [HelperNext]_helper_vars => IdInv(h)' /\ Id!KeyIsKept
  BY HelperIdentity, IdStep
<1>3. IdInv(h) => Id!TypeOK /\ Id!IdentityKept
  BY IdServesOne DEF IdInv
<1>4. Id!TypeOK' /\ Id!IdentityKept' /\ Id!KeyIsKept => [Id!IdentityStep]_identity
  BY DEF Id!IdentityStep
<1>. QED
  BY <1>1, <1>2, <1>3, <1>4, PTL DEF HelperSpec, IdentityStays

\* Of the other parts of a behaviour, the gate's is the specification of Admission, so that
\* the theorems about it hold of the helper (server/limits.rs, server/pin.rs).
THEOREM HelperGate == HelperSpec => Spec
<1>1. HelperInit => Init
  BY DEF HelperInit
<1>2. [HelperNext]_helper_vars => [Next]_vars
  BY DEF HelperNext, helper_vars
<1>. QED
  BY <1>1, <1>2, PTL DEF HelperSpec, Spec

-----------------------------------------------------------------------------
(* Sequences that grow and shrink *)

LEMMA Joined ==
  ASSUME NEW S, NEW s \in Seq(S), NEW t \in Seq(S)
  PROVE  /\ s \o t \in Seq(S) /\ Len(s \o t) = Len(s) + Len(t)
         /\ \A i \in 1..Len(s) : (s \o t)[i] = s[i]
         /\ \A i \in 1..Len(t) : (s \o t)[Len(s) + i] = t[i]
         /\ \A i \in 1..(Len(s) + Len(t)) :
               i \in 1..Len(s) \/ i - Len(s) \in 1..Len(t)
  OBVIOUS

LEMMA Behind ==
  ASSUME NEW S, NEW s \in Seq(S), s # <<>>
  PROVE  /\ Tail(s) \in Seq(S) /\ Len(Tail(s)) = Len(s) - 1 /\ Len(s) > 0
         /\ Head(s) = s[1] /\ Head(s) \in S
         /\ \A i \in 1..(Len(s) - 1) : Tail(s)[i] = s[i + 1]
  OBVIOUS

-----------------------------------------------------------------------------
(* The reader of command lines *)

Chars == Byte \cup {Newline}

Result == [got: Seq(Chars), line: Seq(Chars), cut: BOOLEAN]
Starts(s, t) == Len(s) <= Len(t) /\ \A j \in 1..Len(s) : s[j] = t[j]

\* The reader's memory of the line it is in.
LineInv ==
  /\ text \in Seq(Chars) /\ buffer \in Seq(Chars) /\ line \in Seq(Chars)
  /\ oversized \in BOOLEAN /\ closed \in BOOLEAN
  /\ results \in Seq(Result)
  /\ Len(buffer) <= max_bytes /\ Starts(buffer, line)
  /\ IF oversized THEN Len(line) > max_bytes ELSE buffer = line
\* What was returned is right.
ReturnInv == \A i \in 1..Len(results) : Reader!Right(results[i])
ReadingInv == LineInv /\ ReturnInv

\* After the end of the input: a last line that was rejected left its beginning behind, or
\* there is nothing left.
EndedInv == closed = TRUE /\ text = <<>> /\ line = <<>> /\ oversized = FALSE
RejectedInv ==
  /\ EndedInv /\ ReturnInv
  /\ results \in Seq(Result) /\ buffer \in Seq(Chars) /\ Len(buffer) <= max_bytes
  /\ Len(results) > 0
  /\ LET last == results[Len(results)] IN
        last.cut /\ last.got = Reader!TooLong /\ Starts(buffer, last.line)
DoneInv == EndedInv /\ buffer = <<>> /\ Reader!EachLineOnce
ReaderInv == ReadingInv \/ RejectedInv \/ DoneInv

\* A piece of the line: what is kept is the line so far, unless it is too long.
LEMMA KeptIsLine ==
  ASSUME LineInv, Reader!ReaderOK, NEW content \in Seq(Chars)
  PROVE  /\ Reader!Over(content) \in BOOLEAN /\ Reader!Kept(content) \in Seq(Chars)
         /\ line \o content \in Seq(Chars)
         /\ Len(Reader!Kept(content)) <= max_bytes
         /\ Starts(Reader!Kept(content), line \o content)
         /\ IF Reader!Over(content) THEN Len(line \o content) > max_bytes
            ELSE Reader!Kept(content) = line \o content /\ Len(line \o content) <= max_bytes
<1>1. /\ max_bytes \in Nat /\ Len(buffer) \in Nat /\ Len(line) \in Nat /\ Len(content) \in Nat
      /\ Len(buffer) <= max_bytes
      /\ line \in Seq(Chars) /\ buffer \in Seq(Chars) /\ oversized \in BOOLEAN
  BY DEF LineInv, Reader!ReaderOK
<1>2. /\ line \o content \in Seq(Chars) /\ Len(line \o content) = Len(line) + Len(content)
      /\ buffer \o content \in Seq(Chars) /\ Len(buffer \o content) = Len(buffer) + Len(content)
  BY <1>1
<1>3. Starts(buffer, line \o content)
  <2>1. /\ Len(buffer) <= Len(line) /\ \A j \in 1..Len(buffer) : buffer[j] = line[j]
    BY DEF LineInv, Starts
  <2>2. \A j \in 1..Len(line) : (line \o content)[j] = line[j]
    BY <1>1, Joined
  <2>. QED
    BY <1>1, <1>2, <2>1, <2>2 DEF Starts
<1>4. CASE oversized
  <2>1. Len(line) > max_bytes
    BY <1>4 DEF LineInv
  <2>2. Reader!Over(content) /\ Reader!Kept(content) = buffer
    BY <1>4 DEF Reader!Over, Reader!Kept
  <2>. QED
    BY <1>1, <1>2, <1>3, <2>1, <2>2
<1>5. CASE ~oversized
  <2>1. buffer = line
    BY <1>5 DEF LineInv
  <2>2. CASE Len(content) > max_bytes - Len(buffer)
    <3>1. Reader!Over(content) = TRUE /\ Reader!Kept(content) = buffer
      BY <2>2 DEF Reader!Over, Reader!Kept
    <3>. QED
      BY <1>1, <1>2, <1>3, <2>1, <2>2, <3>1
  <2>3. CASE ~(Len(content) > max_bytes - Len(buffer))
    <3>1. Reader!Over(content) = FALSE /\ Reader!Kept(content) = line \o content
      BY <1>5, <2>1, <2>3 DEF Reader!Over, Reader!Kept
    <3>2. Starts(line \o content, line \o content)
      BY <1>2 DEF Starts
    <3>3. Len(line \o content) <= max_bytes
      BY <1>1, <1>2, <2>1, <2>3
    <3>. QED
      BY <1>2, <3>1, <3>2, <3>3
  <2>. QED
    BY <2>2, <2>3
<1>. QED
  BY <1>1, <1>4, <1>5

\* What is left of the text when k bytes of it were taken.
LEMMA TextTaken ==
  ASSUME NEW S, NEW s \in Seq(S), NEW k \in 1..Len(s)
  PROVE  /\ SubSeq(s, k + 1, Len(s)) \in Seq(S)
         /\ Len(SubSeq(s, k + 1, Len(s))) = Len(s) - k
         /\ SubSeq(s, 1, k) \in Seq(S) /\ SubSeq(s, 1, k - 1) \in Seq(S)
<1>1. SubSeq(s, k + 1, Len(s)) \in Seq(S) /\ Len(SubSeq(s, k + 1, Len(s))) = Len(s) - k
  OBVIOUS
<1>2. SubSeq(s, 1, k) \in Seq(S) /\ SubSeq(s, 1, k - 1) \in Seq(S)
  OBVIOUS
<1>. QED
  BY <1>1, <1>2

\* A result, by what was got and the line it is for.
LEMMA ResultIsRight ==
  ASSUME NEW over \in BOOLEAN, NEW cut \in BOOLEAN, NEW kept \in Seq(Chars), NEW whole \in Seq(Chars),
         max_bytes \in Nat,
         IF over THEN Len(whole) > max_bytes ELSE kept = whole /\ Len(whole) <= max_bytes
  PROVE  LET r == [got |-> IF over THEN Reader!TooLong ELSE kept, line |-> whole,
                   cut |-> cut]
         IN  Reader!Right(r) /\ r \in Result
<1>1. Reader!TooLong \in Seq(Chars)
  BY DEF Reader!TooLong, Chars
<1>2. Len(whole) \in Nat
  OBVIOUS
<1>3. CASE over
  BY <1>1, <1>2, <1>3 DEF Reader!Right, Result
<1>4. CASE ~over
  BY <1>1, <1>2, <1>4 DEF Reader!Right, Result
<1>. QED
  BY <1>3, <1>4

\* One more result, which is right.
LEMMA OneMoreResult ==
  ASSUME NEW S, NEW rs \in Seq(S), NEW r \in S, \A i \in 1..Len(rs) : Reader!Right(rs[i]), Reader!Right(r)
  PROVE  \A i \in 1..Len(Append(rs, r)) : Reader!Right(Append(rs, r)[i])
<1>. SUFFICES ASSUME NEW i \in 1..Len(Append(rs, r))
              PROVE  Reader!Right(Append(rs, r)[i])
  OBVIOUS
<1>1. CASE i \in 1..Len(rs)
  <2>1. Append(rs, r)[i] = rs[i]
    BY <1>1
  <2>. QED
    BY <1>1, <2>1
<1>2. CASE i \notin 1..Len(rs)
  <2>1. Append(rs, r)[i] = r
    BY <1>2
  <2>. QED
    BY <2>1
<1>. QED
  BY <1>1, <1>2

LEMMA ReadKeeps ==
  ASSUME ReadingInv, Reader!ReaderOK, Reader!Read
  PROVE  ReadingInv'
<1>. PICK k \in 1..Len(text) :
        /\ IF text[k] = Newline THEN Reader!ReadEnd(SubSeq(text, 1, k - 1))
           ELSE Reader!ReadPart(SubSeq(text, 1, k))
        /\ text' = SubSeq(text, k + 1, Len(text))
  BY DEF Reader!Read
<1>0. /\ text \in Seq(Chars) /\ Len(text) \in Nat /\ closed' = closed
      /\ line \in Seq(Chars) /\ buffer \in Seq(Chars) /\ results \in Seq(Result)
  BY DEF Reader!Read, ReadingInv, LineInv
<1>1. /\ text' \in Seq(Chars)
      /\ SubSeq(text, 1, k - 1) \in Seq(Chars) /\ SubSeq(text, 1, k) \in Seq(Chars)
  BY <1>0, TextTaken
<1>2. <<>> \in Seq(Chars) /\ Len(<<>>) = 0 /\ Len(<<>>) <= max_bytes /\ Starts(<<>>, <<>>)
  BY DEF Reader!ReaderOK, Starts
<1>3. CASE text[k] = Newline
  <2>. DEFINE content == SubSeq(text, 1, k - 1)
              r == [got |-> IF Reader!Over(content) THEN Reader!TooLong ELSE Reader!Kept(content),
                    line |-> line \o content, cut |-> FALSE]
  <2>1. /\ results' = Append(results, r) /\ line' = <<>> /\ oversized' = FALSE /\ buffer' = <<>>
    BY <1>3 DEF Reader!ReadEnd, Reader!Return
  <2>2. /\ Reader!Over(content) \in BOOLEAN /\ Reader!Kept(content) \in Seq(Chars)
        /\ line \o content \in Seq(Chars)
        /\ IF Reader!Over(content) THEN Len(line \o content) > max_bytes
           ELSE Reader!Kept(content) = line \o content /\ Len(line \o content) <= max_bytes
    BY <1>1, KeptIsLine DEF ReadingInv
  <2>. HIDE DEF content
  <2>3. Reader!Right(r) /\ r \in Result
    BY <2>2, ResultIsRight DEF Reader!ReaderOK
  <2>. HIDE DEF r
  <2>4. results' \in Seq(Result)
    BY <1>0, <2>1, <2>3
  <2>5. LineInv'
    BY <1>0, <1>1, <1>2, <2>1, <2>4 DEF LineInv, ReadingInv
  <2>6. ReturnInv'
    BY <1>0, <2>1, <2>3, OneMoreResult DEF ReturnInv, ReadingInv
  <2>. QED
    BY <2>5, <2>6 DEF ReadingInv
<1>4. CASE text[k] # Newline
  <2>. DEFINE content == SubSeq(text, 1, k)
  <2>1. /\ results' = results /\ line' = line \o content
        /\ oversized' = Reader!Over(content) /\ buffer' = Reader!Kept(content)
    BY <1>4 DEF Reader!ReadPart
  <2>2. LineInv'
    BY <1>0, <1>1, <2>1, KeptIsLine DEF LineInv, ReadingInv
  <2>3. ReturnInv'
    BY <1>0, <2>1 DEF ReturnInv, ReadingInv
  <2>. QED
    BY <2>2, <2>3 DEF ReadingInv
<1>. QED
  BY <1>3, <1>4

\* The last line, if the end of the input cut it.
LEMMA LastLine ==
  ASSUME ReadingInv, Reader!ReaderOK, Reader!ReadClosed
  PROVE  RejectedInv' \/ DoneInv'
<1>. DEFINE r == [got |-> IF oversized THEN Reader!TooLong ELSE buffer, line |-> line,
                  cut |-> TRUE]
<1>1. /\ closed = TRUE /\ text = <<>> /\ closed' = closed /\ text' = text
      /\ line' = <<>> /\ oversized' = FALSE
      /\ results' = Append(results, r) /\ buffer' = IF oversized THEN buffer ELSE <<>>
  BY DEF Reader!ReadClosed, Reader!Return, ReadingInv, LineInv
<1>2. /\ oversized \in BOOLEAN /\ buffer \in Seq(Chars) /\ line \in Seq(Chars)
      /\ max_bytes \in Nat /\ Len(buffer) <= max_bytes /\ Starts(buffer, line)
      /\ IF oversized THEN Len(line) > max_bytes ELSE buffer = line
      /\ results \in Seq(Result)
  BY DEF ReadingInv, LineInv, Reader!ReaderOK
<1>3. IF oversized THEN Len(line) > max_bytes ELSE buffer = line /\ Len(line) <= max_bytes
  BY <1>2
<1>4. Reader!Right(r) /\ r \in Result
  BY <1>2, <1>3, ResultIsRight
<1>5. r.cut = TRUE /\ r.line = line /\ (oversized => r.got = Reader!TooLong)
  OBVIOUS
<1>. HIDE DEF r
<1>6. /\ results' \in Seq(Result) /\ Len(results') = Len(results) + 1 /\ Len(results) \in Nat
      /\ results'[Len(results')] = r
  BY <1>1, <1>2, <1>4
<1>7. ReturnInv'
  BY <1>1, <1>2, <1>4, OneMoreResult DEF ReturnInv, ReadingInv
<1>8. EndedInv'
  BY <1>1 DEF EndedInv
<1>9. CASE oversized
  <2>1. buffer' = buffer
    BY <1>1, <1>9
  <2>. QED
    BY <1>2, <1>5, <1>6, <1>7, <1>8, <1>9, <2>1 DEF RejectedInv
<1>10. CASE ~oversized
  <2>1. buffer' = <<>>
    BY <1>1, <1>10
  <2>2. Reader!EachLineOnce'
    BY <1>7 DEF ReturnInv, Reader!EachLineOnce
  <2>. QED
    BY <1>8, <2>1, <2>2 DEF DoneInv
<1>. QED
  BY <1>2, <1>9, <1>10

\* What was left of it is returned, and then there is nothing.
LEMMA LeftOver ==
  ASSUME RejectedInv, Reader!ReaderOK, Reader!ReadClosed
  PROVE  DoneInv'
<1>. DEFINE r == [got |-> buffer, line |-> <<>>, cut |-> TRUE]
            last == results[Len(results)]
<1>1. /\ closed' = closed /\ text' = text /\ line' = <<>> /\ oversized' = FALSE
      /\ results' = Append(results, r) /\ buffer' = <<>>
  BY DEF Reader!ReadClosed, Reader!Return, RejectedInv, EndedInv
<1>2. EndedInv'
  BY <1>1 DEF EndedInv, RejectedInv
<1>3. /\ results \in Seq(Result) /\ Len(results) \in Nat /\ Len(results) > 0 /\ last \in Result
      /\ buffer \in Seq(Chars) /\ Len(buffer) <= max_bytes
  BY DEF RejectedInv
<1>4. Reader!Again(r, last)
  <2>1. last.line \in Seq(Chars) /\ Len(buffer) <= Len(last.line)
    BY <1>3 DEF RejectedInv, Starts, Result
  <2>2. buffer = SubSeq(last.line, 1, Len(buffer))
    <3>. DEFINE l == last.line
    <3>0. l \in Seq(Chars) /\ Len(l) \in Nat /\ Len(buffer) \in Nat /\ Len(buffer) <= Len(l)
      BY <1>3, <2>1
    <3>1. \A j \in 1..Len(buffer) : buffer[j] = l[j]
      BY DEF RejectedInv, Starts
    <3>. HIDE DEF l
    <3>2. SubSeq(l, 1, Len(buffer)) = [j \in 1..Len(buffer) |-> l[j]]
      BY <3>0
    <3>3. buffer = [j \in 1..Len(buffer) |-> buffer[j]]
      BY <1>3
    <3>4. [j \in 1..Len(buffer) |-> buffer[j]] = [j \in 1..Len(buffer) |-> l[j]]
      BY <3>1, Zenon
    <3>. QED
      BY <3>2, <3>3, <3>4 DEF l
  <2>3. last.cut /\ last.got = Reader!TooLong
    BY DEF RejectedInv
  <2>. QED
    BY <1>3, <2>2, <2>3 DEF Reader!Again
<1>5. Reader!EachLineOnce'
  <2>. SUFFICES ASSUME NEW i \in 1..Len(results')
                PROVE  \/ Reader!Right(results'[i])
                       \/ /\ i > 1 /\ i = Len(results')
                          /\ Reader!Again(results'[i], results'[i - 1])
    BY DEF Reader!EachLineOnce, Reader!Right, Reader!Again
  <2>. HIDE DEF r, last
  <2>1. /\ Len(results') = Len(results) + 1 /\ results'[Len(results) + 1] = r
        /\ \A j \in 1..Len(results) : results'[j] = results[j]
    BY <1>1, <1>3
  <2>2. CASE i = Len(results) + 1
    <3>1. results'[i - 1] = last
      BY <1>3, <2>1, <2>2 DEF last
    <3>. QED
      BY <1>3, <1>4, <2>1, <2>2, <3>1
  <2>3. CASE i # Len(results) + 1
    <3>1. i \in 1..Len(results) /\ results'[i] = results[i]
      BY <1>3, <2>1, <2>3
    <3>. QED
      BY <3>1 DEF RejectedInv, ReturnInv
  <2>. QED
    BY <2>2, <2>3
<1>. QED
  BY <1>1, <1>2, <1>5 DEF DoneInv

\* Before the end of the input.
LEMMA SendKeeps ==
  ASSUME ReadingInv, Reader!Send \/ Reader!Close
  PROVE  ReadingInv'
<1>1. closed' \in BOOLEAN /\ UNCHANGED <<buffer, oversized, line, results>>
  BY DEF Reader!Send, Reader!Close, ReadingInv, LineInv
<1>2. text' \in Seq(Chars)
  <2>1. text \in Seq(Chars)
    BY DEF ReadingInv, LineInv
  <2>2. CASE Reader!Send
    <3>1. PICK b \in Chars : text' = Append(text, b)
      BY <2>2 DEF Reader!Send, Chars
    <3>. QED
      BY <2>1, <3>1
  <2>3. CASE Reader!Close
    BY <2>1, <2>3 DEF Reader!Close
  <2>. QED
    BY <2>2, <2>3
<1>3. LineInv'
  BY <1>1, <1>2 DEF ReadingInv, LineInv
<1>. QED
  BY <1>1, <1>3 DEF ReadingInv, ReturnInv

LEMMA ReaderAlways == HelperSpec => []ReaderInv
<1>. USE InstancesAssumption
<1>1. HelperInit => ReaderInv
  <2>. SUFFICES ASSUME HelperInit
                PROVE  ReadingInv
    BY DEF ReaderInv
  <2>1. /\ text = <<>> /\ buffer = <<>> /\ line = <<>> /\ results = <<>>
        /\ oversized = FALSE /\ closed = FALSE
    BY DEF HelperInit, Reader!Init
  <2>2. /\ <<>> \in Seq(Chars) /\ <<>> \in Seq(Result)
        /\ Len(<<>>) = 0 /\ Len(<<>>) <= max_bytes /\ Starts(<<>>, <<>>)
    BY DEF Reader!ReaderOK, Starts
  <2>3. LineInv
    BY <2>1, <2>2 DEF LineInv
  <2>4. ReturnInv
    <3>1. Len(results) = 0
      BY <2>1
    <3>. QED
      BY <3>1 DEF ReturnInv
  <2>. QED
    BY <2>3, <2>4 DEF ReadingInv
<1>2. ReaderInv /\ [HelperNext]_helper_vars => ReaderInv'
  <2>. SUFFICES ASSUME ReaderInv, [HelperNext]_helper_vars
                PROVE  ReaderInv'
    OBVIOUS
  <2>1. Reader!Next \/ UNCHANGED reader
    BY DEF HelperNext, helper_vars, reader
  <2>2. CASE UNCHANGED reader
    BY <2>2 DEF reader, ReaderInv, ReadingInv, RejectedInv, DoneInv, EndedInv, LineInv, ReturnInv,
                Reader!EachLineOnce
  <2>3. CASE Reader!Next /\ ReadingInv
    BY <2>3, SendKeeps, ReadKeeps, LastLine DEF Reader!Next, ReaderInv
  <2>4. CASE Reader!Next /\ ~ReadingInv
    <3>1. EndedInv
      BY <2>4 DEF ReaderInv, RejectedInv, DoneInv
    <3>2. Len(<<>>) = 0
      OBVIOUS
    <3>3. Reader!ReadClosed
      BY <2>4, <3>1, <3>2 DEF Reader!Next, Reader!Send, Reader!Close, Reader!Read, EndedInv
    <3>4. buffer # <<>>
      BY <3>1, <3>3 DEF Reader!ReadClosed, EndedInv
    <3>5. RejectedInv
      BY <2>4, <3>4 DEF ReaderInv, DoneInv
    <3>. QED
      BY <3>3, <3>5, LeftOver DEF ReaderInv
  <2>. QED
    BY <2>1, <2>2, <2>3, <2>4
<1>. QED
  BY <1>1, <1>2, PTL DEF HelperSpec

\* In whatever chunks the service's lines come, each is returned whole, or rejected for
\* its length, and nothing else is, save the beginning of a last line that was cut and
\* rejected, once (main.rs:50-113).
THEOREM LinesOnce == HelperSpec => []EachLineOnce
<1>1. ReaderInv => EachLineOnce
  BY DEF ReaderInv, ReadingInv, ReturnInv, RejectedInv, DoneInv, Reader!EachLineOnce, EachLineOnce
<1>. QED
  BY <1>1, ReaderAlways, PTL

-----------------------------------------------------------------------------
(* A request between the server, the helper and the panel *)

Evt == [kind : {"request", "expired", "accepted", "declined", "text", "progress",
                "file", "done", "cancelled", "failed"}, r : Request]
Command == [kind : {"accept", "decline", "cancel"}, r : Request]
InHand == {"asking", "accepted", "open", "stuck"}

\* The types of what the server keeps and sends; it has one session at a time.
ServerTypes ==
  /\ at \in [Request -> InHand \cup {"new", "refused", "gone", "over"}]
  /\ answer \in [Request -> {"none", "accept", "decline"}]
  /\ events \in Seq(Evt)
  /\ \A r, s \in Request : at[r] \in InHand /\ at[s] \in InHand => r = s

\* Of the helper's table and of the pipes.
PipeTypes ==
  /\ pending \subseteq Request
  /\ reply \in Seq(Evt) /\ out \in Seq(Evt) /\ commands \in Seq(Command)

\* A queue holds each of its requests once.
IsQueue(q) == q \in Seq(Request) /\ \A i, j \in 1..Len(q) : q[i] = q[j] => i = j

\* And of the panel.
PanelTypes ==
  /\ IsQueue(incomingQueue)
  /\ viewState \in {"nearby", "incoming", "receiving", "sending", "pin", "text", "result"}
  /\ {activeIncomingSession, lastEndedIncomingSession, incomingText}
         \subseteq Request \cup {NoRequest}
  /\ incomingTextPending \in BOOLEAN /\ pendingOutgoing \in BOOLEAN
  /\ incomingTextPending => incomingText # NoRequest

RequestTypes == ServerTypes /\ PipeTypes /\ PanelTypes

\* What the server sends is made of events.
LEMMA EventTypes ==
  ASSUME NEW r \in Request,
         NEW k \in {"request", "expired", "accepted", "declined", "text", "progress",
                    "file", "done", "cancelled", "failed"}
  PROVE  /\ In!Is(k, r) \in Evt /\ <<In!Is(k, r)>> \in Seq(Evt)
         /\ In!Is(k, r).kind = k /\ In!Is(k, r).r = r
<1>1. In!Is(k, r) \in Evt
  BY DEF In!Is, Evt
<1>. QED
  BY <1>1 DEF In!Is


\* No step of the server takes a request in hand while another is.
LEMMA ServerKeeps ==
  ASSUME NEW r \in Request, ServerTypes,
         \/ In!Ask(r) \/ In!GiveUp(r) \/ In!Report(r) \/ In!Leak(r)
         \/ In!LateProgress(r) \/ \E s \in Request : In!Replace(r, s)
         \/ In!Expire(r) \/ In!Hear(r) \/ In!Open(r)
         \/ In!SessionEnds(r)
  PROVE  ServerTypes'
<1>. DEFINE E(k) == In!Is(k, r)
<1>1. /\ <<E("request")>> \in Seq(Evt) /\ <<E("expired")>> \in Seq(Evt)
      /\ <<E("progress")>> \in Seq(Evt) /\ <<E("file")>> \in Seq(Evt)
      /\ <<E("cancelled")>> \in Seq(Evt) /\ <<E("failed")>> \in Seq(Evt)
  BY EventTypes
<1>2. <<E("text"), E("done")>> \in Seq(Evt) /\ <<E("file"), E("done")>> \in Seq(Evt)
  <2>1. E("text") \in Evt /\ E("done") \in Evt /\ E("file") \in Evt
    BY EventTypes
  <2>. HIDE DEF E
  <2>. QED
    BY <2>1
<1>3. \A es \in Seq(Evt) : events \o es \in Seq(Evt)
  BY Joined DEF ServerTypes
<1>. HIDE DEF E
<1>a. CASE In!Ask(r)
  <2>1. /\ \A s \in Request : at[s] \notin InHand
        /\ at' = [at EXCEPT ![r] = "asking"] /\ events' = events \o <<E("request")>>
        /\ answer' = answer
    BY <1>a DEF In!Ask, In!Goto, In!Sends, In!Held, In!Sessions, InHand, E
  <2>2. events' \in Seq(Evt)
    BY <2>1, <1>1, <1>3
  <2>. QED
    BY <2>1, <2>2 DEF ServerTypes, InHand
<1>b. CASE In!GiveUp(r)
  <2>1. at[r] = "accepted" /\ at' = [at EXCEPT ![r] = "gone"] /\ events' = events /\ answer' = answer
    BY <1>b DEF In!GiveUp, In!Goto
  <2>. QED
    BY <2>1 DEF ServerTypes, InHand
<1>c. CASE In!Report(r)
  <2>1. /\ at' = at /\ answer' = answer
        /\ events' = events \o <<E("progress")>> \/ events' = events \o <<E("file")>>
    BY <1>c DEF In!Report, In!Sends, E
  <2>. QED
    BY <2>1, <1>1, <1>3 DEF ServerTypes
<1>d. CASE In!LateProgress(r)
  <2>1. at' = at /\ answer' = answer /\ events' = events \o <<E("progress")>>
    BY <1>d DEF In!LateProgress, In!Sends, E
  <2>. QED
    BY <2>1, <1>1, <1>3 DEF ServerTypes
<1>e. CASE \E s \in Request : In!Replace(r, s)
  <2>1. PICK s \in Request :
          /\ at[r] = "new" /\ at[s] = "open" /\ answer' = answer
          /\ at' = [at EXCEPT ![r] = "asking", ![s] = "gone"]
          /\ events' = events \o <<E("request")>>
    BY <1>e DEF In!Replace, In!Sends, E
  <2>2. events' \in Seq(Evt)
    BY <2>1, <1>1, <1>3
  <2>. QED
    BY <2>1, <2>2 DEF ServerTypes, InHand
<1>f. CASE In!Expire(r)
  <2>1. /\ at[r] = "asking" /\ at' = [at EXCEPT ![r] = "gone"] /\ answer' = answer
        /\ events' = events \o <<E("expired")>>
    BY <1>f DEF In!Expire, In!Goto, In!Sends, E
  <2>2. events' \in Seq(Evt)
    BY <2>1, <1>1, <1>3
  <2>. QED
    BY <2>1, <2>2 DEF ServerTypes, InHand
<1>g. CASE In!Hear(r)
  <2>1. /\ at[r] = "asking" /\ answer' = answer /\ events' = events
        /\ at' = [at EXCEPT ![r] = IF answer[r] = "accept" THEN "accepted" ELSE "refused"]
    BY <1>g DEF In!Hear, In!Goto
  <2>. QED
    BY <2>1 DEF ServerTypes, InHand
<1>h. CASE In!Open(r)
  <2>1. /\ at[r] = "accepted" /\ answer' = answer
        /\ \/ at' = [at EXCEPT ![r] = "over"] /\ events' = events \o <<E("text"), E("done")>>
           \/ at' = [at EXCEPT ![r] = "open"] /\ events' = events
    BY <1>h DEF In!Open, In!Ends, In!Goto, In!Sends, E
  <2>2. events' \in Seq(Evt)
    BY <2>1, <1>2, <1>3 DEF ServerTypes
  <2>. QED
    BY <2>1, <2>2 DEF ServerTypes, InHand
<1>i. CASE In!SessionEnds(r)
  <2>1. /\ at[r] \in {"open", "stuck"} /\ answer' = answer /\ at' = [at EXCEPT ![r] = "over"]
        /\ \/ events' = events \o <<E("file"), E("done")>>
           \/ events' = events \o <<E("cancelled")>> \/ events' = events \o <<E("failed")>>
    BY <1>i DEF In!SessionEnds, In!Sessions, In!Ends, In!Goto, In!Sends, E
  <2>2. events' \in Seq(Evt)
    BY <2>1, <1>1, <1>2, <1>3 DEF ServerTypes
  <2>. QED
    BY <2>1, <2>2 DEF ServerTypes, InHand
<1>j. CASE In!Leak(r)
  <2>1. /\ at[r] = "open" /\ at' = [at EXCEPT ![r] = "stuck"]
        /\ events' = events /\ answer' = answer
    BY <1>j DEF In!Leak, In!Goto
  <2>. QED
    BY <2>1 DEF ServerTypes, InHand
<1>. QED
  BY <1>a, <1>b, <1>c, <1>d, <1>e, <1>f, <1>g, <1>h, <1>i, <1>j

\* It is the panel's queue without a request.
Leaves(q, r) ==
  /\ IsQueue(q) /\ Len(q) <= Len(incomingQueue)
  /\ \A i \in 1..Len(q) : q[i] # r /\ \E j \in 1..Len(incomingQueue) : incomingQueue[j] = q[i]

LEMMA OthersStay ==
  ASSUME NEW r \in Request, PanelTypes
  PROVE  Leaves(In!Without(r), r)
<1>. DEFINE p == CHOOSE i \in 1..Len(incomingQueue) : incomingQueue[i] = r
            q == RemoveAt(incomingQueue, p)
<1>0. incomingQueue \in Seq(Request)
      /\ \A i, j \in 1..Len(incomingQueue) : incomingQueue[i] = incomingQueue[j] => i = j
  BY DEF PanelTypes, IsQueue
<1>1. CASE \E i \in 1..Len(incomingQueue) : incomingQueue[i] = r
  <2>1. p \in 1..Len(incomingQueue) /\ incomingQueue[p] = r
    BY <1>1
  <2>2. In!Without(r) = q
    BY <1>1 DEF In!Without, In!Queued, RemoveAt
  <2>. HIDE DEF p
  <2>3. /\ q \in Seq(Request) /\ Len(q) = Len(incomingQueue) - 1
        /\ \A i \in 1..(Len(incomingQueue) - 1) :
              q[i] = IF i < p THEN incomingQueue[i] ELSE incomingQueue[i + 1]
    BY <1>0, <2>1, RemovedPlace
  <2>. HIDE DEF q
  <2>4. \A i \in 1..Len(q) : \E j \in 1..Len(incomingQueue) :
          j = (IF i < p THEN i ELSE i + 1) /\ incomingQueue[j] = q[i] /\ j # p
    BY <1>0, <2>1, <2>3
  <2>5. \A i \in 1..Len(q) : q[i] # r
    BY <1>0, <2>1, <2>4
  <2>6. \A i, j \in 1..Len(q) : q[i] = q[j] => i = j
    <3>. SUFFICES ASSUME NEW i \in 1..Len(q), NEW j \in 1..Len(q), q[i] = q[j]
                  PROVE  i = j
      OBVIOUS
    <3>1. PICK k \in 1..Len(incomingQueue) :
            k = (IF i < p THEN i ELSE i + 1) /\ incomingQueue[k] = q[i] /\ k # p
      BY <2>4
    <3>2. PICK l \in 1..Len(incomingQueue) :
            l = (IF j < p THEN j ELSE j + 1) /\ incomingQueue[l] = q[j] /\ l # p
      BY <2>4
    <3>3. k = l
      BY <1>0, <3>1, <3>2
    <3>. QED
      BY <2>1, <2>3, <3>1, <3>2, <3>3
  <2>7. Len(q) <= Len(incomingQueue)
    BY <1>0, <2>3
  <2>. QED
    BY <2>2, <2>3, <2>4, <2>5, <2>6, <2>7 DEF Leaves, IsQueue
<1>2. CASE ~\E i \in 1..Len(incomingQueue) : incomingQueue[i] = r
  <2>1. In!Without(r) = incomingQueue
    BY <1>2 DEF In!Without, In!Queued
  <2>. QED
    BY <1>0, <1>2, <2>1 DEF Leaves, IsQueue
<1>. QED
  BY <1>1, <1>2

\* Nor does a step of the helper, and it passes on what it reads.
LEMMA HelperKeeps ==
  ASSUME RequestTypes,
         \/ In!ReadEvent \/ In!Reply
         \/ \E r \in Request : \/ In!Answer(r, "accept")
                               \/ In!Answer(r, "decline")
                               \/ In!CancelIncoming(r)
  PROVE  ServerTypes' /\ PipeTypes'
<1>0. /\ at \in [Request -> InHand \cup {"new", "refused", "gone", "over"}]
      /\ answer \in [Request -> {"none", "accept", "decline"}]
      /\ events \in Seq(Evt) /\ reply \in Seq(Evt) /\ out \in Seq(Evt) /\ commands \in Seq(Command)
      /\ pending \subseteq Request
      /\ \A r, s \in Request : at[r] \in InHand /\ at[s] \in InHand => r = s
  BY DEF RequestTypes, ServerTypes, PipeTypes
<1>1. CASE In!ReadEvent
  <2>1. /\ events # <<>> /\ events' = Tail(events) /\ out' = Append(out, Head(events))
        /\ pending' \in {pending, pending \cup {Head(events).r}, pending \ {Head(events).r}}
        /\ at' = at /\ answer' = answer /\ reply' = reply /\ commands' = commands
    BY <1>1 DEF In!ReadEvent, In!server
  <2>2. Tail(events) \in Seq(Evt) /\ Head(events) \in Evt
    BY <1>0, <2>1, Behind
  <2>3. Head(events).r \in Request
    BY <2>2 DEF Evt
  <2>4. out' \in Seq(Evt)
    BY <1>0, <2>1, <2>2
  <2>. QED
    BY <1>0, <2>1, <2>2, <2>3, <2>4 DEF ServerTypes, PipeTypes
<1>2. CASE In!Reply
  <2>1. /\ out' = out \o reply /\ reply' = <<>> /\ UNCHANGED <<at, answer, events, pending, commands>>
    BY <1>2 DEF In!Reply, In!server
  <2>2. out' \in Seq(Evt) /\ reply' \in Seq(Evt)
    BY <1>0, <2>1, Joined
  <2>. QED
    BY <1>0, <2>1, <2>2 DEF ServerTypes, PipeTypes
<1>3. ASSUME NEW r \in Request, NEW d \in {"accept", "decline"}, In!Answer(r, d)
      PROVE  ServerTypes' /\ PipeTypes'
  <2>1. /\ commands # <<>> /\ commands' = Tail(commands) /\ pending' = pending \ {r}
        /\ answer' \in {answer, [answer EXCEPT ![r] = d]}
        /\ reply' \in {<<In!Is("expired", r)>>, <<In!Is("accepted", r)>>,
                       <<In!Is("declined", r)>>}
        /\ UNCHANGED <<at, events, out>>
    BY <1>3 DEF In!Answer, In!Take
  <2>2. reply' \in Seq(Evt)
    <3>1. /\ <<In!Is("expired", r)>> \in Seq(Evt)
          /\ <<In!Is("accepted", r)>> \in Seq(Evt)
          /\ <<In!Is("declined", r)>> \in Seq(Evt)
      BY EventTypes
    <3>. QED
      BY <2>1, <3>1
  <2>3. commands' \in Seq(Command)
    BY <1>0, <2>1, Behind
  <2>. QED
    BY <1>0, <2>1, <2>2, <2>3 DEF ServerTypes, PipeTypes
<1>4. ASSUME NEW r \in Request, In!CancelIncoming(r)
      PROVE  ServerTypes' /\ PipeTypes'
  <2>1. /\ commands # <<>> /\ commands' = Tail(commands) /\ UNCHANGED <<answer, pending, reply, out>>
        /\ \/ /\ at[r] \in {"open", "stuck"} /\ at' = [at EXCEPT ![r] = "over"]
              /\ events' = events \o <<In!Is("cancelled", r)>>
           \/ UNCHANGED <<at, events>>
    BY <1>4 DEF In!CancelIncoming, In!Sessions, In!Take, In!Ends, In!Goto, In!Sends
  <2>2. commands' \in Seq(Command)
    BY <1>0, <2>1, Behind
  <2>3. events' \in Seq(Evt)
    <3>1. <<In!Is("cancelled", r)>> \in Seq(Evt)
      BY EventTypes
    <3>2. \A es \in Seq(Evt) : events \o es \in Seq(Evt)
      BY <1>0, Joined
    <3>. QED
      BY <1>0, <2>1, <3>1, <3>2
  <2>. QED
    BY <1>0, <2>1, <2>2, <2>3 DEF ServerTypes, PipeTypes, InHand
<1>. QED
  BY <1>1, <1>2, <1>3, <1>4

\* The user's commands are commands.
LEMMA UserKeeps ==
  ASSUME RequestTypes, NoRequest \notin Request,
         \/ In!User \/ In!OutgoingMoves \/ In!finishOutgoing
  PROVE  RequestTypes'
<1>. USE DEF RequestTypes, PipeTypes, PanelTypes
<1>0. /\ incomingQueue # <<>> => incomingQueue[1] \in Request /\ Head(incomingQueue) = incomingQueue[1]
      /\ In!incoming \in Request \cup {NoRequest}
  BY Behind DEF In!incoming, IsQueue
<1>1. \A k \in {"accept", "decline", "cancel"}, r \in Request :
         Append(commands, In!Is(k, r)) \in Seq(Command)
  BY DEF In!Is, Command
<1>s. In!helper' = In!helper => ServerTypes' /\ pending' = pending
        /\ reply' = reply /\ out' = out
  BY DEF In!helper, In!server, ServerTypes
<1>a. CASE In!acceptIncoming
  BY <1>a, <1>0, <1>1, <1>s DEF In!acceptIncoming, In!sessions, In!texts, In!sending, In!accepts
<1>b. CASE In!declineIncoming
  <2>1. PICK r \in Request : r = In!incoming
    BY <1>b, <1>0 DEF In!declineIncoming
  <2>. HIDE DEF RequestTypes, PipeTypes, PanelTypes
  <2>. PanelTypes
    BY DEF RequestTypes
  <2>2. IsQueue(In!Without(r))
    BY OthersStay DEF Leaves
  <2>3. /\ incomingQueue' = In!Without(r)
        /\ viewState' \in {"incoming", "text", "nearby"}
        /\ incomingTextPending' = (incomingTextPending /\ incomingQueue' # <<>>)
        /\ commands' = Append(commands, In!Is("decline", r))
        /\ In!helper' = In!helper
        /\ UNCHANGED <<activeIncomingSession, lastEndedIncomingSession, incomingText, pendingOutgoing>>
    BY <1>b, <2>1 DEF In!declineIncoming, In!ShowNext, In!sessions, In!sending,
          In!helper
  <2>4. IsQueue(incomingQueue')
    BY <2>2, <2>3
  <2>5. PanelTypes'
    BY <2>3, <2>4 DEF RequestTypes, PanelTypes
  <2>. QED
    BY <1>1, <1>s, <2>3, <2>5 DEF RequestTypes, PipeTypes
<1>c. CASE In!cancelIncoming
  BY <1>c, <1>0, <1>1, <1>s DEF In!cancelIncoming, In!panel
<1>d. CASE In!Dismiss
  BY <1>d, <1>s DEF In!Dismiss, In!sessions, In!texts, In!sending
<1>e. CASE In!beginOutgoing
  BY <1>e, <1>s DEF In!beginOutgoing, In!sessions, In!texts
<1>f. CASE In!OutgoingMoves
  BY <1>f, <1>s DEF In!OutgoingMoves, In!sessions, In!texts, In!sending
<1>g. CASE In!finishOutgoing
  BY <1>g, <1>s DEF In!finishOutgoing, In!ShowNext, In!sessions
<1>. QED
  BY <1>a, <1>b, <1>c, <1>d, <1>e, <1>f, <1>g DEF In!User

\* Nor does what the panel reads disturb its types.
LEMMA PanelKeeps ==
  ASSUME RequestTypes, NoRequest \notin Request,
         In!PanelReads
  PROVE  RequestTypes'
<1>. PICK r \in Request :
       \/ In!IncomingRequest(r) \/ In!IncomingText(r)
       \/ In!IncomingAnswered(r) \/ In!IncomingExpired(r)
       \/ In!IncomingProgress(r) \/ In!IncomingEnds(r)
  BY DEF In!PanelReads
<1>0. ServerTypes /\ PipeTypes /\ PanelTypes
  BY DEF RequestTypes
<1>1. /\ out # <<>> /\ out' = Tail(out)
      /\ UNCHANGED <<at, answer, events, pending, reply, commands, pendingOutgoing>>
  BY DEF In!IncomingRequest, In!IncomingText, In!IncomingAnswered,
         In!IncomingExpired, In!IncomingProgress, In!IncomingEnds,
         In!Read, In!server, In!sending
<1>2. ServerTypes' /\ PipeTypes'
  <2>1. out' \in Seq(Evt)
    BY <1>0, <1>1, Behind DEF PipeTypes
  <2>. QED
    BY <1>0, <1>1, <2>1 DEF ServerTypes, PipeTypes
<1>. SUFFICES PanelTypes'
  BY <1>2 DEF RequestTypes
<1>3. CASE In!IncomingRequest(r)
  <2>1. /\ incomingQueue' = IF \E i \in 1..Len(incomingQueue) : incomingQueue[i] = r
                            THEN incomingQueue ELSE Append(incomingQueue, r)
        /\ viewState' \in {viewState, "incoming"}
        /\ incomingText' \in {incomingText, NoRequest} /\ (incomingTextPending => incomingText' = incomingText)
        /\ UNCHANGED <<activeIncomingSession, lastEndedIncomingSession, incomingTextPending>>
    BY <1>3 DEF In!IncomingRequest, In!enqueueIncoming, In!Queued, In!sessions
  <2>2. IsQueue(incomingQueue')
    BY <1>0, <2>1 DEF PanelTypes, IsQueue
  <2>. QED
    BY <1>0, <1>1, <2>1, <2>2 DEF PanelTypes
<1>4. CASE In!IncomingText(r)
  BY <1>0, <1>1, <1>4 DEF PanelTypes, In!IncomingText, In!sessions
<1>5. CASE In!IncomingAnswered(r) \/ In!IncomingExpired(r)
  <2>1. /\ incomingQueue' = In!Without(r)
        /\ viewState' \in {viewState, "text", "result"}
        /\ incomingText' = incomingText
        /\ incomingTextPending' \in BOOLEAN /\ (incomingTextPending' => incomingTextPending)
        /\ UNCHANGED <<activeIncomingSession, lastEndedIncomingSession>>
    BY <1>0, <1>5 DEF PanelTypes, In!IncomingAnswered, In!IncomingExpired,
       In!ShowNext, In!sessions, In!texts
  <2>2. IsQueue(incomingQueue')
    BY <1>0, <2>1, OthersStay DEF Leaves
  <2>. QED
    BY <1>0, <1>1, <2>1, <2>2 DEF PanelTypes
<1>6. CASE In!IncomingProgress(r) \/ In!IncomingEnds(r)
  <2>1. /\ viewState' \in {viewState, "incoming", "text", "receiving", "result"}
        /\ activeIncomingSession' \in {activeIncomingSession, r, NoRequest}
        /\ lastEndedIncomingSession' \in {lastEndedIncomingSession, r}
        /\ incomingTextPending' \in BOOLEAN /\ (incomingTextPending' => incomingTextPending)
        /\ UNCHANGED <<incomingQueue, incomingText>>
    BY <1>0, <1>6 DEF PanelTypes, In!IncomingProgress, In!IncomingEnds,
       In!finishIncoming, In!ShowNext, In!sessions, In!texts
  <2>. QED
    BY <1>0, <1>1, <2>1 DEF PanelTypes
<1>. QED
  BY <1>3, <1>4, <1>5, <1>6

Told(k, r) == [kind |-> k, r |-> r]

\* The server still waits for an answer to r, or has told that it does no longer.
Waits(r) == at[r] = "asking" /\ answer[r] = "none"

\* A request that is with the helper, or on the way there, is one the server waits for,
\* or its expiry is on the way behind it.
PendingInv == \A r \in pending :
  /\ at[r] # "new"
  /\ Waits(r) \/ \E j \in 1..Len(events) : events[j] = Told("expired", r)

OnTheWayInv == \A i \in 1..Len(events) : events[i].kind = "request" =>
  /\ at[events[i].r] # "new" /\ events[i].r \notin pending
  /\ Waits(events[i].r)
     \/ \E j \in 1..Len(events) : i < j /\ events[j] = Told("expired", events[i].r)
  /\ \A j \in 1..Len(events) : events[j] = events[i] => i = j

AskedInv ==
  /\ PendingInv /\ OnTheWayInv
  /\ \A r \in Request : at[r] = "new" => answer[r] = "none"

\* It stays so when the server sends anything but requests, as long as it says so when
\* it ceases to wait for one that has no answer.
LEMMA AskedAfter ==
  ASSUME ServerTypes, pending \subseteq Request, AskedInv, NEW es \in Seq(Evt),
         events' = events \o es, \A k \in 1..Len(es) : es[k].kind # "request",
         pending' \subseteq pending,
         \A r \in Request : /\ at'[r] = "new" => at[r] = "new" /\ answer'[r] = answer[r]
                            /\ Waits(r) /\ (r \in pending => r \in pending') =>
                                 Waits(r)' \/ \E k \in 1..Len(es) : es[k] = Told("expired", r)
  PROVE  AskedInv'
<1>1. /\ events \in Seq(Evt) /\ Len(events) \in Nat /\ Len(es) \in Nat
      /\ \A i \in 1..Len(events) : events[i].r \in Request
  <2>1. events \in Seq(Evt)
    BY DEF ServerTypes
  <2>2. \A i \in 1..Len(events) : events[i] \in Evt
    BY <2>1
  <2>. QED
    BY <2>1, <2>2 DEF Evt
<1>2. /\ Len(events') = Len(events) + Len(es)
      /\ \A i \in 1..Len(events) : events'[i] = events[i]
      /\ \A i \in 1..Len(es) : events'[Len(events) + i] = es[i]
      /\ \A i \in 1..(Len(events) + Len(es)) : i \in 1..Len(events) \/ i - Len(events) \in 1..Len(es)
  BY <1>1, Joined
<1>3. \A i \in 1..Len(events') : events'[i].kind = "request" => i \in 1..Len(events)
  <2>. SUFFICES ASSUME NEW i \in 1..Len(events'), i \notin 1..Len(events)
                PROVE  events'[i].kind # "request"
    OBVIOUS
  <2>1. i - Len(events) \in 1..Len(es)
    BY <1>2
  <2>2. events'[i] = es[i - Len(events)]
    BY <1>1, <1>2, <2>1
  <2>. QED
    BY <2>1, <2>2
<1>4. \A k \in 1..Len(es) : Len(events) + k \in 1..Len(events') /\ Len(events) < Len(events) + k
  BY <1>1, <1>2
<1>5. PendingInv'
  <2>. SUFFICES ASSUME NEW r \in pending'
                PROVE  /\ at'[r] # "new"
                       /\ Waits(r)' \/ \E j \in 1..Len(events') : events'[j] = Told("expired", r)
    BY DEF PendingInv, Told
  <2>1. /\ r \in Request /\ at[r] # "new"
        /\ Waits(r) \/ \E j \in 1..Len(events) : events[j] = Told("expired", r)
    BY DEF AskedInv, PendingInv
  <2>2. CASE Waits(r)
    BY <1>2, <1>4, <2>1, <2>2
  <2>3. ASSUME NEW j \in 1..Len(events), events[j] = Told("expired", r)
        PROVE  \E k \in 1..Len(events') : events'[k] = Told("expired", r)
    BY <1>1, <1>2, <2>3
  <2>. QED
    BY <2>1, <2>2, <2>3
<1>6. OnTheWayInv'
  <2>. SUFFICES ASSUME NEW i \in 1..Len(events'), events'[i].kind = "request"
                PROVE  /\ at'[events'[i].r] # "new" /\ events'[i].r \notin pending'
                       /\ Waits(events[i].r)'
                          \/ \E j \in 1..Len(events') :
                               i < j /\ events'[j] = Told("expired", events'[i].r)
                       /\ \A j \in 1..Len(events') : events'[j] = events'[i] => i = j
    BY <1>2, <1>3 DEF OnTheWayInv, Told, Waits
  <2>. DEFINE r == events[i].r
  <2>1. i \in 1..Len(events) /\ events'[i] = events[i] /\ r \in Request
    BY <1>1, <1>2, <1>3
  <2>2. /\ at[r] # "new" /\ r \notin pending
        /\ Waits(r) \/ \E j \in 1..Len(events) : i < j /\ events[j] = Told("expired", r)
        /\ \A j \in 1..Len(events) : events[j] = events[i] => i = j
    BY <2>1 DEF AskedInv, OnTheWayInv
  <2>3. \A j \in 1..Len(events') : events'[j] = events'[i] => i = j
    <3>. SUFFICES ASSUME NEW j \in 1..Len(events'), events'[j] = events'[i]
                  PROVE  i = j
      OBVIOUS
    <3>1. j \in 1..Len(events) /\ events'[j] = events[j]
      BY <1>2, <1>3
    <3>. QED
      BY <2>1, <2>2, <3>1
  <2>4. Waits(r)' \/ \E j \in 1..Len(events') : i < j /\ events'[j] = Told("expired", r)
    <3>1. CASE Waits(r)
      <4>1. Waits(r)' \/ \E k \in 1..Len(es) : es[k] = Told("expired", r)
        BY <2>1, <2>2, <3>1
      <4>2. ASSUME NEW k \in 1..Len(es), es[k] = Told("expired", r)
            PROVE  i < Len(events) + k /\ events'[Len(events) + k] = Told("expired", r)
        BY <1>1, <1>2, <2>1, <4>2
      <4>. QED
        BY <1>4, <4>1, <4>2
    <3>2. ASSUME NEW j \in 1..Len(events), i < j, events[j] = Told("expired", r)
          PROVE  \E k \in 1..Len(events') : i < k /\ events'[k] = Told("expired", r)
      BY <1>1, <1>2, <3>2
    <3>. QED
      BY <2>2, <3>1, <3>2
  <2>. QED
    BY <2>1, <2>2, <2>3, <2>4
<1>7. \A r \in Request : at'[r] = "new" => answer'[r] = "none"
  BY DEF AskedInv
<1>. QED
  BY <1>5, <1>6, <1>7 DEF AskedInv

\* A request joins the queue of events.
LEMMA AskedNext ==
  ASSUME ServerTypes, pending \subseteq Request, AskedInv, NEW r \in Request,
         at[r] = "new", events' = events \o <<Told("request", r)>>,
         pending' = pending, answer' = answer,
         at'[r] = "asking", \A s \in Request : at'[s] # at[s] => s = r \/ at[s] = "open",
         \A s \in Request : at'[s] = "new" => at[s] = "new"
  PROVE  AskedInv'
<1>. DEFINE e == Told("request", r)
<1>1. /\ events \in Seq(Evt) /\ Len(events) \in Nat
      /\ \A i \in 1..Len(events) : events[i].r \in Request
  <2>1. events \in Seq(Evt)
    BY DEF ServerTypes
  <2>2. \A i \in 1..Len(events) : events[i] \in Evt
    BY <2>1
  <2>. QED
    BY <2>1, <2>2 DEF Evt
<1>2. e \in Evt /\ e.kind = "request" /\ e.r = r /\ \A s \in Request : e # Told("expired", s)
  BY DEF Told, Evt
<1>. HIDE DEF e
<1>3. /\ Len(events') = Len(events) + 1
      /\ \A i \in 1..Len(events) : events'[i] = events[i]
      /\ events'[Len(events) + 1] = e
      /\ \A i \in 1..(Len(events) + 1) : i \in 1..Len(events) \/ i = Len(events) + 1
  BY <1>1, <1>2 DEF e
<1>4. r \notin pending /\ \A i \in 1..Len(events) : events[i] # e
  BY <1>2 DEF AskedInv, PendingInv, OnTheWayInv
<1>5. \A s \in Request : Waits(s) => Waits(s)'
  BY DEF Waits
<1>6. \A s \in Request, i \in 1..Len(events) :
        (\E j \in 1..Len(events) : i < j /\ events[j] = Told("expired", s)) =>
          \E j \in 1..Len(events') : i < j /\ events'[j] = Told("expired", s)
  BY <1>1, <1>3
<1>7. PendingInv'
  <2>. SUFFICES ASSUME NEW s \in pending
                PROVE  /\ at'[s] # "new"
                       /\ Waits(s)' \/ \E j \in 1..Len(events') : events'[j] = Told("expired", s)
    BY DEF PendingInv, Told
  <2>1. /\ s \in Request /\ at[s] # "new"
        /\ Waits(s) \/ \E j \in 1..Len(events) : events[j] = Told("expired", s)
    BY DEF AskedInv, PendingInv
  <2>. QED
    BY <1>1, <1>3, <1>5, <2>1
<1>8. OnTheWayInv'
  <2>. SUFFICES ASSUME NEW i \in 1..Len(events'), events'[i].kind = "request"
                PROVE  /\ at'[events'[i].r] # "new" /\ events'[i].r \notin pending
                       /\ Waits(events[i].r)'
                          \/ \E j \in 1..Len(events') :
                               i < j /\ events'[j] = Told("expired", events'[i].r)
                       /\ \A j \in 1..Len(events') : events'[j] = events'[i] => i = j
    BY DEF OnTheWayInv, Told, Waits
  <2>1. CASE i = Len(events) + 1
    BY <1>1, <1>2, <1>3, <1>4, <2>1 DEF AskedInv, Waits
  <2>2. CASE i \in 1..Len(events)
    <3>. DEFINE s == events[i].r
    <3>1. events'[i] = events[i] /\ s \in Request
      BY <1>1, <1>3, <2>2
    <3>2. /\ at[s] # "new" /\ s \notin pending
          /\ Waits(s) \/ \E j \in 1..Len(events) : i < j /\ events[j] = Told("expired", s)
          /\ \A j \in 1..Len(events) : events[j] = events[i] => i = j
      BY <2>2, <3>1 DEF AskedInv, OnTheWayInv
    <3>3. \A j \in 1..Len(events') : events'[j] = events'[i] => i = j
      BY <1>1, <1>3, <1>4, <2>2, <3>1, <3>2
    <3>4. Waits(s)' \/ \E j \in 1..Len(events') : i < j /\ events'[j] = Told("expired", s)
      BY <1>5, <1>6, <2>2, <3>1, <3>2
    <3>. QED
      BY <3>1, <3>2, <3>3, <3>4 DEF Waits
  <2>. QED
    BY <1>3, <2>1, <2>2
<1>9. \A s \in Request : at'[s] = "new" => answer'[s] = "none"
  BY DEF AskedInv
<1>. QED
  BY <1>7, <1>8, <1>9 DEF AskedInv

\* The event task reads an event.
LEMMA AskedRead ==
  ASSUME RequestTypes, AskedInv, In!ReadEvent
  PROVE  AskedInv'
<1>. DEFINE e == Head(events)
<1>1. /\ events \in Seq(Evt) /\ events # <<>> /\ pending \subseteq Request
      /\ \A i \in 1..Len(events) : events[i].r \in Request
  <2>1. events \in Seq(Evt)
    BY DEF RequestTypes, ServerTypes
  <2>2. \A i \in 1..Len(events) : events[i] \in Evt
    BY <2>1
  <2>. QED
    BY <2>1, <2>2 DEF Evt, In!ReadEvent, RequestTypes, PipeTypes
<1>2. /\ events' = Tail(events) /\ at' = at /\ answer' = answer
      /\ pending' = CASE e.kind = "request" -> pending \cup {e.r}
                      [] e.kind = "expired" -> pending \ {e.r}
                      [] OTHER -> pending
  BY DEF In!ReadEvent, In!server
<1>3. /\ Len(events') = Len(events) - 1 /\ Len(events) \in Nat /\ Len(events) > 0
      /\ e = events[1]
      /\ \A i \in 1..(Len(events) - 1) : events'[i] = events[i + 1]
  BY <1>1, <1>2, Behind
<1>. HIDE DEF e
<1>4. \A s \in Request : Waits(s)' = Waits(s)
  BY <1>2 DEF Waits
<1>5. \A s \in Request : \A j \in 1..Len(events) :
        j > 1 /\ events[j] = Told("expired", s) =>
          j - 1 \in 1..Len(events') /\ events'[j - 1] = Told("expired", s)
  BY <1>3
<1>6. PendingInv'
  <2>. SUFFICES ASSUME NEW s \in pending'
                PROVE  /\ at[s] # "new"
                       /\ Waits(s) \/ \E j \in 1..Len(events') : events'[j] = Told("expired", s)
    BY <1>1, <1>2, <1>4 DEF PendingInv, Told, Waits
  <2>1. CASE e.kind = "request" /\ s = e.r
    <3>1. /\ at[s] # "new" /\ s \in Request
          /\ Waits(s) \/ \E j \in 1..Len(events) : 1 < j /\ events[j] = Told("expired", s)
      BY <1>1, <1>3, <2>1 DEF AskedInv, OnTheWayInv
    <3>. QED
      BY <1>3, <1>5, <3>1
  <2>2. CASE s \in pending /\ ~(e.kind = "expired" /\ s = e.r)
    <3>1. /\ s \in Request /\ at[s] # "new"
          /\ Waits(s) \/ \E j \in 1..Len(events) : events[j] = Told("expired", s)
      BY <1>1, <2>2 DEF AskedInv, PendingInv
    <3>2. events[1] # Told("expired", s)
      BY <1>3, <2>2 DEF Told
    <3>. QED
      BY <1>3, <1>5, <3>1, <3>2
  <2>. QED
    BY <1>2, <2>1, <2>2
<1>7. OnTheWayInv'
  <2>. SUFFICES ASSUME NEW i \in 1..Len(events'), events'[i].kind = "request"
                PROVE  /\ at[events'[i].r] # "new" /\ events'[i].r \notin pending'
                       /\ Waits(events'[i].r)
                          \/ \E j \in 1..Len(events') :
                               i < j /\ events'[j] = Told("expired", events'[i].r)
                       /\ \A j \in 1..Len(events') : events'[j] = events'[i] => i = j
    BY <1>2 DEF OnTheWayInv, Told, Waits
  <2>. DEFINE s == events[i + 1].r
  <2>1. /\ i + 1 \in 1..Len(events) /\ events'[i] = events[i + 1] /\ s \in Request
        /\ events[i + 1].kind = "request"
    BY <1>1, <1>3
  <2>2. /\ at[s] # "new" /\ s \notin pending
        /\ Waits(s) \/ \E j \in 1..Len(events) : i + 1 < j /\ events[j] = Told("expired", s)
        /\ \A j \in 1..Len(events) : events[j] = events[i + 1] => i + 1 = j
    BY <2>1 DEF AskedInv, OnTheWayInv
  <2>3. s \notin pending'
    <3>1. ~(e.kind = "request" /\ e.r = s)
      <4>1. e.kind = "request" /\ e.r = s => e = events[i + 1]
        <5>1. events[1] \in Evt /\ events[i + 1] \in Evt
          BY <1>1, <1>3, <2>1
        <5>. QED
          BY <1>3, <2>1, <5>1, SMTT(30) DEF Evt
      <4>. QED
        BY <1>3, <2>1, <2>2, <4>1
    <3>. QED
      BY <1>2, <2>2, <3>1
  <2>4. Waits(s) \/ \E j \in 1..Len(events') : i < j /\ events'[j] = Told("expired", s)
    BY <1>3, <1>5, <2>1, <2>2
  <2>5. \A j \in 1..Len(events') : events'[j] = events'[i] => i = j
    <3>. SUFFICES ASSUME NEW j \in 1..Len(events'), events'[j] = events'[i]
                  PROVE  i = j
      OBVIOUS
    <3>1. j + 1 \in 1..Len(events) /\ events'[j] = events[j + 1]
      BY <1>3
    <3>2. i + 1 = j + 1
      BY <2>1, <2>2, <3>1
    <3>. QED
      BY <1>3, <3>2
  <2>. QED
    BY <2>1, <2>2, <2>3, <2>4, <2>5
<1>. QED
  BY <1>2, <1>6, <1>7 DEF AskedInv

\* No step of the server loses the expiry of a request that is with the helper.
LEMMA AskedServer ==
  ASSUME NEW r \in Request, RequestTypes, AskedInv,
         \/ In!Ask(r) \/ In!GiveUp(r) \/ In!Report(r) \/ In!Leak(r)
         \/ In!LateProgress(r) \/ \E s \in Request : In!Replace(r, s)
         \/ In!Expire(r) \/ In!Hear(r) \/ In!Open(r)
         \/ In!SessionEnds(r)
  PROVE  AskedInv'
<1>0. /\ ServerTypes /\ pending \subseteq Request
      /\ at \in [Request -> InHand \cup {"new", "refused", "gone", "over"}]
  BY DEF RequestTypes, ServerTypes, PipeTypes
<1>1. pending' = pending /\ answer' = answer
  BY DEF In!Ask, In!GiveUp, In!Report, In!LateProgress, In!Replace,
         In!Expire, In!Hear, In!Open, In!SessionEnds, In!Leak, In!Beyond
<1>a. CASE In!Ask(r)
  <2>1. /\ at[r] = "new" /\ at' = [at EXCEPT ![r] = "asking"]
        /\ events' = events \o <<Told("request", r)>>
    BY <1>a DEF In!Ask, In!Goto, In!Sends, In!Is, Told
  <2>2. /\ at'[r] = "asking"
        /\ \A s \in Request : (at'[s] # at[s] => s = r) /\ (at'[s] = "new" => at[s] = "new")
    BY <1>0, <2>1 DEF InHand
  <2>. QED
    BY <1>0, <1>1, <2>1, <2>2, AskedNext
<1>b. CASE \E s \in Request : In!Replace(r, s)
  <2>1. PICK s \in Request :
          /\ at[r] = "new" /\ at[s] = "open" /\ at' = [at EXCEPT ![r] = "asking", ![s] = "gone"]
          /\ events' = events \o <<Told("request", r)>>
    BY <1>b DEF In!Replace, In!Sends, In!Is, Told
  <2>2. /\ at'[r] = "asking"
        /\ \A t \in Request : /\ at'[t] # at[t] => t = r \/ at[t] = "open"
                              /\ at'[t] = "new" => at[t] = "new"
    BY <1>0, <2>1 DEF InHand
  <2>. QED
    BY <1>0, <1>1, <2>1, <2>2, AskedNext
<1>c. CASE In!Expire(r)
  <2>1. /\ at[r] = "asking" /\ at' = [at EXCEPT ![r] = "gone"]
        /\ events' = events \o <<Told("expired", r)>>
    BY <1>c DEF In!Expire, In!Goto, In!Sends, In!Is, Told
  <2>. DEFINE es == <<Told("expired", r)>>
  <2>2. es \in Seq(Evt) /\ Len(es) = 1 /\ es[1] = Told("expired", r) /\ es[1].kind = "expired"
    BY DEF Told, Evt
  <2>3. \A s \in Request : /\ at'[s] = "new" => at[s] = "new" /\ answer'[s] = answer[s]
                           /\ Waits(s) => Waits(s)' \/ s = r
    BY <1>0, <1>1, <2>1 DEF Waits
  <2>4. events' = events \o es
    BY <2>1
  <2>. HIDE DEF es
  <2>5. \A s \in Request : Waits(s) => Waits(s)' \/ \E k \in 1..Len(es) : es[k] = Told("expired", s)
    BY <2>2, <2>3
  <2>6. \A k \in 1..Len(es) : es[k].kind # "request"
    BY <2>2
  <2>. QED
    BY <1>0, <1>1, <2>2, <2>3, <2>4, <2>5, <2>6, AskedAfter
<1>d. CASE \/ In!Hear(r) \/ In!GiveUp(r)
  <2>1. /\ (at[r] = "asking" /\ answer[r] # "none") \/ at[r] = "accepted"
        /\ \E p \in {"accepted", "refused", "gone"} : at' = [at EXCEPT ![r] = p]
        /\ events' = events
    BY <1>d DEF In!Hear, In!GiveUp, In!Goto
  <2>2. <<>> \in Seq(Evt) /\ events' = events \o <<>> /\ Len(<<>>) = 0
    BY <1>0, <2>1 DEF ServerTypes
  <2>3. \A s \in Request : /\ at'[s] = "new" => at[s] = "new" /\ answer'[s] = answer[s]
                           /\ Waits(s) => Waits(s)'
    BY <1>0, <1>1, <2>1 DEF Waits
  <2>4. \A k \in 1..Len(<<>>) : <<>>[k].kind # "request"
    BY <2>2
  <2>. QED
    BY <1>0, <1>1, <2>2, <2>3, <2>4, AskedAfter
<1>e. CASE \/ In!Report(r) \/ In!LateProgress(r)
           \/ In!Open(r) \/ In!SessionEnds(r) \/ In!Leak(r)
  <2>1. /\ at[r] \in {"open", "stuck", "over", "accepted"}
        /\ at' = at \/ \E p \in {"open", "stuck", "over"} : at' = [at EXCEPT ![r] = p]
        /\ \/ events' = events
           \/ \E k \in {"progress", "file", "cancelled", "failed"} : events' = events \o <<Told(k, r)>>
           \/ \E k \in {"text", "file"} : events' = events \o <<Told(k, r), Told("done", r)>>
    BY <1>e DEF In!Report, In!LateProgress, In!Open, In!SessionEnds, In!Sessions, In!Leak,
                In!Ends, In!Goto, In!Sends, In!Is, Told
  <2>2. PICK es \in Seq(Evt) :
          events' = events \o es /\ \A k \in 1..Len(es) : es[k].kind # "request"
    <3>1. CASE events' = events
      <4>1. <<>> \in Seq(Evt) /\ events' = events \o <<>> /\ Len(<<>>) = 0
        BY <1>0, <3>1 DEF ServerTypes
      <4>2. \A k \in 1..Len(<<>>) : <<>>[k].kind # "request"
        BY <4>1
      <4>. QED
        BY <4>1, <4>2
    <3>2. ASSUME NEW k \in {"progress", "file", "cancelled", "failed"},
                 events' = events \o <<Told(k, r)>>
          PROVE  \E es \in Seq(Evt) :
                   events' = events \o es /\ \A i \in 1..Len(es) : es[i].kind # "request"
      <4>1. Told(k, r) \in Evt /\ Told(k, r).kind # "request"
        BY DEF Told, Evt
      <4>2. <<Told(k, r)>> \in Seq(Evt) /\ \A i \in 1..Len(<<Told(k, r)>>) : <<Told(k, r)>>[i].kind # "request"
        BY <4>1
      <4>. QED
        BY <3>2, <4>2
    <3>3. ASSUME NEW k \in {"text", "file"}, events' = events \o <<Told(k, r), Told("done", r)>>
          PROVE  \E es \in Seq(Evt) :
                   events' = events \o es /\ \A i \in 1..Len(es) : es[i].kind # "request"
      <4>1. /\ Told(k, r) \in Evt /\ Told(k, r).kind # "request"
            /\ Told("done", r) \in Evt /\ Told("done", r).kind # "request"
        BY DEF Told, Evt
      <4>. DEFINE es == <<Told(k, r), Told("done", r)>>
      <4>2. es \in Seq(Evt) /\ Len(es) = 2 /\ es[1].kind # "request" /\ es[2].kind # "request"
        BY <4>1
      <4>3. events' = events \o es
        BY <3>3
      <4>. HIDE DEF es
      <4>4. \A i \in 1..Len(es) : es[i].kind # "request"
        BY <4>2
      <4>. QED
        BY <4>2, <4>3, <4>4
    <3>. QED
      BY <2>1, <3>1, <3>2, <3>3
  <2>3. \A s \in Request : /\ at'[s] = "new" => at[s] = "new" /\ answer'[s] = answer[s]
                           /\ Waits(s) => Waits(s)'
    BY <1>0, <1>1, <2>1 DEF Waits
  <2>. QED
    BY <1>0, <1>1, <2>2, <2>3, AskedAfter
<1>. QED
  BY <1>a, <1>b, <1>c, <1>d, <1>e

\* Nor does the command loop.
LEMMA AskedHelper ==
  ASSUME NEW r \in Request, RequestTypes, AskedInv,
         \/ In!Answer(r, "accept") \/ In!Answer(r, "decline")
         \/ In!CancelIncoming(r)
  PROVE  AskedInv'
<1>0. /\ ServerTypes /\ pending \subseteq Request
      /\ at \in [Request -> InHand \cup {"new", "refused", "gone", "over"}]
      /\ answer \in [Request -> {"none", "accept", "decline"}]
      /\ <<>> \in Seq(Evt) /\ events = events \o <<>> /\ Len(<<>>) = 0
  BY DEF RequestTypes, ServerTypes, PipeTypes
<1>1. \A k \in 1..Len(<<>>) : <<>>[k].kind # "request"
  BY <1>0
<1>2. CASE In!Answer(r, "accept") \/ In!Answer(r, "decline")
  <2>1. /\ pending' = pending \ {r} /\ at' = at /\ events' = events
        /\ \/ answer' = answer
           \/ /\ r \in pending /\ at[r] = "asking"
              /\ \E d \in {"accept", "decline"} : answer' = [answer EXCEPT ![r] = d]
    BY <1>2 DEF In!Answer, In!Alive
  <2>2. \A s \in Request : /\ at'[s] = "new" => at[s] = "new" /\ answer'[s] = answer[s]
                           /\ Waits(s) /\ (s \in pending => s \in pending') => Waits(s)'
    BY <1>0, <2>1 DEF Waits
  <2>3. events' = events \o <<>> /\ pending' \subseteq pending
    BY <1>0, <2>1
  <2>. QED
    BY <1>0, <1>1, <2>2, <2>3, AskedAfter
<1>3. CASE In!CancelIncoming(r)
  <2>1. /\ pending' = pending /\ answer' = answer
        /\ \/ /\ at[r] \in {"open", "stuck"} /\ at' = [at EXCEPT ![r] = "over"]
              /\ events' = events \o <<Told("cancelled", r)>>
           \/ at' = at /\ events' = events \o <<>>
    BY <1>0, <1>3 DEF In!CancelIncoming, In!Sessions, In!Ends, In!Goto, In!Sends,
                      In!Is, Told
  <2>2. \A s \in Request : /\ at'[s] = "new" => at[s] = "new" /\ answer'[s] = answer[s]
                           /\ Waits(s) => Waits(s)'
    BY <1>0, <2>1 DEF Waits
  <2>3. Told("cancelled", r) \in Evt /\ Told("cancelled", r).kind # "request"
    BY DEF Told, Evt
  <2>4. /\ <<Told("cancelled", r)>> \in Seq(Evt)
        /\ \A i \in 1..Len(<<Told("cancelled", r)>>) : <<Told("cancelled", r)>>[i].kind # "request"
    BY <2>3
  <2>5. CASE events' = events \o <<>>
    BY <1>0, <1>1, <2>1, <2>2, <2>5, AskedAfter
  <2>6. CASE events' = events \o <<Told("cancelled", r)>>
    BY <1>0, <2>1, <2>2, <2>4, <2>6, AskedAfter
  <2>. QED
    BY <2>1, <2>5, <2>6
<1>. QED
  BY <1>2, <1>3

\* So the types, and the requests the helper keeps, are as they should be after any step,
\* of patient senders and users or not.
LEMMA RequestStep ==
  ASSUME RequestTypes, AskedInv, NoRequest \notin Request,
         In!Next
  PROVE  RequestTypes' /\ AskedInv'
<1>1. CASE In!Sender \/ In!Handler
  <2>1. PICK r \in Request :
         \/ In!Ask(r) \/ In!GiveUp(r) \/ In!Report(r) \/ In!Leak(r)
         \/ In!LateProgress(r) \/ \E s \in Request : In!Replace(r, s)
         \/ In!Expire(r) \/ In!Hear(r) \/ In!Open(r)
         \/ In!SessionEnds(r)
    BY <1>1 DEF In!Sender, In!Handler
  <2>2. ServerTypes
    BY DEF RequestTypes
  <2>3. AskedInv'
    BY <2>1, AskedServer
  <2>4. ServerTypes'
    BY <2>1, <2>2, ServerKeeps
  <2>5. UNCHANGED <<pending, reply, out, commands, incomingQueue, viewState, activeIncomingSession,
                    lastEndedIncomingSession, incomingText, incomingTextPending, pendingOutgoing>>
    BY <2>1 DEF In!Ask, In!GiveUp, In!Report, In!LateProgress, In!Replace,
       In!Expire, In!Hear, In!Open, In!SessionEnds, In!Leak, In!Beyond,
       In!panel
  <2>. QED
    BY <2>3, <2>4, <2>5 DEF RequestTypes, PipeTypes, PanelTypes
<1>2. CASE In!ReadEvent \/ In!CommandLoop
  <2>1. ServerTypes' /\ PipeTypes'
    BY <1>2, HelperKeeps DEF In!CommandLoop
  <2>2. PanelTypes'
    <3>1. UNCHANGED <<incomingQueue, viewState, activeIncomingSession,
                    lastEndedIncomingSession, incomingText, incomingTextPending, pendingOutgoing>>
      BY <1>2 DEF In!ReadEvent, In!CommandLoop, In!Reply, In!Answer,
                  In!CancelIncoming, In!panel
    <3>. QED
      BY <3>1 DEF RequestTypes, PanelTypes
  <2>3. AskedInv'
    <3>1. CASE In!Reply
      BY <3>1 DEF In!Reply, In!server, AskedInv, PendingInv, OnTheWayInv, Waits
    <3>. QED
      BY <1>2, <3>1, AskedRead, AskedHelper DEF In!CommandLoop
  <2>. QED
    BY <2>1, <2>2, <2>3 DEF RequestTypes
<1>3. CASE \/ In!User \/ In!OutgoingMoves
           \/ In!finishOutgoing \/ In!PanelReads
  <2>1. RequestTypes'
    BY <1>3, UserKeeps, PanelKeeps
  <2>2. UNCHANGED <<at, answer, events, pending>>
    BY <1>3 DEF In!User, In!acceptIncoming, In!declineIncoming,
       In!cancelIncoming, In!Dismiss, In!beginOutgoing, In!OutgoingMoves,
       In!finishOutgoing, In!PanelReads, In!IncomingRequest, In!IncomingText,
       In!IncomingAnswered, In!IncomingExpired, In!IncomingProgress,
       In!IncomingEnds, In!Read, In!helper, In!server
  <2>. QED
    BY <2>1, <2>2 DEF AskedInv, PendingInv, OnTheWayInv, Waits
<1>. QED
  BY <1>1, <1>2, <1>3 DEF In!Next

LEMMA RequestsBegin ==
  ASSUME NoRequest \notin Request, HelperInit
  PROVE  RequestTypes /\ AskedInv
<1>1. /\ at = [r \in Request |-> "new"] /\ answer = [r \in Request |-> "none"]
      /\ events = <<>> /\ pending = {} /\ reply = <<>> /\ out = <<>> /\ commands = <<>>
      /\ incomingQueue = <<>> /\ viewState = "nearby"
      /\ activeIncomingSession = NoRequest /\ lastEndedIncomingSession = NoRequest
      /\ incomingText = NoRequest /\ incomingTextPending = FALSE
      /\ pendingOutgoing = FALSE
  BY DEF HelperInit, In!Init
<1>2. \A S : <<>> \in Seq(S)
  OBVIOUS
<1>3. Len(<<>>) = 0 /\ 1..0 = {}
  OBVIOUS
<1>4. ServerTypes
  BY <1>1, <1>2 DEF ServerTypes, InHand
<1>5. PipeTypes
  BY <1>1, <1>2 DEF PipeTypes
<1>6. PanelTypes
  BY <1>1, <1>2, <1>3 DEF PanelTypes, IsQueue
<1>. QED
  BY <1>1, <1>3, <1>4, <1>5, <1>6 DEF RequestTypes, AskedInv, PendingInv, OnTheWayInv

LEMMA RequestsAlways == HelperSpec => [](RequestTypes /\ AskedInv)
<1>0. NoRequest \notin Request
  BY InstancesAssumption DEF In!RequestsOK
<1>1. HelperInit => RequestTypes /\ AskedInv
  BY <1>0, RequestsBegin
<1>2. RequestTypes /\ AskedInv /\ [HelperNext]_helper_vars => (RequestTypes /\ AskedInv)'
  <2>. SUFFICES ASSUME RequestTypes, AskedInv, [HelperNext]_helper_vars
                PROVE  RequestTypes' /\ AskedInv'
    OBVIOUS
  <2>1. In!Next \/ UNCHANGED requests
    BY DEF HelperNext, helper_vars
  <2>2. CASE UNCHANGED requests
    BY <2>2 DEF requests, RequestTypes, ServerTypes, PipeTypes, PanelTypes, AskedInv, PendingInv,
                OnTheWayInv, Waits
  <2>. QED
    BY <1>0, <2>1, <2>2, RequestStep
<1>. QED
  BY <1>1, <1>2, PTL DEF HelperSpec

-----------------------------------------------------------------------------
(* The session the panel finished last *)

Terminal(e) == e.kind \in {"done", "cancelled", "failed"}
\* No file of r is told in s.
NoFile(s, r) == \A i \in 1..Len(s) : s[i] # Told("file", r)
\* No file of a session is told behind its end.
EndsLast(s) ==
  \A i, j \in 1..Len(s) : i < j /\ Terminal(s[i]) => s[j] # Told("file", s[i].r)

\* A session whose end was told, or that the panel finished, is over, and no file of it
\* comes behind its end.
OverInv ==
  /\ \A i \in 1..Len(events) : Terminal(events[i]) => at[events[i].r] = "over"
  /\ \A i \in 1..Len(out) : Terminal(out[i]) => at[out[i].r] = "over"
  /\ EndsLast(events) /\ EndsLast(out)
  /\ \A i \in 1..Len(out) : Terminal(out[i]) => NoFile(events, out[i].r)
FinishedInv ==
  /\ lastEndedIncomingSession # NoRequest =>
       /\ at[lastEndedIncomingSession] = "over"
       /\ NoFile(events, lastEndedIncomingSession) /\ NoFile(out, lastEndedIncomingSession)
  /\ activeIncomingSession # NoRequest => activeIncomingSession # lastEndedIncomingSession
  /\ reply # <<>> => Len(reply) = 1 /\ reply[1].kind \in {"expired", "accepted", "declined"}
LastInv == OverInv /\ FinishedInv

\* The server tells es; what is over stays over, and of what is over no file is told.
LEMMA LastGrows ==
  ASSUME RequestTypes, LastInv, NEW es \in Seq(Evt), events' = events \o es,
         UNCHANGED <<out, activeIncomingSession, lastEndedIncomingSession>>,
         reply' = reply \/ \E k \in {"expired", "accepted", "declined"}, r \in Request :
                             reply' = <<Told(k, r)>>,
         \A r \in Request : at[r] = "over" => at'[r] = "over",
         \A i \in 1..Len(es) : Terminal(es[i]) => at'[es[i].r] = "over",
         \A i \in 1..Len(es) : es[i].kind = "file" => at[es[i].r] # "over",
         EndsLast(es)
  PROVE  LastInv'
<1>1. events \in Seq(Evt) /\ out \in Seq(Evt)
  BY DEF RequestTypes, ServerTypes, PipeTypes
<1>2. /\ \A i \in 1..Len(events) : events[i] \in Evt /\ events[i].r \in Request
      /\ \A i \in 1..Len(out) : out[i] \in Evt /\ out[i].r \in Request
      /\ \A i \in 1..Len(es) : es[i] \in Evt /\ es[i].r \in Request
      /\ Len(events) \in Nat /\ Len(es) \in Nat
  <2>1. /\ \A i \in 1..Len(events) : events[i] \in Evt
        /\ \A i \in 1..Len(out) : out[i] \in Evt
        /\ \A i \in 1..Len(es) : es[i] \in Evt
        /\ Len(events) \in Nat /\ Len(es) \in Nat
    BY <1>1
  <2>. QED
    BY <2>1 DEF Evt
<1>3. /\ Len(events') = Len(events) + Len(es)
      /\ \A i \in 1..Len(events) : events'[i] = events[i]
      /\ \A i \in 1..Len(es) : events'[Len(events) + i] = es[i]
      /\ \A i \in 1..Len(events') : i \in 1..Len(events) \/ i - Len(events) \in 1..Len(es)
  BY <1>1, Joined
<1>4. \A r \in Request : at[r] = "over" => NoFile(es, r)
  BY <1>2 DEF NoFile, Told
<1>5. \A r \in Request : NoFile(events, r) /\ NoFile(es, r) => NoFile(events', r)
  <2>. SUFFICES ASSUME NEW r \in Request, NoFile(events, r), NoFile(es, r),
                       NEW i \in 1..Len(events')
                PROVE  events'[i] # Told("file", r)
    BY DEF NoFile, Told
  <2>1. CASE i \in 1..Len(events)
    BY <1>3, <2>1 DEF NoFile
  <2>2. CASE i - Len(events) \in 1..Len(es)
    <3>1. events'[i] = es[i - Len(events)]
      BY <1>2, <1>3, <2>2
    <3>. QED
      BY <2>2, <3>1 DEF NoFile
  <2>. QED
    BY <1>3, <2>1, <2>2
<1>6. \A i \in 1..Len(events') : Terminal(events'[i]) => at'[events'[i].r] = "over"
  <2>. SUFFICES ASSUME NEW i \in 1..Len(events'), Terminal(events'[i])
                PROVE  at'[events'[i].r] = "over"
    OBVIOUS
  <2>1. CASE i \in 1..Len(events)
    BY <1>2, <1>3, <2>1 DEF LastInv, OverInv
  <2>2. CASE i - Len(events) \in 1..Len(es)
    <3>1. events'[i] = es[i - Len(events)]
      BY <1>2, <1>3, <2>2
    <3>. QED
      BY <2>2, <3>1
  <2>. QED
    BY <1>3, <2>1, <2>2
<1>7. EndsLast(events')
  <2>. SUFFICES ASSUME NEW i \in 1..Len(events'), NEW j \in 1..Len(events'), i < j,
                       Terminal(events'[i])
                PROVE  events'[j] # Told("file", events'[i].r)
    BY DEF EndsLast
  <2>1. CASE j \in 1..Len(events)
    <3>1. i \in 1..Len(events)
      BY <1>2, <2>1
    <3>. QED
      BY <1>3, <2>1, <3>1 DEF EndsLast, LastInv, OverInv
  <2>2. CASE j - Len(events) \in 1..Len(es) /\ i \in 1..Len(events)
    <3>1. events'[i] = events[i] /\ events'[j] = es[j - Len(events)]
      BY <1>2, <1>3, <2>2
    <3>2. at[events[i].r] = "over" /\ events[i].r \in Request
      BY <1>2, <2>2, <3>1 DEF LastInv, OverInv
    <3>. QED
      BY <1>4, <2>2, <3>1, <3>2 DEF NoFile
  <2>3. CASE j - Len(events) \in 1..Len(es) /\ i - Len(events) \in 1..Len(es)
    <3>1. events'[i] = es[i - Len(events)] /\ events'[j] = es[j - Len(events)]
      BY <1>2, <1>3, <2>3
    <3>2. i - Len(events) < j - Len(events)
      BY <1>2, <2>3
    <3>. QED
      BY <2>3, <3>1, <3>2 DEF EndsLast
  <2>. QED
    BY <1>3, <2>1, <2>2, <2>3
<1>8. \A i \in 1..Len(out') : Terminal(out'[i]) => at'[out'[i].r] = "over" /\ NoFile(events', out'[i].r)
  BY <1>2, <1>4, <1>5 DEF LastInv, OverInv
<1>9. OverInv'
  <2>1. EndsLast(out) /\ out' = out
    BY DEF LastInv, OverInv
  <2>2. EndsLast(out)'
    BY <2>1 DEF EndsLast, Terminal, Told
  <2>. QED
    BY <1>6, <1>7, <1>8, <2>2 DEF OverInv, EndsLast, NoFile, Terminal, Told
<1>10. FinishedInv'
  <2>. DEFINE l == lastEndedIncomingSession
  <2>1. l # NoRequest => l \in Request /\ at[l] = "over" /\ NoFile(events, l) /\ NoFile(out, l)
    BY DEF LastInv, FinishedInv, RequestTypes, PanelTypes
  <2>2. l # NoRequest => at'[l] = "over" /\ NoFile(events', l) /\ NoFile(out, l)
    BY <1>4, <1>5, <2>1
  <2>3. reply' # <<>> => Len(reply') = 1 /\ reply'[1].kind \in {"expired", "accepted", "declined"}
    <3>1. CASE reply' = reply
      BY <3>1 DEF LastInv, FinishedInv
    <3>2. ASSUME NEW k \in {"expired", "accepted", "declined"}, NEW r \in Request,
                 reply' = <<Told(k, r)>>
          PROVE  Len(reply') = 1 /\ reply'[1].kind \in {"expired", "accepted", "declined"}
      BY <3>2 DEF Told
    <3>. QED
      BY <3>1, <3>2
  <2>4. activeIncomingSession # NoRequest => activeIncomingSession # l
    BY DEF LastInv, FinishedInv
  <2>. QED
    BY <2>2, <2>3, <2>4 DEF FinishedInv, NoFile, Told
<1>. QED
  BY <1>9, <1>10 DEF LastInv

\* It tells nothing, one event or two.
LEMMA LastTells ==
  ASSUME RequestTypes, LastInv, NEW r \in Request,
         UNCHANGED <<out, reply, activeIncomingSession, lastEndedIncomingSession>>,
         \A s \in Request : at[s] = "over" => at'[s] = "over",
         \/ events' = events
         \/ \E k \in {"request", "expired", "progress"} : events' = events \o <<Told(k, r)>>
         \/ at[r] # "over" /\ events' = events \o <<Told("file", r)>>
         \/ /\ at'[r] = "over"
            /\ \E k \in {"cancelled", "failed"} : events' = events \o <<Told(k, r)>>
         \/ /\ at[r] # "over" /\ at'[r] = "over"
            /\ \E k \in {"text", "file"} : events' = events \o <<Told(k, r), Told("done", r)>>
  PROVE  LastInv'
<1>1. CASE events' = events
  <2>1. events' = events \o <<>> /\ <<>> \in Seq(Evt) /\ Len(<<>>) = 0
    BY <1>1 DEF RequestTypes, ServerTypes
  <2>2. EndsLast(<<>>)
    BY <2>1 DEF EndsLast
  <2>3. \A i \in 1..Len(<<>>) : i \notin 1..Len(<<>>)
    BY <2>1
  <2>. QED
    BY <2>1, <2>2, <2>3, LastGrows
<1>2. ASSUME NEW k \in {"request", "expired", "progress", "file", "cancelled", "failed"},
             events' = events \o <<Told(k, r)>>,
             k \in {"cancelled", "failed"} => at'[r] = "over", k = "file" => at[r] # "over"
      PROVE  LastInv'
  <2>. DEFINE es == <<Told(k, r)>>
  <2>1. /\ es \in Seq(Evt) /\ Len(es) = 1 /\ es[1] = Told(k, r) /\ es[1].kind = k /\ es[1].r = r
        /\ events' = events \o es
    BY <1>2 DEF Told, Evt
  <2>. HIDE DEF es
  <2>2. EndsLast(es)
    BY <2>1 DEF EndsLast
  <2>3. \A i \in 1..Len(es) : Terminal(es[i]) => at'[es[i].r] = "over"
    BY <1>2, <2>1 DEF Terminal
  <2>4. \A i \in 1..Len(es) : es[i].kind = "file" => at[es[i].r] # "over"
    BY <1>2, <2>1
  <2>. QED
    BY <2>1, <2>2, <2>3, <2>4, LastGrows
<1>3. ASSUME NEW k \in {"text", "file"}, events' = events \o <<Told(k, r), Told("done", r)>>,
             at[r] # "over", at'[r] = "over"
      PROVE  LastInv'
  <2>. DEFINE es == <<Told(k, r), Told("done", r)>>
  <2>1. /\ es \in Seq(Evt) /\ Len(es) = 2 /\ es[1].kind = k /\ es[2].kind = "done"
        /\ es[1].r = r /\ es[2].r = r /\ es[2] # Told("file", r) /\ events' = events \o es
    BY <1>3 DEF Told, Evt
  <2>. HIDE DEF es
  <2>2. EndsLast(es)
    <3>. SUFFICES ASSUME NEW i \in 1..Len(es), NEW j \in 1..Len(es), i < j
                  PROVE  es[j] # Told("file", es[i].r)
      BY DEF EndsLast
    <3>1. i = 1 /\ j = 2
      BY <2>1
    <3>. QED
      BY <2>1, <3>1
  <2>3. \A i \in 1..Len(es) : es[i].r = r
    BY <2>1
  <2>. QED
    BY <1>3, <2>1, <2>2, <2>3, LastGrows
<1>. QED
  BY <1>1, <1>2, <1>3

LEMMA LastServer ==
  ASSUME NEW r \in Request, RequestTypes, LastInv,
         \/ In!Ask(r) \/ In!GiveUp(r) \/ In!Report(r) \/ In!Leak(r)
         \/ In!LateProgress(r) \/ \E s \in Request : In!Replace(r, s)
         \/ In!Expire(r) \/ In!Hear(r) \/ In!Open(r)
         \/ In!SessionEnds(r)
  PROVE  LastInv'
<1>1. at \in [Request -> InHand \cup {"new", "refused", "gone", "over"}]
  BY DEF RequestTypes, ServerTypes
<1>2. UNCHANGED <<out, reply, activeIncomingSession, lastEndedIncomingSession>>
  BY DEF In!Ask, In!GiveUp, In!Report, In!LateProgress, In!Replace, In!Expire, In!Hear, In!Open,
         In!SessionEnds, In!Leak, In!Beyond, In!panel
<1>3. CASE In!Ask(r) \/ In!Expire(r) \/ In!LateProgress(r)
  <2>1. /\ \/ at[r] \in {"new", "asking"} /\ \E p \in {"asking", "gone"} : at' = [at EXCEPT ![r] = p]
           \/ at' = at
        /\ \E k \in {"request", "expired", "progress"} : events' = events \o <<Told(k, r)>>
    BY <1>3 DEF In!Ask, In!Expire, In!LateProgress, In!Goto, In!Sends, In!Is, Told
  <2>2. \A s \in Request : at[s] = "over" => at'[s] = "over"
    BY <1>1, <2>1
  <2>. QED
    BY <1>2, <2>1, <2>2, LastTells
<1>4. CASE \E s \in Request : In!Replace(r, s)
  <2>1. PICK s \in Request :
          /\ at[r] = "new" /\ at[s] = "open" /\ at' = [at EXCEPT ![r] = "asking", ![s] = "gone"]
          /\ events' = events \o <<Told("request", r)>>
    BY <1>4 DEF In!Replace, In!Sends, In!Is, Told
  <2>2. \A t \in Request : at[t] = "over" => at'[t] = "over"
    BY <1>1, <2>1
  <2>. QED
    BY <1>2, <2>1, <2>2, LastTells
<1>5. CASE In!GiveUp(r) \/ In!Hear(r) \/ In!Leak(r)
  <2>1. /\ at[r] # "over" /\ events' = events
        /\ \E p \in {"gone", "accepted", "refused", "stuck"} : at' = [at EXCEPT ![r] = p]
    BY <1>5 DEF In!GiveUp, In!Hear, In!Leak, In!Goto
  <2>2. \A s \in Request : at[s] = "over" => at'[s] = "over"
    BY <1>1, <2>1
  <2>. QED
    BY <1>2, <2>1, <2>2, LastTells
<1>6. CASE In!Report(r)
  <2>1. /\ at[r] # "over" /\ at' = at
        /\ \/ events' = events \o <<Told("progress", r)>>
           \/ events' = events \o <<Told("file", r)>>
    BY <1>6 DEF In!Report, In!Sessions, In!Sends, In!Is, Told
  <2>. QED
    BY <1>2, <2>1, LastTells
<1>7. CASE In!Open(r)
  <2>1. /\ at[r] = "accepted"
        /\ \/ at' = [at EXCEPT ![r] = "over"]
              /\ events' = events \o <<Told("text", r), Told("done", r)>>
           \/ at' = [at EXCEPT ![r] = "open"] /\ events' = events
    BY <1>7 DEF In!Open, In!Ends, In!Goto, In!Sends, In!Is, Told
  <2>2. \A s \in Request : at[s] = "over" => at'[s] = "over"
    BY <1>1, <2>1
  <2>3. CASE events' = events
    BY <1>2, <2>2, <2>3, LastTells
  <2>4. CASE at' = [at EXCEPT ![r] = "over"]
             /\ events' = events \o <<Told("text", r), Told("done", r)>>
    <3>1. at'[r] = "over" /\ at[r] # "over"
      BY <1>1, <2>1, <2>4
    <3>. QED
      BY <1>2, <2>2, <2>4, <3>1, LastTells
  <2>. QED
    BY <2>1, <2>3, <2>4
<1>8. CASE In!SessionEnds(r)
  <2>1. /\ at[r] # "over" /\ at' = [at EXCEPT ![r] = "over"]
        /\ \/ events' = events \o <<Told("file", r), Told("done", r)>>
           \/ \E k \in {"cancelled", "failed"} : events' = events \o <<Told(k, r)>>
    BY <1>8 DEF In!SessionEnds, In!Sessions, In!Ends, In!Goto, In!Sends, In!Is, Told
  <2>2. at'[r] = "over" /\ \A s \in Request : at[s] = "over" => at'[s] = "over"
    BY <1>1, <2>1
  <2>. QED
    BY <1>2, <2>1, <2>2, LastTells
<1>. QED
  BY <1>3, <1>4, <1>5, <1>6, <1>7, <1>8

\* The command loop answers, or ends a session.
LEMMA LastLoop ==
  ASSUME NEW r \in Request, RequestTypes, LastInv,
         \/ In!Answer(r, "accept") \/ In!Answer(r, "decline") \/ In!CancelIncoming(r)
  PROVE  LastInv'
<1>1. /\ at \in [Request -> InHand \cup {"new", "refused", "gone", "over"}]
      /\ <<>> \in Seq(Evt) /\ events = events \o <<>> /\ Len(<<>>) = 0
  BY DEF RequestTypes, ServerTypes
<1>2. UNCHANGED <<out, activeIncomingSession, lastEndedIncomingSession>>
  BY DEF In!Answer, In!CancelIncoming, In!panel
<1>3. CASE In!Answer(r, "accept") \/ In!Answer(r, "decline")
  <2>1. /\ at' = at /\ events' = events
        /\ \E k \in {"expired", "accepted", "declined"} : reply' = <<Told(k, r)>>
    BY <1>3 DEF In!Answer, In!Is, Told
  <2>2. EndsLast(<<>>) /\ \A i \in 1..Len(<<>>) : i \notin 1..Len(<<>>)
    BY <1>1 DEF EndsLast
  <2>3. events' = events \o <<>>
    BY <1>1, <2>1
  <2>. QED
    BY <1>1, <1>2, <2>1, <2>2, <2>3, LastGrows
<1>4. CASE In!CancelIncoming(r)
  <2>1. /\ reply' = reply
        /\ \/ /\ at[r] # "over" /\ at' = [at EXCEPT ![r] = "over"]
              /\ events' = events \o <<Told("cancelled", r)>>
           \/ UNCHANGED <<at, events>>
    BY <1>4 DEF In!CancelIncoming, In!Sessions, In!Ends, In!Goto, In!Sends, In!Is, Told
  <2>2. CASE UNCHANGED <<at, events>>
    BY <1>2, <2>1, <2>2, LastTells
  <2>3. CASE /\ at' = [at EXCEPT ![r] = "over"]
             /\ events' = events \o <<Told("cancelled", r)>>
    <3>1. at'[r] = "over" /\ \A s \in Request : at[s] = "over" => at'[s] = "over"
      BY <1>1, <2>3
    <3>. QED
      BY <1>2, <2>1, <2>3, <3>1, LastTells
  <2>. QED
    BY <2>1, <2>2, <2>3
<1>. QED
  BY <1>3, <1>4

\* The event task reads what the server told first.
LEMMA LastRead ==
  ASSUME RequestTypes, LastInv, In!ReadEvent
  PROVE  LastInv'
<1>. DEFINE e == events[1]
<1>1. events \in Seq(Evt) /\ out \in Seq(Evt) /\ events # <<>>
  BY DEF RequestTypes, ServerTypes, PipeTypes, In!ReadEvent
<1>2. /\ events' = Tail(events) /\ out' = Append(out, e) /\ at' = at /\ reply' = reply
      /\ UNCHANGED <<activeIncomingSession, lastEndedIncomingSession>>
  BY <1>1, Behind DEF In!ReadEvent, In!server, In!panel
<1>3. /\ Len(events') = Len(events) - 1 /\ Len(events) \in Nat /\ Len(events) > 0
      /\ \A i \in 1..Len(events') : i + 1 \in 1..Len(events) /\ events'[i] = events[i + 1]
  BY <1>1, <1>2, Behind
<1>4. e \in Evt /\ e.r \in Request /\ 1 \in 1..Len(events)
  <2>1. 1 \in 1..Len(events)
    BY <1>3
  <2>2. events[1] \in Evt
    BY <1>1, <2>1
  <2>. QED
    BY <2>1, <2>2 DEF Evt
<1>. HIDE DEF e
<1>5. /\ Len(out') = Len(out) + 1 /\ Len(out) \in Nat /\ out'[Len(out) + 1] = e
      /\ \A i \in 1..Len(out) : out'[i] = out[i]
      /\ \A i \in 1..Len(out') : i \in 1..Len(out) \/ i = Len(out) + 1
  BY <1>1, <1>2
<1>6. \A r \in Request : NoFile(events, r) => NoFile(events', r) /\ e # Told("file", r)
  BY <1>3, <1>4 DEF NoFile, e
<1>7. Terminal(e) => at[e.r] = "over" /\ NoFile(events', e.r)
  BY <1>3, <1>4 DEF NoFile, e, LastInv, OverInv, EndsLast
<1>8. \A i \in 1..Len(events') : Terminal(events'[i]) => at[events'[i].r] = "over"
  BY <1>3 DEF LastInv, OverInv
<1>9. EndsLast(events')
  <2>. SUFFICES ASSUME NEW i \in 1..Len(events'), NEW j \in 1..Len(events'), i < j,
                       Terminal(events'[i])
                PROVE  events'[j] # Told("file", events'[i].r)
    BY DEF EndsLast
  <2>1. i + 1 \in 1..Len(events) /\ j + 1 \in 1..Len(events) /\ i + 1 < j + 1
    BY <1>3
  <2>. QED
    BY <1>3, <2>1 DEF LastInv, OverInv, EndsLast
<1>10. \A i \in 1..Len(out) : out[i].r \in Request
  <2>1. \A i \in 1..Len(out) : out[i] \in Evt
    BY <1>1
  <2>. QED
    BY <2>1 DEF Evt
<1>11. \A i \in 1..Len(out') : Terminal(out'[i]) => at[out'[i].r] = "over" /\ NoFile(events', out'[i].r)
  BY <1>5, <1>6, <1>7, <1>10 DEF LastInv, OverInv
<1>12. EndsLast(out')
  <2>. SUFFICES ASSUME NEW i \in 1..Len(out'), NEW j \in 1..Len(out'), i < j, Terminal(out'[i])
                PROVE  out'[j] # Told("file", out'[i].r)
    BY DEF EndsLast
  <2>1. i \in 1..Len(out) /\ out'[i] = out[i]
    BY <1>5
  <2>2. CASE j \in 1..Len(out)
    BY <1>5, <2>1, <2>2 DEF LastInv, OverInv, EndsLast
  <2>3. CASE j = Len(out) + 1
    BY <1>5, <1>6, <1>10, <2>1, <2>3 DEF LastInv, OverInv
  <2>. QED
    BY <1>5, <2>2, <2>3
<1>13. OverInv'
  BY <1>2, <1>8, <1>9, <1>11, <1>12 DEF OverInv, EndsLast, NoFile, Terminal, Told
<1>14. FinishedInv'
  <2>. DEFINE l == lastEndedIncomingSession
  <2>1. l # NoRequest => l \in Request /\ at[l] = "over" /\ NoFile(events, l) /\ NoFile(out, l)
    BY DEF LastInv, FinishedInv, RequestTypes, PanelTypes
  <2>2. l # NoRequest => NoFile(events', l) /\ NoFile(out', l)
    <3>. SUFFICES ASSUME l # NoRequest, NEW i \in 1..Len(out')
                  PROVE  out'[i] # Told("file", l)
      BY <1>6, <2>1 DEF NoFile, Told
    <3>. QED
      BY <1>5, <1>6, <2>1 DEF NoFile
  <2>. QED
    BY <1>2, <2>1, <2>2 DEF FinishedInv, LastInv, NoFile, Told
<1>. QED
  BY <1>13, <1>14 DEF LastInv

\* A reply is neither a file nor an end.
LEMMA LastReply ==
  ASSUME RequestTypes, LastInv, In!Reply
  PROVE  LastInv'
<1>. DEFINE e == reply[1]
<1>1. events \in Seq(Evt) /\ out \in Seq(Evt) /\ reply \in Seq(Evt)
  BY DEF RequestTypes, ServerTypes, PipeTypes
<1>2. /\ reply # <<>> /\ out' = out \o reply /\ reply' = <<>> /\ at' = at /\ events' = events
      /\ UNCHANGED <<activeIncomingSession, lastEndedIncomingSession>>
  BY DEF In!Reply, In!server, In!panel
<1>3. Len(reply) = 1 /\ e.kind \in {"expired", "accepted", "declined"}
  BY <1>2 DEF LastInv, FinishedInv
<1>4. /\ Len(out') = Len(out) + 1 /\ Len(out) \in Nat /\ out'[Len(out) + 1] = e
      /\ \A i \in 1..Len(out) : out'[i] = out[i]
      /\ \A i \in 1..Len(out') : i \in 1..Len(out) \/ i = Len(out) + 1
  <2>1. /\ Len(out \o reply) = Len(out) + Len(reply) /\ Len(out) \in Nat
        /\ \A i \in 1..Len(out) : (out \o reply)[i] = out[i]
        /\ \A i \in 1..Len(reply) : (out \o reply)[Len(out) + i] = reply[i]
    BY <1>1, Joined
  <2>2. 1 \in 1..Len(reply)
    BY <1>3
  <2>3. (out \o reply)[Len(out) + 1] = e
    BY <2>1, <2>2
  <2>. QED
    BY <1>2, <1>3, <2>1, <2>3
<1>5. ~Terminal(e) /\ \A r : e # Told("file", r)
  BY <1>3 DEF Terminal, Told
<1>. HIDE DEF e
<1>6. \A r : NoFile(out, r) => NoFile(out', r)
  BY <1>4, <1>5 DEF NoFile
<1>7. EndsLast(out')
  BY <1>4, <1>5 DEF EndsLast, LastInv, OverInv
<1>8. \A i \in 1..Len(out') : Terminal(out'[i]) => at[out'[i].r] = "over" /\ NoFile(events, out'[i].r)
  BY <1>4, <1>5 DEF LastInv, OverInv
<1>9. OverInv'
  BY <1>2, <1>7, <1>8 DEF OverInv, LastInv, EndsLast, NoFile, Terminal, Told
<1>10. FinishedInv'
  <2>1. NoFile(out, lastEndedIncomingSession) => NoFile(out', lastEndedIncomingSession)
    BY <1>6
  <2>. QED
    BY <1>2, <2>1 DEF FinishedInv, LastInv, NoFile, Told
<1>. QED
  BY <1>9, <1>10 DEF LastInv

\* The panel reads: it adopts no session it finished last, as no file of one is behind
\* its end.
LEMMA LastPanel ==
  ASSUME RequestTypes, LastInv, NoRequest \notin Request, In!PanelReads
  PROVE  LastInv'
<1>0. PICK r \in Request :
       \/ In!IncomingRequest(r) \/ In!IncomingText(r)
       \/ In!IncomingAnswered(r) \/ In!IncomingExpired(r)
       \/ In!IncomingProgress(r) \/ In!IncomingEnds(r)
  BY DEF In!PanelReads
<1>1. events \in Seq(Evt) /\ out \in Seq(Evt)
  BY DEF RequestTypes, ServerTypes, PipeTypes
<1>2. /\ out # <<>> /\ out' = Tail(out) /\ at' = at /\ events' = events /\ reply' = reply
      /\ \E k \in {"request", "text", "accepted", "declined", "expired", "progress", "file",
                   "done", "cancelled", "failed"} : Head(out) = Told(k, r)
  BY <1>0 DEF In!IncomingRequest, In!IncomingText, In!IncomingAnswered, In!IncomingExpired,
              In!IncomingProgress, In!IncomingEnds, In!Read, In!server, In!Is, Told
<1>3. /\ Len(out') = Len(out) - 1 /\ Len(out) \in Nat /\ Len(out) > 0 /\ Head(out) = out[1]
      /\ \A i \in 1..Len(out') : i + 1 \in 1..Len(out) /\ out'[i] = out[i + 1]
  BY <1>1, <1>2, Behind
<1>4. 1 \in 1..Len(out)
  BY <1>3
<1>5. \A s : NoFile(out, s) => NoFile(out', s) /\ out[1] # Told("file", s)
  BY <1>3, <1>4 DEF NoFile
<1>6. Terminal(out[1]) => /\ at[out[1].r] = "over" /\ NoFile(events, out[1].r)
                          /\ NoFile(out', out[1].r)
  BY <1>3, <1>4 DEF NoFile, LastInv, OverInv, EndsLast
<1>7. \A i \in 1..Len(out') : Terminal(out'[i]) => at[out'[i].r] = "over" /\ NoFile(events, out'[i].r)
  BY <1>3 DEF LastInv, OverInv
<1>8. EndsLast(out')
  <2>. SUFFICES ASSUME NEW i \in 1..Len(out'), NEW j \in 1..Len(out'), i < j, Terminal(out'[i])
                PROVE  out'[j] # Told("file", out'[i].r)
    BY DEF EndsLast
  <2>1. i + 1 \in 1..Len(out) /\ j + 1 \in 1..Len(out) /\ i + 1 < j + 1
    BY <1>3
  <2>. QED
    BY <1>3, <2>1 DEF LastInv, OverInv, EndsLast
<1>9. OverInv'
  BY <1>2, <1>7, <1>8 DEF OverInv, LastInv, EndsLast, NoFile, Terminal, Told
<1>10. CASE UNCHANGED <<activeIncomingSession, lastEndedIncomingSession>>
  <2>1. FinishedInv'
    BY <1>2, <1>5, <1>10 DEF FinishedInv, LastInv, NoFile, Told
  <2>. QED
    BY <1>9, <2>1 DEF LastInv
<1>11. CASE In!IncomingProgress(r)
  <2>1. /\ lastEndedIncomingSession' = lastEndedIncomingSession
        /\ \/ activeIncomingSession' = activeIncomingSession
           \/ /\ activeIncomingSession' = r
              /\ out[1] = Told("file", r)
                 \/ (out[1] = Told("progress", r) /\ r # lastEndedIncomingSession)
    BY <1>3, <1>11 DEF In!IncomingProgress, In!Read, In!Is, Told
  <2>2. CASE activeIncomingSession' = r /\ out[1] = Told("file", r)
    <3>1. r # lastEndedIncomingSession
      BY <1>5, <2>2 DEF LastInv, FinishedInv
    <3>2. FinishedInv'
      BY <1>2, <1>5, <2>1, <2>2, <3>1 DEF FinishedInv, LastInv, NoFile, Told
    <3>. QED
      BY <1>9, <3>2 DEF LastInv
  <2>3. CASE activeIncomingSession' = r /\ r # lastEndedIncomingSession
    <3>1. FinishedInv'
      BY <1>2, <1>5, <2>1, <2>3 DEF FinishedInv, LastInv, NoFile, Told
    <3>. QED
      BY <1>9, <3>1 DEF LastInv
  <2>. QED
    BY <1>10, <2>1, <2>2, <2>3
<1>12. CASE In!IncomingEnds(r)
  <2>1. /\ Terminal(out[1]) /\ out[1].r = r
        /\ \/ UNCHANGED <<activeIncomingSession, lastEndedIncomingSession>>
           \/ lastEndedIncomingSession' = r /\ activeIncomingSession' = NoRequest
    BY <1>3, <1>12 DEF In!IncomingEnds, In!finishIncoming, In!sessions, In!Read, In!Is, Terminal
  <2>2. CASE lastEndedIncomingSession' = r /\ activeIncomingSession' = NoRequest
    <3>1. FinishedInv'
      BY <1>2, <1>6, <2>1, <2>2 DEF FinishedInv, LastInv, NoFile, Told
    <3>. QED
      BY <1>9, <3>1 DEF LastInv
  <2>. QED
    BY <1>10, <2>1, <2>2
<1>13. CASE \/ In!IncomingRequest(r) \/ In!IncomingText(r)
            \/ In!IncomingAnswered(r) \/ In!IncomingExpired(r)
  <2>1. UNCHANGED <<activeIncomingSession, lastEndedIncomingSession>>
    BY <1>13 DEF In!IncomingRequest, In!IncomingText, In!IncomingAnswered, In!IncomingExpired,
                 In!sessions
  <2>. QED
    BY <1>10, <2>1
<1>. QED
  BY <1>0, <1>11, <1>12, <1>13

LEMMA LastStep ==
  ASSUME RequestTypes, LastInv, NoRequest \notin Request, In!Next
  PROVE  LastInv'
<1>1. CASE In!Sender \/ In!Handler
  BY <1>1, LastServer DEF In!Sender, In!Handler
<1>2. CASE In!ReadEvent \/ In!CommandLoop
  BY <1>2, LastRead, LastReply, LastLoop DEF In!CommandLoop
<1>3. CASE In!User \/ In!OutgoingMoves \/ In!finishOutgoing
  <2>1. UNCHANGED <<at, events, out, reply, activeIncomingSession, lastEndedIncomingSession>>
    BY <1>3 DEF In!User, In!acceptIncoming, In!declineIncoming, In!cancelIncoming, In!Dismiss,
       In!beginOutgoing, In!OutgoingMoves, In!finishOutgoing, In!helper, In!server, In!panel,
       In!sessions
  <2>. QED
    BY <2>1 DEF LastInv, OverInv, FinishedInv, EndsLast, NoFile, Terminal, Told
<1>4. CASE In!PanelReads
  BY <1>4, LastPanel
<1>. QED
  BY <1>1, <1>2, <1>3, <1>4 DEF In!Next

LEMMA LastAlways == HelperSpec => []LastInv
<1>0. NoRequest \notin Request
  BY InstancesAssumption DEF In!RequestsOK
<1>1. HelperInit => LastInv
  <2>. SUFFICES ASSUME HelperInit
                PROVE  LastInv
    OBVIOUS
  <2>1. /\ events = <<>> /\ out = <<>> /\ reply = <<>>
        /\ activeIncomingSession = NoRequest /\ lastEndedIncomingSession = NoRequest
    BY DEF HelperInit, In!Init
  <2>2. Len(events) = 0 /\ Len(out) = 0
    BY <2>1
  <2>. QED
    BY <2>1, <2>2 DEF LastInv, OverInv, FinishedInv, EndsLast, NoFile
<1>2. RequestTypes /\ LastInv /\ [HelperNext]_helper_vars => LastInv'
  <2>. SUFFICES ASSUME RequestTypes, LastInv, [HelperNext]_helper_vars
                PROVE  LastInv'
    OBVIOUS
  <2>1. In!Next \/ UNCHANGED requests
    BY DEF HelperNext, helper_vars
  <2>2. CASE UNCHANGED requests
    BY <2>2 DEF requests, LastInv, OverInv, FinishedInv, EndsLast, NoFile, Terminal, Told
  <2>. QED
    BY <1>0, <2>1, <2>2, LastStep
<1>. QED
  BY <1>1, <1>2, RequestsAlways, PTL DEF HelperSpec

\* Every request the helper keeps for an answer is one the server still waits for, or its
\* expiry is on the way, so that none is kept for good; and the panel does not follow again
\* the session it finished last; whatever the senders and the user do, and when.
THEOREM RequestsStayRight == HelperSpec => []RequestsAreRight
<1>1. RequestTypes => In!TypeOK
  <2>. SUFFICES ASSUME RequestTypes
                PROVE  In!TypeOK
    OBVIOUS
  <2>1. /\ \A i \in 1..Len(events) : events[i] \in Evt
        /\ \A i \in 1..Len(out) : out[i] \in Evt
        /\ \A i \in 1..Len(incomingQueue) : incomingQueue[i] \in Request
    BY DEF RequestTypes, ServerTypes, PipeTypes, PanelTypes, IsQueue
  <2>. QED
    BY <2>1 DEF In!TypeOK, In!Held, In!Sessions, In!Event, RequestTypes, ServerTypes,
                PipeTypes, PanelTypes, IsQueue, InHand, Evt
<1>2. AskedInv => In!PendingIsAsked
  BY DEF AskedInv, PendingInv, Waits, Told, In!PendingIsAsked, In!Coming, In!Is
<1>3. LastInv => In!EndedIsNotFollowed
  BY DEF LastInv, FinishedInv, In!EndedIsNotFollowed
<1>4. In!TypeOK /\ In!PendingIsAsked /\ In!EndedIsNotFollowed => RequestsAreRight
  BY DEF RequestsAreRight
<1>. QED
  BY <1>1, <1>2, <1>3, <1>4, RequestsAlways, LastAlways, PTL

-----------------------------------------------------------------------------
(* The codes of failures *)

\* The first rule with a word of the text gives the code.
LEMMA FirstRule ==
  ASSUME NEW rules, NEW said, NEW n \in 1..Len(rules), Len(rules) \in Nat,
         rules[n].words \cap said # {},
         \A i \in 1..Len(rules) : i < n => rules[i].words \cap said = {}
  PROVE  Texts!First(rules, said) = rules[n].code
<1>. DEFINE hits == {i \in 1..Len(rules) : rules[i].words \cap said # {}}
<1>1. n \in hits /\ \A j \in hits : n <= j
  OBVIOUS
<1>2. \A m \in hits : (\A j \in hits : m <= j) => m = n
  BY <1>1
<1>3. hits # {} /\ (CHOOSE i \in hits : \A j \in hits : i <= j) = n
  BY <1>1, <1>2
<1>. QED
  BY <1>3 DEF Texts!First

LEMMA NoRule ==
  ASSUME NEW rules, NEW said, \A i \in 1..Len(rules) : rules[i].words \cap said = {}
  PROVE  Texts!First(rules, said) = "transfer_failed"
<1>1. {i \in 1..Len(rules) : rules[i].words \cap said # {}} = {}
  OBVIOUS
<1>. QED
  BY <1>1 DEF Texts!First

\* The first rule that has one of the words of a text.
Decides(rules, said, n) ==
  /\ n \in 1..Len(rules) /\ Len(rules) \in Nat
  /\ \E w \in said : w \in rules[n].words
  /\ \A i \in 1..Len(rules) : i < n => \A w \in said : w \notin rules[i].words

LEMMA DecidesCode ==
  ASSUME NEW rules, NEW said, NEW n, Decides(rules, said, n)
  PROVE  Texts!First(rules, said) = rules[n].code
<1>1. /\ rules[n].words \cap said # {}
      /\ \A i \in 1..Len(rules) : i < n => rules[i].words \cap said = {}
  BY DEF Decides
<1>. QED
  BY <1>1, FirstRule DEF Decides

\* The words of a text.
Words(said, words) == \A x : x \in said <=> x \in words

\* A rule is in its place.
Lists(rules, n, words, c) ==
  rules[n].code = c /\ \A x : x \in rules[n].words <=> x \in words

LEMMA ReceiveRulesAre ==
  /\ Len(Texts!ReceiveRules) = 5
  /\ Lists(Texts!ReceiveRules, 1, {"no space left", "quota"}, "disk_full")
  /\ Lists(Texts!ReceiveRules, 2, {"permission denied", "read-only"}, "permission_denied")
  /\ Lists(Texts!ReceiveRules, 3, {"symlink", "unsafe"}, "unsafe_path")
  /\ Lists(Texts!ReceiveRules, 4, {"did not match", "integrity", "validate"}, "integrity_failed")
  /\ Lists(Texts!ReceiveRules, 5, {"timed out", "timeout"}, "timed_out")
<1>0. Len(Texts!ReceiveRules) = 5
  BY DEF Texts!ReceiveRules
<1>1. Lists(Texts!ReceiveRules, 1, {"no space left", "quota"}, "disk_full")
  BY DEF Texts!ReceiveRules, Texts!Rule, Lists
<1>2. Lists(Texts!ReceiveRules, 2, {"permission denied", "read-only"}, "permission_denied")
  BY DEF Texts!ReceiveRules, Texts!Rule, Lists
<1>3. Lists(Texts!ReceiveRules, 3, {"symlink", "unsafe"}, "unsafe_path")
  BY DEF Texts!ReceiveRules, Texts!Rule, Lists
<1>4. Lists(Texts!ReceiveRules, 4, {"did not match", "integrity", "validate"}, "integrity_failed")
  BY DEF Texts!ReceiveRules, Texts!Rule, Lists
<1>5. Lists(Texts!ReceiveRules, 5, {"timed out", "timeout"}, "timed_out")
  BY DEF Texts!ReceiveRules, Texts!Rule, Lists
<1>. QED
  BY <1>0, <1>1, <1>2, <1>3, <1>4, <1>5, Zenon

LEMMA ReceiveCodes ==
  ASSUME NEW said
  PROVE  /\ Words(said, {}) => Texts!receive_failure_code(said) = "transfer_failed"
         /\ Words(said, {"no space left"}) => Texts!receive_failure_code(said) = "disk_full"
         /\ Words(said, {"quota"}) => Texts!receive_failure_code(said) = "disk_full"
         /\ Words(said, {"permission denied"}) => Texts!receive_failure_code(said) = "permission_denied"
         /\ Words(said, {"unsafe", "symlink"}) => Texts!receive_failure_code(said) = "unsafe_path"
         /\ Words(said, {"did not match"}) => Texts!receive_failure_code(said) = "integrity_failed"
         /\ Words(said, {"integrity"}) => Texts!receive_failure_code(said) = "integrity_failed"
         /\ Words(said, {"validate"}) => Texts!receive_failure_code(said) = "integrity_failed"
         /\ Words(said, {"timed out"}) => Texts!receive_failure_code(said) = "timed_out"
<1>. DEFINE R == Texts!ReceiveRules
<1>0. Words(said, {}) => Texts!First(R, said) = "transfer_failed"
  BY NoRule DEF Words
<1>a. Len(R) = 5 /\ Len(R) \in Nat
  <2>1. Len(R) = 5
    BY DEF Texts!ReceiveRules
  <2>. QED
    BY <2>1
<1>b. /\ R[1].code = "disk_full" /\ \A x : x \in R[1].words <=> x \in {"no space left", "quota"}
      /\ R[2].code = "permission_denied" /\ \A x : x \in R[2].words <=> x \in {"permission denied", "read-only"}
      /\ R[3].code = "unsafe_path" /\ \A x : x \in R[3].words <=> x \in {"symlink", "unsafe"}
      /\ R[4].code = "integrity_failed" /\ \A x : x \in R[4].words <=> x \in {"did not match", "integrity", "validate"}
      /\ R[5].code = "timed_out" /\ \A x : x \in R[5].words <=> x \in {"timed out", "timeout"}
  BY ReceiveRulesAre DEF Lists
<1>. HIDE DEF R
<1>c. /\ R[1].code = "disk_full" /\ R[2].code = "permission_denied" /\ R[3].code = "unsafe_path"
      /\ R[4].code = "integrity_failed" /\ R[5].code = "timed_out"
  BY <1>b
<1>1. ASSUME Words(said, {"no space left"}) \/ Words(said, {"quota"})
      PROVE  Texts!First(R, said) = "disk_full"
  <2>1. 1 \in 1..Len(R) /\ \A i \in 1..Len(R) : ~(i < 1)
    BY <1>a
  <2>2. Decides(R, said, 1)
    BY <1>a, <1>b, <1>1, <2>1 DEF Decides, Words
  <2>. QED
    BY <1>c, <2>2, DecidesCode
<1>2. ASSUME Words(said, {"permission denied"})
      PROVE  Texts!First(R, said) = "permission_denied"
  <2>1. 2 \in 1..Len(R) /\ \A i \in 1..Len(R) : i < 2 => i \in {1}
    BY <1>a
  <2>2. Decides(R, said, 2)
    BY <1>a, <1>b, <1>2, <2>1 DEF Decides, Words
  <2>. QED
    BY <1>c, <2>2, DecidesCode
<1>3. ASSUME Words(said, {"unsafe", "symlink"})
      PROVE  Texts!First(R, said) = "unsafe_path"
  <2>1. 3 \in 1..Len(R) /\ \A i \in 1..Len(R) : i < 3 => i \in {1, 2}
    BY <1>a
  <2>2. Decides(R, said, 3)
    BY <1>a, <1>b, <1>3, <2>1 DEF Decides, Words
  <2>. QED
    BY <1>c, <2>2, DecidesCode
<1>4. ASSUME Words(said, {"did not match"}) \/ Words(said, {"integrity"}) \/ Words(said, {"validate"})
      PROVE  Texts!First(R, said) = "integrity_failed"
  <2>1. 4 \in 1..Len(R) /\ \A i \in 1..Len(R) : i < 4 => i \in {1, 2, 3}
    BY <1>a
  <2>2. Decides(R, said, 4)
    BY <1>a, <1>b, <1>4, <2>1 DEF Decides, Words
  <2>. QED
    BY <1>c, <2>2, DecidesCode
<1>5. ASSUME Words(said, {"timed out"})
      PROVE  Texts!First(R, said) = "timed_out"
  <2>1. 5 \in 1..Len(R) /\ \A i \in 1..Len(R) : i < 5 => i \in {1, 2, 3, 4}
    BY <1>a
  <2>2. Decides(R, said, 5)
    BY <1>a, <1>b, <1>5, <2>1 DEF Decides, Words
  <2>. QED
    BY <1>c, <2>2, DecidesCode
<1>. QED
  BY <1>0, <1>1, <1>2, <1>3, <1>4, <1>5 DEF R, Texts!receive_failure_code

LEMMA SendRulesAre ==
  /\ Len(Texts!SendRules) = 15
  /\ Lists(Texts!SendRules, 1, {"offer exceeds 2 mib"}, "offer_too_large")
  /\ Lists(Texts!SendRules, 2, {"10,000 files"}, "too_many_files")
  /\ Lists(Texts!SendRules, 3, {"32 levels"}, "too_deep")
  /\ Lists(Texts!SendRules, 4, {"unsafe remote file name"}, "unsafe_path")
  /\ Lists(Texts!SendRules, 5, {"not valid utf-8", "no valid utf-8 name"}, "invalid_utf8")
  /\ Lists(Texts!SendRules, 6, {"no transferable files"}, "no_files")
  /\ Lists(Texts!SendRules, 7, {"unsupported entry"}, "unsupported_entry")
  /\ Lists(Texts!SendRules, 8, {"permission"}, "permission_denied")
  /\ Lists(Texts!SendRules, 9, {"cannot read", "cannot inspect"}, "unreadable")
  /\ Lists(Texts!SendRules, 10, {"address already in use", "addrinuse"}, "port_in_use")
  /\ Lists(Texts!SendRules, 11, {"refused", "unreachable"}, "device_unavailable")
  /\ Lists(Texts!SendRules, 12, {"timeout", "timed out"}, "timed_out")
  /\ Lists(Texts!SendRules, 13, {"403", "rejected"}, "declined")
  /\ Lists(Texts!SendRules, 14, {"401", "pin"}, "pin_required")
  /\ Lists(Texts!SendRules, 15, {"network", "socket"}, "network_unavailable")
<1>0. Len(Texts!SendRules) = 15
  BY DEF Texts!SendRules
<1>1. Lists(Texts!SendRules, 1, {"offer exceeds 2 mib"}, "offer_too_large")
  BY DEF Texts!SendRules, Texts!Rule, Lists
<1>2. Lists(Texts!SendRules, 2, {"10,000 files"}, "too_many_files")
  BY DEF Texts!SendRules, Texts!Rule, Lists
<1>3. Lists(Texts!SendRules, 3, {"32 levels"}, "too_deep")
  BY DEF Texts!SendRules, Texts!Rule, Lists
<1>4. Lists(Texts!SendRules, 4, {"unsafe remote file name"}, "unsafe_path")
  BY DEF Texts!SendRules, Texts!Rule, Lists
<1>5. Lists(Texts!SendRules, 5, {"not valid utf-8", "no valid utf-8 name"}, "invalid_utf8")
  BY DEF Texts!SendRules, Texts!Rule, Lists
<1>6. Lists(Texts!SendRules, 6, {"no transferable files"}, "no_files")
  BY DEF Texts!SendRules, Texts!Rule, Lists
<1>7. Lists(Texts!SendRules, 7, {"unsupported entry"}, "unsupported_entry")
  BY DEF Texts!SendRules, Texts!Rule, Lists
<1>8. Lists(Texts!SendRules, 8, {"permission"}, "permission_denied")
  BY DEF Texts!SendRules, Texts!Rule, Lists
<1>9. Lists(Texts!SendRules, 9, {"cannot read", "cannot inspect"}, "unreadable")
  BY DEF Texts!SendRules, Texts!Rule, Lists
<1>10. Lists(Texts!SendRules, 10, {"address already in use", "addrinuse"}, "port_in_use")
  BY DEF Texts!SendRules, Texts!Rule, Lists
<1>11. Lists(Texts!SendRules, 11, {"refused", "unreachable"}, "device_unavailable")
  BY DEF Texts!SendRules, Texts!Rule, Lists
<1>12. Lists(Texts!SendRules, 12, {"timeout", "timed out"}, "timed_out")
  BY DEF Texts!SendRules, Texts!Rule, Lists
<1>13. Lists(Texts!SendRules, 13, {"403", "rejected"}, "declined")
  BY DEF Texts!SendRules, Texts!Rule, Lists
<1>14. Lists(Texts!SendRules, 14, {"401", "pin"}, "pin_required")
  BY DEF Texts!SendRules, Texts!Rule, Lists
<1>15. Lists(Texts!SendRules, 15, {"network", "socket"}, "network_unavailable")
  BY DEF Texts!SendRules, Texts!Rule, Lists
<1>. QED
  BY <1>0, <1>1, <1>2, <1>3, <1>4, <1>5, <1>6, <1>7, <1>8, <1>9, <1>10, <1>11, <1>12, <1>13, <1>14, <1>15, Zenon

LEMMA SendCodes ==
  ASSUME NEW said
  PROVE  /\ Words(said, {}) => Texts!classify_error(said) = "transfer_failed"
         /\ Words(said, {"offer exceeds 2 mib"}) => Texts!classify_error(said) = "offer_too_large"
         /\ Words(said, {"10,000 files"}) => Texts!classify_error(said) = "too_many_files"
         /\ Words(said, {"32 levels"}) => Texts!classify_error(said) = "too_deep"
         /\ Words(said, {"unsafe remote file name"}) => Texts!classify_error(said) = "unsafe_path"
         /\ Words(said, {"not valid utf-8"}) => Texts!classify_error(said) = "invalid_utf8"
         /\ Words(said, {"no valid utf-8 name"}) => Texts!classify_error(said) = "invalid_utf8"
         /\ Words(said, {"no transferable files"}) => Texts!classify_error(said) = "no_files"
         /\ Words(said, {"unsupported entry"}) => Texts!classify_error(said) = "unsupported_entry"
         /\ Words(said, {"cannot read", "permission"}) => Texts!classify_error(said) = "permission_denied"
         /\ Words(said, {"cannot read"}) => Texts!classify_error(said) = "unreadable"
         /\ Words(said, {"cannot inspect"}) => Texts!classify_error(said) = "unreadable"
         /\ Words(said, {"refused"}) => Texts!classify_error(said) = "device_unavailable"
         /\ Words(said, {"timed out"}) => Texts!classify_error(said) = "timed_out"
         /\ Words(said, {"rejected", "403"}) => Texts!classify_error(said) = "declined"
<1>. DEFINE R == Texts!SendRules
<1>0. Words(said, {}) => Texts!First(R, said) = "transfer_failed"
  BY NoRule DEF Words
<1>a. Len(R) = 15 /\ Len(R) \in Nat
  <2>1. Len(R) = 15
    BY DEF Texts!SendRules
  <2>. QED
    BY <2>1
<1>b. /\ R[1].code = "offer_too_large" /\ \A x : x \in R[1].words <=> x \in {"offer exceeds 2 mib"}
      /\ R[2].code = "too_many_files" /\ \A x : x \in R[2].words <=> x \in {"10,000 files"}
      /\ R[3].code = "too_deep" /\ \A x : x \in R[3].words <=> x \in {"32 levels"}
      /\ R[4].code = "unsafe_path" /\ \A x : x \in R[4].words <=> x \in {"unsafe remote file name"}
      /\ R[5].code = "invalid_utf8" /\ \A x : x \in R[5].words <=> x \in {"not valid utf-8", "no valid utf-8 name"}
      /\ R[6].code = "no_files" /\ \A x : x \in R[6].words <=> x \in {"no transferable files"}
      /\ R[7].code = "unsupported_entry" /\ \A x : x \in R[7].words <=> x \in {"unsupported entry"}
      /\ R[8].code = "permission_denied" /\ \A x : x \in R[8].words <=> x \in {"permission"}
      /\ R[9].code = "unreadable" /\ \A x : x \in R[9].words <=> x \in {"cannot read", "cannot inspect"}
      /\ R[10].code = "port_in_use" /\ \A x : x \in R[10].words <=> x \in {"address already in use", "addrinuse"}
      /\ R[11].code = "device_unavailable" /\ \A x : x \in R[11].words <=> x \in {"refused", "unreachable"}
      /\ R[12].code = "timed_out" /\ \A x : x \in R[12].words <=> x \in {"timeout", "timed out"}
      /\ R[13].code = "declined" /\ \A x : x \in R[13].words <=> x \in {"403", "rejected"}
      /\ R[14].code = "pin_required" /\ \A x : x \in R[14].words <=> x \in {"401", "pin"}
      /\ R[15].code = "network_unavailable" /\ \A x : x \in R[15].words <=> x \in {"network", "socket"}
  BY SendRulesAre DEF Lists
<1>. HIDE DEF R
<1>c. /\ R[1].code = "offer_too_large" /\ R[2].code = "too_many_files" /\ R[3].code = "too_deep"
      /\ R[4].code = "unsafe_path" /\ R[5].code = "invalid_utf8" /\ R[6].code = "no_files"
      /\ R[7].code = "unsupported_entry" /\ R[8].code = "permission_denied" /\ R[9].code = "unreadable"
      /\ R[10].code = "port_in_use" /\ R[11].code = "device_unavailable" /\ R[12].code = "timed_out"
      /\ R[13].code = "declined" /\ R[14].code = "pin_required" /\ R[15].code = "network_unavailable"
  BY <1>b
<1>1. ASSUME Words(said, {"offer exceeds 2 mib"})
      PROVE  Texts!First(R, said) = "offer_too_large"
  <2>1. 1 \in 1..Len(R) /\ \A i \in 1..Len(R) : ~(i < 1)
    BY <1>a
  <2>2. Decides(R, said, 1)
    BY <1>a, <1>b, <1>1, <2>1 DEF Decides, Words
  <2>. QED
    BY <1>c, <2>2, DecidesCode
<1>2. ASSUME Words(said, {"10,000 files"})
      PROVE  Texts!First(R, said) = "too_many_files"
  <2>1. 2 \in 1..Len(R) /\ \A i \in 1..Len(R) : i < 2 => i \in {1}
    BY <1>a
  <2>2. Decides(R, said, 2)
    BY <1>a, <1>b, <1>2, <2>1 DEF Decides, Words
  <2>. QED
    BY <1>c, <2>2, DecidesCode
<1>3. ASSUME Words(said, {"32 levels"})
      PROVE  Texts!First(R, said) = "too_deep"
  <2>1. 3 \in 1..Len(R) /\ \A i \in 1..Len(R) : i < 3 => i \in {1, 2}
    BY <1>a
  <2>2. \E w \in said : w \in R[3].words
    BY <1>b, <1>3 DEF Words
  <2>3. \A w \in said : w \in {"32 levels"}
    BY <1>3 DEF Words
  <2>4. \A w \in said : w \notin R[1].words /\ w \notin R[2].words
    BY <1>b, <2>3
  <2>5. Decides(R, said, 3)
    BY <1>a, <2>1, <2>2, <2>3, <2>4 DEF Decides
  <2>. QED
    BY <1>c, <2>5, DecidesCode
<1>4. ASSUME Words(said, {"unsafe remote file name"})
      PROVE  Texts!First(R, said) = "unsafe_path"
  <2>1. 4 \in 1..Len(R) /\ \A i \in 1..Len(R) : i < 4 => i \in {1, 2, 3}
    BY <1>a
  <2>2. \E w \in said : w \in R[4].words
    BY <1>b, <1>4 DEF Words
  <2>3. \A w \in said : w \in {"unsafe remote file name"}
    BY <1>4 DEF Words
  <2>4. \A w \in said : w \notin R[1].words /\ w \notin R[2].words
    BY <1>b, <2>3
  <2>5. \A w \in said : w \notin R[3].words
    BY <1>b, <2>3
  <2>6. Decides(R, said, 4)
    BY <1>a, <2>1, <2>2, <2>3, <2>4, <2>5 DEF Decides
  <2>. QED
    BY <1>c, <2>6, DecidesCode
<1>5. ASSUME Words(said, {"not valid utf-8"}) \/ Words(said, {"no valid utf-8 name"})
      PROVE  Texts!First(R, said) = "invalid_utf8"
  <2>1. 5 \in 1..Len(R) /\ \A i \in 1..Len(R) : i < 5 => i \in {1, 2, 3, 4}
    BY <1>a
  <2>2. \E w \in said : w \in R[5].words
    BY <1>b, <1>5 DEF Words
  <2>3. \A w \in said : w \in {"not valid utf-8", "no valid utf-8 name"}
    BY <1>5 DEF Words
  <2>4. \A w \in said : w \notin R[1].words /\ w \notin R[2].words
    BY <1>b, <2>3
  <2>5. \A w \in said : w \notin R[3].words /\ w \notin R[4].words
    BY <1>b, <2>3
  <2>6. Decides(R, said, 5)
    BY <1>a, <2>1, <2>2, <2>3, <2>4, <2>5 DEF Decides
  <2>. QED
    BY <1>c, <2>6, DecidesCode
<1>6. ASSUME Words(said, {"no transferable files"})
      PROVE  Texts!First(R, said) = "no_files"
  <2>1. 6 \in 1..Len(R) /\ \A i \in 1..Len(R) : i < 6 => i \in {1, 2, 3, 4, 5}
    BY <1>a
  <2>2. \E w \in said : w \in R[6].words
    BY <1>b, <1>6 DEF Words
  <2>3. \A w \in said : w \in {"no transferable files"}
    BY <1>6 DEF Words
  <2>4. \A w \in said : w \notin R[1].words /\ w \notin R[2].words
    BY <1>b, <2>3
  <2>5. \A w \in said : w \notin R[3].words /\ w \notin R[4].words
    BY <1>b, <2>3
  <2>6. \A w \in said : w \notin R[5].words
    BY <1>b, <2>3
  <2>7. Decides(R, said, 6)
    BY <1>a, <2>1, <2>2, <2>3, <2>4, <2>5, <2>6 DEF Decides
  <2>. QED
    BY <1>c, <2>7, DecidesCode
<1>7. ASSUME Words(said, {"unsupported entry"})
      PROVE  Texts!First(R, said) = "unsupported_entry"
  <2>1. 7 \in 1..Len(R) /\ \A i \in 1..Len(R) : i < 7 => i \in {1, 2, 3, 4, 5, 6}
    BY <1>a
  <2>2. \E w \in said : w \in R[7].words
    BY <1>b, <1>7 DEF Words
  <2>3. \A w \in said : w \in {"unsupported entry"}
    BY <1>7 DEF Words
  <2>4. \A w \in said : w \notin R[1].words /\ w \notin R[2].words
    BY <1>b, <2>3
  <2>5. \A w \in said : w \notin R[3].words /\ w \notin R[4].words
    BY <1>b, <2>3
  <2>6. \A w \in said : w \notin R[5].words /\ w \notin R[6].words
    BY <1>b, <2>3
  <2>7. Decides(R, said, 7)
    BY <1>a, <2>1, <2>2, <2>3, <2>4, <2>5, <2>6 DEF Decides
  <2>. QED
    BY <1>c, <2>7, DecidesCode
<1>8. ASSUME Words(said, {"cannot read", "permission"})
      PROVE  Texts!First(R, said) = "permission_denied"
  <2>1. 8 \in 1..Len(R) /\ \A i \in 1..Len(R) : i < 8 => i \in {1, 2, 3, 4, 5, 6, 7}
    BY <1>a
  <2>2. \E w \in said : w \in R[8].words
    BY <1>b, <1>8 DEF Words
  <2>3. \A w \in said : w \in {"cannot read", "permission"}
    BY <1>8 DEF Words
  <2>4. \A w \in said : w \notin R[1].words /\ w \notin R[2].words
    BY <1>b, <2>3
  <2>5. \A w \in said : w \notin R[3].words /\ w \notin R[4].words
    BY <1>b, <2>3
  <2>6. \A w \in said : w \notin R[5].words /\ w \notin R[6].words
    BY <1>b, <2>3
  <2>7. \A w \in said : w \notin R[7].words
    BY <1>b, <2>3
  <2>8. Decides(R, said, 8)
    BY <1>a, <2>1, <2>2, <2>3, <2>4, <2>5, <2>6, <2>7 DEF Decides
  <2>. QED
    BY <1>c, <2>8, DecidesCode
<1>9. ASSUME Words(said, {"cannot read"}) \/ Words(said, {"cannot inspect"})
      PROVE  Texts!First(R, said) = "unreadable"
  <2>1. 9 \in 1..Len(R) /\ \A i \in 1..Len(R) : i < 9 => i \in {1, 2, 3, 4, 5, 6, 7, 8}
    BY <1>a
  <2>2. \E w \in said : w \in R[9].words
    BY <1>b, <1>9 DEF Words
  <2>3. \A w \in said : w \in {"cannot inspect", "cannot read"}
    BY <1>9 DEF Words
  <2>4. \A w \in said : w \notin R[1].words /\ w \notin R[2].words
    BY <1>b, <2>3
  <2>5. \A w \in said : w \notin R[3].words /\ w \notin R[4].words
    BY <1>b, <2>3
  <2>6. \A w \in said : w \notin R[5].words /\ w \notin R[6].words
    BY <1>b, <2>3
  <2>7. \A w \in said : w \notin R[7].words /\ w \notin R[8].words
    BY <1>b, <2>3
  <2>8. Decides(R, said, 9)
    BY <1>a, <2>1, <2>2, <2>3, <2>4, <2>5, <2>6, <2>7 DEF Decides
  <2>. QED
    BY <1>c, <2>8, DecidesCode
<1>10. ASSUME Words(said, {"refused"})
      PROVE  Texts!First(R, said) = "device_unavailable"
  <2>1. 11 \in 1..Len(R) /\ \A i \in 1..Len(R) : i < 11 => i \in {1, 2, 3, 4, 5, 6, 7, 8, 9, 10}
    BY <1>a
  <2>2. \E w \in said : w \in R[11].words
    BY <1>b, <1>10 DEF Words
  <2>3. \A w \in said : w \in {"refused"}
    BY <1>10 DEF Words
  <2>4. \A w \in said : w \notin R[1].words /\ w \notin R[2].words
    BY <1>b, <2>3
  <2>5. \A w \in said : w \notin R[3].words /\ w \notin R[4].words
    BY <1>b, <2>3
  <2>6. \A w \in said : w \notin R[5].words /\ w \notin R[6].words
    BY <1>b, <2>3
  <2>7. \A w \in said : w \notin R[7].words /\ w \notin R[8].words
    BY <1>b, <2>3
  <2>8. \A w \in said : w \notin R[9].words /\ w \notin R[10].words
    BY <1>b, <2>3
  <2>9. Decides(R, said, 11)
    BY <1>a, <2>1, <2>2, <2>3, <2>4, <2>5, <2>6, <2>7, <2>8 DEF Decides
  <2>. QED
    BY <1>c, <2>9, DecidesCode
<1>11. ASSUME Words(said, {"timed out"})
      PROVE  Texts!First(R, said) = "timed_out"
  <2>1. 12 \in 1..Len(R) /\ \A i \in 1..Len(R) : i < 12 => i \in {1, 2, 3, 4, 5, 6, 7, 8, 9, 10, 11}
    BY <1>a
  <2>2. \E w \in said : w \in R[12].words
    BY <1>b, <1>11 DEF Words
  <2>3. \A w \in said : w \in {"timed out"}
    BY <1>11 DEF Words
  <2>4. \A w \in said : w \notin R[1].words /\ w \notin R[2].words
    BY <1>b, <2>3
  <2>5. \A w \in said : w \notin R[3].words /\ w \notin R[4].words
    BY <1>b, <2>3
  <2>6. \A w \in said : w \notin R[5].words /\ w \notin R[6].words
    BY <1>b, <2>3
  <2>7. \A w \in said : w \notin R[7].words /\ w \notin R[8].words
    BY <1>b, <2>3
  <2>8. \A w \in said : w \notin R[9].words /\ w \notin R[10].words
    BY <1>b, <2>3
  <2>9. \A w \in said : w \notin R[11].words
    BY <1>b, <2>3
  <2>10. Decides(R, said, 12)
    BY <1>a, <2>1, <2>2, <2>3, <2>4, <2>5, <2>6, <2>7, <2>8, <2>9 DEF Decides
  <2>. QED
    BY <1>c, <2>10, DecidesCode
<1>12. ASSUME Words(said, {"rejected", "403"})
      PROVE  Texts!First(R, said) = "declined"
  <2>1. 13 \in 1..Len(R) /\ \A i \in 1..Len(R) : i < 13 => i \in {1, 2, 3, 4, 5, 6, 7, 8, 9, 10, 11, 12}
    BY <1>a
  <2>2. \E w \in said : w \in R[13].words
    BY <1>b, <1>12 DEF Words
  <2>3. \A w \in said : w \in {"403", "rejected"}
    BY <1>12 DEF Words
  <2>4. \A w \in said : w \notin R[1].words /\ w \notin R[2].words
    BY <1>b, <2>3
  <2>5. \A w \in said : w \notin R[3].words /\ w \notin R[4].words
    BY <1>b, <2>3
  <2>6. \A w \in said : w \notin R[5].words /\ w \notin R[6].words
    BY <1>b, <2>3
  <2>7. \A w \in said : w \notin R[7].words /\ w \notin R[8].words
    BY <1>b, <2>3
  <2>8. \A w \in said : w \notin R[9].words /\ w \notin R[10].words
    BY <1>b, <2>3
  <2>9. \A w \in said : w \notin R[11].words /\ w \notin R[12].words
    BY <1>b, <2>3
  <2>10. Decides(R, said, 13)
    BY <1>a, <2>1, <2>2, <2>3, <2>4, <2>5, <2>6, <2>7, <2>8, <2>9 DEF Decides
  <2>. QED
    BY <1>c, <2>10, DecidesCode
<1>. QED
  BY <1>0, <1>1, <1>2, <1>3, <1>4, <1>5, <1>6, <1>7, <1>8, <1>9, <1>10, <1>11, <1>12 DEF R, Texts!classify_error

\* Where a send, or a receive, fails.
SendingAt ==
  {"offer", "count", "depth", "name", "entry name",
   "selected name", "nothing", "fifo", "open denied", "open gone",
   "stat", "prepare declined", "prepare refused", "prepare timeout", "prepare cut",
   "upload refused", "upload timeout", "upload cut"}
ReceivingAt ==
  {"write full", "connection lost", "publish full", "publish quota", "publish denied",
   "publish symlink", "size", "hash", "hash unread", "swept"}

LEMMA SelectionCodes ==
  ASSUME NEW f \in Texts!SelectionFailures, NEW said, Words(said, f.own)
  PROVE  f.at \in SendingAt /\ Texts!classify_error(said) = f.means
<1>1. CASE f = Texts!Failure("offer", {"offer exceeds 2 mib"}, "nothing", "offer_too_large")
  <2>1. f.at = "offer" /\ f.means = "offer_too_large" /\ Words(said, {"offer exceeds 2 mib"})
    BY <1>1 DEF Texts!Failure, Words
  <2>. QED
    BY <2>1, SendCodes DEF SendingAt
<1>2. CASE f = Texts!Failure("count", {"10,000 files"}, "nothing", "too_many_files")
  <2>1. f.at = "count" /\ f.means = "too_many_files" /\ Words(said, {"10,000 files"})
    BY <1>2 DEF Texts!Failure, Words
  <2>. QED
    BY <2>1, SendCodes DEF SendingAt
<1>3. CASE f = Texts!Failure("depth", {"32 levels"}, "nothing", "too_deep")
  <2>1. f.at = "depth" /\ f.means = "too_deep" /\ Words(said, {"32 levels"})
    BY <1>3 DEF Texts!Failure, Words
  <2>. QED
    BY <2>1, SendCodes DEF SendingAt
<1>4. CASE f = Texts!Failure("name", {"unsafe remote file name"}, "nothing", "unsafe_path")
  <2>1. f.at = "name" /\ f.means = "unsafe_path" /\ Words(said, {"unsafe remote file name"})
    BY <1>4 DEF Texts!Failure, Words
  <2>. QED
    BY <2>1, SendCodes DEF SendingAt
<1>5. CASE f = Texts!Failure("entry name", {"not valid utf-8"}, "nothing", "invalid_utf8")
  <2>1. f.at = "entry name" /\ f.means = "invalid_utf8" /\ Words(said, {"not valid utf-8"})
    BY <1>5 DEF Texts!Failure, Words
  <2>. QED
    BY <2>1, SendCodes DEF SendingAt
<1>6. CASE f = Texts!Failure("selected name", {"no valid utf-8 name"}, "nothing", "invalid_utf8")
  <2>1. f.at = "selected name" /\ f.means = "invalid_utf8" /\ Words(said, {"no valid utf-8 name"})
    BY <1>6 DEF Texts!Failure, Words
  <2>. QED
    BY <2>1, SendCodes DEF SendingAt
<1>7. CASE f = Texts!Failure("nothing", {"no transferable files"}, "nothing", "no_files")
  <2>1. f.at = "nothing" /\ f.means = "no_files" /\ Words(said, {"no transferable files"})
    BY <1>7 DEF Texts!Failure, Words
  <2>. QED
    BY <2>1, SendCodes DEF SendingAt
<1>8. CASE f = Texts!Failure("fifo", {"unsupported entry"}, "nothing", "unsupported_entry")
  <2>1. f.at = "fifo" /\ f.means = "unsupported_entry" /\ Words(said, {"unsupported entry"})
    BY <1>8 DEF Texts!Failure, Words
  <2>. QED
    BY <2>1, SendCodes DEF SendingAt
<1>9. CASE f = Texts!Failure("open denied", {"cannot read", "permission"}, "path", "permission_denied")
  <2>1. f.at = "open denied" /\ f.means = "permission_denied" /\ Words(said, {"cannot read", "permission"})
    BY <1>9 DEF Texts!Failure, Words
  <2>. QED
    BY <2>1, SendCodes DEF SendingAt
<1>10. CASE f = Texts!Failure("open gone", {"cannot read"}, "path", "unreadable")
  <2>1. f.at = "open gone" /\ f.means = "unreadable" /\ Words(said, {"cannot read"})
    BY <1>10 DEF Texts!Failure, Words
  <2>. QED
    BY <2>1, SendCodes DEF SendingAt
<1>11. CASE f = Texts!Failure("stat", {"cannot inspect"}, "nothing", "unreadable")
  <2>1. f.at = "stat" /\ f.means = "unreadable" /\ Words(said, {"cannot inspect"})
    BY <1>11 DEF Texts!Failure, Words
  <2>. QED
    BY <2>1, SendCodes DEF SendingAt
<1>. QED
  BY <1>1, <1>2, <1>3, <1>4, <1>5, <1>6, <1>7, <1>8, <1>9, <1>10, <1>11 DEF Texts!SelectionFailures

LEMMA RequestCodes ==
  ASSUME NEW f \in Texts!RequestFailures, NEW said, Words(said, f.own)
  PROVE  f.at \in SendingAt /\ Texts!classify_error(said) = f.means
<1>1. CASE f = Texts!Failure("prepare declined", {"rejected", "403"}, "nothing", "declined")
  <2>1. f.at = "prepare declined" /\ f.means = "declined" /\ Words(said, {"rejected", "403"})
    BY <1>1 DEF Texts!Failure, Words
  <2>. QED
    BY <2>1, SendCodes DEF SendingAt
<1>2. CASE f = Texts!Failure("prepare refused", {"refused"}, "pin", "device_unavailable")
  <2>1. f.at = "prepare refused" /\ f.means = "device_unavailable" /\ Words(said, {"refused"})
    BY <1>2 DEF Texts!Failure, Words
  <2>. QED
    BY <2>1, SendCodes DEF SendingAt
<1>3. CASE f = Texts!Failure("prepare timeout", {"timed out"}, "pin", "timed_out")
  <2>1. f.at = "prepare timeout" /\ f.means = "timed_out" /\ Words(said, {"timed out"})
    BY <1>3 DEF Texts!Failure, Words
  <2>. QED
    BY <2>1, SendCodes DEF SendingAt
<1>4. CASE f = Texts!Failure("prepare cut", {}, "pin", "transfer_failed")
  <2>1. f.at = "prepare cut" /\ f.means = "transfer_failed" /\ Words(said, {})
    BY <1>4 DEF Texts!Failure, Words
  <2>. QED
    BY <2>1, SendCodes DEF SendingAt
<1>5. CASE f = Texts!Failure("upload refused", {"refused"}, "ids", "device_unavailable")
  <2>1. f.at = "upload refused" /\ f.means = "device_unavailable" /\ Words(said, {"refused"})
    BY <1>5 DEF Texts!Failure, Words
  <2>. QED
    BY <2>1, SendCodes DEF SendingAt
<1>6. CASE f = Texts!Failure("upload timeout", {"timed out"}, "ids", "timed_out")
  <2>1. f.at = "upload timeout" /\ f.means = "timed_out" /\ Words(said, {"timed out"})
    BY <1>6 DEF Texts!Failure, Words
  <2>. QED
    BY <2>1, SendCodes DEF SendingAt
<1>7. CASE f = Texts!Failure("upload cut", {}, "ids", "transfer_failed")
  <2>1. f.at = "upload cut" /\ f.means = "transfer_failed" /\ Words(said, {})
    BY <1>7 DEF Texts!Failure, Words
  <2>. QED
    BY <2>1, SendCodes DEF SendingAt
<1>. QED
  BY <1>1, <1>2, <1>3, <1>4, <1>5, <1>6, <1>7 DEF Texts!RequestFailures

LEMMA ReceivingCodes ==
  ASSUME NEW f \in Texts!ReceiveFailures, NEW said, Words(said, f.own)
  PROVE  f.at \in ReceivingAt /\ (f.at # "write full" => Texts!receive_failure_code(said) = f.means)
<1>1. CASE f = Texts!Failure("write full", {}, "nothing", "disk_full")
  <2>1. f.at = "write full" /\ f.means = "disk_full" /\ Words(said, {})
    BY <1>1 DEF Texts!Failure, Words
  <2>. QED
    BY <2>1 DEF ReceivingAt
<1>2. CASE f = Texts!Failure("connection lost", {}, "nothing", "transfer_failed")
  <2>1. f.at = "connection lost" /\ f.means = "transfer_failed" /\ Words(said, {})
    BY <1>2 DEF Texts!Failure, Words
  <2>. QED
    BY <2>1, ReceiveCodes DEF ReceivingAt
<1>3. CASE f = Texts!Failure("publish full", {"no space left"}, "nothing", "disk_full")
  <2>1. f.at = "publish full" /\ f.means = "disk_full" /\ Words(said, {"no space left"})
    BY <1>3 DEF Texts!Failure, Words
  <2>. QED
    BY <2>1, ReceiveCodes DEF ReceivingAt
<1>4. CASE f = Texts!Failure("publish quota", {"quota"}, "nothing", "disk_full")
  <2>1. f.at = "publish quota" /\ f.means = "disk_full" /\ Words(said, {"quota"})
    BY <1>4 DEF Texts!Failure, Words
  <2>. QED
    BY <2>1, ReceiveCodes DEF ReceivingAt
<1>5. CASE f = Texts!Failure("publish denied", {"permission denied"}, "nothing", "permission_denied")
  <2>1. f.at = "publish denied" /\ f.means = "permission_denied" /\ Words(said, {"permission denied"})
    BY <1>5 DEF Texts!Failure, Words
  <2>. QED
    BY <2>1, ReceiveCodes DEF ReceivingAt
<1>6. CASE f = Texts!Failure("publish symlink", {"unsafe", "symlink"}, "nothing", "unsafe_path")
  <2>1. f.at = "publish symlink" /\ f.means = "unsafe_path" /\ Words(said, {"unsafe", "symlink"})
    BY <1>6 DEF Texts!Failure, Words
  <2>. QED
    BY <2>1, ReceiveCodes DEF ReceivingAt
<1>7. CASE f = Texts!Failure("size", {"did not match"}, "nothing", "integrity_failed")
  <2>1. f.at = "size" /\ f.means = "integrity_failed" /\ Words(said, {"did not match"})
    BY <1>7 DEF Texts!Failure, Words
  <2>. QED
    BY <2>1, ReceiveCodes DEF ReceivingAt
<1>8. CASE f = Texts!Failure("hash", {"integrity"}, "nothing", "integrity_failed")
  <2>1. f.at = "hash" /\ f.means = "integrity_failed" /\ Words(said, {"integrity"})
    BY <1>8 DEF Texts!Failure, Words
  <2>. QED
    BY <2>1, ReceiveCodes DEF ReceivingAt
<1>9. CASE f = Texts!Failure("hash unread", {"validate"}, "nothing", "integrity_failed")
  <2>1. f.at = "hash unread" /\ f.means = "integrity_failed" /\ Words(said, {"validate"})
    BY <1>9 DEF Texts!Failure, Words
  <2>. QED
    BY <2>1, ReceiveCodes DEF ReceivingAt
<1>10. CASE f = Texts!Failure("swept", {"timed out"}, "nothing", "timed_out")
  <2>1. f.at = "swept" /\ f.means = "timed_out" /\ Words(said, {"timed out"})
    BY <1>10 DEF Texts!Failure, Words
  <2>. QED
    BY <2>1, ReceiveCodes DEF ReceivingAt
<1>. QED
  BY <1>1, <1>2, <1>3, <1>4, <1>5, <1>6, <1>7, <1>8, <1>9, <1>10 DEF Texts!ReceiveFailures

\* The code is that of the failure.
CodeInv ==
  LET f == failure.f IN
  \/ f.at = "nowhere"
  \/ /\ f \in Texts!SelectionFailures \cup Texts!RequestFailures
     /\ code = Texts!classify_error(f.own \cup failure.quoted)
  \/ f \in Texts!ReceiveFailures /\ code = Texts!receive_failure_code(f.own)

LEMMA Placed ==
  /\ \A f \in Texts!SelectionFailures \cup Texts!RequestFailures : f.at \in SendingAt
  /\ \A f \in Texts!ReceiveFailures : f.at \in ReceivingAt
<1>1. \A t : Words(t, t)
  BY DEF Words
<1>. QED
  BY <1>1, SelectionCodes, RequestCodes, ReceivingCodes

LEMMA CodeDecides ==
  ASSUME CodeInv
  PROVE  Texts!TextsDecide
<1>. DEFINE f == failure.f
            outgoing == Texts!SelectionFailures \cup Texts!RequestFailures
<1>0. /\ f.at \in SendingAt => f.at # "nowhere" /\ f.at \notin ReceivingAt
      /\ f.at \in ReceivingAt => f.at # "nowhere"
  BY DEF SendingAt, ReceivingAt
<1>1. ASSUME f \in outgoing, failure.quoted = {}
      PROVE  code = f.means
  <2>1. code = Texts!classify_error(f.own \cup failure.quoted)
    BY <1>0, <1>1, Placed DEF CodeInv
  <2>2. Words(f.own \cup failure.quoted, f.own)
    BY <1>1 DEF Words
  <2>. QED
    BY <1>1, <2>1, <2>2, SelectionCodes, RequestCodes
<1>2. ASSUME f \in Texts!ReceiveFailures, f.at # "write full"
      PROVE  code = f.means
  <2>1. code = Texts!receive_failure_code(f.own)
    BY <1>0, <1>2, Placed DEF CodeInv
  <2>2. Words(f.own, f.own)
    BY DEF Words
  <2>. QED
    BY <1>2, <2>1, <2>2, ReceivingCodes
<1>. QED
  BY <1>1, <1>2 DEF Texts!TextsDecide, Texts!OwnWordsDecide, Texts!ReceiveTextsDecide

\* A failure whose text quotes nothing has the code of what went wrong, whichever words
\* paths and ids contain; a receive has it but for a disk that fills during a write.
THEOREM CodesDecide == HelperSpec => []TextsDecide
<1>1. HelperInit => CodeInv
  <2>1. Texts!NoFailure.at = "nowhere"
    BY DEF Texts!NoFailure, Texts!Failure
  <2>2. HelperInit => failure.f = Texts!NoFailure
    <3>1. HelperInit => Texts!Init
      BY DEF HelperInit
    <3>2. Texts!Init => failure = [f |-> Texts!NoFailure, quoted |-> {}]
      BY DEF Texts!Init
    <3>. QED
      BY <3>1, <3>2
  <2>. QED
    BY <2>1, <2>2 DEF CodeInv
<1>2. CodeInv /\ [HelperNext]_helper_vars => CodeInv'
  <2>. SUFFICES ASSUME CodeInv, [HelperNext]_helper_vars
                PROVE  CodeInv'
    OBVIOUS
  <2>1. Texts!outgoing_failed \/ Texts!incoming_failed \/ UNCHANGED <<failure, code>>
    BY DEF HelperNext, helper_vars, failures_told, Texts!Next
  <2>2. CASE Texts!outgoing_failed
    BY <2>2 DEF Texts!outgoing_failed, CodeInv
  <2>3. CASE Texts!incoming_failed
    BY <2>3 DEF Texts!incoming_failed, CodeInv
  <2>4. CASE UNCHANGED <<failure, code>>
    BY <2>4 DEF CodeInv
  <2>. QED
    BY <2>1, <2>2, <2>3, <2>4
<1>3. CodeInv => TextsDecide
  BY CodeDecides DEF TextsDecide
<1>. QED
  BY <1>1, <1>2, <1>3, PTL DEF HelperSpec

-----------------------------------------------------------------------------
(* Least numbers and smallest sets, for inductions *)

SmallerNat == {p \in Nat \X Nat : p[1] < p[2]}

\* A set of numbers has a least one.
LEMMA LeastNumber ==
  ASSUME NEW T \in SUBSET Nat, T # {}
  PROVE  \E n \in T : \A m \in T : ~(m < n)
<1>1. IsWellFoundedOn(SmallerNat, Nat)
  BY NatLessThanWellFounded, IsWellFoundedOnSubrelation DEF OpToRel, SmallerNat
<1>2. PICK n \in T : \A m \in T : <<m, n>> \notin SmallerNat
  BY <1>1, WFMin
<1>. QED
  BY <1>2 DEF SmallerNat

\* A set of finite sets has one with the fewest elements.
LEMMA SmallestSet ==
  ASSUME NEW Q, Q # {}, \A s \in Q : IsFiniteSet(s)
  PROVE  \E s \in Q : \A t \in Q : ~(Cardinality(t) < Cardinality(s))
<1>. DEFINE T == {Cardinality(s) : s \in Q}
<1>1. T \in SUBSET Nat /\ T # {}
  BY FS_CardinalityType
<1>2. PICK n \in T : \A m \in T : ~(m < n)
  BY <1>1, LeastNumber
<1>. QED
  BY <1>2

-----------------------------------------------------------------------------
(* The length of an offer *)

SumOf(f, S) ==
  f = [s \in SUBSET S |-> IF s = {} THEN 0
                          ELSE Json[CHOOSE x \in s : TRUE] + f[s \ {CHOOSE x \in s : TRUE}]]

LEMMA FoldIs ==
  ASSUME NEW S
  PROVE  Walk!MapThenSumSet(LAMBDA e : Json[e], S) = (CHOOSE f : SumOf(f, S))[S]
  BY DEF Walk!MapThenSumSet, Walk!MapThenFoldSet, SumOf

\* The fold of a finite set is what its recursion says.
LEMMA SumExists ==
  ASSUME NEW S, IsFiniteSet(S)
  PROVE  \E f : SumOf(f, S)
<1>. DEFINE Pick(s) == CHOOSE x \in s : TRUE
            Small(n) == {s \in SUBSET S : Cardinality(s) <= n}
            Upto(f, n) == f = [s \in Small(n) |-> IF s = {} THEN 0 ELSE Json[Pick(s)] + f[s \ {Pick(s)}]]
            T == {n \in Nat : ~\E f : Upto(f, n)}
<1>1. \A s \in SUBSET S : IsFiniteSet(s) /\ Cardinality(s) \in Nat /\ Cardinality(s) <= Cardinality(S)
  BY FS_Subset, FS_CardinalityType
<1>2. \A s \in SUBSET S : s # {} => /\ Pick(s) \in s /\ s \ {Pick(s)} \in SUBSET S
                                    /\ Cardinality(s \ {Pick(s)}) = Cardinality(s) - 1
  <2>. SUFFICES ASSUME NEW s \in SUBSET S, s # {}
                PROVE  /\ Pick(s) \in s /\ s \ {Pick(s)} \in SUBSET S
                       /\ Cardinality(s \ {Pick(s)}) = Cardinality(s) - 1
    OBVIOUS
  <2>1. Pick(s) \in s
    OBVIOUS
  <2>. QED
    BY <1>1, <2>1, FS_RemoveElement
<1>3. \A s \in SUBSET S : Cardinality(s) = 0 <=> s = {}
  BY <1>1, FS_EmptySet
<1>. HIDE DEF Pick
<1>4. T = {}
  <2>1. SUFFICES ASSUME T # {}
                 PROVE  FALSE
    OBVIOUS
  <2>2. PICK n \in T : \A m \in T : ~(m < n)
    BY <2>1, LeastNumber
  <2>3. n # 0
    <3>1. \A s \in Small(0) : s = {}
      BY <1>1, <1>3
    <3>2. Upto([s \in Small(0) |-> 0], 0)
      BY <3>1
    <3>. QED
      BY <3>2
  <2>4. n - 1 \in Nat /\ n - 1 \notin T
    <3>1. n \in Nat
      BY <2>2
    <3>. HIDE DEF T
    <3>. QED
      BY <2>2, <2>3, <3>1
  <2>5. PICK f : Upto(f, n - 1)
    BY <2>4
  <2>. DEFINE g == [s \in Small(n) |-> IF s = {} THEN 0 ELSE Json[Pick(s)] + f[s \ {Pick(s)}]]
  <2>6. \A s \in Small(n) : s # {} => s \ {Pick(s)} \in Small(n - 1)
    BY <1>1, <1>2
  <2>7. \A s \in Small(n - 1) : s \in Small(n) /\ g[s] = f[s]
    <3>1. n \in Nat
      BY <2>2
    <3>2. \A s \in Small(n - 1) : s \in Small(n)
      BY <1>1, <3>1
    <3>. QED
      BY <2>5, <3>2
  <2>8. Upto(g, n)
    BY <2>6, <2>7
  <2>. QED
    BY <2>8
<1>5. Cardinality(S) \in Nat
  BY FS_CardinalityType
<1>6. PICK f : Upto(f, Cardinality(S))
  BY <1>4, <1>5
<1>7. Small(Cardinality(S)) = SUBSET S
  BY <1>1
<1>. QED
  BY <1>6, <1>7, ZenonT(40) DEF SumOf, Pick

\* The sum of a set is that of the set without any of its elements, and that element.
LEMMA SumAdds ==
  ASSUME NEW S, IsFiniteSet(S), S \subseteq Entry, Json \in [Entry -> Nat \ {0}], NEW f, SumOf(f, S)
  PROVE  /\ f[{}] = 0
         /\ \A s \in SUBSET S : f[s] \in Nat
         /\ \A s \in SUBSET S : \A e \in s : f[s] = Json[e] + f[s \ {e}]
<1>. DEFINE Pick(s) == CHOOSE x \in s : TRUE
<1>1. \A s \in SUBSET S : IsFiniteSet(s) /\ \A t \in SUBSET S : t \subseteq s /\ t # s => Cardinality(t) < Cardinality(s)
  <2>1. \A s \in SUBSET S : IsFiniteSet(s) /\ Cardinality(s) \in Nat
    BY FS_Subset, FS_CardinalityType
  <2>2. \A s, t \in SUBSET S : t \subseteq s /\ t # s =>
          Cardinality(t) <= Cardinality(s) /\ Cardinality(s) # Cardinality(t)
    BY <2>1, FS_Subset
  <2>. QED
    BY <2>1, <2>2
<1>2. /\ f[{}] = 0
      /\ \A s \in SUBSET S : s # {} => Pick(s) \in s /\ f[s] = Json[Pick(s)] + f[s \ {Pick(s)}]
  BY DEF SumOf
<1>. HIDE DEF Pick
<1>3. \A e \in S : Json[e] \in Nat
  OBVIOUS
<1>4. \A s \in SUBSET S : f[s] \in Nat
  <2>. DEFINE Q == {s \in SUBSET S : f[s] \notin Nat}
  <2>1. SUFFICES ASSUME Q # {}
                 PROVE  FALSE
    OBVIOUS
  <2>2. PICK s \in Q : \A t \in Q : ~(Cardinality(t) < Cardinality(s))
    BY <1>1, <2>1, SmallestSet
  <2>3. s # {}
    <3>1. f[s] \notin Nat
      BY <2>2
    <3>2. f[{}] = 0
      BY <1>2
    <3>3. f[{}] \in Nat
      BY <3>2
    <3>. QED
      BY <3>1, <3>3
  <2>4. Pick(s) \in s /\ s \ {Pick(s)} \in SUBSET S /\ s \ {Pick(s)} # s
    BY <1>2, <2>3
  <2>5. f[s \ {Pick(s)}] \in Nat
    BY <1>1, <2>2, <2>4
  <2>6. f[s] = Json[Pick(s)] + f[s \ {Pick(s)}] /\ Json[Pick(s)] \in Nat
    BY <1>2, <1>3, <2>3, <2>4
  <2>7. f[s] \in Nat
    BY <2>5, <2>6
  <2>. QED
    BY <2>7
<1>5. \A s \in SUBSET S : \A e \in s : f[s] = Json[e] + f[s \ {e}]
  <2>. DEFINE Q == {s \in SUBSET S : \E e \in s : f[s] # Json[e] + f[s \ {e}]}
  <2>1. SUFFICES ASSUME Q # {}
                 PROVE  FALSE
    OBVIOUS
  <2>2. PICK s \in Q : \A t \in Q : ~(Cardinality(t) < Cardinality(s))
    BY <1>1, <2>1, SmallestSet
  <2>3. PICK e \in s : f[s] # Json[e] + f[s \ {e}]
    BY <2>2
  <2>4. PICK x : x = Pick(s)
    OBVIOUS
  <2>5. x \in s /\ f[s] = Json[x] + f[s \ {x}]
    BY <1>2, <2>3, <2>4
  <2>6. x # e
    BY <2>3, <2>5
  <2>7. f[s \ {x}] = Json[e] + f[(s \ {x}) \ {e}]
    <3>1. s \ {x} \in SUBSET S /\ s \ {x} # s /\ e \in s \ {x}
      BY <2>5, <2>6
    <3>2. s \ {x} \notin Q
      BY <1>1, <2>2, <3>1
    <3>. QED
      BY <3>1, <3>2
  <2>8. f[s \ {e}] = Json[x] + f[(s \ {e}) \ {x}]
    <3>1. s \ {e} \in SUBSET S /\ s \ {e} # s /\ x \in s \ {e}
      BY <2>5, <2>6
    <3>2. s \ {e} \notin Q
      BY <1>1, <2>2, <3>1
    <3>. QED
      BY <3>1, <3>2
  <2>9. (s \ {x}) \ {e} = (s \ {e}) \ {x}
    OBVIOUS
  <2>10. PICK n, j, k : n = f[(s \ {x}) \ {e}] /\ j = Json[x] /\ k = Json[e]
    OBVIOUS
  <2>11. n \in Nat /\ j \in Nat /\ k \in Nat
    BY <1>3, <1>4, <2>3, <2>5, <2>10
  <2>12. f[s \ {x}] = k + n /\ f[s \ {e}] = j + n
    BY <2>7, <2>8, <2>9, <2>10
  <2>13. f[s] = j + (k + n) /\ f[s] # k + (j + n)
    BY <2>3, <2>5, <2>10, <2>12
  <2>. QED
    BY <2>11, <2>13
<1>. QED
  BY <1>2, <1>4, <1>5

Sum(S) == (CHOOSE f : SumOf(f, S))[S]

SomeFiles == IsFiniteSet(Entry) /\ Json \in [Entry -> Nat \ {0}]

\* Two folds agree on what both are defined for.
LEMMA SumsAgree ==
  ASSUME SomeFiles, NEW T \in SUBSET Entry, NEW S \in SUBSET T, NEW f, SumOf(f, T), NEW g, SumOf(g, S)
  PROVE  f[S] = g[S]
<1>1. /\ IsFiniteSet(T) /\ IsFiniteSet(S) /\ T \subseteq Entry /\ S \subseteq Entry
      /\ Json \in [Entry -> Nat \ {0}]
  BY FS_Subset DEF SomeFiles
<1>2. /\ f[{}] = 0
      /\ \A s \in SUBSET T : \A x \in s : f[s] = Json[x] + f[s \ {x}]
  BY <1>1, SumAdds
<1>3. /\ g[{}] = 0
      /\ \A s \in SUBSET S : \A x \in s : g[s] = Json[x] + g[s \ {x}]
  BY <1>1, SumAdds
<1>. DEFINE Q == {s \in SUBSET S : f[s] # g[s]}
<1>4. SUFFICES ASSUME Q # {}
               PROVE  FALSE
  OBVIOUS
<1>5. \A s \in Q : IsFiniteSet(s)
  BY <1>1, FS_Subset
<1>6. PICK s \in Q : \A t \in Q : ~(Cardinality(t) < Cardinality(s))
  BY <1>4, <1>5, SmallestSet
<1>7. s # {}
  BY <1>2, <1>3, <1>6
<1>8. PICK x \in s : TRUE
  BY <1>7
<1>9. Cardinality(s \ {x}) < Cardinality(s)
  <2>1. IsFiniteSet(s) /\ Cardinality(s) \in Nat
    BY <1>5, FS_CardinalityType
  <2>2. Cardinality(s \ {x}) = Cardinality(s) - 1
    BY <1>8, <2>1, FS_RemoveElement
  <2>. QED
    BY <2>1, <2>2
<1>10. s \ {x} \in SUBSET S /\ s \ {x} \notin Q
  BY <1>6, <1>9
<1>. QED
  <2>1. f[s] = Json[x] + f[s \ {x}] /\ g[s] = Json[x] + g[s \ {x}]
    BY <1>2, <1>3, <1>6, <1>8
  <2>2. f[s \ {x}] = g[s \ {x}]
    BY <1>10
  <2>. QED
    BY ONLY <1>6, <2>1, <2>2, Zenon

\* The sum over a set of entries, element by element.
LEMMA SumIs ==
  ASSUME SomeFiles, NEW S \in SUBSET Entry
  PROVE  /\ Sum({}) = 0 /\ Sum(S) \in Nat
         /\ \A e \in S : Sum(S) = Json[e] + Sum(S \ {e})
<1>1. \A U \in SUBSET Entry : SumOf(CHOOSE f : SumOf(f, U), U)
  BY FS_Subset, SumExists DEF SomeFiles
<1>2. PICK f : f = (CHOOSE h : SumOf(h, S)) /\ SumOf(f, S)
  BY <1>1
<1>3. IsFiniteSet(S) /\ Json \in [Entry -> Nat \ {0}]
  BY FS_Subset DEF SomeFiles
<1>4. /\ f[{}] = 0 /\ f[S] \in Nat
      /\ \A e \in S : f[S] = Json[e] + f[S \ {e}]
  BY <1>2, <1>3, SumAdds, SMTT(30)
<1>5. \A U \in SUBSET S : Sum(U) = f[U]
  <2>. TAKE U \in SUBSET S
  <2>1. PICK g : g = (CHOOSE h : SumOf(h, U)) /\ SumOf(g, U)
    BY <1>1
  <2>2. f[U] = g[U]
    BY <1>2, <2>1, SumsAgree
  <2>. QED
    BY <2>1, <2>2 DEF Sum
<1>. QED
  BY <1>4, <1>5

\* More files, more JSON.
LEMMA SumGrows ==
  ASSUME SomeFiles, NEW T \in SUBSET Entry, NEW S \in SUBSET T
  PROVE  Sum(S) <= Sum(T)
<1>. USE DEF SomeFiles
<1>. DEFINE Q == {U \in SUBSET Entry : S \subseteq U /\ ~(Sum(S) <= Sum(U))}
<1>1. SUFFICES ASSUME Q # {}
               PROVE  FALSE
  OBVIOUS
<1>2. \A U \in Q : IsFiniteSet(U)
  BY FS_Subset
<1>3. PICK U \in Q : \A V \in Q : ~(Cardinality(V) < Cardinality(U))
  BY <1>1, <1>2, SmallestSet
<1>4. PICK s, u : s = Sum(S) /\ u = Sum(U) /\ s \in Nat /\ u \in Nat
  BY SumIs
<1>5. U # S
  BY <1>3, <1>4
<1>6. PICK e \in U : e \notin S
  BY <1>3, <1>5
<1>7. Cardinality(U \ {e}) < Cardinality(U)
  <2>1. IsFiniteSet(U) /\ Cardinality(U) \in Nat
    BY <1>2, FS_CardinalityType
  <2>2. Cardinality(U \ {e}) = Cardinality(U) - 1
    BY <1>6, <2>1, FS_RemoveElement
  <2>. QED
    BY <2>1, <2>2
<1>8. U \ {e} \in SUBSET Entry /\ S \subseteq U \ {e} /\ U \ {e} \notin Q
  BY <1>3, <1>6, <1>7
<1>9. PICK v, j : v = Sum(U \ {e}) /\ v \in Nat /\ j = Json[e] /\ j \in Nat
  BY <1>3, <1>8, SumIs
<1>10. u = j + v /\ s <= v /\ ~(s <= u)
  <2>1. Sum(U) = Json[e] + Sum(U \ {e})
    BY <1>3, SumIs
  <2>2. Sum(S) <= Sum(U \ {e})
    BY <1>8
  <2>3. ~(Sum(S) <= Sum(U))
    BY <1>3
  <2>. QED
    BY <1>4, <1>9, <2>1, <2>2, <2>3
<1>. QED
  BY <1>4, <1>9, <1>10

LEMMA LengthIs ==
  ASSUME NEW S
  PROVE  Walk!Length(S) = IF S = {} THEN 0 ELSE Sum(S) + Cardinality(S) - 1
<1>1. Walk!MapThenSumSet(LAMBDA e : Json[e], S) = Sum(S)
  BY FoldIs DEF Sum
<1>2. Walk!Cardinality(S) = Cardinality(S)
  BY Zenon DEF Walk!Cardinality, Cardinality
<1>. QED
  BY <1>1, <1>2 DEF Walk!Length

\* The JSON of one file more, and of more files.
LEMMA LengthAdds ==
  ASSUME SomeFiles, NEW S \in SUBSET Entry, NEW e \in Entry, e \notin S
  PROVE  /\ Walk!Length(S) \in Nat
         /\ Walk!Length(S \cup {e}) = Walk!Length(S) + Json[e] + (IF S = {} THEN 0 ELSE 1)
<1>. DEFINE T == S \cup {e}
<1>1. IsFiniteSet(S) /\ Cardinality(S) \in Nat /\ (Cardinality(S) = 0 <=> S = {})
  BY FS_Subset, FS_CardinalityType, FS_EmptySet DEF SomeFiles
<1>2. T \in SUBSET Entry /\ e \in T /\ T \ {e} = S /\ T # {}
  OBVIOUS
<1>3. Sum(T) = Json[e] + Sum(S) /\ Sum(S) \in Nat /\ Sum({}) = 0
  <2>1. Sum(T) = Json[e] + Sum(T \ {e})
    BY <1>2, SumIs
  <2>. QED
    BY <1>2, <2>1, SumIs
<1>4. Cardinality(T) = Cardinality(S) + 1
  BY <1>1, FS_AddElement
<1>5. Walk!Length(T) = Sum(T) + Cardinality(T) - 1
  BY <1>2, LengthIs
<1>6. Walk!Length(S) = IF S = {} THEN 0 ELSE Sum(S) + Cardinality(S) - 1
  BY LengthIs
<1>7. Json[e] \in Nat
  BY DEF SomeFiles
<1>8. PICK j, s, n : j = Json[e] /\ s = Sum(S) /\ n = Cardinality(S) /\ j \in Nat /\ s \in Nat /\ n \in Nat
  BY <1>1, <1>3, <1>7
<1>9. Walk!Length(T) = j + s + n
  <2>1. Walk!Length(T) = (j + s) + (n + 1) - 1
    BY <1>3, <1>4, <1>5, <1>8
  <2>. QED
    BY <1>8, <2>1
<1>10. S = {} => Walk!Length(S) = 0 /\ s = 0 /\ n = 0
  BY <1>1, <1>3, <1>6, <1>8
<1>11. S # {} => Walk!Length(S) = s + n - 1 /\ n # 0
  BY <1>1, <1>6, <1>8
<1>. HIDE DEF T
<1>. QED
  BY <1>8, <1>9, <1>10, <1>11 DEF T

LEMMA LengthGrows ==
  ASSUME SomeFiles, NEW T \in SUBSET Entry, NEW S \in SUBSET T
  PROVE  Walk!Length(S) \in Nat /\ Walk!Length(T) \in Nat /\ Walk!Length(S) <= Walk!Length(T)
<1>1. /\ IsFiniteSet(S) /\ Cardinality(S) \in Nat /\ (Cardinality(S) = 0 <=> S = {})
      /\ IsFiniteSet(T) /\ Cardinality(T) \in Nat /\ (Cardinality(T) = 0 <=> T = {})
  BY FS_Subset, FS_CardinalityType, FS_EmptySet DEF SomeFiles
<1>2. Cardinality(S) <= Cardinality(T)
  BY <1>1, FS_Subset
<1>3. Sum(S) \in Nat /\ Sum(T) \in Nat /\ Sum(S) <= Sum(T)
  BY SumIs, SumGrows
<1>4. PICK s, t, m, n : /\ s = Sum(S) /\ t = Sum(T) /\ m = Cardinality(S) /\ n = Cardinality(T)
                        /\ s \in Nat /\ t \in Nat /\ m \in Nat /\ n \in Nat /\ s <= t /\ m <= n
  BY <1>1, <1>2, <1>3
<1>5. S = {} => Walk!Length(S) = 0
  BY LengthIs
<1>6. S # {} => Walk!Length(S) = s + m - 1 /\ m # 0 /\ T # {}
  BY <1>1, <1>4, LengthIs
<1>7. T = {} => Walk!Length(T) = 0
  BY LengthIs
<1>8. T # {} => Walk!Length(T) = t + n - 1 /\ n # 0
  BY <1>1, <1>4, LengthIs
<1>. QED
  BY <1>4, <1>5, <1>6, <1>7, <1>8

-----------------------------------------------------------------------------
(* The walk over what is sent *)

\* The constants, in the terms of the theorems cited.
LEMMA TreeFacts ==
  ASSUME Walk!TreesOK
  PROVE  /\ SomeFiles /\ Top \notin Entry /\ Nothing \notin Entry
         /\ Parent \in [Entry -> Entry \cup {Top}] /\ Trees \subseteq [Entry -> Walk!Kind]
         /\ \A S \in SUBSET Entry : S # {} => \E e \in S : Parent[e] \notin S
         /\ \A t \in Trees, e \in Entry : Parent[e] # Top /\ t[e] # "gone" => t[Parent[e]] = "dir"
         /\ {Envelope, MAX_TRANSFER_FILES, MAX_PREPARE_BODY_BYTES,
             MAX_REMOTE_DIRECTORY_DEPTH, MaxEdits} \subseteq Nat
<1>1. Walk!IsFiniteSet(Entry) => IsFiniteSet(Entry)
  BY DEF Walk!IsFiniteSet, IsFiniteSet
<1>. QED
  BY <1>1 DEF Walk!TreesOK, SomeFiles

DepthOf(f, D) ==
  /\ \A e \in D : Parent[e] \in D \cup {Top}
  /\ f = [e \in D |-> IF Parent[e] = Top THEN 1 ELSE f[Parent[e]] + 1]

\* No entry is below itself, so that each has a depth.
LEMMA DepthIs ==
  ASSUME Walk!TreesOK
  PROVE  \A e \in Entry : /\ Walk!Depth[e] \in Nat
                          /\ Walk!Depth[e] = IF Parent[e] = Top THEN 1
                                             ELSE Walk!Depth[Parent[e]] + 1
<1>1. /\ IsFiniteSet(Entry) /\ Top \notin Entry /\ Parent \in [Entry -> Entry \cup {Top}]
      /\ \A S \in SUBSET Entry : S # {} => \E e \in S : Parent[e] \notin S
  BY TreeFacts DEF SomeFiles
<1>2. \E f : DepthOf(f, Entry)
  <2>. DEFINE Q == {S \in SUBSET Entry : \E f : DepthOf(f, Entry \ S)}
  <2>1. Entry \in Q
    <3>1. DepthOf([e \in {} |-> 1], Entry \ Entry)
      BY DEF DepthOf
    <3>. QED
      BY <3>1
  <2>2. \A S \in Q : IsFiniteSet(S)
    BY <1>1, FS_Subset
  <2>3. PICK S \in Q : \A R \in Q : ~(Cardinality(R) < Cardinality(S))
    BY <2>1, <2>2, SmallestSet
  <2>4. PICK f : DepthOf(f, Entry \ S)
    BY <2>3
  <2>5. S = {}
    <3>1. SUFFICES ASSUME S # {}
                   PROVE  FALSE
      OBVIOUS
    <3>2. PICK e \in S : Parent[e] \notin S
      BY <1>1, <2>3, <3>1
    <3>3. Cardinality(S \ {e}) < Cardinality(S)
      <4>1. IsFiniteSet(S) /\ Cardinality(S) \in Nat
        BY <2>2, <2>3, FS_CardinalityType
      <4>2. Cardinality(S \ {e}) = Cardinality(S) - 1
        BY <3>2, <4>1, FS_RemoveElement
      <4>. QED
        BY <4>1, <4>2
    <3>4. PICK D, E : D = Entry \ S /\ E = Entry \ (S \ {e})
      OBVIOUS
    <3>5. /\ e \in Entry /\ e \notin D /\ E = D \cup {e} /\ Parent[e] \in D \cup {Top}
          /\ DepthOf(f, D)
      BY <1>1, <2>3, <2>4, <3>2, <3>4
    <3>. DEFINE g == [x \in E |-> IF Parent[x] = Top THEN 1 ELSE f[Parent[x]] + 1]
    <3>6. \A x \in D : g[x] = f[x] /\ Parent[x] \in D \cup {Top}
      BY <3>5 DEF DepthOf
    <3>7. \A x \in E : Parent[x] # Top => Parent[x] \in D /\ f[Parent[x]] = g[Parent[x]]
      BY <3>5, <3>6
    <3>8. DepthOf(g, E)
      BY <3>5, <3>7 DEF DepthOf
    <3>9. S \ {e} \in Q
      BY <2>3, <3>4, <3>8
    <3>. QED
      BY <2>3, <3>3, <3>9
  <2>6. Entry \ S = Entry
    BY <2>5
  <2>. QED
    BY <2>4, <2>6
<1>3. \E f : f = [e \in Entry |-> IF Parent[e] = Top THEN 1 ELSE f[Parent[e]] + 1]
  BY <1>2 DEF DepthOf
<1>4. Walk!Depth = [e \in Entry |-> IF Parent[e] = Top THEN 1 ELSE Walk!Depth[Parent[e]] + 1]
  BY <1>3 DEF Walk!Depth
<1>5. \A e \in Entry : Walk!Depth[e] = IF Parent[e] = Top THEN 1 ELSE Walk!Depth[Parent[e]] + 1
  BY <1>4
<1>6. {e \in Entry : Walk!Depth[e] \notin Nat} = {}
  <2>. DEFINE S == {e \in Entry : Walk!Depth[e] \notin Nat}
  <2>1. SUFFICES ASSUME S # {}
                 PROVE  FALSE
    OBVIOUS
  <2>2. PICK e \in S : Parent[e] \notin S
    BY <1>1, <2>1
  <2>3. Parent[e] = Top \/ Walk!Depth[Parent[e]] \in Nat
    BY <1>1, <2>2
  <2>4. Walk!Depth[e] \in Nat
    BY <1>5, <2>2, <2>3
  <2>. QED
    BY <2>2, <2>4
<1>. QED
  BY <1>5, <1>6

Opened == metadata \cup ({looked} \ {Nothing})
IsLeft(e) == e \in todo \/ \E i \in 1..Len(stack) : e \in stack[i].todo

\* The types, the count of files and their JSON, and how deep they and the folders are.
WalkTypes ==
  /\ kind \in [Entry -> Walk!Kind] /\ edits \in 0..MaxEdits
  /\ todo \subseteq Walk!Children(Top)
  /\ stack \in Seq([dir : Entry, todo : SUBSET Entry])
  /\ \A i \in 1..Len(stack) : /\ stack[i].todo \subseteq Walk!Children(stack[i].dir)
                              /\ Walk!Depth[stack[i].dir] <= MAX_REMOTE_DIRECTORY_DEPTH
  /\ looked \in Entry \cup {Nothing} /\ metadata \subseteq Entry
  /\ offer_size = Walk!Length(metadata)
  /\ cancelled \in BOOLEAN /\ result \in Walk!Results /\ late \in {0, 1}
  /\ Cardinality(metadata) <= MAX_TRANSFER_FILES
  /\ \A e \in Opened : Walk!Depth[e] <= MAX_REMOTE_DIRECTORY_DEPTH + 1

\* After a cancel one file is opened, and then no other is looked at.
CancelInv ==
  /\ ~cancelled => late = 0
  /\ late = 1 => looked = Nothing

\* The folders D that were entered are above all that was met, none is met twice.
EnteredInv(D) ==
  /\ \A d \in D : Parent[d] \in D \cup {Top}
  /\ \A i \in 1..Len(stack) : /\ stack[i].dir \in D
                              /\ \A e \in stack[i].todo : e \notin D
                              /\ \A j \in 1..Len(stack) : i # j => stack[i].dir # stack[j].dir
  /\ \A e \in todo : e \notin D
  /\ \A e \in Opened : Parent[e] \in D \cup {Top} /\ e \notin D /\ ~IsLeft(e)
  /\ looked \notin metadata

\* If nothing changes, all that is in a folder that was entered was opened, or waits.
MetInv(D) ==
  /\ kind \in Trees
  /\ \A d \in D : kind[d] = "dir"
  /\ \A e \in Opened : Walk!Opens(e)
  /\ \A i \in 1..Len(stack) : \A e \in stack[i].todo : kind[e] # "gone"
  /\ \A e \in Entry : Parent[e] \in D \cup {Top} /\ (kind[e] = "dir" \/ Walk!Opens(e))
                        => e \in D \/ e \in Opened \/ IsLeft(e)

UnderWay == \E D \in SUBSET Entry : EnteredInv(D) /\ (edits = 0 => MetInv(D))

WalkInv ==
  /\ WalkTypes /\ CancelInv
  /\ result = "running" => UnderWay
  /\ result # "running" => Walk!NeverPartial /\ Walk!WithinLimits /\ Walk!RefusedForCause

Frame == [dir : Entry, todo : SUBSET Entry]

LEMMA WalkCount ==
  ASSUME NEW S
  PROVE  Walk!Cardinality(S) = Cardinality(S)
  BY Zenon DEF Walk!Cardinality, Cardinality

\* What waits in a folder is in it.
LEMMA FramesAre ==
  ASSUME WalkTypes, NEW i \in 1..Len(stack)
  PROVE  /\ stack[i].dir \in Entry
         /\ Walk!Depth[stack[i].dir] <= MAX_REMOTE_DIRECTORY_DEPTH
         /\ \A e \in stack[i].todo : e \in Entry /\ Parent[e] = stack[i].dir
<1>. stack \in Seq([dir : Entry, todo : SUBSET Entry])
  BY DEF WalkTypes
<1>1. stack[i] \in [dir : Entry, todo : SUBSET Entry]
  BY ElementOfSeq
<1>2. /\ stack[i].todo \subseteq Walk!Children(stack[i].dir)
      /\ Walk!Depth[stack[i].dir] <= MAX_REMOTE_DIRECTORY_DEPTH
  BY DEF WalkTypes
<1>. QED
  BY <1>1, <1>2 DEF Walk!Children

\* What waits, waits in one place.
LEMMA WaitsOnce ==
  ASSUME Walk!TreesOK, WalkTypes, NEW D \in SUBSET Entry, EnteredInv(D),
         NEW i \in 1..Len(stack), NEW e \in stack[i].todo
  PROVE  e \in Entry /\ e \notin todo /\ \A j \in 1..Len(stack) : j # i => e \notin stack[j].todo
<1>1. \A j \in 1..Len(stack) : stack[j].dir \in Entry /\ \A x \in stack[j].todo :
          x \in Entry /\ Parent[x] = stack[j].dir
  BY FramesAre
<1>2. \A x \in todo : Parent[x] = Top
  BY DEF WalkTypes, Walk!Children
<1>3. Top \notin Entry
  BY TreeFacts
<1>4. \A j \in 1..Len(stack) : i # j => stack[i].dir # stack[j].dir
  BY DEF EnteredInv
<1>. QED
  BY <1>1, <1>2, <1>3, <1>4

\* e was taken from what waits; below is what is left in the folders being read.
Taken(e, below) ==
  /\ e \in Entry /\ IsLeft(e) /\ looked = Nothing
  /\ below \in Seq(Frame) /\ Len(below) = Len(stack)
  /\ \A i \in 1..Len(stack) : /\ below[i].dir = stack[i].dir
                              /\ below[i].todo = stack[i].todo \ {e}
  /\ todo' = todo \ {e}

\* An entry is taken and is to be opened, or is left out.
LEMMA SeenKeeps ==
  ASSUME Walk!TreesOK, WalkTypes, CancelInv, UnderWay, result = "running", ~cancelled,
         NEW e, NEW below, Taken(e, below), stack' = below,
         UNCHANGED <<kind, edits, cancelled, metadata, offer_size, result, late>>,
         \/ looked' = e /\ (edits = 0 /\ kind[e] # "gone" => Walk!Opens(e))
         \/ looked' = Nothing /\ kind[e] # "dir" /\ ~Walk!Opens(e),
         e \in todo => kind[e] # "gone"
  PROVE  WalkInv'
<1>1. PICK D \in SUBSET Entry : EnteredInv(D) /\ (edits = 0 => MetInv(D))
  BY DEF UnderWay
<1>2. e \in Entry /\ e \notin D /\ Parent[e] \in D \cup {Top} /\ e \notin metadata
  <2>1. CASE e \in todo
    BY <1>1, <2>1 DEF EnteredInv, WalkTypes, Walk!Children, Taken, Opened
  <2>2. CASE \E i \in 1..Len(stack) : e \in stack[i].todo
    BY <1>1, <2>2 DEF EnteredInv, WalkTypes, Walk!Children, Taken, Opened
  <2>. QED
    BY <2>1, <2>2 DEF Taken, IsLeft
<1>3. Nothing \notin Entry /\ Top \notin Entry
  BY TreeFacts
<1>4. \A x : IsLeft(x)' <=> IsLeft(x) /\ x # e
  BY DEF Taken, IsLeft
<1>5. Opened' = Opened \cup ({looked'} \ {Nothing})
  BY DEF Opened, Taken
<1>6. Walk!Depth[e] <= MAX_REMOTE_DIRECTORY_DEPTH + 1
  <2>1. MAX_REMOTE_DIRECTORY_DEPTH \in Nat
    BY TreeFacts
  <2>2. CASE Parent[e] = Top
    BY <1>2, <2>1, <2>2, DepthIs
  <2>3. CASE Parent[e] # Top
    <3>1. PICK i \in 1..Len(stack) : e \in stack[i].todo
      BY <2>3 DEF Taken, IsLeft, WalkTypes, Walk!Children
    <3>2. Parent[e] = stack[i].dir /\ stack[i].dir \in Entry
          /\ Walk!Depth[stack[i].dir] <= MAX_REMOTE_DIRECTORY_DEPTH
      BY <3>1, FramesAre
    <3>. QED
      BY <1>2, <2>1, <2>3, <3>2, DepthIs
  <2>. QED
    BY <2>2, <2>3
<1>7. WalkTypes'
  <2>1. stack' \in Seq([dir : Entry, todo : SUBSET Entry]) /\ todo' \subseteq Walk!Children(Top)
    BY DEF Taken, Frame, WalkTypes
  <2>2. \A i \in 1..Len(stack') : /\ stack'[i].todo \subseteq Walk!Children(stack'[i].dir)
                                  /\ Walk!Depth[stack'[i].dir] <= MAX_REMOTE_DIRECTORY_DEPTH
    BY DEF Taken, WalkTypes
  <2>3. looked' \in Entry \cup {Nothing}
    BY <1>2
  <2>4. \A x \in Opened' : Walk!Depth[x] <= MAX_REMOTE_DIRECTORY_DEPTH + 1
    BY <1>5, <1>6, <2>3 DEF WalkTypes
  <2>. QED
    BY <2>1, <2>2, <2>3, <2>4 DEF WalkTypes
<1>8. CancelInv'
  BY DEF CancelInv
<1>9. EnteredInv(D)'
  <2>1. \A i \in 1..Len(stack') : /\ stack'[i].dir \in D
                                  /\ \A x \in stack'[i].todo : x \notin D
                                  /\ \A j \in 1..Len(stack') : i # j => stack'[i].dir # stack'[j].dir
    BY <1>1 DEF EnteredInv, Taken
  <2>2. \A x \in Opened' : Parent[x] \in D \cup {Top} /\ x \notin D /\ ~IsLeft(x)'
    BY <1>1, <1>2, <1>4, <1>5 DEF EnteredInv
  <2>3. looked' \notin metadata'
    BY <1>2, <1>3 DEF WalkTypes
  <2>. QED
    BY <1>1, <2>1, <2>2, <2>3 DEF EnteredInv, Taken
<1>10. edits' = 0 => MetInv(D)'
  <2>. SUFFICES ASSUME edits = 0
                PROVE  MetInv(D)'
    OBVIOUS
  <2>1. kind[e] # "gone"
    BY <1>1 DEF MetInv, Taken, IsLeft, WalkTypes, Walk!Children
  <2>2. \A x \in Opened' : Walk!Opens(x)
    BY <1>1, <1>5, <2>1 DEF MetInv
  <2>3. \A i \in 1..Len(stack') : \A x \in stack'[i].todo : kind[x] # "gone"
    BY <1>1 DEF MetInv, Taken
  <2>4. looked' = e => e \in Opened'
    BY <1>2, <1>3, <1>5
  <2>5. \A x : Walk!Opens(x)' <=> Walk!Opens(x)
    BY DEF Walk!Opens
  <2>6. looked' = e => kind[e] # "dir"
    BY <2>1 DEF Walk!Opens
  <2>7. \A x \in Entry : Parent[x] \in D \cup {Top} /\ (kind[x] = "dir" \/ Walk!Opens(x))
                        => x \in D \/ x \in Opened' \/ IsLeft(x)'
    BY <1>1, <1>4, <1>5, <2>4 DEF MetInv
  <2>. QED
    BY <1>1, <2>2, <2>3, <2>5, <2>7 DEF MetInv
<1>. QED
  BY <1>7, <1>8, <1>9, <1>10 DEF WalkInv, UnderWay

\* The walk ends with an error of this entry, or because it was cancelled.
LEMMA FailKeeps ==
  ASSUME WalkTypes, CancelInv, NEW why, Walk!Fails(why),
         why \in Walk!Results \ {"running", "ok"},
         UNCHANGED <<kind, edits, cancelled>>, todo' \subseteq todo, Walk!RefusedForCause'
  PROVE  WalkInv'
<1>1. result' = why /\ UNCHANGED <<stack, looked, metadata, offer_size, late>>
  BY DEF Walk!Fails
<1>2. WalkTypes'
  BY <1>1 DEF WalkTypes, Opened
<1>3. CancelInv'
  BY <1>1 DEF CancelInv
<1>4. Walk!NeverPartial' /\ Walk!WithinLimits'
  BY <1>1 DEF Walk!NeverPartial, Walk!WithinLimits
<1>. QED
  BY <1>1, <1>2, <1>3, <1>4 DEF WalkInv

\* A folder is entered, or is too deep.
LEMMA EnterKeeps ==
  ASSUME Walk!TreesOK, WalkTypes, CancelInv, UnderWay, result = "running", ~cancelled,
         NEW d, NEW below, Taken(d, below), Walk!Enter(d, below), kind[d] = "dir",
         UNCHANGED <<kind, edits, cancelled>>
  PROVE  WalkInv'
<1>1. PICK D \in SUBSET Entry : EnteredInv(D) /\ (edits = 0 => MetInv(D))
  BY DEF UnderWay
<1>2. d \in Entry /\ d \notin D /\ Parent[d] \in D \cup {Top} /\ d \notin Opened /\ IsLeft(d)
  <2>1. CASE d \in todo
    BY <1>1, <2>1 DEF EnteredInv, WalkTypes, Walk!Children, Taken, IsLeft
  <2>2. CASE \E i \in 1..Len(stack) : d \in stack[i].todo
    <3>1. PICK i \in 1..Len(stack) : d \in stack[i].todo
      BY <2>2
    <3>2. Parent[d] = stack[i].dir /\ stack[i].dir \in D /\ d \notin D
      BY <1>1, <3>1, FramesAre DEF EnteredInv
    <3>. QED
      BY <1>1, <3>1, <3>2 DEF EnteredInv, Taken, IsLeft
  <2>. QED
    BY <2>1, <2>2 DEF Taken, IsLeft
<1>3. Nothing \notin Entry /\ Top \notin Entry
  BY TreeFacts
<1>4. Walk!Depth[d] \in Nat /\ MAX_REMOTE_DIRECTORY_DEPTH \in Nat
  BY <1>2, DepthIs, TreeFacts
<1>5. CASE Walk!Depth[d] > MAX_REMOTE_DIRECTORY_DEPTH
  <2>1. Walk!Fails("too_deep")
    BY <1>5 DEF Walk!Enter
  <2>2. Walk!RefusedForCause'
    BY <1>2, <1>5, <2>1 DEF Walk!RefusedForCause, Walk!Fails
  <2>3. "too_deep" \in Walk!Results \ {"running", "ok"} /\ todo' \subseteq todo
    BY DEF Walk!Results, Taken
  <2>. QED
    BY <2>1, <2>2, <2>3, FailKeeps
<1>6. CASE ~(Walk!Depth[d] > MAX_REMOTE_DIRECTORY_DEPTH)
  <2>. DEFINE kids == {e \in Walk!Children(d) : kind[e] # "gone"}
              top == [dir |-> d, todo |-> kids]
  <2>1. /\ stack' = <<top>> \o below
        /\ UNCHANGED <<looked, metadata, offer_size, result, late>>
    BY <1>6 DEF Walk!Enter, Walk!Goes
  <2>2. top \in Frame /\ top.dir = d /\ top.todo = kids
    BY <1>2 DEF Frame, Walk!Children
  <2>3. \A x : x \in kids <=> x \in Entry /\ Parent[x] = d /\ kind[x] # "gone"
    BY DEF Walk!Children
  <2>. HIDE DEF top, kids
  <2>4. /\ stack' \in Seq(Frame) /\ Len(stack') = Len(stack) + 1 /\ stack'[1] = top
        /\ \A i \in 1..Len(stack') : i = 1 \/ (i - 1 \in 1..Len(stack) /\ stack'[i] = below[i - 1])
        /\ \A i \in 1..Len(stack) : i + 1 \in 1..Len(stack') /\ stack'[i + 1] = below[i]
    <3>1. below \in Seq(Frame) /\ Len(below) = Len(stack) /\ stack' = <<top>> \o below
      BY <2>1 DEF Taken
    <3>2. Len(below) \in Nat
      BY <3>1
    <3>. QED
      BY <2>2, <3>1, <3>2
  <2>5. \A i \in 1..Len(stack) : /\ below[i].dir = stack[i].dir
                                 /\ below[i].todo = stack[i].todo \ {d}
    BY DEF Taken
  <2>6. \A x : IsLeft(x)' <=> (IsLeft(x) /\ x # d) \/ x \in kids
    <3>1. \A x : (\E i \in 1..Len(stack') : x \in stack'[i].todo)
                   <=> x \in kids \/ \E i \in 1..Len(stack) : x \in stack[i].todo /\ x # d
      <4>1. 1 \in 1..Len(stack')
        <5>1. Len(stack) \in Nat
          BY DEF WalkTypes
        <5>. QED
          BY <2>4, <5>1
      <4>2. ASSUME NEW x, NEW i \in 1..Len(stack'), x \in stack'[i].todo
            PROVE  x \in kids \/ \E j \in 1..Len(stack) : x \in stack[j].todo /\ x # d
        <5>1. CASE i = 1
          BY <2>2, <2>4, <4>2, <5>1
        <5>2. CASE i # 1
          <6>1. PICK j \in 1..Len(stack) : stack'[i] = below[j]
            BY <2>4, <5>2
          <6>2. x \in stack[j].todo \ {d}
            BY <2>5, <4>2, <6>1
          <6>. QED
            BY <6>2
        <5>. QED
          BY <5>1, <5>2
      <4>3. ASSUME NEW x, NEW i \in 1..Len(stack), x \in stack[i].todo /\ x # d
            PROVE  \E j \in 1..Len(stack') : x \in stack'[j].todo
        <5>1. x \in below[i].todo
          BY <2>5, <4>3
        <5>2. i + 1 \in 1..Len(stack') /\ stack'[i + 1] = below[i]
          BY <2>4
        <5>. QED
          BY <5>1, <5>2
      <4>4. \A x : x \in kids => x \in stack'[1].todo
        BY <2>2, <2>4
      <4>. QED
        BY <4>1, <4>2, <4>3, <4>4
    <3>2. d \notin kids
      <4>1. Parent[d] # d
        BY <1>2, <1>3
      <4>. QED
        BY <2>3, <4>1
    <3>. QED
      BY <3>1, <3>2 DEF IsLeft, Taken
  <2>7. Opened' = Opened
    BY <2>1 DEF Opened
  <2>8. WalkTypes'
    <3>1. stack' \in Seq([dir : Entry, todo : SUBSET Entry])
      BY <2>4 DEF Frame
    <3>2. ASSUME NEW i \in 1..Len(stack')
          PROVE  /\ stack'[i].todo \subseteq Walk!Children(stack'[i].dir)
                 /\ Walk!Depth[stack'[i].dir] <= MAX_REMOTE_DIRECTORY_DEPTH
      <4>1. CASE i = 1
        BY <1>4, <1>6, <2>2, <2>3, <2>4, <4>1 DEF Walk!Children
      <4>2. CASE i # 1
        <5>1. i - 1 \in 1..Len(stack) /\ stack'[i] = below[i - 1]
          BY <2>4, <4>2
        <5>2. PICK j \in 1..Len(stack) : stack'[i] = below[j]
          BY <5>1
        <5>3. stack'[i].dir = stack[j].dir /\ stack'[i].todo = stack[j].todo \ {d}
          BY <2>5, <5>2
        <5>. QED
          BY <5>3 DEF WalkTypes
      <4>. QED
        BY <4>1, <4>2
    <3>3. todo' \subseteq Walk!Children(Top)
      BY DEF WalkTypes, Taken
    <3>. QED
      BY <2>1, <2>7, <3>1, <3>2, <3>3 DEF WalkTypes
  <2>9. CancelInv'
    BY <2>1 DEF CancelInv
  <2>. DEFINE E == D \cup {d}
  <2>10. \A x \in kids : x \notin E /\ ~IsLeft(x) /\ x \notin Opened
    <3>. SUFFICES ASSUME NEW x \in kids
                  PROVE  x \notin E /\ ~IsLeft(x) /\ x \notin Opened
      OBVIOUS
    <3>1. Parent[x] = d /\ x \in Entry
      BY <2>3
    <3>2. d \notin D \cup {Top} /\ Parent[d] # d
      BY <1>2, <1>3
    <3>3. x \notin todo
      BY <1>3, <1>2, <3>1 DEF WalkTypes, Walk!Children
    <3>4. \A i \in 1..Len(stack) : x \notin stack[i].todo
      BY <1>1, <3>1, <3>2, FramesAre DEF EnteredInv
    <3>. QED
      BY <1>1, <3>1, <3>2, <3>3, <3>4 DEF EnteredInv, IsLeft
  <2>11. EnteredInv(E)'
    <3>1. \A x \in E : Parent[x] \in E \cup {Top}
      BY <1>1, <1>2 DEF EnteredInv
    <3>2. \A i \in 1..Len(stack') : stack'[i].dir \in E
      <4>1. \A i \in 1..Len(stack) : below[i].dir \in E
        BY <1>1, <2>5 DEF EnteredInv
      <4>. QED
        BY <2>2, <2>4, <4>1
    <3>3. \A x : IsLeft(x)' => x \notin E
      <4>1. \A x : IsLeft(x) => x \notin D
        BY <1>1 DEF EnteredInv, IsLeft
      <4>. QED
        BY <2>6, <2>10, <4>1
    <3>4. \A i, j \in 1..Len(stack') : i # j => stack'[i].dir # stack'[j].dir
      <4>1. \A i \in 1..Len(stack) : below[i].dir # d
        BY <1>1, <1>2, <2>5 DEF EnteredInv
      <4>2. \A i, j \in 1..Len(stack) : i # j => below[i].dir # below[j].dir
        BY <1>1, <2>5 DEF EnteredInv
      <4>3. \A i, j \in 1..Len(stack') : i # j /\ i # 1 /\ j # 1 => i - 1 # j - 1
        <5>1. Len(stack) \in Nat
          BY DEF WalkTypes
        <5>. QED
          BY <5>1
      <4>. QED
        BY <2>2, <2>4, <4>1, <4>2, <4>3, SMTT(30)
    <3>5. \A x \in Opened' : Parent[x] \in E \cup {Top} /\ x \notin E /\ ~IsLeft(x)'
      BY <1>1, <1>2, <2>6, <2>7, <2>10 DEF EnteredInv
    <3>6. looked' \notin metadata'
      BY <1>1, <2>1 DEF EnteredInv
    <3>. QED
      BY <3>1, <3>2, <3>3, <3>4, <3>5, <3>6 DEF EnteredInv, IsLeft
  <2>12. edits' = 0 => MetInv(E)'
    <3>. SUFFICES ASSUME edits = 0
                  PROVE  MetInv(E)'
      OBVIOUS
    <3>1. kind \in Trees /\ \A x \in E : kind[x] = "dir"
      BY <1>1 DEF MetInv
    <3>2. \A x : Walk!Opens(x)' <=> Walk!Opens(x)
      BY DEF Walk!Opens
    <3>3. \A x \in Opened : Walk!Opens(x)
      BY <1>1 DEF MetInv
    <3>4. \A i \in 1..Len(stack') : \A x \in stack'[i].todo : kind[x] # "gone"
      <4>1. \A i \in 1..Len(stack) : \A x \in below[i].todo : kind[x] # "gone"
        BY <1>1, <2>5 DEF MetInv
      <4>2. \A x \in kids : kind[x] # "gone"
        BY <2>3
      <4>. QED
        BY <2>2, <2>4, <4>1, <4>2
    <3>5. ASSUME NEW x \in Entry, Parent[x] \in E \cup {Top}, kind[x] = "dir" \/ Walk!Opens(x)
          PROVE  x \in E \/ x \in Opened \/ IsLeft(x)'
      <4>1. CASE Parent[x] = d
        BY <2>3, <2>6, <3>5, <4>1 DEF Walk!Opens
      <4>2. CASE Parent[x] \in D \cup {Top}
        BY <1>1, <2>6, <3>5, <4>2 DEF MetInv
      <4>. QED
        BY <3>5, <4>1, <4>2
    <3>. QED
      BY <2>7, <3>1, <3>2, <3>3, <3>4, <3>5 DEF MetInv
  <2>13. E \in SUBSET Entry /\ result' = "running"
    BY <1>2, <2>1
  <2>. QED
    BY <2>8, <2>9, <2>11, <2>12, <2>13 DEF WalkInv, UnderWay
<1>. QED
  BY <1>5, <1>6

LEMMA OtherCodes ==
  ASSUME result \notin {"too_many_files", "too_deep", "offer_too_large"}
  PROVE  Walk!RefusedForCause
  BY DEF Walk!RefusedForCause

\* A selected entry.
LEMMA WalkSelect ==
  ASSUME Walk!TreesOK, WalkInv, NEW e \in Entry, Walk!Select(e)
  PROVE  WalkInv'
<1>1. /\ result = "running" /\ looked = Nothing /\ stack = <<>> /\ e \in todo
      /\ todo' = todo \ {e} /\ UNCHANGED <<kind, edits, cancelled>>
  BY DEF Walk!Select
<1>2. WalkTypes /\ CancelInv /\ UnderWay
  BY <1>1 DEF WalkInv
<1>3. Taken(e, <<>>)
  BY <1>1 DEF Taken, IsLeft
<1>4. Parent[e] = Top
  BY <1>1, <1>2 DEF WalkTypes, Walk!Children
<1>5. CASE ~cancelled /\ kind[e] = "dir"
  <2>1. Walk!Enter(e, <<>>)
    BY <1>5 DEF Walk!Select
  <2>. QED
    BY <1>1, <1>2, <1>3, <1>5, <2>1, EnterKeeps
<1>6. CASE ~cancelled /\ kind[e] \in {"file", "link"}
  <2>1. looked' = e /\ UNCHANGED <<stack, metadata, offer_size, result, late>>
    BY <1>6 DEF Walk!Select, Walk!Goes
  <2>2. Walk!Opens(e) /\ kind[e] # "gone" /\ stack' = <<>>
    BY <1>1, <1>4, <1>6, <2>1 DEF Walk!Opens
  <2>. QED
    BY <1>1, <1>2, <1>3, <1>6, <2>1, <2>2, SeenKeeps
<1>7. CASE cancelled \/ kind[e] \in {"fifo", "gone", "bad name"}
  <2>1. PICK why \in {"cancelled", "not_regular", "unreadable", "invalid_utf8"} : Walk!Fails(why)
    BY <1>7 DEF Walk!Select
  <2>2. why \in Walk!Results \ {"running", "ok"} /\ todo' \subseteq todo
    BY <1>1 DEF Walk!Results
  <2>3. Walk!RefusedForCause'
    BY <2>1 DEF Walk!RefusedForCause, Walk!Fails
  <2>. QED
    BY <1>1, <1>2, <2>1, <2>2, <2>3, FailKeeps
<1>8. kind[e] \in Walk!Kind
  BY <1>2 DEF WalkTypes
<1>. QED
  BY <1>5, <1>6, <1>7, <1>8 DEF Walk!Kind

\* An entry of the folder being read.
LEMMA WalkLook ==
  ASSUME Walk!TreesOK, WalkInv, NEW e \in Entry, Walk!Look(e)
  PROVE  WalkInv'
<1>1. /\ result = "running" /\ looked = Nothing /\ stack # <<>> /\ e \in stack[1].todo
      /\ UNCHANGED <<kind, edits, cancelled, todo>>
  BY DEF Walk!Look
<1>2. WalkTypes /\ CancelInv /\ UnderWay
  BY <1>1 DEF WalkInv
<1>3. stack \in Seq(Frame) /\ 1 \in 1..Len(stack) /\ Len(stack) \in Nat
  <2>1. stack \in Seq(Frame)
    BY <1>2 DEF WalkTypes, Frame
  <2>. QED
    BY <1>1, <2>1
<1>4. PICK D \in SUBSET Entry : EnteredInv(D) /\ (edits = 0 => MetInv(D))
  BY <1>2 DEF UnderWay
<1>5. e \notin todo /\ \A j \in 1..Len(stack) : j # 1 => e \notin stack[j].todo
  BY <1>1, <1>2, <1>3, <1>4, WaitsOnce
<1>6. Parent[e] # Top
  <2>1. Parent[e] = stack[1].dir /\ stack[1].dir \in Entry
    BY <1>1, <1>2, <1>3, FramesAre
  <2>. QED
    BY <2>1, TreeFacts
<1>7. Taken(e, Walk!Left(e))
  <2>. DEFINE top == [stack[1] EXCEPT !.todo = @ \ {e}]
  <2>1. stack[1] \in Frame
    BY <1>3, ElementOfSeq
  <2>2. top \in Frame /\ top.dir = stack[1].dir /\ top.todo = stack[1].todo \ {e}
    BY <2>1 DEF Frame
  <2>3. Walk!Left(e) = [stack EXCEPT ![1] = top]
    BY DEF Walk!Left
  <2>. HIDE DEF top
  <2>4. /\ Walk!Left(e) \in Seq(Frame) /\ Len(Walk!Left(e)) = Len(stack)
        /\ \A i \in 1..Len(stack) : Walk!Left(e)[i] = IF i = 1 THEN top ELSE stack[i]
    BY <1>3, <2>2, <2>3
  <2>5. \A i \in 1..Len(stack) : /\ Walk!Left(e)[i].dir = stack[i].dir
                                 /\ Walk!Left(e)[i].todo = stack[i].todo \ {e}
    BY <1>5, <2>2, <2>4
  <2>6. todo' = todo \ {e}
    BY <1>1, <1>5
  <2>7. IsLeft(e)
    BY <1>1, <1>3 DEF IsLeft
  <2>. QED
    BY <1>1, <2>4, <2>5, <2>6, <2>7 DEF Taken
<1>8. CASE ~cancelled /\ kind[e] = "dir"
  <2>1. Walk!Enter(e, Walk!Left(e))
    BY <1>8 DEF Walk!Look, Walk!Found
  <2>. QED
    BY <1>1, <1>2, <1>7, <1>8, <2>1, EnterKeeps
<1>9. CASE ~cancelled /\ kind[e] \in {"file", "gone", "link"}
  <2>1. /\ stack' = Walk!Left(e) /\ UNCHANGED <<metadata, offer_size, result, late>>
        /\ looked' = IF kind[e] = "link" THEN Nothing ELSE e
    BY <1>1, <1>9 DEF Walk!Look, Walk!Found, Walk!Goes
  <2>2. \/ looked' = e /\ (edits = 0 /\ kind[e] # "gone" => Walk!Opens(e))
        \/ looked' = Nothing /\ kind[e] # "dir" /\ ~Walk!Opens(e)
    BY <1>6, <1>9, <2>1 DEF Walk!Opens
  <2>. QED
    BY <1>1, <1>2, <1>5, <1>7, <1>9, <2>1, <2>2, SeenKeeps
<1>10. CASE cancelled \/ kind[e] \in {"fifo", "bad name"}
  <2>1. PICK why \in {"cancelled", "unsupported_entry", "invalid_utf8"} : Walk!Fails(why)
    BY <1>10 DEF Walk!Look, Walk!Found
  <2>2. why \in Walk!Results \ {"running", "ok"} /\ todo' \subseteq todo
    BY <1>1 DEF Walk!Results
  <2>3. Walk!RefusedForCause'
    BY <2>1 DEF Walk!RefusedForCause, Walk!Fails
  <2>. QED
    BY <1>1, <1>2, <2>1, <2>2, <2>3, FailKeeps
<1>11. kind[e] \in Walk!Kind
  BY <1>2 DEF WalkTypes
<1>. QED
  BY <1>8, <1>9, <1>10, <1>11 DEF Walk!Kind

\* A folder was read.
LEMMA WalkLeave ==
  ASSUME WalkInv, Walk!Leave
  PROVE  WalkInv'
<1>1. /\ result = "running" /\ looked = Nothing /\ stack # <<>> /\ stack[1].todo = {}
      /\ stack' = Tail(stack)
      /\ UNCHANGED <<kind, edits, cancelled, todo, looked, metadata, offer_size, result, late>>
  BY DEF Walk!Leave, Walk!Goes
<1>2. WalkTypes /\ CancelInv /\ UnderWay
  BY <1>1 DEF WalkInv
<1>3. stack \in Seq(Frame)
  BY <1>2 DEF WalkTypes, Frame
<1>4. /\ stack' \in Seq(Frame) /\ Len(stack') = Len(stack) - 1 /\ Len(stack) \in Nat
      /\ \A i \in 1..Len(stack') : i + 1 \in 1..Len(stack) /\ stack'[i] = stack[i + 1]
      /\ \A i \in 1..Len(stack) : i = 1 \/ (i - 1 \in 1..Len(stack') /\ stack'[i - 1] = stack[i])
  <2>1. Len(stack) \in Nat /\ Len(stack) > 0
    BY <1>1, <1>3
  <2>2. stack' \in Seq(Frame) /\ Len(stack') = Len(stack) - 1
    BY <1>1, <1>3, <2>1
  <2>3. \A i \in 1..(Len(stack) - 1) : stack'[i] = stack[i + 1]
    BY <1>1, <1>3, <2>1
  <2>. QED
    BY <2>1, <2>2, <2>3
<1>5. Opened' = Opened
  BY <1>1 DEF Opened
<1>6. \A x : IsLeft(x)' <=> IsLeft(x)
  <2>1. ASSUME NEW x, NEW i \in 1..Len(stack), x \in stack[i].todo
        PROVE  \E j \in 1..Len(stack') : x \in stack'[j].todo
    BY <1>1, <1>4, <2>1
  <2>2. ASSUME NEW x, NEW i \in 1..Len(stack'), x \in stack'[i].todo
        PROVE  \E j \in 1..Len(stack) : x \in stack[j].todo
    BY <1>4, <2>2
  <2>. QED
    BY <1>1, <2>1, <2>2 DEF IsLeft
<1>7. WalkTypes'
  <2>1. \A i \in 1..Len(stack') : /\ stack'[i].todo \subseteq Walk!Children(stack'[i].dir)
                                  /\ Walk!Depth[stack'[i].dir] <= MAX_REMOTE_DIRECTORY_DEPTH
    BY <1>2, <1>4 DEF WalkTypes
  <2>2. stack' \in Seq([dir : Entry, todo : SUBSET Entry])
    BY <1>4 DEF Frame
  <2>. QED
    BY <1>1, <1>2, <1>5, <2>1, <2>2 DEF WalkTypes
<1>8. CancelInv'
  BY <1>1, <1>2 DEF CancelInv
<1>9. PICK D \in SUBSET Entry : EnteredInv(D) /\ (edits = 0 => MetInv(D))
  BY <1>2 DEF UnderWay
<1>10. EnteredInv(D)'
  <2>1. \A i \in 1..Len(stack') : /\ stack'[i].dir \in D
                                  /\ \A x \in stack'[i].todo : x \notin D
    BY <1>4, <1>9 DEF EnteredInv
  <2>2. \A i, j \in 1..Len(stack') : i # j => stack'[i].dir # stack'[j].dir
    <3>. SUFFICES ASSUME NEW i \in 1..Len(stack'), NEW j \in 1..Len(stack'), i # j
                  PROVE  stack'[i].dir # stack'[j].dir
      OBVIOUS
    <3>1. i + 1 \in 1..Len(stack) /\ j + 1 \in 1..Len(stack) /\ i + 1 # j + 1
      BY <1>4
    <3>2. stack[i + 1].dir # stack[j + 1].dir
      BY <1>9, <3>1 DEF EnteredInv
    <3>. QED
      BY <1>4, <3>2
  <2>. QED
    BY <1>1, <1>5, <1>6, <1>9, <2>1, <2>2 DEF EnteredInv
<1>11. edits' = 0 => MetInv(D)'
  <2>1. \A x : Walk!Opens(x)' <=> Walk!Opens(x)
    BY <1>1 DEF Walk!Opens
  <2>2. edits = 0 => \A i \in 1..Len(stack') : \A x \in stack'[i].todo : kind[x] # "gone"
    BY <1>4, <1>9 DEF MetInv
  <2>. QED
    BY <1>1, <1>5, <1>6, <1>9, <2>1, <2>2 DEF MetInv
<1>. QED
  BY <1>1, <1>7, <1>8, <1>10, <1>11 DEF WalkInv, UnderWay

Files == {e \in Entry : Walk!Opens(e)}

\* The file that was looked at is opened and noted, or the walk ends with an error.
LEMMA WalkAdd ==
  ASSUME Walk!TreesOK, WalkInv, Walk!add_file
  PROVE  WalkInv'
<1>1. /\ result = "running" /\ looked # Nothing
      /\ UNCHANGED <<kind, edits, cancelled, todo>>
  BY DEF Walk!add_file
<1>2. WalkTypes /\ CancelInv /\ UnderWay
  BY <1>1 DEF WalkInv
<1>3. PICK D \in SUBSET Entry : EnteredInv(D) /\ (edits = 0 => MetInv(D))
  BY <1>2 DEF UnderWay
<1>4. /\ looked \in Entry /\ looked \notin metadata /\ metadata \in SUBSET Entry
      /\ Opened = metadata \cup {looked}
  BY <1>1, <1>2, <1>3 DEF WalkTypes, EnteredInv, Opened
<1>5. SomeFiles /\ Envelope \in Nat /\ MAX_TRANSFER_FILES \in Nat /\ MAX_PREPARE_BODY_BYTES \in Nat
  BY TreeFacts
<1>6. edits = 0 => metadata \cup {looked} \in SUBSET Files
  BY <1>3, <1>4 DEF MetInv, Files
<1>7. /\ IsFiniteSet(metadata) /\ Cardinality(metadata) \in Nat
      /\ Cardinality(metadata \cup {looked}) = Cardinality(metadata) + 1
      /\ IsFiniteSet(Files) /\ Cardinality(Files) \in Nat
  <2>1. IsFiniteSet(metadata) /\ IsFiniteSet(Files)
    BY <1>4, <1>5, FS_Subset DEF Files, SomeFiles
  <2>2. Cardinality(metadata \cup {looked}) = Cardinality(metadata) + 1
    BY <1>4, <2>1, FS_AddElement
  <2>. QED
    BY <2>1, <2>2, FS_CardinalityType
<1>8. \A x : Walk!Opens(x)' <=> Walk!Opens(x)
  BY <1>1 DEF Walk!Opens
<1>9. Walk!Full <=> ~(Cardinality(metadata) < MAX_TRANSFER_FILES)
  BY <1>5, <1>7, WalkCount DEF Walk!Full
<1>10. /\ Walk!Length(metadata) \in Nat
       /\ Walk!Length(metadata \cup {looked}) = Walk!Grown(looked)
       /\ Walk!Grown(looked) \in Nat
  <2>1. /\ Walk!Length(metadata) \in Nat
        /\ Walk!Length(metadata \cup {looked})
              = Walk!Length(metadata) + Json[looked] + (IF metadata = {} THEN 0 ELSE 1)
    BY <1>4, <1>5, LengthAdds
  <2>2. offer_size = Walk!Length(metadata)
    BY <1>2 DEF WalkTypes
  <2>3. Json[looked] \in Nat
    BY <1>4, <1>5 DEF SomeFiles
  <2>. QED
    BY <2>1, <2>2, <2>3 DEF Walk!Grown
<1>11. CASE Walk!Full
  <2>1. Walk!Fails("too_many_files")
    BY <1>11 DEF Walk!add_file
  <2>2. edits = 0 => Cardinality(Files) > MAX_TRANSFER_FILES
    <3>. SUFFICES ASSUME edits = 0
                  PROVE  Cardinality(Files) > MAX_TRANSFER_FILES
      OBVIOUS
    <3>1. Cardinality(metadata \cup {looked}) <= Cardinality(Files)
      BY <1>6, <1>7, FS_Subset
    <3>. QED
      BY <1>5, <1>7, <1>9, <1>11, <3>1
  <2>3. Walk!RefusedForCause'
    <3>1. result' = "too_many_files" /\ edits' = edits
      BY <1>1, <2>1 DEF Walk!Fails
    <3>2. edits' = 0 => Walk!Cardinality({x \in Entry : Walk!Opens(x)'}) > MAX_TRANSFER_FILES
      BY <1>8, <2>2, <3>1, WalkCount DEF Files
    <3>. QED
      BY <3>1, <3>2 DEF Walk!RefusedForCause
  <2>4. "too_many_files" \in Walk!Results \ {"running", "ok"} /\ todo' \subseteq todo
    BY <1>1 DEF Walk!Results
  <2>. QED
    BY <1>1, <1>2, <2>1, <2>3, <2>4, FailKeeps
<1>12. CASE ~Walk!Full /\ ~Walk!Opens(looked)
  <2>1. PICK why \in {"not_regular", "unreadable"} : Walk!Fails(why)
    BY <1>12 DEF Walk!add_file
  <2>2. why \in Walk!Results \ {"running", "ok"} /\ todo' \subseteq todo
    BY <1>1 DEF Walk!Results
  <2>3. Walk!RefusedForCause'
    BY <2>1 DEF Walk!RefusedForCause, Walk!Fails
  <2>. QED
    BY <1>1, <1>2, <2>1, <2>2, <2>3, FailKeeps
<1>13. CASE ~Walk!Full /\ Walk!Opens(looked) /\ Walk!Grown(looked) > MAX_PREPARE_BODY_BYTES
  <2>1. Walk!Fails("offer_too_large")
    BY <1>13 DEF Walk!add_file
  <2>2. edits = 0 => Envelope + Walk!Length(Files) > MAX_PREPARE_BODY_BYTES
    <3>. SUFFICES ASSUME edits = 0
                  PROVE  Envelope + Walk!Length(Files) > MAX_PREPARE_BODY_BYTES
      OBVIOUS
    <3>1. Files \in SUBSET Entry
      BY DEF Files
    <3>2. /\ Walk!Length(Files) \in Nat
          /\ Walk!Length(metadata \cup {looked}) <= Walk!Length(Files)
      BY <1>5, <1>6, <3>1, LengthGrows
    <3>. QED
      BY <1>5, <1>10, <1>13, <3>2
  <2>3. Walk!RefusedForCause'
    <3>1. result' = "offer_too_large" /\ edits' = edits
      BY <1>1, <2>1 DEF Walk!Fails
    <3>2. edits' = 0 => Envelope + Walk!Length({x \in Entry : Walk!Opens(x)'}) > MAX_PREPARE_BODY_BYTES
      BY <1>8, <2>2, <3>1 DEF Files
    <3>. QED
      BY <3>1, <3>2 DEF Walk!RefusedForCause
  <2>4. "offer_too_large" \in Walk!Results \ {"running", "ok"} /\ todo' \subseteq todo
    BY <1>1 DEF Walk!Results
  <2>. QED
    BY <1>1, <1>2, <2>1, <2>3, <2>4, FailKeeps
<1>14. CASE ~Walk!Full /\ Walk!Opens(looked) /\ ~(Walk!Grown(looked) > MAX_PREPARE_BODY_BYTES)
  <2>1. /\ metadata' = metadata \cup {looked} /\ offer_size' = Walk!Grown(looked)
        /\ looked' = Nothing /\ late' = late + (IF cancelled THEN 1 ELSE 0)
        /\ UNCHANGED <<stack, result>>
    BY <1>14 DEF Walk!add_file
  <2>2. Opened' = Opened
    BY <1>4, <2>1 DEF Opened
  <2>3. late' \in {0, 1} /\ CancelInv'
    BY <1>1, <1>2, <2>1 DEF CancelInv, WalkTypes
  <2>4. WalkTypes'
    <3>1. offer_size' = Walk!Length(metadata')
      BY <1>10, <2>1
    <3>2. Cardinality(metadata') <= MAX_TRANSFER_FILES
      BY <1>5, <1>7, <1>9, <1>14, <2>1
    <3>3. metadata' \subseteq Entry
      BY <1>4, <2>1
    <3>. QED
      BY <1>1, <1>2, <2>1, <2>2, <2>3, <3>1, <3>2, <3>3 DEF WalkTypes
  <2>5. \A x : IsLeft(x)' <=> IsLeft(x)
    BY <1>1, <2>1 DEF IsLeft
  <2>6. EnteredInv(D)'
    <3>1. looked' \notin metadata'
      BY <1>4, <2>1, TreeFacts
    <3>. QED
      BY <1>1, <1>3, <2>1, <2>2, <2>5, <3>1 DEF EnteredInv
  <2>7. edits' = 0 => MetInv(D)'
    BY <1>1, <1>3, <1>8, <2>1, <2>2, <2>5 DEF MetInv
  <2>. QED
    BY <1>1, <2>1, <2>3, <2>4, <2>6, <2>7 DEF WalkInv, UnderWay
<1>. QED
  BY <1>11, <1>12, <1>13, <1>14

\* When nothing is left and nothing changed, every file was noted.
LEMMA AllMet ==
  ASSUME Walk!TreesOK, WalkTypes, NEW D \in SUBSET Entry, EnteredInv(D), MetInv(D),
         looked = Nothing, stack = <<>>, todo = {}
  PROVE  metadata = Files
<1>1. Opened = metadata /\ \A x : ~IsLeft(x)
  BY DEF Opened, IsLeft
<1>2. metadata \subseteq Files
  BY <1>1 DEF MetInv, Files, WalkTypes
<1>3. Files \subseteq metadata
  <2>. DEFINE S == {e \in Entry : (kind[e] = "dir" \/ Walk!Opens(e)) /\ e \notin D \cup metadata}
  <2>1. S = {}
    <3>1. SUFFICES ASSUME S # {}
                   PROVE  FALSE
      OBVIOUS
    <3>2. PICK e \in S : Parent[e] \notin S
      <4>1. S \in SUBSET Entry
        OBVIOUS
      <4>. QED
        BY <3>1, <4>1, TreeFacts
    <3>3. Parent[e] \notin D \cup {Top}
      BY <1>1, <3>2 DEF MetInv
    <3>4. Parent[e] \in Entry /\ kind[Parent[e]] = "dir"
      <4>1. Parent[e] \in Entry /\ kind[e] # "gone" /\ kind \in Trees
        BY <3>2, <3>3, TreeFacts DEF MetInv, Walk!Opens
      <4>. QED
        BY <3>2, <3>3, <4>1, TreeFacts
    <3>5. Parent[e] \notin metadata
      BY <1>2, <3>4 DEF Files, Walk!Opens
    <3>. QED
      BY <3>2, <3>3, <3>4, <3>5
  <2>2. \A e \in Files : e \notin D
    BY DEF MetInv, Files, Walk!Opens
  <2>. QED
    BY <2>1, <2>2 DEF Files
<1>. QED
  BY <1>2, <1>3

\* The end of the walk.
LEMMA WalkFinish ==
  ASSUME Walk!TreesOK, WalkInv, Walk!Finish
  PROVE  WalkInv'
<1>1. /\ result = "running" /\ looked = Nothing /\ stack = <<>> /\ todo = {}
      /\ UNCHANGED <<kind, edits, cancelled, todo>>
  BY DEF Walk!Finish
<1>2. WalkTypes /\ CancelInv /\ UnderWay
  BY <1>1 DEF WalkInv
<1>3. edits = 0 => metadata = Files
  <2>. SUFFICES ASSUME edits = 0
                PROVE  metadata = Files
    OBVIOUS
  <2>1. PICK D \in SUBSET Entry : EnteredInv(D) /\ MetInv(D)
    BY <1>2 DEF UnderWay
  <2>. QED
    BY <1>1, <1>2, <2>1, AllMet
<1>4. /\ SomeFiles /\ Envelope \in Nat /\ MAX_PREPARE_BODY_BYTES \in Nat
      /\ metadata \in SUBSET Entry /\ offer_size = Walk!Length(metadata)
  BY <1>2, TreeFacts DEF WalkTypes
<1>5. Walk!Length(metadata) \in Nat
  <2>1. metadata \in SUBSET metadata
    OBVIOUS
  <2>. QED
    BY <1>4, <2>1, LengthGrows
<1>6. \A x : Walk!Opens(x)' <=> Walk!Opens(x)
  BY <1>1 DEF Walk!Opens
<1>7. PICK why \in {"no_files", "offer_too_large", "ok"} :
        /\ Walk!Fails(why)
        /\ why = "offer_too_large" => Envelope + offer_size > MAX_PREPARE_BODY_BYTES
        /\ why = "ok" => Envelope + offer_size <= MAX_PREPARE_BODY_BYTES
  <2>1. CASE metadata = {}
    <3>1. Walk!Fails("no_files")
      BY <2>1 DEF Walk!Finish
    <3>. QED
      BY <3>1
  <2>2. CASE metadata # {} /\ Envelope + offer_size > MAX_PREPARE_BODY_BYTES
    <3>1. Walk!Fails("offer_too_large")
      BY <1>4, <1>5, <2>2 DEF Walk!Finish
    <3>. QED
      BY <2>2, <3>1
  <2>3. CASE metadata # {} /\ Envelope + offer_size <= MAX_PREPARE_BODY_BYTES
    <3>1. Walk!Fails("ok")
      BY <2>3 DEF Walk!Finish
    <3>. QED
      BY <2>3, <3>1
  <2>. QED
    BY <1>4, <1>5, <2>1, <2>2, <2>3
<1>8. result' = why /\ UNCHANGED <<stack, looked, metadata, offer_size, late>>
  BY <1>7 DEF Walk!Fails
<1>9. Walk!RefusedForCause'
  <2>1. why = "offer_too_large" /\ edits = 0
          => Envelope + Walk!Length({x \in Entry : Walk!Opens(x)'}) > MAX_PREPARE_BODY_BYTES
    BY <1>3, <1>4, <1>6, <1>7 DEF Files
  <2>. QED
    BY <1>1, <1>7, <1>8, <2>1 DEF Walk!RefusedForCause
<1>10. CASE why # "ok"
  <2>1. why \in Walk!Results \ {"running", "ok"} /\ todo' \subseteq todo
    BY <1>1, <1>7, <1>10 DEF Walk!Results
  <2>. QED
    BY <1>1, <1>2, <1>7, <1>9, <2>1, FailKeeps
<1>11. CASE why = "ok"
  <2>1. WalkTypes'
    BY <1>1, <1>2, <1>7, <1>8 DEF WalkTypes, Opened, Walk!Results
  <2>2. CancelInv'
    BY <1>1, <1>2, <1>8 DEF CancelInv
  <2>3. Walk!NeverPartial'
    BY <1>1, <1>3, <1>8 DEF Walk!NeverPartial, Files, Walk!Opens
  <2>4. Walk!WithinLimits'
    <3>1. Walk!Cardinality(metadata') <= MAX_TRANSFER_FILES
      BY <2>1, WalkCount DEF WalkTypes
    <3>2. \A e \in metadata' : Walk!Depth[e] <= MAX_REMOTE_DIRECTORY_DEPTH + 1
      BY <2>1 DEF WalkTypes, Opened
    <3>3. Envelope + Walk!Length(metadata') <= MAX_PREPARE_BODY_BYTES
      BY <1>4, <1>7, <1>8, <1>11
    <3>. QED
      BY <3>1, <3>2, <3>3 DEF Walk!WithinLimits
  <2>. QED
    BY <1>8, <1>9, <1>11, <2>1, <2>2, <2>3, <2>4 DEF WalkInv
<1>. QED
  BY <1>10, <1>11

\* Other programs, and the user.
LEMMA WalkOthers ==
  ASSUME Walk!TreesOK, WalkInv, Walk!Cancel \/ \E e \in Entry : Walk!Change(e)
  PROVE  WalkInv'
<1>1. /\ result = "running" /\ UNCHANGED <<todo, stack, looked, metadata, offer_size, result, late>>
      /\ \/ UNCHANGED <<kind, edits>> /\ ~cancelled /\ cancelled' = TRUE
         \/ /\ edits' = edits + 1 /\ edits < MaxEdits /\ UNCHANGED cancelled
            /\ \E e \in Entry, k \in {"file", "link", "fifo", "gone"} : kind' = [kind EXCEPT ![e] = k]
  BY DEF Walk!Cancel, Walk!Change, Walk!walk
<1>2. WalkTypes /\ CancelInv /\ UnderWay
  BY <1>1 DEF WalkInv
<1>3. PICK D \in SUBSET Entry : EnteredInv(D) /\ (edits = 0 => MetInv(D))
  BY <1>2 DEF UnderWay
<1>4. \A x : IsLeft(x)' <=> IsLeft(x)
  BY <1>1 DEF IsLeft
<1>5. Opened' = Opened
  BY <1>1 DEF Opened
<1>6. kind' \in [Entry -> Walk!Kind] /\ edits' \in 0..MaxEdits /\ cancelled' \in BOOLEAN
      /\ (edits' = 0 => UNCHANGED <<kind, edits>>)
  <2>1. MaxEdits \in Nat /\ edits \in 0..MaxEdits /\ kind \in [Entry -> Walk!Kind] /\ cancelled \in BOOLEAN
    BY <1>2, TreeFacts DEF WalkTypes
  <2>2. kind' \in [Entry -> Walk!Kind]
    BY <1>1, <2>1 DEF Walk!Kind
  <2>3. cancelled' \in BOOLEAN
    BY <1>1, <2>1
  <2>4. edits' \in 0..MaxEdits /\ (edits' = 0 => UNCHANGED <<kind, edits>>)
    BY <1>1, <2>1
  <2>. QED
    BY <2>2, <2>3, <2>4
<1>7. WalkTypes'
  BY <1>1, <1>2, <1>5, <1>6 DEF WalkTypes
<1>8. CancelInv'
  BY <1>1, <1>2 DEF CancelInv
<1>9. EnteredInv(D)'
  BY <1>1, <1>3, <1>4, <1>5 DEF EnteredInv
<1>10. edits' = 0 => MetInv(D)'
  <2>1. edits' = 0 => \A x : Walk!Opens(x)' <=> Walk!Opens(x)
    BY <1>6 DEF Walk!Opens
  <2>. QED
    BY <1>1, <1>3, <1>4, <1>5, <1>6, <2>1 DEF MetInv
<1>. QED
  BY <1>1, <1>7, <1>8, <1>9, <1>10 DEF WalkInv, UnderWay

LEMMA WalkStart ==
  ASSUME Walk!TreesOK, Walk!Init
  PROVE  WalkInv
<1>. USE DEF Walk!Init
<1>1. /\ SomeFiles /\ Trees \subseteq [Entry -> Walk!Kind] /\ Nothing \notin Entry
      /\ MAX_TRANSFER_FILES \in Nat /\ MaxEdits \in Nat
  BY TreeFacts
<1>2. Walk!Length({}) = 0
  BY LengthIs
<1>3. Cardinality({}) = 0
  BY FS_EmptySet
<1>4. Opened = {}
  BY DEF Opened
<1>5. WalkTypes
  <2>1. stack \in Seq([dir : Entry, todo : SUBSET Entry]) /\ Len(stack) = 0
    OBVIOUS
  <2>2. kind \in [Entry -> Walk!Kind] /\ edits \in 0..MaxEdits /\ cancelled \in BOOLEAN
    <3>1. kind \in Trees /\ cancelled = FALSE /\ edits = 0
      OBVIOUS
    <3>2. edits \in 0..MaxEdits
      BY <1>1, <3>1
    <3>. QED
      BY <1>1, <3>1, <3>2
  <2>3. Cardinality(metadata) <= MAX_TRANSFER_FILES /\ offer_size = Walk!Length(metadata)
    BY <1>1, <1>2, <1>3
  <2>4. \A i \in 1..Len(stack) : FALSE
    BY <2>1
  <2>5. result \in Walk!Results /\ late \in {0, 1} /\ todo \subseteq Walk!Children(Top)
    BY DEF Walk!Results
  <2>6. looked \in Entry \cup {Nothing} /\ metadata \subseteq Entry
    OBVIOUS
  <2>. HIDE DEF Walk!Init
  <2>. QED
    BY <1>4, <2>1, <2>2, <2>3, <2>4, <2>5, <2>6 DEF WalkTypes
<1>6. EnteredInv({})
  BY <1>4 DEF EnteredInv
<1>7. MetInv({})
  <2>1. \A e \in Entry : Parent[e] \in {Top} => e \in todo
    BY DEF Walk!Children
  <2>. QED
    BY <1>4, <2>1 DEF MetInv, IsLeft
<1>. QED
  BY <1>5, <1>6, <1>7 DEF WalkInv, CancelInv, UnderWay

LEMMA WalkAlways == HelperSpec => []WalkInv
<1>. USE InstancesAssumption
<1>1. HelperInit => WalkInv
  BY WalkStart DEF HelperInit
<1>2. WalkInv /\ [HelperNext]_helper_vars => WalkInv'
  <2>. SUFFICES ASSUME WalkInv, [HelperNext]_helper_vars
                PROVE  WalkInv'
    OBVIOUS
  <2>1. CASE Walk!Next
    <3>1. CASE \E e \in Entry : Walk!Select(e)
      BY <3>1, WalkSelect
    <3>2. CASE \E e \in Entry : Walk!Look(e)
      BY <3>2, WalkLook
    <3>3. CASE Walk!Leave
      BY <3>3, WalkLeave
    <3>4. CASE Walk!add_file
      BY <3>4, WalkAdd
    <3>5. CASE Walk!Finish
      BY <3>5, WalkFinish
    <3>6. CASE Walk!Cancel \/ \E e \in Entry : Walk!Change(e)
      BY <3>6, WalkOthers
    <3>. QED
      BY <2>1, <3>1, <3>2, <3>3, <3>4, <3>5, <3>6 DEF Walk!Next, Walk!Walk
  <2>2. CASE UNCHANGED walk
    <3>1. UNCHANGED <<kind, edits, todo, stack, looked, metadata, offer_size, cancelled, result, late>>
      BY <2>2 DEF walk
    <3>2. Opened' = Opened /\ \A x : IsLeft(x)' <=> IsLeft(x)
      BY <3>1 DEF Opened, IsLeft
    <3>3. \A x : Walk!Opens(x)' <=> Walk!Opens(x)
      BY <3>1 DEF Walk!Opens
    <3>4. WalkTypes' /\ CancelInv'
      BY <3>1, <3>2 DEF WalkInv, WalkTypes, CancelInv
    <3>5. UnderWay => UnderWay'
      <4>1. \A D \in SUBSET Entry : EnteredInv(D) => EnteredInv(D)'
        BY <3>1, <3>2 DEF EnteredInv
      <4>2. \A D \in SUBSET Entry : MetInv(D) => MetInv(D)'
        BY <3>1, <3>2, <3>3 DEF MetInv
      <4>. QED
        BY <3>1, <4>1, <4>2 DEF UnderWay
    <3>6. /\ Walk!NeverPartial => Walk!NeverPartial'
          /\ Walk!WithinLimits => Walk!WithinLimits'
          /\ Walk!RefusedForCause => Walk!RefusedForCause'
      BY <3>1, <3>3 DEF Walk!NeverPartial, Walk!WithinLimits, Walk!RefusedForCause
    <3>. QED
      BY <3>1, <3>4, <3>5, <3>6 DEF WalkInv
  <2>. QED
    BY <2>1, <2>2 DEF HelperNext, helper_vars
<1>. QED
  BY <1>1, <1>2, PTL DEF HelperSpec

\* Whatever is selected, changed or cancelled meanwhile, an offer has every regular file of
\* the selection if nothing changed, and is within the limits on files, depth and length; a
\* limit refuses only what exceeds it, and after a cancel one file more is opened at most
\* (main.rs:802-965, docs/USAGE.md:23-30).
THEOREM OffersAreRight == HelperSpec => []OfferIsRight
<1>1. WalkInv => Walk!OfferIsRight
  <2>. SUFFICES ASSUME WalkInv
                PROVE  Walk!OfferIsRight
    OBVIOUS
  <2>1. Walk!TypeOK
    BY DEF Walk!TypeOK, WalkInv, WalkTypes
  <2>2. Walk!NeverPartial /\ Walk!WithinLimits
    BY DEF WalkInv, Walk!NeverPartial, Walk!WithinLimits
  <2>3. Walk!RefusedForCause
    BY OtherCodes DEF WalkInv
  <2>4. Walk!CancelStops
    BY DEF Walk!CancelStops, WalkInv, WalkTypes
  <2>. QED
    BY <2>1, <2>2, <2>3, <2>4 DEF Walk!OfferIsRight
<1>2. WalkInv => OfferIsRight
  BY <1>1 DEF OfferIsRight
<1>. QED
  BY <1>2, WalkAlways, PTL
-----------------------------------------------------------------------------
(* Numbers in bits *)

LEMMA PowersAre ==
  ASSUME Bits \in Nat
  PROVE  /\ Scan!TwoTo[0] = 1
         /\ \A k \in 0..Bits : Scan!TwoTo[k] \in Nat /\ Scan!TwoTo[k] > 0
         /\ \A k \in 0..(Bits - 1) : Scan!TwoTo[k + 1] = 2 * Scan!TwoTo[k]
<1>. DEFINE Upto(f, n) == f = [k \in 0..n |-> IF k = 0 THEN 1 ELSE 2 * f[k - 1]]
            T == {n \in Nat : ~\E f : Upto(f, n)}
<1>1. T = {}
  <2>1. SUFFICES ASSUME T # {}
                 PROVE  FALSE
    OBVIOUS
  <2>2. PICK n \in T : \A m \in T : ~(m < n)
    BY <2>1, LeastNumber
  <2>3. n \in Nat /\ n # 0
    <3>1. Upto([k \in 0..0 |-> 1], 0)
      OBVIOUS
    <3>. QED
      BY <2>2, <3>1
  <2>4. n - 1 \in Nat /\ n - 1 \notin T
    <3>. HIDE DEF T
    <3>. QED
      BY <2>2, <2>3
  <2>5. PICK f : Upto(f, n - 1)
    BY <2>4
  <2>. DEFINE g == [k \in 0..n |-> IF k = 0 THEN 1 ELSE 2 * f[k - 1]]
  <2>6. \A k \in 0..(n - 1) : g[k] = f[k]
    BY <2>3, <2>5
  <2>7. Upto(g, n)
    <3>1. \A k \in 0..n : k # 0 => k - 1 \in 0..(n - 1)
      BY <2>3
    <3>2. \A k \in 0..n : k # 0 => f[k - 1] = g[k - 1]
      BY <2>6, <3>1
    <3>. QED
      BY <3>2
  <2>. QED
    BY <2>2, <2>7
<1>2. PICK f : Upto(f, Bits)
  BY <1>1
<1>3. Scan!TwoTo = [k \in 0..Bits |-> IF k = 0 THEN 1 ELSE 2 * Scan!TwoTo[k - 1]]
  BY <1>2 DEF Scan!TwoTo
<1>4. Scan!TwoTo[0] = 1 /\ \A k \in 0..(Bits - 1) : Scan!TwoTo[k + 1] = 2 * Scan!TwoTo[k]
  BY <1>3
<1>5. {k \in 0..Bits : ~(Scan!TwoTo[k] \in Nat /\ Scan!TwoTo[k] > 0)} = {}
  <2>. DEFINE S == {k \in 0..Bits : ~(Scan!TwoTo[k] \in Nat /\ Scan!TwoTo[k] > 0)}
  <2>1. SUFFICES ASSUME S # {}
                 PROVE  FALSE
    OBVIOUS
  <2>2. PICK k \in S : \A j \in S : ~(j < k)
    <3>1. S \in SUBSET Nat
      OBVIOUS
    <3>. QED
      BY <2>1, <3>1, LeastNumber
  <2>3. k # 0
    BY <1>4, <2>2
  <2>4. k - 1 \in 0..(Bits - 1) /\ k - 1 \notin S /\ (k - 1) + 1 = k /\ k - 1 \in 0..Bits
    BY <2>2, <2>3
  <2>5. Scan!TwoTo[k - 1] \in Nat /\ Scan!TwoTo[k - 1] > 0
    BY <2>4
  <2>6. Scan!TwoTo[k] = 2 * Scan!TwoTo[k - 1]
    BY <1>4, <2>4
  <2>. QED
    BY <2>2, <2>5, <2>6
<1>. QED
  BY <1>4, <1>5

LEMMA PowersGrow ==
  ASSUME Bits \in Nat, NEW j \in 0..Bits, NEW k \in 0..Bits, j < k
  PROVE  Scan!TwoTo[j] < Scan!TwoTo[k]
<1>. DEFINE S == {n \in 0..Bits : j < n /\ ~(Scan!TwoTo[j] < Scan!TwoTo[n])}
<1>1. SUFFICES ASSUME S # {}
               PROVE  FALSE
  OBVIOUS
<1>2. PICK n \in S : \A m \in S : ~(m < n)
  <2>1. S \in SUBSET Nat
    OBVIOUS
  <2>. QED
    BY <1>1, <2>1, LeastNumber
<1>3. n - 1 \in 0..(Bits - 1) /\ n - 1 \in 0..Bits /\ (n - 1) + 1 = n /\ n - 1 \notin S /\ ~(n - 1 < j)
  BY <1>2
<1>4. /\ Scan!TwoTo[n] = 2 * Scan!TwoTo[n - 1]
      /\ Scan!TwoTo[n - 1] \in Nat /\ Scan!TwoTo[n - 1] > 0 /\ Scan!TwoTo[j] \in Nat
  BY <1>3, PowersAre
<1>5. n - 1 = j \/ Scan!TwoTo[j] < Scan!TwoTo[n - 1]
  BY <1>3
<1>. QED
  BY <1>2, <1>4, <1>5

\* Division by a number, and by its double.
LEMMA Divides ==
  ASSUME NEW a \in Nat, NEW p \in Nat, p > 0
  PROVE  /\ a \div p \in Nat /\ a % p \in Nat /\ a % p < p /\ a = p * (a \div p) + (a % p)
         /\ 2 * p > 0 /\ a \div (2 * p) = (a \div p) \div 2
         /\ a \div p = 2 * (a \div (2 * p)) + ((a \div p) % 2)
         /\ (a \div p) % 2 \in {0, 1}
<1>1. a \div p \in Nat /\ a % p \in 0..(p - 1)
  OBVIOUS
<1>2. a - (a % p) = p * (a \div p)
  OBVIOUS
<1>3. a \div (2 * p) = (a \div p) \div 2
  OBVIOUS
<1>4. \A q \in Nat : q = 2 * (q \div 2) + (q % 2) /\ q % 2 \in {0, 1}
  OBVIOUS
<1>5. PICK q : q = a \div p
  OBVIOUS
<1>6. p * (a \div p) \in Int
  BY <1>1
<1>7. a = p * (a \div p) + (a % p)
  BY <1>1, <1>2, <1>6
<1>8. a \div p = 2 * (a \div (2 * p)) + ((a \div p) % 2) /\ (a \div p) % 2 \in {0, 1}
  BY <1>1, <1>3, <1>4, <1>5
<1>. QED
  BY <1>1, <1>3, <1>7, <1>8

LEMMA Doubles ==
  ASSUME NEW a \in Nat, NEW p \in Nat, p > 0
  PROVE  a % (2 * p) = (a % p) + (IF (a \div p) % 2 = 1 THEN p ELSE 0)
<1>1. PICK q, h, b, r : /\ q = a \div p /\ h = a \div (2 * p) /\ b = (a \div p) % 2 /\ r = a % p
  OBVIOUS
<1>2. /\ q \in Nat /\ h \in Nat /\ b \in {0, 1} /\ r \in Nat /\ r < p
      /\ a = p * q + r /\ q = 2 * h + b
  <2>1. 2 * p \in Nat /\ 2 * p > 0
    OBVIOUS
  <2>2. a \div (2 * p) \in Nat
    BY <2>1, Divides
  <2>. QED
    BY <1>1, <2>2, Divides
<1>3. PICK s : s = a % (2 * p) /\ s \in Nat /\ a = (2 * p) * h + s
  <2>1. 2 * p \in Nat /\ 2 * p > 0
    OBVIOUS
  <2>2. a % (2 * p) \in Nat /\ a = (2 * p) * (a \div (2 * p)) + (a % (2 * p))
    BY <2>1, Divides
  <2>. QED
    BY <1>1, <2>2
<1>4. PICK m : m = p * h /\ m \in Int
  BY <1>2
<1>5. p * q = 2 * m + p * b
  <2>1. p * q = p * (2 * h + b)
    BY <1>2
  <2>2. p * (2 * h + b) = 2 * (p * h) + p * b
    BY <1>2
  <2>. QED
    BY <1>4, <2>1, <2>2
<1>6. (2 * p) * h = 2 * m
  BY <1>2, <1>4
<1>7. p * b = IF b = 1 THEN p ELSE 0
  BY <1>2
<1>8. PICK u : u = (IF b = 1 THEN p ELSE 0) /\ u \in Nat
  OBVIOUS
<1>9. a = (2 * m + u) + r /\ a = 2 * m + s
  BY <1>2, <1>3, <1>5, <1>6, <1>7, <1>8
<1>10. s = r + u
  BY <1>2, <1>3, <1>4, <1>8, <1>9
<1>. QED
  BY <1>1, <1>3, <1>8, <1>10

\* The bits below k are all clear, or all set, when the remainder is the least, or the
\* greatest.
LEMMA LowBits ==
  ASSUME Bits \in Nat, NEW a \in Nat, NEW k \in 0..Bits
  PROVE  /\ a % Scan!TwoTo[k] = 0 <=> \A b \in 0..(k - 1) : ~Scan!IsSet(a, b)
         /\ a % Scan!TwoTo[k] = Scan!TwoTo[k] - 1 <=> \A b \in 0..(k - 1) : Scan!IsSet(a, b)
<1>. DEFINE Correct(n) ==
              /\ a % Scan!TwoTo[n] = 0 <=> \A b \in 0..(n - 1) : ~Scan!IsSet(a, b)
              /\ a % Scan!TwoTo[n] = Scan!TwoTo[n] - 1 <=> \A b \in 0..(n - 1) : Scan!IsSet(a, b)
            S == {n \in 0..Bits : ~Correct(n)}
<1>1. SUFFICES ASSUME S # {}
               PROVE  FALSE
  OBVIOUS
<1>2. PICK n \in S : \A m \in S : ~(m < n)
  <2>1. S \in SUBSET Nat
    OBVIOUS
  <2>. QED
    BY <1>1, <2>1, LeastNumber
<1>3. Correct(0)
  <2>1. Scan!TwoTo[0] = 1
    BY PowersAre
  <2>2. a % 1 = 0
    OBVIOUS
  <2>3. 0..(0 - 1) = {}
    OBVIOUS
  <2>. QED
    BY <2>1, <2>2, <2>3
<1>4. n - 1 \in 0..(Bits - 1) /\ n - 1 \in 0..Bits /\ (n - 1) + 1 = n /\ n - 1 \notin S
  <2>1. n # 0
    BY <1>2, <1>3
  <2>. QED
    BY <1>2, <2>1
<1>5. Correct(n - 1)
  BY <1>4
<1>6. PICK p : p = Scan!TwoTo[n - 1] /\ p \in Nat /\ p > 0 /\ Scan!TwoTo[n] = 2 * p
  BY <1>4, PowersAre
<1>7. Scan!IsSet(a, n - 1) <=> (a \div p) % 2 = 1
  BY <1>6 DEF Scan!IsSet
<1>8. a % (2 * p) = (a % p) + (IF Scan!IsSet(a, n - 1) THEN p ELSE 0)
  BY <1>6, <1>7, Doubles
<1>9. a % p \in Nat /\ a % p < p
  BY <1>6, Divides
<1>10. \A b : b \in 0..(n - 1) <=> b \in 0..((n - 1) - 1) \/ b = n - 1
  BY <1>4
<1>11. PICK r : r = a % p
  OBVIOUS
<1>12. /\ r = 0 <=> \A b \in 0..((n - 1) - 1) : ~Scan!IsSet(a, b)
       /\ r = p - 1 <=> \A b \in 0..((n - 1) - 1) : Scan!IsSet(a, b)
  BY <1>5, <1>6, <1>11
<1>13. /\ a % (2 * p) = 0 <=> r = 0 /\ ~Scan!IsSet(a, n - 1)
       /\ a % (2 * p) = (2 * p) - 1 <=> r = p - 1 /\ Scan!IsSet(a, n - 1)
  BY <1>6, <1>8, <1>9, <1>11
<1>14. Correct(n)
  BY <1>6, <1>10, <1>12, <1>13
<1>. QED
  BY <1>2, <1>14

LEMMA HalfOf ==
  ASSUME Bits \in Nat, NEW a \in Nat, NEW k \in 0..(Bits - 1)
  PROVE  /\ a \div Scan!TwoTo[k] \in Nat /\ a \div Scan!TwoTo[k + 1] \in Nat
         /\ a \div Scan!TwoTo[k] = 2 * (a \div Scan!TwoTo[k + 1])
                                     + (IF Scan!IsSet(a, k) THEN 1 ELSE 0)
<1>1. PICK p : p = Scan!TwoTo[k] /\ p \in Nat /\ p > 0 /\ Scan!TwoTo[k + 1] = 2 * p
  BY PowersAre
<1>2. 2 * p \in Nat /\ 2 * p > 0
  BY <1>1
<1>3. a \div p \in Nat /\ a \div (2 * p) \in Nat
  BY <1>1, <1>2, Divides
<1>4. a \div p = 2 * (a \div (2 * p)) + ((a \div p) % 2) /\ (a \div p) % 2 \in {0, 1}
  BY <1>1, Divides
<1>5. Scan!IsSet(a, k) <=> (a \div p) % 2 = 1
  BY <1>1 DEF Scan!IsSet
<1>. QED
  BY <1>1, <1>3, <1>4, <1>5

LEMMA NoneAbove ==
  ASSUME Bits \in Nat, NEW a \in Nat
  PROVE  a \div Scan!TwoTo[Bits] = 0 <=> a \in Scan!Address
<1>1. PICK p : p = Scan!TwoTo[Bits] /\ p \in Nat /\ p > 0
  BY PowersAre
<1>2. a < p => a \div p = 0
  BY <1>1
<1>3. a \div p = 0 => a < p
  <2>1. a % p \in Nat /\ a % p < p /\ a = p * (a \div p) + (a % p)
    BY <1>1, Divides
  <2>2. p * 0 = 0
    BY <1>1
  <2>. QED
    BY <1>1, <2>1, <2>2
<1>. QED
  BY <1>1, <1>2, <1>3 DEF Scan!Address

\* Two addresses agree on the bits from k on when they are in one block of 2^k.
LEMMA HighBits ==
  ASSUME Bits \in Nat, NEW a \in Scan!Address, NEW c \in Scan!Address, NEW k \in 0..Bits
  PROVE  a \div Scan!TwoTo[k] = c \div Scan!TwoTo[k] <=> Scan!Agree(a, c, k..(Bits - 1))
<1>0. a \in Nat /\ c \in Nat
  BY DEF Scan!Address
<1>. DEFINE Correct(n) == a \div Scan!TwoTo[n] = c \div Scan!TwoTo[n]
                          <=> \A b \in n..(Bits - 1) : Scan!IsSet(a, b) <=> Scan!IsSet(c, b)
            S == {n \in 0..Bits : ~Correct(Bits - n)}
<1>1. S = {}
  <2>1. SUFFICES ASSUME S # {}
                 PROVE  FALSE
    OBVIOUS
  <2>2. PICK n \in S : \A m \in S : ~(m < n)
    <3>1. S \in SUBSET Nat
      OBVIOUS
    <3>. QED
      BY <2>1, <3>1, LeastNumber
  <2>3. Correct(Bits - 0)
    <3>1. a \div Scan!TwoTo[Bits] = 0 /\ c \div Scan!TwoTo[Bits] = 0
      BY <1>0, NoneAbove
    <3>2. Bits..(Bits - 1) = {} /\ Bits - 0 = Bits
      OBVIOUS
    <3>. QED
      BY <3>1, <3>2
  <2>4. n # 0
    BY <2>2, <2>3
  <2>5. PICK j : j = Bits - n /\ j \in 0..(Bits - 1) /\ j + 1 = Bits - (n - 1) /\ n - 1 \in 0..Bits
    BY <2>2, <2>4
  <2>6. Correct(j + 1)
    <3>1. n - 1 \notin S
      BY <2>2, <2>5
    <3>. QED
      BY <2>5, <3>1
  <2>7. PICK x, y, u, v : /\ x = a \div Scan!TwoTo[j] /\ u = a \div Scan!TwoTo[j + 1]
                          /\ y = c \div Scan!TwoTo[j] /\ v = c \div Scan!TwoTo[j + 1]
    OBVIOUS
  <2>8. /\ x \in Nat /\ u \in Nat /\ x = 2 * u + (IF Scan!IsSet(a, j) THEN 1 ELSE 0)
        /\ y \in Nat /\ v \in Nat /\ y = 2 * v + (IF Scan!IsSet(c, j) THEN 1 ELSE 0)
    BY <1>0, <2>5, <2>7, HalfOf
  <2>9. x = y <=> u = v /\ (Scan!IsSet(a, j) <=> Scan!IsSet(c, j))
    BY <2>8
  <2>10. \A b : b \in j..(Bits - 1) <=> b = j \/ b \in (j + 1)..(Bits - 1)
    BY <2>5
  <2>11. Correct(j)
    BY <2>6, <2>7, <2>9, <2>10
  <2>. QED
    BY <2>2, <2>5, <2>11
<1>2. Bits - k \in 0..Bits /\ Bits - (Bits - k) = k
  OBVIOUS
<1>3. Correct(k)
  BY <1>1, <1>2
<1>. QED
  BY <1>3 DEF Scan!Agree

\* Two numbers in one block of 2^k are addresses together.
LEMMA BlocksStay ==
  ASSUME Bits \in Nat, NEW a \in Nat, NEW c \in Scan!Address, NEW k \in 0..Bits,
         a \div Scan!TwoTo[k] = c \div Scan!TwoTo[k]
  PROVE  a \in Scan!Address
<1>0. c \in Nat
  BY DEF Scan!Address
<1>. DEFINE S == {n \in 0..Bits : k <= n /\ a \div Scan!TwoTo[n] # c \div Scan!TwoTo[n]}
<1>1. S = {}
  <2>1. SUFFICES ASSUME S # {}
                 PROVE  FALSE
    OBVIOUS
  <2>2. PICK n \in S : \A m \in S : ~(m < n)
    <3>1. S \in SUBSET Nat
      OBVIOUS
    <3>. QED
      BY <2>1, <3>1, LeastNumber
  <2>3. n # k
    BY <2>2
  <2>4. PICK j : j = n - 1 /\ j \in 0..(Bits - 1) /\ j + 1 = n /\ k <= j /\ j \notin S
    BY <2>2, <2>3
  <2>5. a \div Scan!TwoTo[j] = c \div Scan!TwoTo[j]
    BY <2>4
  <2>6. PICK x, u, v : /\ x = a \div Scan!TwoTo[j] /\ u = a \div Scan!TwoTo[j + 1]
                       /\ v = c \div Scan!TwoTo[j + 1]
    OBVIOUS
  <2>7. /\ x \in Nat /\ u \in Nat /\ x = 2 * u + (IF Scan!IsSet(a, j) THEN 1 ELSE 0)
        /\ v \in Nat /\ x = 2 * v + (IF Scan!IsSet(c, j) THEN 1 ELSE 0)
    BY <1>0, <2>4, <2>5, <2>6, HalfOf
  <2>8. u = v
    BY <2>7
  <2>. QED
    BY <2>2, <2>4, <2>6, <2>8
<1>2. a \div Scan!TwoTo[Bits] = c \div Scan!TwoTo[Bits]
  BY <1>1
<1>. QED
  BY <1>0, <1>2, NoneAbove

-----------------------------------------------------------------------------
(* The addresses that are probed *)

LEMMA OnlyOne ==
  ASSUME NEW a \in Nat, NEW p \in Nat, p > 0, NEW q \in Nat, NEW h \in 0..(p - 1), a = p * q + h
  PROVE  q = a \div p /\ h = a % p
  OBVIOUS

\* The hosts of a block are its addresses but the first and the last.
LEMMA HostsAre ==
  ASSUME Bits \in Nat, NEW c \in Scan!Address, NEW k \in 0..Bits, NEW a
  PROVE  a \in Scan!Hosts(<<c - (c % Scan!TwoTo[k]), Scan!TwoTo[k]>>)
           <=> /\ a \in Scan!Address /\ a \div Scan!TwoTo[k] = c \div Scan!TwoTo[k]
               /\ a % Scan!TwoTo[k] \notin {0, Scan!TwoTo[k] - 1}
<1>0. c \in Nat
  BY DEF Scan!Address
<1>1. PICK p : p = Scan!TwoTo[k] /\ p \in Nat /\ p > 0
  BY PowersAre
<1>2. PICK q, s : q = c \div p /\ q \in Nat /\ s = c - (c % p) /\ s = p * q /\ s \in Nat
  <2>1. c \div p \in Nat /\ c % p \in Nat /\ c = p * (c \div p) + (c % p)
    BY <1>0, <1>1, Divides
  <2>2. PICK q, r, t : q = c \div p /\ r = c % p /\ t = p * q
    OBVIOUS
  <2>3. t \in Nat
    <3>1. q \in Nat /\ p \in Nat /\ t = p * q
      BY <1>1, <2>1, <2>2
    <3>2. \A m, n \in Nat : m * n \in Nat
      OBVIOUS
    <3>. QED
      BY ONLY <3>1, <3>2, Zenon
  <2>4. c - r = t
    BY <1>0, <2>1, <2>2, <2>3
  <2>. QED
    BY <2>1, <2>2, <2>3, <2>4
<1>3. a \in Scan!Hosts(<<s, p>>) <=> \E h \in 1..(p - 2) : a = s + h
  BY DEF Scan!Hosts
<1>4. ASSUME NEW h \in 1..(p - 2), a = s + h
      PROVE  a \in Scan!Address /\ a \div p = q /\ a % p \notin {0, p - 1}
  <2>1. a \in Nat /\ h \in 0..(p - 1) /\ a = p * q + h
    BY <1>1, <1>2, <1>4
  <2>2. q = a \div p /\ h = a % p
    <3>1. a \in Nat /\ p \in Nat /\ p > 0 /\ q \in Nat /\ h \in 0..(p - 1) /\ a = p * q + h
      BY <1>1, <1>2, <2>1
    <3>. QED
      BY ONLY <3>1, OnlyOne, Zenon
  <2>3. a \in Scan!Address
    BY <1>1, <1>2, <2>1, <2>2, BlocksStay
  <2>. QED
    BY <1>1, <2>2, <2>3
<1>5. ASSUME a \in Scan!Address, a \div p = q, a % p \notin {0, p - 1}
      PROVE  \E h \in 1..(p - 2) : a = s + h
  <2>1. a \in Nat
    BY <1>5 DEF Scan!Address
  <2>2. a % p \in Nat /\ a % p < p /\ a = p * (a \div p) + (a % p)
    BY <1>1, <2>1, Divides
  <2>3. PICK h : h = a % p /\ h \in Nat /\ h < p /\ h # 0 /\ h # p - 1
    BY <1>5, <2>2
  <2>4. a = s + h
    BY <1>2, <1>5, <2>2, <2>3
  <2>5. h \in 1..(p - 2)
    BY <1>1, <2>3
  <2>. QED
    BY <2>4, <2>5
<1>. QED
  BY <1>1, <1>2, <1>3, <1>4, <1>5

UpFrom(m) == {b \in Scan!Bit : b >= m}

\* They are those that agree with the network and whose other bits are not all equal.
LEMMA HostIs ==
  ASSUME Bits \in Nat, NEW c \in Scan!Address, NEW k \in 0..Bits, NEW a \in Scan!Address
  PROVE  Scan!IsHost(a, c, UpFrom(k)) <=> a \in Scan!Hosts(<<c - (c % Scan!TwoTo[k]), Scan!TwoTo[k]>>)
<1>1. UpFrom(k) = k..(Bits - 1) /\ Scan!Bit \ UpFrom(k) = 0..(k - 1)
  BY DEF UpFrom, Scan!Bit
<1>2. Scan!Agree(a, c, UpFrom(k)) <=> a \div Scan!TwoTo[k] = c \div Scan!TwoTo[k]
  BY <1>1, HighBits
<1>3. a \in Nat
  BY DEF Scan!Address
<1>4. (\E b, d \in 0..(k - 1) : Scan!IsSet(a, b) /\ ~Scan!IsSet(a, d))
        <=> a % Scan!TwoTo[k] # 0 /\ a % Scan!TwoTo[k] # Scan!TwoTo[k] - 1
  BY <1>3, LowBits
<1>5. Scan!IsHost(a, c, UpFrom(k)) <=> /\ a \div Scan!TwoTo[k] = c \div Scan!TwoTo[k]
                                       /\ a % Scan!TwoTo[k] \notin {0, Scan!TwoTo[k] - 1}
  BY <1>1, <1>2, <1>4 DEF Scan!IsHost
<1>. QED
  BY <1>5, HostsAre

LEMMA ScanCount ==
  ASSUME NEW S
  PROVE  Scan!Cardinality(S) = Cardinality(S)
  BY Zenon DEF Scan!Cardinality, Cardinality

LEMMA UpFromCount ==
  ASSUME Bits \in Nat, NEW k \in 0..Bits
  PROVE  /\ Cardinality(UpFrom(k)) = Bits - k /\ Cardinality(Scan!Bit \ UpFrom(k)) = k
<1>1. UpFrom(k) = k..(Bits - 1) /\ Scan!Bit \ UpFrom(k) = 0..(k - 1)
  BY DEF UpFrom, Scan!Bit
<1>2. Cardinality(k..(Bits - 1)) = Bits - k
  <2>1. k \in Int /\ Bits - 1 \in Int
    OBVIOUS
  <2>2. Cardinality(k..(Bits - 1)) = IF k > Bits - 1 THEN 0 ELSE (Bits - 1) - k + 1
    BY <2>1, FS_Interval
  <2>. QED
    BY <2>2
<1>3. Cardinality(0..(k - 1)) = k
  <2>1. 0 \in Int /\ k - 1 \in Int
    OBVIOUS
  <2>2. Cardinality(0..(k - 1)) = IF 0 > k - 1 THEN 0 ELSE (k - 1) - 0 + 1
    BY <2>1, FS_Interval
  <2>. QED
    BY <2>2
<1>. QED
  BY <1>1, <1>2, <1>3

\* A mask has a prefix when its ones are its highest bits.
LEMMA PrefixIs ==
  ASSUME Bits \in Nat, NEW mask \in SUBSET Scan!Bit
  PROVE  /\ Scan!HasPrefix(mask) <=> Scan!HighBits(mask)
         /\ Scan!HasPrefix(mask) => \E k \in 0..Bits :
              /\ mask = UpFrom(k) /\ Scan!Prefix(mask) = Bits - k
              /\ Scan!Size(Scan!Prefix(mask)) = Scan!TwoTo[k]
              /\ Scan!Cardinality(Scan!Bit \ mask) = k
<1>1. IsFiniteSet(Scan!Bit) /\ Cardinality(Scan!Bit) = Bits
  <2>1. Scan!Bit = 0..(Bits - 1)
    BY DEF Scan!Bit
  <2>. QED
    BY <2>1, FS_Interval
<1>2. Cardinality(mask) \in 0..Bits
  <2>1. IsFiniteSet(mask) /\ Cardinality(mask) <= Cardinality(Scan!Bit)
    BY <1>1, FS_Subset
  <2>. QED
    BY <1>1, <2>1, FS_CardinalityType
<1>3. Scan!HasPrefix(mask) <=> mask = UpFrom(Bits - Cardinality(mask))
  BY ScanCount DEF Scan!HasPrefix, UpFrom
<1>4. ASSUME NEW k \in 0..Bits, mask = UpFrom(k)
      PROVE  Scan!HasPrefix(mask) /\ Scan!HighBits(mask) /\ k = Bits - Cardinality(mask)
  <2>1. Cardinality(mask) = Bits - k
    BY <1>4, UpFromCount
  <2>2. Scan!HighBits(mask)
    BY <1>4 DEF Scan!HighBits, UpFrom, Scan!Bit
  <2>3. Bits - Cardinality(mask) = k
    BY <2>1
  <2>. QED
    BY <1>3, <1>4, <2>2, <2>3
<1>5. Scan!HighBits(mask) => \E k \in 0..Bits : mask = UpFrom(k)
  <2>. SUFFICES ASSUME Scan!HighBits(mask)
                PROVE  \E k \in 0..Bits : mask = UpFrom(k)
    OBVIOUS
  <2>1. CASE mask = {}
    <3>1. UpFrom(Bits) = {}
      BY DEF UpFrom, Scan!Bit
    <3>2. Bits \in 0..Bits
      OBVIOUS
    <3>. QED
      BY <2>1, <3>1, <3>2
  <2>2. CASE mask # {}
    <3>1. PICK k \in mask : \A b \in mask : ~(b < k)
      <4>1. mask \in SUBSET Nat
        BY DEF Scan!Bit
      <4>. QED
        BY <2>2, <4>1, LeastNumber
    <3>2. k \in 0..Bits
      BY DEF Scan!Bit
    <3>3. mask \subseteq UpFrom(k)
      BY <3>1 DEF UpFrom, Scan!Bit
    <3>4. UpFrom(k) \subseteq mask
      <4>. SUFFICES ASSUME NEW b \in Scan!Bit, b >= k, b \notin mask
                    PROVE  FALSE
        BY DEF UpFrom
      <4>1. b < k
        BY <3>1 DEF Scan!HighBits
      <4>. QED
        BY <4>1, <3>2 DEF Scan!Bit
    <3>5. mask = UpFrom(k)
      BY ONLY <3>3, <3>4, Zenon
    <3>. QED
      BY <3>2, <3>5
  <2>. QED
    BY <2>1, <2>2
<1>6. ASSUME NEW k \in 0..Bits, mask = UpFrom(k)
      PROVE  /\ Scan!Prefix(mask) = Bits - k /\ Scan!Size(Scan!Prefix(mask)) = Scan!TwoTo[k]
             /\ Scan!Cardinality(Scan!Bit \ mask) = k
  <2>1. Scan!Prefix(mask) = Bits - k
    BY <1>6, UpFromCount, ScanCount DEF Scan!Prefix
  <2>2. Bits - (Bits - k) = k
    OBVIOUS
  <2>. QED
    BY <1>6, <2>1, <2>2, UpFromCount, ScanCount DEF Scan!Size
<1>7. Bits - Cardinality(mask) \in 0..Bits
  BY <1>2
<1>. QED
  BY <1>3, <1>4, <1>5, <1>6, <1>7

\* A union of finitely many sets of at most n elements each.
LEMMA UnionBounded ==
  ASSUME NEW S, IsFiniteSet(S), NEW f, NEW n \in Nat,
         \A s \in S : IsFiniteSet(f[s]) /\ Cardinality(f[s]) <= n
  PROVE  /\ IsFiniteSet(UNION {f[s] : s \in S})
         /\ Cardinality(UNION {f[s] : s \in S}) <= Cardinality(S) * n
<1>. DEFINE All(T) == UNION {f[s] : s \in T}
            Bounded(T) == IsFiniteSet(All(T)) /\ Cardinality(All(T)) <= Cardinality(T) * n
            Q == {T \in SUBSET S : ~Bounded(T)}
<1>1. \A T \in SUBSET S : IsFiniteSet(T) /\ Cardinality(T) \in Nat
  BY FS_Subset, FS_CardinalityType
<1>2. Q = {}
  <2>1. SUFFICES ASSUME Q # {}
                 PROVE  FALSE
    OBVIOUS
  <2>2. PICK T \in Q : \A U \in Q : ~(Cardinality(U) < Cardinality(T))
    <3>1. \A U \in Q : IsFiniteSet(U)
      BY <1>1
    <3>. HIDE DEF Q
    <3>. QED
      BY <2>1, <3>1, SmallestSet
  <2>3. T \subseteq S /\ ~Bounded(T)
    BY <2>2
  <2>4. T # {}
    <3>1. SUFFICES ASSUME T = {}
                   PROVE  Bounded(T)
      BY <2>3
    <3>2. All(T) = {} /\ Cardinality(T) = 0
      BY <3>1, FS_EmptySet
    <3>. QED
      BY <3>2, FS_EmptySet
  <2>5. PICK s \in T : TRUE
    BY <2>4
  <2>. DEFINE U == T \ {s}
  <2>6. Cardinality(U) = Cardinality(T) - 1 /\ U \subseteq S
    <3>1. IsFiniteSet(T)
      BY <1>1, <2>3
    <3>. QED
      BY <2>3, <2>5, <3>1, FS_RemoveElement
  <2>7. PICK c, d : /\ c = Cardinality(T) /\ d = Cardinality(U) /\ c \in Nat /\ d \in Nat
                    /\ d = c - 1
    BY <1>1, <2>3, <2>6
  <2>8. Bounded(U)
    <3>1. U \notin Q
      <4>1. d < c
        BY <2>7
      <4>. HIDE DEF Q, U
      <4>. QED
        BY <2>2, <2>7, <4>1
    <3>. QED
      BY <2>6, <3>1
  <2>9. All(T) = All(U) \cup f[s]
    BY <2>5
  <2>10. PICK A : A = All(U) /\ IsFiniteSet(A) /\ Cardinality(A) <= d * n
    BY <2>7, <2>8
  <2>11. IsFiniteSet(f[s]) /\ Cardinality(f[s]) <= n
    BY <2>3, <2>5
  <2>12. /\ IsFiniteSet(A \cup f[s])
         /\ Cardinality(A \cup f[s]) = Cardinality(A) + Cardinality(f[s]) - Cardinality(A \cap f[s])
    BY <2>10, <2>11, FS_Union
  <2>13. IsFiniteSet(A \cap f[s])
    <3>1. A \cap f[s] \in SUBSET A
      OBVIOUS
    <3>. QED
      BY <2>10, <3>1, FS_Subset
  <2>14. /\ Cardinality(A) \in Nat /\ Cardinality(f[s]) \in Nat /\ Cardinality(A \cap f[s]) \in Nat
         /\ Cardinality(A \cup f[s]) \in Nat
    BY <2>10, <2>11, <2>12, <2>13, FS_CardinalityType
  <2>15. PICK m : m = d * n
    OBVIOUS
  <2>16. m \in Nat /\ c * n = m + n
    BY ONLY <2>7, <2>15, n \in Nat
  <2>17. Cardinality(A \cup f[s]) <= m + n
    BY <2>10, <2>11, <2>12, <2>14, <2>15, <2>16
  <2>18. Bounded(T)
    <3>1. All(T) = A \cup f[s]
      BY <2>9, <2>10
    <3>. QED
      BY <2>7, <2>12, <2>16, <2>17, <3>1
  <2>. QED
    BY <2>3, <2>18
<1>. HIDE DEF Bounded
<1>3. Bounded(S)
  BY <1>2
<1>. QED
  BY <1>3 DEF Bounded

\* What is scanned around an interface with a prefix.
Block(i) ==
    IF Scan!Size(Scan!Prefix(i[2])) > MaxSubnet
      THEN <<i[1] - (i[1] % LocalRange), LocalRange>>
      ELSE <<Scan!NetworkOf(i[1], Scan!Prefix(i[2])), Scan!Size(Scan!Prefix(i[2]))>>

Scanning == {i \in interfaces : i[1] \in Scan!Usable /\ Scan!HasPrefix(i[2])}

\* The networks of two interfaces may be one; the addresses are those of the blocks.
LEMMA TargetsAre ==
  ASSUME NEW a
  PROVE  a \in Scan!http_scan_targets
           <=> a \notin Scan!Usable /\ \E i \in Scanning : a \in Scan!Hosts(Block(i))
<1>. DEFINE SubnetOf(i) == <<Scan!NetworkOf(i[1], Scan!Prefix(i[2])), Scan!Prefix(i[2])>>
<1>1. a \in Scan!http_scan_targets
        <=> a \notin Scan!Usable /\ \E s \in Scan!Subnets : \E r \in Scan!Ranges(s) : a \in Scan!Hosts(r)
  <2>1. \A s : a \in UNION {Scan!Hosts(r) : r \in Scan!Ranges(s)}
               <=> \E r \in Scan!Ranges(s) : a \in Scan!Hosts(r)
    OBVIOUS
  <2>2. a \in UNION {UNION {Scan!Hosts(r) : r \in Scan!Ranges(s)} : s \in Scan!Subnets}
        <=> \E s \in Scan!Subnets : a \in UNION {Scan!Hosts(r) : r \in Scan!Ranges(s)}
    OBVIOUS
  <2>3. a \in Scan!http_scan_targets
        <=> /\ a \in UNION {UNION {Scan!Hosts(r) : r \in Scan!Ranges(s)} : s \in Scan!Subnets}
            /\ a \notin Scan!Usable
    BY DEF Scan!http_scan_targets
  <2>. QED
    BY <2>1, <2>2, <2>3, Zenon
<1>2. \A s : s \in Scan!Subnets <=> \E i \in Scanning : s = SubnetOf(i)
  BY DEF Scan!Subnets, Scanning
<1>3. \A s, x : x \in Scan!LocalAddresses(s) <=> \E i \in Scanning : x = i[1] /\ SubnetOf(i) = s
  BY DEF Scan!LocalAddresses, Scanning
<1>4. ASSUME NEW i \in Scanning, a \in Scan!Hosts(Block(i))
      PROVE  \E s \in Scan!Subnets : \E r \in Scan!Ranges(s) : a \in Scan!Hosts(r)
  <2>1. PICK s : s = SubnetOf(i) /\ s \in Scan!Subnets
    BY <1>2, <1>4
  <2>2. s[1] = Scan!NetworkOf(i[1], Scan!Prefix(i[2])) /\ s[2] = Scan!Prefix(i[2])
    BY <2>1
  <2>3. i[1] \in Scan!LocalAddresses(s)
    BY <1>3, <2>1
  <2>4. Block(i) \in Scan!Ranges(s)
    <3>1. CASE Scan!Size(s[2]) > MaxSubnet
      <4>1. Block(i) = <<i[1] - (i[1] % LocalRange), LocalRange>>
        BY <2>2, <3>1 DEF Block
      <4>. QED
        BY <2>3, <3>1, <4>1 DEF Scan!Ranges
    <3>2. CASE ~(Scan!Size(s[2]) > MaxSubnet)
      <4>1. Block(i) = <<s[1], Scan!Size(s[2])>>
        BY <2>2, <3>2 DEF Block
      <4>. QED
        BY <3>2, <4>1 DEF Scan!Ranges
    <3>. QED
      BY <3>1, <3>2
  <2>. QED
    BY <1>4, <2>1, <2>4
<1>5. ASSUME NEW s \in Scan!Subnets, NEW r \in Scan!Ranges(s)
      PROVE  \E i \in Scanning : r = Block(i)
  <2>1. PICK j \in Scanning : s = SubnetOf(j)
    BY <1>2
  <2>2. s[1] = Scan!NetworkOf(j[1], Scan!Prefix(j[2])) /\ s[2] = Scan!Prefix(j[2])
    BY <2>1
  <2>3. CASE Scan!Size(s[2]) > MaxSubnet
    <3>1. PICK x \in Scan!LocalAddresses(s) : r = <<x - (x % LocalRange), LocalRange>>
      BY <2>3 DEF Scan!Ranges
    <3>2. PICK i \in Scanning : x = i[1] /\ SubnetOf(i) = s
      BY <1>3
    <3>3. s[2] = Scan!Prefix(i[2])
      BY <3>2
    <3>4. Block(i) = <<i[1] - (i[1] % LocalRange), LocalRange>>
      BY <2>3, <3>3 DEF Block
    <3>. QED
      BY <3>1, <3>2, <3>4
  <2>4. CASE ~(Scan!Size(s[2]) > MaxSubnet)
    <3>1. r = <<s[1], Scan!Size(s[2])>>
      BY <2>4 DEF Scan!Ranges
    <3>2. Block(j) = <<s[1], Scan!Size(s[2])>>
      BY <2>2, <2>4 DEF Block
    <3>. QED
      BY <3>1, <3>2
  <2>. QED
    BY <2>3, <2>4
<1>. QED
  BY <1>1, <1>4, <1>5

LEMMA LocalMaskIs ==
  ASSUME Scan!AddressesOK
  PROVE  \E m \in 0..Bits : /\ LocalRange = Scan!TwoTo[m] /\ LocalRange <= MaxSubnet
                            /\ Scan!LocalMask = UpFrom(m)
<1>1. PICK m \in Scan!Bit : LocalRange = Scan!TwoTo[m] /\ LocalRange <= MaxSubnet
  BY DEF Scan!AddressesOK
<1>2. Bits \in Nat /\ m \in 0..Bits
  BY DEF Scan!AddressesOK, Scan!Bit
<1>3. ASSUME NEW b \in Scan!Bit
      PROVE  Scan!TwoTo[b] >= Scan!TwoTo[m] <=> b >= m
  <2>1. b \in 0..Bits
    BY <1>2 DEF Scan!Bit
  <2>2. Scan!TwoTo[b] \in Nat /\ Scan!TwoTo[m] \in Nat
    BY <1>2, <2>1, PowersAre
  <2>3. CASE b < m
    BY <1>2, <2>1, <2>2, <2>3, PowersGrow
  <2>4. CASE b = m
    BY <1>2, <2>2, <2>4
  <2>5. CASE m < b
    BY <1>2, <2>1, <2>2, <2>5, PowersGrow
  <2>. QED
    BY <1>2, <2>1, <2>3, <2>4, <2>5
<1>4. Scan!LocalMask = UpFrom(m)
  BY <1>1, <1>3 DEF Scan!LocalMask, UpFrom
<1>. QED
  BY <1>1, <1>2, <1>4

\* What is scanned around an interface is what the documents promise of it.
LEMMA BlockIs ==
  ASSUME Scan!AddressesOK, NEW i \in Local \X Mask, NEW a
  PROVE  /\ Scan!HasPrefix(i[2]) <=> Scan!HighBits(i[2])
         /\ Scan!HasPrefix(i[2]) =>
              (a \in Scan!Hosts(Block(i)) <=>
                 /\ a \in Scan!Address
                 /\ Scan!IsHost(a, i[1], IF Scan!TwoTo[Scan!Cardinality(Scan!Bit \ i[2])] <= MaxSubnet
                                           THEN i[2] ELSE Scan!LocalMask))
<1>1. /\ i[1] \in Scan!Address /\ i[2] \in SUBSET Scan!Bit /\ Bits \in Nat
      /\ MaxSubnet \in Nat
  BY DEF Scan!AddressesOK
<1>2. Scan!HasPrefix(i[2]) <=> Scan!HighBits(i[2])
  BY <1>1, PrefixIs
<1>3. ASSUME Scan!HasPrefix(i[2])
      PROVE  a \in Scan!Hosts(Block(i)) <=>
               /\ a \in Scan!Address
               /\ Scan!IsHost(a, i[1], IF Scan!TwoTo[Scan!Cardinality(Scan!Bit \ i[2])] <= MaxSubnet
                                         THEN i[2] ELSE Scan!LocalMask)
  <2>1. PICK k \in 0..Bits : /\ i[2] = UpFrom(k) /\ Scan!Prefix(i[2]) = Bits - k
                             /\ Scan!Size(Scan!Prefix(i[2])) = Scan!TwoTo[k]
                             /\ Scan!Cardinality(Scan!Bit \ i[2]) = k
    BY <1>1, <1>3, PrefixIs
  <2>2. PICK m \in 0..Bits : LocalRange = Scan!TwoTo[m] /\ Scan!LocalMask = UpFrom(m)
    BY LocalMaskIs
  <2>3. \A j \in 0..Bits : a \in Scan!Hosts(<<i[1] - (i[1] % Scan!TwoTo[j]), Scan!TwoTo[j]>>)
                             <=> a \in Scan!Address /\ Scan!IsHost(a, i[1], UpFrom(j))
    BY <1>1, HostsAre, HostIs
  <2>4. Scan!TwoTo[k] \in Nat
    BY <1>1, PowersAre
  <2>5. CASE Scan!TwoTo[k] > MaxSubnet
    <3>1. Block(i) = <<i[1] - (i[1] % Scan!TwoTo[m]), Scan!TwoTo[m]>>
      BY <2>1, <2>2, <2>5 DEF Block
    <3>2. ~(Scan!TwoTo[k] <= MaxSubnet)
      BY <1>1, <2>4, <2>5
    <3>. QED
      BY <2>1, <2>2, <2>3, <3>1, <3>2
  <2>6. CASE ~(Scan!TwoTo[k] > MaxSubnet)
    <3>1. Block(i) = <<i[1] - (i[1] % Scan!TwoTo[k]), Scan!TwoTo[k]>>
      BY <2>1, <2>6 DEF Block, Scan!NetworkOf
    <3>2. Scan!TwoTo[k] <= MaxSubnet
      BY <1>1, <2>4, <2>6
    <3>. QED
      BY <2>1, <2>3, <3>1, <3>2
  <2>. QED
    BY <2>5, <2>6
<1>. QED
  BY <1>2, <1>3

\* It is bounded.
LEMMA BlockBounded ==
  ASSUME Scan!AddressesOK, NEW i \in Local \X Mask, Scan!HasPrefix(i[2])
  PROVE  IsFiniteSet(Scan!Hosts(Block(i))) /\ Cardinality(Scan!Hosts(Block(i))) <= MaxSubnet - 2
<1>1. /\ i[1] \in Scan!Address /\ i[2] \in SUBSET Scan!Bit /\ Bits \in Nat
      /\ MaxSubnet \in Nat /\ MaxSubnet >= 2
  BY DEF Scan!AddressesOK
<1>2. PICK k \in 0..Bits : Scan!Size(Scan!Prefix(i[2])) = Scan!TwoTo[k]
  BY <1>1, PrefixIs
<1>3. PICK m \in 0..Bits : LocalRange = Scan!TwoTo[m] /\ LocalRange <= MaxSubnet
  BY LocalMaskIs
<1>4. i[1] \in Nat
  BY <1>1 DEF Scan!Address
<1>5. \A j \in 0..Bits : i[1] - (i[1] % Scan!TwoTo[j]) \in Int /\ Scan!TwoTo[j] \in Nat
  <2>. TAKE j \in 0..Bits
  <2>1. PICK p : p = Scan!TwoTo[j] /\ p \in Nat /\ p > 0
    BY <1>1, PowersAre
  <2>2. i[1] % p \in Nat
    BY <1>4, <2>1, Divides
  <2>. QED
    BY <1>4, <2>1, <2>2
<1>6. PICK s, p : Block(i) = <<s, p>> /\ s \in Int /\ p \in Nat /\ p <= MaxSubnet
  <2>1. CASE Scan!TwoTo[k] > MaxSubnet
    BY <1>1, <1>2, <1>3, <1>5, <2>1 DEF Block
  <2>2. CASE ~(Scan!TwoTo[k] > MaxSubnet)
    <3>1. Block(i) = <<i[1] - (i[1] % Scan!TwoTo[k]), Scan!TwoTo[k]>>
      BY <1>2, <2>2 DEF Block, Scan!NetworkOf
    <3>. QED
      BY <1>1, <1>5, <2>2, <3>1
  <2>. QED
    BY <2>1, <2>2
<1>7. Scan!Hosts(<<s, p>>) = (s + 1)..(s + (p - 2))
  <2>1. Scan!Hosts(<<s, p>>) = {s + host : host \in 1..(p - 2)}
    BY DEF Scan!Hosts
  <2>2. \A x : x \in (s + 1)..(s + (p - 2)) => x - s \in 1..(p - 2) /\ x = s + (x - s)
    BY <1>6
  <2>3. \A h \in 1..(p - 2) : s + h \in (s + 1)..(s + (p - 2))
    BY <1>6
  <2>. QED
    BY <2>1, <2>2, <2>3
<1>8. /\ IsFiniteSet((s + 1)..(s + (p - 2)))
      /\ Cardinality((s + 1)..(s + (p - 2)))
           = IF s + 1 > s + (p - 2) THEN 0 ELSE (s + (p - 2)) - (s + 1) + 1
  <2>1. s + 1 \in Int /\ s + (p - 2) \in Int
    BY <1>6
  <2>. QED
    BY <2>1, FS_Interval
<1>9. Cardinality((s + 1)..(s + (p - 2))) <= MaxSubnet - 2
  BY <1>1, <1>6, <1>8
<1>. QED
  BY <1>6, <1>7, <1>8, <1>9

\* The round: its interfaces, what it has probed, and what it scans.
ScanInv ==
    /\ interfaces \subseteq Local \X Mask /\ IsFiniteSet(interfaces)
    /\ Cardinality(interfaces) <= MaxInterfaces
    /\ known \subseteq Remote /\ round \in {"setup", "probed", "scanned"}
    /\ cached \subseteq Scan!cached_candidate_devices
    /\ round = "setup" => cached = {}
    /\ scanned = IF round = "scanned" /\ confirmed = {} THEN Scan!http_scan_targets \ cached
                                                        ELSE {}

LEMMA ScanAlways == HelperSpec => []ScanInv
<1>. USE InstancesAssumption
<1>0. MaxInterfaces \in Nat
  BY DEF Scan!AddressesOK
<1>1. HelperInit => ScanInv
  BY <1>0, FS_EmptySet DEF HelperInit, Scan!Init, ScanInv
<1>2. ScanInv /\ [HelperNext]_helper_vars => ScanInv'
  <2>. SUFFICES ASSUME ScanInv, [HelperNext]_helper_vars
                PROVE  ScanInv'
    OBVIOUS
  <2>1. CASE Scan!HasInterface
    <3>1. PICK x \in Local, m \in Mask : interfaces' = interfaces \cup {<<x, m>>}
      BY <2>1 DEF Scan!HasInterface
    <3>2. /\ round = "setup" /\ Cardinality(interfaces) < MaxInterfaces
          /\ UNCHANGED <<known, cached, confirmed, scanned, round>>
      BY <2>1, ScanCount DEF Scan!HasInterface
    <3>3. IsFiniteSet(interfaces') /\ Cardinality(interfaces') <= MaxInterfaces
      <4>1. IsFiniteSet(interfaces) /\ Cardinality(interfaces) \in Nat
        BY FS_CardinalityType DEF ScanInv
      <4>2. IsFiniteSet(interfaces \cup {<<x, m>>})
        BY <4>1, FS_AddElement
      <4>3. \/ Cardinality(interfaces \cup {<<x, m>>}) = Cardinality(interfaces)
            \/ Cardinality(interfaces \cup {<<x, m>>}) = Cardinality(interfaces) + 1
        BY <4>1, FS_AddElement
      <4>. QED
        BY <1>0, <3>1, <3>2, <4>1, <4>2, <4>3
    <3>4. cached' = {} /\ scanned' = {}
      BY <3>2 DEF ScanInv
    <3>5. interfaces' \subseteq Local \X Mask
      BY <3>1 DEF ScanInv
    <3>. QED
      BY <3>2, <3>3, <3>4, <3>5 DEF ScanInv
  <2>2. CASE Scan!KnowsPeer
    <3>1. /\ round = "setup" /\ known' \subseteq Remote
          /\ UNCHANGED <<interfaces, cached, confirmed, scanned, round>>
      BY <2>2 DEF Scan!KnowsPeer, ScanInv
    <3>. QED
      BY <3>1 DEF ScanInv
  <2>3. CASE Scan!Probe
    <3>1. /\ round = "setup" /\ round' = "probed" /\ UNCHANGED <<interfaces, known, scanned>>
          /\ cached' \subseteq Scan!cached_candidate_devices
      BY <2>3 DEF Scan!Probe
    <3>2. Scan!cached_candidate_devices' = Scan!cached_candidate_devices
      BY <3>1 DEF Scan!cached_candidate_devices
    <3>. QED
      BY <3>1, <3>2 DEF ScanInv
  <2>4. CASE Scan!remaining_subnet_targets
    <3>1. /\ round' = "scanned" /\ UNCHANGED <<interfaces, known, cached, confirmed>>
          /\ scanned' = IF confirmed # {} THEN {} ELSE Scan!http_scan_targets \ cached
      BY <2>4 DEF Scan!remaining_subnet_targets
    <3>2. /\ Scan!cached_candidate_devices' = Scan!cached_candidate_devices
          /\ Scan!http_scan_targets' = Scan!http_scan_targets
      BY <3>1 DEF Scan!cached_candidate_devices, Scan!http_scan_targets, Scan!Usable,
                  Scan!Subnets, Scan!Ranges, Scan!LocalAddresses
    <3>. QED
      BY <3>1, <3>2 DEF ScanInv
  <2>5. CASE UNCHANGED targets
    <3>1. UNCHANGED <<interfaces, known, cached, confirmed, scanned, round>>
      BY <2>5 DEF targets
    <3>2. /\ Scan!cached_candidate_devices' = Scan!cached_candidate_devices
          /\ Scan!http_scan_targets' = Scan!http_scan_targets
      BY <3>1 DEF Scan!cached_candidate_devices, Scan!http_scan_targets, Scan!Usable,
                  Scan!Subnets, Scan!Ranges, Scan!LocalAddresses
    <3>. QED
      BY <3>1, <3>2 DEF ScanInv
  <2>. QED
    BY <2>1, <2>2, <2>3, <2>4, <2>5 DEF HelperNext, helper_vars, Scan!Next
<1>. QED
  BY <1>1, <1>2, PTL DEF HelperSpec

\* Whatever the interfaces and the peers known, a round that finds nobody has scanned
\* each host the documents promise once and nothing else, and probed no hint that no
\* interface reaches (main.rs:474-592, docs/ARCHITECTURE.md:88-92).
THEOREM TargetsStayRight == HelperSpec => []TargetsAreRight
<1>. USE InstancesAssumption
<1>0. /\ Scan!AddressesOK /\ MaxInterfaces \in Nat /\ MaxSubnet \in Nat /\ MaxSubnet >= 2
      /\ Bits \in Nat
  BY DEF Scan!AddressesOK
<1>1. ASSUME ScanInv PROVE Scan!ScansCompletely
  <2>. SUFFICES ASSUME round = "scanned", confirmed = {}, NEW a
                PROVE  a \in scanned \cup (cached \cap Scan!http_scan_targets) <=>
                         /\ a \in Scan!Address
                         /\ \A i \in interfaces : a = i[1] => a \in Special
                         /\ \E i \in interfaces :
                              /\ i[1] \notin Special /\ Scan!HighBits(i[2])
                              /\ Scan!IsHost(a, i[1],
                                   IF Scan!TwoTo[Scan!Cardinality(Scan!Bit \ i[2])] <= MaxSubnet
                                     THEN i[2] ELSE Scan!LocalMask)
    BY DEF Scan!ScansCompletely, Scan!Missed
  <2>1. a \in scanned \cup (cached \cap Scan!http_scan_targets) <=> a \in Scan!http_scan_targets
    BY <1>1 DEF ScanInv
  <2>2. a \notin Scan!Usable <=> \A i \in interfaces : a = i[1] => a \in Special
    BY DEF Scan!Usable
  <2>3. \A i \in interfaces : i \in Scanning <=> i[1] \notin Special /\ Scan!HasPrefix(i[2])
    BY DEF Scanning, Scan!Usable
  <2>4. Scanning \subseteq interfaces
    BY DEF Scanning
  <2>5. \A i \in interfaces :
          /\ Scan!HasPrefix(i[2]) <=> Scan!HighBits(i[2])
          /\ Scan!HasPrefix(i[2]) =>
               (a \in Scan!Hosts(Block(i)) <=>
                  /\ a \in Scan!Address
                  /\ Scan!IsHost(a, i[1],
                       IF Scan!TwoTo[Scan!Cardinality(Scan!Bit \ i[2])] <= MaxSubnet
                         THEN i[2] ELSE Scan!LocalMask))
    BY <1>0, <1>1, BlockIs DEF ScanInv
  <2>. QED
    BY <2>1, <2>2, <2>3, <2>4, <2>5, TargetsAre
<1>2. ASSUME ScanInv PROVE Scan!HintsReach
  <2>. SUFFICES ASSUME NEW a \in cached
                PROVE  a \notin Special /\ \E i \in interfaces :
                         Scan!HighBits(i[2]) /\ Scan!IsHost(a, i[1], i[2]) /\ a # i[1]
    BY DEF Scan!HintsReach
  <2>1. a \in known \ Special /\ a \in Scan!Address
    BY <1>0, <1>2 DEF ScanInv, Scan!cached_candidate_devices, Scan!AddressesOK
  <2>2. PICK i \in interfaces : Scan!Reaches(i, a)
    BY <1>2 DEF ScanInv, Scan!cached_candidate_devices
  <2>3. i[1] \in Scan!Address /\ i[2] \in SUBSET Scan!Bit /\ i[1] \in Nat /\ a \in Nat
    <3>1. i \in Local \X Mask
      BY <1>2 DEF ScanInv
    <3>2. i[1] \in Scan!Address /\ i[2] \in SUBSET Scan!Bit
      BY <1>0, <3>1 DEF Scan!AddressesOK
    <3>. QED
      BY <2>1, <3>2 DEF Scan!Address
  <2>4. PICK k \in 0..Bits : i[2] = UpFrom(k) /\ Scan!Size(Scan!Prefix(i[2])) = Scan!TwoTo[k]
    BY <1>0, <2>2, <2>3, PrefixIs DEF Scan!Reaches
  <2>5. PICK p : p = Scan!TwoTo[k] /\ p \in Nat /\ p > 0
    BY <1>0, PowersAre
  <2>6. PICK r, t : r = a % p /\ t = i[1] % p /\ r \in Nat /\ r < p /\ t \in Nat
    BY <2>3, <2>5, Divides
  <2>7. a - r = i[1] - t /\ r # 0 /\ r # p - 1 /\ a # i[1]
    BY <2>2, <2>4, <2>5, <2>6 DEF Scan!Reaches, Scan!NetworkOf
  <2>8. r \in 1..(p - 2) /\ a = (i[1] - t) + r
    <3>1. PICK c : c = i[1] /\ c \in Nat
      BY <2>3
    <3>2. a - r = c - t
      BY <2>7, <3>1
    <3>3. r \in 1..(p - 2) /\ a = (c - t) + r
      <4>1. /\ a \in Nat /\ c \in Nat /\ r \in Nat /\ t \in Nat /\ p \in Nat
            /\ r < p /\ r # 0 /\ r # p - 1 /\ a - r = c - t
        BY <2>3, <2>5, <2>6, <2>7, <3>1, <3>2
      <4>. QED
        BY ONLY <4>1
    <3>. QED
      BY <3>1, <3>3
  <2>9. a \in Scan!Hosts(<<i[1] - t, p>>)
    BY <2>8 DEF Scan!Hosts
  <2>10. Scan!IsHost(a, i[1], i[2])
    BY <1>0, <2>1, <2>3, <2>4, <2>5, <2>6, <2>9, HostIs
  <2>11. Scan!HighBits(i[2])
    BY <1>0, <2>2, <2>3, PrefixIs DEF Scan!Reaches
  <2>. QED
    BY <2>1, <2>7, <2>10, <2>11
<1>3. ASSUME ScanInv PROVE Scan!ScanBounded
  <2>. DEFINE f == [i \in Scanning |-> Scan!Hosts(Block(i))]
              All == UNION {f[i] : i \in Scanning}
  <2>1. /\ IsFiniteSet(Scanning) /\ Cardinality(Scanning) \in Nat
        /\ Cardinality(Scanning) <= MaxInterfaces
    <3>1. Scanning \in SUBSET interfaces
      BY DEF Scanning
    <3>2. IsFiniteSet(interfaces) /\ Cardinality(interfaces) <= MaxInterfaces
      BY <1>3 DEF ScanInv
    <3>. QED
      BY <1>0, <3>1, <3>2, FS_Subset, FS_CardinalityType
  <2>2. \A i \in Scanning : IsFiniteSet(f[i]) /\ Cardinality(f[i]) <= MaxSubnet - 2
    <3>1. \A i \in Scanning : i \in Local \X Mask /\ Scan!HasPrefix(i[2])
      BY <1>3 DEF Scanning, ScanInv
    <3>. QED
      BY <1>0, <3>1, BlockBounded
  <2>3. MaxSubnet - 2 \in Nat
    BY <1>0
  <2>4. IsFiniteSet(All) /\ Cardinality(All) <= Cardinality(Scanning) * (MaxSubnet - 2)
    <3>. HIDE DEF f
    <3>. QED
      BY <2>1, <2>2, <2>3, UnionBounded
  <2>5. scanned \subseteq All
    <3>1. \A a \in Scan!http_scan_targets : \E i \in Scanning : a \in f[i]
      BY TargetsAre
    <3>2. scanned \subseteq Scan!http_scan_targets
      BY <1>3 DEF ScanInv
    <3>. QED
      BY <3>1, <3>2
  <2>6. IsFiniteSet(scanned) /\ Cardinality(scanned) <= Cardinality(All)
    <3>. HIDE DEF All
    <3>. QED
      BY <2>4, <2>5, FS_Subset
  <2>7. PICK c, s, n, u : /\ c = Cardinality(scanned) /\ s = Cardinality(Scanning)
                          /\ n = MaxSubnet - 2 /\ u = Cardinality(All)
                          /\ c \in Nat /\ s \in Nat /\ n \in Nat /\ u \in Nat
    <3>. HIDE DEF All
    <3>. QED
      BY <2>1, <2>3, <2>4, <2>6, FS_CardinalityType
  <2>8. c <= u /\ u <= s * n /\ s <= MaxInterfaces
    <3>. HIDE DEF All
    <3>. QED
      BY <2>1, <2>4, <2>6, <2>7
  <2>9. s * n <= MaxInterfaces * n
    BY ONLY <1>0, <2>7, <2>8
  <2>10. c <= MaxInterfaces * n
    <3>1. s * n \in Nat /\ MaxInterfaces * n \in Nat
      BY <1>0, <2>7
    <3>. QED
      BY <2>7, <2>8, <2>9, <3>1
  <2>. QED
    BY <2>7, <2>10, ScanCount DEF Scan!ScanBounded
<1>4. ASSUME ScanInv PROVE Scan!ProbedOnce
  <2>1. scanned \subseteq Scan!http_scan_targets \ cached
    BY <1>4 DEF ScanInv
  <2>2. \A a \in Scan!http_scan_targets : a \notin Scan!Usable
    BY TargetsAre
  <2>. QED
    BY <2>1, <2>2 DEF Scan!ProbedOnce, Scan!Usable
<1>5. ScanInv => TargetsAreRight
  BY <1>1, <1>2, <1>3, <1>4 DEF TargetsAreRight, Scan!TargetsAreRight
<1>. QED
  BY <1>5, ScanAlways, PTL
=============================================================================
