--------------------------- MODULE Receiver_proofs --------------------------
(***************************************************************************)
(* Proofs about Receiver, for every set of requests, files and uploads and   *)
(* every accept timeout and idle limit.                                      *)
(***************************************************************************)
EXTENDS Receiver, FiniteSetTheorems, TLAPS

-----------------------------------------------------------------------------
(* Events *)

\* What Send does to the table of events.
LEMMA SendEffect ==
  ASSUME TypeOK, NEW r \in Requests, NEW kinds \in SUBSET EventKinds, Send(r, kinds)
  PROVE  /\ sent' \in [Requests -> [EventKinds -> Nat]]
         /\ \A q \in Requests : q # r => sent'[q] = sent[q]
         /\ \A k \in kinds : sent'[r][k] = sent[r][k] + 1
         /\ \A k \in EventKinds \ kinds : sent'[r][k] = sent[r][k]
BY DEF TypeOK, Send

-----------------------------------------------------------------------------
(* Types and the count of active uploads *)

\* The uploads whose body is consumed are finitely many.
LEMMA ConsumingFinite ==
  ASSUME NEW r
  PROVE  IsFiniteSet(Consuming(r)) /\ Cardinality(Consuming(r)) \in Nat
<1>1. Consuming(r) \in SUBSET Uploads
  BY DEF Consuming
<1>2. IsFiniteSet(Consuming(r))
  BY <1>1, FS_Subset, ConstantsAssumption DEF ConstantsAssumption
<1>. QED
  BY <1>2, FS_CardinalityType

\* A step that leaves the consumption of every body alone keeps the counts.
LEMMA CountsKept ==
  ASSUME TypeOK, ActiveCounts, UNCHANGED active,
         \A u \in Uploads : upload'[u] \in CountedPhases => upload[u] \in CountedPhases
  PROVE  ActiveCounts'
<1>. SUFFICES ASSUME NEW r \in Requests
              PROVE  Cardinality(Consuming(r)') <= active'[r]
  BY DEF ActiveCounts
<1>1. Consuming(r)' \in SUBSET Consuming(r)
  BY DEF Consuming
<1>2. Cardinality(Consuming(r)') <= Cardinality(Consuming(r)) /\ Cardinality(Consuming(r)') \in Nat
  BY <1>1, ConsumingFinite, FS_Subset, FS_CardinalityType
<1>. QED
  BY <1>2, ConsumingFinite DEF ActiveCounts, TypeOK

\* A step that starts a body counts it.
LEMMA CountsRaised ==
  ASSUME TypeOK, ActiveCounts, NEW u \in Uploads,
         active' = [active EXCEPT ![Req[u]] = @ + 1],
         \A v \in Uploads : upload'[v] \in CountedPhases => v = u \/ upload[v] \in CountedPhases
  PROVE  ActiveCounts' /\ active' \in [Requests -> Nat]
<1>. SUFFICES ASSUME NEW r \in Requests
              PROVE  Cardinality(Consuming(r)') <= active'[r] /\ active'[r] \in Nat
  BY DEF ActiveCounts, TypeOK
<1>. Req[u] \in Requests
  BY ConstantsAssumption DEF ConstantsAssumption
<1>1. active[r] \in Nat /\ Cardinality(Consuming(r)) <= active[r]
  BY DEF ActiveCounts, TypeOK
<1>2. CASE r = Req[u]
  <2>1. Consuming(r)' \in SUBSET (Consuming(r) \cup {u})
    BY DEF Consuming
  <2>2. IsFiniteSet(Consuming(r) \cup {u})
        /\ Cardinality(Consuming(r) \cup {u}) \in {Cardinality(Consuming(r)), Cardinality(Consuming(r)) + 1}
    BY ConsumingFinite, FS_AddElement
  <2>3. Cardinality(Consuming(r)') \in Nat
        /\ Cardinality(Consuming(r)') <= Cardinality(Consuming(r) \cup {u})
    BY <2>1, <2>2, FS_Subset, FS_CardinalityType
  <2>4. active'[r] = active[r] + 1
    BY <1>2 DEF TypeOK
  <2>. QED
    BY <2>2, <2>3, <2>4, <1>1, ConsumingFinite
<1>3. CASE r # Req[u]
  <2>1. Consuming(r)' \in SUBSET Consuming(r)
    BY <1>3 DEF Consuming
  <2>2. Cardinality(Consuming(r)') \in Nat /\ Cardinality(Consuming(r)') <= Cardinality(Consuming(r))
    BY <2>1, ConsumingFinite, FS_Subset, FS_CardinalityType
  <2>3. active'[r] = active[r]
    BY <1>3 DEF TypeOK
  <2>. QED
    BY <2>2, <2>3, <1>1, ConsumingFinite
<1>. QED
  BY <1>2, <1>3

\* A step that ends a body uncounts it, and had it counted.
LEMMA CountsLowered ==
  ASSUME TypeOK, ActiveCounts, NEW u \in Uploads, upload[u] \in CountedPhases,
         active' = [active EXCEPT ![Req[u]] = @ - 1],
         upload'[u] \notin CountedPhases,
         \A v \in Uploads : upload'[v] \in CountedPhases => upload[v] \in CountedPhases
  PROVE  ActiveCounts' /\ active' \in [Requests -> Nat]
<1>. Req[u] \in Requests
  BY ConstantsAssumption DEF ConstantsAssumption
<1>. SUFFICES ASSUME NEW r \in Requests
              PROVE  Cardinality(Consuming(r)') <= active'[r] /\ active'[r] \in Nat
  BY DEF ActiveCounts, TypeOK
<1>1. active[r] \in Nat /\ Cardinality(Consuming(r)) <= active[r]
  BY DEF ActiveCounts, TypeOK
<1>2. CASE r = Req[u]
  <2>1. u \in Consuming(r)
    BY <1>2 DEF Consuming
  <2>2. Consuming(r)' \in SUBSET (Consuming(r) \ {u})
    BY DEF Consuming
  <2>3. IsFiniteSet(Consuming(r) \ {u})
        /\ Cardinality(Consuming(r) \ {u}) = Cardinality(Consuming(r)) - 1
    BY <2>1, ConsumingFinite, FS_RemoveElement
  <2>4. Cardinality(Consuming(r)') \in Nat
        /\ Cardinality(Consuming(r)') <= Cardinality(Consuming(r)) - 1
    BY <2>2, <2>3, FS_Subset, FS_CardinalityType
  <2>5. active'[r] = active[r] - 1
    BY <1>2 DEF TypeOK
  <2>. QED
    BY <2>4, <2>5, <1>1, ConsumingFinite
<1>3. CASE r # Req[u]
  <2>1. Consuming(r)' \in SUBSET Consuming(r)
    BY DEF Consuming
  <2>2. Cardinality(Consuming(r)') \in Nat /\ Cardinality(Consuming(r)') <= Cardinality(Consuming(r))
    BY <2>1, ConsumingFinite, FS_Subset, FS_CardinalityType
  <2>3. active'[r] = active[r]
    BY <1>3 DEF TypeOK
  <2>. QED
    BY <2>2, <2>3, <1>1, ConsumingFinite
<1>. QED
  BY <1>2, <1>3

\* The slot keeps its type when it is cleared or taken.
SlotTypes ==
  slot \in Requests \cup {NoRequest} /\ open \in BOOLEAN /\ idle \in 0..(IdleLimit + 1)

LEMMA ClearedTypes ==
  ASSUME ClearSlot
  PROVE  SlotTypes'
<1>1. open' \in BOOLEAN
  BY Zenon DEF ClearSlot
<1>. QED
  BY <1>1, ConstantsAssumption DEF ClearSlot, ConstantsAssumption, SlotTypes

LEMMA TakenTypes ==
  ASSUME NEW r \in Requests, NEW b \in BOOLEAN, TakeSlot(r, b)
  PROVE  SlotTypes'
<1>1. open' \in BOOLEAN
  BY Zenon DEF TakeSlot
<1>. QED
  BY <1>1, ConstantsAssumption DEF TakeSlot, ConstantsAssumption, SlotTypes

LEMMA PrepareTypes ==
  ASSUME TypeOK, NEW r \in Requests, PrepareStep(r)
  PROVE  TypeOK' /\ UNCHANGED <<active, upload>>
<1>. USE ConstantsAssumption DEF ConstantsAssumption, sessionVars, prepareVars, bookVars, uploadVars, diskVars
<1>1. CASE PrepareRefuse(r)
  BY <1>1 DEF PrepareRefuse, TypeOK, PreparePhases
<1>2. CASE PrepareConflict(r)
  BY <1>2 DEF PrepareConflict, TypeOK, PreparePhases
<1>3. CASE PrepareReserve(r)
  <2>1. sent' \in [Requests -> [EventKinds -> Nat]]
    BY <1>3, SendEffect, {"request"} \in SUBSET EventKinds DEF PrepareReserve, EventKinds, TypeOK
  <2>2. SlotTypes'
    BY <1>3, TakenTypes DEF PrepareReserve
  <2>. QED
    BY <1>3, <2>1, <2>2 DEF PrepareReserve, TypeOK, PreparePhases, SlotTypes
<1>4. CASE \E ids \in SUBSET Offer[r] : Answer(r, ids)
  BY <1>4 DEF Answer, TypeOK
<1>5. CASE Decide(r)
  BY <1>5 DEF Decide, TypeOK, PreparePhases
<1>6. CASE ExpirePrompt(r)
  <2>1. sent' \in [Requests -> [EventKinds -> Nat]]
    BY <1>6, SendEffect, {"expired"} \in SUBSET EventKinds DEF ExpirePrompt, EventKinds, TypeOK
  <2>. QED
    BY <1>6, <2>1 DEF ExpirePrompt, TypeOK, PreparePhases
<1>7. CASE Decline(r)
  BY <1>7, ClearedTypes DEF Decline, TypeOK, SlotTypes, PreparePhases
<1>8. CASE Install(r)
  BY <1>8 DEF Install, TypeOK, TakeSlot, PreparePhases
<1>9. CASE DeliverMessage(r)
  <2>1. sent' \in [Requests -> [EventKinds -> Nat]]
    BY <1>9, SendEffect, {"text", "completed"} \in SUBSET EventKinds DEF DeliverMessage, EventKinds, TypeOK
  <2>. QED
    BY <1>9, <2>1, ClearedTypes DEF DeliverMessage, TypeOK, SlotTypes, PreparePhases
<1>10. CASE DropPrepare(r)
  BY <1>10 DEF DropPrepare, TypeOK, PreparePhases, ReleasePhases, PendingPhases
<1>11. CASE ReleaseReservation(r)
  <2>1. sent' \in [Requests -> [EventKinds -> Nat]]
    BY <1>11, SendEffect, {"expired"} \in SUBSET EventKinds DEF ReleaseReservation, EventKinds, TypeOK
  <2>. QED
    BY <1>11, <2>1, ClearedTypes DEF ReleaseReservation, TypeOK, SlotTypes, ReleasePhases
<1>12. CASE CancelSession(r)
  <2>1. sent' \in [Requests -> [EventKinds -> Nat]]
    BY <1>12, SendEffect, {"cancelled"} \in SUBSET EventKinds DEF CancelSession, EventKinds, TypeOK
  <2>. QED
    BY <1>12, <2>1, ClearedTypes DEF CancelSession, TypeOK, SlotTypes
<1>. QED
  BY <1>1, <1>2, <1>3, <1>4, <1>5, <1>6, <1>7, <1>8, <1>9, <1>10, <1>11, <1>12 DEF PrepareStep

\* An upload step that keeps the counts keeps the types.
LEMMA UploadTypes ==
  ASSUME TypeOK, ActiveCounts, NEW u \in Uploads, UploadStep(u)
  PROVE  TypeOK' /\ ActiveCounts'
<1>. USE ConstantsAssumption DEF ConstantsAssumption, sessionVars, prepareVars, bookVars, uploadVars, diskVars
<1>0. Req[u] \in Requests /\ File[u] \in Files /\ upload[u] \in UploadPhases
  BY DEF TypeOK
<1>1. CASE UploadRefuse(u)
  <2>1. TypeOK'
    BY <1>1, <1>0 DEF UploadRefuse, Goto, UploadPhases, TypeOK
  <2>2. ActiveCounts'
    BY <1>1, <1>0, CountsKept DEF UploadRefuse, Goto, CountedPhases, TypeOK
  <2>. QED
    BY <2>1, <2>2
<1>2. CASE UploadConflict(u)
  <2>1. TypeOK'
    BY <1>2, <1>0 DEF UploadConflict, Goto, UploadPhases, TypeOK
  <2>2. ActiveCounts'
    BY <1>2, <1>0, CountsKept DEF UploadConflict, Goto, CountedPhases, TypeOK
  <2>. QED
    BY <2>1, <2>2
<1>3. CASE UploadBegin(u)
  <2>1. TypeOK'
    BY <1>3, <1>0 DEF UploadBegin, Reservable, Goto, UploadPhases, TypeOK
  <2>2. ActiveCounts'
    BY <1>3, <1>0, CountsKept DEF UploadBegin, Reservable, Goto, CountedPhases, TypeOK
  <2>. QED
    BY <2>1, <2>2
<1>4. CASE BodyTaken(u)
  <2>1. TypeOK'
    BY <1>4, <1>0 DEF BodyTaken, TypeOK
  <2>2. ActiveCounts'
    BY <1>4, CountsKept DEF BodyTaken
  <2>. QED
    BY <2>1, <2>2
<1>5. CASE StartBody(u)
  <2>1. ActiveCounts' /\ active' \in [Requests -> Nat]
    BY <1>5, <1>0, CountsRaised DEF StartBody, Goto, CountedPhases, TypeOK
  <2>. QED
    BY <1>5, <1>0, <2>1 DEF StartBody, Goto, UploadPhases, TypeOK
<1>6. CASE MkdirFails(u)
  <2>1. TypeOK'
    BY <1>6, <1>0 DEF MkdirFails, Goto, UploadPhases, TypeOK
  <2>2. ActiveCounts'
    BY <1>6, <1>0, CountsKept DEF MkdirFails, Goto, CountedPhases, TypeOK
  <2>. QED
    BY <2>1, <2>2
<1>7. CASE EndUpload(u)
  <2>1. TypeOK'
    BY <1>7, <1>0 DEF EndUpload, Goto, UploadPhases, TypeOK
  <2>2. ActiveCounts'
    BY <1>7, <1>0, CountsKept DEF EndUpload, Goto, CountedPhases, TypeOK
  <2>. QED
    BY <2>1, <2>2
<1>8. CASE BodyChunk(u)
  <2>1. TypeOK'
    BY <1>8, <1>0 DEF BodyChunk, Goto, UploadPhases, TypeOK
  <2>2. ActiveCounts'
    BY <1>8, <1>0, CountsKept DEF BodyChunk, Goto, CountedPhases, TypeOK
  <2>. QED
    BY <2>1, <2>2
<1>9. CASE ReportProgress(u)
  <2>1. TypeOK'
    BY <1>9, <1>0 DEF ReportProgress, Goto, UploadPhases, TypeOK
  <2>2. ActiveCounts'
    BY <1>9, <1>0, CountsKept DEF ReportProgress, Goto, CountedPhases, TypeOK
  <2>. QED
    BY <2>1, <2>2
<1>10. CASE BodyEnds(u)
  <2>1. ActiveCounts' /\ active' \in [Requests -> Nat]
    BY <1>10, <1>0, CountsLowered DEF BodyEnds, Goto, CountedPhases, TypeOK
  <2>. QED
    BY <1>10, <1>0, <2>1 DEF BodyEnds, Goto, UploadPhases, TypeOK
<1>11. CASE BodyFails(u)
  <2>1. ActiveCounts' /\ active' \in [Requests -> Nat]
    BY <1>11, <1>0, CountsLowered DEF BodyFails, Goto, CountedPhases, TypeOK
  <2>. QED
    BY <1>11, <1>0, <2>1 DEF BodyFails, Goto, UploadPhases, TypeOK
<1>12. CASE HashMatches(u)
  <2>1. TypeOK'
    BY <1>12, <1>0 DEF HashMatches, Goto, UploadPhases, TypeOK
  <2>2. ActiveCounts'
    BY <1>12, <1>0, CountsKept DEF HashMatches, Goto, CountedPhases, TypeOK
  <2>. QED
    BY <2>1, <2>2
<1>13. CASE HashFails(u)
  <2>1. TypeOK'
    BY <1>13, <1>0 DEF HashFails, Goto, UploadPhases, TypeOK
  <2>2. ActiveCounts'
    BY <1>13, <1>0, CountsKept DEF HashFails, Goto, CountedPhases, TypeOK
  <2>. QED
    BY <2>1, <2>2
<1>14. CASE RollbackProgress(u)
  <2>1. TypeOK'
    BY <1>14, <1>0 DEF RollbackProgress, Goto, UploadPhases, TypeOK
  <2>2. ActiveCounts'
    BY <1>14, <1>0, CountsKept DEF RollbackProgress, Goto, CountedPhases, TypeOK
  <2>. QED
    BY <2>1, <2>2
<1>15. CASE WithdrawProgress(u)
  <2>1. TypeOK'
    BY <1>15, <1>0 DEF WithdrawProgress, Goto, UploadPhases, TypeOK
  <2>2. ActiveCounts'
    BY <1>15, <1>0, CountsKept DEF WithdrawProgress, Goto, CountedPhases, TypeOK
  <2>. QED
    BY <2>1, <2>2
<1>16. CASE FailSession(u)
  <2>1. sent' \in [Requests -> [EventKinds -> Nat]]
    BY <1>16, <1>0, SendEffect, {"failed"} \in SUBSET EventKinds DEF FailSession, EventKinds, TypeOK
  <2>2. SlotTypes'
    BY <1>16, ClearedTypes DEF FailSession, SlotTypes, TypeOK
  <2>3. TypeOK'
    BY <1>16, <1>0, <2>1, <2>2 DEF FailSession, Goto, UploadPhases, TypeOK, SlotTypes
  <2>4. ActiveCounts'
    BY <1>16, <1>0, CountsKept DEF FailSession, Goto, CountedPhases, TypeOK
  <2>. QED
    BY <2>3, <2>4
<1>17. CASE Revalidate(u)
  <2>1. TypeOK'
    BY <1>17, <1>0 DEF Revalidate, Goto, UploadPhases, TypeOK
  <2>2. ActiveCounts'
    BY <1>17, <1>0, CountsKept DEF Revalidate, Goto, CountedPhases, TypeOK
  <2>. QED
    BY <2>1, <2>2
<1>18. CASE DiscardStale(u)
  <2>1. TypeOK'
    BY <1>18, <1>0 DEF DiscardStale, Goto, UploadPhases, TypeOK
  <2>2. ActiveCounts'
    BY <1>18, <1>0, CountsKept DEF DiscardStale, Goto, CountedPhases, TypeOK
  <2>. QED
    BY <2>1, <2>2
<1>19. CASE LinkFile(u)
  <2>1. TypeOK'
    BY <1>19, <1>0 DEF LinkFile, Goto, UploadPhases, TypeOK
  <2>2. ActiveCounts'
    BY <1>19, <1>0, CountsKept DEF LinkFile, Goto, CountedPhases, TypeOK
  <2>. QED
    BY <2>1, <2>2
<1>20. CASE LinkFails(u)
  <2>1. sent' \in [Requests -> [EventKinds -> Nat]]
    BY <1>20, <1>0, SendEffect, {"failed"} \in SUBSET EventKinds DEF LinkFails, EventKinds, TypeOK
  <2>2. SlotTypes'
    BY <1>20, ClearedTypes DEF LinkFails, SlotTypes, TypeOK
  <2>3. TypeOK'
    BY <1>20, <1>0, <2>1, <2>2 DEF LinkFails, Goto, UploadPhases, TypeOK, SlotTypes
  <2>4. ActiveCounts'
    BY <1>20, <1>0, CountsKept DEF LinkFails, Goto, CountedPhases, TypeOK
  <2>. QED
    BY <2>3, <2>4
<1>21. CASE RecordFile(u)
  <2>1. sent' \in [Requests -> [EventKinds -> Nat]]
    BY <1>21, <1>0, SendEffect, {"file", "completed"} \in SUBSET EventKinds, {"file"} \in SUBSET EventKinds DEF RecordFile, AllReceived, EventKinds, TypeOK
  <2>2. SlotTypes'
    <3>1. CASE received[Req[u]] \cup {File[u]} = chosen[Req[u]]
      BY <1>21, <3>1, ClearedTypes DEF RecordFile, AllReceived
    <3>2. CASE received[Req[u]] \cup {File[u]} # chosen[Req[u]]
      BY <1>21, <3>2 DEF RecordFile, AllReceived, SlotTypes, TypeOK
    <3>. QED
      BY <3>1, <3>2
  <2>5. TypeOK'
    BY <1>21, <1>0, <2>1, <2>2 DEF RecordFile, AllReceived, Goto, UploadPhases, TypeOK, SlotTypes
  <2>6. ActiveCounts'
    BY <1>21, <1>0, CountsKept DEF RecordFile, AllReceived, Goto, CountedPhases, TypeOK
  <2>. QED
    BY <2>5, <2>6
<1>22. CASE UnlinkFails(u)
  <2>1. sent' \in [Requests -> [EventKinds -> Nat]]
    BY <1>22, <1>0, SendEffect, {"failed"} \in SUBSET EventKinds DEF UnlinkFails, EventKinds, TypeOK
  <2>2. SlotTypes'
    BY <1>22, ClearedTypes DEF UnlinkFails, SlotTypes, TypeOK
  <2>3. TypeOK'
    BY <1>22, <1>0, <2>1, <2>2 DEF UnlinkFails, Goto, UploadPhases, TypeOK, SlotTypes
  <2>4. ActiveCounts'
    BY <1>22, <1>0, CountsKept DEF UnlinkFails, Goto, CountedPhases, TypeOK
  <2>. QED
    BY <2>3, <2>4
<1>23. CASE DropUpload(u)
  <2>1. TypeOK'
    BY <1>23, <1>0 DEF DropUpload, Goto, UploadPhases, TypeOK
  <2>2. ActiveCounts'
    BY <1>23, <1>0, CountsKept DEF DropUpload, Goto, CountedPhases, TypeOK
  <2>. QED
    BY <2>1, <2>2
<1>24. CASE LinkAdrift(u)
  <2>1. TypeOK'
    BY <1>24, <1>0 DEF LinkAdrift, Goto, UploadPhases, TypeOK
  <2>2. ActiveCounts'
    BY <1>24, <1>0, CountsKept DEF LinkAdrift, Goto, CountedPhases, TypeOK
  <2>. QED
    BY <2>1, <2>2
<1>. QED
  BY <1>1, <1>2, <1>3, <1>4, <1>5, <1>6, <1>7, <1>8, <1>9, <1>10, <1>11, <1>12, <1>13, <1>14, <1>15, <1>16, <1>17, <1>18, <1>19, <1>20, <1>21, <1>22, <1>23, <1>24 DEF UploadStep

\* The sweep and the clock keep the types and the counts.
LEMMA TimeTypes ==
  ASSUME TypeOK, ActiveCounts, Sweep \/ Tick
  PROVE  TypeOK' /\ ActiveCounts'
<1>. USE ConstantsAssumption DEF ConstantsAssumption, sessionVars, prepareVars, bookVars, uploadVars, diskVars
<1>1. CASE Sweep
  <2>1. slot \in Requests
    BY <1>1 DEF Sweep, TimedOut, TypeOK
  <2>2. sent' \in [Requests -> [EventKinds -> Nat]]
    BY <1>1, <2>1, SendEffect, {"failed"} \in SUBSET EventKinds DEF Sweep, EventKinds
  <2>3. SlotTypes'
    BY <1>1, ClearedTypes DEF Sweep
  <2>4. TypeOK'
    BY <1>1, <2>2, <2>3 DEF Sweep, TypeOK, SlotTypes
  <2>5. ActiveCounts'
    BY <1>1, CountsKept DEF Sweep
  <2>. QED
    BY <2>4, <2>5
<1>2. CASE Tick
  <2>1. TypeOK'
    BY <1>2 DEF Tick, TypeOK
  <2>2. ActiveCounts'
    BY <1>2, CountsKept DEF Tick
  <2>. QED
    BY <2>1, <2>2
<1>. QED
  BY <1>1, <1>2

\* Every step keeps the types and the counts.
LEMMA NextTypes ==
  ASSUME TypeOK, ActiveCounts, [Next]_vars
  PROVE  TypeOK' /\ ActiveCounts'
<1>1. CASE \E r \in Requests : PrepareStep(r)
  <2>. PICK r \in Requests : PrepareStep(r)
    BY <1>1
  <2>1. TypeOK' /\ UNCHANGED <<active, upload>>
    BY PrepareTypes
  <2>2. ActiveCounts'
    BY <2>1, CountsKept
  <2>. QED
    BY <2>1, <2>2
<1>2. CASE \E u \in Uploads : UploadStep(u)
  BY <1>2, UploadTypes
<1>3. CASE Sweep \/ Tick
  BY <1>3, TimeTypes
<1>4. CASE UNCHANGED vars
  BY <1>4 DEF vars, sessionVars, prepareVars, bookVars, uploadVars, diskVars, TypeOK, ActiveCounts, Consuming
<1>. QED
  BY <1>1, <1>2, <1>3, <1>4 DEF Next

\* Nothing is counted at the start.
LEMMA InitTypes ==
  ASSUME Init
  PROVE  TypeOK /\ ActiveCounts
<1>1. TypeOK
  <2>1. open \in BOOLEAN /\ whole \in [Uploads -> BOOLEAN]
    BY Zenon DEF Init
  <2>. QED
    BY <2>1, ConstantsAssumption DEF Init, TypeOK, ConstantsAssumption, PreparePhases, ReleasePhases, UploadPhases
<1>2. ActiveCounts
  <2>. SUFFICES ASSUME NEW r \in Requests
                PROVE  Cardinality(Consuming(r)) <= active[r]
    BY DEF ActiveCounts
  <2>1. Consuming(r) = {}
    BY DEF Init, Consuming, CountedPhases
  <2>. QED
    BY <2>1, FS_EmptySet DEF Init
<1>. QED
  BY <1>1, <1>2

\* Every variable has its type, and active_uploads is never decremented below
\* zero: it counts every body being consumed.
THEOREM Types == Spec => [](TypeOK /\ ActiveCounts)
<1>1. Init => TypeOK /\ ActiveCounts
  BY InitTypes
<1>2. TypeOK /\ ActiveCounts /\ [Next]_vars => (TypeOK /\ ActiveCounts)'
  BY NextTypes
<1>. QED
  BY <1>1, <1>2, PTL DEF Spec

-----------------------------------------------------------------------------
(* The slot *)

\* The part of the publication invariant that speaks of the slot.
LockOwned == \A u \in Uploads : upload[u] \in LockPhases => Alive(Req[u])

SlotInv ==
  /\ SlotOwned /\ ReservationHeld /\ ReservationBounded
  /\ UploadsAnswered /\ LockExclusive /\ LockOwned

\* A step of a prepare-upload request, a cancellation included, keeps the slot
\* with its owner: what it clears or replaces is its own, because a reservation
\* and a message never live to the idle limit.
LEMMA PrepareSlot ==
  ASSUME TypeOK, SlotInv, NEW r \in Requests, PrepareStep(r)
  PROVE  SlotInv'
<1>. USE ConstantsAssumption DEF ConstantsAssumption, vars, sessionVars, prepareVars, bookVars, uploadVars, diskVars,
            TypeOK, SlotInv, SlotOwned, ReservationHeld, ReservationBounded,
            UploadsAnswered, LockExclusive, LockOwned, LockPhases, Alive, Unlocked
<1>1. CASE PrepareRefuse(r)
  BY <1>1 DEF PrepareRefuse
<1>2. CASE PrepareConflict(r)
  BY <1>2 DEF PrepareConflict
<1>3. CASE PrepareReserve(r)
  BY <1>3 DEF PrepareReserve, TakeSlot, TimedOut
<1>4. CASE \E ids \in SUBSET Offer[r] : Answer(r, ids)
  BY <1>4 DEF Answer
<1>5. CASE Decide(r)
  BY <1>5 DEF Decide
<1>6. CASE ExpirePrompt(r)
  BY <1>6 DEF ExpirePrompt
<1>7. CASE Decline(r)
  BY <1>7 DEF Decline, ClearSlot
<1>8. CASE Install(r)
  BY <1>8 DEF Install, TakeSlot
<1>9. CASE DeliverMessage(r)
  BY <1>9 DEF DeliverMessage, ClearSlot
<1>10. CASE DropPrepare(r)
  BY <1>10 DEF DropPrepare, PendingPhases
<1>11. CASE ReleaseReservation(r)
  BY <1>11 DEF ReleaseReservation, ClearSlot
<1>12. CASE CancelSession(r)
  BY <1>12 DEF CancelSession, ClearSlot
<1>. QED
  BY <1>1, <1>2, <1>3, <1>4, <1>5, <1>6, <1>7, <1>8, <1>9, <1>10, <1>11, <1>12
     DEF PrepareStep

\* A step of an upload keeps the slot with its owner: it clears the slot only
\* for the session it belongs to, which was answered.
LEMMA UploadSlot ==
  ASSUME TypeOK, SlotInv, NEW u \in Uploads, UploadStep(u)
  PROVE  SlotInv'
<1>. USE ConstantsAssumption DEF ConstantsAssumption, vars, sessionVars, prepareVars, bookVars, uploadVars, diskVars,
            TypeOK, SlotInv, SlotOwned, ReservationHeld, ReservationBounded,
            UploadsAnswered, LockExclusive, LockOwned, LockPhases, Alive, Unlocked, Goto
<1>0. Req[u] \in Requests /\ File[u] \in Files
  OBVIOUS
<1>1. CASE UploadRefuse(u)
  BY <1>1, <1>0 DEF UploadRefuse
<1>2. CASE UploadConflict(u)
  BY <1>2, <1>0 DEF UploadConflict
<1>3. CASE UploadBegin(u)
  BY <1>3, <1>0 DEF UploadBegin, Reservable
<1>4. CASE BodyTaken(u)
  BY <1>4, <1>0 DEF BodyTaken
<1>5. CASE StartBody(u)
  BY <1>5, <1>0 DEF StartBody
<1>6. CASE MkdirFails(u)
  BY <1>6, <1>0 DEF MkdirFails
<1>7. CASE EndUpload(u)
  BY <1>7, <1>0 DEF EndUpload
<1>8. CASE BodyChunk(u)
  BY <1>8, <1>0 DEF BodyChunk
<1>9. CASE ReportProgress(u)
  BY <1>9, <1>0 DEF ReportProgress
<1>10. CASE BodyEnds(u)
  BY <1>10, <1>0 DEF BodyEnds
<1>11. CASE BodyFails(u)
  BY <1>11, <1>0 DEF BodyFails
<1>12. CASE HashMatches(u)
  BY <1>12, <1>0 DEF HashMatches
<1>13. CASE HashFails(u)
  BY <1>13, <1>0 DEF HashFails
<1>14. CASE RollbackProgress(u)
  <2>. PICK phase \in {"withdrawing", "ending"} : upload' = [upload EXCEPT ![u] = phase]
    BY <1>14 DEF RollbackProgress
  <2>. QED
    BY <1>14, <1>0 DEF RollbackProgress
<1>15. CASE WithdrawProgress(u)
  BY <1>15, <1>0 DEF WithdrawProgress
<1>16. CASE FailSession(u)
  BY <1>16, <1>0 DEF FailSession, ClearSlot
<1>17. CASE Revalidate(u)
  BY <1>17, <1>0 DEF Revalidate
<1>18. CASE DiscardStale(u)
  BY <1>18, <1>0 DEF DiscardStale
<1>19. CASE LinkFile(u)
  BY <1>19, <1>0 DEF LinkFile
<1>20. CASE LinkFails(u)
  BY <1>20, <1>0 DEF LinkFails, ClearSlot
<1>21. CASE RecordFile(u)
  BY <1>21, <1>0 DEF RecordFile, AllReceived, ClearSlot
<1>22. CASE UnlinkFails(u)
  BY <1>22, <1>0 DEF UnlinkFails, ClearSlot
<1>23. CASE DropUpload(u)
  BY <1>23, <1>0 DEF DropUpload, AwaitPhases
<1>24. CASE LinkAdrift(u)
  BY <1>24, <1>0 DEF LinkAdrift
<1>. QED
  BY <1>1, <1>2, <1>3, <1>4, <1>5, <1>6, <1>7, <1>8, <1>9, <1>10, <1>11,
     <1>12, <1>13, <1>14, <1>15, <1>16, <1>17, <1>18, <1>19, <1>20, <1>21,
     <1>22, <1>23, <1>24 DEF UploadStep

\* The sweep never finds a reservation or a message, and the clock waits for
\* them.
LEMMA TimeSlot ==
  ASSUME TypeOK, SlotInv, Sweep \/ Tick
  PROVE  SlotInv'
<1>. USE ConstantsAssumption DEF ConstantsAssumption, vars, sessionVars, prepareVars, bookVars, uploadVars, diskVars,
            TypeOK, SlotInv, SlotOwned, ReservationHeld, ReservationBounded,
            UploadsAnswered, LockExclusive, LockOwned, LockPhases, Alive, Unlocked
<1>1. CASE Sweep
  BY <1>1 DEF Sweep, TimedOut, ClearSlot
<1>2. CASE Tick
  BY <1>2 DEF Tick, PendingPhases
<1>. QED
  BY <1>1, <1>2

-----------------------------------------------------------------------------
(* The files *)

\* A prepare-upload request, a cancellation, the sweep and the clock touch no
\* file and no reservation of a file.
LEMMA OthersFiles ==
  ASSUME FilesClaimed, UNCHANGED <<upload, uploading, received, published>>
  PROVE  FilesClaimed'
BY DEF FilesClaimed, Claims

\* A step of an upload keeps every claim: it takes a file that nobody claims,
\* and gives back or records only its own.
LEMMA UploadFiles ==
  ASSUME TypeOK, FilesClaimed, NEW u \in Uploads, UploadStep(u)
  PROVE  FilesClaimed'
<1>. USE ConstantsAssumption DEF ConstantsAssumption, vars, sessionVars, prepareVars, bookVars, uploadVars, diskVars,
            TypeOK, FilesClaimed, Claims, Goto
<1>0. Req[u] \in Requests /\ File[u] \in Files
  OBVIOUS
<1>1. CASE UploadRefuse(u)
  BY <1>1, <1>0 DEF UploadRefuse
<1>2. CASE UploadConflict(u)
  BY <1>2, <1>0 DEF UploadConflict
<1>3. CASE UploadBegin(u)
  BY <1>3, <1>0 DEF UploadBegin, Reservable
<1>4. CASE BodyTaken(u)
  BY <1>4, <1>0 DEF BodyTaken
<1>5. CASE StartBody(u)
  BY <1>5, <1>0 DEF StartBody
<1>6. CASE MkdirFails(u)
  BY <1>6, <1>0 DEF MkdirFails
<1>7. CASE EndUpload(u)
  <2>1. u \notin published /\ upload[u] = "undo"
    BY <1>7 DEF EndUpload
  <2>2. CASE Alive(Req[u])
    BY <1>7, <1>0, <2>1, <2>2 DEF EndUpload
  <2>3. CASE ~Alive(Req[u])
    BY <1>7, <1>0, <2>1, <2>3 DEF EndUpload
  <2>. QED
    BY <2>2, <2>3
<1>8. CASE BodyChunk(u)
  BY <1>8, <1>0 DEF BodyChunk
<1>9. CASE ReportProgress(u)
  BY <1>9, <1>0 DEF ReportProgress
<1>10. CASE BodyEnds(u)
  BY <1>10, <1>0 DEF BodyEnds
<1>11. CASE BodyFails(u)
  BY <1>11, <1>0 DEF BodyFails
<1>12. CASE HashMatches(u)
  BY <1>12, <1>0 DEF HashMatches
<1>13. CASE HashFails(u)
  BY <1>13, <1>0 DEF HashFails
<1>14. CASE RollbackProgress(u)
  <2>. PICK phase \in {"withdrawing", "ending"} : upload' = [upload EXCEPT ![u] = phase]
    BY <1>14 DEF RollbackProgress
  <2>. QED
    BY <1>14, <1>0 DEF RollbackProgress
<1>15. CASE WithdrawProgress(u)
  BY <1>15, <1>0 DEF WithdrawProgress
<1>16. CASE FailSession(u)
  BY <1>16, <1>0 DEF FailSession
<1>17. CASE Revalidate(u)
  BY <1>17, <1>0 DEF Revalidate
<1>18. CASE DiscardStale(u)
  BY <1>18, <1>0 DEF DiscardStale
<1>19. CASE LinkFile(u)
  BY <1>19, <1>0 DEF LinkFile
<1>20. CASE LinkFails(u)
  BY <1>20, <1>0 DEF LinkFails
<1>21. CASE RecordFile(u)
  BY <1>21, <1>0 DEF RecordFile, AllReceived
<1>22. CASE UnlinkFails(u)
  BY <1>22, <1>0 DEF UnlinkFails
<1>23. CASE DropUpload(u)
  BY <1>23, <1>0 DEF DropUpload, AwaitPhases
<1>24. CASE LinkAdrift(u)
  BY <1>24, <1>0 DEF LinkAdrift
<1>. QED
  BY <1>1, <1>2, <1>3, <1>4, <1>5, <1>6, <1>7, <1>8, <1>9, <1>10, <1>11,
     <1>12, <1>13, <1>14, <1>15, <1>16, <1>17, <1>18, <1>19, <1>20, <1>21,
     <1>22, <1>23, <1>24 DEF UploadStep

-----------------------------------------------------------------------------
(* Completion *)

RecordInv == RecordedIsPublished /\ CompletedIsRecorded

\* Only a message is completed by its prepare-upload request, and what a request
\* accepts is settled before anything of it is completed.
LEMMA PrepareRecords ==
  ASSUME TypeOK, SlotInv, RecordInv, NEW r \in Requests, PrepareStep(r)
  PROVE  RecordInv'
<1>0. /\ UNCHANGED <<received, published>>
      /\ \A q \in Requests : sent'[q]["completed"] # sent[q]["completed"]
           => q = r /\ DeliverMessage(r)
  <2>. USE DEF TypeOK, vars, sessionVars, prepareVars, bookVars, uploadVars, diskVars, EventKinds
  <2>1. CASE PrepareRefuse(r)
    BY <2>1 DEF PrepareRefuse
  <2>2. CASE PrepareConflict(r)
    BY <2>2 DEF PrepareConflict
  <2>3. CASE PrepareReserve(r)
    BY <2>3, SendEffect, {"request"} \in SUBSET EventKinds DEF PrepareReserve
  <2>4. CASE \E ids \in SUBSET Offer[r] : Answer(r, ids)
    BY <2>4 DEF Answer
  <2>5. CASE Decide(r)
    BY <2>5 DEF Decide
  <2>6. CASE ExpirePrompt(r)
    BY <2>6, SendEffect, {"expired"} \in SUBSET EventKinds DEF ExpirePrompt
  <2>7. CASE Decline(r)
    BY <2>7 DEF Decline
  <2>8. CASE Install(r)
    BY <2>8 DEF Install
  <2>9. CASE DeliverMessage(r)
    BY <2>9, SendEffect, {"text", "completed"} \in SUBSET EventKinds DEF DeliverMessage
  <2>10. CASE DropPrepare(r)
    BY <2>10 DEF DropPrepare
  <2>11. CASE ReleaseReservation(r)
    BY <2>11, SendEffect, {"expired"} \in SUBSET EventKinds DEF ReleaseReservation
  <2>12. CASE CancelSession(r)
    BY <2>12, SendEffect, {"cancelled"} \in SUBSET EventKinds DEF CancelSession
  <2>. QED
    BY <2>1, <2>2, <2>3, <2>4, <2>5, <2>6, <2>7, <2>8, <2>9, <2>10, <2>11, <2>12 DEF PrepareStep
<1>1. RecordedIsPublished'
  BY <1>0 DEF RecordInv, RecordedIsPublished
<1>2. ASSUME NEW q \in Requests
      PROVE  /\ prepare'[q] \in {"new", "asking", "deciding"} => prepare[q] \in {"new", "asking", "deciding"}
             /\ chosen'[q] # chosen[q] => prepare[q] = "asking" /\ prepare'[q] = "deciding"
  <2>. USE DEF TypeOK, vars, sessionVars, prepareVars, bookVars, uploadVars, diskVars
  <2>1. CASE PrepareRefuse(r)
    BY <2>1 DEF PrepareRefuse
  <2>2. CASE PrepareConflict(r)
    BY <2>2 DEF PrepareConflict
  <2>3. CASE PrepareReserve(r)
    BY <2>3 DEF PrepareReserve
  <2>4. CASE \E ids \in SUBSET Offer[r] : Answer(r, ids)
    BY <2>4 DEF Answer
  <2>5. CASE Decide(r)
    BY <2>5 DEF Decide
  <2>6. CASE ExpirePrompt(r)
    BY <2>6 DEF ExpirePrompt
  <2>7. CASE Decline(r)
    BY <2>7 DEF Decline
  <2>8. CASE Install(r)
    BY <2>8 DEF Install
  <2>9. CASE DeliverMessage(r)
    BY <2>9 DEF DeliverMessage
  <2>10. CASE DropPrepare(r)
    BY <2>10 DEF DropPrepare
  <2>11. CASE ReleaseReservation(r)
    BY <2>11 DEF ReleaseReservation
  <2>12. CASE CancelSession(r)
    BY <2>12 DEF CancelSession
  <2>. QED
    BY <2>1, <2>2, <2>3, <2>4, <2>5, <2>6, <2>7, <2>8, <2>9, <2>10, <2>11, <2>12 DEF PrepareStep
<1>3. DeliverMessage(r) => r \in Messages /\ prepare[r] = "messaging" /\ prepare'[r] = "replied"
  BY DEF DeliverMessage, SlotInv, SlotOwned, TypeOK
<1>4. CompletedIsRecorded'
  <2>. SUFFICES ASSUME NEW q \in Requests
                PROVE  /\ prepare'[q] \in {"new", "asking", "deciding"} => sent'[q]["completed"] = 0
                       /\ sent'[q]["completed"] > 0 /\ q \notin Messages => chosen'[q] \subseteq received'[q]
    BY DEF CompletedIsRecorded
  <2>1. CASE q = r /\ DeliverMessage(r)
    BY <2>1, <1>3
  <2>2. CASE ~(q = r /\ DeliverMessage(r))
    <3>1. sent'[q]["completed"] = sent[q]["completed"]
      BY <1>0, <2>2
    <3>2. received'[q] = received[q]
      BY <1>0
    <3>. QED
      BY <3>1, <3>2, <1>2 DEF RecordInv, CompletedIsRecorded
  <2>. QED
    BY <2>1, <2>2
<1>. QED
  BY <1>1, <1>4 DEF RecordInv

\* An upload records a file it published, and completes its session once every
\* accepted file is recorded.
LEMMA UploadRecords ==
  ASSUME TypeOK, SlotInv, FilesClaimed, RecordInv, NEW u \in Uploads, UploadStep(u)
  PROVE  RecordInv'
<1>. USE ConstantsAssumption DEF ConstantsAssumption, vars, sessionVars, prepareVars, bookVars, uploadVars, diskVars
<1>0. Req[u] \in Requests /\ File[u] \in Files
  OBVIOUS
<1>1. CASE RecordFile(u)
  <2>. DEFINE r == Req[u]
  <2>1. /\ u \in published /\ published' = published
        /\ received' = [received EXCEPT ![r] = @ \cup {File[u]}]
        /\ UNCHANGED <<prepare, chosen>>
        /\ prepare[r] = "replied"
    BY <1>1 DEF RecordFile, AllReceived, FilesClaimed, SlotInv, UploadsAnswered
  <2>2. RecordedIsPublished'
    BY <2>1, <1>0 DEF RecordInv, RecordedIsPublished, TypeOK
  <2>3. /\ \A q \in Requests : q # r => sent'[q] = sent[q]
        /\ sent'[r]["completed"] # sent[r]["completed"] => received[r] \cup {File[u]} = chosen[r]
    BY <1>1, <1>0, SendEffect, {"file", "completed"} \in SUBSET EventKinds, {"file"} \in SUBSET EventKinds
       DEF RecordFile, AllReceived, EventKinds
  <2>4. CompletedIsRecorded'
    BY <2>1, <2>3, <1>0 DEF RecordInv, CompletedIsRecorded, TypeOK
  <2>. QED
    BY <2>2, <2>4 DEF RecordInv
<1>2. CASE ~RecordFile(u)
  <2>1. /\ UNCHANGED <<prepare, chosen, received>>
        /\ published \subseteq published'
        /\ \A q \in Requests : sent'[q]["completed"] = sent[q]["completed"]
    <3>1. CASE UploadRefuse(u)
      BY <3>1 DEF UploadRefuse
    <3>2. CASE UploadConflict(u)
      BY <3>2 DEF UploadConflict
    <3>3. CASE UploadBegin(u)
      BY <3>3 DEF UploadBegin, Reservable
    <3>4. CASE BodyTaken(u)
      BY <3>4 DEF BodyTaken
    <3>5. CASE StartBody(u)
      BY <3>5 DEF StartBody
    <3>6. CASE MkdirFails(u)
      BY <3>6 DEF MkdirFails
    <3>7. CASE EndUpload(u)
      BY <3>7 DEF EndUpload
    <3>8. CASE BodyChunk(u)
      BY <3>8 DEF BodyChunk
    <3>9. CASE ReportProgress(u)
      BY <3>9 DEF ReportProgress
    <3>10. CASE BodyEnds(u)
      BY <3>10 DEF BodyEnds
    <3>11. CASE BodyFails(u)
      BY <3>11 DEF BodyFails
    <3>12. CASE HashMatches(u)
      BY <3>12 DEF HashMatches
    <3>13. CASE HashFails(u)
      BY <3>13 DEF HashFails
    <3>14. CASE RollbackProgress(u)
      BY <3>14 DEF RollbackProgress
    <3>15. CASE WithdrawProgress(u)
      BY <3>15 DEF WithdrawProgress
    <3>16. CASE FailSession(u)
      BY <3>16, <1>0, SendEffect, {"failed"} \in SUBSET EventKinds DEF FailSession, EventKinds
    <3>17. CASE Revalidate(u)
      BY <3>17 DEF Revalidate
    <3>18. CASE DiscardStale(u)
      BY <3>18 DEF DiscardStale
    <3>19. CASE LinkFile(u)
      BY <3>19 DEF LinkFile
    <3>20. CASE LinkFails(u)
      BY <3>20, <1>0, SendEffect, {"failed"} \in SUBSET EventKinds DEF LinkFails, EventKinds
    <3>21. CASE UnlinkFails(u)
      BY <3>21, <1>0, SendEffect, {"failed"} \in SUBSET EventKinds DEF UnlinkFails, EventKinds
    <3>22. CASE DropUpload(u)
      BY <3>22 DEF DropUpload
    <3>23. CASE LinkAdrift(u)
      BY <3>23 DEF LinkAdrift
    <3>. QED
      BY <1>2, <3>1, <3>2, <3>3, <3>4, <3>5, <3>6, <3>7, <3>8, <3>9, <3>10, <3>11, <3>12, <3>13, <3>14, <3>15, <3>16, <3>17, <3>18, <3>19, <3>20, <3>21, <3>22, <3>23 DEF UploadStep
  <2>2. RecordedIsPublished'
    BY <2>1 DEF RecordInv, RecordedIsPublished
  <2>3. CompletedIsRecorded'
    BY <2>1 DEF RecordInv, CompletedIsRecorded
  <2>. QED
    BY <2>2, <2>3 DEF RecordInv
<1>. QED
  BY <1>1, <1>2

-----------------------------------------------------------------------------
(* Terminal events and prompts *)

TermInv == TerminalOnce /\ TerminalPending /\ PromptInv /\ ExpiredOnce

\* The event counts of a request are numbers.
LEMMA SentNat ==
  ASSUME TypeOK, NEW r \in Requests
  PROVE  /\ sent[r]["completed"] \in Nat /\ sent[r]["cancelled"] \in Nat
         /\ sent[r]["failed"] \in Nat /\ sent[r]["expired"] \in Nat
         /\ Terminals(r) \in Nat
BY DEF TypeOK, EventKinds, Terminals

\* A step that sends no terminal and no withdrawal, and keeps the owner of the
\* slot, the requests and the tasks to come, keeps what was said of a session.
LEMMA TermKept ==
  ASSUME TermInv, UNCHANGED <<slot, open, prepare, chosen, release>>,
         \A q \in Requests, k \in {"completed", "cancelled", "failed", "expired"} :
           sent'[q][k] = sent[q][k]
  PROVE  TermInv'
BY DEF TermInv, TerminalOnce, TerminalPending, PromptInv, ExpiredOnce, Terminals, Alive

\* The terminal event of the session that owns the slot, sent as it is cleared.
LEMMA TermSent ==
  ASSUME TypeOK, SlotInv, TermInv, NEW r \in Requests, Alive(r), ClearSlot,
         NEW kinds \in SUBSET EventKinds, Send(r, kinds), "expired" \notin kinds,
         \/ kinds \cap {"completed", "cancelled", "failed"} = {"completed"}
         \/ kinds \cap {"completed", "cancelled", "failed"} = {"cancelled"}
         \/ kinds \cap {"completed", "cancelled", "failed"} = {"failed"},
         UNCHANGED <<chosen, release>>,
         \A q \in Requests : prepare'[q] = prepare[q] \/ (q = r /\ prepare'[q] = "replied")
  PROVE  TermInv'
<1>1. /\ \A q \in Requests : q # r => sent'[q] = sent[q]
      /\ sent'[r]["expired"] = sent[r]["expired"]
      /\ Terminals(r)' = Terminals(r) + 1
  <2>1. /\ \A q \in Requests : q # r => sent'[q] = sent[q]
        /\ \A k \in kinds : sent'[r][k] = sent[r][k] + 1
        /\ \A k \in EventKinds \ kinds : sent'[r][k] = sent[r][k]
    BY SendEffect
  <2>2. {"expired", "completed", "cancelled", "failed"} \subseteq EventKinds
    BY DEF EventKinds
  <2>. QED
    BY <2>1, <2>2, SentNat DEF Terminals
<1>2. slot = r /\ Terminals(r) = 0 /\ release[r] = "none"
  BY SentNat DEF TermInv, TerminalOnce, Alive, SlotInv, SlotOwned
<1>3. prepare[r] \in {"messaging", "replied", "dropped"} /\ sent[r]["expired"] = 0
  BY SentNat DEF Alive, SlotInv, SlotOwned, TermInv, PromptInv
<1>4. slot' = NoRequest /\ NoRequest \notin Requests /\ ~open'
  BY ConstantsAssumption DEF ClearSlot, ConstantsAssumption
<1>5. ASSUME NEW q \in Requests, q # r
      PROVE  Terminals(q)' = Terminals(q) /\ sent'[q] = sent[q] /\ slot # q
  BY <1>1, <1>2, <1>5 DEF Terminals
<1>6. TerminalOnce'
  BY <1>1, <1>2, <1>4, <1>5 DEF TermInv, TerminalOnce
<1>7. TerminalPending'
  BY <1>2, <1>3, <1>5 DEF TermInv, TerminalPending
<1>8. PromptInv'
  BY <1>1, <1>2, <1>3, <1>4, <1>5 DEF TermInv, PromptInv, Alive
<1>9. ExpiredOnce'
  BY <1>1, <1>3, <1>5 DEF TermInv, ExpiredOnce
<1>. QED
  BY <1>6, <1>7, <1>8, <1>9 DEF TermInv

\* A step that sends no terminal event, and gives the slot to nobody else than a
\* request without one.
LEMMA TermQuiet ==
  ASSUME TypeOK, TerminalOnce, TerminalPending,
         \A q \in Requests : Terminals(q)' = Terminals(q),
         slot' \in Requests => slot' = slot \/ Terminals(slot') = 0,
         \A q \in Requests : prepare'[q] = "new" => prepare[q] = "new",
         \A q \in Requests : release'[q] # "none" => release[q] # "none" \/ Terminals(q) = 0
  PROVE  TerminalOnce' /\ TerminalPending'
<1>. \A q \in Requests : Terminals(q) \in Nat
  BY SentNat
<1>1. TerminalOnce'
  BY DEF TerminalOnce
<1>2. TerminalPending'
  BY DEF TerminalPending
<1>. QED
  BY <1>1, <1>2

\* A step of a prepare-upload request, a cancellation included, keeps what was
\* said of every session.
LEMMA PrepareTerm ==
  ASSUME TypeOK, SlotInv, TermInv, NEW r \in Requests, PrepareStep(r)
  PROVE  TermInv'
<1>. USE ConstantsAssumption DEF ConstantsAssumption, TermInv, vars, sessionVars,
            prepareVars, bookVars, uploadVars, diskVars
<1>0. \A q \in Requests : Terminals(q) \in Nat /\ sent[q]["expired"] \in Nat
  BY SentNat
<1>1. CASE PrepareRefuse(r)
  <2>1. TerminalOnce' /\ TerminalPending'
    BY <1>1, TermQuiet DEF PrepareRefuse, Terminals, TypeOK
  <2>2. PromptInv' /\ ExpiredOnce'
    BY <1>1, <1>0 DEF PrepareRefuse, PromptInv, ExpiredOnce, Alive, Terminals, TypeOK, SlotInv, SlotOwned, ReservationHeld, ReservationBounded
  <2>. QED
    BY <2>1, <2>2
<1>2. CASE PrepareConflict(r)
  <2>1. TerminalOnce' /\ TerminalPending'
    BY <1>2, TermQuiet DEF PrepareConflict, Terminals, TypeOK
  <2>2. PromptInv' /\ ExpiredOnce'
    BY <1>2, <1>0 DEF PrepareConflict, PromptInv, ExpiredOnce, Alive, Terminals, TypeOK, SlotInv, SlotOwned, ReservationHeld, ReservationBounded
  <2>. QED
    BY <2>1, <2>2
<1>3. CASE PrepareReserve(r)
  <2>1. /\ \A q \in Requests, k \in {"completed", "cancelled", "failed"} : sent'[q][k] = sent[q][k]
        /\ \A q \in Requests : q # r => sent'[q]["expired"] = sent[q]["expired"]
        /\ sent'[r]["expired"] = sent[r]["expired"]
    BY <1>3, SendEffect, {"request"} \in SUBSET EventKinds DEF PrepareReserve, EventKinds
  <2>2. \A q \in Requests : Terminals(q)' = Terminals(q)
    BY <2>1 DEF Terminals
  <2>3. Terminals(r) = 0 \/ slot # r
    BY <1>0 DEF TerminalOnce
  <2>4. TerminalOnce' /\ TerminalPending'
    BY <1>3, <2>2, <2>3, TermQuiet DEF PrepareReserve, TerminalPending, TypeOK, SlotInv, SlotOwned, ReservationHeld, ReservationBounded, TakeSlot
  <2>5. PromptInv'
    BY <1>3, <1>0, <2>1 DEF PrepareReserve, PromptInv, Alive, TypeOK, SlotInv, SlotOwned, ReservationHeld, ReservationBounded, TakeSlot
  <2>6. ExpiredOnce'
    BY <1>3, <1>0, <2>1, <2>2, <2>3 DEF PrepareReserve, PromptInv, ExpiredOnce, TerminalPending, SlotInv, SlotOwned, ReservationHeld, ReservationBounded
  <2>. QED
    BY <2>4, <2>5, <2>6
<1>4. CASE \E ids \in SUBSET Offer[r] : Answer(r, ids)
  BY <1>4, TermKept DEF Answer
<1>5. CASE Decide(r)
  <2>1. TerminalOnce' /\ TerminalPending'
    BY <1>5, TermQuiet DEF Decide, Terminals, TypeOK
  <2>2. PromptInv' /\ ExpiredOnce'
    BY <1>5, <1>0 DEF Decide, PromptInv, ExpiredOnce, Alive, Terminals, TypeOK, SlotInv, SlotOwned, ReservationHeld, ReservationBounded
  <2>. QED
    BY <2>1, <2>2
<1>6. CASE ExpirePrompt(r)
  <2>1. /\ \A q \in Requests, k \in {"completed", "cancelled", "failed"} : sent'[q][k] = sent[q][k]
        /\ \A q \in Requests : q # r => sent'[q]["expired"] = sent[q]["expired"]
        /\ sent'[r]["expired"] = sent[r]["expired"] + 1
    BY <1>6, SendEffect, {"expired"} \in SUBSET EventKinds DEF ExpirePrompt, EventKinds
  <2>2. \A q \in Requests : Terminals(q)' = Terminals(q)
    BY <2>1 DEF Terminals
  <2>3. Terminals(r) = 0 \/ slot # r
    BY <1>0 DEF TerminalOnce
  <2>4. TerminalOnce' /\ TerminalPending'
    BY <1>6, <2>2, <2>3, TermQuiet DEF ExpirePrompt, TerminalPending, TypeOK, SlotInv, SlotOwned, ReservationHeld, ReservationBounded
  <2>5. PromptInv'
    BY <1>6, <1>0, <2>1 DEF ExpirePrompt, PromptInv, Alive, TypeOK, SlotInv, SlotOwned, ReservationHeld, ReservationBounded
  <2>6. ExpiredOnce'
    BY <1>6, <1>0, <2>1, <2>2, <2>3 DEF ExpirePrompt, PromptInv, ExpiredOnce, TerminalPending, SlotInv, SlotOwned, ReservationHeld, ReservationBounded
  <2>. QED
    BY <2>4, <2>5, <2>6
<1>7. CASE Decline(r)
  <2>1. /\ \A q \in Requests, k \in {"completed", "cancelled", "failed"} : sent'[q][k] = sent[q][k]
        /\ \A q \in Requests : q # r => sent'[q]["expired"] = sent[q]["expired"]
        /\ sent'[r]["expired"] = sent[r]["expired"]
    BY <1>7 DEF Decline
  <2>2. \A q \in Requests : Terminals(q)' = Terminals(q)
    BY <2>1 DEF Terminals
  <2>3. Terminals(r) = 0 \/ slot # r
    BY <1>0 DEF TerminalOnce
  <2>4. TerminalOnce' /\ TerminalPending'
    BY <1>7, <2>2, <2>3, TermQuiet DEF Decline, TerminalPending, TypeOK, SlotInv, SlotOwned, ReservationHeld, ReservationBounded, ClearSlot
  <2>5. PromptInv'
    BY <1>7, <1>0, <2>1 DEF Decline, PromptInv, Alive, TypeOK, SlotInv, SlotOwned, ReservationHeld, ReservationBounded, ClearSlot
  <2>6. ExpiredOnce'
    BY <1>7, <1>0, <2>1, <2>2, <2>3 DEF Decline, PromptInv, ExpiredOnce, TerminalPending, SlotInv, SlotOwned, ReservationHeld, ReservationBounded
  <2>. QED
    BY <2>4, <2>5, <2>6
<1>8. CASE Install(r)
  <2>1. /\ \A q \in Requests, k \in {"completed", "cancelled", "failed"} : sent'[q][k] = sent[q][k]
        /\ \A q \in Requests : q # r => sent'[q]["expired"] = sent[q]["expired"]
        /\ sent'[r]["expired"] = sent[r]["expired"]
    BY <1>8 DEF Install
  <2>2. \A q \in Requests : Terminals(q)' = Terminals(q)
    BY <2>1 DEF Terminals
  <2>3. Terminals(r) = 0 \/ slot # r
    BY <1>0 DEF TerminalOnce
  <2>4. TerminalOnce' /\ TerminalPending'
    BY <1>8, <2>2, <2>3, TermQuiet DEF Install, TerminalPending, TypeOK, SlotInv, SlotOwned, ReservationHeld, ReservationBounded, TakeSlot
  <2>5. PromptInv'
    BY <1>8, <1>0, <2>1 DEF Install, PromptInv, Alive, TypeOK, SlotInv, SlotOwned, ReservationHeld, ReservationBounded, TakeSlot
  <2>6. ExpiredOnce'
    BY <1>8, <1>0, <2>1, <2>2, <2>3 DEF Install, PromptInv, ExpiredOnce, TerminalPending, SlotInv, SlotOwned, ReservationHeld, ReservationBounded
  <2>. QED
    BY <2>4, <2>5, <2>6
<1>9. CASE DeliverMessage(r)
  <2>1. Alive(r)
    BY <1>9 DEF DeliverMessage, SlotInv, SlotOwned, Alive
  <2>2. \A q \in Requests : prepare'[q] = prepare[q] \/ (q = r /\ prepare'[q] = "replied")
    BY <1>9 DEF DeliverMessage, TypeOK
  <2>. QED
    BY <1>9, <2>1, <2>2, TermSent, {"text", "completed"} \in SUBSET EventKinds DEF DeliverMessage, EventKinds
<1>10. CASE DropPrepare(r)
  <2>1. /\ \A q \in Requests, k \in {"completed", "cancelled", "failed"} : sent'[q][k] = sent[q][k]
        /\ \A q \in Requests : q # r => sent'[q]["expired"] = sent[q]["expired"]
        /\ sent'[r]["expired"] = sent[r]["expired"]
    BY <1>10 DEF DropPrepare
  <2>2. \A q \in Requests : Terminals(q)' = Terminals(q)
    BY <2>1 DEF Terminals
  <2>3. Terminals(r) = 0 \/ slot # r
    BY <1>0 DEF TerminalOnce
  <2>4. TerminalOnce' /\ TerminalPending'
    BY <1>10, <2>2, <2>3, TermQuiet DEF DropPrepare, TerminalPending, TypeOK, SlotInv, SlotOwned, ReservationHeld, ReservationBounded, PendingPhases
  <2>5. PromptInv'
    BY <1>10, <1>0, <2>1 DEF DropPrepare, PromptInv, Alive, TypeOK, SlotInv, SlotOwned, ReservationHeld, ReservationBounded, PendingPhases
  <2>6. ExpiredOnce'
    BY <1>10, <1>0, <2>1, <2>2, <2>3 DEF DropPrepare, PromptInv, ExpiredOnce, TerminalPending, SlotInv, SlotOwned, ReservationHeld, ReservationBounded
  <2>. QED
    BY <2>4, <2>5, <2>6
<1>11. CASE ReleaseReservation(r)
  <2>1. /\ \A q \in Requests, k \in {"completed", "cancelled", "failed"} : sent'[q][k] = sent[q][k]
        /\ \A q \in Requests : q # r => sent'[q]["expired"] = sent[q]["expired"]
        /\ sent'[r]["expired"] = sent[r]["expired"] + (IF release[r] = "expire" THEN 1 ELSE 0)
    <3>1. CASE release[r] = "expire"
      BY <1>11, <3>1, SendEffect, {"expired"} \in SUBSET EventKinds DEF ReleaseReservation, EventKinds
    <3>2. CASE release[r] # "expire"
      BY <1>11, <3>2, SentNat DEF ReleaseReservation
    <3>. QED
      BY <3>1, <3>2
  <2>2. \A q \in Requests : Terminals(q)' = Terminals(q)
    BY <2>1 DEF Terminals
  <2>3. Terminals(r) = 0 \/ slot # r
    BY <1>0 DEF TerminalOnce
  <2>4. TerminalOnce' /\ TerminalPending'
    BY <1>11, <2>2, <2>3, TermQuiet DEF ReleaseReservation, TerminalPending, TypeOK, SlotInv, SlotOwned, ReservationHeld, ReservationBounded, ClearSlot
  <2>5. PromptInv'
    BY <1>11, <1>0, <2>1 DEF ReleaseReservation, PromptInv, Alive, TypeOK, SlotInv, SlotOwned, ReservationHeld, ReservationBounded, ClearSlot
  <2>6. ExpiredOnce'
    BY <1>11, <1>0, <2>1, <2>2, <2>3 DEF ReleaseReservation, PromptInv, ExpiredOnce, TerminalPending, SlotInv, SlotOwned, ReservationHeld, ReservationBounded
  <2>. QED
    BY <2>4, <2>5, <2>6
<1>12. CASE CancelSession(r)
  BY <1>12, TermSent, {"cancelled"} \in SUBSET EventKinds DEF CancelSession, EventKinds
<1>. QED
  BY <1>1, <1>2, <1>3, <1>4, <1>5, <1>6, <1>7, <1>8, <1>9, <1>10, <1>11, <1>12
     DEF PrepareStep

\* A step of an upload reports the end of a session only as it ends it.
LEMMA UploadTerm ==
  ASSUME TypeOK, SlotInv, TermInv, NEW u \in Uploads, UploadStep(u)
  PROVE  TermInv'
<1>. USE ConstantsAssumption DEF ConstantsAssumption, vars, sessionVars,
            prepareVars, bookVars, uploadVars, diskVars
<1>0. Req[u] \in Requests /\ File[u] \in Files
  OBVIOUS
<1>. DEFINE r == Req[u]
<1>1. CASE UploadRefuse(u)
  BY <1>1, TermKept DEF UploadRefuse
<1>2. CASE UploadConflict(u)
  BY <1>2, TermKept DEF UploadConflict
<1>3. CASE UploadBegin(u)
  BY <1>3, TermKept DEF UploadBegin, Reservable
<1>4. CASE BodyTaken(u)
  BY <1>4, TermKept DEF BodyTaken
<1>5. CASE StartBody(u)
  BY <1>5, TermKept DEF StartBody
<1>6. CASE MkdirFails(u)
  BY <1>6, TermKept DEF MkdirFails
<1>7. CASE EndUpload(u)
  BY <1>7, TermKept DEF EndUpload
<1>8. CASE BodyChunk(u)
  BY <1>8, TermKept DEF BodyChunk
<1>9. CASE ReportProgress(u)
  BY <1>9, TermKept DEF ReportProgress
<1>10. CASE BodyEnds(u)
  BY <1>10, TermKept DEF BodyEnds
<1>11. CASE BodyFails(u)
  BY <1>11, TermKept DEF BodyFails
<1>12. CASE HashMatches(u)
  BY <1>12, TermKept DEF HashMatches
<1>13. CASE HashFails(u)
  BY <1>13, TermKept DEF HashFails
<1>14. CASE RollbackProgress(u)
  BY <1>14, TermKept DEF RollbackProgress
<1>15. CASE WithdrawProgress(u)
  BY <1>15, TermKept DEF WithdrawProgress
<1>16. CASE FailSession(u)
  <2>1. CASE Alive(r)
    BY <1>16, <1>0, <2>1, TermSent, {"failed"} \in SUBSET EventKinds DEF FailSession, EventKinds
  <2>2. CASE ~Alive(r)
    BY <1>16, <2>2, TermKept DEF FailSession
  <2>. QED
    BY <2>1, <2>2
<1>17. CASE Revalidate(u)
  BY <1>17, TermKept DEF Revalidate
<1>18. CASE DiscardStale(u)
  BY <1>18, TermKept DEF DiscardStale
<1>19. CASE LinkFile(u)
  BY <1>19, TermKept DEF LinkFile
<1>20. CASE LinkFails(u)
  <2>1. Alive(r)
    BY <1>20 DEF LinkFails, SlotInv, LockOwned, LockPhases
  <2>. QED
    BY <1>20, <1>0, <2>1, TermSent, {"failed"} \in SUBSET EventKinds DEF LinkFails, EventKinds
<1>21. CASE RecordFile(u)
  <2>1. Alive(r)
    BY <1>21 DEF RecordFile, AllReceived, SlotInv, LockOwned, LockPhases
  <2>2. CASE received[r] \cup {File[u]} = chosen[r]
    BY <1>21, <1>0, <2>1, <2>2, TermSent, {"file", "completed"} \in SUBSET EventKinds DEF RecordFile, AllReceived, EventKinds
  <2>3. CASE received[r] \cup {File[u]} # chosen[r]
    <3>1. \A q \in Requests, k \in {"completed", "cancelled", "failed", "expired"} : sent'[q][k] = sent[q][k]
      BY <1>21, <1>0, <2>3, SendEffect, {"file"} \in SUBSET EventKinds DEF RecordFile, AllReceived, EventKinds
    <3>. QED
      BY <1>21, <2>3, <3>1, TermKept DEF RecordFile, AllReceived
  <2>. QED
    BY <2>2, <2>3
<1>22. CASE UnlinkFails(u)
  <2>1. Alive(r)
    BY <1>22 DEF UnlinkFails, SlotInv, LockOwned, LockPhases
  <2>. QED
    BY <1>22, <1>0, <2>1, TermSent, {"failed"} \in SUBSET EventKinds DEF UnlinkFails, EventKinds
<1>23. CASE DropUpload(u)
  BY <1>23, TermKept DEF DropUpload
<1>24. CASE LinkAdrift(u)
  BY <1>24, TermKept DEF LinkAdrift
<1>. QED
  BY <1>1, <1>2, <1>3, <1>4, <1>5, <1>6, <1>7, <1>8, <1>9, <1>10, <1>11,
     <1>12, <1>13, <1>14, <1>15, <1>16, <1>17, <1>18, <1>19, <1>20, <1>21,
     <1>22, <1>23, <1>24 DEF UploadStep

\* The sweep reports the session it ends, which is never a reservation.
LEMMA TimeTerm ==
  ASSUME TypeOK, SlotInv, TermInv, Sweep \/ Tick
  PROVE  TermInv'
<1>. USE ConstantsAssumption DEF ConstantsAssumption, vars, sessionVars,
            prepareVars, bookVars, uploadVars, diskVars
<1>1. CASE Sweep
  <2>1. slot \in Requests /\ Alive(slot)
    BY <1>1 DEF Sweep, TimedOut, Alive, SlotInv, ReservationBounded, TypeOK
  <2>. QED
    BY <1>1, <2>1, TermSent, {"failed"} \in SUBSET EventKinds DEF Sweep, EventKinds
<1>2. CASE Tick
  BY <1>2, TermKept DEF Tick
<1>. QED
  BY <1>1, <1>2

-----------------------------------------------------------------------------
(* The inductive invariant *)

\* IndInv is the conjunction of the parts proved above.
LEMMA IndInvParts ==
  IndInv <=> TypeOK /\ ActiveCounts /\ SlotInv /\ FilesClaimed /\ RecordInv /\ TermInv
<1>1. LockOwned /\ FilesClaimed => PublicationOwnsSession
  BY ConstantsAssumption DEF ConstantsAssumption, LockOwned, FilesClaimed, PublicationOwnsSession, LockPhases
<1>2. PublicationOwnsSession => LockOwned
  BY DEF LockOwned, PublicationOwnsSession
<1>. QED
  BY <1>1, <1>2 DEF IndInv, SlotInv, RecordInv, TermInv

\* The same of the state after a step.
LEMMA IndInvNextParts ==
  TypeOK' /\ ActiveCounts' /\ SlotInv' /\ FilesClaimed' /\ RecordInv' /\ TermInv' => IndInv'
<1>1. LockOwned' /\ FilesClaimed' => PublicationOwnsSession'
  BY ConstantsAssumption DEF ConstantsAssumption, LockOwned, FilesClaimed, PublicationOwnsSession, LockPhases
<1>. QED
  BY <1>1 DEF IndInv, SlotInv, RecordInv, TermInv

\* Nothing has happened at the start.
LEMMA InitInv == Init => IndInv
<1>. SUFFICES ASSUME Init
              PROVE  IndInv
  OBVIOUS
<1>1. TypeOK /\ ActiveCounts
  BY InitTypes
<1>2. SlotInv
  BY ConstantsAssumption DEF ConstantsAssumption, Init, SlotInv, SlotOwned, ReservationHeld,
     ReservationBounded, UploadsAnswered, LockExclusive, LockOwned, LockPhases
<1>3. FilesClaimed /\ RecordInv
  BY DEF Init, FilesClaimed, Claims, RecordInv, RecordedIsPublished, CompletedIsRecorded, EventKinds
<1>4. TermInv
  BY ConstantsAssumption DEF ConstantsAssumption, Init, TermInv, TerminalOnce, TerminalPending,
     PromptInv, ExpiredOnce, Terminals, EventKinds
<1>. QED
  BY <1>1, <1>2, <1>3, <1>4, IndInvParts

\* Every step keeps the inductive invariant.
LEMMA NextInv == IndInv /\ [Next]_vars => IndInv'
<1>. SUFFICES ASSUME IndInv, [Next]_vars
              PROVE  IndInv'
  OBVIOUS
<1>0. TypeOK /\ ActiveCounts /\ SlotInv /\ FilesClaimed /\ RecordInv /\ TermInv
  BY IndInvParts
<1>1. TypeOK' /\ ActiveCounts'
  BY <1>0, NextTypes
<1>. SUFFICES SlotInv' /\ FilesClaimed' /\ RecordInv' /\ TermInv'
  BY <1>1, IndInvNextParts
<1>2. CASE \E r \in Requests : PrepareStep(r)
  <2>. PICK r \in Requests : PrepareStep(r)
    BY <1>2
  <2>1. SlotInv' /\ RecordInv' /\ TermInv'
    BY <1>0, PrepareSlot, PrepareRecords, PrepareTerm
  <2>2. UNCHANGED <<upload, uploading, received, published>>
    BY DEF PrepareStep, PrepareRefuse, PrepareConflict, PrepareReserve, Answer, Decide, ExpirePrompt,
       Decline, Install, DeliverMessage, DropPrepare, ReleaseReservation, CancelSession,
       bookVars, uploadVars, diskVars
  <2>3. FilesClaimed'
    BY <1>0, <2>2, OthersFiles
  <2>. QED
    BY <2>1, <2>3
<1>3. CASE \E u \in Uploads : UploadStep(u)
  BY <1>0, <1>3, UploadSlot, UploadFiles, UploadRecords, UploadTerm
<1>4. CASE Sweep \/ Tick
  <2>1. SlotInv' /\ TermInv'
    BY <1>0, <1>4, TimeSlot, TimeTerm
  <2>2. UNCHANGED <<upload, uploading, received, published, prepare, chosen>>
    BY <1>4 DEF Sweep, Tick, prepareVars, bookVars, uploadVars, diskVars
  <2>3. FilesClaimed'
    BY <1>0, <2>2, OthersFiles
  <2>4. \A q \in Requests : sent'[q]["completed"] = sent[q]["completed"]
    <3>1. CASE Sweep
      <4>1. slot \in Requests
        BY <1>0, <3>1 DEF Sweep, TimedOut, TypeOK
      <4>. QED
        BY <1>0, <3>1, <4>1, SendEffect, {"failed"} \in SUBSET EventKinds DEF Sweep, EventKinds
    <3>2. CASE Tick
      BY <3>2 DEF Tick
    <3>. QED
      BY <1>4, <3>1, <3>2
  <2>5. RecordInv'
    BY <1>0, <2>2, <2>4 DEF RecordInv, RecordedIsPublished, CompletedIsRecorded
  <2>. QED
    BY <2>1, <2>3, <2>5
<1>5. CASE UNCHANGED vars
  <2>. USE <1>5 DEF vars, sessionVars, prepareVars, bookVars, uploadVars, diskVars
  <2>1. SlotInv'
    BY <1>0 DEF SlotInv, SlotOwned, ReservationHeld, ReservationBounded, UploadsAnswered,
       LockExclusive, LockOwned, Alive
  <2>2. FilesClaimed' /\ RecordInv'
    BY <1>0, OthersFiles DEF RecordInv, RecordedIsPublished, CompletedIsRecorded
  <2>3. TermInv'
    BY <1>0, TermKept
  <2>. QED
    BY <2>1, <2>2, <2>3
<1>. QED
  BY <1>2, <1>3, <1>4, <1>5 DEF Next

\* The inductive invariant holds of every behaviour.
THEOREM Invariance == Spec => []IndInv
BY InitInv, NextInv, PTL DEF Spec

-----------------------------------------------------------------------------
(* The safety properties *)

\* A handler that has yet to act on its decision owns the slot: clearing and
\* replacing it unchecked hits the handler's own placeholder.
THEOREM Reservations == Spec => []ReservationHeld
<1>1. IndInv => ReservationHeld
  BY DEF IndInv
<1>. QED
  BY <1>1, Invariance, PTL

\* No reservation outlives its prompt: the sweep and the next offer find none.
THEOREM Bounded == Spec => []ReservationBounded
<1>1. IndInv => ReservationBounded
  BY DEF IndInv
<1>. QED
  BY <1>1, Invariance, PTL

\* While a file is published its session is current and its file reserved.
THEOREM Publications == Spec => []PublicationOwnsSession
<1>1. IndInv => PublicationOwnsSession
  BY DEF IndInv
<1>. QED
  BY <1>1, Invariance, PTL

\* No file of a session is published twice.
THEOREM Once == Spec => []PublishedOnce
<1>1. IndInv => PublishedOnce
  BY DEF IndInv, TypeOK, FilesClaimed, Claims, PublishedOnce
<1>. QED
  BY <1>1, Invariance, PTL

\* A session reported complete has every accepted file on disk.
THEOREM Saved == Spec => []CompletedMeansSaved
<1>1. IndInv => CompletedMeansSaved
  <2>. SUFFICES ASSUME IndInv, NEW r \in Requests \ Messages, sent[r]["completed"] > 0, NEW f \in chosen[r]
                PROVE  \E u \in published : Req[u] = r /\ File[u] = f
    BY DEF CompletedMeansSaved
  <2>1. f \in received[r] /\ f \in Files
    BY DEF IndInv, CompletedIsRecorded, TypeOK
  <2>. QED
    BY <2>1 DEF IndInv, RecordedIsPublished
<1>. QED
  BY <1>1, Invariance, PTL

\* A session ends with at most one terminal event, and none while current.
THEOREM Terminal == Spec => []TerminalOnce
<1>1. IndInv => TerminalOnce
  BY DEF IndInv
<1>. QED
  BY <1>1, Invariance, PTL

\* A prompt is withdrawn at most once, never after its session ended.
THEOREM Expired == Spec => []ExpiredOnce
<1>1. IndInv => ExpiredOnce
  BY DEF IndInv
<1>. QED
  BY <1>1, Invariance, PTL

\* The session of a body that is consumed is never timed out.
THEOREM NotIdle == Spec => []ConsumingIsNotIdle
<1>1. IndInv => ConsumingIsNotIdle
  <2>. SUFFICES ASSUME IndInv, NEW u \in Uploads, upload[u] \in CountedPhases, slot = Req[u], TimedOut
                PROVE  FALSE
    BY DEF ConsumingIsNotIdle
  <2>1. Req[u] \in Requests
    BY ConstantsAssumption DEF ConstantsAssumption
  <2>2. u \in Consuming(Req[u])
    BY DEF Consuming
  <2>3. Cardinality(Consuming(Req[u])) # 0 /\ Cardinality(Consuming(Req[u])) \in Nat
    BY <2>2, ConsumingFinite, FS_EmptySet
  <2>4. Cardinality(Consuming(Req[u])) <= 0
    BY <2>1 DEF IndInv, ActiveCounts, TimedOut
  <2>. QED
    BY <2>3, <2>4
<1>. QED
  BY <1>1, Invariance, PTL

\* FileReceived is sent for the current session only: of all steps, only the
\* record of a published file sends it, and it holds the lock since it looked.
THEOREM ReportedAlive == Spec => FileReportedAlive
<1>. DEFINE A == \A r \in Requests : sent'[r]["file"] # sent[r]["file"] => Alive(r)
<1>1. IndInv /\ [Next]_vars => A
  <2>. SUFFICES ASSUME IndInv, [Next]_vars
                PROVE  A
    OBVIOUS
  <2>. USE ConstantsAssumption DEF ConstantsAssumption, EventKinds
  <2>0. TypeOK
    BY DEF IndInv
  <2>1. ASSUME NEW r \in Requests, PrepareStep(r)
        PROVE  \A q \in Requests : sent'[q]["file"] = sent[q]["file"]
    <3>1. CASE PrepareRefuse(r)
      BY <3>1 DEF PrepareRefuse
    <3>2. CASE PrepareConflict(r)
      BY <3>2 DEF PrepareConflict
    <3>3. CASE PrepareReserve(r)
      BY <3>3, <2>0, SendEffect, {"request"} \in SUBSET EventKinds DEF PrepareReserve
    <3>4. CASE \E ids \in SUBSET Offer[r] : Answer(r, ids)
      BY <3>4 DEF Answer
    <3>5. CASE Decide(r)
      BY <3>5 DEF Decide
    <3>6. CASE ExpirePrompt(r)
      BY <3>6, <2>0, SendEffect, {"expired"} \in SUBSET EventKinds DEF ExpirePrompt
    <3>7. CASE Decline(r)
      BY <3>7 DEF Decline
    <3>8. CASE Install(r)
      BY <3>8 DEF Install
    <3>9. CASE DeliverMessage(r)
      BY <3>9, <2>0, SendEffect, {"text", "completed"} \in SUBSET EventKinds DEF DeliverMessage
    <3>10. CASE DropPrepare(r)
      BY <3>10 DEF DropPrepare
    <3>11. CASE ReleaseReservation(r)
      BY <3>11, <2>0, SendEffect, {"expired"} \in SUBSET EventKinds DEF ReleaseReservation
    <3>12. CASE CancelSession(r)
      BY <3>12, <2>0, SendEffect, {"cancelled"} \in SUBSET EventKinds DEF CancelSession
    <3>. QED
      BY <2>1, <3>1, <3>2, <3>3, <3>4, <3>5, <3>6, <3>7, <3>8, <3>9, <3>10, <3>11, <3>12 DEF PrepareStep
  <2>2. ASSUME NEW u \in Uploads, UploadStep(u), ~RecordFile(u)
        PROVE  \A q \in Requests : sent'[q]["file"] = sent[q]["file"]
    <3>0. Req[u] \in Requests
      OBVIOUS
    <3>1. CASE UploadRefuse(u)
      BY <3>1 DEF UploadRefuse
    <3>2. CASE UploadConflict(u)
      BY <3>2 DEF UploadConflict
    <3>3. CASE UploadBegin(u)
      BY <3>3 DEF UploadBegin, Reservable
    <3>4. CASE BodyTaken(u)
      BY <3>4 DEF BodyTaken
    <3>5. CASE StartBody(u)
      BY <3>5 DEF StartBody
    <3>6. CASE MkdirFails(u)
      BY <3>6 DEF MkdirFails
    <3>7. CASE EndUpload(u)
      BY <3>7 DEF EndUpload
    <3>8. CASE BodyChunk(u)
      BY <3>8 DEF BodyChunk
    <3>9. CASE ReportProgress(u)
      BY <3>9 DEF ReportProgress
    <3>10. CASE BodyEnds(u)
      BY <3>10 DEF BodyEnds
    <3>11. CASE BodyFails(u)
      BY <3>11 DEF BodyFails
    <3>12. CASE HashMatches(u)
      BY <3>12 DEF HashMatches
    <3>13. CASE HashFails(u)
      BY <3>13 DEF HashFails
    <3>14. CASE RollbackProgress(u)
      BY <3>14 DEF RollbackProgress
    <3>15. CASE WithdrawProgress(u)
      BY <3>15 DEF WithdrawProgress
    <3>16. CASE FailSession(u)
      BY <3>16, <2>0, <3>0, SendEffect, {"failed"} \in SUBSET EventKinds DEF FailSession
    <3>17. CASE Revalidate(u)
      BY <3>17 DEF Revalidate
    <3>18. CASE DiscardStale(u)
      BY <3>18 DEF DiscardStale
    <3>19. CASE LinkFile(u)
      BY <3>19 DEF LinkFile
    <3>20. CASE LinkFails(u)
      BY <3>20, <2>0, <3>0, SendEffect, {"failed"} \in SUBSET EventKinds DEF LinkFails
    <3>21. CASE UnlinkFails(u)
      BY <3>21, <2>0, <3>0, SendEffect, {"failed"} \in SUBSET EventKinds DEF UnlinkFails
    <3>22. CASE DropUpload(u)
      BY <3>22 DEF DropUpload
    <3>23. CASE LinkAdrift(u)
      BY <3>23 DEF LinkAdrift
    <3>. QED
      BY <2>2, <3>1, <3>2, <3>3, <3>4, <3>5, <3>6, <3>7, <3>8, <3>9, <3>10, <3>11, <3>12, <3>13, <3>14, <3>15, <3>16, <3>17, <3>18, <3>19, <3>20, <3>21, <3>22, <3>23 DEF UploadStep
  <2>3. ASSUME NEW u \in Uploads, RecordFile(u)
        PROVE  /\ Alive(Req[u])
               /\ \A q \in Requests : q # Req[u] => sent'[q] = sent[q]
    <3>1. Alive(Req[u])
      BY <2>3 DEF RecordFile, AllReceived, IndInv, PublicationOwnsSession, LockPhases
    <3>. QED
      BY <2>0, <2>3, <3>1, SendEffect, {"file", "completed"} \in SUBSET EventKinds, {"file"} \in SUBSET EventKinds
         DEF RecordFile, AllReceived
  <2>4. CASE Sweep
    <3>1. slot \in Requests
      BY <2>0, <2>4 DEF Sweep, TimedOut, TypeOK
    <3>. QED
      BY <2>0, <2>4, <3>1, SendEffect, {"failed"} \in SUBSET EventKinds DEF Sweep
  <2>5. CASE Tick \/ UNCHANGED vars
    BY <2>5 DEF Tick, vars
  <2>. QED
    BY <2>1, <2>2, <2>3, <2>4, <2>5 DEF Next
<1>. QED
  BY <1>1, Invariance, PTL DEF Spec, FileReportedAlive

-----------------------------------------------------------------------------
(* What an answered upload leaves behind *)

\* An upload has no partial file before it writes and after it failed, and it has
\* published its file if it was answered and kept one.
PartsInv ==
  \A u \in Uploads :
    /\ upload[u] \in {"new", "dirs", "undo", "ending"} => u \notin parts
    /\ upload[u] = "closed" /\ u \in parts => u \in published

\* An event that was sent stays sent.
LEMMA SentGrows ==
  ASSUME TypeOK, [Next]_vars
  PROVE  \A q \in Requests, k \in EventKinds :
           sent[q][k] \in Nat /\ sent'[q][k] \in Nat /\ sent'[q][k] >= sent[q][k]
<1>. USE ConstantsAssumption DEF ConstantsAssumption
<1>. DEFINE Grows == \A q \in Requests, k \in EventKinds :
              sent[q][k] \in Nat /\ sent'[q][k] \in Nat /\ sent'[q][k] >= sent[q][k]
<1>1. ASSUME NEW r \in Requests, NEW kinds \in SUBSET EventKinds, Send(r, kinds)
      PROVE  Grows
  <2>1. sent \in [Requests -> [EventKinds -> Nat]]
    BY DEF TypeOK
  <2>. SUFFICES ASSUME NEW q \in Requests, NEW k \in EventKinds
                PROVE  sent[q][k] \in Nat /\ sent'[q][k] \in Nat /\ sent'[q][k] >= sent[q][k]
    OBVIOUS
  <2>2. CASE q = r /\ k \in kinds
    BY <1>1, <2>1, <2>2, SendEffect
  <2>3. CASE q = r /\ k \notin kinds
    BY <1>1, <2>1, <2>3, SendEffect
  <2>4. CASE q # r
    BY <1>1, <2>1, <2>4, SendEffect
  <2>. QED
    BY <2>2, <2>3, <2>4
<1>2. ASSUME sent' = sent
      PROVE  Grows
  BY <1>2 DEF TypeOK
<1>3. ASSUME NEW r \in Requests, PrepareStep(r)
      PROVE  sent' = sent \/ \E kinds \in SUBSET EventKinds : Send(r, kinds)
  <2>. USE DEF EventKinds
  <2>1. CASE PrepareRefuse(r)
    BY <2>1 DEF PrepareRefuse
  <2>2. CASE PrepareConflict(r)
    BY <2>2 DEF PrepareConflict
  <2>3. CASE PrepareReserve(r)
    BY <2>3, {"request"} \in SUBSET EventKinds DEF PrepareReserve
  <2>4. CASE \E ids \in SUBSET Offer[r] : Answer(r, ids)
    BY <2>4 DEF Answer
  <2>5. CASE Decide(r)
    BY <2>5 DEF Decide
  <2>6. CASE ExpirePrompt(r)
    BY <2>6, {"expired"} \in SUBSET EventKinds DEF ExpirePrompt
  <2>7. CASE Decline(r)
    BY <2>7 DEF Decline
  <2>8. CASE Install(r)
    BY <2>8 DEF Install
  <2>9. CASE DeliverMessage(r)
    BY <2>9, {"text", "completed"} \in SUBSET EventKinds DEF DeliverMessage
  <2>10. CASE DropPrepare(r)
    BY <2>10 DEF DropPrepare
  <2>11. CASE ReleaseReservation(r)
    BY <2>11, {"expired"} \in SUBSET EventKinds DEF ReleaseReservation
  <2>12. CASE CancelSession(r)
    BY <2>12, {"cancelled"} \in SUBSET EventKinds DEF CancelSession
  <2>. QED
    BY <1>3, <2>1, <2>2, <2>3, <2>4, <2>5, <2>6, <2>7, <2>8, <2>9, <2>10, <2>11, <2>12 DEF
       PrepareStep
<1>4. ASSUME NEW u \in Uploads, UploadStep(u)
      PROVE  sent' = sent \/ \E kinds \in SUBSET EventKinds : Send(Req[u], kinds)
  <2>. USE DEF EventKinds
  <2>1. CASE UploadRefuse(u)
    BY <2>1 DEF UploadRefuse
  <2>2. CASE UploadConflict(u)
    BY <2>2 DEF UploadConflict
  <2>3. CASE UploadBegin(u)
    BY <2>3 DEF UploadBegin
  <2>4. CASE BodyTaken(u)
    BY <2>4 DEF BodyTaken
  <2>5. CASE StartBody(u)
    BY <2>5 DEF StartBody
  <2>6. CASE MkdirFails(u)
    BY <2>6 DEF MkdirFails
  <2>7. CASE EndUpload(u)
    BY <2>7 DEF EndUpload
  <2>8. CASE BodyChunk(u)
    BY <2>8 DEF BodyChunk
  <2>9. CASE ReportProgress(u)
    BY <2>9 DEF ReportProgress
  <2>10. CASE BodyEnds(u)
    BY <2>10 DEF BodyEnds
  <2>11. CASE BodyFails(u)
    BY <2>11 DEF BodyFails
  <2>12. CASE HashMatches(u)
    BY <2>12 DEF HashMatches
  <2>13. CASE HashFails(u)
    BY <2>13 DEF HashFails
  <2>14. CASE RollbackProgress(u)
    BY <2>14 DEF RollbackProgress
  <2>15. CASE WithdrawProgress(u)
    BY <2>15 DEF WithdrawProgress
  <2>16. CASE FailSession(u)
    BY <2>16, {"failed"} \in SUBSET EventKinds DEF FailSession
  <2>17. CASE Revalidate(u)
    BY <2>17 DEF Revalidate
  <2>18. CASE DiscardStale(u)
    BY <2>18 DEF DiscardStale
  <2>19. CASE LinkFile(u)
    BY <2>19 DEF LinkFile
  <2>20. CASE LinkFails(u)
    BY <2>20, {"failed"} \in SUBSET EventKinds DEF LinkFails
  <2>21. CASE RecordFile(u)
    BY <2>21, {"file"} \in SUBSET EventKinds, {"file", "completed"} \in SUBSET EventKinds DEF RecordFile
  <2>22. CASE UnlinkFails(u)
    BY <2>22, {"failed"} \in SUBSET EventKinds DEF UnlinkFails
  <2>23. CASE DropUpload(u)
    BY <2>23 DEF DropUpload
  <2>24. CASE LinkAdrift(u)
    BY <2>24 DEF LinkAdrift
  <2>. QED
    BY <1>4, <2>1, <2>2, <2>3, <2>4, <2>5, <2>6, <2>7, <2>8, <2>9, <2>10, <2>11, <2>12, <2>13,
       <2>14, <2>15, <2>16, <2>17, <2>18, <2>19, <2>20, <2>21, <2>22, <2>23, <2>24 DEF UploadStep
<1>5. CASE Sweep
  <2>1. slot \in Requests
    BY <1>5 DEF Sweep, TimedOut, TypeOK
  <2>. QED
    BY <1>1, <1>5, <2>1, {"failed"} \in SUBSET EventKinds DEF Sweep, EventKinds
<1>6. CASE Tick \/ UNCHANGED vars
  BY <1>2, <1>6 DEF Tick, vars
<1>7. ASSUME NEW r \in Requests, PrepareStep(r)
      PROVE  Grows
  BY <1>1, <1>2, <1>3, <1>7
<1>8. ASSUME NEW u \in Uploads, UploadStep(u)
      PROVE  Grows
  BY <1>1, <1>2, <1>4, <1>8
<1>. QED
  BY <1>5, <1>6, <1>7, <1>8 DEF Next

\* A session reported as failed stays reported as failed, once.
LEMMA FailedStays ==
  ASSUME IndInv, IndInv', [Next]_vars, NEW r \in Requests, sent[r]["failed"] = 1
  PROVE  sent'[r]["failed"] = 1
<1>1. /\ sent'[r]["failed"] \in Nat /\ sent'[r]["completed"] \in Nat /\ sent'[r]["cancelled"] \in Nat
      /\ sent'[r]["failed"] >= sent[r]["failed"]
  BY SentGrows DEF IndInv, EventKinds
<1>2. Terminals(r)' <= 0 \/ Terminals(r)' <= 1
  BY DEF IndInv, TerminalOnce
<1>3. sent'[r]["failed"] <= 1
  BY <1>1, <1>2 DEF Terminals
<1>. QED
  BY <1>1, <1>3

\* A step of an upload removes its partial file wherever it ends, and tells what
\* became of a file that it published.
LEMMA UploadDisk ==
  ASSUME IndInv, IndInv', PartsInv, UnrecordedIsCut, NEW u \in Uploads, UploadStep(u)
  PROVE  PartsInv' /\ UnrecordedIsCut'
<1>. USE ConstantsAssumption DEF ConstantsAssumption, sessionVars, prepareVars, bookVars, uploadVars, diskVars,
            PartsInv, UnrecordedIsCut, Goto
<1>0. /\ Req[u] \in Requests /\ File[u] \in Files
      /\ upload \in [Uploads -> UploadPhases] /\ received \in [Requests -> SUBSET Files]
      /\ parts \subseteq Uploads /\ published \subseteq Uploads
  BY DEF IndInv, TypeOK
<1>. DEFINE Stays == \A r \in Requests : sent[r]["failed"] = 1 => sent'[r]["failed"] = 1
<1>a. Stays
  <2>1. [Next]_vars
    BY DEF Next
  <2>. QED
    BY <2>1, FailedStays
<1>b. /\ \A v \in published : upload[v] \in {"linked", "closed", "dropped"}
      /\ upload[u] = "linked" => u \in published
  BY DEF IndInv, FilesClaimed
<1>. HIDE DEF Stays
<1>1. CASE UploadRefuse(u)
  BY <1>1, <1>0, <1>a, <1>b DEF UploadRefuse, Stays
<1>2. CASE UploadConflict(u)
  BY <1>2, <1>0, <1>a, <1>b DEF UploadConflict, Stays
<1>3. CASE UploadBegin(u)
  BY <1>3, <1>0, <1>a, <1>b DEF UploadBegin, Stays
<1>4. CASE BodyTaken(u)
  BY <1>4, <1>0, <1>a, <1>b DEF BodyTaken, Stays
<1>5. CASE StartBody(u)
  BY <1>5, <1>0, <1>a, <1>b DEF StartBody, Stays
<1>6. CASE MkdirFails(u)
  BY <1>6, <1>0, <1>a, <1>b DEF MkdirFails, Stays
<1>7. CASE EndUpload(u)
  BY <1>7, <1>0, <1>a, <1>b DEF EndUpload, Stays
<1>8. CASE BodyChunk(u)
  BY <1>8, <1>0, <1>a, <1>b DEF BodyChunk, Stays
<1>9. CASE ReportProgress(u)
  BY <1>9, <1>0, <1>a, <1>b DEF ReportProgress, Stays
<1>10. CASE BodyEnds(u)
  BY <1>10, <1>0, <1>a, <1>b DEF BodyEnds, Stays
<1>11. CASE BodyFails(u)
  BY <1>11, <1>0, <1>a, <1>b DEF BodyFails, Stays
<1>12. CASE HashMatches(u)
  BY <1>12, <1>0, <1>a, <1>b DEF HashMatches, Stays
<1>13. CASE HashFails(u)
  BY <1>13, <1>0, <1>a, <1>b DEF HashFails, Stays
<1>14. CASE RollbackProgress(u)
  <2>1. CASE Alive(Req[u])
    BY <1>14, <1>0, <1>a, <1>b, <2>1 DEF RollbackProgress, Stays
  <2>2. CASE ~Alive(Req[u])
    BY <1>14, <1>0, <1>a, <1>b, <2>2 DEF RollbackProgress, Stays
  <2>. QED
    BY <2>1, <2>2
<1>15. CASE WithdrawProgress(u)
  BY <1>15, <1>0, <1>a, <1>b DEF WithdrawProgress, Stays
<1>16. CASE FailSession(u)
  BY <1>16, <1>0, <1>a, <1>b DEF FailSession, Stays
<1>17. CASE Revalidate(u)
  BY <1>17, <1>0, <1>a, <1>b DEF Revalidate, Stays
<1>18. CASE DiscardStale(u)
  BY <1>18, <1>0, <1>a, <1>b DEF DiscardStale, Stays
<1>19. CASE LinkFile(u)
  BY <1>19, <1>0, <1>a, <1>b DEF LinkFile, Stays
<1>20. CASE LinkFails(u)
  BY <1>20, <1>0, <1>a, <1>b DEF LinkFails, Stays
<1>21. CASE RecordFile(u)
  BY <1>21, <1>0, <1>a, <1>b DEF RecordFile, Stays
<1>22. CASE UnlinkFails(u)
  <2>1. sent'[Req[u]]["failed"] = 1
    <3>1. Alive(Req[u])
      BY <1>22 DEF UnlinkFails, IndInv, PublicationOwnsSession, LockPhases
    <3>2. sent[Req[u]]["failed"] = 0
      <4>1. Terminals(Req[u]) <= 0
        BY <1>0, <3>1 DEF IndInv, TerminalOnce, Alive
      <4>2. sent[Req[u]] \in [EventKinds -> Nat]
        BY <1>0 DEF IndInv, TypeOK
      <4>3. /\ sent[Req[u]]["completed"] \in Nat /\ sent[Req[u]]["cancelled"] \in Nat
            /\ sent[Req[u]]["failed"] \in Nat
        BY <4>2 DEF EventKinds
      <4>. QED
        BY <4>1, <4>3 DEF Terminals
    <3>. QED
      BY <1>22, <1>0, <3>2, SendEffect, {"failed"} \in SUBSET EventKinds DEF UnlinkFails, IndInv, EventKinds
  <2>. QED
    BY <1>22, <1>0, <1>a, <1>b, <2>1 DEF UnlinkFails, Stays
<1>23. CASE DropUpload(u)
  BY <1>23, <1>0, <1>a, <1>b DEF DropUpload, AwaitPhases, Stays
<1>24. CASE LinkAdrift(u)
  BY <1>24, <1>0, <1>a, <1>b DEF LinkAdrift, Stays
<1>. QED
  BY <1>1, <1>2, <1>3, <1>4, <1>5, <1>6, <1>7, <1>8, <1>9, <1>10, <1>11, <1>12, <1>13,
     <1>14, <1>15, <1>16, <1>17, <1>18, <1>19, <1>20, <1>21, <1>22, <1>23, <1>24 DEF UploadStep

\* Both hold of every behaviour.
LEMMA Disk == Spec => [](PartsInv /\ UnrecordedIsCut)
<1>1. Init => PartsInv /\ UnrecordedIsCut
  BY DEF Init, PartsInv, UnrecordedIsCut
<1>2. IndInv /\ IndInv' /\ PartsInv /\ UnrecordedIsCut /\ [Next]_vars => PartsInv' /\ UnrecordedIsCut'
  <2>. SUFFICES ASSUME IndInv, IndInv', PartsInv, UnrecordedIsCut, [Next]_vars
                PROVE  PartsInv' /\ UnrecordedIsCut'
    OBVIOUS
  <2>1. CASE \E u \in Uploads : UploadStep(u)
    BY <2>1, UploadDisk
  <2>2. CASE UNCHANGED <<upload, received, parts, published>>
    <3>1. \A u \in Uploads : sent[Req[u]]["failed"] = 1 => sent'[Req[u]]["failed"] = 1
      BY FailedStays, ConstantsAssumption DEF ConstantsAssumption
    <3>. QED
      BY <2>2, <3>1 DEF PartsInv, UnrecordedIsCut, IndInv, TypeOK
  <2>3. CASE (\E r \in Requests : PrepareStep(r)) \/ Sweep \/ Tick \/ UNCHANGED vars
    <3>1. UNCHANGED <<upload, received, parts, published>>
      BY <2>3 DEF PrepareStep, PrepareRefuse, PrepareConflict, PrepareReserve, Answer, Decide, ExpirePrompt,
         Decline, Install, DeliverMessage, DropPrepare, ReleaseReservation, CancelSession, Sweep, Tick,
         vars, bookVars, uploadVars, diskVars
    <3>. QED
      BY <2>2, <3>1
  <2>. QED
    BY <2>1, <2>3 DEF Next
<1>. QED
  BY <1>1, <1>2, Invariance, PTL DEF Spec

\* An answered upload leaves its partial file only if it published the file.
THEOREM Removed == Spec => []PartialsRemoved
<1>1. PartsInv => PartialsRemoved
  BY DEF PartsInv, PartialsRemoved
<1>. QED
  BY <1>1, Disk, PTL

\* A published file is recorded, or its session was reported failed, unless its
\* handler is at work or was dropped.
THEOREM Cut == Spec => []UnrecordedIsCut
BY Disk, PTL

-----------------------------------------------------------------------------
(* How a session ends *)

\* The session in the slot has no terminal event yet: one sent now is its first.
LEMMA FirstTerminal ==
  ASSUME IndInv, NEW r \in Requests, slot = r, NEW kinds \in SUBSET EventKinds, Send(r, kinds),
         NEW k \in {"completed", "cancelled", "failed"},
         kinds \cap {"completed", "cancelled", "failed"} = {k}
  PROVE  Terminals(r)' = 1
<1>1. sent[r]["completed"] \in Nat /\ sent[r]["cancelled"] \in Nat /\ sent[r]["failed"] \in Nat
  BY DEF IndInv, TypeOK, EventKinds
<1>2. sent[r]["completed"] = 0 /\ sent[r]["cancelled"] = 0 /\ sent[r]["failed"] = 0
  <2>1. Terminals(r) <= 0
    BY DEF IndInv, TerminalOnce
  <2>2. \A a, b, c \in Nat : a + b + c <= 0 => a = 0 /\ b = 0 /\ c = 0
    OBVIOUS
  <2>3. sent[r]["completed"] + sent[r]["cancelled"] + sent[r]["failed"] <= 0
    BY <2>1 DEF Terminals
  <2>. QED
    BY <1>1, <2>2, <2>3
<1>3. \A j \in {"completed", "cancelled", "failed"} :
        sent'[r][j] = IF j = k THEN 1 ELSE 0
  <2>1. /\ \A j \in kinds : sent'[r][j] = sent[r][j] + 1
        /\ \A j \in EventKinds \ kinds : sent'[r][j] = sent[r][j]
    BY SendEffect DEF IndInv
  <2>. QED
    BY <1>2, <2>1 DEF EventKinds
<1>. QED
  BY <1>3 DEF Terminals

\* An accepted session leaves the slot with one terminal event, but for one that
\* timed out and that a new offer replaced: of the steps that clear the slot
\* without looking at what it holds (Decline, Install), neither meets an accepted one.
THEOREM Ends == Spec => SilentOnlyWhenTimedOut
<1>. DEFINE A == \A r \in Requests : Alive(r) /\ slot' # r =>
              Terminals(r)' = 1 \/ (TimedOut /\ slot' \in Requests)
<1>1. IndInv /\ [Next]_vars => A
  <2>. SUFFICES ASSUME IndInv, [Next]_vars, NEW r \in Requests, Alive(r), slot' # r
                PROVE  Terminals(r)' = 1 \/ (TimedOut /\ slot' \in Requests)
    OBVIOUS
  <2>. USE ConstantsAssumption DEF ConstantsAssumption, sessionVars, EventKinds
  <2>0. slot = r /\ open /\ slot # slot'
    BY DEF Alive
  <2>1. ASSUME NEW q \in Requests, PrepareStep(q)
        PROVE  Terminals(r)' = 1 \/ (TimedOut /\ slot' \in Requests)
    <3>0. prepare[q] \notin {"asking", "deciding"}
          /\ (prepare[q] = "messaging" => q = r)
      BY <2>0 DEF IndInv, ReservationHeld, SlotOwned
    <3>1. CASE PrepareReserve(q)
      BY <2>0, <3>1 DEF PrepareReserve, TakeSlot
    <3>2. CASE DeliverMessage(q)
      BY <2>0, <3>0, <3>2, FirstTerminal, {"text", "completed"} \in SUBSET EventKinds,
         {"text", "completed"} \cap {"completed", "cancelled", "failed"} = {"completed"}
         DEF DeliverMessage
    <3>3. CASE CancelSession(q)
      <4>1. q = r
        BY <2>0, <3>3 DEF CancelSession, Alive
      <4>. QED
        BY <2>0, <3>3, <4>1, FirstTerminal, {"cancelled"} \in SUBSET EventKinds,
           {"cancelled"} \cap {"completed", "cancelled", "failed"} = {"cancelled"}
           DEF CancelSession
    <3>4. CASE Decline(q) \/ Install(q)
      BY <3>0, <3>4 DEF Decline, Install
    <3>5. CASE ReleaseReservation(q)
      BY <2>0, <3>5 DEF ReleaseReservation
    <3>6. CASE PrepareRefuse(q) \/ PrepareConflict(q) \/ Decide(q) \/ ExpirePrompt(q) \/ DropPrepare(q)
      BY <2>0, <3>6 DEF PrepareRefuse, PrepareConflict, Decide, ExpirePrompt, DropPrepare
    <3>7. CASE \E ids \in SUBSET Offer[q] : Answer(q, ids)
      BY <2>0, <3>7 DEF Answer
    <3>. QED
      BY <2>1, <3>1, <3>2, <3>3, <3>4, <3>5, <3>6, <3>7 DEF PrepareStep
  <2>2. ASSUME NEW u \in Uploads, UploadStep(u)
        PROVE  Terminals(r)' = 1 \/ (TimedOut /\ slot' \in Requests)
    <3>0. upload[u] \in LockPhases => Req[u] = r
      BY <2>0 DEF IndInv, PublicationOwnsSession, Alive
    <3>1. CASE FailSession(u)
      <4>1. Req[u] = r /\ Send(r, {"failed"})
        BY <2>0, <3>1 DEF FailSession, Alive
      <4>. QED
        BY <2>0, <4>1, FirstTerminal, {"failed"} \in SUBSET EventKinds,
           {"failed"} \cap {"completed", "cancelled", "failed"} = {"failed"}
    <3>2. CASE LinkFails(u) \/ UnlinkFails(u)
      <4>1. Send(r, {"failed"})
        BY <3>0, <3>2 DEF LinkFails, UnlinkFails, LockPhases
      <4>. QED
        BY <2>0, <4>1, FirstTerminal, {"failed"} \in SUBSET EventKinds,
           {"failed"} \cap {"completed", "cancelled", "failed"} = {"failed"}
    <3>3. CASE RecordFile(u)
      <4>1. Send(r, {"file", "completed"})
        BY <2>0, <3>0, <3>3 DEF RecordFile, LockPhases
      <4>. QED
        BY <2>0, <4>1, FirstTerminal, {"file", "completed"} \in SUBSET EventKinds,
           {"file", "completed"} \cap {"completed", "cancelled", "failed"} = {"completed"}
    <3>4. CASE UploadRefuse(u) \/ UploadConflict(u) \/ UploadBegin(u) \/ BodyTaken(u) \/
           StartBody(u) \/ MkdirFails(u) \/ EndUpload(u) \/ BodyChunk(u) \/ ReportProgress(u) \/
           BodyEnds(u) \/ BodyFails(u) \/ HashMatches(u) \/ HashFails(u) \/ RollbackProgress(u)
           \/ WithdrawProgress(u) \/ Revalidate(u) \/ DiscardStale(u) \/ LinkFile(u) \/
           DropUpload(u) \/ LinkAdrift(u)
      BY <2>0, <3>4 DEF UploadRefuse, UploadConflict, UploadBegin, BodyTaken, StartBody, MkdirFails,
         EndUpload, BodyChunk, ReportProgress, BodyEnds, BodyFails, HashMatches, HashFails,
         RollbackProgress, WithdrawProgress, Revalidate, DiscardStale, LinkFile, DropUpload,
         LinkAdrift
    <3>. QED
      BY <2>2, <3>1, <3>2, <3>3, <3>4 DEF UploadStep
  <2>3. CASE Sweep
    BY <2>0, <2>3, FirstTerminal, {"failed"} \in SUBSET EventKinds,
       {"failed"} \cap {"completed", "cancelled", "failed"} = {"failed"} DEF Sweep
  <2>4. CASE Tick \/ UNCHANGED vars
    BY <2>0, <2>4 DEF Tick, vars
  <2>. QED
    BY <2>1, <2>2, <2>3, <2>4 DEF Next
<1>. QED
  BY <1>1, Invariance, PTL DEF Spec, SilentOnlyWhenTimedOut

-----------------------------------------------------------------------------
(* Receiver implements ReceiveContract: every step of a handler, of the sweep and of the *)
(* clock is a step of the contract, or changes nothing that its consumer is told.  Here   *)
(* is what the contract needs beyond IndInv.                                              *)

\* A request that has not arrived was not asked about; a reservation to be given
\* back still holds the slot; only accepted files of an answered request are
\* uploaded.
ContractInv ==
  /\ \A r \in Requests : prepare[r] = "new" => sent[r]["request"] = 0
  /\ \A r \in Requests : release[r] # "none" => slot = r /\ ~open
  /\ \A r \in Requests : uploading[r] \subseteq chosen[r]
  /\ \A r \in Requests : uploading[r] # {} => prepare[r] = "replied"

\* No placeholder is timed out: what an offer or the sweep replaces is a session.
LEMMA TimedOutIsOpen ==
  ASSUME IndInv, TimedOut
  PROVE  slot \in Requests /\ open
BY ConstantsAssumption DEF ConstantsAssumption, IndInv, TypeOK, ReservationBounded, TimedOut

\* The steps of a prepare-upload request keep it.
LEMMA PrepareContract ==
  ASSUME IndInv, ContractInv, NEW r \in Requests, PrepareStep(r)
  PROVE  ContractInv'
<1>. USE ConstantsAssumption DEF ConstantsAssumption, sessionVars, bookVars, EventKinds
<1>0. /\ prepare \in [Requests -> PreparePhases] /\ release \in [Requests -> ReleasePhases]
      /\ chosen \in [Requests -> SUBSET Files] /\ TypeOK
  BY DEF IndInv, TypeOK
<1>b. \A q \in Requests : prepare[q] \in {"asking", "deciding"} => slot = q /\ ~open
  BY DEF IndInv, ReservationHeld
<1>c. \A q \in Requests : release[q] # "none" => slot = q /\ ~open /\ prepare[q] = "dropped"
  BY DEF ContractInv, IndInv, SlotOwned
<1>. DEFINE Quiet == \A q \in Requests : sent'[q]["request"] = sent[q]["request"]
<1>1. CASE PrepareRefuse(r) \/ PrepareConflict(r)
  BY <1>0, <1>1 DEF PrepareRefuse, PrepareConflict, ContractInv
<1>2. CASE PrepareReserve(r)
  <2>1. \A q \in Requests : release[q] = "none"
    BY <1>2, <1>c, TimedOutIsOpen DEF PrepareReserve
  <2>2. \A q \in Requests : q # r => sent'[q] = sent[q]
    BY <1>0, <1>2, SendEffect, {"request"} \in SUBSET EventKinds DEF PrepareReserve
  <2>. QED
    BY <1>0, <1>2, <2>1, <2>2 DEF PrepareReserve, ContractInv
<1>3. CASE \E ids \in SUBSET Offer[r] : Answer(r, ids)
  BY <1>0, <1>3 DEF Answer, ContractInv
<1>4. CASE Decide(r)
  <2>1. prepare[r] = "asking" /\ uploading[r] = {}
    BY <1>4 DEF Decide, ContractInv
  <2>2. \A q \in Requests : q # r => chosen'[q] = chosen[q]
    BY <1>0, <1>4 DEF Decide
  <2>. QED
    BY <1>0, <1>4, <2>1, <2>2 DEF Decide, ContractInv
<1>5. CASE ExpirePrompt(r)
  <2>1. Quiet
    BY <1>0, <1>5, SendEffect, {"expired"} \in SUBSET EventKinds DEF ExpirePrompt
  <2>. QED
    BY <1>0, <1>5, <2>1 DEF ExpirePrompt, ContractInv
<1>6. CASE Decline(r) \/ Install(r)
  <2>1. \A q \in Requests : release[q] = "none"
    BY <1>6, <1>b, <1>c DEF Decline, Install
  <2>2. UNCHANGED <<release, chosen, uploading, sent>>
        /\ \A q \in Requests : prepare'[q] = "new" => prepare[q] = "new"
    BY <1>0, <1>6 DEF Decline, Install
  <2>3. \A q \in Requests : uploading[q] # {} => prepare'[q] = "replied"
    BY <1>0, <1>6 DEF Decline, Install, ContractInv
  <2>. QED
    BY <2>1, <2>2, <2>3 DEF ContractInv
<1>7. CASE DeliverMessage(r)
  <2>1. Quiet
    BY <1>0, <1>7, SendEffect, {"text", "completed"} \in SUBSET EventKinds DEF DeliverMessage
  <2>2. slot = r /\ open
    BY <1>7 DEF DeliverMessage, IndInv, SlotOwned
  <2>3. \A q \in Requests : release[q] = "none"
    BY <1>c, <2>2
  <2>. QED
    BY <1>0, <1>7, <2>1, <2>3 DEF DeliverMessage, ContractInv
<1>8. CASE DropPrepare(r)
  <2>1. prepare[r] = "messaging" => release'[r] = "none"
    BY <1>0, <1>8 DEF DropPrepare
  <2>2. \A q \in Requests : q # r => release'[q] = release[q]
    BY <1>0, <1>8 DEF DropPrepare
  <2>3. prepare[r] \in PendingPhases /\ prepare' = [prepare EXCEPT ![r] = "dropped"]
        /\ UNCHANGED <<slot, open, chosen, uploading, sent>>
    BY <1>8 DEF DropPrepare
  <2>4. \A q \in Requests : release'[q] # "none" => slot = q /\ ~open
    BY <1>b, <1>c, <2>1, <2>2, <2>3 DEF PendingPhases
  <2>. QED
    BY <1>0, <2>3, <2>4 DEF ContractInv, PendingPhases
<1>9. CASE ReleaseReservation(r)
  <2>1. Quiet
    BY <1>0, <1>9, SendEffect, {"expired"} \in SUBSET EventKinds DEF ReleaseReservation
  <2>2. \A q \in Requests : release'[q] = "none"
    BY <1>0, <1>9, <1>c DEF ReleaseReservation
  <2>. QED
    BY <1>9, <2>1, <2>2 DEF ReleaseReservation, ContractInv
<1>10. CASE CancelSession(r)
  <2>1. Quiet
    BY <1>0, <1>10, SendEffect, {"cancelled"} \in SUBSET EventKinds DEF CancelSession
  <2>2. \A q \in Requests : release[q] = "none"
    BY <1>10, <1>c DEF CancelSession, Alive
  <2>. QED
    BY <1>10, <2>1, <2>2 DEF CancelSession, ContractInv, prepareVars
<1>. QED
  BY <1>1, <1>2, <1>3, <1>4, <1>5, <1>6, <1>7, <1>8, <1>9, <1>10 DEF PrepareStep

\* The steps of an upload keep it.
LEMMA UploadContract ==
  ASSUME IndInv, ContractInv, NEW u \in Uploads, UploadStep(u)
  PROVE  ContractInv'
<1>. USE ConstantsAssumption DEF ConstantsAssumption, sessionVars, prepareVars, bookVars, EventKinds
<1>0. /\ Req[u] \in Requests /\ TypeOK
      /\ uploading \in [Requests -> SUBSET Files] /\ received \in [Requests -> SUBSET Files]
  BY DEF IndInv, TypeOK
<1>c. \A q \in Requests : release[q] # "none" => slot = q /\ ~open
  BY DEF ContractInv
<1>d. upload[u] \in LockPhases => slot = Req[u] /\ open
  BY DEF IndInv, PublicationOwnsSession, Alive
<1>. DEFINE Quiet == \A q \in Requests : sent'[q]["request"] = sent[q]["request"]
<1>e. ASSUME NEW kinds \in SUBSET (EventKinds \ {"request"}), Send(Req[u], kinds)
      PROVE  Quiet
  <2>. SUFFICES ASSUME NEW q \in Requests
                PROVE  sent'[q]["request"] = sent[q]["request"]
    OBVIOUS
  <2>1. CASE q = Req[u]
    BY <1>0, <1>e, <2>1, SendEffect
  <2>2. CASE q # Req[u]
    BY <1>0, <1>e, <2>2, SendEffect
  <2>. QED
    BY <2>1, <2>2
<1>1. CASE UploadBegin(u)
  <2>1. File[u] \in chosen[Req[u]] /\ prepare[Req[u]] = "replied"
        /\ uploading' = [uploading EXCEPT ![Req[u]] = @ \cup {File[u]}]
        /\ UNCHANGED <<slot, open, prepare, chosen, release, sent>>
    BY <1>1 DEF UploadBegin, Reservable
  <2>. QED
    BY <1>0, <2>1 DEF ContractInv
<1>2. CASE EndUpload(u)
  <2>1. \A q \in Requests : uploading'[q] \subseteq uploading[q]
    <3>1. CASE Alive(Req[u])
      BY <1>0, <1>2, <3>1 DEF EndUpload
    <3>2. CASE ~Alive(Req[u])
      BY <1>0, <1>2, <3>2 DEF EndUpload
    <3>. QED
      BY <3>1, <3>2
  <2>2. UNCHANGED <<slot, open, prepare, chosen, release, sent>>
    BY <1>2 DEF EndUpload
  <2>. QED
    BY <2>1, <2>2 DEF ContractInv
<1>3. CASE RecordFile(u)
  <2>1. Quiet
    BY <1>3, <1>e DEF RecordFile
  <2>2. \A q \in Requests : uploading'[q] \subseteq uploading[q]
    BY <1>0, <1>3 DEF RecordFile
  <2>3. \A q \in Requests : release[q] = "none"
    BY <1>3, <1>c, <1>d DEF RecordFile, LockPhases
  <2>4. UNCHANGED <<prepare, chosen, release>>
    BY <1>3 DEF RecordFile
  <2>. QED
    BY <2>1, <2>2, <2>3, <2>4 DEF ContractInv
<1>4. CASE FailSession(u)
  <2>1. CASE Alive(Req[u])
    <3>1. Quiet
      BY <1>4, <1>e, <2>1 DEF FailSession
    <3>2. \A q \in Requests : release[q] = "none"
      BY <2>1, <1>c DEF Alive
    <3>. QED
      BY <1>4, <3>1, <3>2 DEF FailSession, ContractInv
  <2>2. CASE ~Alive(Req[u])
    BY <1>4, <2>2 DEF FailSession, ContractInv
  <2>. QED
    BY <2>1, <2>2
<1>5. CASE LinkFails(u) \/ UnlinkFails(u)
  <2>1. Quiet
    BY <1>5, <1>e DEF LinkFails, UnlinkFails
  <2>2. \A q \in Requests : release[q] = "none"
    BY <1>5, <1>c, <1>d DEF LinkFails, UnlinkFails, LockPhases
  <2>. QED
    BY <1>5, <2>1, <2>2 DEF LinkFails, UnlinkFails, ContractInv
<1>6. CASE UploadRefuse(u) \/ UploadConflict(u) \/ BodyTaken(u) \/ StartBody(u) \/ MkdirFails(u)
           \/ BodyChunk(u) \/ ReportProgress(u) \/ BodyEnds(u) \/ BodyFails(u) \/ HashMatches(u)
           \/ HashFails(u) \/ RollbackProgress(u) \/ WithdrawProgress(u) \/ Revalidate(u) \/
           DiscardStale(u) \/ LinkFile(u) \/ DropUpload(u) \/ LinkAdrift(u)
  BY <1>6 DEF ContractInv, UploadRefuse, UploadConflict, BodyTaken, StartBody, MkdirFails, BodyChunk,
     ReportProgress, BodyEnds, BodyFails, HashMatches, HashFails, RollbackProgress,
     WithdrawProgress, Revalidate, DiscardStale, LinkFile, DropUpload, LinkAdrift
<1>. QED
  BY <1>1, <1>2, <1>3, <1>4, <1>5, <1>6 DEF UploadStep

\* It holds of every behaviour.
LEMMA ContractInvariance == Spec => []ContractInv
<1>1. Init => ContractInv
  BY ConstantsAssumption DEF ConstantsAssumption, Init, ContractInv, EventKinds
<1>2. IndInv /\ ContractInv /\ [Next]_vars => ContractInv'
  <2>. SUFFICES ASSUME IndInv, ContractInv, [Next]_vars
                PROVE  ContractInv'
    OBVIOUS
  <2>1. CASE Sweep
    <3>1. slot \in Requests /\ open
      BY <2>1, TimedOutIsOpen DEF Sweep
    <3>2. \A q \in Requests : sent'[q]["request"] = sent[q]["request"]
      BY <2>1, <3>1, SendEffect, {"failed"} \in SUBSET EventKinds DEF Sweep, EventKinds, IndInv
    <3>3. \A q \in Requests : release[q] = "none"
      BY <3>1 DEF ContractInv
    <3>. QED
      BY <2>1, <3>2, <3>3 DEF Sweep, ContractInv, prepareVars, bookVars
  <2>2. CASE Tick \/ UNCHANGED vars
    BY <2>2 DEF Tick, vars, sessionVars, prepareVars, bookVars, ContractInv
  <2>. QED
    BY <2>1, <2>2, PrepareContract, UploadContract DEF Next
<1>. QED
  BY <1>1, <1>2, Invariance, PTL DEF Spec

-----------------------------------------------------------------------------
(* The simulation *)

\* What the contract calls accepted.
Accepted == IF open THEN chosen[slot] ELSE {}

\* The two tables of events are written alike.
LEMMA TellIsSend ==
  ASSUME NEW r \in Requests, NEW kinds
  PROVE  Contract!Tell(r, kinds) <=> Send(r, kinds)
BY DEF Send, EventKinds, Contract!Tell, Contract!Kinds

\* The initial states agree.
LEMMA ContractInit == Init => Contract!Init
BY DEF Init, EventKinds, Contract!Init, Contract!Kinds

\* Every step of a prepare-upload request is one of the contract, or none.
LEMMA PrepareSimulates ==
  ASSUME IndInv, ContractInv, NEW r \in Requests, PrepareStep(r)
  PROVE  Contract!Next \/ UNCHANGED Contract!vars
<1>. USE ConstantsAssumption DEF ConstantsAssumption, sessionVars, bookVars
<1>0. /\ prepare \in [Requests -> PreparePhases] /\ chosen \in [Requests -> SUBSET Files]
      /\ slot \in Requests \cup {NoRequest} /\ open \in BOOLEAN
  BY DEF IndInv, TypeOK
<1>b. prepare[r] \in {"asking", "deciding"} => slot = r /\ ~open
  BY DEF IndInv, ReservationHeld
<1>1. CASE PrepareReserve(r)
  <2>1. sent[r]["request"] = 0 /\ (slot = NoRequest \/ open)
    BY <1>1, TimedOutIsOpen DEF PrepareReserve, ContractInv
  <2>2. Contract!Ask(r)
    BY <1>1, <2>1, TellIsSend DEF PrepareReserve, TakeSlot, Contract!Ask
  <2>. QED
    BY <2>2 DEF Contract!Next
<1>2. CASE ExpirePrompt(r)
  <2>1. Contract!Asked(r) /\ sent[r]["expired"] = 0 /\ Accepted' = Accepted
    BY <1>2, <1>b DEF ExpirePrompt, IndInv, PromptInv, Contract!Asked, Accepted
  <2>2. Contract!Withdraw(r)
    BY <1>2, <2>1, TellIsSend DEF ExpirePrompt, Contract!Withdraw, Accepted
  <2>. QED
    BY <2>2 DEF Contract!Next
<1>3. CASE Decline(r)
  <2>1. Contract!Release(r)
    BY <1>3, <1>b DEF Decline, ClearSlot, Contract!Release, Contract!Asked, Contract!Free
  <2>. QED
    BY <2>1 DEF Contract!Next
<1>4. CASE Install(r)
  <2>1. sent[r]["expired"] = 0
    <3>1. sent[r]["expired"] \in Nat
      BY DEF IndInv, TypeOK, EventKinds
    <3>. QED
      BY <1>4, <3>1 DEF Install, IndInv, PromptInv
  <2>2. Contract!Accept(r, chosen[r])
    BY <1>4, <1>b, <2>1 DEF Install, TakeSlot, Contract!Accept, Contract!Asked
  <2>3. chosen[r] \in (SUBSET Files) \ {{}}
    BY <1>0, <1>4 DEF Install
  <2>. QED
    BY <2>2, <2>3 DEF Contract!Next
<1>5. CASE DeliverMessage(r)
  <2>1. r \in Messages /\ slot = r /\ open
    BY <1>5 DEF DeliverMessage, IndInv, SlotOwned
  <2>2. Contract!Deliver(r)
    BY <1>5, <2>1, TellIsSend
       DEF DeliverMessage, ClearSlot, Contract!Deliver, Contract!Session, Contract!Free
  <2>. QED
    BY <2>2 DEF Contract!Next
<1>6. CASE ReleaseReservation(r)
  <2>1. Contract!Asked(r) /\ Contract!Free
    BY <1>6 DEF ReleaseReservation, ContractInv, ClearSlot, Contract!Asked, Contract!Free
  <2>2. CASE release[r] = "expire"
    <3>1. sent[r]["expired"] = 0
      BY <2>2 DEF IndInv, PromptInv
    <3>2. Contract!Withdraw(r)
      BY <1>6, <2>1, <2>2, <3>1, TellIsSend DEF ReleaseReservation, Contract!Withdraw
    <3>. QED
      BY <3>2 DEF Contract!Next
  <2>3. CASE release[r] # "expire"
    <3>1. Contract!Release(r)
      BY <1>6, <2>1, <2>3 DEF ReleaseReservation, Contract!Release
    <3>. QED
      BY <3>1 DEF Contract!Next
  <2>. QED
    BY <2>2, <2>3
<1>7. CASE CancelSession(r)
  <2>1. Contract!End(r)
    BY <1>7, TellIsSend DEF CancelSession, Alive, ClearSlot, Contract!End, Contract!Session, Contract!Free
  <2>. QED
    BY <2>1 DEF Contract!Next
<1>8. CASE Decide(r)
  <2>1. ~open /\ UNCHANGED <<slot, open, received, sent>>
    BY <1>8, <1>b DEF Decide
  <2>. QED
    BY <2>1 DEF Contract!vars
<1>9. CASE PrepareRefuse(r) \/ PrepareConflict(r) \/ DropPrepare(r) \/ \E ids \in SUBSET Offer[r] : Answer(r, ids)
  BY <1>9 DEF PrepareRefuse, PrepareConflict, DropPrepare, Answer, Contract!vars
<1>. QED
  BY <1>1, <1>2, <1>3, <1>4, <1>5, <1>6, <1>7, <1>8, <1>9 DEF PrepareStep

\* Every step of an upload is one of the contract, or none.
LEMMA UploadSimulates ==
  ASSUME IndInv, ContractInv, NEW u \in Uploads, UploadStep(u)
  PROVE  Contract!Next \/ UNCHANGED Contract!vars
<1>. USE ConstantsAssumption DEF ConstantsAssumption, sessionVars, prepareVars, bookVars
<1>. DEFINE r == Req[u]
<1>0. r \in Requests /\ File[u] \in Files
  OBVIOUS
<1>d. upload[u] \in LockPhases => slot = r /\ open /\ File[u] \in uploading[r] \ received[r]
  BY DEF IndInv, PublicationOwnsSession, Alive
<1>1. CASE FailSession(u)
  <2>1. CASE Alive(r)
    <3>1. Contract!End(r)
      BY <1>0, <1>1, <2>1, TellIsSend
         DEF FailSession, Alive, ClearSlot, Contract!End, Contract!Session, Contract!Free
    <3>. QED
      BY <1>0, <3>1 DEF Contract!Next
  <2>2. CASE ~Alive(r)
    BY <1>1, <2>2 DEF FailSession, Contract!vars
  <2>. QED
    BY <2>1, <2>2
<1>2. CASE LinkFails(u) \/ UnlinkFails(u)
  <2>1. Contract!End(r)
    BY <1>0, <1>2, <1>d, TellIsSend
       DEF LinkFails, UnlinkFails, LockPhases, ClearSlot, Contract!End, Contract!Session, Contract!Free
  <2>. QED
    BY <1>0, <2>1 DEF Contract!Next
<1>3. CASE RecordFile(u)
  <2>1. slot = r /\ open /\ File[u] \in chosen[r] \ received[r]
    BY <1>0, <1>3, <1>d DEF RecordFile, LockPhases, ContractInv
  <2>2. Accepted = chosen[r] /\ chosen' = chosen
    BY <1>3, <2>1 DEF Accepted, RecordFile
  <2>3. CASE AllReceived(u)
    <3>1. Contract!Save(r, File[u])
      BY <1>0, <1>3, <2>1, <2>3, TellIsSend
         DEF RecordFile, AllReceived, ClearSlot, Contract!Save, Contract!Session, Contract!Free
    <3>. QED
      BY <1>0, <3>1 DEF Contract!Next
  <2>4. CASE ~AllReceived(u)
    <3>1. Contract!Save(r, File[u])
      BY <1>0, <1>3, <2>1, <2>2, <2>4, TellIsSend
         DEF RecordFile, AllReceived, Contract!Save, Contract!Session
    <3>. QED
      BY <1>0, <3>1 DEF Contract!Next
  <2>. QED
    BY <2>3, <2>4
<1>4. CASE UploadRefuse(u) \/ UploadConflict(u) \/ UploadBegin(u) \/ BodyTaken(u) \/
           StartBody(u) \/ MkdirFails(u) \/ EndUpload(u) \/ BodyChunk(u) \/ ReportProgress(u) \/
           BodyEnds(u) \/ BodyFails(u) \/ HashMatches(u) \/ HashFails(u) \/ RollbackProgress(u)
           \/ WithdrawProgress(u) \/ Revalidate(u) \/ DiscardStale(u) \/ LinkFile(u) \/
           DropUpload(u) \/ LinkAdrift(u)
  BY <1>4 DEF Contract!vars, UploadRefuse, UploadConflict, UploadBegin, BodyTaken, StartBody, MkdirFails,
     EndUpload, BodyChunk, ReportProgress, BodyEnds, BodyFails, HashMatches, HashFails,
     RollbackProgress, WithdrawProgress, Revalidate, DiscardStale, LinkFile, DropUpload,
     LinkAdrift
<1>. QED
  BY <1>1, <1>2, <1>3, <1>4 DEF UploadStep

\* Every step is one of the contract, or none.
LEMMA ContractStep ==
  IndInv /\ ContractInv /\ [Next]_vars => [Contract!Next]_(Contract!vars)
<1>. SUFFICES ASSUME IndInv, ContractInv, [Next]_vars
              PROVE  Contract!Next \/ UNCHANGED Contract!vars
  OBVIOUS
<1>1. CASE Sweep
  <2>1. slot \in Requests /\ open
    BY <1>1, TimedOutIsOpen DEF Sweep
  <2>2. ASSUME NEW r \in Requests, r = slot
        PROVE  Contract!End(r)
    BY <1>1, <2>1, <2>2, TellIsSend DEF Sweep, ClearSlot, bookVars, Contract!End, Contract!Session, Contract!Free
  <2>. QED
    BY <2>1, <2>2 DEF Contract!Next
<1>2. CASE Tick \/ UNCHANGED vars
  BY <1>2 DEF Tick, vars, sessionVars, prepareVars, bookVars, Contract!vars
<1>. QED
  BY <1>1, <1>2, PrepareSimulates, UploadSimulates DEF Next

\* The server keeps its contract with the consumer of its events, whatever handlers
\* race, are dropped or time out (handlers.rs, events.rs).
THEOREM ContractKept == Spec => ImplementsContract
BY ContractInit, ContractStep, Invariance, ContractInvariance, PTL DEF Spec, ImplementsContract, Contract!Spec
=============================================================================
