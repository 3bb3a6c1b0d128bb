-------------------------- MODULE StateDir_proofs --------------------------
(***************************************************************************)
(* Proofs about StateDir.tla, for any number of helpers, documents, names  *)
(* and components: the inductive invariant, what is published, what is     *)
(* removed, and the refinement of AtomicFile.tla.                          *)
(***************************************************************************)
EXTENDS StateDir, TLAPS

(***************************************************************************)
(* Records: a component's update keeps the type and the other components.  *)
(***************************************************************************)
LEMMA CallTypes ==
    /\ NoCall \in Call
    /\ \A c \in Call : c.at \in 0..Depth /\ c.want \in Value \cup {"none"}
                      /\ c.tmp \in Name \cup {"none"} /\ c.tries \in Nat
    /\ NoCall.at = 0 /\ NoCall.want = "none" /\ NoCall.tmp = "none"
  BY BoundAssumption DEF BoundAssumption, NoCall, Call

LEMMA CallAt ==
    ASSUME NEW c \in Call, NEW i \in 0..Depth
    PROVE  LET d == [c EXCEPT !.at = i] IN
           d \in Call /\ d.at = i /\ d.want = c.want /\ d.tmp = c.tmp
  BY DEF Call

LEMMA CallWant ==
    ASSUME NEW c \in Call, NEW v \in Value \cup {"none"}
    PROVE  LET d == [c EXCEPT !.want = v] IN
           d \in Call /\ d.at = c.at /\ d.want = v /\ d.tmp = c.tmp
  BY DEF Call

LEMMA CallTmp ==
    ASSUME NEW c \in Call, NEW n \in Name
    PROVE  LET d == [c EXCEPT !.tmp = n] IN
           d \in Call /\ d.at = c.at /\ d.want = c.want /\ d.tmp = n
  BY DEF Call

LEMMA CallTries ==
    ASSUME NEW c \in Call
    PROVE  LET d == [c EXCEPT !.tries = @ + 1] IN
           d \in Call /\ d.at = c.at /\ d.want = c.want /\ d.tmp = c.tmp
  BY DEF Call

LEMMA DirProtected ==
    ASSUME NEW d \in Dir
    PROVE  LET e == [d EXCEPT !.shared = FALSE] IN
           e \in Dir /\ e.kind = d.kind /\ e.owner = d.owner /\ ~e.shared
  BY DEF Dir

LEMMA FileTypes ==
    /\ Absent \in File /\ Unsafe \in File
    /\ Absent.val = "absent" /\ Unsafe.val = "unsafe" /\ Absent.synced /\ Unsafe.synced
    /\ \A v \in Value \cup {"partial"} :
          Left(v) \in File /\ Left(v).val = v /\ Left(v).synced
    /\ \A f \in File : f.val \in Value \cup {"absent", "unsafe", "partial"}
  BY DEF Absent, Unsafe, Left, File

LEMMA FileCreated ==
    ASSUME NEW h \in Helper
    PROVE  LET f == [val |-> "partial", synced |-> FALSE, by |-> h] IN
           f \in File /\ f.val = "partial" /\ f.by = h
  BY DEF File

LEMMA FileVal ==
    ASSUME NEW f \in File, NEW v \in Value
    PROVE  LET g == [f EXCEPT !.val = v] IN
           g \in File /\ g.val = v /\ g.by = f.by /\ g.synced = f.synced
  BY DEF File

LEMMA FileSynced ==
    ASSUME NEW f \in File
    PROVE  LET g == [f EXCEPT !.synced = TRUE] IN
           g \in File /\ g.val = f.val /\ g.by = f.by /\ g.synced
  BY DEF File

-----------------------------------------------------------------------------
(* The initial states *)

LEMMA InitInv == Init => IndInv
<1> SUFFICES ASSUME Init PROVE IndInv
  OBVIOUS
<1>1. TypeOK
  <2>1. {Absent, Unsafe, Left("partial")} \cup {Left(v) : v \in Value} \subseteq File
    BY FileTypes
  <2>2. entries \in [Name \cup {Target} -> File]
    BY <2>1 DEF Init
  <2>3. dirs \in [0..Depth -> Dir]
    BY FirstDirsAssumption DEF FirstDirsAssumption, Init, Dir
  <2> QED
    BY <2>2, <2>3, CallTypes DEF Init, TypeOK, Steps
<1>2. NeverPartial
  <2>1. entries[Target] \in {Absent, Unsafe} \cup {Left(v) : v \in Value}
    BY DEF Init
  <2> QED
    BY <2>1, FileTypes, ValueAssumption DEF ValueAssumption, Init, NeverPartial
<1>3. OpenedIsSafe /\ OwnsTemp /\ Reached
  BY FirstDirsAssumption
     DEF FirstDirsAssumption, Init, OpenedIsSafe, OwnsTemp, Reached, Saving, Owning, NoCall
<1>4. durable[Target].val = "unsafe" <=> entries[Target].val = "unsafe"
  BY DEF Init
<1> QED
  BY <1>1, <1>2, <1>3, <1>4 DEF IndInv

-----------------------------------------------------------------------------
(* Types *)

LEMMA GotoType ==
    ASSUME TypeOK, NEW h \in Helper, NEW s \in Steps, Goto(h, s)
    PROVE  pc' \in [Helper -> Steps] /\ got' = got
  BY DEF TypeOK, Goto

LEMMA ReturnType ==
    ASSUME TypeOK, NEW h \in Helper,
           NEW r \in Value \cup {"none", "ok", "err", "absent"}, Return(h, r)
    PROVE  /\ pc' \in [Helper -> Steps]
           /\ got' \in [Helper -> Value \cup {"none", "ok", "err", "absent"}]
           /\ call' \in [Helper -> Call]
  BY CallTypes DEF TypeOK, Return, Steps

LEMMA EnterType ==
    ASSUME TypeOK, NEW h \in Helper, Enter(h)
    PROVE  /\ dirs' \in [0..Depth -> Dir]
           /\ pc' \in [Helper -> Steps]
           /\ got' \in [Helper -> Value \cup {"none", "ok", "err", "absent"}]
           /\ call' \in [Helper -> Call]
<1> DEFINE i == call[h].at
<1>1. i \in 0..Depth /\ call[h] \in Call /\ Depth \in Nat
  BY CallTypes, BoundAssumption DEF BoundAssumption, TypeOK
<1>2. CASE Return(h, "err") /\ UNCHANGED dirs
  BY <1>2, ReturnType DEF TypeOK
<1>3. CASE /\ i < Depth /\ call' = [call EXCEPT ![h].at = i + 1]
           /\ Goto(h, "walk") /\ UNCHANGED dirs
  <2>1. i + 1 \in 0..Depth
    BY <1>1, <1>3
  <2>2. [call[h] EXCEPT !.at = i + 1] \in Call
    BY <1>1, <2>1, CallAt
  <2> QED
    BY <1>3, <2>2, GotoType DEF TypeOK, Steps
<1>4. CASE /\ dirs' = [dirs EXCEPT ![Depth].shared = FALSE]
           /\ Goto(h, "opened") /\ UNCHANGED call
  <2>1. [dirs[Depth] EXCEPT !.shared = FALSE] \in Dir
    BY <1>1, DirProtected DEF TypeOK
  <2> QED
    BY <1>1, <1>4, <2>1, GotoType DEF TypeOK, Steps
<1> QED
  BY <1>2, <1>3, <1>4 DEF Enter

LEMMA TypeStep == IndInv /\ [Next]_vars => TypeOK'
<1> SUFFICES ASSUME TypeOK, NeverPartial, OwnsTemp, [Next]_vars PROVE TypeOK'
  BY DEF IndInv
<1> USE DEF TypeOK, file, bounds
<1>1. ASSUME NEW h \in Helper, Begin(h) PROVE TypeOK'
  <2>1. \A v \in Value \cup {"none"} : [call[h] EXCEPT !.want = v] \in Call
    BY CallWant
  <2>2. call' \in [Helper -> Call]
    BY <1>1, <2>1 DEF Begin
  <2> QED
    BY <1>1, <2>2 DEF Begin, Steps
<1>2. ASSUME NEW h \in Helper, OpenComponent(h) PROVE TypeOK'
  BY <1>2, EnterType, GotoType, ReturnType DEF OpenComponent, Steps
<1>3. ASSUME NEW h \in Helper, MakeDir(h) PROVE TypeOK'
  <2>1. dirs' \in [0..Depth -> Dir]
    <3>1. Made \in Dir
      BY DEF Made, Dir
    <3> QED
      BY <1>3, <3>1 DEF MakeDir
  <2> QED
    BY <1>3, <2>1, GotoType, ReturnType DEF MakeDir, Steps
<1>4. ASSUME NEW h \in Helper, OpenCreated(h) PROVE TypeOK'
  BY <1>4, EnterType, ReturnType DEF OpenCreated
<1>5. ASSUME NEW h \in Helper, OpenRegular(h) PROVE TypeOK'
  <2>1. entries[Target].val # "unsafe" => entries[Target].val \in Value \cup {"absent"}
    BY FileTypes DEF NeverPartial
  <2> QED
    BY <1>5, <2>1, ReturnType DEF OpenRegular, validate_owned_regular_file
<1>6. ASSUME NEW h \in Helper, CheckExisting(h) PROVE TypeOK'
  BY <1>6, GotoType, ReturnType DEF CheckExisting, Steps
<1>7. ASSUME NEW h \in Helper, CreateTemp(h) PROVE TypeOK'
  <2>1. CASE Return(h, "err") /\ UNCHANGED entries
    BY <1>7, <2>1, ReturnType DEF CreateTemp
  <2>2. ASSUME NEW n \in Name, Create(h, n) PROVE TypeOK'
    BY <1>7, <2>2, FileCreated, CallTmp, GotoType DEF CreateTemp, Create, Steps
  <2>3. CASE call' = [call EXCEPT ![h].tries = @ + 1] /\ UNCHANGED <<pc, got, entries>>
    BY <1>7, <2>3, CallTries DEF CreateTemp
  <2> QED
    BY <1>7, <2>1, <2>2, <2>3 DEF CreateTemp, random_temp_name
<1>8. ASSUME NEW h \in Helper, WriteTemp(h) PROVE TypeOK'
  <2>1. call[h].tmp \in Name /\ call[h].want \in Value
    BY <1>8 DEF WriteTemp, OwnsTemp, Saving, Owning
  <2> QED
    BY <1>8, <2>1, GotoType, FileVal DEF WriteTemp, Steps
<1>9. ASSUME NEW h \in Helper, SyncTemp(h) PROVE TypeOK'
  BY <1>9, GotoType, FileSynced DEF SyncTemp, Steps
<1>10. ASSUME NEW h \in Helper, Publish(h) PROVE TypeOK'
  <2>1. call[h].tmp \in Name
    BY <1>10 DEF Publish, OwnsTemp, Owning
  <2> QED
    BY <1>10, <2>1, GotoType, FileTypes DEF Publish, renameat, Steps
<1>11. ASSUME NEW h \in Helper, RemoveTemp(h) PROVE TypeOK'
  BY <1>11, ReturnType, FileTypes DEF RemoveTemp, unlinkat
<1>12. ASSUME NEW h \in Helper, SyncDirectory(h) PROVE TypeOK'
  BY <1>12, ReturnType DEF SyncDirectory
<1>13. ASSUME NEW h \in Helper, Die(h) PROVE TypeOK'
  BY <1>13, ReturnType DEF Die
<1>14. CASE WriteBack
  BY <1>14 DEF WriteBack
<1>15. CASE PowerLoss
  <2>1. entries' \in [Name \cup {Target} -> File]
    BY <1>15, FileSynced, FileTypes DEF PowerLoss
  <2> QED
    BY <1>15, <2>1, CallTypes DEF PowerLoss, Steps
<1>16. CASE UNCHANGED vars
  BY <1>16 DEF vars
<1> QED
  BY <1>1, <1>2, <1>3, <1>4, <1>5, <1>6, <1>7, <1>8, <1>9, <1>10, <1>11, <1>12,
     <1>13, <1>14, <1>15, <1>16 DEF Next

LEMMA PartialStep == IndInv /\ [Next]_vars => NeverPartial'
<1> SUFFICES ASSUME TypeOK, NeverPartial, OwnsTemp, [Next]_vars PROVE NeverPartial'
  BY DEF IndInv
<1> USE NameAssumption DEF NameAssumption, TypeOK, NeverPartial, file
<1>1. ASSUME NEW h \in Helper, CreateTemp(h) PROVE NeverPartial'
  BY <1>1 DEF CreateTemp, Create, random_temp_name
<1>2. ASSUME NEW h \in Helper, WriteTemp(h) PROVE NeverPartial'
  <2>1. call[h].tmp # Target
    BY <1>2 DEF WriteTemp, OwnsTemp, Owning
  <2> QED
    BY <1>2, <2>1 DEF WriteTemp
<1>3. ASSUME NEW h \in Helper, SyncTemp(h) PROVE NeverPartial'
  <2>1. call[h].tmp # Target
    BY <1>3 DEF SyncTemp, OwnsTemp, Owning
  <2> QED
    BY <1>3, <2>1 DEF SyncTemp
<1>4. ASSUME NEW h \in Helper, Publish(h) PROVE NeverPartial'
  <2>1. call[h].tmp \in Name /\ entries[call[h].tmp].synced
    BY <1>4 DEF Publish, OwnsTemp, Owning
  <2>2. entries[call[h].tmp].val \in Value
    BY <1>4 DEF Publish, OwnsTemp, Owning, Saving
  <2> QED
    BY <1>4, <2>1, <2>2, ValueAssumption DEF ValueAssumption, Publish, renameat
<1>5. ASSUME NEW h \in Helper, RemoveTemp(h) PROVE NeverPartial'
  <2>1. call[h].tmp # Target
    BY <1>5 DEF RemoveTemp, OwnsTemp, Owning
  <2> QED
    BY <1>5, <2>1 DEF RemoveTemp, unlinkat
<1>6. ASSUME NEW h \in Helper,
             Begin(h) \/ OpenComponent(h) \/ MakeDir(h) \/ OpenCreated(h)
             \/ OpenRegular(h) \/ CheckExisting(h) \/ SyncDirectory(h) \/ Die(h)
      PROVE  NeverPartial'
  BY <1>6 DEF Begin, OpenComponent, MakeDir, OpenCreated, OpenRegular, CheckExisting,
              SyncDirectory, Die
<1>7. CASE WriteBack
  BY <1>7 DEF WriteBack
<1>8. CASE PowerLoss
  BY <1>8, FileSynced DEF PowerLoss
<1>9. CASE UNCHANGED vars
  BY <1>9 DEF vars
<1> QED
  BY <1>1, <1>2, <1>3, <1>4, <1>5, <1>6, <1>7, <1>8, <1>9 DEF Next

LEMMA UnsafeStep ==
    IndInv /\ [Next]_vars =>
        /\ entries[Target].val = "unsafe" => entries'[Target].val = "unsafe"
        /\ (durable[Target].val = "unsafe" <=> entries[Target].val = "unsafe")'
<1> SUFFICES ASSUME IndInv, [Next]_vars
             PROVE  /\ entries[Target].val = "unsafe" => entries'[Target].val = "unsafe"
                    /\ durable'[Target].val = "unsafe" <=> entries'[Target].val = "unsafe"
  OBVIOUS
<1> USE NameAssumption DEF NameAssumption, TypeOK, IndInv, file
<1>1. ASSUME NEW h \in Helper,
             WriteTemp(h) \/ SyncTemp(h) \/ RemoveTemp(h) \/ CreateTemp(h)
      PROVE  entries'[Target] = entries[Target] /\ durable' = durable
  BY <1>1 DEF WriteTemp, SyncTemp, RemoveTemp, unlinkat, CreateTemp, Create,
              random_temp_name, OwnsTemp, Owning
<1>2. ASSUME NEW h \in Helper, Publish(h)
      PROVE  /\ entries[Target].val # "unsafe" /\ entries'[Target].val # "unsafe"
             /\ durable' = durable
  <2>1. /\ call[h].tmp \in Name /\ call[h].want \in Value
        /\ entries[call[h].tmp].val = call[h].want /\ entries[Target].val # "unsafe"
    BY <1>2 DEF Publish, OwnsTemp, Owning, Saving
  <2> QED
    BY <1>2, <2>1, ValueAssumption DEF ValueAssumption, Publish, renameat
<1>3. ASSUME NEW h \in Helper,
             Begin(h) \/ OpenComponent(h) \/ MakeDir(h) \/ OpenCreated(h)
             \/ OpenRegular(h) \/ CheckExisting(h) \/ SyncDirectory(h) \/ Die(h)
      PROVE  entries' = entries /\ (durable' = durable \/ durable' = entries)
  BY <1>3 DEF Begin, OpenComponent, MakeDir, OpenCreated, OpenRegular, CheckExisting,
              SyncDirectory, Die
<1>4. CASE PowerLoss
  <2>1. entries'[Target].val = durable[Target].val
    BY <1>4, FileSynced DEF PowerLoss, NeverPartial
  <2> QED
    BY <1>4, <2>1 DEF PowerLoss
<1>5. CASE WriteBack \/ UNCHANGED vars
  BY <1>5 DEF WriteBack, vars
<1> QED
  BY <1>1, <1>2, <1>3, <1>4, <1>5 DEF Next

-----------------------------------------------------------------------------
(* Temporaries *)

Owns(h) ==
    /\ Saving(h) => call[h].want \in Value /\ entries[Target].val # "unsafe"
    /\ Owning(h) => /\ call[h].tmp \in Name /\ entries[call[h].tmp].by = h
                    /\ entries[call[h].tmp].val # "absent"
    /\ pc[h] \in {"sync", "publish"} => entries[call[h].tmp].val = call[h].want
    /\ pc[h] = "publish" => entries[call[h].tmp].synced

LEMMA OwnsEach == OwnsTemp <=> \A h \in Helper : Owns(h)
  BY DEF OwnsTemp, Owns

\* A helper that did not move keeps what it owns, as long as nobody touched it.
LEMMA OwnsFrame ==
    ASSUME NEW g \in Helper, Owns(g), pc'[g] = pc[g], call'[g] = call[g],
           Owning(g) => entries'[call[g].tmp] = entries[call[g].tmp],
           entries[Target].val # "unsafe" => entries'[Target].val # "unsafe"
    PROVE  Owns(g)'
  BY DEF Owns, Saving, Owning

\* A call that has returned owns nothing.
LEMMA OwnsReturn ==
    ASSUME TypeOK, NEW h \in Helper, NEW r, Return(h, r)
    PROVE  Owns(h)' /\ \A g \in Helper \ {h} : pc'[g] = pc[g] /\ call'[g] = call[g]
  BY DEF TypeOK, Return, Owns, Saving, Owning

LEMMA EnterMoves ==
    ASSUME TypeOK, NEW h \in Helper, Enter(h)
    PROVE  /\ pc' \in [Helper -> Steps]
           /\ pc'[h] \in {"idle", "walk", "opened"}
           /\ \A g \in Helper \ {h} : pc'[g] = pc[g] /\ call'[g] = call[g]
  BY EnterType DEF TypeOK, Enter, Goto, Return

LEMMA OwnsStep == IndInv /\ [Next]_vars => OwnsTemp'
<1> SUFFICES ASSUME IndInv, [Next]_vars, NEW g \in Helper PROVE Owns(g)'
  BY OwnsEach DEF OwnsTemp, Owns
<1> USE NameAssumption DEF NameAssumption, TypeOK, file
<1>0. TypeOK /\ NeverPartial /\ Owns(g) /\ \A h \in Helper : Owns(h)
  BY OwnsEach DEF IndInv
<1>1. ASSUME NEW h \in Helper, h # g, Owning(h), Owning(g)
      PROVE  call[h].tmp # call[g].tmp
  BY <1>0, <1>1 DEF Owns
<1>2. ASSUME NEW h \in Helper, Begin(h) PROVE Owns(g)'
  <2>1. entries' = entries /\ pc' = [pc EXCEPT ![h] = "walk"]
        /\ \A k \in Helper \ {h} : call'[k] = call[k]
    BY <1>0, <1>2 DEF Begin
  <2> QED
    BY <1>0, <2>1, OwnsFrame DEF Owns, Saving, Owning
<1>3. ASSUME NEW h \in Helper, OpenComponent(h) \/ OpenCreated(h) PROVE Owns(g)'
  <2>1. entries' = entries
    BY <1>3 DEF OpenComponent, OpenCreated
  <2>2. CASE Enter(h)
    BY <1>0, <2>1, <2>2, EnterMoves, OwnsFrame DEF Owns, Saving, Owning
  <2>3. CASE Goto(h, "mkdir") /\ UNCHANGED call
    BY <1>0, <2>1, <2>3, OwnsFrame DEF Goto, Owns, Saving, Owning
  <2>4. CASE Return(h, "err")
    BY <1>0, <2>1, <2>4, OwnsFrame, OwnsReturn
  <2> QED
    BY <1>3, <2>2, <2>3, <2>4 DEF OpenComponent, OpenCreated
<1>4. ASSUME NEW h \in Helper, MakeDir(h) PROVE Owns(g)'
  <2>1. entries' = entries
    BY <1>4 DEF MakeDir
  <2>2. CASE Goto(h, "reopen") /\ UNCHANGED call
    BY <1>0, <2>1, <2>2, OwnsFrame DEF Goto, Owns, Saving, Owning
  <2>3. CASE Return(h, "err")
    BY <1>0, <2>1, <2>3, OwnsFrame, OwnsReturn
  <2> QED
    BY <1>4, <2>2, <2>3 DEF MakeDir
<1>5. ASSUME NEW h \in Helper, OpenRegular(h) \/ CheckExisting(h) PROVE Owns(g)'
  <2>1. entries' = entries
    BY <1>5 DEF OpenRegular, CheckExisting
  <2>2. ASSUME NEW r, Return(h, r) PROVE Owns(g)'
    BY <1>0, <2>1, <2>2, OwnsFrame, OwnsReturn
  <2>3. CASE /\ call[h].want # "none" /\ entries[Target].val # "unsafe"
             /\ Goto(h, "create") /\ UNCHANGED call
    <3>1. call[h].want \in Value
      BY <1>0, <2>3, CallTypes
    <3> QED
      BY <1>0, <2>1, <2>3, <3>1, OwnsFrame DEF Goto, Owns, Saving, Owning
  <2> QED
    BY <1>5, <2>2, <2>3 DEF OpenRegular, CheckExisting, validate_owned_regular_file
<1>6. ASSUME NEW h \in Helper, CreateTemp(h) PROVE Owns(g)'
  <2>1. CASE Return(h, "err") /\ UNCHANGED entries
    BY <1>0, <2>1, OwnsFrame, OwnsReturn
  <2>2. ASSUME NEW n \in Name, entries[n].val = "absent", Create(h, n) PROVE Owns(g)'
    <3>1. CASE g = h
      <4>1. call'[g] = [call[g] EXCEPT !.tmp = n] /\ pc'[g] = "write"
        BY <1>0, <2>2, <3>1 DEF Create, Goto
      <4>2. call'[g].tmp = n /\ call'[g].want = call[g].want
        BY <1>0, <4>1, CallTmp
      <4>3. entries'[n].by = g /\ entries'[n].val = "partial" /\ entries'[Target] = entries[Target]
        BY <1>0, <2>2, <3>1 DEF Create
      <4> QED
        BY <1>0, <1>6, <3>1, <4>1, <4>2, <4>3 DEF CreateTemp, Owns, Saving, Owning
    <3>2. CASE g # h
      BY <1>0, <2>2, <3>2, OwnsFrame DEF Create, Goto, Owns
    <3> QED
      BY <3>1, <3>2
  <2>3. CASE call' = [call EXCEPT ![h].tries = @ + 1] /\ UNCHANGED <<pc, got, entries>>
    <3>1. call'[h].want = call[h].want
      BY <1>0, <2>3, CallTries
    <3> QED
      BY <1>0, <1>6, <2>3, <3>1, OwnsFrame DEF CreateTemp, Owns, Saving, Owning
  <2> QED
    BY <1>6, <2>1, <2>2, <2>3 DEF CreateTemp, random_temp_name
<1>7. ASSUME NEW h \in Helper, WriteTemp(h) \/ SyncTemp(h) PROVE Owns(g)'
  <2>1. /\ Owning(h) /\ Owns(h) /\ call[h].tmp \in Name /\ call[h].want \in Value
        /\ entries[call[h].tmp] \in File
    BY <1>0, <1>7 DEF WriteTemp, SyncTemp, Owns, Saving, Owning
  <2>2. call' = call /\ entries'[Target] = entries[Target]
        /\ \A n \in Name \ {call[h].tmp} : entries'[n] = entries[n]
    BY <1>0, <1>7, <2>1 DEF WriteTemp, SyncTemp
  <2>3. CASE g = h
    <3>1. CASE UNCHANGED entries /\ Goto(h, "unlink")
      BY <1>0, <2>1, <2>2, <2>3, <3>1 DEF Goto, Owns, Saving, Owning
    <3>2. CASE entries' = [entries EXCEPT ![call[h].tmp].val = call[h].want] /\ Goto(h, "sync")
      BY <1>0, <2>1, <2>2, <2>3, <3>2, FileVal, ValueAssumption
         DEF ValueAssumption, Goto, Owns, Saving, Owning
    <3>3. CASE /\ entries' = [entries EXCEPT ![call[h].tmp].synced = TRUE]
               /\ pc[h] = "sync" /\ Goto(h, "publish")
      BY <1>0, <2>1, <2>2, <2>3, <3>3, FileSynced DEF Goto, Owns, Saving, Owning
    <3> QED
      BY <1>7, <3>1, <3>2, <3>3 DEF WriteTemp, SyncTemp
  <2>4. CASE g # h
    BY <1>0, <1>1, <1>7, <2>1, <2>2, <2>4, OwnsFrame DEF WriteTemp, SyncTemp, Goto, Owns
  <2> QED
    BY <2>3, <2>4
<1>8. ASSUME NEW h \in Helper, Publish(h) PROVE Owns(g)'
  <2>1. /\ Owning(h) /\ Owns(h) /\ call[h].tmp \in Name /\ call[h].want \in Value
        /\ entries[call[h].tmp].val = call[h].want /\ entries[Target].val # "unsafe"
    BY <1>0, <1>8 DEF Publish, Owns, Saving, Owning
  <2>2. CASE UNCHANGED entries /\ Goto(h, "unlink")
    BY <1>0, <1>8, <2>1, <2>2, OwnsFrame DEF Publish, Goto, Owns, Saving, Owning
  <2>3. CASE renameat(call[h].tmp) /\ Goto(h, "syncdir")
    <3>1. /\ entries'[Target].val \in Value
          /\ \A n \in Name \ {call[h].tmp} : entries'[n] = entries[n]
      BY <1>0, <2>1, <2>3 DEF renameat
    <3>2. entries'[Target].val # "unsafe"
      BY <3>1, ValueAssumption DEF ValueAssumption
    <3> QED
      BY <1>0, <1>1, <1>8, <2>1, <2>3, <3>1, <3>2, OwnsFrame
         DEF Publish, Goto, Owns, Saving, Owning
  <2> QED
    BY <1>8, <2>2, <2>3 DEF Publish
<1>9. ASSUME NEW h \in Helper, RemoveTemp(h) PROVE Owns(g)'
  <2>1. Owning(h) /\ call[h].tmp \in Name
    BY <1>0, <1>9 DEF RemoveTemp, Owns, Owning
  <2>2. entries'[Target] = entries[Target]
        /\ \A n \in Name \ {call[h].tmp} : entries'[n] = entries[n]
    BY <1>0, <1>9, <2>1 DEF RemoveTemp, unlinkat
  <2>3. CASE g = h
    BY <1>0, <1>9, <2>3, OwnsReturn DEF RemoveTemp
  <2>4. CASE g # h
    <3>1. pc'[g] = pc[g] /\ call'[g] = call[g]
      BY <1>0, <1>9, <2>4, OwnsReturn DEF RemoveTemp
    <3> QED
      BY <1>0, <1>1, <2>1, <2>2, <2>4, <3>1, OwnsFrame DEF Owns
  <2> QED
    BY <2>3, <2>4
<1>10. ASSUME NEW h \in Helper, SyncDirectory(h) \/ Die(h) PROVE Owns(g)'
  BY <1>0, <1>10, OwnsFrame, OwnsReturn DEF SyncDirectory, Die
<1>11. CASE WriteBack \/ UNCHANGED vars
  BY <1>0, <1>11, OwnsFrame DEF WriteBack, vars
<1>12. CASE PowerLoss
  BY <1>12 DEF PowerLoss, Owns, Saving, Owning
<1> QED
  BY <1>2, <1>3, <1>4, <1>5, <1>6, <1>7, <1>8, <1>9, <1>10, <1>11, <1>12 DEF Next

-----------------------------------------------------------------------------
(* The walk *)

\* An owner test that passes with the rule of the ancestors goes on passing when
\* the directory is protected from others.
LEMMA ProtectedOwner ==
    ASSUME NEW d \in Dir, NEW private \in BOOLEAN, valid_directory_owner(d, private)
    PROVE  valid_directory_owner([d EXCEPT !.shared = FALSE], private)
  BY DirProtected DEF valid_directory_owner

\* No step takes a tested component back.
LEMMA OwnersKept ==
    ASSUME IndInv, [Next]_vars, crashes' = crashes, NEW i \in 0..Depth, NEW b \in BOOLEAN,
           valid_directory_owner(dirs[i], b)
    PROVE  valid_directory_owner(dirs'[i], b)
<1> USE DEF IndInv, TypeOK
<1>1. ASSUME NEW h \in Helper, Enter(h) PROVE valid_directory_owner(dirs'[i], b)
  <2>1. CASE UNCHANGED dirs
    BY <2>1
  <2>2. CASE dirs' = [dirs EXCEPT ![Depth].shared = FALSE]
    BY <2>2, ProtectedOwner
  <2> QED
    BY <1>1, <2>1, <2>2 DEF Enter
<1>2. ASSUME NEW h \in Helper, OpenComponent(h) \/ OpenCreated(h)
      PROVE valid_directory_owner(dirs'[i], b)
  BY <1>1, <1>2 DEF OpenComponent, OpenCreated
<1>3. ASSUME NEW h \in Helper, MakeDir(h) PROVE valid_directory_owner(dirs'[i], b)
  BY <1>3 DEF MakeDir, valid_directory_owner
<1>4. CASE dirs' = dirs
  BY <1>4
<1>5. \/ dirs' = dirs
      \/ \E h \in Helper : OpenComponent(h) \/ OpenCreated(h) \/ MakeDir(h)
  BY DEF Next, vars, WriteBack, PowerLoss, Begin, OpenRegular, CheckExisting, CreateTemp,
         WriteTemp, SyncTemp, Publish, RemoveTemp, SyncDirectory, Die
<1> QED
  BY <1>2, <1>3, <1>4, <1>5

\* What is under a component's name stays there, and stays what it is.
LEMMA KindKept ==
    ASSUME IndInv, [Next]_vars, NEW i \in 0..Depth, dirs[i].kind # "absent"
    PROVE  dirs'[i].kind = dirs[i].kind
<1> USE DEF IndInv, TypeOK
<1>1. ASSUME NEW h \in Helper, Enter(h) PROVE dirs'[i].kind = dirs[i].kind
  <2>1. CASE UNCHANGED dirs
    BY <2>1
  <2>2. CASE dirs' = [dirs EXCEPT ![Depth].shared = FALSE]
    BY <2>2, DirProtected
  <2> QED
    BY <1>1, <2>1, <2>2 DEF Enter
<1>2. ASSUME NEW h \in Helper, OpenComponent(h) \/ OpenCreated(h) \/ MakeDir(h)
      PROVE dirs'[i].kind = dirs[i].kind
  BY <1>1, <1>2 DEF OpenComponent, OpenCreated, MakeDir
<1> QED
  BY <1>2 DEF Next, vars, WriteBack, PowerLoss, Begin, OpenRegular, CheckExisting, CreateTemp,
         WriteTemp, SyncTemp, Publish, RemoveTemp, SyncDirectory, Die

LEMMA CrashReturns ==
    ASSUME IndInv, [Next]_vars, crashes' # crashes, NEW g \in Helper
    PROVE  UNCHANGED dirs /\ (pc'[g] = "idle" \/ (pc'[g] = pc[g] /\ call'[g] = call[g]))
<1> USE DEF IndInv, TypeOK, bounds
<1>1. PowerLoss \/ \E h \in Helper : Die(h)
  BY DEF Next, vars, WriteBack, Begin, OpenComponent, MakeDir, OpenCreated, OpenRegular,
         CheckExisting, CreateTemp, WriteTemp, SyncTemp, Publish, RemoveTemp, SyncDirectory
<1>2. ASSUME NEW h \in Helper, Die(h)
      PROVE  UNCHANGED dirs /\ (pc'[g] = "idle" \/ (pc'[g] = pc[g] /\ call'[g] = call[g]))
  <2>1. pc'[h] = "idle"
    BY <1>2 DEF Die, Return
  <2>2. Return(h, "none") /\ UNCHANGED dirs
    BY <1>2 DEF Die
  <2>3. g # h => pc'[g] = pc[g] /\ call'[g] = call[g]
    BY <2>2, OwnsReturn
  <2> QED
    BY <2>1, <2>2, <2>3
<1>3. CASE PowerLoss
  BY <1>3 DEF PowerLoss
<1> QED
  BY <1>1, <1>2, <1>3

\* The walk of one helper: what it has tested so far is still safe.
Walked(h) ==
    /\ pc[h] # "idle" => \A i \in 0..(call[h].at - 1) : valid_directory_owner(dirs[i], FALSE)
    /\ pc[h] = "mkdir" => call[h].at > 0
    /\ pc[h] = "idle" => call[h].at = 0
    /\ pc[h] = "reopen" => dirs[call[h].at].kind # "absent"
    /\ pc[h] = "opened" \/ Saving(h) =>
          \A i \in 0..Depth : valid_directory_owner(dirs[i], i = Depth)

LEMMA WalkedEach ==
    OpenedIsSafe /\ Reached <=> dirs[0].kind = "dir" /\ \A h \in Helper : Walked(h)
  BY DEF OpenedIsSafe, Reached, Walked

LEMMA WalkedFrame ==
    ASSUME IndInv, [Next]_vars, NEW g \in Helper, Walked(g),
           call'[g].at = call[g].at, pc'[g] = "idle" <=> pc[g] = "idle",
           pc'[g] = "mkdir" => (pc[g] = "mkdir" \/ call[g].at > 0),
           pc'[g] = "reopen" => (pc[g] = "reopen" \/ dirs'[call[g].at].kind # "absent"),
           (pc[g] = "opened" \/ Saving(g))' => (pc[g] = "opened" \/ Saving(g))
    PROVE  Walked(g)'
<1>1. CASE crashes' # crashes
  BY <1>1, CrashReturns DEF Walked, Saving, Owning
<1>2. CASE crashes' = crashes
  <2>1. call[g].at \in 0..Depth /\ Depth \in Nat
    BY CallTypes, BoundAssumption DEF BoundAssumption, IndInv, TypeOK
  <2>2. \A i \in 0..Depth, b \in BOOLEAN :
           valid_directory_owner(dirs[i], b) => valid_directory_owner(dirs'[i], b)
    BY <1>2, OwnersKept
  <2>3. (pc[g] # "idle")' =>
           \A i \in 0..(call[g].at - 1) : valid_directory_owner(dirs'[i], FALSE)
    <3>1. 0..(call[g].at - 1) \subseteq 0..Depth
      BY <2>1
    <3> QED
      BY <2>2, <3>1, Zenon DEF Walked
  <2>5. pc'[g] = "reopen" => dirs'[call[g].at].kind # "absent"
    BY <2>1, KindKept DEF Walked
  <2>4. ASSUME (pc[g] = "opened" \/ Saving(g))', NEW i \in 0..Depth
        PROVE  valid_directory_owner(dirs'[i], i = Depth)
    <3>1. (i = Depth) \in BOOLEAN /\ valid_directory_owner(dirs[i], i = Depth)
      BY <2>4 DEF Walked
    <3> QED
      BY <2>2, <3>1
  <2> QED
    BY <2>3, <2>4, <2>5 DEF Walked
<1> QED
  BY <1>1, <1>2

LEMMA EnterWalks ==
    ASSUME IndInv, [Next]_vars, NEW h \in Helper, Enter(h), crashes' = crashes,
           pc[h] # "idle"
    PROVE  Walked(h)'
<1> DEFINE i == call[h].at
<1>1. /\ i \in 0..Depth /\ Depth \in Nat /\ call[h] \in Call
      /\ pc \in [Helper -> Steps] /\ call \in [Helper -> Call]
  BY CallTypes, BoundAssumption DEF BoundAssumption, IndInv, TypeOK
<1>2. \A j \in 0..Depth, b \in BOOLEAN :
         valid_directory_owner(dirs[j], b) => valid_directory_owner(dirs'[j], b)
  BY OwnersKept
<1>3. \A j \in 0..(i - 1) : valid_directory_owner(dirs'[j], FALSE)
  <2>1. 0..(i - 1) \subseteq 0..Depth
    BY <1>1
  <2> QED
    BY <1>2, <2>1, Zenon DEF IndInv, Reached
<1>4. CASE Return(h, "err")
  BY <1>1, <1>4, CallTypes DEF Return, Walked, Saving, Owning
<1>5. CASE /\ valid_directory_owner(dirs[i], FALSE) /\ i < Depth
           /\ call' = [call EXCEPT ![h].at = i + 1] /\ Goto(h, "walk")
  <2>1. call'[h].at = i + 1 /\ pc'[h] = "walk"
    BY <1>1, <1>5, CallAt DEF Goto
  <2>2. valid_directory_owner(dirs'[i], FALSE)
    BY <1>1, <1>2, <1>5
  <2>3. 0..(call'[h].at - 1) = 0..(i - 1) \cup {i}
    BY <1>1, <2>1
  <2>4. \A j \in 0..(call'[h].at - 1) : valid_directory_owner(dirs'[j], FALSE)
    BY <1>3, <2>2, <2>3, Zenon
  <2>5. /\ pc'[h] # "mkdir" /\ pc'[h] # "idle" /\ pc'[h] # "reopen"
        /\ ~(pc[h] = "opened" \/ Saving(h))'
    BY <2>1 DEF Saving, Owning
  <2> QED
    BY <2>4, <2>5, Zenon DEF Walked
<1>6. CASE /\ valid_directory_owner(dirs[i], TRUE) /\ i = Depth
           /\ Goto(h, "opened") /\ UNCHANGED call
  <2>1. valid_directory_owner(dirs'[Depth], TRUE) /\ pc'[h] = "opened"
    BY <1>1, <1>2, <1>6 DEF Goto
  <2>2. \A j \in 0..Depth : valid_directory_owner(dirs'[j], j = Depth)
    <3> TAKE j \in 0..Depth
    <3>1. CASE j = Depth
      BY <2>1, <3>1
    <3>2. CASE j # Depth
      <4>1. j \in 0..(i - 1) /\ (j = Depth) = FALSE
        BY <1>1, <1>6, <3>2
      <4> QED
        BY <1>3, <4>1, Zenon
    <3> QED
      BY <3>1, <3>2
  <2> QED
    BY <1>1, <1>3, <1>6, <2>1, <2>2 DEF Walked, Saving, Owning
<1> QED
  BY <1>4, <1>5, <1>6 DEF Enter

LEMMA WalkStep == IndInv /\ [Next]_vars => (OpenedIsSafe /\ Reached)'
<1> SUFFICES ASSUME IndInv, [Next]_vars
             PROVE  dirs'[0].kind = "dir" /\ \A g \in Helper : Walked(g)'
  BY Zenon DEF OpenedIsSafe, Reached, Walked
<1>0. /\ TypeOK /\ dirs[0].kind = "dir" /\ \A g \in Helper : Walked(g)
      /\ Depth \in Nat
  BY WalkedEach, BoundAssumption DEF BoundAssumption, IndInv
<1> USE DEF TypeOK, bounds
<1>1. dirs'[0].kind = "dir"
  BY <1>0, KindKept
<1> SUFFICES ASSUME NEW g \in Helper PROVE Walked(g)'
  BY <1>1
<1>2. ASSUME NEW h \in Helper, NEW r, Return(h, r) PROVE Walked(g)'
  <2>1. CASE g = h
    BY <1>0, <1>2, <2>1, CallTypes DEF Return, Walked, Saving, Owning
  <2>2. CASE g # h
    BY <1>0, <1>2, <2>2, OwnsReturn, WalkedFrame DEF Saving, Owning
  <2> QED
    BY <2>1, <2>2
<1>3. ASSUME NEW h \in Helper, Enter(h), crashes' = crashes, pc[h] # "idle" PROVE Walked(g)'
  BY <1>0, <1>3, EnterWalks, EnterMoves, WalkedFrame DEF Saving, Owning
<1>4. ASSUME NEW h \in Helper, Begin(h) PROVE Walked(g)'
  <2>1. g # h => call'[g] = call[g] /\ pc'[g] = pc[g]
    BY <1>0, <1>4 DEF Begin
  <2>2. CASE g = h
    <3>1. pc'[g] = "walk" /\ call[g].at = 0
      BY <1>0, <1>4, <2>2 DEF Begin, Walked
    <3>2. PICK v \in Value \cup {"none"} : call' = [call EXCEPT ![h].want = v]
      BY <1>4 DEF Begin
    <3>3. call'[g].at = call[g].at
      BY <1>0, <2>2, <3>2, CallWant
    <3> QED
      BY <3>1, <3>3 DEF Walked, Saving, Owning
  <2> QED
    BY <1>0, <2>1, <2>2, WalkedFrame DEF Saving, Owning
<1>5. ASSUME NEW h \in Helper, OpenComponent(h) \/ OpenCreated(h) PROVE Walked(g)'
  <2>1. CASE /\ Goto(h, "mkdir") /\ UNCHANGED call /\ dirs[call[h].at].kind = "absent"
             /\ pc[h] = "walk"
    <3>1. call[h].at > 0
      BY <1>0, <2>1, CallTypes
    <3> QED
      BY <1>0, <2>1, <3>1, WalkedFrame DEF Goto, Saving, Owning
  <2> QED
    BY <1>2, <1>3, <1>5, <2>1 DEF OpenComponent, OpenCreated
<1>6. ASSUME NEW h \in Helper, MakeDir(h) PROVE Walked(g)'
  <2>1. CASE Goto(h, "reopen") /\ UNCHANGED call /\ pc[h] = "mkdir"
    <3>1. CASE g # h
      BY <1>0, <2>1, <3>1, WalkedFrame DEF Goto, Saving, Owning
    <3>2. CASE g = h
      <4>1. dirs'[call[g].at].kind # "absent"
        BY <1>0, <1>6, <2>1, <3>2, CallTypes DEF MakeDir, Made, Goto, Return
      <4> QED
        BY <1>0, <2>1, <3>2, <4>1, WalkedFrame DEF Goto, Saving, Owning
    <3> QED
      BY <3>1, <3>2
  <2> QED
    BY <1>2, <1>6, <2>1 DEF MakeDir
<1>7. ASSUME NEW h \in Helper, OpenRegular(h) \/ CheckExisting(h) PROVE Walked(g)'
  <2>1. CASE Goto(h, "create") /\ UNCHANGED call /\ pc[h] = "opened"
    BY <1>0, <2>1, WalkedFrame DEF Goto, Saving, Owning
  <2> QED
    BY <1>2, <1>7, <2>1 DEF OpenRegular, CheckExisting
<1>8. ASSUME NEW h \in Helper, CreateTemp(h) PROVE Walked(g)'
  <2>1. ASSUME NEW n \in Name, Create(h, n) PROVE Walked(g)'
    <3>1. call'[g].at = call[g].at
      BY <1>0, <2>1, CallTmp DEF Create
    <3> QED
      BY <1>0, <1>8, <2>1, <3>1, WalkedFrame DEF CreateTemp, Create, Goto, Saving, Owning
  <2>2. CASE call' = [call EXCEPT ![h].tries = @ + 1] /\ UNCHANGED <<pc, got, entries>>
    <3>1. call'[g].at = call[g].at
      BY <1>0, <2>2, CallTries
    <3> QED
      BY <1>0, <2>2, <3>1, WalkedFrame DEF Saving, Owning
  <2> QED
    BY <1>2, <1>8, <2>1, <2>2 DEF CreateTemp, random_temp_name
<1>9. ASSUME NEW h \in Helper, WriteTemp(h) \/ SyncTemp(h) \/ Publish(h) PROVE Walked(g)'
  BY <1>0, <1>9, WalkedFrame DEF WriteTemp, SyncTemp, Publish, Goto, Saving, Owning
<1>10. ASSUME NEW h \in Helper, RemoveTemp(h) \/ SyncDirectory(h) \/ Die(h) PROVE Walked(g)'
  BY <1>2, <1>10 DEF RemoveTemp, SyncDirectory, Die
<1>11. CASE WriteBack \/ UNCHANGED vars
  BY <1>0, <1>11, WalkedFrame DEF WriteBack, vars, Saving, Owning
<1>12. CASE PowerLoss
  BY <1>12, CallTypes DEF PowerLoss, Walked, Saving, Owning
<1> QED
  BY <1>3, <1>4, <1>5, <1>6, <1>7, <1>8, <1>9, <1>10, <1>11, <1>12 DEF Next

-----------------------------------------------------------------------------
(* The theorems *)

\* Every reachable state satisfies the inductive invariant.
THEOREM Invariance == Spec => []IndInv
<1>1. Init => IndInv
  BY InitInv
<1>2. IndInv /\ [Next]_vars => IndInv'
  BY TypeStep, PartialStep, OwnsStep, WalkStep, UnsafeStep, Zenon DEF IndInv
<1> QED
  BY <1>1, <1>2, PTL DEF Spec

\* What is linked under the file's name is always whole, on disk and after a
\* power loss (secure_state.rs:307-323).
THEOREM WholeFiles == Spec => []NeverPartial
<1>1. IndInv => NeverPartial
  BY DEF IndInv
<1> QED
  BY <1>1, Invariance, PTL

\* A helper only works in a directory whose whole path is safe
\* (secure_state.rs:169-216).
THEOREM SafePath == Spec => []OpenedIsSafe
<1>1. IndInv => OpenedIsSafe
  BY DEF IndInv
<1> QED
  BY <1>1, Invariance, PTL

\* An unsafe object under the file's name is never replaced
\* (secure_state.rs:276-278).
LEMMA UnsafeKept == IndInv /\ [Next]_vars => [KeepsUnsafe]_vars
  BY UnsafeStep DEF KeepsUnsafe

\* No helper removes the temporary file of another (secure_state.rs:321-331).
LEMMA OwnRemoved == IndInv /\ [Next]_vars => [RemovesOwn]_vars
<1> SUFFICES ASSUME IndInv, [Next]_vars, NEW n \in Name,
                    entries[n].val # "absent", entries'[n].val = "absent",
                    crashes' = crashes
             PROVE  \E h \in Helper : call[h].tmp = n /\ entries[n].by = h
                                        /\ pc[h] \in {"publish", "unlink"}
  BY DEF RemovesOwn
<1> USE NameAssumption DEF NameAssumption, TypeOK, file
<1>0. TypeOK /\ OwnsTemp
  BY DEF IndInv
<1>1. ASSUME NEW h \in Helper, CreateTemp(h) PROVE FALSE
  BY <1>0, <1>1, FileCreated DEF CreateTemp, Create, random_temp_name
<1>2. ASSUME NEW h \in Helper, WriteTemp(h) PROVE FALSE
  <2>1. call[h].tmp \in Name /\ call[h].want \in Value
    BY <1>2 DEF WriteTemp, OwnsTemp, Owning, Saving, IndInv
  <2>2. entries'[n] \in {entries[n], [entries[n] EXCEPT !.val = call[h].want]}
    BY <1>0, <1>2, <2>1 DEF WriteTemp
  <2>3. [entries[n] EXCEPT !.val = call[h].want].val \in Value
    BY <1>0, <2>1, FileVal
  <2> QED
    BY <2>2, <2>3, ValueAssumption DEF ValueAssumption
<1>3. ASSUME NEW h \in Helper, SyncTemp(h) PROVE FALSE
  BY <1>0, <1>3, FileSynced DEF SyncTemp
<1>4. ASSUME NEW h \in Helper, Publish(h) \/ RemoveTemp(h)
      PROVE  call[h].tmp = n /\ entries[n].by = h /\ pc[h] \in {"publish", "unlink"}
  <2>1. call[h].tmp \in Name /\ entries[call[h].tmp].by = h
        /\ pc[h] \in {"publish", "unlink"}
    BY <1>4 DEF Publish, RemoveTemp, OwnsTemp, Owning, IndInv
  <2>2. entries'[n] # entries[n] => n = call[h].tmp
    BY <1>0, <1>4, <2>1 DEF Publish, RemoveTemp, renameat, unlinkat
  <2> QED
    BY <2>1, <2>2
<1>5. ASSUME NEW h \in Helper,
             Begin(h) \/ OpenComponent(h) \/ MakeDir(h) \/ OpenCreated(h)
             \/ OpenRegular(h) \/ CheckExisting(h) \/ SyncDirectory(h)
      PROVE  FALSE
  BY <1>5 DEF Begin, OpenComponent, MakeDir, OpenCreated, OpenRegular, CheckExisting,
              SyncDirectory
<1>6. CASE PowerLoss \/ (\E h \in Helper : Die(h))
  BY <1>0, <1>6 DEF PowerLoss, Die
<1>7. CASE WriteBack \/ UNCHANGED vars
  BY <1>7 DEF WriteBack, vars
<1> QED
  BY <1>1, <1>2, <1>3, <1>4, <1>5, <1>6, <1>7 DEF Next

\* Helpers that race to create the directory both get through
\* (secure_state.rs:188-204).
LEMMA RefusedRightly == IndInv /\ [Next]_vars => [RefusedForCause]_vars
<1> DEFINE Cause(h) ==
        \/ crashes' # crashes
        \/ dirs[call[h].at].kind # "absent"
           /\ ~valid_directory_owner(dirs[call[h].at], call[h].at = Depth)
        \/ call[h].at > 0 /\ dirs[call[h].at - 1].owner = "root"
<1> SUFFICES ASSUME IndInv, [Next]_vars, NEW g \in Helper,
                    pc[g] \in {"walk", "mkdir", "reopen"}, pc'[g] = "idle",
                    crashes' = crashes
             PROVE  Cause(g)
  BY DEF RefusedForCause
<1> USE DEF TypeOK, file, bounds
<1>0. TypeOK /\ Walked(g)
  BY WalkedEach DEF IndInv
<1>1. ASSUME NEW h \in Helper, OpenComponent(h) \/ MakeDir(h) \/ OpenCreated(h)
      PROVE  h = g
  BY <1>0, <1>1, EnterMoves DEF OpenComponent, MakeDir, OpenCreated, Goto, Return
<1>2. ASSUME Enter(g), dirs[call[g].at].kind = "dir" PROVE Cause(g)
  <2>1. ~Goto(g, "walk") /\ ~Goto(g, "opened")
    BY <1>0 DEF Goto
  <2> QED
    BY <1>2, <2>1 DEF Enter
<1>3. CASE OpenComponent(g)
  BY <1>0, <1>2, <1>3 DEF OpenComponent, Goto, valid_directory_owner
<1>4. CASE MakeDir(g)
  BY <1>0, <1>4 DEF MakeDir, Goto, Walked
<1>5. CASE OpenCreated(g)
  BY <1>0, <1>2, <1>5 DEF OpenCreated, Walked, valid_directory_owner
<1>6. ASSUME NEW h \in Helper,
             Begin(h) \/ OpenRegular(h) \/ CheckExisting(h) \/ CreateTemp(h) \/ WriteTemp(h)
             \/ SyncTemp(h) \/ Publish(h) \/ RemoveTemp(h) \/ SyncDirectory(h)
      PROVE  FALSE
  BY <1>0, <1>6 DEF Begin, OpenRegular, CheckExisting, CreateTemp, Create, WriteTemp,
     SyncTemp, Publish, RemoveTemp, SyncDirectory, Goto, Return
<1>7. CASE PowerLoss \/ (\E h \in Helper : Die(h))
  BY <1>0, <1>7 DEF PowerLoss, Die
<1>8. CASE WriteBack \/ UNCHANGED vars
  BY <1>8 DEF WriteBack, vars
<1> QED
  BY <1>1, <1>3, <1>4, <1>5, <1>6, <1>7, <1>8 DEF Next

\* No step of a helper refuses, removes or replaces what it should not, whatever the
\* other helpers do (secure_state.rs:169-332).
THEOREM SafeSteps == Spec => StepsAreSafe
<1>1. IndInv /\ [Next]_vars => [SafeStep]_vars
  BY RefusedRightly, OwnRemoved, UnsafeKept DEF SafeStep
<1> QED
  BY <1>1, Invariance, PTL DEF Spec, StepsAreSafe

-----------------------------------------------------------------------------
(* The refinement *)

LEMMA AbstractInit == Init => Abstract!Init
<1> SUFFICES ASSUME Init PROVE Abstract!Init
  OBVIOUS
<1>1. entries[Target] \in {Absent, Unsafe} \cup {Left(v) : v \in Value}
  BY DEF Init
<1>2. entries[Target].val \in Value \cup {"absent", "unsafe"}
  BY <1>1, FileTypes
<1> QED
  BY <1>2, CallTypes DEF Init, Abstract!Init, Abstract!NoSave

\* The abstract save of a helper, by where the helper is.
Save(h) == [val |-> IF pc[h] = "idle" THEN "none" ELSE call[h].want,
            done |-> pc[h] = "syncdir"]
Saves == [h \in Helper |-> Save(h)]

\* A step that leaves the files, the results and every helper's save alone.
LEMMA Stutter ==
    ASSUME UNCHANGED <<file, got>>, \A h \in Helper : Save(h)' = Save(h)
    PROVE  UNCHANGED Abstract!vars
<1>1. [h \in Helper |-> Save(h)'] = [h \in Helper |-> Save(h)]
  OBVIOUS
<1> QED
  BY <1>1 DEF file, Save, Abstract!vars

\* A call that returns without the file having changed.
LEMMA Returned ==
    ASSUME TypeOK, NEW h \in Helper, NEW r, Return(h, r)
    PROVE  Saves' = [Saves EXCEPT ![h] = Abstract!NoSave]
<1>1. Save(h)' = Abstract!NoSave
  BY DEF TypeOK, Return, Save, Abstract!NoSave
<1>2. \A g \in Helper \ {h} : Save(g)' = Save(g)
  BY DEF TypeOK, Return, Save
<1> QED
  BY <1>1, <1>2 DEF Saves

LEMMA Failed ==
    ASSUME TypeOK, NEW h \in Helper, NEW r \in {"err", "none"}, Return(h, r),
           entries'[Target].val = entries[Target].val,
           durable'[Target].val = durable[Target].val
    PROVE  Abstract!Next
<1>1. Abstract!Fail(h)
  BY Returned DEF Return, Saves, Save, Abstract!Fail
<1> QED
  BY <1>1 DEF Abstract!Next

LEMMA AbstractStep == IndInv /\ [Next]_vars => [Abstract!Next]_(Abstract!vars)
<1> SUFFICES ASSUME IndInv, [Next]_vars PROVE Abstract!Next \/ UNCHANGED Abstract!vars
  OBVIOUS
<1> USE NameAssumption DEF NameAssumption, TypeOK, file, bounds
<1>0. TypeOK /\ NeverPartial /\ \A h \in Helper : Owns(h)
  BY OwnsEach DEF IndInv
<1>1. ASSUME NEW h \in Helper, Begin(h) PROVE Abstract!Next
  <2>1. PICK v \in Value \cup {"none"} : call' = [call EXCEPT ![h].want = v]
    BY <1>1 DEF Begin
  <2>2. Save(h) = Abstract!NoSave /\ Save(h)' = [val |-> v, done |-> FALSE]
    <3>1. call'[h].want = v /\ pc[h] = "idle" /\ pc'[h] = "walk"
      BY <1>0, <1>1, <2>1, CallWant DEF Begin
    <3>2. Save(h) = [val |-> "none", done |-> FALSE] /\ Save(h)' = [val |-> v, done |-> FALSE]
      BY <3>1 DEF Save
    <3> QED
      BY <3>2 DEF Abstract!NoSave
  <2>3. \A g \in Helper \ {h} : Save(g)' = Save(g)
    BY <1>0, <1>1, <2>1 DEF Begin, Save
  <2>4. Saves' = [Saves EXCEPT ![h] = [val |-> v, done |-> FALSE]] /\ Saves[h] = Abstract!NoSave
    BY <2>2, <2>3 DEF Saves
  <2>5. Abstract!Start(h)
    BY <1>1, <2>1, <2>4 DEF Begin, Saves, Save, Abstract!Start
  <2> QED
    BY <2>5 DEF Abstract!Next
<1>2. ASSUME NEW h \in Helper, Enter(h), UNCHANGED file, pc[h] # "idle", pc[h] # "syncdir"
      PROVE  Abstract!Next \/ UNCHANGED Abstract!vars
  <2>1. CASE Return(h, "err")
    BY <1>0, <1>2, <2>1, Failed
  <2>2. ASSUME NEW i \in 0..Depth, call' = [call EXCEPT ![h].at = i], Goto(h, "walk")
        PROVE  UNCHANGED Abstract!vars
    <3>1. call'[h].want = call[h].want
      BY <1>0, <2>2, CallAt
    <3> QED
      BY <1>0, <1>2, <2>2, <3>1, Stutter DEF Goto, Save
  <2>3. CASE UNCHANGED call /\ Goto(h, "opened")
    BY <1>0, <1>2, <2>3, Stutter DEF Goto, Save
  <2>4. /\ call[h].at \in 0..Depth /\ Depth \in Nat
        /\ call[h].at < Depth => call[h].at + 1 \in 0..Depth
    BY <1>0, CallTypes, BoundAssumption DEF BoundAssumption
  <2> QED
    BY <1>2, <2>1, <2>2, <2>3, <2>4 DEF Enter
<1>3. ASSUME NEW h \in Helper, NEW s \in Steps \ {"idle", "syncdir"}, Goto(h, s), UNCHANGED <<file, call>>,
             pc[h] # "idle", pc[h] # "syncdir"
      PROVE  UNCHANGED Abstract!vars
  BY <1>0, <1>3, Stutter DEF Goto, Save
<1>4. ASSUME NEW h \in Helper, OpenComponent(h) \/ OpenCreated(h) \/ MakeDir(h)
      PROVE  Abstract!Next \/ UNCHANGED Abstract!vars
  BY <1>0, <1>2, <1>3, <1>4, Failed DEF OpenComponent, OpenCreated, MakeDir, Steps
<1>5. ASSUME NEW h \in Helper, OpenRegular(h) PROVE Abstract!Next
  <2>1. CASE Return(h, "err")
    BY <1>0, <1>5, <2>1, Failed DEF OpenRegular
  <2>2. CASE entries[Target].val # "unsafe" /\ Return(h, entries[Target].val)
    <3>1. Saves[h] = Abstract!NoSave /\ Saves' = Saves
      <4>1. Save(h) = Abstract!NoSave
        BY <1>5 DEF OpenRegular, Save, Abstract!NoSave
      <4> QED
        BY <1>0, <2>2, <4>1, Returned DEF Saves
    <3>2. Abstract!Load(h)
      BY <1>5, <2>2, <3>1 DEF OpenRegular, Return, Saves, Save, Abstract!Load
    <3> QED
      BY <3>2 DEF Abstract!Next
  <2> QED
    BY <1>5, <2>1, <2>2 DEF OpenRegular, validate_owned_regular_file
<1>6. ASSUME NEW h \in Helper, CheckExisting(h) PROVE Abstract!Next \/ UNCHANGED Abstract!vars
  BY <1>0, <1>3, <1>6, Failed DEF CheckExisting, Steps
<1>7. ASSUME NEW h \in Helper, CreateTemp(h) PROVE Abstract!Next \/ UNCHANGED Abstract!vars
  <2>1. CASE Return(h, "err") /\ UNCHANGED entries
    BY <1>0, <1>7, <2>1, Failed DEF CreateTemp
  <2>2. ASSUME NEW n \in Name, Create(h, n) PROVE UNCHANGED Abstract!vars
    <3>1. call'[h].want = call[h].want /\ \A g \in Helper \ {h} : call'[g] = call[g]
      BY <1>0, <2>2, CallTmp DEF Create
    <3>2. \A g \in Helper : Save(g)' = Save(g)
      BY <1>0, <1>7, <2>2, <3>1 DEF CreateTemp, Create, Goto, Save
    <3>3. Saves' = Saves
      BY <3>2 DEF Saves
    <3>4. UNCHANGED <<durable, got>> /\ entries'[Target] = entries[Target]
      BY <1>0, <1>7, <2>2 DEF CreateTemp, Create, Goto
    <3> QED
      BY <3>3, <3>4 DEF Saves, Save, Abstract!vars
  <2>3. CASE call' = [call EXCEPT ![h].tries = @ + 1] /\ UNCHANGED <<pc, got, entries>>
    <3>1. call'[h].want = call[h].want /\ \A g \in Helper \ {h} : call'[g] = call[g]
      BY <1>0, <2>3, CallTries
    <3> QED
      BY <1>7, <2>3, <3>1, Stutter DEF CreateTemp, Save
  <2> QED
    BY <1>7, <2>1, <2>2, <2>3 DEF CreateTemp, random_temp_name
<1>8. ASSUME NEW h \in Helper, WriteTemp(h) \/ SyncTemp(h) PROVE UNCHANGED Abstract!vars
  <2>1. call[h].tmp # Target
    BY <1>0, <1>8 DEF WriteTemp, SyncTemp, Owns, Owning
  <2>2. UNCHANGED <<durable, call, got>> /\ entries'[Target] = entries[Target]
    BY <1>0, <1>8, <2>1 DEF WriteTemp, SyncTemp, Goto
  <2>3. \A g \in Helper : Save(g)' = Save(g)
    BY <1>0, <1>8, <2>2 DEF WriteTemp, SyncTemp, Goto, Save
  <2>4. Saves' = Saves
    BY <2>3 DEF Saves
  <2> QED
    BY <2>2, <2>4 DEF Saves, Save, Abstract!vars
<1>9. ASSUME NEW h \in Helper, Publish(h) PROVE Abstract!Next \/ UNCHANGED Abstract!vars
  <2>1. CASE UNCHANGED entries /\ Goto(h, "unlink")
    BY <1>0, <1>3, <1>9, <2>1 DEF Publish, Steps
  <2>2. CASE renameat(call[h].tmp) /\ Goto(h, "syncdir")
    <3>1. /\ call[h].tmp \in Name /\ call[h].want \in Value
          /\ entries[call[h].tmp].val = call[h].want /\ entries[Target].val # "unsafe"
      BY <1>0, <1>9 DEF Publish, Owns, Saving, Owning
    <3>2. entries'[Target].val = call[h].want
      BY <1>0, <2>2, <3>1 DEF renameat
    <3>3. Save(h).val = call[h].want /\ ~Save(h).done /\ Save(h)' = [val |-> call[h].want, done |-> TRUE]
      <4>1. pc[h] = "publish" /\ pc'[h] = "syncdir" /\ call' = call
        BY <1>0, <1>9, <2>2 DEF Publish, Goto
      <4>2. Save(h) = [val |-> call[h].want, done |-> FALSE]
        BY <4>1 DEF Save
      <4>3. Save(h)' = [val |-> call[h].want, done |-> TRUE]
        BY <4>1 DEF Save
      <4> QED
        BY <4>2, <4>3
    <3>4. \A g \in Helper \ {h} : Save(g)' = Save(g)
      BY <1>0, <1>9, <2>2 DEF Publish, Goto, Save
    <3>5. Saves' = [Saves EXCEPT ![h] = [val |-> Saves[h].val, done |-> TRUE]]
      BY <3>3, <3>4 DEF Saves
    <3>6. Abstract!PutInForce(h)
      BY <1>9, <2>2, <3>1, <3>2, <3>3, <3>5 DEF Publish, Goto, Saves, Save, Abstract!PutInForce
    <3> QED
      BY <3>6 DEF Abstract!Next
  <2> QED
    BY <1>9, <2>1, <2>2 DEF Publish
<1>10. ASSUME NEW h \in Helper, RemoveTemp(h) PROVE Abstract!Next
  <2>1. entries'[Target] = entries[Target]
    BY <1>0, <1>10 DEF RemoveTemp, unlinkat, Owns, Owning
  <2> QED
    BY <1>0, <1>10, <2>1, Failed DEF RemoveTemp
<1>11. ASSUME NEW h \in Helper, SyncDirectory(h) PROVE Abstract!Next
  <2>1. CASE Return(h, "err") /\ UNCHANGED durable
    BY <1>0, <1>11, <2>1, Failed DEF SyncDirectory
  <2>2. CASE durable' = entries /\ Return(h, "ok")
    <3>1. Saves[h].done
      BY <1>11 DEF SyncDirectory, Saves, Save
    <3>2. Abstract!Acknowledge(h)
      BY <1>0, <1>11, <2>2, <3>1, Returned
         DEF SyncDirectory, Return, Saves, Save, Abstract!Acknowledge
    <3> QED
      BY <3>2 DEF Abstract!Next
  <2> QED
    BY <1>11, <2>1, <2>2 DEF SyncDirectory
<1>12. ASSUME NEW h \in Helper, Die(h) PROVE Abstract!Next
  BY <1>0, <1>12, Failed DEF Die
<1>13. CASE WriteBack
  <2>1. Abstract!Settle
    BY <1>13 DEF WriteBack, Abstract!Settle
  <2> QED
    BY <2>1 DEF Abstract!Next
<1>14. CASE PowerLoss
  <2>1. entries'[Target].val = durable[Target].val
    BY <1>0, <1>14, FileSynced DEF PowerLoss, NeverPartial
  <2>2. \A h \in Helper : Save(h)' = Abstract!NoSave
    BY <1>14 DEF PowerLoss, Save, Abstract!NoSave
  <2>3. Saves' = [h \in Helper |-> Abstract!NoSave]
    BY <2>2 DEF Saves
  <2>4. Abstract!PowerLoss
    BY <1>14, <2>1, <2>3 DEF PowerLoss, Saves, Save, Abstract!PowerLoss
  <2> QED
    BY <2>4 DEF Abstract!Next
<1>15. CASE UNCHANGED vars
  BY <1>15 DEF vars, Abstract!vars
<1> QED
  BY <1>1, <1>4, <1>5, <1>6, <1>7, <1>8, <1>9, <1>10, <1>11, <1>12, <1>13, <1>14, <1>15
     DEF Next

\* Whatever helpers race, die or lose power, the file behaves as the atomic
\* register of AtomicFile.tla (secure_state.rs:263-332).
THEOREM Refinement == Spec => ImplementsAtomicFile
  BY AbstractInit, AbstractStep, Invariance, PTL DEF Spec, ImplementsAtomicFile, Abstract!Spec

=============================================================================
