------------------------ MODULE PanelParts_proofs ------------------------
(***************************************************************************)
(* Proofs about PinSettings, for any PINs, any number of changes and of    *)
(* faults, and whatever set_pin answers; and about the registry of peers,  *)
(* for any devices, sizes and rates.                                       *)
(***************************************************************************)
EXTENDS PanelParts, FiniteSetTheorems, TLAPS

Content == Document \cup {"absent", "unsafe"}
Call == saving["helper"]
Ready == {"serving", "saving", "applying", "restoring"}   \* a server runs

\* The types, and the call on the file that belongs to each stage.
StageInv ==
  /\ value \in Content /\ stable \in Content
  /\ stage \in Stages /\ {current, next, live} \subseteq Setting
  /\ cmds \in Seq(Setting) /\ evts \in Seq(Events)
  /\ panel \in [ready: BOOLEAN, enabled: BOOLEAN, updating: BOOLEAN, invalid: BOOLEAN]
  /\ promised \in Setting \cup {"none"} /\ asked \subseteq Setting
  /\ saving \in [{"helper"} -> [val : Document \cup {"none"}, done : BOOLEAN]]
  /\ stage \in {"off", "loading", "serving", "applying"} => ~Call.done /\ Call.val = "none"
  /\ stage = "saving" => Call.val = next /\ (Call.done => value = next)
  /\ stage = "restoring" => Call.val = current
  /\ stage = "applying" => value = next /\ stable = next
  /\ stage \in Ready => current = live

\* A promise stands only while no other change is under way; it is then what the file
\* holds, also after a power loss, and what the server asks for.
PromiseInv ==
  promised # "none" =>
    /\ cmds = <<>> /\ stage \in {"off", "loading", "serving"}
    /\ value = promised /\ stable = promised
    /\ stage = "serving" => live = promised

\* Every setting comes from the user or was found in the file.
AskedInv ==
  /\ Default(value) \in Setting => Default(value) \in asked
  /\ Default(stable) \in Setting => Default(stable) \in asked
  /\ stage \in Ready => live \in asked
  /\ stage \in {"saving", "applying"} => next \in asked
  /\ \A i \in DOMAIN cmds : cmds[i] \in asked

\* What the panel shows once it has read its events is what the server does.
Shows(e) == e \in {"on", "off"}
ShownInv ==
  stage \in Ready =>
    \/ \E i \in DOMAIN evts :
          /\ Shows(evts[i]) /\ evts[i] = state_event(live)
          /\ \A j \in DOMAIN evts : j > i => ~Shows(evts[j])
    \/ /\ \A i \in DOMAIN evts : ~Shows(evts[i])
       /\ panel.enabled = (live # "off")

IndInv == StageInv /\ PromiseInv /\ AskedInv /\ ShownInv

-----------------------------------------------------------------------------
LEMMA InitInv == Init => IndInv
<1>. SUFFICES ASSUME Init PROVE IndInv
  OBVIOUS
<1>. USE PinAssumption DEF Init, File!Init, File!NoSave
<1>1. StageInv
  BY DEF StageInv, Content, Call, Document, Setting, Stages, NewPanel, Ready
<1>2. PromiseInv
  BY DEF PromiseInv
<1>3. AskedInv
  BY DEF AskedInv, Ready, Setting
<1>4. ShownInv
  BY DEF ShownInv, Ready
<1>. QED
  BY <1>1, <1>2, <1>3, <1>4 DEF IndInv

-----------------------------------------------------------------------------
(* The stages and the file *)

LEMMA EventTypes ==
  /\ \A s : state_event(s) \in Events
  /\ \A e \in Events : <<e>> \in Seq(Events) /\ \A f \in Events : <<e, f>> \in Seq(Events)
  /\ \A p, q \in Seq(Events) : p \o q \in Seq(Events)
BY DEF state_event, Events

\* A call that returns leaves no call, and what was in force durable if it succeeded.
LEMMA CallEnds ==
  ASSUME StageInv, File!Acknowledge("helper") \/ FileError
  PROVE  /\ saving' \in [{"helper"} -> [val : Document \cup {"none"}, done : BOOLEAN]]
         /\ ~Call'.done /\ Call'.val = "none" /\ value' = value /\ stable' \in Content
         /\ File!Acknowledge("helper") => Call.done /\ stable' = value
<1>1. CASE File!Acknowledge("helper")
  BY <1>1 DEF File!Acknowledge, StageInv, Call, File!NoSave
<1>2. CASE FileError
  BY <1>2 DEF FileError, File!Fail, File!Acknowledge, StageInv, Call, File!NoSave
<1>. QED
  BY <1>1, <1>2

LEMMA StageKept ==
  ASSUME StageInv, [Next]_vars
  PROVE  StageInv'
<1>. USE PinAssumption DEF StageInv, Content, Call, Document, Setting, Stages, Ready,
         File!NoSave
<1>1. CASE Launch
  BY <1>1 DEF Launch, FileCall, File!Start
<1>2. CASE Load
  <2>1. evts' \in Seq(Events)
    <3>1. CASE emit(<<"ready", state_event(current')>>)
      BY <3>1, EventTypes DEF emit, Events
    <3>2. CASE emit(<<"exit">>)
      BY <3>2, EventTypes DEF emit, Events
    <3>. QED
      BY <1>2, <3>1, <3>2 DEF Load
  <2>. QED
    BY <1>2, <2>1 DEF Load, File!Load, validate, Default
<1>3. CASE RefuseSettings
  <2>1. evts' \in Seq(Events)
    BY <1>3, EventTypes DEF RefuseSettings, emit, Events
  <2>. QED
    BY <1>3, <2>1 DEF RefuseSettings, FileError, File!Fail, File!Load
<1>4. CASE UpdatePin
  <2>1. Head(cmds) \in Setting /\ Tail(cmds) \in Seq(Setting)
    BY <1>4 DEF UpdatePin
  <2>. QED
    BY <1>4, <2>1 DEF UpdatePin, FileCall, File!Start
<1>5. CASE Rename
  BY <1>5 DEF Rename, File!PutInForce
<1>6. CASE Saved
  <2>1. evts' \in Seq(Events)
    BY <1>6, EventTypes DEF Saved, emit, Events
  <2>. QED
    BY <1>6, <2>1, CallEnds DEF Saved
<1>7. CASE Apply
  <2>1. evts' \in Seq(Events)
    <3>1. CASE emit(<<state_event(next)>>)
      BY <3>1, EventTypes DEF emit, Events
    <3>. QED
      BY <1>7, <3>1 DEF Apply
  <2>2. CASE UNCHANGED register
    BY <1>7, <2>1, <2>2 DEF Apply, register, Promise, FileCall, File!Start
  <2>3. CASE FileCall(current)
    <3>1. Call'.val = current /\ value' = value /\ stable' = stable
          /\ saving' \in [{"helper"} -> [val : Document \cup {"none"}, done : BOOLEAN]]
      BY <2>3 DEF FileCall, File!Start
    <3>. QED
      BY <1>7, <2>1, <2>3, <3>1 DEF Apply, register
  <2>. QED
    BY <1>7, <2>2, <2>3 DEF Apply
<1>8. CASE Restored
  <2>1. evts' \in Seq(Events)
    BY <1>8, EventTypes DEF Restored, emit, Events
  <2>. QED
    BY <1>8, <2>1, CallEnds DEF Restored
<1>9. CASE Exit
  <2>1. evts' \in Seq(Events)
    BY <1>9, EventTypes DEF Exit, emit, Events
  <2>. QED
    BY <1>9, <2>1 DEF Exit, File!Fail
<1>10. CASE PowerLoss
  BY <1>10 DEF PowerLoss, File!PowerLoss, NewPanel
<1>11. CASE Settle
  BY <1>11 DEF Settle, File!Settle
<1>12. CASE Submit
  <2>1. cmds' \in Seq(Setting) /\ asked' \subseteq Setting
    BY <1>12 DEF Submit
  <2>2. panel' \in [ready: BOOLEAN, enabled: BOOLEAN, updating: BOOLEAN, invalid: BOOLEAN]
    BY <1>12 DEF Submit
  <2>. QED
    BY <1>12, <2>1, <2>2 DEF Submit, register
<1>13. CASE HandleEvent
  <2>1. Head(evts) \in Events /\ Tail(evts) \in Seq(Events)
    BY <1>13 DEF HandleEvent
  <2>2. panel' \in [ready: BOOLEAN, enabled: BOOLEAN, updating: BOOLEAN, invalid: BOOLEAN]
    BY <1>13, <2>1 DEF HandleEvent, Events
  <2>3. evts' = Tail(evts) /\ UNCHANGED <<register, stage, current, next, live, cmds, promised, asked>>
    BY <1>13 DEF HandleEvent
  <2>. QED
    BY <2>1, <2>2, <2>3 DEF register
<1>14. CASE UNCHANGED vars
  BY <1>14 DEF vars, register
<1>. QED
  BY <1>1, <1>2, <1>3, <1>4, <1>5, <1>6, <1>7, <1>8, <1>9, <1>10, <1>11, <1>12, <1>13,
     <1>14 DEF Next, Helper

-----------------------------------------------------------------------------
(* The promise *)

LEMMA PromiseStands ==
  ASSUME StageInv, PromiseInv, [Next]_vars
  PROVE  PromiseInv'
<1>. USE PinAssumption DEF StageInv, PromiseInv, Setting
<1>1. CASE Launch
  BY <1>1 DEF Launch, FileCall, File!Start
<1>2. CASE Load
  BY <1>2 DEF Load, File!Load, Default
<1>3. CASE RefuseSettings
  BY <1>3 DEF RefuseSettings, FileError, File!Fail, File!Load
<1>4. CASE UpdatePin
  BY <1>4 DEF UpdatePin
<1>5. CASE Rename
  BY <1>5 DEF Rename
<1>6. CASE Saved
  BY <1>6 DEF Saved
<1>7. CASE Apply
  BY <1>7 DEF Apply, Promise, register
<1>8. CASE Restored
  BY <1>8 DEF Restored
<1>9. CASE Exit
  BY <1>9 DEF Exit, File!Fail
<1>10. CASE PowerLoss
  BY <1>10 DEF PowerLoss, File!PowerLoss
<1>11. CASE Settle
  BY <1>11 DEF Settle, File!Settle
<1>12. CASE Submit
  BY <1>12 DEF Submit
<1>13. CASE HandleEvent
  BY <1>13 DEF HandleEvent, register
<1>14. CASE UNCHANGED vars
  BY <1>14 DEF vars, register
<1>. QED
  BY <1>1, <1>2, <1>3, <1>4, <1>5, <1>6, <1>7, <1>8, <1>9, <1>10, <1>11, <1>12, <1>13,
     <1>14 DEF Next, Helper

-----------------------------------------------------------------------------
(* What was asked for *)

LEMMA AskedKept ==
  ASSUME StageInv, AskedInv, [Next]_vars
  PROVE  AskedInv'
<1>. USE PinAssumption DEF StageInv, AskedInv, Ready, Default, Setting, Stages
<1>1. CASE Launch
  BY <1>1 DEF Launch, FileCall, File!Start
<1>2. CASE Load
  BY <1>2 DEF Load, File!Load, validate
<1>3. CASE RefuseSettings
  BY <1>3 DEF RefuseSettings, FileError, File!Fail, File!Load
<1>4. CASE UpdatePin
  <2>1. \A i \in DOMAIN cmds' : cmds'[i] \in asked
    BY <1>4 DEF UpdatePin
  <2>2. next' \in asked
    BY <1>4 DEF UpdatePin
  <2>. QED
    BY <1>4, <2>1, <2>2 DEF UpdatePin, FileCall, File!Start
<1>5. CASE Rename
  BY <1>5 DEF Rename, File!PutInForce, Call
<1>6. CASE Saved
  BY <1>6 DEF Saved, FileError, File!Fail, File!Acknowledge
<1>7. CASE Apply
  BY <1>7 DEF Apply, FileCall, File!Start, register
<1>8. CASE Restored
  BY <1>8 DEF Restored, FileError, File!Fail, File!Acknowledge
<1>9. CASE Exit
  BY <1>9 DEF Exit, File!Fail
<1>10. CASE PowerLoss
  BY <1>10 DEF PowerLoss, File!PowerLoss
<1>11. CASE Settle
  BY <1>11 DEF Settle, File!Settle
<1>12. CASE Submit
  BY <1>12 DEF Submit, register
<1>13. CASE HandleEvent
  BY <1>13 DEF HandleEvent, register
<1>14. CASE UNCHANGED vars
  BY <1>14 DEF vars, register
<1>. QED
  BY <1>1, <1>2, <1>3, <1>4, <1>5, <1>6, <1>7, <1>8, <1>9, <1>10, <1>11, <1>12, <1>13,
     <1>14 DEF Next, Helper

-----------------------------------------------------------------------------
(* What the panel shows *)

\* An event that shows nothing, at the end of the pipe, changes nothing that is shown.
LEMMA OtherEvent ==
  ASSUME StageInv, ShownInv, NEW e \in Events, ~Shows(e), evts' = evts \o <<e>>,
         stage' \in Ready => stage \in Ready, live' = live, panel' = panel
  PROVE  ShownInv'
<1>. SUFFICES ASSUME stage' \in Ready
              PROVE  ShownInv'
  BY DEF ShownInv
<1>1. evts \in Seq(Events) /\ Len(evts') = Len(evts) + 1 /\ evts'[Len(evts) + 1] = e
      /\ \A i \in 1..Len(evts) : evts'[i] = evts[i]
  BY DEF StageInv
<1>2. DOMAIN evts = 1..Len(evts) /\ DOMAIN evts' = 1..(Len(evts) + 1) /\ Len(evts) \in Nat
  BY <1>1 DEF StageInv
<1>. QED
  BY <1>1, <1>2 DEF ShownInv, Shows, state_event

\* The event of a change, at the end of the pipe, will show it.
LEMMA StateEvent ==
  ASSUME NEW q \in Seq(Events), evts' = Append(q, state_event(live'))
  PROVE  ShownInv'
<1>1. state_event(live') \in Events
  BY EventTypes
<1>2. DOMAIN evts' = 1..(Len(q) + 1) /\ Len(q) \in Nat /\ evts'[Len(q) + 1] = state_event(live')
  BY <1>1
<1>. QED
  BY <1>1, <1>2 DEF ShownInv, Shows, state_event

LEMMA ShownKept ==
  ASSUME StageInv, ShownInv, [Next]_vars
  PROVE  ShownInv'
<1>. USE DEF Events, Shows
<1>1. CASE Launch
  BY <1>1 DEF Launch, ShownInv, Ready
<1>2. CASE Load
  <2>1. CASE stage' = "off"
    BY <2>1 DEF ShownInv, Ready
  <2>2. CASE stage' # "off"
    <3>1. evts' = evts \o <<"ready", state_event(live')>> /\ state_event(live') \in Events
      BY <1>2, <2>2, EventTypes DEF Load, emit
    <3>2. Append(evts, "ready") \in Seq(Events)
          /\ evts' = Append(Append(evts, "ready"), state_event(live'))
      BY <3>1 DEF StageInv
    <3>. QED
      BY <3>2, StateEvent
  <2>. QED
    BY <2>1, <2>2
<1>3. CASE RefuseSettings
  BY <1>3 DEF RefuseSettings, ShownInv, Ready
<1>4. CASE UpdatePin
  BY <1>4 DEF UpdatePin, ShownInv, Ready, state_event
<1>5. CASE Rename
  BY <1>5 DEF Rename, ShownInv, Ready, state_event
<1>6. CASE Saved
  <2>1. CASE UNCHANGED evts
    BY <1>6, <2>1 DEF Saved, ShownInv, Ready, state_event
  <2>2. CASE emit(<<"failed">>)
    BY <1>6, <2>2, OtherEvent DEF Saved, emit, Ready
  <2>. QED
    BY <1>6, <2>1, <2>2 DEF Saved
<1>7. CASE Apply
  <2>1. CASE emit(<<state_event(next)>>) /\ live' = next
    <3>1. evts' = evts \o <<state_event(live')>> /\ state_event(live') \in Events
      BY <2>1, EventTypes DEF emit, state_event
    <3>2. evts \in Seq(Events) /\ evts' = Append(evts, state_event(live'))
      BY <3>1 DEF StageInv
    <3>. QED
      BY <3>2, StateEvent
  <2>2. CASE UNCHANGED <<live, evts>>
    BY <1>7, <2>2 DEF Apply, ShownInv, Ready, state_event
  <2>. QED
    BY <1>7, <2>1, <2>2 DEF Apply
<1>8. CASE Restored
  BY <1>8, OtherEvent DEF Restored, emit, Ready
<1>9. CASE Exit
  BY <1>9 DEF Exit, ShownInv, Ready
<1>10. CASE PowerLoss
  BY <1>10 DEF PowerLoss, ShownInv, Ready
<1>11. CASE Settle
  BY <1>11 DEF Settle, ShownInv, state_event
<1>12. CASE Submit
  BY <1>12 DEF Submit, ShownInv, state_event, StageInv
<1>13. CASE HandleEvent
  <2>. SUFFICES ASSUME stage \in Ready
                PROVE  ShownInv'
    BY <1>13 DEF HandleEvent, ShownInv
  <2>. DEFINE e == Head(evts)
  <2>1. evts \in Seq(Events) /\ evts # <<>> /\ evts' = Tail(evts) /\ e = evts[1]
        /\ live' = live /\ stage' = stage
    BY <1>13 DEF HandleEvent, StageInv
  <2>2. Len(evts) \in Nat /\ Len(evts) >= 1 /\ DOMAIN evts = 1..Len(evts)
        /\ DOMAIN evts' = 1..(Len(evts) - 1)
        /\ \A i \in 1..(Len(evts) - 1) : evts'[i] = evts[i + 1]
    BY <2>1
  <2>3. panel'.enabled = IF Shows(e) THEN e = "on" ELSE panel.enabled
    BY <1>13, <2>1, <2>2 DEF HandleEvent, StageInv
  <2>4. ASSUME NEW i \in DOMAIN evts, Shows(evts[i]), evts[i] = state_event(live),
               \A j \in DOMAIN evts : j > i => ~Shows(evts[j])
        PROVE  ShownInv'
    <3>1. CASE i = 1
      <4>1. \A j \in DOMAIN evts' : ~Shows(evts'[j])
        BY <2>2, <2>4, <3>1
      <4>2. panel'.enabled = (live' # "off")
        BY <2>1, <2>3, <2>4, <3>1 DEF state_event
      <4>. QED
        BY <4>1, <4>2 DEF ShownInv
    <3>2. CASE i # 1
      <4>1. i - 1 \in DOMAIN evts' /\ evts'[i - 1] = evts[i]
        BY <2>2, <3>2
      <4>2. \A j \in DOMAIN evts' : j > i - 1 => ~Shows(evts'[j])
        BY <2>2, <2>4
      <4>. QED
        BY <2>1, <2>4, <4>1, <4>2 DEF ShownInv, state_event
    <3>. QED
      BY <3>1, <3>2
  <2>5. CASE (\A i \in DOMAIN evts : ~Shows(evts[i])) /\ panel.enabled = (live # "off")
    <3>1. \A j \in DOMAIN evts' : ~Shows(evts'[j])
      BY <2>2, <2>5
    <3>2. panel'.enabled = (live' # "off")
      BY <2>1, <2>2, <2>3, <2>5
    <3>. QED
      BY <3>1, <3>2 DEF ShownInv
  <2>. QED
    BY <2>4, <2>5 DEF ShownInv
<1>14. CASE UNCHANGED vars
  BY <1>14 DEF vars, ShownInv, state_event
<1>. QED
  BY <1>1, <1>2, <1>3, <1>4, <1>5, <1>6, <1>7, <1>8, <1>9, <1>10, <1>11, <1>12, <1>13,
     <1>14 DEF Next, Helper

-----------------------------------------------------------------------------
(* Theorems *)

\* The inductive invariant holds of every behaviour of the helper, the file and the panel.
THEOREM Invariance == Spec => []IndInv
<1>1. IndInv /\ [Next]_vars => IndInv'
  BY StageKept, PromiseStands, AskedKept, ShownKept DEF IndInv
<1>. QED
  BY InitInv, <1>1, PTL DEF Spec

\* The settings in the helper, in the pipes and in the panel keep their types.
THEOREM Types == Spec => []TypeOK
<1>1. IndInv => TypeOK
  BY DEF IndInv, StageInv, TypeOK
<1>. QED
  BY Invariance, <1>1, PTL

\* A change of the PIN that was acknowledged is what every later server asks for
\* (update_incoming_pin, settings.rs save).
THEOREM Promises == Spec => []PromiseKept
<1>1. IndInv => PromiseKept
  BY DEF IndInv, PromiseInv, PromiseKept
<1>. QED
  BY Invariance, <1>1, PTL

\* A server only asks for what the user asked for or what was found in the file
\* (settings.rs load).
THEOREM Asked == Spec => []OnlyWhatWasAsked
<1>1. IndInv => OnlyWhatWasAsked
  BY DEF IndInv, StageInv, AskedInv, OnlyWhatWasAsked, Ready, Stages
<1>. QED
  BY Invariance, <1>1, PTL

\* A panel that has read its events and waits for nothing is right about the server
\* (handleEvent, Service.qml).
THEOREM Shown == Spec => []PanelIsRight
<1>1. IndInv => PanelIsRight
  BY DEF IndInv, ShownInv, PanelIsRight, Ready
<1>. QED
  BY Invariance, <1>1, PTL

\* A change ends in force and shown, or undone and reported (update_incoming_pin).
THEOREM Failures == Spec => FailureKeepsGate
<1>1. IndInv /\ [Next]_vars =>
        [stage' = "serving" /\ stage \in {"saving", "applying", "restoring"} =>
           \/ evts' = Append(evts, state_event(next)) /\ live' = next /\ value = next
           \/ evts' = Append(evts, "failed") /\ live' = live /\ current' = live]_vars
  <2>. SUFFICES ASSUME IndInv, Next, stage' = "serving",
                       stage \in {"saving", "applying", "restoring"}
                PROVE  \/ evts' = Append(evts, state_event(next)) /\ live' = next /\ value = next
                       \/ evts' = Append(evts, "failed") /\ live' = live /\ current' = live
    OBVIOUS
  <2>1. evts \in Seq(Events) /\ state_event(next) \in Events /\ current = live
    BY DEF IndInv, StageInv, state_event, Events, Ready
  <2>2. CASE Saved
    BY <2>1, <2>2 DEF Saved, emit, Events
  <2>3. CASE Apply
    BY <2>1, <2>3 DEF Apply, emit, IndInv, StageInv
  <2>4. CASE Restored
    BY <2>1, <2>4 DEF Restored, emit, Events
  <2>. QED
    BY <2>2, <2>3, <2>4 DEF Next, Helper, Launch, Load, RefuseSettings, UpdatePin, Rename,
       Exit, PowerLoss, Settle, Submit, HandleEvent
<1>. QED
  BY Invariance, <1>1, PTL DEF Spec, FailureKeepsGate


-----------------------------------------------------------------------------
(* The registry of peers *)

\* A set that the registry, or the panel's list, has room for.
Fits(S) == IsFiniteSet(S) /\ Cardinality(S) <= MaxPeers

\* The registry has an entry at most of each device, and not too many.
Entry == [dev : Reg!Device, age : 0..(Ttl + 1)]
RegistryInv ==
  /\ peers \in [Fingerprint -> Entry \cup {NoPeer}]
  /\ \A f \in Fingerprint : peers[f] # NoPeer => peers[f].dev.fingerprint = f
  /\ Fits(Reg!Held(peers))

\* So has the panel's list, and what is printed is a device or a list that fits.
Printable == [kind : {"nothing", "device", "snapshot"}, rows : [Fingerprint -> Reg!Device \cup {NoPeer}]]
Prints(p) ==
  IF p.kind = "snapshot" THEN Fits(Reg!Held(p.rows))
  ELSE \E g : \A f \in Fingerprint : f # g => p.rows[f] = NoPeer
ListInv ==
  /\ shown \in [Fingerprint -> Reg!Device \cup {NoPeer}] /\ Fits(Reg!Held(shown))
  /\ printing \in [Reg!Thread -> Printable]
  /\ \A t \in Reg!Thread : Prints(printing[t])

\* The gate remembers as many fingerprints as its order has, each once.
Remembers(q, k) ==
  /\ q \in Seq(Fingerprint)
  /\ \A i, j \in 1..Len(q) : q[i] = q[j] => i = j
  /\ \A f \in k : \E i \in 1..Len(q) : q[i] = f
  /\ \A i \in 1..Len(q) : q[i] \in k
  /\ IsFiniteSet(k) /\ Cardinality(k) = Len(q)
OrderInv == Remembers(https_order, known) /\ Len(https_order) <= MaxFingerprints

\* The tokens left make up for the events sent beyond the rate.
RateInv ==
  /\ tokens \in 0..Burst /\ since \in Nat /\ excess \in Nat /\ snapshot_pending \in BOOLEAN
  /\ excess + Reg!Refilled <= Burst

DevicesInv == RegistryInv /\ ListInv /\ OrderInv /\ RateInv

\* Of two fingerprints that are remembered, the one behind was remembered after the other;
\* of one that was forgotten, as many were as there is room for; and the peer of one that is
\* remembered is an HTTPS one.
Behind(q, a) == \A i, j \in 1..Len(q) : i < j => q[j] \in a[q[i]]
MemoryInv ==
  /\ known \subseteq seen /\ seen \subseteq Fingerprint
  /\ after \in [Fingerprint -> SUBSET Fingerprint]
  /\ \A f \in Fingerprint : IsFiniteSet(after[f])
  /\ Behind(https_order, after)
  /\ \A f \in seen \ known : Cardinality(after[f]) >= MaxFingerprints
  /\ \A f \in known : peers[f] # NoPeer => peers[f].dev.protocol = "https"

LEMMA Sizes ==
  /\ MaxPeers \in Nat \ {0} /\ MaxFingerprints \in Nat \ {0} /\ Burst \in Nat \ {0}
  /\ Rate \in Nat \ {0} /\ Ttl \in Nat
BY InstancesAssumption DEF Reg!SizesOK

LEMMA SameCount == \A S : Reg!Cardinality(S) = Cardinality(S)
BY Zenon DEF Reg!Cardinality, Cardinality

LEMMA Smaller ==
  ASSUME NEW m \in Nat, NEW n \in Nat
  PROVE  /\ Reg!Min({m, n}) \in {m, n} /\ Reg!Min({m, n}) <= m /\ Reg!Min({m, n}) <= n
<1>1. \E x \in {m, n} : \A y \in {m, n} : x <= y
  <2>1. CASE m <= n
    BY <2>1
  <2>2. CASE n <= m
    BY <2>2
  <2>. QED
    BY <2>1, <2>2
<1>. QED
  BY <1>1 DEF Reg!Min

LEMMA Parts ==
  ASSUME NEW S, NEW T \in SUBSET S, Fits(S)
  PROVE  Fits(T) /\ Cardinality(T) <= Cardinality(S) /\ Cardinality(S) \in Nat /\ Cardinality(T) \in Nat
BY FS_Subset, FS_CardinalityType, Sizes DEF Fits

\* Peers only leave the registry as they expire.
LEMMA LiveFits ==
  ASSUME RegistryInv
  PROVE  /\ Reg!Live \in [Fingerprint -> Entry \cup {NoPeer}]
         /\ \A f \in Fingerprint : Reg!Live[f] \in {peers[f], NoPeer}
         /\ Fits(Reg!Held(Reg!Live)) /\ Fits(Reg!Held(Reg!Rows(Reg!Live)))
         /\ Reg!Rows(Reg!Live) \in [Fingerprint -> Reg!Device \cup {NoPeer}]
<1>1. \A f \in Fingerprint : peers[f] \in Entry \cup {NoPeer}
  BY DEF RegistryInv
<1>2. \A f \in Fingerprint : Reg!Live[f] \in {peers[f], NoPeer} /\ Reg!Live[f] \in Entry \cup {NoPeer}
  BY <1>1 DEF Reg!Live
<1>3. Reg!Live \in [Fingerprint -> Entry \cup {NoPeer}]
  BY <1>1 DEF Reg!Live
<1>4. Reg!Held(Reg!Live) \in SUBSET Reg!Held(peers)
  BY <1>2 DEF Reg!Held
<1>5. \A f \in Fingerprint :
        /\ Reg!Rows(Reg!Live)[f] \in Reg!Device \cup {NoPeer}
        /\ Reg!Live[f] = NoPeer => Reg!Rows(Reg!Live)[f] = NoPeer
  BY <1>2 DEF Reg!Rows, Entry
<1>6. Reg!Held(Reg!Rows(Reg!Live)) \in SUBSET Reg!Held(peers)
  BY <1>4, <1>5 DEF Reg!Held
<1>7. Reg!Rows(Reg!Live) \in [Fingerprint -> Reg!Device \cup {NoPeer}]
  BY <1>5 DEF Reg!Rows
<1>. QED
  BY <1>2, <1>3, <1>4, <1>6, <1>7, Parts DEF RegistryInv

\* A snapshot is taken of the peers that have not expired.
LEMMA SnapshotFits ==
  ASSUME RegistryInv, ListInv, NEW emits, Reg!expire_and_snapshot(emits), UNCHANGED shown
  PROVE  RegistryInv' /\ ListInv'
<1>1. peers' = Reg!Live /\ UNCHANGED shown
  BY DEF Reg!expire_and_snapshot
<1>2. RegistryInv'
  <2>1. \A f \in Fingerprint : Reg!Live[f] # NoPeer => Reg!Live[f].dev.fingerprint = f
    BY LiveFits DEF RegistryInv
  <2>. QED
    BY <1>1, <2>1, LiveFits DEF RegistryInv
<1>3. ListInv'
  <2>. DEFINE p == [kind |-> "snapshot", rows |-> Reg!Rows(Reg!Live)]
  <2>1. p \in Printable /\ Prints(p)
    BY LiveFits DEF Printable, Prints
  <2>2. printing' = IF emits THEN [printing EXCEPT !["loop"] = p] ELSE printing
    BY DEF Reg!expire_and_snapshot
  <2>. HIDE DEF p
  <2>3. printing' \in [Reg!Thread -> Printable] /\ \A t \in Reg!Thread : Prints(printing'[t])
    BY <2>1, <2>2 DEF ListInv, Reg!Thread
  <2>4. \A t \in Reg!Thread : Prints(printing[t])' <=> Prints(printing'[t])
    BY DEF Prints, Fits, Reg!Held
  <2>. QED
    BY <1>1, <2>3, <2>4 DEF ListInv, Fits, Reg!Held
<1>. QED
  BY <1>2, <1>3

\* A new fingerprint goes behind those that are remembered; the oldest can be forgotten.
LEMMA OneMore ==
  ASSUME NEW q, NEW k, Remembers(q, k), NEW f \in Fingerprint, f \notin k
  PROVE  Remembers(Append(q, f), k \cup {f}) /\ Len(Append(q, f)) = Len(q) + 1 /\ Len(q) \in Nat
<1>. DEFINE n == Len(q)
            order == Append(q, f)
<1>1. q \in Seq(Fingerprint) /\ n \in Nat
  BY DEF Remembers
<1>2. /\ order \in Seq(Fingerprint) /\ Len(order) = n + 1 /\ order[n + 1] = f
      /\ \A i \in 1..n : order[i] = q[i]
  BY <1>1
<1>3. /\ \A i \in 1..n : q[i] \in k
      /\ \A i, j \in 1..n : q[i] = q[j] => i = j
      /\ \A g \in k : \E i \in 1..n : q[i] = g
      /\ IsFiniteSet(k) /\ Cardinality(k) = n
  BY DEF Remembers
<1>. HIDE DEF order, n
<1>4. /\ \A i \in 1..(n + 1) : i \in 1..n \/ i = n + 1
      /\ \A i \in 1..n : i \in 1..(n + 1)
      /\ n + 1 \in 1..(n + 1)
  BY <1>1
<1>5. \A i, j \in 1..(n + 1) : order[i] = order[j] => i = j
  BY <1>2, <1>3, <1>4
<1>6. /\ \A g \in k \cup {f} : \E i \in 1..(n + 1) : order[i] = g
      /\ \A i \in 1..(n + 1) : order[i] \in k \cup {f}
  BY <1>2, <1>3, <1>4
<1>7. IsFiniteSet(k \cup {f}) /\ Cardinality(k \cup {f}) = n + 1
  BY <1>3, FS_AddElement
<1>8. Remembers(order, k \cup {f})
  BY <1>2, <1>5, <1>6, <1>7 DEF Remembers
<1>. QED
  BY <1>1, <1>2, <1>8 DEF order, n

LEMMA OneLess ==
  ASSUME NEW q, NEW k, Remembers(q, k), Len(q) > 0
  PROVE  Remembers(Tail(q), k \ {Head(q)}) /\ Len(Tail(q)) = Len(q) - 1 /\ Len(q) \in Nat
<1>. DEFINE n == Len(q)
            rest == Tail(q)
<1>1. q \in Seq(Fingerprint) /\ n \in Nat /\ n > 0 /\ q # <<>>
  BY DEF Remembers
<1>2. /\ rest \in Seq(Fingerprint) /\ Len(rest) = n - 1 /\ Head(q) = q[1]
      /\ \A i \in 1..(n - 1) : rest[i] = q[i + 1]
  BY <1>1
<1>3. /\ \A i \in 1..n : q[i] \in k
      /\ \A i, j \in 1..n : q[i] = q[j] => i = j
      /\ \A g \in k : \E i \in 1..n : q[i] = g
      /\ IsFiniteSet(k) /\ Cardinality(k) = n
  BY DEF Remembers
<1>. HIDE DEF rest, n
<1>4. /\ \A i \in 1..(n - 1) : i + 1 \in 1..n /\ i + 1 # 1
      /\ \A i \in 1..n : i # 1 => i - 1 \in 1..(n - 1) /\ (i - 1) + 1 = i
      /\ 1 \in 1..n
  BY <1>1
<1>5. \A i, j \in 1..(n - 1) : rest[i] = rest[j] => i = j
  <2>. SUFFICES ASSUME NEW i \in 1..(n - 1), NEW j \in 1..(n - 1), rest[i] = rest[j]
                PROVE  i = j
    OBVIOUS
  <2>1. q[i + 1] = q[j + 1] /\ i + 1 \in 1..n /\ j + 1 \in 1..n
    BY <1>2, <1>4
  <2>2. i + 1 = j + 1
    BY <1>3, <2>1
  <2>. QED
    BY <2>2, <1>1
<1>6. \A g \in k \ {q[1]} : \E i \in 1..(n - 1) : rest[i] = g
  <2>. SUFFICES ASSUME NEW g \in k \ {q[1]}
                PROVE  \E i \in 1..(n - 1) : rest[i] = g
    OBVIOUS
  <2>1. PICK i \in 1..n : q[i] = g /\ i # 1
    BY <1>3
  <2>2. i - 1 \in 1..(n - 1) /\ (i - 1) + 1 = i
    BY <1>4, <2>1
  <2>. QED
    BY <1>2, <2>1, <2>2
<1>7. \A i \in 1..(n - 1) : rest[i] \in k \ {q[1]}
  BY <1>2, <1>3, <1>4
<1>8. IsFiniteSet(k \ {q[1]}) /\ Cardinality(k \ {q[1]}) = n - 1
  BY <1>3, <1>4, FS_RemoveElement
<1>9. Remembers(rest, k \ {q[1]})
  BY <1>2, <1>5, <1>6, <1>7, <1>8 DEF Remembers
<1>. QED
  BY <1>1, <1>2, <1>9 DEF rest, n

\* What admits a device remembers it if it came over HTTPS.
LEMMA AdmitsKeeps ==
  ASSUME OrderInv, NEW d \in Reg!Device, Reg!admits(d)
  PROVE  OrderInv'
<1>. DEFINE order == Append(https_order, d.fingerprint)
            all == known \cup {d.fingerprint}
<1>1. d.fingerprint \in Fingerprint /\ d.protocol \in {"http", "https"}
  BY DEF Reg!Device
<1>2. CASE UNCHANGED <<https_order, known>>
  BY <1>2 DEF OrderInv
<1>3. CASE d.fingerprint \notin known /\ ~UNCHANGED <<https_order, known>>
  <2>1. /\ Remembers(order, all) /\ Len(order) = Len(https_order) + 1
        /\ Len(https_order) \in Nat /\ Len(https_order) <= MaxFingerprints
        /\ MaxFingerprints \in Nat \ {0}
    BY <1>1, <1>3, OneMore, Sizes DEF OrderInv
  <2>2. \/ /\ Len(order) > MaxFingerprints /\ https_order' = Tail(order)
           /\ known' = all \ {Head(order)}
        \/ /\ ~(Len(order) > MaxFingerprints) /\ https_order' = order /\ known' = all
    BY <1>3 DEF Reg!admits, Reg!Remember, Reg!fingerprints
  <2>. HIDE DEF order, all
  <2>3. CASE https_order' = Tail(order) /\ known' = all \ {Head(order)}
    <3>1. Remembers(Tail(order), all \ {Head(order)}) /\ Len(Tail(order)) = Len(order) - 1
      BY <2>1, OneLess
    <3>. QED
      BY <2>1, <2>3, <3>1 DEF OrderInv
  <2>4. CASE /\ ~(Len(order) > MaxFingerprints) /\ https_order' = order /\ known' = all
    BY <2>1, <2>4 DEF OrderInv
  <2>. QED
    BY <2>2, <2>3, <2>4
<1>. QED
  BY <1>2, <1>3 DEF Reg!admits, Reg!fingerprints

\* The tokens come back at the rate, up to the burst.
LEMMA Refill ==
  ASSUME RateInv
  PROVE  Reg!Refilled \in 0..Burst
<1>1. tokens + since * Rate \in Nat /\ Burst \in Nat \ {0}
  BY Sizes DEF RateInv
<1>. QED
  BY <1>1, Smaller DEF Reg!Refilled

LEMMA Product ==
  ASSUME NEW a \in Nat, NEW b \in Nat, NEW c \in Nat \ {0}
  PROVE  /\ (a + 1) * c = a * c + c /\ a * c \in Nat
         /\ a <= b => a * c <= b * c
<1>1. (a + 1) * c = a * c + c /\ a * c \in Nat
  OBVIOUS
<1>2. ASSUME a <= b
      PROVE  a * c <= b * c
  <2>1. PICK k \in Nat : b = a + k
    BY <1>2
  <2>2. (a + k) * c = a * c + k * c /\ k * c \in Nat
    OBVIOUS
  <2>. QED
    BY <1>1, <2>1, <2>2
<1>. QED
  BY <1>1, <1>2

LEMMA RefillInv ==
  ASSUME RateInv, NEW s \in Nat, since' = s, tokens' \in 0..Burst, excess' \in Nat,
         snapshot_pending' \in BOOLEAN, excess' + Reg!Refilled' <= Burst
  PROVE  RateInv'
BY DEF RateInv

\* An event takes a token; one that finds none waits for the next snapshot.
LEMMA TakeKeeps ==
  ASSUME RegistryInv, ListInv, RateInv, NEW t \in Reg!Thread, NEW d \in Reg!Device, Reg!Take(t, d),
         UNCHANGED shown
  PROVE  RateInv' /\ ListInv'
<1>1. Reg!Refilled \in 0..Burst /\ Burst \in Nat \ {0} /\ Rate \in Nat \ {0}
  BY Refill, Sizes
<1>2. since' = 0 /\ d.fingerprint \in Fingerprint
  BY DEF Reg!Take, Reg!Device
<1>3. tokens' \in Nat => Reg!Refilled' \in {Burst, tokens'} /\ Reg!Refilled' <= tokens'
  <2>. SUFFICES ASSUME tokens' \in Nat
                PROVE  Reg!Refilled' \in {Burst, tokens'} /\ Reg!Refilled' <= tokens'
    OBVIOUS
  <2>1. since' * Rate = 0 /\ tokens' + since' * Rate = tokens'
    <3>1. 0 * Rate = 0 /\ \A x \in Nat : x + 0 = x
      BY <1>1
    <3>. QED
      BY <1>2, <3>1
  <2>2. Reg!Refilled' = Reg!Min({Burst, tokens'})
    BY <2>1 DEF Reg!Refilled, Reg!Min
  <2>. QED
    BY <1>1, <2>2, Smaller
<1>4. RateInv'
  <2>1. CASE Reg!Refilled >= 1
    <3>1. tokens' = Reg!Refilled - 1 /\ UNCHANGED snapshot_pending /\ excess' = excess + 1
      BY <2>1 DEF Reg!Take
    <3>2. excess \in Nat /\ excess + Reg!Refilled <= Burst /\ snapshot_pending \in BOOLEAN
      BY DEF RateInv
    <3>3. tokens' \in 0..Burst /\ excess' \in Nat /\ excess' + tokens' <= Burst
      BY <1>1, <2>1, <3>1, <3>2
    <3>4. Reg!Refilled' \in Nat /\ Reg!Refilled' <= tokens'
      BY <1>1, <1>3, <3>3
    <3>5. excess' + Reg!Refilled' <= Burst
      <4>1. \A x, y, z, n \in Nat : x + y <= n /\ z <= y => x + z <= n
        OBVIOUS
      <4>2. excess' \in Nat /\ tokens' \in Nat /\ Burst \in Nat
        BY <1>1, <3>3
      <4>. QED
        BY <3>3, <3>4, <4>1, <4>2
    <3>. QED
      BY <1>2, <3>1, <3>2, <3>3, <3>5 DEF RateInv
  <2>2. CASE ~(Reg!Refilled >= 1)
    <3>1. tokens' = Reg!Refilled /\ snapshot_pending' = TRUE /\ UNCHANGED excess
      BY <2>2 DEF Reg!Take
    <3>. QED
      BY <1>1, <1>2, <1>3, <2>2, <3>1 DEF RateInv
  <2>. QED
    BY <2>1, <2>2
<1>5. ListInv'
  <2>. DEFINE row == [Reg!Nothing.rows EXCEPT ![d.fingerprint] = d]
              p == [kind |-> "device", rows |-> row]
  <2>1. row \in [Fingerprint -> Reg!Device \cup {NoPeer}]
        /\ \A f \in Fingerprint : d.fingerprint # f => row[f] = NoPeer
    BY <1>2 DEF Reg!Nothing
  <2>2. p \in Printable /\ Prints(p)
    BY <2>1 DEF Printable, Prints
  <2>3. printing' = [printing EXCEPT ![t] = p] \/ UNCHANGED printing
    BY DEF Reg!Take
  <2>. HIDE DEF p
  <2>4. printing' \in [Reg!Thread -> Printable] /\ \A s \in Reg!Thread : Prints(printing'[s])
    BY <2>2, <2>3 DEF ListInv
  <2>5. \A s \in Reg!Thread : Prints(printing[s])' <=> Prints(printing'[s])
    BY DEF Prints, Fits, Reg!Held
  <2>. QED
    BY <2>4, <2>5 DEF ListInv, Fits, Reg!Held
<1>. QED
  BY <1>4, <1>5

\* A device is recorded: there is room for it, or the peer heard of longest ago makes some.
LEMMA RecordKeeps ==
  ASSUME DevicesInv, NEW t \in Reg!Thread, Reg!record_peer(t)
  PROVE  DevicesInv'
<1>. RegistryInv /\ ListInv /\ OrderInv /\ RateInv
  BY DEF DevicesInv
<1>1. PICK d \in Reg!Device, gone \in SUBSET Fingerprint :
        /\ Reg!admits(d) /\ gone \in Reg!Room(d.fingerprint)
        /\ peers' = [f \in Fingerprint |->
                       CASE f = d.fingerprint -> [dev |-> d, age |-> 0]
                         [] f \in gone -> NoPeer
                         [] OTHER -> Reg!Live[f]]
        /\ \/ UNCHANGED <<tokens, since, snapshot_pending, excess, printing>>
           \/ Reg!Take(t, d)
  BY DEF Reg!record_peer
<1>2. UNCHANGED shown
  BY DEF Reg!record_peer
<1>. DEFINE g == d.fingerprint
            kept == Reg!Held(Reg!Live)
<1>3. g \in Fingerprint /\ \A f \in Fingerprint : Reg!Live[f] \in Entry \cup {NoPeer}
  BY LiveFits DEF Reg!Device
<1>4. [dev |-> d, age |-> 0] \in Entry
  BY Sizes DEF Entry
<1>a. \/ (g \in kept \/ Cardinality(kept) < MaxPeers) /\ gone = {}
      \/ g \notin kept /\ \E h \in kept : gone = {h}
  BY <1>1, SameCount DEF Reg!Room
<1>b. g \notin gone
  BY <1>a
<1>5. \A f \in Fingerprint :
        \/ f = g /\ peers'[f] = [dev |-> d, age |-> 0]
        \/ f # g /\ f \in gone /\ peers'[f] = NoPeer
        \/ f # g /\ f \notin gone /\ peers'[f] = Reg!Live[f]
  <2>. SUFFICES ASSUME NEW f \in Fingerprint
                PROVE  \/ f = g /\ peers'[f] = [dev |-> d, age |-> 0]
                       \/ f # g /\ f \in gone /\ peers'[f] = NoPeer
                       \/ f # g /\ f \notin gone /\ peers'[f] = Reg!Live[f]
    OBVIOUS
  <2>1. peers'[f] = CASE f = d.fingerprint -> [dev |-> d, age |-> 0]
                      [] f \in gone -> NoPeer
                      [] OTHER -> Reg!Live[f]
    BY <1>1
  <2>2. CASE f = g
    BY <1>b, <2>1, <2>2
  <2>3. CASE f # g /\ f \in gone
    BY <2>1, <2>3
  <2>4. CASE f # g /\ f \notin gone
    BY <2>1, <2>4
  <2>. QED
    BY <2>2, <2>3, <2>4
<1>6. peers' \in [Fingerprint -> Entry \cup {NoPeer}]
  BY <1>1, <1>3, <1>4, <1>5
<1>7. \A f \in Fingerprint : peers'[f] # NoPeer => peers'[f].dev.fingerprint = f
  BY <1>5, LiveFits DEF RegistryInv
<1>8. Fits(Reg!Held(peers)')
  <2>1. Fits(kept) /\ MaxPeers \in Nat \ {0}
    BY LiveFits, Sizes
  <2>2. Cardinality(kept) \in Nat
    BY <2>1, FS_CardinalityType DEF Fits
  <2>3. Reg!Held(peers)' \in SUBSET ((kept \ gone) \cup {g})
    BY <1>5 DEF Reg!Held
  <2>4. Fits((kept \ gone) \cup {g})
    <3>1. CASE (g \in kept \/ Cardinality(kept) < MaxPeers) /\ gone = {}
      <4>1. kept \ gone = kept
        BY <3>1
      <4>. HIDE DEF kept, g
      <4>2. /\ IsFiniteSet(kept \cup {g})
            /\ Cardinality(kept \cup {g}) = IF g \in kept THEN Cardinality(kept) ELSE Cardinality(kept) + 1
        BY <2>1, FS_AddElement DEF Fits
      <4>3. Cardinality(kept \cup {g}) <= MaxPeers
        BY <2>1, <2>2, <3>1, <4>2 DEF Fits
      <4>. QED
        BY <4>1, <4>2, <4>3 DEF Fits
    <3>2. CASE g \notin kept /\ \E h \in kept : gone = {h}
      <4>1. PICK h \in kept : gone = {h}
        BY <3>2
      <4>. HIDE DEF kept, g
      <4>2. IsFiniteSet(kept \ {h}) /\ Cardinality(kept \ {h}) = Cardinality(kept) - 1 /\ g \notin kept \ {h}
        BY <2>1, <3>2, <4>1, FS_RemoveElement DEF Fits
      <4>3. IsFiniteSet((kept \ {h}) \cup {g}) /\ Cardinality((kept \ {h}) \cup {g}) = Cardinality(kept)
        <5>. DEFINE S == kept \ {h}
        <5>1. IsFiniteSet(S) /\ Cardinality(S) = Cardinality(kept) - 1 /\ g \notin S
          BY <4>2
        <5>. HIDE DEF S
        <5>2. IsFiniteSet(S \cup {g}) /\ Cardinality(S \cup {g}) = Cardinality(S) + 1
          BY <5>1, FS_AddElement
        <5>3. Cardinality(S \cup {g}) = Cardinality(kept)
          BY <2>2, <5>1, <5>2
        <5>. QED
          BY <5>2, <5>3 DEF S
      <4>. QED
        BY <2>1, <4>1, <4>3 DEF Fits
    <3>. QED
      BY <1>a, <3>1, <3>2
  <2>. QED
    BY <2>3, <2>4, Parts
<1>9. RegistryInv'
  BY <1>6, <1>7, <1>8 DEF RegistryInv, Fits
<1>10. OrderInv'
  BY <1>1, AdmitsKeeps
<1>11. RateInv' /\ ListInv'
  <2>1. CASE UNCHANGED <<tokens, since, snapshot_pending, excess, printing>>
    <3>1. RateInv'
      BY <2>1 DEF RateInv, Reg!Refilled
    <3>2. ListInv'
      BY <1>2, <2>1 DEF ListInv, Prints, Fits, Reg!Held
    <3>. QED
      BY <3>1, <3>2
  <2>. QED
    BY <1>1, <1>2, <2>1, TakeKeeps
<1>. QED
  BY <1>9, <1>10, <1>11 DEF DevicesInv

\* A line is printed, and the list of the panel has its length at most.
LEMMA EmitKeeps ==
  ASSUME DevicesInv, NEW t \in Reg!Thread, Reg!Emit(t)
  PROVE  DevicesInv'
<1>. RegistryInv /\ ListInv /\ OrderInv /\ RateInv
  BY DEF DevicesInv
<1>. DEFINE p == printing[t]
            rows == IF p.kind = "snapshot" THEN p.rows
                    ELSE [f \in Fingerprint |-> IF p.rows[f] # NoPeer THEN p.rows[f] ELSE shown[f]]
<1>1. /\ UNCHANGED <<peers, https_order, known, tokens, since, snapshot_pending, excess>>
      /\ printing' = [printing EXCEPT ![t] = Reg!Nothing]
      /\ \/ Cardinality(Reg!Held(rows)) <= MaxPeers /\ shown' = rows
         \/ ~(Cardinality(Reg!Held(rows)) <= MaxPeers)
            /\ \E f \in Reg!Held(rows) : shown' = [rows EXCEPT ![f] = NoPeer]
  BY SameCount DEF Reg!Emit, Reg!gate, Reg!fingerprints
<1>2. /\ p \in Printable /\ Prints(p) /\ shown \in [Fingerprint -> Reg!Device \cup {NoPeer}]
      /\ Fits(Reg!Held(shown))
  BY DEF ListInv
<1>3. rows \in [Fingerprint -> Reg!Device \cup {NoPeer}]
  <2>. p.rows \in [Fingerprint -> Reg!Device \cup {NoPeer}]
    BY <1>2 DEF Printable
  <2>. QED
    BY <1>2
<1>4. IsFiniteSet(Reg!Held(rows)) /\ Cardinality(Reg!Held(rows)) <= MaxPeers + 1
      /\ Cardinality(Reg!Held(rows)) \in Nat
  <2>1. CASE p.kind = "snapshot"
    <3>1. rows = p.rows /\ Fits(Reg!Held(p.rows))
      BY <1>2, <2>1 DEF Prints
    <3>. QED
      BY <3>1, FS_CardinalityType, Sizes DEF Fits
  <2>2. CASE p.kind # "snapshot"
    <3>1. PICK g : \A f \in Fingerprint : f # g => p.rows[f] = NoPeer
      BY <1>2, <2>2 DEF Prints
    <3>2. \A f \in Fingerprint : rows[f] = IF p.rows[f] # NoPeer THEN p.rows[f] ELSE shown[f]
      BY <2>2
    <3>. HIDE DEF rows, p
    <3>3. Reg!Held(rows) \in SUBSET (Reg!Held(shown) \cup {g})
      BY <3>1, <3>2 DEF Reg!Held
    <3>4. /\ IsFiniteSet(Reg!Held(shown) \cup {g})
          /\ Cardinality(Reg!Held(shown) \cup {g}) <= MaxPeers + 1
      <4>1. Cardinality(Reg!Held(shown)) \in Nat /\ MaxPeers \in Nat
        BY <1>2, FS_CardinalityType, Sizes DEF Fits
      <4>2. /\ IsFiniteSet(Reg!Held(shown) \cup {g})
            /\ Cardinality(Reg!Held(shown) \cup {g}) =
                 IF g \in Reg!Held(shown) THEN Cardinality(Reg!Held(shown))
                 ELSE Cardinality(Reg!Held(shown)) + 1
        BY <1>2, FS_AddElement DEF Fits
      <4>. QED
        BY <1>2, <4>1, <4>2 DEF Fits
    <3>5. /\ IsFiniteSet(Reg!Held(rows)) /\ Cardinality(Reg!Held(rows)) \in Nat
          /\ Cardinality(Reg!Held(rows)) <= Cardinality(Reg!Held(shown) \cup {g})
          /\ Cardinality(Reg!Held(shown) \cup {g}) \in Nat
      BY <3>3, <3>4, FS_Subset, FS_CardinalityType
    <3>. QED
      BY <3>4, <3>5, Sizes
  <2>. QED
    BY <2>1, <2>2
<1>. HIDE DEF rows
<1>5. shown' \in [Fingerprint -> Reg!Device \cup {NoPeer}] /\ Fits(Reg!Held(shown'))
  <2>1. CASE Cardinality(Reg!Held(rows)) <= MaxPeers /\ shown' = rows
    BY <1>3, <1>4, <2>1 DEF Fits
  <2>2. CASE ~(Cardinality(Reg!Held(rows)) <= MaxPeers)
             /\ \E f \in Reg!Held(rows) : shown' = [rows EXCEPT ![f] = NoPeer]
    <3>1. PICK f \in Reg!Held(rows) : shown' = [rows EXCEPT ![f] = NoPeer]
      BY <2>2
    <3>2. f \in Fingerprint
      BY DEF Reg!Held
    <3>3. shown' \in [Fingerprint -> Reg!Device \cup {NoPeer}]
      BY <1>3, <3>1, <3>2
    <3>4. \A h \in Fingerprint : shown'[h] = IF h = f THEN NoPeer ELSE rows[h]
      BY <1>3, <3>1
    <3>5. Reg!Held(shown') = Reg!Held(rows) \ {f}
      BY <3>4 DEF Reg!Held
    <3>6. IsFiniteSet(Reg!Held(rows) \ {f}) /\ Cardinality(Reg!Held(rows) \ {f}) = Cardinality(Reg!Held(rows)) - 1
      BY <1>4, FS_RemoveElement
    <3>. QED
      BY <1>4, <3>3, <3>5, <3>6, Sizes DEF Fits
  <2>. QED
    BY <1>1, <2>1, <2>2
<1>6. ListInv'
  <2>1. Reg!Nothing \in Printable /\ Prints(Reg!Nothing)
    BY DEF Reg!Nothing, Printable, Prints
  <2>2. printing' \in [Reg!Thread -> Printable] /\ \A s \in Reg!Thread : Prints(printing'[s])
    BY <1>1, <2>1 DEF ListInv
  <2>3. \A s \in Reg!Thread : Prints(printing[s])' <=> Prints(printing'[s])
    BY DEF Prints, Fits, Reg!Held
  <2>. QED
    BY <1>5, <2>2, <2>3 DEF ListInv, Fits, Reg!Held
<1>7. RegistryInv' /\ OrderInv' /\ RateInv'
  BY <1>1 DEF RegistryInv, Fits, Reg!Held, OrderInv, RateInv, Reg!Refilled
<1>. QED
  BY <1>6, <1>7 DEF DevicesInv

\* Time passes, and as many tokens come back as events are forgiven.
LEMMA TickKeeps ==
  ASSUME DevicesInv, Reg!Tick
  PROVE  DevicesInv'
<1>. RegistryInv /\ ListInv /\ OrderInv /\ RateInv
  BY DEF DevicesInv
<1>0. /\ peers' = [f \in Fingerprint |->
                     IF peers[f] = NoPeer THEN NoPeer
                     ELSE [peers[f] EXCEPT !.age = Reg!Min({@ + 1, Ttl + 1})]]
      /\ since' = Reg!Min({since + 1, Burst})
      /\ excess' = IF excess > Rate THEN excess - Rate ELSE 0
      /\ UNCHANGED <<https_order, known, tokens, snapshot_pending, printing, shown>>
  BY DEF Reg!Tick, Reg!fingerprints
<1>1. \A f \in Fingerprint :
        /\ peers'[f] \in Entry \cup {NoPeer}
        /\ peers[f] = NoPeer => peers'[f] = NoPeer
        /\ peers[f] # NoPeer => peers'[f].dev = peers[f].dev
  <2>. SUFFICES ASSUME NEW f \in Fingerprint, peers[f] # NoPeer
                PROVE  peers'[f] \in Entry /\ peers'[f].dev = peers[f].dev
    BY <1>0
  <2>1. peers[f] \in Entry /\ Ttl \in Nat
    BY Sizes DEF RegistryInv
  <2>2. peers[f].age + 1 \in Nat /\ Ttl + 1 \in Nat
    BY <2>1 DEF Entry
  <2>3. Reg!Min({peers[f].age + 1, Ttl + 1}) \in 0..(Ttl + 1)
    BY <2>2, Smaller
  <2>4. peers'[f] = [peers[f] EXCEPT !.age = Reg!Min({peers[f].age + 1, Ttl + 1})]
    BY <1>0
  <2>. QED
    BY <2>1, <2>3, <2>4 DEF Entry
<1>2. RegistryInv'
  <2>1. peers' \in [Fingerprint -> Entry \cup {NoPeer}]
    BY <1>0, <1>1
  <2>2. \A f \in Fingerprint : peers'[f] # NoPeer => peers'[f].dev.fingerprint = f
    BY <1>1 DEF RegistryInv
  <2>3. Reg!Held(peers)' \in SUBSET Reg!Held(peers)
    BY <1>1 DEF Reg!Held
  <2>4. Fits(Reg!Held(peers)')
    BY <2>3, Parts DEF RegistryInv
  <2>. QED
    BY <2>1, <2>2, <2>4 DEF RegistryInv, Fits
<1>3. ListInv' /\ OrderInv'
  BY <1>0 DEF ListInv, Prints, Fits, Reg!Held, OrderInv
<1>4. RateInv'
  <2>1. /\ tokens \in Nat /\ tokens <= Burst /\ since \in Nat /\ excess \in Nat
        /\ excess + Reg!Refilled <= Burst /\ snapshot_pending \in BOOLEAN
        /\ Burst \in Nat \ {0} /\ Rate \in Nat \ {0} /\ since + 1 \in Nat
    BY Sizes DEF RateInv
  <2>2. since' \in Nat /\ since' <= since + 1
    BY <1>0, <2>1, Smaller
  <2>. DEFINE a == tokens + since * Rate
              b == tokens + since' * Rate
  <2>3. a \in Nat /\ b \in Nat /\ b <= a + Rate
    <3>1. (since + 1) * Rate = since * Rate + Rate /\ since * Rate \in Nat
      BY <2>1, Product
    <3>2. since' * Rate \in Nat /\ since' * Rate <= (since + 1) * Rate
      BY <2>1, <2>2, Product
    <3>3. \A x, y, z, w \in Nat : x <= y + z => w + x <= (w + y) + z
      OBVIOUS
    <3>. QED
      BY <2>1, <3>1, <3>2, <3>3
  <2>4. Reg!Refilled = Reg!Min({Burst, a}) /\ Reg!Refilled' = Reg!Min({Burst, b})
    BY <1>0 DEF Reg!Refilled, Reg!Min
  <2>. HIDE DEF a, b
  <2>5. /\ Reg!Refilled \in {Burst, a} /\ Reg!Refilled <= a /\ Reg!Refilled <= Burst
        /\ Reg!Refilled' \in {Burst, b} /\ Reg!Refilled' <= b /\ Reg!Refilled' <= Burst
    BY <2>1, <2>3, <2>4, Smaller
  <2>6. Reg!Refilled \in Nat /\ Reg!Refilled' \in Nat /\ Reg!Refilled' <= Reg!Refilled + Rate
    BY <2>1, <2>3, <2>5
  <2>7. excess' \in Nat /\ excess' + Reg!Refilled' <= Burst
    <3>1. CASE excess > Rate
      <4>1. excess' = excess - Rate
        BY <1>0, <3>1
      <4>2. \A x, y, z, w, n \in Nat : x > w /\ x + y <= n /\ z <= y + w => (x - w) + z <= n
        OBVIOUS
      <4>3. excess' \in Nat /\ Rate \in Nat /\ Burst \in Nat
        BY <2>1, <3>1, <4>1
      <4>4. (excess - Rate) + Reg!Refilled' <= Burst
        BY <2>1, <2>6, <3>1, <4>2, <4>3
      <4>. QED
        BY <4>1, <4>3, <4>4
    <3>2. CASE ~(excess > Rate)
      <4>1. excess' = 0
        BY <1>0, <3>2
      <4>2. \A x \in Nat : 0 + x = x
        OBVIOUS
      <4>3. excess' \in Nat /\ excess' + Reg!Refilled' = Reg!Refilled'
        BY <2>6, <4>1, <4>2
      <4>. QED
        BY <2>5, <4>3
    <3>. QED
      BY <3>1, <3>2
  <2>. QED
    BY <1>0, <2>1, <2>2, <2>7 DEF RateInv
<1>. QED
  BY <1>2, <1>3, <1>4 DEF DevicesInv

\* So the registry, its gate and the list of the panel are as they should be after any step.
LEMMA DevicesStep ==
  ASSUME DevicesInv, Reg!Next
  PROVE  DevicesInv'
<1>. RegistryInv /\ ListInv /\ OrderInv /\ RateInv
  BY DEF DevicesInv
<1>1. ASSUME NEW t \in Reg!Thread, Reg!record_peer(t) \/ Reg!Emit(t)
      PROVE  DevicesInv'
  BY <1>1, RecordKeeps, EmitKeeps
<1>2. CASE Reg!Tick
  BY <1>2, TickKeeps
<1>3. ASSUME NEW emits, Reg!expire_and_snapshot(emits), UNCHANGED <<Reg!gate, shown, excess>>
      PROVE  DevicesInv'
  <2>1. RegistryInv' /\ ListInv'
    BY <1>3, SnapshotFits
  <2>2. OrderInv' /\ RateInv'
    BY <1>3 DEF OrderInv, RateInv, Reg!gate, Reg!fingerprints, Reg!Refilled
  <2>. QED
    BY <2>1, <2>2 DEF DevicesInv
<1>4. CASE Reg!ExpiryTick
  BY <1>3, <1>4 DEF Reg!ExpiryTick
<1>5. CASE Reg!Flush \/ Reg!StartDiscovery
  BY <1>3, <1>5 DEF Reg!Flush, Reg!StartDiscovery
<1>6. CASE Reg!TakePending \/ Reg!StopDiscovery
  <2>1. UNCHANGED <<peers, https_order, known, tokens, since, printing, shown, excess>>
        /\ snapshot_pending' \in BOOLEAN
    BY <1>6 DEF Reg!TakePending, Reg!StopDiscovery, Reg!gate, Reg!fingerprints, RateInv
  <2>2. RegistryInv' /\ ListInv' /\ OrderInv'
    BY <2>1 DEF RegistryInv, Fits, Reg!Held, ListInv, Prints, OrderInv
  <2>3. RateInv'
    BY <2>1 DEF RateInv, Reg!Refilled
  <2>. QED
    BY <2>2, <2>3 DEF DevicesInv
<1>. QED
  BY <1>1, <1>2, <1>4, <1>5, <1>6 DEF Reg!Next

LEMMA DevicesBegin ==
  ASSUME PanelInit
  PROVE  DevicesInv /\ MemoryInv
<1>0. /\ peers = [f \in Fingerprint |-> NoPeer] /\ https_order = <<>> /\ known = {}
      /\ tokens = Burst /\ since = 0 /\ snapshot_pending = FALSE
      /\ printing = [t \in Reg!Thread |-> Reg!Nothing]
      /\ shown = [f \in Fingerprint |-> NoPeer] /\ excess = 0
      /\ seen = {} /\ after = [f \in Fingerprint |-> {}]
  BY DEF PanelInit, Reg!Init
<1>1. Fits({})
  BY FS_EmptySet, Sizes DEF Fits
<1>2. Reg!Held(peers) = {} /\ Reg!Held(shown) = {}
  BY <1>0 DEF Reg!Held
<1>3. RegistryInv
  BY <1>0, <1>1, <1>2 DEF RegistryInv
<1>4. ListInv
  <2>1. Reg!Nothing \in Printable /\ Prints(Reg!Nothing)
    BY DEF Reg!Nothing, Printable, Prints
  <2>2. printing \in [Reg!Thread -> Printable] /\ \A t \in Reg!Thread : printing[t] = Reg!Nothing
    BY <1>0, <2>1
  <2>. QED
    BY <1>0, <1>1, <1>2, <2>1, <2>2 DEF ListInv
<1>5. OrderInv
  <2>1. <<>> \in Seq(Fingerprint) /\ Len(<<>>) = 0 /\ 1..0 = {}
    OBVIOUS
  <2>2. IsFiniteSet({}) /\ Cardinality({}) = 0
    BY FS_EmptySet
  <2>3. Remembers(<<>>, {})
    BY <2>1, <2>2 DEF Remembers
  <2>. QED
    BY <1>0, <2>1, <2>3, Sizes DEF OrderInv
<1>6. RateInv
  <2>1. Burst \in Nat \ {0} /\ 0 * Rate = 0 /\ Burst + 0 = Burst
    BY Sizes
  <2>2. Reg!Refilled = Reg!Min({Burst, Burst})
    BY <1>0, <2>1 DEF Reg!Refilled
  <2>3. Reg!Min({Burst, Burst}) \in {Burst, Burst}
    BY <2>1, Smaller
  <2>4. Reg!Refilled = Burst
    BY <2>2, <2>3
  <2>5. excess + Reg!Refilled <= Burst
    BY <1>0, <2>1, <2>4
  <2>6. tokens \in 0..Burst /\ since \in Nat /\ excess \in Nat /\ snapshot_pending \in BOOLEAN
    <3>1. Burst \in 0..Burst
      BY <2>1
    <3>2. snapshot_pending \in BOOLEAN
      BY <1>0, Zenon
    <3>3. since \in Nat /\ excess \in Nat
      BY <1>0
    <3>4. tokens \in 0..Burst
      BY <1>0, <3>1
    <3>. QED
      BY <3>2, <3>3, <3>4
  <2>. QED
    BY <2>5, <2>6 DEF RateInv
<1>7. MemoryInv
  <2>1. IsFiniteSet({})
    BY FS_EmptySet
  <2>2. Behind(https_order, after)
    BY <1>0 DEF Behind
  <2>. QED
    BY <1>0, <2>1, <2>2 DEF MemoryInv
<1>. QED
  BY <1>3, <1>4, <1>5, <1>6, <1>7 DEF DevicesInv

LEMMA DevicesAlways == PanelSpec => []DevicesInv
<1>1. PanelInit => DevicesInv
  BY DevicesBegin
<1>2. DevicesInv /\ [PanelNext]_panel_vars => DevicesInv'
  <2>. SUFFICES ASSUME DevicesInv, [PanelNext]_panel_vars
                PROVE  DevicesInv'
    OBVIOUS
  <2>1. CASE UNCHANGED devices
    BY <2>1 DEF devices, DevicesInv, RegistryInv, Fits, Reg!Held, ListInv, Prints, OrderInv,
                RateInv, Reg!Refilled
  <2>2. Reg!Next \/ UNCHANGED devices
    BY DEF PanelNext, panel_vars
  <2>. QED
    BY <2>1, <2>2, DevicesStep
<1>. QED
  BY <1>1, <1>2, PTL DEF PanelSpec

\* A fingerprint that was forgotten goes behind those that are remembered.
LEMMA RememberKeeps ==
  ASSUME OrderInv, MemoryInv, NEW g \in Fingerprint, g \notin known, Reg!Remember(g),
         OrderInv'
  PROVE  /\ known' \subseteq seen' /\ seen' = seen \cup {g}
         /\ g \in known' /\ known' \subseteq known \cup {g}
         /\ after' \in [Fingerprint -> SUBSET Fingerprint]
         /\ \A f \in Fingerprint : IsFiniteSet(after'[f])
         /\ Behind(https_order', after')
         /\ \A f \in seen' \ known' : Cardinality(after'[f]) >= MaxFingerprints
<1>. DEFINE order == Append(https_order, g)
            n == Len(https_order)
<1>1. /\ n \in Nat /\ n <= MaxFingerprints /\ MaxFingerprints \in Nat \ {0}
      /\ https_order \in Seq(Fingerprint)
      /\ \A i \in 1..n : https_order[i] \in known
  BY Sizes DEF OrderInv, Remembers
<1>2. /\ order \in Seq(Fingerprint) /\ Len(order) = n + 1 /\ order[n + 1] = g
      /\ \A i \in 1..n : order[i] = https_order[i]
      /\ \A i \in 1..(n + 1) : i \in 1..n \/ i = n + 1
      /\ Tail(order) \in Seq(Fingerprint) /\ Len(Tail(order)) = n /\ Head(order) = order[1]
      /\ \A i \in 1..n : Tail(order)[i] = order[i + 1] /\ i + 1 \in 1..(n + 1)
  BY <1>1
<1>3. /\ seen' = seen \cup {g}
      /\ after' = [f \in Fingerprint |->
                     IF f = g \/ f \notin seen THEN {} ELSE after[f] \cup {g}]
      /\ \/ /\ n + 1 > MaxFingerprints /\ https_order' = Tail(order)
            /\ known' = (known \cup {g}) \ {order[1]}
         \/ n + 1 <= MaxFingerprints /\ https_order' = order /\ known' = known \cup {g}
  BY <1>1, <1>2 DEF Reg!Remember
<1>. HIDE DEF order, n
<1>4. g \in known'
  <2>1. CASE n + 1 > MaxFingerprints
    <3>1. 1 \in 1..n
      BY <1>1, <2>1
    <3>. QED
      BY <1>1, <1>2, <1>3, <3>1
  <2>2. CASE n + 1 <= MaxFingerprints
    BY <1>1, <1>3, <2>2
  <2>. QED
    BY <1>1, <2>1, <2>2
<1>5. known' \subseteq known \cup {g} /\ known' \subseteq seen'
  BY <1>3 DEF MemoryInv
<1>6. \A f \in Fingerprint : /\ after'[f] \in SUBSET Fingerprint /\ IsFiniteSet(after'[f])
                             /\ f \in seen /\ f # g => after'[f] = after[f] \cup {g}
  BY <1>3, FS_EmptySet, FS_AddElement DEF MemoryInv
<1>7. after' \in [Fingerprint -> SUBSET Fingerprint]
  BY <1>3, <1>6
<1>8. \A i, j \in 1..(n + 1) : i < j => order[j] \in after'[order[i]]
  <2>. SUFFICES ASSUME NEW i \in 1..(n + 1), NEW j \in 1..(n + 1), i < j
                PROVE  order[j] \in after'[order[i]]
    OBVIOUS
  <2>1. i \in 1..n /\ order[i] = https_order[i] /\ https_order[i] \in known
    BY <1>1, <1>2
  <2>2. after'[order[i]] = after[order[i]] \cup {g}
    BY <1>6, <2>1 DEF MemoryInv
  <2>3. CASE j = n + 1
    BY <1>2, <2>2, <2>3
  <2>4. CASE j \in 1..n
    BY <1>2, <2>1, <2>2, <2>4 DEF MemoryInv, Behind, n
  <2>. QED
    BY <1>2, <2>3, <2>4
<1>9. Behind(https_order', after')
  <2>1. CASE https_order' = order
    BY <1>2, <1>8, <2>1 DEF Behind
  <2>2. CASE https_order' = Tail(order)
    <3>. SUFFICES ASSUME NEW i \in 1..n, NEW j \in 1..n, i < j
                  PROVE  Tail(order)[j] \in after'[Tail(order)[i]]
      BY <1>2, <2>2 DEF Behind
    <3>1. i + 1 \in 1..(n + 1) /\ j + 1 \in 1..(n + 1) /\ i + 1 < j + 1
      BY <1>1
    <3>. QED
      BY <1>2, <1>8, <3>1
  <2>. QED
    BY <1>3, <2>1, <2>2
<1>10. ASSUME NEW f \in seen' \ known'
       PROVE  Cardinality(after'[f]) >= MaxFingerprints
  <2>1. f \in Fingerprint /\ f \in seen /\ f # g /\ after'[f] = after[f] \cup {g}
    BY <1>3, <1>4, <1>6, <1>10 DEF MemoryInv
  <2>2. IsFiniteSet(after'[f]) /\ Cardinality(after'[f]) \in Nat
    BY <1>6, <2>1, FS_CardinalityType
  <2>3. CASE f \notin known
    <3>1. Cardinality(after[f]) <= Cardinality(after'[f]) /\ Cardinality(after[f]) \in Nat
      BY <2>1, <2>2, FS_Subset, FS_CardinalityType
    <3>2. Cardinality(after[f]) >= MaxFingerprints
      BY <2>1, <2>3 DEF MemoryInv
    <3>. QED
      BY <1>1, <2>2, <3>1, <3>2
  <2>4. CASE f \in known
    <3>1. /\ f = order[1] /\ n + 1 > MaxFingerprints /\ https_order' = Tail(order)
      BY <1>3, <1>10, <2>4
    <3>2. IsFiniteSet(known') /\ Cardinality(known') = n
          /\ \A h \in known' : \E i \in 1..n : https_order'[i] = h
      BY <1>2, <3>1 DEF OrderInv, Remembers
    <3>3. ASSUME NEW h \in known'
          PROVE  h \in after'[f]
      <4>1. PICK i \in 1..n : https_order'[i] = h
        BY <3>2
      <4>2. h = order[i + 1] /\ i + 1 \in 1..(n + 1) /\ 1 \in 1..(n + 1) /\ 1 < i + 1
        BY <1>1, <1>2, <3>1, <4>1
      <4>. QED
        BY <1>8, <3>1, <4>2
    <3>4. known' \in SUBSET after'[f]
      BY <3>3
    <3>5. Cardinality(known') <= Cardinality(after'[f])
      BY <2>2, <3>4, FS_Subset
    <3>6. n >= MaxFingerprints
      BY <1>1, <3>1
    <3>. QED
      BY <1>1, <2>2, <3>2, <3>5, <3>6
  <2>. QED
    BY <2>3, <2>4
<1>. QED
  BY <1>3, <1>4, <1>5, <1>6, <1>7, <1>9, <1>10

LEMMA MemoryStep ==
  ASSUME DevicesInv, MemoryInv, Reg!Next \/ UNCHANGED devices
  PROVE  MemoryInv'
<1>. RegistryInv /\ OrderInv
  BY DEF DevicesInv
<1>1. ASSUME UNCHANGED <<https_order, known, seen, after>>,
             \A f \in Fingerprint :
               peers'[f] = NoPeer \/ (peers[f] # NoPeer /\ peers'[f].dev = peers[f].dev)
      PROVE  MemoryInv'
  <2>1. Behind(https_order, after)'
    BY <1>1 DEF MemoryInv, Behind
  <2>. QED
    BY <1>1, <2>1 DEF MemoryInv
<1>2. ASSUME NEW t \in Reg!Thread, Reg!record_peer(t)
      PROVE  MemoryInv'
  <2>1. PICK d \in Reg!Device, gone \in SUBSET Fingerprint :
          /\ Reg!admits(d)
          /\ peers' = [f \in Fingerprint |->
                         CASE f = d.fingerprint -> [dev |-> d, age |-> 0]
                           [] f \in gone -> NoPeer
                           [] OTHER -> Reg!Live[f]]
          /\ gone \in Reg!Room(d.fingerprint)
    BY <1>2 DEF Reg!record_peer
  <2>2. d.fingerprint \in Fingerprint /\ d.protocol \in {"http", "https"}
    BY DEF Reg!Device
  <2>3. \A f \in Fingerprint : f # d.fingerprint => peers'[f] \in {peers[f], NoPeer}
    <3>. SUFFICES ASSUME NEW f \in Fingerprint, f # d.fingerprint
                  PROVE  peers'[f] \in {peers[f], NoPeer}
      OBVIOUS
    <3>1. peers'[f] = CASE f = d.fingerprint -> [dev |-> d, age |-> 0]
                        [] f \in gone -> NoPeer
                        [] OTHER -> Reg!Live[f]
      BY <2>1
    <3>2. Reg!Live[f] \in {peers[f], NoPeer}
      BY LiveFits
    <3>3. CASE f \in gone
      BY <3>1, <3>3
    <3>4. CASE f \notin gone
      BY <3>1, <3>2, <3>4
    <3>. QED
      BY <3>3, <3>4
  <2>4. peers'[d.fingerprint] = [dev |-> d, age |-> 0]
    <3>1. d.fingerprint \notin gone
      BY <2>1 DEF Reg!Room
    <3>. QED
      BY <2>1, <2>2, <3>1
  <2>5. OrderInv'
    BY <2>1, AdmitsKeeps
  <2>6. CASE UNCHANGED <<https_order, known, seen, after>>
    <3>1. d.fingerprint \in known => d.protocol = "https"
      BY <2>1, <2>2, <2>6 DEF Reg!admits, Reg!Remember
    <3>2. Behind(https_order, after)'
      BY <2>6 DEF MemoryInv, Behind
    <3>3. \A f \in known' : peers'[f] # NoPeer => peers'[f].dev.protocol = "https"
      BY <2>3, <2>4, <2>6, <3>1 DEF MemoryInv
    <3>. QED
      BY <2>6, <3>2, <3>3 DEF MemoryInv
  <2>7. CASE /\ d.protocol = "https" /\ d.fingerprint \notin known
             /\ Reg!Remember(d.fingerprint)
    <3>1. /\ known' \subseteq seen' /\ seen' = seen \cup {d.fingerprint}
          /\ known' \subseteq known \cup {d.fingerprint}
          /\ after' \in [Fingerprint -> SUBSET Fingerprint]
          /\ \A f \in Fingerprint : IsFiniteSet(after'[f])
          /\ Behind(https_order', after')
          /\ \A f \in seen' \ known' : Cardinality(after'[f]) >= MaxFingerprints
      BY <2>2, <2>5, <2>7, RememberKeeps
    <3>2. \A f \in known' : peers'[f] # NoPeer => peers'[f].dev.protocol = "https"
      BY <2>3, <2>4, <2>7, <3>1 DEF MemoryInv
    <3>3. Behind(https_order, after)'
      BY <3>1 DEF Behind
    <3>4. seen' \subseteq Fingerprint
      BY <2>2, <3>1 DEF MemoryInv
    <3>. QED
      BY <3>1, <3>2, <3>3, <3>4 DEF MemoryInv
  <2>. QED
    BY <2>1, <2>6, <2>7 DEF Reg!admits, Reg!fingerprints
<1>3. CASE Reg!ExpiryTick \/ Reg!Flush \/ Reg!StartDiscovery
  <2>1. peers' = Reg!Live /\ UNCHANGED <<https_order, known, seen, after>>
    BY <1>3 DEF Reg!ExpiryTick, Reg!Flush, Reg!StartDiscovery, Reg!expire_and_snapshot,
                Reg!gate, Reg!fingerprints
  <2>2. \A f \in Fingerprint : peers'[f] \in {peers[f], NoPeer}
    BY <2>1, LiveFits
  <2>. QED
    BY <1>1, <2>1, <2>2
<1>4. CASE Reg!Tick
  <2>1. UNCHANGED <<https_order, known, seen, after>>
    BY <1>4 DEF Reg!Tick, Reg!fingerprints
  <2>2. \A f \in Fingerprint :
          peers'[f] = NoPeer \/ (peers[f] # NoPeer /\ peers'[f].dev = peers[f].dev)
    <3>. SUFFICES ASSUME NEW f \in Fingerprint, peers[f] # NoPeer
                  PROVE  peers'[f].dev = peers[f].dev
      BY <1>4 DEF Reg!Tick
    <3>1. peers[f] \in Entry
      BY DEF RegistryInv
    <3>2. peers'[f] = [peers[f] EXCEPT !.age = Reg!Min({@ + 1, Ttl + 1})]
      BY <1>4 DEF Reg!Tick
    <3>. QED
      BY <3>1, <3>2 DEF Entry
  <2>. QED
    BY <1>1, <2>1, <2>2
<1>5. CASE \/ Reg!TakePending \/ Reg!StopDiscovery \/ UNCHANGED devices
           \/ \E t \in Reg!Thread : Reg!Emit(t)
  <2>1. UNCHANGED <<peers, https_order, known, seen, after>>
    BY <1>5 DEF Reg!TakePending, Reg!StopDiscovery, Reg!Emit, Reg!gate, Reg!fingerprints,
                devices
  <2>2. \A f \in Fingerprint :
          peers'[f] = NoPeer \/ (peers[f] # NoPeer /\ peers'[f].dev = peers[f].dev)
    BY <2>1
  <2>. QED
    BY <1>1, <2>1, <2>2
<1>. QED
  BY <1>2, <1>3, <1>4, <1>5 DEF Reg!Next

LEMMA MemoryAlways == PanelSpec => []MemoryInv
<1>1. PanelInit => MemoryInv
  BY DevicesBegin
<1>2. DevicesInv /\ MemoryInv /\ [PanelNext]_panel_vars => MemoryInv'
  <2>1. [PanelNext]_panel_vars => Reg!Next \/ UNCHANGED devices
    BY DEF PanelNext, panel_vars
  <2>. QED
    BY <2>1, MemoryStep
<1>. QED
  BY <1>1, <1>2, DevicesAlways, PTL DEF PanelSpec

\* The registry holds as many peers as it may, each under its own fingerprint, the panel's
\* list has its rows at most, the gate remembers as many fingerprints as it may, and the
\* panel is sent a burst of device events and then Rate of them per tick, whatever arrives.
THEOREM DevicesAreBounded == PanelSpec => [](Reg!TypeOK /\ Reg!RateBounded)
<1>1. DevicesInv /\ MemoryInv => Reg!TypeOK /\ Reg!RateBounded
  <2>. SUFFICES ASSUME DevicesInv, MemoryInv
                PROVE  Reg!TypeOK /\ Reg!RateBounded
    OBVIOUS
  <2>. RegistryInv /\ ListInv /\ OrderInv /\ RateInv
    BY DEF DevicesInv
  <2>1. known = {https_order[i] : i \in 1..Len(https_order)}
    BY DEF OrderInv, Remembers
  <2>2. \A f \in Fingerprint :
          peers[f] # NoPeer => peers[f].dev.fingerprint = f /\ peers[f].age \in 0..(Ttl + 1)
    BY DEF RegistryInv, Entry
  <2>3. Cardinality(known) = Len(https_order) /\ Len(https_order) <= MaxFingerprints
    BY DEF OrderInv, Remembers
  <2>4. Cardinality(Reg!Held(peers)) <= MaxPeers /\ Cardinality(Reg!Held(shown)) <= MaxPeers
    BY DEF RegistryInv, ListInv, Fits
  <2>5. DOMAIN peers = Fingerprint
    BY DEF RegistryInv
  <2>6. tokens \in 0..Burst /\ snapshot_pending \in BOOLEAN
    BY DEF RateInv
  <2>a. /\ known \subseteq seen /\ seen \subseteq Fingerprint
        /\ after \in [Fingerprint -> SUBSET Fingerprint]
    BY DEF MemoryInv
  <2>7. Reg!TypeOK
    BY <2>1, <2>2, <2>3, <2>4, <2>5, <2>6, <2>a, SameCount DEF Reg!TypeOK, Reg!Held
  <2>8. Reg!Refilled \in Nat /\ excess \in Nat /\ excess + Reg!Refilled <= Burst /\ Burst \in Nat
    BY Refill, Sizes DEF RateInv
  <2>. QED
    BY <2>7, <2>8 DEF Reg!RateBounded
<1>. QED
  BY <1>1, DevicesAlways, MemoryAlways, PTL

\* Whatever arrives, and however many fingerprints are about, the bounds hold and plain HTTP
\* is recorded for a fingerprint that was seen over HTTPS only after as many others were
\* remembered since as the gate has room for (PeerGate::admits, main.rs:380-395).
THEOREM PeersStayRight == PanelSpec => []PeersAreRight
<1>1. DevicesInv /\ MemoryInv => Reg!PlainOnlyIfForgotten
  BY SameCount DEF MemoryInv, Reg!PlainOnlyIfForgotten
<1>2. Reg!TypeOK /\ Reg!RateBounded /\ Reg!PlainOnlyIfForgotten => PeersAreRight
  BY DEF PeersAreRight, Reg!DevicesAreRight
<1>. QED
  BY <1>1, <1>2, DevicesAlways, MemoryAlways, DevicesAreBounded, PTL
=============================================================================
