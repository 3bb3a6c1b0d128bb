-------------------------- MODULE Received_proofs --------------------------
(***************************************************************************)
(* Proofs about Received, for any transfers, files and folders.            *)
(***************************************************************************)
EXTENDS DiskParts, TLAPS

Event == [kind : {"progress", "file", "completed", "cancelled", "failed"},
          t : Transfer, file : Rc!File \cup {Rc!NoFile}]
Terminal(e) == e.kind \in {"completed", "cancelled", "failed"}
Ends == {"no", "completed", "failed", "cancelled", "discarded"}

LEMMA FoldersTrue == Rc!FoldersOK
BY ReceivedAssumption

\* One handler publishes at a time, for the current session.
LockInv ==
  \A f, g \in Rc!File : upload[f] \in Rc!Publishing /\ upload[g] \in Rc!Publishing => f = g

\* The types; a file is noted and cleaned up for its own transfer.
TypesInv ==
  /\ Rc!TypeOK /\ LockInv
  /\ saved \subseteq Rc!File
  /\ files \in [Transfer -> SUBSET Rc!File] /\ directories \in [Transfer -> SUBSET Folder]
  /\ events \in Seq(Event)
  /\ cleaning \in [for : Transfer \cup {NoTransfer}, files : SUBSET Rc!File, dirs : SUBSET Folder]
  /\ named \subseteq Transfer /\ asked \subseteq Transfer
  /\ ended \in [Transfer -> Ends]
  /\ \A i \in 1..Len(events) :
        /\ events[i].kind \in {"progress", "file"} =>
              events[i].file \in Rc!File /\ events[i].file[1] = events[i].t
        /\ events[i].kind = "file" => upload[events[i].file] = "saved"
  /\ \A f \in cleaning.files : f[1] = cleaning.for
  /\ cleaning.for \in asked \cup {NoTransfer}

\* The end of a transfer is the last event of it, and comes after it left the slot;
\* once it was handled nothing is noted for the transfer any more.
EndsInv ==
  /\ \A i \in 1..Len(events) :
        /\ ended[events[i].t] = "no" /\ cleaning.for # events[i].t
        /\ Terminal(events[i]) =>
              /\ events[i].t # slot
              /\ \A j \in 1..Len(events) : j > i => events[j].t # events[i].t
  /\ slot \in Transfer => ended[slot] = "no" /\ cleaning.for # slot
  /\ \A t \in Transfer : cleaning.for = t => ended[t] = "no"
  /\ \A t \in Transfer : ended[t] # "no" \/ cleaning.for = t => files[t] = {}

\* A transfer whose end is told, or on its way, was ended by someone; one that is told to
\* be cancelled, by the user or the sender.
Cancelled(t) == ender[t] \in {"user", "sender"}
EnderInv ==
  /\ \A i \in 1..Len(events) :
        /\ Terminal(events[i]) => ender[events[i].t] # "nobody"
        /\ events[i].kind = "cancelled" => Cancelled(events[i].t)
  /\ \A t \in Transfer : ended[t] # "no" => ender[t] # "nobody"
  /\ \A t \in Transfer : cleaning.for = t => Cancelled(t)

\* A file on the disk is noted, or will be, or is about to go, or its transfer ended in
\* a way that keeps it; or its handler is still at it, or never reported it.
Noted(f) ==
  \/ upload[f] \in {"linked", "lost"}
  \/ f \in files[f[1]]
  \/ \E i \in 1..Len(events) : events[i].kind = "file" /\ events[i].file = f
  \/ cleaning.for = f[1] /\ f \in cleaning.files
  \/ ended[f[1]] \notin {"no", "discarded"}
NotedInv == \A f \in saved : Noted(f)

\* A mark is about to be used or withdrawn, or the event it is for is on its way.
MarkInv ==
  \A t \in discard_requests :
     marked = t \/ \E i \in 1..Len(events) : events[i].kind = "cancelled" /\ events[i].t = t

ReceiveInv == TypesInv /\ EndsInv /\ EnderInv /\ NotedInv /\ MarkInv

-----------------------------------------------------------------------------
(* The queue *)

LEMMA Appended ==
  ASSUME NEW S, NEW q \in Seq(S), NEW e \in S
  PROVE  /\ Append(q, e) \in Seq(S) /\ Len(q) \in Nat /\ Len(Append(q, e)) = Len(q) + 1
         /\ Append(q, e)[Len(q) + 1] = e
         /\ \A i \in 1..Len(q) : Append(q, e)[i] = q[i]
OBVIOUS

LEMMA AppendedTwo ==
  ASSUME NEW S, NEW q \in Seq(S), NEW e \in S, NEW f \in S
  PROVE  q \o <<e, f>> = Append(Append(q, e), f)
OBVIOUS

LEMMA Tailed ==
  ASSUME NEW S, NEW q \in Seq(S), q # <<>>
  PROVE  /\ Tail(q) \in Seq(S) /\ Len(q) \in Nat /\ Len(q) >= 1 /\ Len(Tail(q)) = Len(q) - 1
         /\ Head(q) = q[1] /\ q[1] \in S
         /\ \A i \in 1..(Len(q) - 1) : Tail(q)[i] = q[i + 1]
OBVIOUS

\* Events are added, all of the session in the slot; after its end none follows.
Grows ==
  /\ events' \in Seq(Event) /\ Len(events) \in Nat /\ Len(events') \in Nat
  /\ Len(events) <= Len(events')
  /\ \A i \in 1..Len(events) : events'[i] = events[i]
  /\ \A i \in 1..Len(events') : i > Len(events) =>
        /\ events'[i].t = slot
        /\ Terminal(events'[i]) => i = Len(events') /\ slot' = NoTransfer

\* The first event is taken.
Shrinks ==
  /\ events \in Seq(Event) /\ Len(events) \in Nat /\ Len(events) >= 1
  /\ events' \in Seq(Event) /\ Len(events') = Len(events) - 1
  /\ Head(events) = events[1] /\ events[1] \in Event
  /\ \A i \in 1..Len(events') : events'[i] = events[i + 1]

LEMMA SendsOne ==
  ASSUME TypesInv, slot \in Transfer, NEW kind, NEW f \in Rc!File \cup {Rc!NoFile},
         kind \in {"progress", "file", "completed", "cancelled", "failed"},
         Rc!Sends(kind, slot, f),
         kind \in {"completed", "cancelled", "failed"} => slot' = NoTransfer
  PROVE  /\ Grows /\ Len(events') = Len(events) + 1
         /\ events'[Len(events')] = [kind |-> kind, t |-> slot, file |-> f]
<1>. DEFINE e == [kind |-> kind, t |-> slot, file |-> f]
<1>1. e \in Event /\ e.t = slot /\ e.kind = kind
  BY DEF Event
<1>2. events' = Append(events, e) /\ events \in Seq(Event)
  BY DEF Rc!Sends, TypesInv
<1>. HIDE DEF e
<1>3. /\ events' \in Seq(Event) /\ Len(events) \in Nat /\ Len(events') = Len(events) + 1
      /\ events'[Len(events) + 1] = e /\ \A i \in 1..Len(events) : events'[i] = events[i]
  BY <1>1, <1>2, Appended
<1>4. Grows
  BY <1>1, <1>3 DEF Grows, Terminal
<1>. QED
  BY <1>3, <1>4 DEF e

LEMMA TakesOne ==
  ASSUME TypesInv, events # <<>>, events' = Tail(events)
  PROVE  Shrinks
BY Tailed DEF TypesInv, Shrinks

\* The events of a publication: the file, and the end with the last.
LEMMA SendsFile ==
  ASSUME TypesInv, NEW f \in Rc!File, Rc!RecordFile(f)
  PROVE  /\ Grows
         /\ \A i \in 1..Len(events') : i > Len(events) =>
               \/ events'[i].kind = "file" /\ events'[i].file = f /\ events'[i].t = f[1]
               \/ events'[i].kind = "completed"
         /\ \E i \in 1..Len(events') : events'[i].kind = "file" /\ events'[i].file = f
<1>. DEFINE rec == [kind |-> "file", t |-> f[1], file |-> f]
            end == [kind |-> "completed", t |-> f[1], file |-> Rc!NoFile]
<1>1. slot = f[1] /\ f[1] \in Transfer
  BY DEF Rc!RecordFile, Rc!File, TypesInv, Rc!TypeOK, Rc!Publishing
<1>2. /\ rec \in Event /\ end \in Event /\ rec.t = f[1] /\ end.t = f[1] /\ rec.kind = "file"
      /\ rec.file = f /\ end.kind = "completed"
  BY <1>1 DEF Event
<1>3. events \in Seq(Event)
  BY DEF TypesInv
<1>4. CASE events' = Append(events, rec)
  <2>. HIDE DEF rec, end
  <2>1. /\ events' \in Seq(Event) /\ Len(events) \in Nat /\ Len(events') = Len(events) + 1
        /\ events'[Len(events) + 1] = rec /\ \A i \in 1..Len(events) : events'[i] = events[i]
    BY <1>2, <1>3, <1>4, Appended
  <2>. QED
    BY <1>1, <1>2, <2>1 DEF Grows, Terminal
<1>5. CASE events' = events \o <<rec, end>> /\ slot' = NoTransfer
  <2>. HIDE DEF rec, end
  <2>. DEFINE q == Append(events, rec)
  <2>1. /\ q \in Seq(Event) /\ Len(events) \in Nat /\ Len(q) = Len(events) + 1
        /\ q[Len(events) + 1] = rec /\ \A i \in 1..Len(events) : q[i] = events[i]
    BY <1>2, <1>3, Appended
  <2>2. events' = Append(q, end)
    BY <1>2, <1>3, <1>5, AppendedTwo
  <2>. HIDE DEF q
  <2>3. /\ events' \in Seq(Event) /\ Len(q) \in Nat /\ Len(events') = Len(q) + 1
        /\ events'[Len(q) + 1] = end /\ \A i \in 1..Len(q) : events'[i] = q[i]
    BY <1>2, <2>1, <2>2, Appended
  <2>4. /\ \A i \in 1..Len(events) : events'[i] = events[i]
        /\ events'[Len(events) + 1] = rec /\ events'[Len(events) + 2] = end
        /\ Len(events') = Len(events) + 2
    BY <2>1, <2>3
  <2>. QED
    <3>1. \A i \in 1..Len(events') : i > Len(events) =>
             i = Len(events) + 1 \/ i = Len(events) + 2
      BY <2>1, <2>4
    <3>2. Len(events') \in Nat /\ Len(events) + 1 \in 1..Len(events')
      BY <2>1, <2>4
    <3>3. Grows
      <4>1. \A i \in 1..Len(events') : i > Len(events) =>
               /\ events'[i].t = slot
               /\ Terminal(events'[i]) => i = Len(events') /\ slot' = NoTransfer
        BY <1>1, <1>2, <1>5, <2>4, <3>1 DEF Terminal
      <4>. QED
        BY <2>1, <2>3, <2>4, <3>2, <4>1 DEF Grows
    <3>4. \A i \in 1..Len(events') : i > Len(events) =>
             \/ events'[i].kind = "file" /\ events'[i].file = f /\ events'[i].t = f[1]
             \/ events'[i].kind = "completed"
      BY <1>2, <2>4, <3>1
    <3>. QED
      BY <1>2, <2>4, <3>2, <3>3, <3>4
<1>. QED
  BY <1>4, <1>5 DEF Rc!RecordFile

-----------------------------------------------------------------------------
(* Types *)

\* What TypesInv says of the events, by itself.
EventsInv ==
  \A i \in 1..Len(events) :
     /\ events[i].kind \in {"progress", "file"} =>
           events[i].file \in Rc!File /\ events[i].file[1] = events[i].t
     /\ events[i].kind = "file" => upload[events[i].file] = "saved"

\* Uploads that are saved stay so, and no event tells of another file.
LEMMA EventsStay ==
  ASSUME TypesInv, events' = events,
         \A f \in Rc!File : upload[f] = "saved" => upload'[f] = "saved"
  PROVE  EventsInv'
BY DEF TypesInv, EventsInv

LEMMA EventsTaken ==
  ASSUME TypesInv, Shrinks, upload' = upload
  PROVE  EventsInv'
<1>1. \A i \in 1..Len(events') : i + 1 \in 1..Len(events) /\ events'[i] = events[i + 1]
  BY DEF Shrinks
<1>. QED
  BY <1>1 DEF TypesInv, EventsInv

LEMMA EventsSent ==
  ASSUME TypesInv, Grows,
         \A f \in Rc!File : upload[f] = "saved" => upload'[f] = "saved",
         \A i \in 1..Len(events') : i > Len(events) =>
            \/ Terminal(events'[i])
            \/ /\ events'[i].file \in Rc!File /\ events'[i].file[1] = events'[i].t
               /\ events'[i].kind = "file" => upload'[events'[i].file] = "saved"
  PROVE  EventsInv'
<1>. SUFFICES ASSUME NEW i \in 1..Len(events')
              PROVE  /\ events'[i].kind \in {"progress", "file"} =>
                          events'[i].file \in Rc!File /\ events'[i].file[1] = events'[i].t
                     /\ events'[i].kind = "file" => upload'[events'[i].file] = "saved"
  BY DEF EventsInv
<1>1. CASE i \in 1..Len(events)
  BY <1>1 DEF TypesInv, Grows
<1>2. CASE i > Len(events)
  BY <1>2 DEF Terminal
<1>. QED
  BY <1>1, <1>2 DEF Grows

\* What a step of the server may be: it lets a session in, tells nothing, ends the session
\* in the slot, or tells of a file of it.
Silent == UNCHANGED <<slot, events, ender, Rc!consumer>>
EndsSlot ==
  /\ slot \in Transfer /\ slot' = NoTransfer /\ UNCHANGED <<saved, Rc!consumer>>
  /\ \E kind \in {"cancelled", "failed"}, who \in {"sender", "server"} :
        /\ Rc!Sends(kind, slot, Rc!NoFile) /\ ender' = [ender EXCEPT ![slot] = who]
        /\ kind = "cancelled" => who = "sender"

LEMMA ServerCases ==
  ASSUME TypesInv, Rc!Server
  PROVE  \/ \E t \in Transfer : Rc!Accepted(t)
         \/ Silent
         \/ EndsSlot
         \/ \E f \in Rc!File : Rc!Progress(f) \/ Rc!RecordFile(f)
<1>1. ASSUME NEW t \in Transfer, Rc!SenderCancels(t) \/ Rc!SessionFails(t)
      PROVE  EndsSlot
  BY <1>1 DEF Rc!SenderCancels, Rc!SessionFails, EndsSlot, Rc!End, Rc!disk
<1>2. ASSUME NEW f \in Rc!File,
             \/ Rc!Reserve(f) \/ Rc!MakeDirs(f) \/ Rc!DropPart(f) \/ Rc!Revalidate(f) \/ Rc!LinkFile(f)
             \/ Rc!DropUpload(f) \/ Rc!LinkAdrift(f)
      PROVE  Silent
  BY <1>2 DEF Rc!Reserve, Rc!MakeDirs, Rc!DropPart, Rc!Revalidate, Rc!LinkFile, Rc!DropUpload,
     Rc!LinkAdrift, Silent
<1>3. ASSUME NEW f \in Rc!File, Rc!LinkFails(f) \/ Rc!UnlinkFails(f)
      PROVE  EndsSlot
  <2>1. slot = f[1] /\ f[1] \in Transfer
    BY <1>3 DEF Rc!LinkFails, Rc!UnlinkFails, TypesInv, Rc!TypeOK, Rc!Publishing, Rc!File
  <2>. QED
    BY <1>3, <2>1 DEF Rc!LinkFails, Rc!UnlinkFails, EndsSlot, Rc!End, Rc!disk
<1>. QED
  BY <1>1, <1>2, <1>3 DEF Rc!Server

\* The server's steps leave the notes alone.
LEMMA ServerTypes ==
  ASSUME TypesInv, UNCHANGED Rc!consumer, slot' \in Transfer \cup {NoTransfer},
         upload' \in [Rc!File -> Rc!Phase],
         \A f \in Rc!File : upload[f] = "saved" => upload'[f] = "saved",
         \A f, g \in Rc!File : upload'[f] \in Rc!Publishing /\ upload'[g] \in Rc!Publishing => f = g,
         \A f \in Rc!File : upload'[f] \in Rc!Publishing => slot' = f[1],
         saved' \subseteq Rc!File,
         \A f \in saved' : upload'[f] \in {"linked", "saved", "lost"} /\ Rc!DirOf(f) \in folders',
         ender' \in [Transfer -> {"nobody", "user", "sender", "server"}],
         events' \in Seq(Event), EventsInv'
  PROVE  TypesInv'
<1>1. Rc!TypeOK'
  BY DEF TypesInv, Rc!TypeOK, Rc!consumer, Rc!notes
<1>2. LockInv'
  BY DEF LockInv
<1>. QED
  BY <1>1, <1>2 DEF TypesInv, Rc!consumer, Rc!notes, EventsInv

\* An upload moves on, and nothing is told.
LEMMA MovesTypes ==
  ASSUME TypesInv, UNCHANGED <<slot, events, ender, Rc!consumer>>,
         NEW f \in Rc!File, NEW phase \in Rc!Phase, Rc!Goto(f, phase),
         upload[f] # "saved",
         phase \in Rc!Publishing => slot = f[1] /\ (Rc!Unlocked \/ upload[f] \in Rc!Publishing),
         folders \subseteq folders',
         \/ saved' = saved /\ (f \in saved => phase \in {"linked", "saved", "lost"})
         \/ /\ saved' = saved \cup {f} /\ Rc!DirOf(f) \in folders'
            /\ phase \in {"linked", "saved", "lost"}
  PROVE  TypesInv'
<1>0. Rc!TypeOK /\ LockInv /\ events \in Seq(Event) /\ saved \subseteq Rc!File
  BY DEF TypesInv
<1>1. /\ upload' \in [Rc!File -> Rc!Phase] /\ upload'[f] = phase
      /\ \A g \in Rc!File : g # f => upload'[g] = upload[g]
      /\ \A g \in Rc!File : upload[g] = "saved" => upload'[g] = "saved"
  BY <1>0 DEF Rc!Goto, Rc!TypeOK
<1>2. \A g, h \in Rc!File : upload'[g] \in Rc!Publishing /\ upload'[h] \in Rc!Publishing => g = h
  BY <1>0, <1>1 DEF LockInv, Rc!Unlocked
<1>3. \A g \in Rc!File : upload'[g] \in Rc!Publishing => slot' = g[1]
  BY <1>0, <1>1 DEF Rc!TypeOK
<1>4. /\ saved' \subseteq Rc!File
      /\ \A g \in saved' : upload'[g] \in {"linked", "saved", "lost"} /\ Rc!DirOf(g) \in folders'
  BY <1>0, <1>1 DEF Rc!TypeOK
<1>5. EventsInv'
  BY <1>1, EventsStay
<1>. QED
  BY <1>0, <1>1, <1>2, <1>3, <1>4, <1>5, ServerTypes DEF Rc!TypeOK

\* The session in the slot ends, by a step of which the upload of f fails, or by another.
LEMMA EndTypes ==
  ASSUME TypesInv, EndsSlot, folders' = folders, upload' \in [Rc!File -> Rc!Phase],
         \A g \in Rc!File : upload'[g] \notin Rc!Publishing,
         \A g \in Rc!File : upload'[g] # upload[g] =>
            upload[g] # "saved" /\ (g \in saved => upload'[g] = "lost")
  PROVE  TypesInv'
<1>0. Rc!TypeOK /\ events \in Seq(Event) /\ saved \subseteq Rc!File
  BY DEF TypesInv
<1>1. PICK kind \in {"cancelled", "failed"}, who \in {"sender", "server"} :
         Rc!Sends(kind, slot, Rc!NoFile) /\ ender' = [ender EXCEPT ![slot] = who]
  BY DEF EndsSlot
<1>2. slot \in Transfer /\ slot' = NoTransfer /\ UNCHANGED <<saved, Rc!consumer>>
  BY DEF EndsSlot
<1>3. /\ Grows /\ Len(events') = Len(events) + 1
      /\ events'[Len(events')] = [kind |-> kind, t |-> slot, file |-> Rc!NoFile]
  BY <1>1, <1>2, SendsOne
<1>4. \A g \in Rc!File : upload[g] = "saved" => upload'[g] = "saved"
  OBVIOUS
<1>5. EventsInv'
  BY <1>3, <1>4, EventsSent DEF Terminal, Grows
<1>6. \A g \in saved' : upload'[g] \in {"linked", "saved", "lost"} /\ Rc!DirOf(g) \in folders'
  BY <1>0, <1>2 DEF Rc!TypeOK
<1>7. ender' \in [Transfer -> {"nobody", "user", "sender", "server"}]
  BY <1>0, <1>1 DEF Rc!TypeOK
<1>. QED
  BY <1>0, <1>2, <1>3, <1>4, <1>5, <1>6, <1>7, ServerTypes DEF Grows

LEMMA TypesKeptByServer ==
  ASSUME TypesInv, Rc!Server
  PROVE  TypesInv'
<1>. USE FoldersTrue DEF Rc!FoldersOK
<1>0. /\ Rc!TypeOK /\ LockInv /\ events \in Seq(Event) /\ saved \subseteq Rc!File
      /\ \A f \in saved : Rc!DirOf(f) \in folders
  BY DEF TypesInv, Rc!TypeOK
<1>1. ASSUME NEW t \in Transfer, Rc!Accepted(t)
      PROVE  TypesInv'
  <2>1. EventsInv'
    BY <1>1, EventsStay DEF Rc!Accepted
  <2>. QED
    BY <1>0, <1>1, <2>1, ServerTypes DEF Rc!Accepted, Rc!disk, Rc!TypeOK, Rc!Unlocked
<1>2. ASSUME NEW t \in Transfer, Rc!SenderCancels(t) \/ Rc!SessionFails(t)
      PROVE  TypesInv'
  <2>1. EndsSlot /\ UNCHANGED <<upload, folders>> /\ Rc!Unlocked
    BY <1>2 DEF Rc!SenderCancels, Rc!SessionFails, EndsSlot, Rc!End, Rc!disk
  <2>. QED
    BY <1>0, <2>1, EndTypes DEF Rc!Unlocked, Rc!TypeOK
<1>3. ASSUME NEW f \in Rc!File, Rc!Reserve(f) \/ Rc!MakeDirs(f) \/ Rc!DropPart(f) \/ Rc!Revalidate(f)
      PROVE  TypesInv'
  <2>1. /\ UNCHANGED <<slot, events, ender, saved, Rc!consumer>> /\ folders \subseteq folders'
        /\ upload[f] \in {"new", "reserved", "part"}
        /\ \E phase \in {"reserved", "part", "gone", "linking"} :
              Rc!Goto(f, phase) /\ (phase = "linking" => Rc!Unlocked /\ slot = f[1])
    BY <1>3 DEF Rc!Reserve, Rc!MakeDirs, Rc!DropPart, Rc!Revalidate, Rc!disk
  <2>2. f \notin saved
    BY <1>0, <2>1 DEF Rc!TypeOK
  <2>. QED
    BY <2>1, <2>2, MovesTypes DEF Rc!Phase, Rc!Publishing
<1>4. ASSUME NEW f \in Rc!File, Rc!LinkFile(f) \/ Rc!DropUpload(f) \/ Rc!LinkAdrift(f)
      PROVE  TypesInv'
  <2>1. /\ UNCHANGED <<slot, events, ender, Rc!consumer>> /\ folders \subseteq folders'
        /\ upload[f] \in {"linking", "linked", "adrift"}
        /\ \/ /\ saved' = saved \cup {f} /\ Rc!DirOf(f) \in folders'
              /\ \/ Rc!Goto(f, "linked") /\ upload[f] = "linking"
                 \/ Rc!Goto(f, "lost")
           \/ /\ saved' = saved /\ upload[f] \in {"linking", "adrift"}
              /\ \E phase \in {"adrift", "gone"} : Rc!Goto(f, phase)
           \/ saved' = saved /\ Rc!Goto(f, "lost")
    BY <1>4 DEF Rc!LinkFile, Rc!DropUpload, Rc!LinkAdrift, Rc!disk
  <2>2. upload[f] \in {"linking", "adrift"} => f \notin saved
    BY <1>0 DEF Rc!TypeOK
  <2>3. upload[f] = "linking" => slot = f[1]
    BY <1>0 DEF Rc!TypeOK, Rc!Publishing
  <2>. QED
    BY <2>1, <2>2, <2>3, MovesTypes DEF Rc!Phase, Rc!Publishing
<1>5. ASSUME NEW f \in Rc!File, Rc!LinkFails(f) \/ Rc!UnlinkFails(f)
      PROVE  TypesInv'
  <2>1. slot = f[1] /\ f[1] \in Transfer
    BY <1>0, <1>5 DEF Rc!LinkFails, Rc!UnlinkFails, Rc!TypeOK, Rc!Publishing, Rc!File
  <2>2. EndsSlot /\ UNCHANGED folders
    BY <1>5, <2>1 DEF Rc!LinkFails, Rc!UnlinkFails, EndsSlot, Rc!End, Rc!disk
  <2>3. \/ upload[f] = "linking" /\ Rc!Goto(f, "gone")
        \/ upload[f] = "linked" /\ Rc!Goto(f, "lost")
    BY <1>5 DEF Rc!LinkFails, Rc!UnlinkFails
  <2>4. /\ upload' \in [Rc!File -> Rc!Phase]
        /\ \A g \in Rc!File : g # f => upload'[g] = upload[g] /\ upload[g] \notin Rc!Publishing
    BY <1>0, <2>3 DEF Rc!Goto, Rc!TypeOK, Rc!Phase, LockInv, Rc!Publishing
  <2>5. upload'[f] \in {"gone", "lost"} /\ (f \in saved => upload'[f] = "lost")
    BY <1>0, <2>3 DEF Rc!Goto, Rc!TypeOK
  <2>. QED
    BY <2>2, <2>3, <2>4, <2>5, EndTypes DEF Rc!Publishing
<1>6. ASSUME NEW f \in Rc!File, Rc!Progress(f)
      PROVE  TypesInv'
  <2>1. slot = f[1] /\ slot \in Transfer /\ Rc!Sends("progress", slot, f)
        /\ UNCHANGED <<slot, upload, Rc!disk, ender, Rc!consumer>>
    BY <1>6 DEF Rc!Progress, Rc!File
  <2>2. /\ Grows /\ Len(events') = Len(events) + 1
        /\ events'[Len(events')] = [kind |-> "progress", t |-> slot, file |-> f]
    BY <2>1, SendsOne
  <2>3. EventsInv'
    BY <2>1, <2>2, EventsSent DEF Grows
  <2>. QED
    BY <1>0, <2>1, <2>2, <2>3, ServerTypes DEF Grows, Rc!disk, Rc!TypeOK, LockInv
<1>7. ASSUME NEW f \in Rc!File, Rc!RecordFile(f)
      PROVE  TypesInv'
  <2>1. /\ Rc!Goto(f, "saved") /\ upload[f] = "linked" /\ UNCHANGED <<Rc!disk, Rc!consumer>>
        /\ slot' \in {slot, NoTransfer}
        /\ ender' = ender \/ ender' = [ender EXCEPT ![f[1]] = "server"]
    BY <1>7 DEF Rc!RecordFile
  <2>2. /\ upload' \in [Rc!File -> Rc!Phase] /\ upload'[f] = "saved"
        /\ \A g \in Rc!File : g # f => upload'[g] = upload[g]
    BY <1>0, <2>1 DEF Rc!Goto, Rc!TypeOK, Rc!Phase
  <2>3. \A g \in Rc!File : upload'[g] \notin Rc!Publishing
    BY <1>0, <2>1, <2>2 DEF LockInv, Rc!Publishing
  <2>4. EventsInv'
    BY <1>7, <2>2, SendsFile, EventsSent DEF Terminal
  <2>5. events' \in Seq(Event)
    BY <1>7, SendsFile DEF Grows
  <2>6. \A g \in saved' : upload'[g] \in {"linked", "saved", "lost"} /\ Rc!DirOf(g) \in folders'
    BY <1>0, <2>1, <2>2 DEF Rc!TypeOK, Rc!disk
  <2>7. ender' \in [Transfer -> {"nobody", "user", "sender", "server"}]
    BY <1>0, <2>1 DEF Rc!TypeOK
  <2>. QED
    BY <1>0, <2>1, <2>2, <2>3, <2>4, <2>5, <2>6, <2>7, ServerTypes DEF Rc!TypeOK, Rc!disk
<1>. QED
  BY <1>1, <1>2, <1>3, <1>4, <1>5, <1>6, <1>7 DEF Rc!Server

LEMMA TypesKept ==
  ASSUME TypesInv, Rc!Next \/ UNCHANGED receive
  PROVE  TypesInv'
<1>. USE FoldersTrue DEF Rc!FoldersOK
<1>0. Rc!TypeOK /\ events \in Seq(Event) /\ saved \subseteq Rc!File
  BY DEF TypesInv
<1>1. ASSUME NEW t \in Transfer, Rc!CancelIncoming(t)
      PROVE  TypesInv'
  <2>1. Rc!TypeOK'
    BY <1>0, <1>1 DEF Rc!CancelIncoming, Rc!TypeOK, Rc!disk, Rc!notes
  <2>. QED
    BY <1>1, <2>1 DEF Rc!CancelIncoming, TypesInv, LockInv, Rc!disk, Rc!notes
<1>2. CASE Rc!CancelSession
  <2>1. events' \in Seq(Event) /\ EventsInv'
    <3>1. CASE slot = marked
      <4>1. slot \in Transfer /\ Rc!Sends("cancelled", slot, Rc!NoFile) /\ slot' = NoTransfer
            /\ UNCHANGED upload
        BY <1>0, <1>2, <3>1 DEF Rc!CancelSession, Rc!End, Rc!TypeOK
      <4>2. /\ Grows /\ Len(events') = Len(events) + 1
            /\ events'[Len(events')] = [kind |-> "cancelled", t |-> slot, file |-> Rc!NoFile]
        BY <4>1, SendsOne
      <4>. QED
        BY <4>1, <4>2, EventsSent DEF Terminal, Grows
    <3>2. CASE slot # marked
      BY <1>0, <1>2, <3>2, EventsStay DEF Rc!CancelSession, Rc!End
    <3>. QED
      BY <3>1, <3>2
  <2>2. Rc!TypeOK'
    BY <1>0, <1>2 DEF Rc!CancelSession, Rc!End, Rc!TypeOK, Rc!Unlocked, Rc!disk, Rc!notes
  <2>. QED
    BY <1>2, <2>1, <2>2 DEF Rc!CancelSession, TypesInv, LockInv, EventsInv, Rc!disk, Rc!notes
<1>3. CASE Rc!ReadNote
  <2>1. Shrinks /\ UNCHANGED <<slot, upload, Rc!disk, discard_requests, marked, cleaning, asked, ended, ender>>
    BY <1>3, TakesOne DEF Rc!ReadNote
  <2>2. events' \in Seq(Event) /\ EventsInv' /\ Head(events) = events[1] /\ events[1] \in Event
        /\ 1 \in 1..Len(events)
    BY <2>1, EventsTaken DEF Shrinks
  <2>. DEFINE e == events[1]
  <2>3. e.t \in Transfer /\ e.file \in Rc!File /\ e.file[1] = e.t
        /\ (e.kind = "file" => upload[e.file] = "saved")
    BY <1>3, <2>2 DEF Rc!ReadNote, TypesInv, Event
  <2>4. Rc!FolderOf(e.file) \subseteq Folder
    BY <2>3 DEF Rc!FolderOf, Rc!DirOf, Rc!File
  <2>5. /\ files' \in [Transfer -> SUBSET Rc!File] /\ directories' \in [Transfer -> SUBSET Folder]
        /\ \A t \in Transfer : files'[t] \subseteq {f \in Rc!File : f[1] = t /\ upload[f] = "saved"}
    BY <1>0, <1>3, <2>2, <2>3, <2>4 DEF Rc!ReadNote, Rc!Note, TypesInv, Rc!TypeOK
  <2>6. named' \subseteq Transfer /\ progress' = progress
    BY <1>3, <2>2, <2>3 DEF Rc!ReadNote, TypesInv
  <2>7. Rc!TypeOK'
    BY <1>0, <2>1, <2>5 DEF Rc!TypeOK, Rc!disk
  <2>. QED
    BY <2>1, <2>2, <2>5, <2>6, <2>7 DEF TypesInv, LockInv, EventsInv, Rc!disk
<1>4. CASE Rc!ReadEnd \/ Rc!ReadCancelled
  <2>1. Shrinks /\ UNCHANGED <<slot, upload, Rc!disk, marked, asked, named, ender>> /\ Rc!Finish(Head(events).t)
    BY <1>4, TakesOne DEF Rc!ReadEnd, Rc!ReadCancelled
  <2>2. events' \in Seq(Event) /\ EventsInv' /\ Head(events) = events[1] /\ events[1] \in Event
    BY <2>1, EventsTaken DEF Shrinks
  <2>. DEFINE t == events[1].t
  <2>3. t \in Transfer
    BY <2>2 DEF Event
  <2>4. /\ files' \in [Transfer -> SUBSET Rc!File] /\ directories' \in [Transfer -> SUBSET Folder]
        /\ \A u \in Transfer : files'[u] \subseteq {f \in Rc!File : f[1] = u /\ upload[f] = "saved"}
    BY <1>0, <2>1, <2>2, <2>3 DEF Rc!Finish, TypesInv, Rc!TypeOK
  <2>5. discard_requests' \subseteq discard_requests
    BY <1>4 DEF Rc!ReadEnd, Rc!ReadCancelled
  <2>6. ended' \in [Transfer -> Ends]
    BY <1>4, <2>2, <2>3 DEF Rc!ReadEnd, Rc!ReadCancelled, TypesInv, Ends
  <2>7. /\ cleaning' \in [for : Transfer \cup {NoTransfer}, files : SUBSET Rc!File, dirs : SUBSET Folder]
        /\ \A f \in cleaning'.files : f[1] = cleaning'.for
        /\ cleaning'.for \in asked \cup {NoTransfer}
    <3>1. CASE cleaning' = cleaning
      BY <3>1 DEF TypesInv
    <3>2. CASE /\ t \in discard_requests
               /\ cleaning' = [for |-> t, files |-> files[t], dirs |-> directories[t]]
      BY <1>0, <2>3, <3>2 DEF TypesInv, Rc!TypeOK
    <3>. QED
      BY <1>4, <2>2, <3>1, <3>2 DEF Rc!ReadEnd, Rc!ReadCancelled
  <2>8. Rc!TypeOK'
    BY <1>0, <2>1, <2>4, <2>5 DEF Rc!TypeOK, Rc!disk
  <2>. QED
    BY <2>1, <2>2, <2>4, <2>6, <2>7, <2>8 DEF TypesInv, LockInv, EventsInv, Rc!disk
<1>5. CASE Rc!RemoveFile
  <2>. PICK f \in cleaning.files : /\ saved' = saved \ {f}
                                   /\ cleaning' = [cleaning EXCEPT !.files = @ \ {f}]
    BY <1>5 DEF Rc!RemoveFile
  <2>1. /\ cleaning' \in [for : Transfer \cup {NoTransfer}, files : SUBSET Rc!File, dirs : SUBSET Folder]
        /\ cleaning'.for = cleaning.for /\ cleaning'.files \subseteq cleaning.files
    BY DEF TypesInv
  <2>2. Rc!TypeOK'
    BY <1>0, <1>5 DEF Rc!RemoveFile, Rc!TypeOK, Rc!notes
  <2>. QED
    BY <1>5, <2>1, <2>2 DEF Rc!RemoveFile, TypesInv, LockInv, Rc!notes
<1>6. CASE Rc!RemoveDir
  <2>. PICK d \in cleaning.dirs : /\ folders' = IF Rc!InFolder(d) = {} THEN folders \ {d} ELSE folders
                                  /\ cleaning' = [cleaning EXCEPT !.dirs = @ \ {d}]
    BY <1>6 DEF Rc!RemoveDir
  <2>1. /\ cleaning' \in [for : Transfer \cup {NoTransfer}, files : SUBSET Rc!File, dirs : SUBSET Folder]
        /\ cleaning'.for = cleaning.for /\ cleaning'.files = cleaning.files
    BY DEF TypesInv
  <2>2. \A f \in saved : Rc!DirOf(f) \in folders'
    BY <1>0 DEF Rc!TypeOK, Rc!InFolder
  <2>3. Rc!TypeOK'
    BY <1>0, <1>6, <2>2 DEF Rc!RemoveDir, Rc!TypeOK, Rc!notes
  <2>. QED
    BY <1>6, <2>1, <2>3 DEF Rc!RemoveDir, TypesInv, LockInv, Rc!notes
<1>7. CASE Rc!Cleaned
  <2>1. Rc!TypeOK'
    BY <1>0, <1>7 DEF Rc!Cleaned, Rc!TypeOK, Rc!disk, Rc!notes
  <2>2. cleaning' = Rc!Idle /\ ended' \in [Transfer -> Ends]
    BY <1>7 DEF Rc!Cleaned, TypesInv, Ends
  <2>. QED
    BY <1>7, <2>1, <2>2 DEF Rc!Cleaned, Rc!Idle, TypesInv, LockInv, Rc!disk, Rc!notes
<1>8. CASE UNCHANGED receive
  <2>1. Rc!TypeOK'
    BY <1>0, <1>8 DEF receive, Rc!TypeOK, Rc!disk, Rc!notes
  <2>. QED
    BY <1>8, <2>1 DEF receive, TypesInv, LockInv, Rc!disk, Rc!notes
<1>. QED
  BY <1>1, <1>2, <1>3, <1>4, <1>5, <1>6, <1>7, <1>8, TypesKeptByServer DEF Rc!Next, Rc!EventTask

-----------------------------------------------------------------------------
(* Ends *)

LEMMA EventAt ==
  ASSUME TypesInv
  PROVE  \A i \in 1..Len(events) : events[i] \in Event /\ events[i].t \in Transfer
<1>1. events \in Seq(Event)
  BY DEF TypesInv
<1>2. \A i \in 1..Len(events) : events[i] \in Event
  BY <1>1
<1>3. \A e \in Event : e.t \in Transfer
  BY DEF Event
<1>. QED
  BY <1>2, <1>3

\* Events of the session in the slot, the last of which may be its end.
LEMMA EndsSent ==
  ASSUME TypesInv, EndsInv, slot \in Transfer, Grows, slot' \in {slot, NoTransfer},
         UNCHANGED <<ended, cleaning, files>>
  PROVE  EndsInv'
<1>. USE FoldersTrue DEF Rc!FoldersOK
<1>1. ASSUME NEW i \in 1..Len(events')
      PROVE  /\ ended'[events'[i].t] = "no" /\ cleaning'.for # events'[i].t
             /\ Terminal(events'[i]) =>
                   /\ events'[i].t # slot'
                   /\ \A j \in 1..Len(events') : j > i => events'[j].t # events'[i].t
  <2>1. CASE i \in 1..Len(events)
    <3>1. events'[i] = events[i] /\ events[i].t \in Transfer
      BY <2>1, EventAt DEF Grows
    <3>2. ASSUME Terminal(events[i]), NEW j \in 1..Len(events'), j > i
          PROVE  events'[j].t # events[i].t
      <4>1. CASE j \in 1..Len(events)
        BY <2>1, <3>2, <4>1 DEF Grows, EndsInv
      <4>2. CASE j > Len(events)
        BY <2>1, <3>2, <4>2 DEF Grows, EndsInv
      <4>. QED
        BY <4>1, <4>2 DEF Grows
    <3>. QED
      BY <2>1, <3>1, <3>2 DEF EndsInv
  <2>2. CASE i > Len(events)
    BY <2>2 DEF Grows, EndsInv
  <2>. QED
    BY <2>1, <2>2 DEF Grows
<1>. QED
  BY <1>1 DEF EndsInv

\* What is neither an event nor an end changes nothing here.
LEMMA EndsSame ==
  ASSUME EndsInv, UNCHANGED <<slot, events, ended, cleaning, files>>
  PROVE  EndsInv'
BY DEF EndsInv

LEMMA EndsKeptByServer ==
  ASSUME TypesInv, EndsInv, EnderInv, Rc!Server
  PROVE  EndsInv'
<1>. USE FoldersTrue DEF Rc!FoldersOK
<1>1. ASSUME NEW t \in Transfer, Rc!Accepted(t)
      PROVE  EndsInv'
  <2>1. /\ slot' = t /\ UNCHANGED <<events, ended, cleaning, files>> /\ ender[t] = "nobody"
    BY <1>1 DEF Rc!Accepted, Rc!consumer, Rc!notes
  <2>2. /\ ended[t] = "no" /\ cleaning.for # t
        /\ \A i \in 1..Len(events) : Terminal(events[i]) => events[i].t # t
    BY <2>1 DEF EnderInv, Cancelled
  <2>. QED
    BY <2>1, <2>2 DEF EndsInv
<1>2. CASE Silent
  BY <1>2, EndsSame DEF Silent, Rc!consumer, Rc!notes
<1>3. CASE EndsSlot
  <2>1. PICK kind \in {"cancelled", "failed"} : Rc!Sends(kind, slot, Rc!NoFile)
    BY <1>3 DEF EndsSlot
  <2>2. slot \in Transfer /\ slot' = NoTransfer /\ UNCHANGED Rc!consumer
    BY <1>3 DEF EndsSlot
  <2>. QED
    BY <2>1, <2>2, SendsOne, EndsSent DEF Rc!consumer, Rc!notes
<1>4. ASSUME NEW f \in Rc!File, Rc!Progress(f)
      PROVE  EndsInv'
  <2>1. slot = f[1] /\ slot \in Transfer /\ Rc!Sends("progress", slot, f) /\ UNCHANGED <<slot, Rc!consumer>>
    BY <1>4 DEF Rc!Progress, Rc!File
  <2>. QED
    BY <2>1, SendsOne, EndsSent DEF Rc!consumer, Rc!notes
<1>5. ASSUME NEW f \in Rc!File, Rc!RecordFile(f)
      PROVE  EndsInv'
  <2>1. slot \in Transfer /\ slot' \in {slot, NoTransfer} /\ UNCHANGED Rc!consumer
    BY <1>5 DEF Rc!RecordFile, Rc!File, TypesInv, Rc!TypeOK, Rc!Publishing
  <2>. QED
    BY <1>5, <2>1, SendsFile, EndsSent DEF Rc!consumer, Rc!notes
<1>. QED
  BY <1>1, <1>2, <1>3, <1>4, <1>5, ServerCases

LEMMA EndsKept ==
  ASSUME TypesInv, EndsInv, EnderInv, Rc!Next \/ UNCHANGED receive
  PROVE  EndsInv'
<1>. USE FoldersTrue DEF Rc!FoldersOK
<1>1. ASSUME NEW t \in Transfer, Rc!CancelIncoming(t)
      PROVE  EndsInv'
  BY <1>1, EndsSame DEF Rc!CancelIncoming, Rc!notes
<1>2. CASE Rc!CancelSession
  <2>1. CASE slot = marked
    <3>1. /\ slot \in Transfer /\ Rc!Sends("cancelled", slot, Rc!NoFile) /\ slot' = NoTransfer
          /\ UNCHANGED <<ended, cleaning, files>>
      BY <1>2, <2>1 DEF Rc!CancelSession, Rc!End, TypesInv, Rc!TypeOK, Rc!notes
    <3>. QED
      BY <3>1, SendsOne, EndsSent
  <2>2. CASE slot # marked
    BY <1>2, <2>2, EndsSame DEF Rc!CancelSession, Rc!End, Rc!notes
  <2>. QED
    BY <2>1, <2>2
<1>3. CASE Rc!ReadNote \/ Rc!ReadEnd \/ Rc!ReadCancelled
  <2>1. Shrinks /\ slot' = slot /\ Head(events) = events[1] /\ events[1] \in Event
        /\ cleaning = Rc!Idle
    BY <1>3, TakesOne DEF Rc!ReadNote, Rc!ReadEnd, Rc!ReadCancelled, Shrinks
  <2>. DEFINE t == events[1].t
  <2>2. /\ t \in Transfer /\ 1 \in 1..Len(events)
        /\ \A i \in 1..Len(events') : i + 1 \in 1..Len(events) /\ events'[i] = events[i + 1]
    BY <2>1 DEF Event, Shrinks
  <2>3. CASE Rc!ReadNote
    <3>1. /\ UNCHANGED <<ended, cleaning>> /\ ended[t] = "no" /\ cleaning.for # t
          /\ \A u \in Transfer : u # t => files'[u] = files[u]
      BY <2>1, <2>2, <2>3 DEF Rc!ReadNote, Rc!Note, EndsInv, TypesInv
    <3>2. \A i, j \in 1..Len(events') : j > i => j + 1 > i + 1
      BY <2>1 DEF Shrinks
    <3>3. ASSUME NEW i \in 1..Len(events')
          PROVE  /\ ended'[events'[i].t] = "no" /\ cleaning'.for # events'[i].t
                 /\ Terminal(events'[i]) =>
                       /\ events'[i].t # slot'
                       /\ \A j \in 1..Len(events') : j > i => events'[j].t # events'[i].t
      <4>1. events'[i] = events[i + 1] /\ i + 1 \in 1..Len(events)
        BY <2>2
      <4>2. ASSUME Terminal(events'[i]), NEW j \in 1..Len(events'), j > i
            PROVE  events'[j].t # events'[i].t
        <5>1. events'[j] = events[j + 1] /\ j + 1 \in 1..Len(events) /\ j + 1 > i + 1
          BY <2>2, <3>2, <4>2
        <5>2. Terminal(events[i + 1])
          BY <4>1, <4>2
        <5>. QED
          BY <4>1, <5>1, <5>2 DEF EndsInv
      <4>. QED
        BY <2>1, <3>1, <4>1, <4>2 DEF EndsInv
    <3>4. \A u \in Transfer : ended'[u] # "no" \/ cleaning'.for = u => files'[u] = {}
      BY <3>1 DEF EndsInv
    <3>. QED
      BY <2>1, <3>1, <3>3, <3>4 DEF EndsInv
  <2>4. CASE Rc!ReadEnd \/ Rc!ReadCancelled
    <3>1. Terminal(events[1]) /\ Rc!Finish(t)
      BY <2>1, <2>4 DEF Rc!ReadEnd, Rc!ReadCancelled, Terminal
    <3>2. /\ t # slot /\ ended[t] = "no"
          /\ \A i \in 1..Len(events') : events'[i].t # t /\ events'[i].t \in Transfer
      <4>1. \A i \in 1..Len(events') : i + 1 > 1
        BY <2>1 DEF Shrinks
      <4>2. \A i \in 1..Len(events) : events[i].t \in Transfer
        BY EventAt
      <4>. QED
        BY <2>2, <3>1, <4>1, <4>2 DEF EndsInv
    <3>3. /\ files'[t] = {} /\ \A u \in Transfer : u # t => files'[u] = files[u]
      BY <2>2, <3>1 DEF Rc!Finish, TypesInv
    <3>4. /\ \A u \in Transfer : u # t => ended'[u] = ended[u]
          /\ cleaning'.for = t => ended'[t] = "no"
          /\ cleaning'.for \in {t, NoTransfer}
      <4>1. CASE UNCHANGED ended /\ cleaning' = [for |-> t, files |-> files[t], dirs |-> directories[t]]
        BY <3>2, <4>1
      <4>2. CASE UNCHANGED cleaning /\ \E e \in {"completed", "failed", "cancelled"} :
                    ended' = [ended EXCEPT ![t] = e]
        BY <2>1, <2>2, <4>2 DEF Rc!Idle, TypesInv
      <4>. QED
        BY <2>1, <2>4, <4>1, <4>2 DEF Rc!ReadEnd, Rc!ReadCancelled
    <3>5. \A i, j \in 1..Len(events') : j > i => j + 1 > i + 1
      BY <2>1 DEF Shrinks
    <3>6. slot' = slot /\ (slot \in Transfer => ended'[slot] = "no" /\ cleaning'.for # slot)
      BY <2>1, <3>2, <3>4 DEF EndsInv
    <3>7. ASSUME NEW i \in 1..Len(events')
          PROVE  /\ ended'[events'[i].t] = "no" /\ cleaning'.for # events'[i].t
                 /\ Terminal(events'[i]) =>
                       /\ events'[i].t # slot'
                       /\ \A j \in 1..Len(events') : j > i => events'[j].t # events'[i].t
      <4>1. /\ events'[i] = events[i + 1] /\ i + 1 \in 1..Len(events)
            /\ events'[i].t \in Transfer \ {t}
        BY <2>2, <3>2
      <4>2. ended'[events'[i].t] = "no" /\ cleaning'.for # events'[i].t
        BY <3>4, <4>1 DEF EndsInv
      <4>3. ASSUME Terminal(events'[i]), NEW j \in 1..Len(events'), j > i
            PROVE  events'[j].t # events'[i].t
        <5>1. events'[j] = events[j + 1] /\ j + 1 \in 1..Len(events) /\ j + 1 > i + 1
          BY <2>2, <3>5, <4>3
        <5>2. Terminal(events[i + 1])
          BY <4>1, <4>3
        <5>. QED
          BY <4>1, <5>1, <5>2 DEF EndsInv
      <4>4. Terminal(events'[i]) => events'[i].t # slot'
        BY <3>6, <4>1 DEF EndsInv
      <4>. QED
        BY <4>2, <4>3, <4>4
    <3>8. \A u \in Transfer : cleaning'.for = u => ended'[u] = "no"
      BY <3>4
    <3>9. \A u \in Transfer : ended'[u] # "no" \/ cleaning'.for = u => files'[u] = {}
      BY <3>3, <3>4 DEF EndsInv
    <3>. QED
      BY <3>6, <3>7, <3>8, <3>9 DEF EndsInv
  <2>. QED
    BY <1>3, <2>3, <2>4
<1>4. CASE Rc!RemoveFile \/ Rc!RemoveDir
  <2>1. cleaning'.for = cleaning.for /\ UNCHANGED <<slot, events, ended, files>>
    BY <1>4 DEF Rc!RemoveFile, Rc!RemoveDir, TypesInv, Rc!notes
  <2>. QED
    BY <2>1 DEF EndsInv
<1>5. CASE Rc!Cleaned
  <2>1. /\ cleaning' = Rc!Idle /\ ended' = [ended EXCEPT ![cleaning.for] = "discarded"]
        /\ UNCHANGED <<slot, events, files>>
    BY <1>5 DEF Rc!Cleaned, Rc!notes
  <2>2. \A i \in 1..Len(events) : events[i].t \in Transfer
    BY EventAt
  <2>3. \A u \in Transfer : u # cleaning.for => ended'[u] = ended[u]
    BY <2>1 DEF TypesInv
  <2>. QED
    BY <2>1, <2>2, <2>3 DEF EndsInv, Rc!Idle
<1>6. CASE UNCHANGED receive
  BY <1>6, EndsSame DEF receive, Rc!notes
<1>. QED
  BY <1>1, <1>2, <1>3, <1>4, <1>5, <1>6, EndsKeptByServer DEF Rc!Next, Rc!EventTask

-----------------------------------------------------------------------------
(* Who ended a transfer *)

\* Whoever is named stays named; events are added for the one in the slot, and say who.
LEMMA EnderSent ==
  ASSUME TypesInv, EndsInv, EnderInv, slot \in Transfer, Grows, UNCHANGED <<ended, cleaning>>,
         \A t \in Transfer : t # slot => ender'[t] = ender[t],
         \A i \in 1..Len(events') : i > Len(events) =>
            /\ Terminal(events'[i]) => ender'[slot] # "nobody"
            /\ events'[i].kind = "cancelled" => ender'[slot] \in {"user", "sender"}
  PROVE  EnderInv'
<1>. USE FoldersTrue DEF Rc!FoldersOK
<1>1. ASSUME NEW i \in 1..Len(events')
      PROVE  /\ Terminal(events'[i]) => ender'[events'[i].t] # "nobody"
             /\ events'[i].kind = "cancelled" => ender'[events'[i].t] \in {"user", "sender"}
  <2>1. CASE i \in 1..Len(events)
    <3>1. events'[i] = events[i] /\ events[i].t \in Transfer
      BY <2>1, EventAt DEF Grows
    <3>2. Terminal(events[i]) => events[i].t # slot
      BY <2>1 DEF EndsInv
    <3>3. events[i].kind = "cancelled" => Terminal(events[i])
      BY DEF Terminal
    <3>. QED
      BY <2>1, <3>1, <3>2, <3>3 DEF EnderInv, Cancelled
  <2>2. CASE i > Len(events)
    BY <2>2 DEF Grows, Cancelled
  <2>. QED
    BY <2>1, <2>2 DEF Grows
<1>2. \A t \in Transfer : ended[t] # "no" \/ cleaning.for = t => t # slot
  BY DEF EndsInv
<1>. QED
  BY <1>1, <1>2 DEF EnderInv, Cancelled

LEMMA EnderSame ==
  ASSUME EnderInv, UNCHANGED <<events, ended, cleaning, ender>>
  PROVE  EnderInv'
BY DEF EnderInv, Cancelled

LEMMA EnderKeptByServer ==
  ASSUME TypesInv, EndsInv, EnderInv, Rc!Server
  PROVE  EnderInv'
<1>1. ASSUME NEW t \in Transfer, Rc!Accepted(t)
      PROVE  EnderInv'
  BY <1>1, EnderSame DEF Rc!Accepted, Rc!consumer
<1>2. CASE Silent
  BY <1>2, EnderSame DEF Silent, Rc!consumer
<1>3. CASE EndsSlot
  <2>1. PICK kind \in {"cancelled", "failed"}, who \in {"sender", "server"} :
           /\ Rc!Sends(kind, slot, Rc!NoFile) /\ ender' = [ender EXCEPT ![slot] = who]
           /\ kind = "cancelled" => who = "sender"
    BY <1>3 DEF EndsSlot
  <2>2. slot \in Transfer /\ slot' = NoTransfer /\ UNCHANGED Rc!consumer
    BY <1>3 DEF EndsSlot
  <2>3. /\ Grows /\ Len(events') = Len(events) + 1
        /\ events'[Len(events')] = [kind |-> kind, t |-> slot, file |-> Rc!NoFile]
    BY <2>1, <2>2, SendsOne
  <2>4. \A i \in 1..Len(events') : i > Len(events) => i = Len(events')
    BY <2>3 DEF Grows
  <2>5. ender'[slot] = who /\ \A t \in Transfer : t # slot => ender'[t] = ender[t]
    BY <2>1, <2>2 DEF TypesInv, Rc!TypeOK
  <2>. QED
    BY <2>1, <2>2, <2>3, <2>4, <2>5, EnderSent DEF Rc!consumer, Cancelled
<1>4. ASSUME NEW f \in Rc!File, Rc!Progress(f)
      PROVE  EnderInv'
  <2>1. slot = f[1] /\ slot \in Transfer /\ Rc!Sends("progress", slot, f)
        /\ UNCHANGED <<ender, Rc!consumer>>
    BY <1>4 DEF Rc!Progress, Rc!File
  <2>2. /\ Grows /\ Len(events') = Len(events) + 1
        /\ events'[Len(events')] = [kind |-> "progress", t |-> slot, file |-> f]
    BY <2>1, SendsOne
  <2>3. \A i \in 1..Len(events') : i > Len(events) => i = Len(events')
    BY <2>2 DEF Grows
  <2>. QED
    BY <2>1, <2>2, <2>3, EnderSent DEF Rc!consumer, Terminal
<1>5. ASSUME NEW f \in Rc!File, Rc!RecordFile(f)
      PROVE  EnderInv'
  <2>1. slot = f[1] /\ slot \in Transfer /\ UNCHANGED Rc!consumer
        /\ ((ender' = ender /\ slot' = slot) \/ ender' = [ender EXCEPT ![f[1]] = "server"])
    BY <1>5, FoldersTrue DEF Rc!RecordFile, Rc!File, TypesInv, Rc!TypeOK, Rc!Publishing
  <2>2. /\ Grows
        /\ \A i \in 1..Len(events') : i > Len(events) => events'[i].kind \in {"file", "completed"}
    BY <1>5, SendsFile
  <2>3. \A i \in 1..Len(events') : i > Len(events) =>
           (Terminal(events'[i]) => slot' = NoTransfer)
    BY <2>2 DEF Grows
  <2>4. /\ \A t \in Transfer : t # slot => ender'[t] = ender[t]
        /\ slot' = NoTransfer => ender'[slot] # "nobody"
    BY <2>1, FoldersTrue DEF TypesInv, Rc!TypeOK, Rc!FoldersOK
  <2>. QED
    BY <2>1, <2>2, <2>3, <2>4, EnderSent DEF Rc!consumer
<1>. QED
  BY <1>1, <1>2, <1>3, <1>4, <1>5, ServerCases

LEMMA EnderKept ==
  ASSUME TypesInv, EndsInv, EnderInv, Rc!Next \/ UNCHANGED receive
  PROVE  EnderInv'
<1>. USE FoldersTrue DEF Rc!FoldersOK
<1>1. ASSUME NEW t \in Transfer, Rc!CancelIncoming(t)
      PROVE  EnderInv'
  BY <1>1, EnderSame DEF Rc!CancelIncoming
<1>2. CASE Rc!CancelSession
  <2>1. CASE slot = marked
    <3>1. /\ slot \in Transfer /\ Rc!Sends("cancelled", slot, Rc!NoFile) /\ slot' = NoTransfer
          /\ UNCHANGED <<ended, cleaning>> /\ ender' = [ender EXCEPT ![slot] = "user"]
      BY <1>2, <2>1 DEF Rc!CancelSession, Rc!End, TypesInv, Rc!TypeOK
    <3>2. ender'[slot] = "user" /\ \A t \in Transfer : t # slot => ender'[t] = ender[t]
      BY <3>1 DEF TypesInv, Rc!TypeOK
    <3>3. Grows
      BY <3>1, SendsOne
    <3>. QED
      BY <3>1, <3>2, <3>3, EnderSent DEF Cancelled
  <2>2. CASE slot # marked
    BY <1>2, <2>2, EnderSame DEF Rc!CancelSession, Rc!End
  <2>. QED
    BY <2>1, <2>2
<1>3. CASE Rc!ReadNote \/ Rc!ReadEnd \/ Rc!ReadCancelled
  <2>1. Shrinks /\ Head(events) = events[1] /\ events[1] \in Event /\ ender' = ender
        /\ cleaning = Rc!Idle
    BY <1>3, TakesOne DEF Rc!ReadNote, Rc!ReadEnd, Rc!ReadCancelled, Shrinks
  <2>. DEFINE t == events[1].t
  <2>2. /\ t \in Transfer /\ 1 \in 1..Len(events)
        /\ \A i \in 1..Len(events') : i + 1 \in 1..Len(events) /\ events'[i] = events[i + 1]
    BY <2>1 DEF Event, Shrinks
  <2>3. \A i \in 1..Len(events') :
           /\ Terminal(events'[i]) => ender'[events'[i].t] # "nobody"
           /\ events'[i].kind = "cancelled" => ender'[events'[i].t] \in {"user", "sender"}
    BY <2>1, <2>2 DEF EnderInv, Cancelled
  <2>4. /\ \A u \in Transfer : ended'[u] # ended[u] => u = t /\ Terminal(events[1])
        /\ \/ cleaning' = cleaning
           \/ cleaning'.for = t /\ events[1].kind = "cancelled"
    <3>1. CASE Rc!ReadNote
      BY <3>1 DEF Rc!ReadNote
    <3>2. CASE Rc!ReadEnd
      BY <2>1, <2>2, <3>2 DEF Rc!ReadEnd, Terminal, TypesInv
    <3>3. CASE Rc!ReadCancelled
      <4>1. events[1].kind = "cancelled" /\ Terminal(events[1])
        BY <2>1, <3>3 DEF Rc!ReadCancelled, Terminal
      <4>2. CASE UNCHANGED ended /\ cleaning' = [for |-> t, files |-> files[t], dirs |-> directories[t]]
        BY <4>1, <4>2
      <4>3. CASE UNCHANGED cleaning /\ ended' = [ended EXCEPT ![t] = "cancelled"]
        BY <2>2, <4>1, <4>3 DEF TypesInv
      <4>. QED
        BY <2>1, <3>3, <4>2, <4>3 DEF Rc!ReadCancelled
    <3>. QED
      BY <1>3, <3>1, <3>2, <3>3
  <2>. QED
    BY <2>1, <2>2, <2>3, <2>4 DEF EnderInv, Cancelled
<1>4. CASE Rc!RemoveFile \/ Rc!RemoveDir
  <2>1. cleaning'.for = cleaning.for /\ UNCHANGED <<events, ended, ender>>
    BY <1>4 DEF Rc!RemoveFile, Rc!RemoveDir, TypesInv
  <2>. QED
    BY <2>1 DEF EnderInv, Cancelled
<1>5. CASE Rc!Cleaned
  <2>1. /\ cleaning' = Rc!Idle /\ ended' = [ended EXCEPT ![cleaning.for] = "discarded"]
        /\ UNCHANGED <<events, ender>>
    BY <1>5 DEF Rc!Cleaned
  <2>2. \A u \in Transfer : u # cleaning.for => ended'[u] = ended[u]
    BY <2>1 DEF TypesInv
  <2>. QED
    BY <2>1, <2>2 DEF EnderInv, Cancelled, Rc!Idle
<1>6. CASE UNCHANGED receive
  BY <1>6, EnderSame DEF receive
<1>. QED
  BY <1>1, <1>2, <1>3, <1>4, <1>5, <1>6, EnderKeptByServer DEF Rc!Next, Rc!EventTask

-----------------------------------------------------------------------------
(* What is on the disk is noted *)

\* More events, and nothing taken from the notes.
LEMMA NotedGrows ==
  ASSUME NotedInv, UNCHANGED <<ended, cleaning, files>>, events' = events \/ Grows,
         NEW f \in saved, upload[f] \in {"linked", "lost"} => upload'[f] \in {"linked", "lost"}
  PROVE  Noted(f)'
<1>. Noted(f)
  BY DEF NotedInv
<1>. QED
  BY DEF Noted, Grows

\* A step of the server adds events, or none.
LEMMA ServerTells ==
  ASSUME TypesInv, Rc!Server
  PROVE  events' = events \/ Grows
<1>1. CASE EndsSlot
  <2>1. PICK kind \in {"cancelled", "failed"} : Rc!Sends(kind, slot, Rc!NoFile)
    BY <1>1 DEF EndsSlot
  <2>. QED
    BY <1>1, <2>1, SendsOne DEF EndsSlot
<1>2. ASSUME NEW f \in Rc!File, Rc!Progress(f)
      PROVE  Grows
  <2>1. slot = f[1] /\ slot \in Transfer /\ Rc!Sends("progress", slot, f)
    BY <1>2 DEF Rc!Progress, Rc!File
  <2>. QED
    BY <2>1, SendsOne
<1>. QED
  BY <1>1, <1>2, SendsFile, ServerCases DEF Rc!Accepted, Silent

LEMMA NotedKept ==
  ASSUME TypesInv, EndsInv, NotedInv, Rc!Next \/ UNCHANGED receive
  PROVE  NotedInv'
<1>. USE FoldersTrue DEF Rc!FoldersOK
<1>0. \A f \in saved : f \in Rc!File /\ f[1] \in Transfer
  BY DEF TypesInv, Rc!File
<1>00. ASSUME Rc!Server
       PROVE  UNCHANGED <<ended, cleaning, files>> /\ (events' = events \/ Grows)
  <2>1. UNCHANGED Rc!consumer
    BY <1>00, ServerCases DEF Rc!Accepted, Silent, EndsSlot, Rc!Progress, Rc!RecordFile
  <2>. QED
    BY <1>00, <2>1, ServerTells DEF Rc!consumer, Rc!notes
<1>1. ASSUME NEW t \in Transfer, Rc!Accepted(t) \/ Rc!SenderCancels(t) \/ Rc!SessionFails(t)
      PROVE  NotedInv'
  <2>1. UNCHANGED <<upload, saved>>
    BY <1>1 DEF Rc!Accepted, Rc!SenderCancels, Rc!SessionFails, Rc!disk
  <2>. QED
    BY <1>00, <1>1, <2>1, NotedGrows DEF NotedInv, Rc!Server
<1>2. ASSUME NEW f \in Rc!File,
             Rc!Reserve(f) \/ Rc!MakeDirs(f) \/ Rc!DropPart(f) \/ Rc!Revalidate(f) \/ Rc!Progress(f)
      PROVE  NotedInv'
  <2>1. /\ saved' = saved /\ upload[f] \notin {"linked", "lost"}
        /\ upload' = upload \/ \E phase \in Rc!Phase : Rc!Goto(f, phase)
    BY <1>2 DEF Rc!Reserve, Rc!MakeDirs, Rc!DropPart, Rc!Revalidate, Rc!Progress, Rc!disk,
       Rc!Phase
  <2>2. \A g \in saved : upload[g] \in {"linked", "lost"} => upload'[g] \in {"linked", "lost"}
    BY <1>0, <2>1 DEF Rc!Goto, TypesInv, Rc!TypeOK
  <2>. QED
    BY <1>00, <1>2, <2>1, <2>2, NotedGrows DEF NotedInv, Rc!Server
<1>3. ASSUME NEW f \in Rc!File,
             Rc!LinkFile(f) \/ Rc!LinkFails(f) \/ Rc!UnlinkFails(f) \/ Rc!DropUpload(f) \/ Rc!LinkAdrift(f)
      PROVE  NotedInv'
  <2>1. \/ /\ saved' = saved /\ upload[f] \notin {"linked", "lost"}
           /\ \E phase \in {"adrift", "gone"} : Rc!Goto(f, phase)
        \/ /\ saved' = saved \cup {f} \/ saved' = saved
           /\ \E phase \in {"linked", "lost"} : Rc!Goto(f, phase)
    BY <1>3 DEF Rc!LinkFile, Rc!LinkFails, Rc!UnlinkFails, Rc!DropUpload, Rc!LinkAdrift, Rc!disk
  <2>2. \A g \in saved : upload[g] \in {"linked", "lost"} => upload'[g] \in {"linked", "lost"}
    BY <1>0, <2>1 DEF Rc!Goto, TypesInv, Rc!TypeOK
  <2>3. f \in saved' /\ f \notin saved => upload'[f] \in {"linked", "lost"}
    BY <2>1 DEF Rc!Goto, TypesInv, Rc!TypeOK
  <2>. QED
    BY <1>00, <1>3, <2>1, <2>2, <2>3, NotedGrows DEF NotedInv, Noted, Rc!Server
<1>5. ASSUME NEW f \in Rc!File, Rc!RecordFile(f)
      PROVE  NotedInv'
  <2>1. saved' = saved /\ Rc!Goto(f, "saved") /\ UNCHANGED <<ended, cleaning, files>>
    BY <1>5 DEF Rc!RecordFile, Rc!consumer, Rc!notes, Rc!disk
  <2>2. Grows /\ Noted(f)'
    BY <1>5, SendsFile DEF Noted
  <2>3. \A g \in saved : g # f /\ upload[g] \in {"linked", "lost"} => upload'[g] \in {"linked", "lost"}
    BY <1>0, <2>1 DEF Rc!Goto, TypesInv, Rc!TypeOK
  <2>. QED
    BY <2>1, <2>2, <2>3, NotedGrows DEF NotedInv
<1>7. ASSUME NEW t \in Transfer, Rc!CancelIncoming(t)
      PROVE  NotedInv'
  BY <1>7, NotedGrows DEF Rc!CancelIncoming, NotedInv, Rc!notes, Rc!disk
<1>8. CASE Rc!CancelSession
  <2>1. UNCHANGED <<upload, saved, ended, cleaning, files>>
    BY <1>8 DEF Rc!CancelSession, Rc!notes, Rc!disk
  <2>2. events' = events \/ Grows
    <3>1. CASE slot = marked
      <4>1. slot \in Transfer /\ Rc!Sends("cancelled", slot, Rc!NoFile) /\ slot' = NoTransfer
        BY <1>8, <3>1 DEF Rc!CancelSession, Rc!End, TypesInv, Rc!TypeOK
      <4>. QED
        BY <4>1, SendsOne
    <3>2. CASE slot # marked
      BY <1>8, <3>2 DEF Rc!CancelSession, Rc!End
    <3>. QED
      BY <3>1, <3>2
  <2>. QED
    BY <2>1, <2>2, NotedGrows DEF NotedInv
<1>9. CASE Rc!ReadNote \/ Rc!ReadEnd \/ Rc!ReadCancelled
  <2>1. Shrinks /\ Head(events) = events[1] /\ events[1] \in Event /\ cleaning = Rc!Idle
        /\ saved' = saved /\ upload' = upload
    BY <1>9, TakesOne DEF Rc!ReadNote, Rc!ReadEnd, Rc!ReadCancelled, Shrinks, Rc!disk
  <2>. DEFINE t == events[1].t
  <2>2. /\ t \in Transfer /\ 1 \in 1..Len(events) /\ ended[t] = "no"
        /\ \A i \in 1..Len(events) :
              i = 1 \/ (i - 1 \in 1..Len(events') /\ events'[i - 1] = events[i])
    <3>1. t \in Transfer /\ 1 \in 1..Len(events)
      BY <2>1, EventAt DEF Shrinks
    <3>2. \A i \in 1..Len(events) : i # 1 => i - 1 \in 1..Len(events') /\ (i - 1) + 1 = i
      BY <2>1 DEF Shrinks
    <3>. QED
      BY <2>1, <3>1, <3>2 DEF Shrinks, EndsInv
  <2>. SUFFICES ASSUME NEW f \in saved
                PROVE  Noted(f)'
    BY <2>1 DEF NotedInv
  <2>3. /\ Noted(f) /\ f[1] \in Transfer
        /\ \/ upload[f] \in {"linked", "lost"} \/ f \in files[f[1]] \/ (\E i \in 1..Len(events) : events[i].kind = "file" /\ events[i].file = f)
              \/ ended[f[1]] \notin {"no", "discarded"}
        /\ upload[f] \in {"linked", "lost"} => Noted(f)'
    BY <1>0, <2>1 DEF NotedInv, Noted, Rc!Idle
  <2>4. CASE Rc!ReadNote
    <3>1. /\ UNCHANGED <<ended, cleaning>>
          /\ files' = IF events[1].kind = "file" THEN [files EXCEPT ![t] = @ \cup {events[1].file}]
                      ELSE files
      BY <2>1, <2>4 DEF Rc!ReadNote, Rc!Note
    <3>2. CASE f \in files[f[1]]
      BY <2>2, <2>3, <3>1, <3>2 DEF TypesInv, Noted
    <3>3. ASSUME NEW i \in 1..Len(events), events[i].kind = "file", events[i].file = f
          PROVE  Noted(f)'
      <4>1. CASE i = 1
        <5>1. f[1] = t
          BY <2>2, <3>3, <4>1 DEF TypesInv
        <5>. QED
          BY <2>2, <3>1, <3>3, <4>1, <5>1 DEF Noted, TypesInv
      <4>2. CASE i # 1
        BY <2>2, <3>3, <4>2 DEF Noted
      <4>. QED
        BY <4>1, <4>2
    <3>4. CASE ended[f[1]] \notin {"no", "discarded"}
      BY <3>1, <3>4 DEF Noted
    <3>. QED
      BY <2>3, <3>2, <3>3, <3>4
  <2>5. CASE Rc!ReadEnd \/ Rc!ReadCancelled
    <3>1. /\ Rc!Finish(t) /\ events[1].kind # "file"
          /\ \/ UNCHANGED ended /\ cleaning' = [for |-> t, files |-> files[t], dirs |-> directories[t]]
             \/ UNCHANGED cleaning /\ \E e \in {"completed", "failed", "cancelled"} :
                    ended' = [ended EXCEPT ![t] = e]
      BY <2>1, <2>5 DEF Rc!ReadEnd, Rc!ReadCancelled
    <3>2. CASE f \in files[f[1]]
      <4>1. CASE f[1] = t
        BY <2>2, <3>1, <3>2, <4>1 DEF Noted, TypesInv
      <4>2. CASE f[1] # t
        BY <2>3, <3>1, <3>2, <4>2 DEF Noted, Rc!Finish, TypesInv
      <4>. QED
        BY <4>1, <4>2
    <3>3. ASSUME NEW i \in 1..Len(events), events[i].kind = "file", events[i].file = f
          PROVE  Noted(f)'
      BY <2>2, <3>1, <3>3 DEF Noted
    <3>4. CASE ended[f[1]] \notin {"no", "discarded"}
      BY <2>2, <2>3, <3>1, <3>4 DEF Noted, TypesInv
    <3>. QED
      BY <2>3, <3>2, <3>3, <3>4
  <2>. QED
    BY <1>9, <2>4, <2>5
<1>10. CASE Rc!RemoveFile
  <2>. PICK g \in cleaning.files : /\ saved' = saved \ {g}
                                   /\ cleaning' = [cleaning EXCEPT !.files = @ \ {g}]
    BY <1>10 DEF Rc!RemoveFile
  <2>1. cleaning'.for = cleaning.for /\ cleaning'.files = cleaning.files \ {g}
        /\ UNCHANGED <<upload, events, files, ended>>
    BY <1>10 DEF Rc!RemoveFile, TypesInv, Rc!notes
  <2>. QED
    BY <2>1 DEF NotedInv, Noted
<1>11. CASE Rc!RemoveDir
  <2>1. cleaning'.for = cleaning.for /\ cleaning'.files = cleaning.files
        /\ UNCHANGED <<upload, events, files, ended, saved>>
    BY <1>11 DEF Rc!RemoveDir, TypesInv, Rc!notes
  <2>. QED
    BY <2>1 DEF NotedInv, Noted
<1>12. CASE Rc!Cleaned
  <2>1. /\ cleaning.files = {} /\ ended' = [ended EXCEPT ![cleaning.for] = "discarded"]
        /\ UNCHANGED <<upload, events, files, saved>>
    BY <1>12 DEF Rc!Cleaned, Rc!notes, Rc!disk
  <2>. SUFFICES ASSUME NEW f \in saved
                PROVE  Noted(f)'
    BY <2>1 DEF NotedInv
  <2>2. Noted(f) /\ f[1] \in Transfer
    BY <1>0 DEF NotedInv
  <2>3. f[1] # cleaning.for => ended'[f[1]] = ended[f[1]]
    BY <2>1, <2>2 DEF TypesInv
  <2>4. CASE f[1] = cleaning.for
    BY <2>1, <2>2, <2>4 DEF EndsInv, Noted
  <2>5. CASE f[1] # cleaning.for
    BY <2>1, <2>2, <2>3, <2>5 DEF Noted
  <2>. QED
    BY <2>4, <2>5
<1>13. CASE UNCHANGED receive
  BY <1>13, NotedGrows DEF receive, NotedInv, Rc!notes, Rc!disk
<1>. QED
  BY <1>1, <1>2, <1>3, <1>5, <1>7, <1>8, <1>9, <1>10, <1>11, <1>12, <1>13
  DEF Rc!Next, Rc!Server, Rc!EventTask

-----------------------------------------------------------------------------
(* The marks *)

LEMMA MarkGrows ==
  ASSUME MarkInv, events' = events \/ Grows, UNCHANGED <<discard_requests, marked>>
  PROVE  MarkInv'
BY DEF MarkInv, Grows

LEMMA MarkKept ==
  ASSUME TypesInv, EndsInv, MarkInv, Rc!Next \/ UNCHANGED receive
  PROVE  MarkInv'
<1>. USE FoldersTrue DEF Rc!FoldersOK
<1>0. discard_requests \subseteq Transfer
  BY DEF TypesInv, Rc!TypeOK
<1>1. CASE Rc!Server
  <2>1. UNCHANGED Rc!consumer
    BY <1>1, ServerCases DEF Rc!Accepted, Silent, EndsSlot, Rc!Progress, Rc!RecordFile
  <2>. QED
    BY <1>1, <2>1, ServerTells, MarkGrows DEF Rc!consumer
<1>2. ASSUME NEW t \in Transfer, Rc!CancelIncoming(t)
      PROVE  MarkInv'
  BY <1>0, <1>2 DEF Rc!CancelIncoming, MarkInv
<1>3. CASE Rc!CancelSession
  <2>1. CASE slot = marked
    <3>1. slot \in Transfer /\ Rc!Sends("cancelled", slot, Rc!NoFile) /\ slot' = NoTransfer
          /\ UNCHANGED discard_requests
      BY <1>3, <2>1 DEF Rc!CancelSession, Rc!End, TypesInv, Rc!TypeOK
    <3>2. /\ Grows /\ Len(events') = Len(events) + 1
          /\ events'[Len(events')] = [kind |-> "cancelled", t |-> slot, file |-> Rc!NoFile]
      BY <3>1, SendsOne
    <3>3. \A t \in discard_requests : t # marked =>
             \E i \in 1..Len(events') : events'[i].kind = "cancelled" /\ events'[i].t = t
      BY <3>2 DEF MarkInv, Grows
    <3>4. Len(events') \in 1..Len(events') /\ events'[Len(events')].kind = "cancelled"
          /\ events'[Len(events')].t = marked
      BY <2>1, <3>2 DEF Grows
    <3>. QED
      BY <3>1, <3>3, <3>4 DEF MarkInv
  <2>2. CASE slot # marked
    BY <1>3, <2>2 DEF Rc!CancelSession, Rc!End, MarkInv
  <2>. QED
    BY <2>1, <2>2
<1>4. CASE Rc!ReadNote \/ Rc!ReadEnd \/ Rc!ReadCancelled
  <2>1. Shrinks /\ Head(events) = events[1] /\ UNCHANGED marked
        /\ discard_requests' \subseteq discard_requests
    BY <1>4, TakesOne DEF Rc!ReadNote, Rc!ReadEnd, Rc!ReadCancelled, Shrinks
  <2>2. \A i \in 1..Len(events) :
           i = 1 \/ (i - 1 \in 1..Len(events') /\ events'[i - 1] = events[i])
    <3>1. \A i \in 1..Len(events) : i # 1 => i - 1 \in 1..Len(events') /\ (i - 1) + 1 = i
      BY <2>1 DEF Shrinks
    <3>. QED
      BY <2>1, <3>1 DEF Shrinks
  <2>3. events[1].kind = "cancelled" => events[1].t \notin discard_requests'
    BY <1>4, <2>1 DEF Rc!ReadNote, Rc!ReadEnd, Rc!ReadCancelled
  <2>. QED
    BY <2>1, <2>2, <2>3 DEF MarkInv
<1>5. CASE Rc!RemoveFile \/ Rc!RemoveDir \/ Rc!Cleaned \/ UNCHANGED receive
  BY <1>5, MarkGrows DEF Rc!RemoveFile, Rc!RemoveDir, Rc!Cleaned, receive
<1>. QED
  BY <1>1, <1>2, <1>3, <1>4, <1>5 DEF Rc!Next, Rc!EventTask

-----------------------------------------------------------------------------
(* Theorems *)

LEMMA InitInv == Rc!Init => ReceiveInv
<1>. SUFFICES ASSUME Rc!Init
              PROVE  ReceiveInv
  OBVIOUS
<1>. USE FoldersTrue DEF Rc!FoldersOK, Rc!Init, Rc!Idle
<1>1. events \in Seq(Event) /\ Len(events) = 0 /\ 1..0 = {}
  OBVIOUS
<1>2. Rc!TypeOK /\ LockInv
  BY DEF Rc!TypeOK, LockInv, Rc!Phase, Rc!Publishing
<1>3. TypesInv
  BY <1>1, <1>2 DEF TypesInv, Ends
<1>4. EndsInv /\ EnderInv
  BY <1>1 DEF EndsInv, EnderInv
<1>. QED
  BY <1>3, <1>4 DEF ReceiveInv, NotedInv, MarkInv

\* The inductive invariant of the notes, the marks and the files on the disk holds of every
\* behaviour of the server, the event task and the command loop.
THEOREM Invariance == DiskSpec => []ReceiveInv
<1>1. ReceiveInv /\ [DiskNext]_disk_vars => ReceiveInv'
  <2>1. [DiskNext]_disk_vars => Rc!Next \/ UNCHANGED receive
    BY DEF DiskNext, disk_vars
  <2>. QED
    BY <2>1, TypesKept, EndsKept, EnderKept, NotedKept, MarkKept DEF ReceiveInv
<1>2. DiskInit => ReceiveInv
  BY InitInv DEF DiskInit
<1>. QED
  BY <1>1, <1>2, PTL DEF DiskSpec

\* The notes of the event task name published files of their own transfer (ReceivedFiles),
\* and a handler that publishes does it for the current session (the lock).
THEOREM Types == DiskSpec => []Rc!TypeOK
<1>1. ReceiveInv => Rc!TypeOK
  BY DEF ReceiveInv, TypesInv
<1>. QED
  BY Invariance, <1>1, PTL

\* Once the panel is told that the transfer the user cancelled ended, none of its files is
\* left or will be saved, but one whose handler was dropped as it was linked
\* (received::discard, main.rs); and the mark that makes a cancel delete files does not
\* outlive the transfer (main.rs discard_requests).
THEOREM Gone == DiskSpec => []CancelledIsGone
<1>1. ReceiveInv => Rc!ReportedFilesGone
  <2>. SUFFICES ASSUME ReceiveInv, NEW f \in Rc!File, ended[f[1]] = "discarded", f \in saved,
                       upload[f] # "lost"
                PROVE  FALSE
    BY DEF Rc!ReportedFilesGone
  <2>1. f[1] \in Transfer /\ Noted(f)
    BY DEF Rc!File, ReceiveInv, NotedInv
  <2>2. files[f[1]] = {} /\ cleaning.for # f[1] /\ slot # f[1]
    BY <2>1 DEF ReceiveInv, EndsInv
  <2>3. upload[f] # "linked"
    BY <2>2 DEF ReceiveInv, TypesInv, Rc!TypeOK, Rc!Publishing
  <2>4. ASSUME NEW i \in 1..Len(events), events[i].kind = "file", events[i].file = f
        PROVE  FALSE
    BY <2>4 DEF ReceiveInv, EndsInv, TypesInv
  <2>. QED
    BY <2>1, <2>2, <2>3, <2>4 DEF Noted
<1>2. ReceiveInv => Rc!NoStaleMark
  BY DEF ReceiveInv, MarkInv, EndsInv, Rc!NoStaleMark
<1>. QED
  BY Invariance, <1>1, <1>2, PTL DEF CancelledIsGone

\* A file that was saved goes only if its own transfer was cancelled, by the user or the
\* sender, and the user had asked for it (received::discard, main.rs).
THEOREM Stays == DiskSpec => OnlyCancelledGoes
<1>1. ReceiveInv /\ [DiskNext]_disk_vars => [Rc!DiscardStep]_receive
  <2>. SUFFICES ASSUME ReceiveInv, Rc!Next, NEW f \in saved \ saved'
                PROVE  f[1] \in asked /\ ender[f[1]] \in {"user", "sender"}
    BY DEF DiskNext, disk_vars, Rc!DiscardStep
  <2>1. Rc!RemoveFile
    <3>1. ASSUME NEW t \in Transfer, Rc!Accepted(t) \/ Rc!SenderCancels(t) \/ Rc!SessionFails(t)
          PROVE  FALSE
      BY <3>1 DEF Rc!Accepted, Rc!SenderCancels, Rc!SessionFails, Rc!disk
    <3>2. ASSUME NEW g \in Rc!File,
                 \/ Rc!Reserve(g) \/ Rc!MakeDirs(g) \/ Rc!Progress(g) \/ Rc!DropPart(g) \/ Rc!Revalidate(g)
                 \/ Rc!LinkFile(g) \/ Rc!LinkFails(g) \/ Rc!UnlinkFails(g) \/ Rc!RecordFile(g)
                 \/ Rc!DropUpload(g) \/ Rc!LinkAdrift(g)
          PROVE  FALSE
      BY <3>2 DEF Rc!Reserve, Rc!MakeDirs, Rc!Progress, Rc!DropPart, Rc!Revalidate, Rc!LinkFile,
         Rc!LinkFails,
         Rc!UnlinkFails, Rc!RecordFile, Rc!DropUpload, Rc!LinkAdrift, Rc!disk
    <3>. QED
      BY <3>1, <3>2 DEF Rc!Next, Rc!Server, Rc!EventTask, Rc!CancelSession, Rc!CancelIncoming,
         Rc!ReadNote, Rc!ReadEnd,
         Rc!ReadCancelled, Rc!RemoveDir, Rc!Cleaned, Rc!disk
  <2>2. f \in cleaning.files /\ f \in Rc!File
    BY <2>1 DEF Rc!RemoveFile, ReceiveInv, TypesInv
  <2>3. f[1] \in Transfer /\ cleaning.for = f[1]
    BY <2>2 DEF Rc!File, ReceiveInv, TypesInv
  <2>. QED
    BY <2>2, <2>3, FoldersTrue DEF ReceiveInv, TypesInv, EnderInv, Cancelled, Rc!FoldersOK
<1>. QED
  BY Invariance, <1>1, PTL DEF DiskSpec, OnlyCancelledGoes

=============================================================================
