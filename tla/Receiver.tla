------------------------------ MODULE Receiver ------------------------------
(***************************************************************************)
(* The LocalSend receiver: one upload slot shared by the prepare-upload,    *)
(* upload and cancel handlers and by the idle sweep                         *)
(* (backend/vendor/localsend-rs/src/server/{handlers,server}.rs and         *)
(* core/session.rs).                                                        *)
(*                                                                          *)
(* A handler is a task that gives up control at every `.await`, so it is a  *)
(* program counter here, and every action runs from one await to the next.  *)
(* The server state sits behind an RwLock; all but one of its critical      *)
(* sections contain no await and are single actions.  The exception is the  *)
(* publication of a validated file, which awaits the file system under the  *)
(* lock: Unlocked is FALSE meanwhile.  Hyper drops a handler when the sender*)
(* closes its connection after the whole request was read; a dropped        *)
(* handler runs no further line of its code.                                *)
(*                                                                          *)
(* Abstracted: the PIN gate and the checks on the offer (module PinGate and *)
(* PrepareRefuse), the bytes of a file, the random ids and tokens (a session*)
(* is named by the request that opened it), and auto-accept, which the      *)
(* helper never turns on.                                                   *)
(***************************************************************************)
EXTENDS Naturals, FiniteSets

CONSTANTS
  Requests,       \* prepare-upload requests, each of which may open a session
  Files,          \* file ids an offer may name
  Uploads,        \* upload requests
  Req,            \* Req[u]: the session an upload request names
  File,           \* File[u]: the file an upload request carries
  Offer,          \* Offer[r]: the files request r offers, never empty
  Messages,       \* the requests that offer a text message
  AcceptTimeout,  \* accept_timeout, in clock ticks
  IdleLimit,      \* the 300 s of is_timed_out, in clock ticks
  MaxChunks,      \* bound: chunks of one body that report progress
  NoRequest       \* current_session is None

\* The helper keeps the server's 60 s accept timeout, far below the 300 s TTL.
ASSUME ConstantsAssumption ==
  /\ Req \in [Uploads -> Requests]
  /\ File \in [Uploads -> Files]
  /\ Offer \in [Requests -> (SUBSET Files) \ {{}}]
  /\ Messages \subseteq Requests
  /\ AcceptTimeout \in Nat
  /\ IdleLimit \in Nat
  /\ AcceptTimeout <= IdleLimit
  /\ MaxChunks \in Nat
  /\ IsFiniteSet(Uploads)
  /\ NoRequest \notin Requests

VARIABLES
  slot,        \* the request owning current_session, or NoRequest
  open,        \* current_session is the accepted session, not the placeholder
  idle,        \* ticks since last_activity of current_session
  prepare,     \* program counter of each prepare-upload handler
  answer,      \* the decisions in the user's oneshot: none, or one set of ids
  chosen,      \* accepted_ids of the request: the files of its session
  release,     \* the task a dropped PendingReservation spawns
  uploading,   \* Session.uploading
  received,    \* Session.received
  active,      \* Session.active_uploads
  upload,      \* program counter of each upload handler
  whole,       \* hyper has read the whole upload request
  chunks,      \* chunks written by the upload, capped by MaxChunks
  parts,       \* uploads whose partial file is on disk
  published,   \* uploads whose final file is on disk
  sent         \* how often each event was sent for each request

sessionVars == <<slot, open, idle>>
prepareVars == <<prepare, answer, chosen, release>>
bookVars == <<uploading, received>>
uploadVars == <<upload, whole, chunks>>
diskVars == <<parts, published>>
vars == <<sessionVars, prepareVars, bookVars, active, uploadVars, diskVars, sent>>

-----------------------------------------------------------------------------
(* Types *)

\* request: TransferRequest, expired: TransferRequestExpired, text: TextReceived,
\* file: FileReceived, and the three terminal events of a session.
EventKinds == {"request", "expired", "text", "file", "completed", "cancelled", "failed"}

PreparePhases == {"new",        \* not arrived yet
                  "asking",     \* awaiting the user's decision
                  "deciding",   \* decision taken, awaiting the lock
                  "messaging",  \* session installed, awaiting the lock again
                  "replied",    \* answered
                  "dropped"}    \* dropped with its connection

\* The awaits at which a prepare-upload handler can be dropped.
PendingPhases == {"asking", "deciding", "messaging"}

UploadPhases == {"new",         \* not arrived yet
                 "dirs",        \* creating the parent directories
                 "undo",        \* awaiting the lock to release the reservation
                 "writing",     \* consuming the body
                 "reporting",   \* found the session alive, progress not yet sent
                 "rollback",    \* the upload failed, progress not yet rolled back
                 "withdrawing", \* found the session alive, rollback not yet sent
                 "ending",      \* awaiting the lock to fail the session
                 "hashing",     \* validating the bytes on disk
                 "publishing",  \* awaiting the lock to publish
                 "linking",     \* hard-linking the file, holding the lock
                 "linked",      \* unlinking the partial file, holding the lock
                 "closed",      \* answered
                 "adrift",      \* dropped, but its hard link is still queued
                 "dropped"}     \* dropped with its connection

ReleasePhases == {"none", "quiet", "expire"}

\* The phases that hold the server lock across an await.
LockPhases == {"linking", "linked"}

\* The phases in which active_uploads counts the upload.
CountedPhases == {"writing", "reporting"}

\* The awaits at which an upload handler can be dropped.
AwaitPhases == {"dirs", "undo", "writing", "ending", "hashing",
                "publishing", "linking", "linked"}

TypeOK ==
  /\ slot \in Requests \cup {NoRequest}
  /\ open \in BOOLEAN
  /\ idle \in 0..(IdleLimit + 1)
  /\ prepare \in [Requests -> PreparePhases]
  /\ answer \in [Requests -> SUBSET SUBSET Files]
  /\ chosen \in [Requests -> SUBSET Files]
  /\ release \in [Requests -> ReleasePhases]
  /\ uploading \in [Requests -> SUBSET Files]
  /\ received \in [Requests -> SUBSET Files]
  /\ active \in [Requests -> Nat]
  /\ upload \in [Uploads -> UploadPhases]
  /\ whole \in [Uploads -> BOOLEAN]
  /\ chunks \in [Uploads -> 0..MaxChunks]
  /\ parts \subseteq Uploads
  /\ published \subseteq Uploads
  /\ sent \in [Requests -> [EventKinds -> Nat]]

Init ==
  /\ slot = NoRequest
  /\ open = FALSE
  /\ idle = 0
  /\ prepare = [r \in Requests |-> "new"]
  /\ answer = [r \in Requests |-> {}]
  /\ chosen = [r \in Requests |-> {}]
  /\ release = [r \in Requests |-> "none"]
  /\ uploading = [r \in Requests |-> {}]
  /\ received = [r \in Requests |-> {}]
  /\ active = [r \in Requests |-> 0]
  /\ upload = [u \in Uploads |-> "new"]
  /\ whole = [u \in Uploads |-> FALSE]
  /\ chunks = [u \in Uploads |-> 0]
  /\ parts = {}
  /\ published = {}
  /\ sent = [r \in Requests |-> [k \in EventKinds |-> 0]]

-----------------------------------------------------------------------------
(* Faulty variants: what the mistakes the properties are for would look like. *)
(* No behaviour of Spec uses one of them; the longer ones follow the helpers. *)

\* A publication does not hold the lock while it awaits the file system.
FaultyUnlocked == TRUE

\* The current session is not compared with the one that began the upload.
FaultyAlive(r) == slot # NoRequest

\* is_timed_out looks at the reserved files instead.
FaultyTimedOutByFiles == slot # NoRequest /\ uploading[slot] = {} /\ idle > IdleLimit

\* A token opens a second upload while the first is under way.
FaultyReservable(u) == File[u] \in chosen[Req[u]] \ received[Req[u]]

\* A session is complete once no other file of it is being uploaded.
FaultyAllReceived(u) == uploading[Req[u]] = {File[u]}

-----------------------------------------------------------------------------
(* Helpers *)

\* The server lock is free.
Unlocked == \A u \in Uploads : upload[u] \notin LockPhases

\* The Arc behind Session.alive of request r's session has an owner.
Alive(r) == slot = r /\ open

\* Session::is_timed_out(300) of the current session.
TimedOut == slot # NoRequest /\ active[slot] = 0 /\ idle > IdleLimit

\* Session::begin_upload reserves the file of u.
Reservable(u) == File[u] \in chosen[Req[u]] \ (received[Req[u]] \cup uploading[Req[u]])

\* Session::mark_received finds every accepted file received.
AllReceived(u) == received[Req[u]] \cup {File[u]} = chosen[Req[u]]

\* Events sent for request r in one step.
Send(r, kinds) ==
  sent' = [sent EXCEPT ![r] =
             [k \in EventKinds |-> IF k \in kinds THEN @[k] + 1 ELSE @[k]]]

ClearSlot == slot' = NoRequest /\ open' = FALSE /\ idle' = 0

\* Session::new stored in current_session.
TakeSlot(r, accepted) == slot' = r /\ open' = accepted /\ idle' = 0

Goto(u, phase) == upload' = [upload EXCEPT ![u] = phase]

-----------------------------------------------------------------------------
(* Faulty steps *)

\* PendingReservation has no Drop.
FaultyDropPrepareLeaks(r) ==
  /\ prepare[r] \in PendingPhases
  /\ prepare' = [prepare EXCEPT ![r] = "dropped"]
  /\ UNCHANGED <<sessionVars, answer, chosen, release, bookVars, active, uploadVars, diskVars, sent>>

\* request_id stays set once the prompt is resolved.
FaultyDropPrepareTwice(r) ==
  /\ prepare[r] \in PendingPhases
  /\ prepare' = [prepare EXCEPT ![r] = "dropped"]
  /\ release' = [release EXCEPT ![r] =
       IF prepare[r] \in {"asking", "deciding"} THEN "expire" ELSE "none"]
  /\ UNCHANGED <<sessionVars, answer, chosen, bookVars, active, uploadVars, diskVars, sent>>

\* A stale upload leaves its partial file.
FaultyDiscardStale(u) ==
  /\ upload[u] = "publishing"
  /\ Unlocked
  /\ ~Alive(Req[u])
  /\ Goto(u, "closed")
  /\ UNCHANGED <<sessionVars, prepareVars, bookVars, active, whole, chunks, diskVars, sent>>

\* A failed publication ends the session without a word.
FaultyUnlinkFails(u) ==
  /\ upload[u] = "linked"
  /\ Goto(u, "closed")
  /\ parts' \in {parts, parts \ {u}}
  /\ ClearSlot
  /\ UNCHANGED <<prepareVars, bookVars, active, whole, chunks, published, sent>>

\* The sweep reclaims a session without a word.
FaultySweep ==
  /\ Unlocked
  /\ TimedOut
  /\ ClearSlot
  /\ UNCHANGED <<prepareVars, bookVars, active, uploadVars, diskVars, sent>>

-----------------------------------------------------------------------------
(* prepare-upload *)

\* 401, 429, 204, 413 or 400: refused by the PIN gate or by the checks on the
\* offer, before any session is touched.
PrepareRefuse(r) ==
  /\ prepare[r] = "new"
  /\ prepare' = [prepare EXCEPT ![r] = "replied"]
  /\ UNCHANGED <<sessionVars, answer, chosen, release, bookVars, active, uploadVars, diskVars, sent>>

\* 409: another session holds the slot.
PrepareConflict(r) ==
  /\ prepare[r] = "new"
  /\ Unlocked
  /\ slot # NoRequest
  /\ ~TimedOut
  /\ prepare' = [prepare EXCEPT ![r] = "replied"]
  /\ UNCHANGED <<sessionVars, answer, chosen, release, bookVars, active, uploadVars, diskVars, sent>>

\* The slot is free, or what holds it timed out: reserve it and ask the user.
PrepareReserve(r) ==
  /\ prepare[r] = "new"
  /\ Unlocked
  /\ slot = NoRequest \/ TimedOut
  /\ TakeSlot(r, FALSE)
  /\ prepare' = [prepare EXCEPT ![r] = "asking"]
  /\ Send(r, {"request"})
  /\ UNCHANGED <<answer, chosen, release, bookVars, active, uploadVars, diskVars>>

\* The event consumer decides; its oneshot has a receiver while the handler
\* awaits.  Declining and accepting nothing are the same decision.
Answer(r, ids) ==
  /\ prepare[r] = "asking"
  /\ answer[r] = {}
  /\ answer' = [answer EXCEPT ![r] = {ids}]
  /\ UNCHANGED <<sessionVars, prepare, chosen, release, bookVars, active, uploadVars, diskVars, sent>>

\* The handler wakes up with the decision.
Decide(r) ==
  /\ prepare[r] = "asking"
  /\ prepare' = [prepare EXCEPT ![r] = "deciding"]
  /\ \E ids \in answer[r] : chosen' = [chosen EXCEPT ![r] = ids \cap Offer[r]]
  /\ UNCHANGED <<sessionVars, answer, release, bookVars, active, uploadVars, diskVars, sent>>

\* The handler wakes up with its accept timeout.
ExpirePrompt(r) ==
  /\ prepare[r] = "asking"
  /\ answer[r] = {}
  /\ idle >= AcceptTimeout
  /\ prepare' = [prepare EXCEPT ![r] = "deciding"]
  /\ Send(r, {"expired"})
  /\ UNCHANGED <<sessionVars, answer, chosen, release, bookVars, active, uploadVars, diskVars>>

\* 403: the slot is cleared without looking at what it holds.
Decline(r) ==
  /\ prepare[r] = "deciding"
  /\ chosen[r] = {}
  /\ Unlocked
  /\ ClearSlot
  /\ prepare' = [prepare EXCEPT ![r] = "replied"]
  /\ UNCHANGED <<answer, chosen, release, bookVars, active, uploadVars, diskVars, sent>>

\* The accepted session replaces whatever the slot holds.  A file transfer is
\* answered at once, a message has one more critical section to go.
Install(r) ==
  /\ prepare[r] = "deciding"
  /\ chosen[r] # {}
  /\ Unlocked
  /\ TakeSlot(r, TRUE)
  /\ prepare' = [prepare EXCEPT ![r] = IF r \in Messages THEN "messaging" ELSE "replied"]
  /\ UNCHANGED <<answer, chosen, release, bookVars, active, uploadVars, diskVars, sent>>

\* A message is complete once accepted.
DeliverMessage(r) ==
  /\ prepare[r] = "messaging"
  /\ Unlocked
  /\ Send(r, {"text", "completed"})
  /\ ClearSlot
  /\ prepare' = [prepare EXCEPT ![r] = "replied"]
  /\ UNCHANGED <<answer, chosen, release, bookVars, active, uploadVars, diskVars>>

\* The sender closes its connection: hyper drops the handler at its await, and
\* PendingReservation::drop spawns a task unless the reservation is resolved.
DropPrepare(r) ==
  /\ prepare[r] \in PendingPhases
  /\ prepare' = [prepare EXCEPT ![r] = "dropped"]
  /\ release' = [release EXCEPT ![r] =
       CASE prepare[r] = "asking" -> "expire"
         [] prepare[r] = "deciding" -> "quiet"
         [] prepare[r] = "messaging" -> "none"]
  /\ UNCHANGED <<sessionVars, answer, chosen, bookVars, active, uploadVars, diskVars, sent>>

\* The spawned task: release the reservation if it is still current, and
\* withdraw the prompt the user was still asked.
ReleaseReservation(r) ==
  /\ release[r] # "none"
  /\ Unlocked
  /\ IF slot = r /\ ~open THEN ClearSlot ELSE UNCHANGED sessionVars
  /\ IF release[r] = "expire" THEN Send(r, {"expired"}) ELSE UNCHANGED sent
  /\ release' = [release EXCEPT ![r] = "none"]
  /\ UNCHANGED <<prepare, answer, chosen, bookVars, active, uploadVars, diskVars>>

-----------------------------------------------------------------------------
(* upload *)

\* 403 or 400: a foreign session or token, or a path refused by safe_join.
UploadRefuse(u) ==
  /\ upload[u] = "new"
  /\ prepare[Req[u]] = "replied"
  /\ Unlocked
  /\ Goto(u, "closed")
  /\ UNCHANGED <<sessionVars, prepareVars, bookVars, active, whole, chunks, diskVars, sent>>

\* 409: the file is already received or uploading.
UploadConflict(u) ==
  LET r == Req[u] IN
  /\ upload[u] = "new"
  /\ prepare[r] = "replied"
  /\ Unlocked
  /\ Alive(r)
  /\ File[u] \in chosen[r]
  /\ ~Reservable(u)
  /\ Goto(u, "closed")
  /\ UNCHANGED <<sessionVars, prepareVars, bookVars, active, whole, chunks, diskVars, sent>>

\* Session and token match and Session::begin_upload reserves the file.
UploadBegin(u) ==
  LET r == Req[u] IN
  /\ upload[u] = "new"
  /\ prepare[r] = "replied"
  /\ Unlocked
  /\ Alive(r)
  /\ Reservable(u)
  /\ uploading' = [uploading EXCEPT ![r] = @ \cup {File[u]}]
  /\ Goto(u, "dirs")
  /\ UNCHANGED <<sessionVars, prepareVars, received, active, whole, chunks, diskVars, sent>>

\* Hyper has read the last byte of the request, whoever consumes it and when.
BodyTaken(u) ==
  /\ upload[u] \in {"dirs", "writing"}
  /\ ~whole[u]
  /\ whole' = [whole EXCEPT ![u] = TRUE]
  /\ UNCHANGED <<sessionVars, prepareVars, bookVars, active, upload, chunks, diskVars, sent>>

\* The directories exist: count the upload and create its partial file.
StartBody(u) ==
  /\ upload[u] = "dirs"
  /\ Goto(u, "writing")
  /\ active' = [active EXCEPT ![Req[u]] = @ + 1]
  /\ parts' = parts \cup {u}
  /\ UNCHANGED <<sessionVars, prepareVars, bookVars, whole, chunks, published, sent>>

\* create_dir_all failed.
MkdirFails(u) ==
  /\ upload[u] = "dirs"
  /\ Goto(u, "undo")
  /\ UNCHANGED <<sessionVars, prepareVars, bookVars, active, whole, chunks, diskVars, sent>>

\* 500: end_upload releases the reservation if the session is still current.
EndUpload(u) ==
  LET r == Req[u] IN
  /\ upload[u] = "undo"
  /\ Unlocked
  /\ uploading' = IF Alive(r) THEN [uploading EXCEPT ![r] = @ \ {File[u]}] ELSE uploading
  /\ Goto(u, "closed")
  /\ UNCHANGED <<sessionVars, prepareVars, received, active, whole, chunks, diskVars, sent>>

\* keep_writing holds for a chunk, it is written, and ReceiveProgressContext
\* either throttles its progress or finds the session alive and will send it.
BodyChunk(u) ==
  /\ upload[u] = "writing"
  /\ chunks[u] < MaxChunks
  /\ Alive(Req[u])
  /\ chunks' = [chunks EXCEPT ![u] = @ + 1]
  /\ \E next \in {"writing", "reporting"} : Goto(u, next)
  /\ UNCHANGED <<sessionVars, prepareVars, bookVars, active, whole, diskVars, sent>>

\* The progress event goes out, without a second look at the session.
ReportProgress(u) ==
  /\ upload[u] = "reporting"
  /\ Goto(u, "writing")
  /\ UNCHANGED <<sessionVars, prepareVars, bookVars, active, whole, chunks, diskVars, sent>>

\* The body is over and flushed, with the declared size.
BodyEnds(u) ==
  /\ upload[u] = "writing"
  /\ whole[u]
  /\ active' = [active EXCEPT ![Req[u]] = @ - 1]
  /\ Goto(u, "hashing")
  /\ UNCHANGED <<sessionVars, prepareVars, bookVars, whole, chunks, diskVars, sent>>

\* The body ends otherwise: the connection was lost or paused too long, a chunk
\* was too large, a write failed, the body was short, or the writer found its
\* session gone.
BodyFails(u) ==
  /\ upload[u] = "writing"
  /\ active' = [active EXCEPT ![Req[u]] = @ - 1]
  /\ Goto(u, "rollback")
  /\ UNCHANGED <<sessionVars, prepareVars, bookVars, whole, chunks, diskVars, sent>>

\* The bytes on disk match the declared sha256, or none was declared.
HashMatches(u) ==
  /\ upload[u] = "hashing"
  /\ Goto(u, "publishing")
  /\ UNCHANGED <<sessionVars, prepareVars, bookVars, active, whole, chunks, diskVars, sent>>

\* They do not match, or the file could not be read back.
HashFails(u) ==
  /\ upload[u] = "hashing"
  /\ Goto(u, "rollback")
  /\ UNCHANGED <<sessionVars, prepareVars, bookVars, active, whole, chunks, diskVars, sent>>

\* ReceiveProgressContext::rollback tests the session, and sends the reduced
\* count in a step of its own.  The removal of the partial file is queued at
\* once and outlives the handler.
RollbackProgress(u) ==
  /\ upload[u] = "rollback"
  /\ IF Alive(Req[u])
     THEN Goto(u, "withdrawing") /\ UNCHANGED parts
     ELSE Goto(u, "ending") /\ parts' = parts \ {u}
  /\ UNCHANGED <<sessionVars, prepareVars, bookVars, active, whole, chunks, published, sent>>

WithdrawProgress(u) ==
  /\ upload[u] = "withdrawing"
  /\ Goto(u, "ending")
  /\ parts' = parts \ {u}
  /\ UNCHANGED <<sessionVars, prepareVars, bookVars, active, whole, chunks, published, sent>>

\* 500 or 422: fail_receive_session ends the session if it is still current.
FailSession(u) ==
  LET r == Req[u] IN
  /\ upload[u] = "ending"
  /\ Unlocked
  /\ Goto(u, "closed")
  /\ IF Alive(r)
     THEN ClearSlot /\ Send(r, {"failed"})
     ELSE UNCHANGED <<sessionVars, sent>>
  /\ UNCHANGED <<prepareVars, bookVars, active, whole, chunks, diskVars>>

\* The lock is back: go on only if the session is still the one that began.
Revalidate(u) ==
  /\ upload[u] = "publishing"
  /\ Unlocked
  /\ Alive(Req[u])
  /\ Goto(u, "linking")
  /\ UNCHANGED <<sessionVars, prepareVars, bookVars, active, whole, chunks, diskVars, sent>>

\* 409: a stale upload discards its partial file and touches nothing else.
DiscardStale(u) ==
  /\ upload[u] = "publishing"
  /\ Unlocked
  /\ ~Alive(Req[u])
  /\ Goto(u, "closed")
  /\ parts' = parts \ {u}
  /\ UNCHANGED <<sessionVars, prepareVars, bookVars, active, whole, chunks, published, sent>>

\* commit_temp_file links the partial file under a free name.
LinkFile(u) ==
  /\ upload[u] = "linking"
  /\ Goto(u, "linked")
  /\ published' = published \cup {u}
  /\ UNCHANGED <<sessionVars, prepareVars, bookVars, active, whole, chunks, parts, sent>>

\* 500: it could not, and the session fails.
LinkFails(u) ==
  /\ upload[u] = "linking"
  /\ Goto(u, "closed")
  /\ parts' = parts \ {u}
  /\ Send(Req[u], {"failed"})
  /\ ClearSlot
  /\ UNCHANGED <<prepareVars, bookVars, active, whole, chunks, published>>

\* The partial file is gone: record the file, report it, and complete the
\* session once every accepted file has arrived, all before the lock is freed.
RecordFile(u) ==
  LET r == Req[u] IN
  /\ upload[u] = "linked"
  /\ Goto(u, "closed")
  /\ parts' = parts \ {u}
  /\ uploading' = [uploading EXCEPT ![r] = @ \ {File[u]}]
  /\ received' = [received EXCEPT ![r] = @ \cup {File[u]}]
  /\ Send(r, IF AllReceived(u) THEN {"file", "completed"} ELSE {"file"})
  /\ IF AllReceived(u) THEN ClearSlot ELSE idle' = 0 /\ UNCHANGED <<slot, open>>
  /\ UNCHANGED <<prepareVars, active, whole, chunks, published>>

\* 500: the link succeeded but the partial file could not be unlinked, and the
\* session fails.  A second attempt to unlink it may succeed.
UnlinkFails(u) ==
  /\ upload[u] = "linked"
  /\ Goto(u, "closed")
  /\ parts' \in {parts, parts \ {u}}
  /\ Send(Req[u], {"failed"})
  /\ ClearSlot
  /\ UNCHANGED <<prepareVars, bookVars, active, whole, chunks, published>>

\* The sender closes its connection after hyper took the whole request in, and
\* the handler is dropped at its await.  No line that was to follow runs: not
\* the fetch_sub of active_uploads, not the removal of the partial file.  A file
\* operation already handed to the blocking pool still runs.
DropUpload(u) ==
  /\ upload[u] \in AwaitPhases
  /\ whole[u]
  /\ Goto(u, IF upload[u] = "linking" THEN "adrift" ELSE "dropped")
  /\ parts' = IF upload[u] = "linked" THEN parts \ {u} ELSE parts
  /\ UNCHANGED <<sessionVars, prepareVars, bookVars, active, whole, chunks, published, sent>>

\* The hard link of a dropped handler completes, or fails.
LinkAdrift(u) ==
  /\ upload[u] = "adrift"
  /\ Goto(u, "dropped")
  /\ published' \in {published, published \cup {u}}
  /\ UNCHANGED <<sessionVars, prepareVars, bookVars, active, whole, chunks, parts, sent>>

-----------------------------------------------------------------------------
(* cancel, sweep and time *)

\* cancel_session, for the sender's /cancel or for the user: both learn the id
\* of a session only once its prepare-upload was answered.
CancelSession(r) ==
  /\ prepare[r] = "replied"
  /\ Unlocked
  /\ Alive(r)
  /\ ClearSlot
  /\ Send(r, {"cancelled"})
  /\ UNCHANGED <<prepareVars, bookVars, active, uploadVars, diskVars>>

\* spawn_session_sweep reclaims a session that is idle past its limit.
Sweep ==
  /\ Unlocked
  /\ TimedOut
  /\ ClearSlot
  /\ Send(slot, {"failed"})
  /\ UNCHANGED <<prepareVars, bookVars, active, uploadVars, diskVars>>

\* Time passes for the current session.  The clock is coarse: an accept timer
\* that is due fires, and a handler or task that is ready for the slot gets to
\* run, before it moves on.
Tick ==
  /\ slot # NoRequest
  /\ idle <= IdleLimit
  /\ \A r \in Requests :
       prepare[r] \in PendingPhases \/ release[r] # "none" => idle < AcceptTimeout
  /\ idle' = idle + 1
  /\ UNCHANGED <<slot, open, prepareVars, bookVars, active, uploadVars, diskVars, sent>>

-----------------------------------------------------------------------------
(* Specification *)

PrepareStep(r) ==
  \/ PrepareRefuse(r) \/ PrepareConflict(r) \/ PrepareReserve(r)
  \/ \E ids \in SUBSET Offer[r] : Answer(r, ids)
  \/ Decide(r) \/ ExpirePrompt(r) \/ Decline(r) \/ Install(r)
  \/ DeliverMessage(r) \/ DropPrepare(r) \/ ReleaseReservation(r)
  \/ CancelSession(r)

UploadStep(u) ==
  \/ UploadRefuse(u) \/ UploadConflict(u) \/ UploadBegin(u) \/ BodyTaken(u)
  \/ StartBody(u) \/ MkdirFails(u) \/ EndUpload(u)
  \/ BodyChunk(u) \/ ReportProgress(u) \/ BodyEnds(u) \/ BodyFails(u)
  \/ HashMatches(u) \/ HashFails(u)
  \/ RollbackProgress(u) \/ WithdrawProgress(u) \/ FailSession(u)
  \/ Revalidate(u) \/ DiscardStale(u) \/ LinkFile(u) \/ LinkFails(u)
  \/ RecordFile(u) \/ UnlinkFails(u) \/ DropUpload(u) \/ LinkAdrift(u)

Next ==
  \/ \E r \in Requests : PrepareStep(r)
  \/ \E u \in Uploads : UploadStep(u)
  \/ Sweep
  \/ Tick

Spec == Init /\ [][Next]_vars

\* The runtime polls every ready task, its timers fire, and a body that does not
\* go on is cut by the server's body timeout.  Senders and the user owe nothing.
PrepareProgress(r) ==
  Decide(r) \/ ExpirePrompt(r) \/ Decline(r) \/ Install(r) \/ DeliverMessage(r)

UploadProgress(u) ==
  \/ StartBody(u) \/ MkdirFails(u) \/ EndUpload(u) \/ ReportProgress(u)
  \/ BodyEnds(u) \/ BodyFails(u) \/ HashMatches(u) \/ HashFails(u)
  \/ RollbackProgress(u) \/ WithdrawProgress(u) \/ FailSession(u)
  \/ Revalidate(u) \/ DiscardStale(u) \/ LinkFile(u) \/ LinkFails(u)
  \/ RecordFile(u) \/ UnlinkFails(u)

Fairness ==
  /\ \A r \in Requests : WF_vars(PrepareProgress(r)) /\ WF_vars(ReleaseReservation(r))
  /\ \A u \in Uploads : WF_vars(UploadProgress(u)) /\ WF_vars(LinkAdrift(u))
  /\ WF_vars(Sweep)
  /\ WF_vars(Tick)

FairSpec == Spec /\ Fairness

-----------------------------------------------------------------------------
(* Safety *)

Terminals(r) == sent[r]["completed"] + sent[r]["cancelled"] + sent[r]["failed"]

\* The uploads of r whose body is being consumed.
Consuming(r) == {u \in Uploads : Req[u] = r /\ upload[u] \in CountedPhases}

\* A prepare-upload handler that has yet to act on its decision still owns the
\* slot, so that clearing or replacing it unchecked (Decline, Install) can only
\* hit its own placeholder.  It rests on the accept timeout being below the
\* idle limit.
ReservationHeld ==
  \A r \in Requests : prepare[r] \in {"asking", "deciding"} => slot = r /\ ~open

\* A reservation never outlives the prompt it was made for, so that the idle
\* sweep and the next offer never find a placeholder to end.
ReservationBounded ==
  slot # NoRequest /\ ~open => idle <= AcceptTimeout

\* While a file is being published, its session is the current one and the file
\* is reserved and not yet received: nothing can end or replace the session
\* between the revalidation and the record.
PublicationOwnsSession ==
  \A u \in Uploads : upload[u] \in LockPhases =>
    /\ Alive(Req[u])
    /\ File[u] \in uploading[Req[u]] \ received[Req[u]]

\* A file is published at most once per session, whatever is retried, repeated,
\* raced or dropped.
PublishedOnce ==
  \A u, v \in published : Req[u] = Req[v] /\ File[u] = File[v] => u = v

\* A file transfer reported complete has every accepted file on disk.
CompletedMeansSaved ==
  \A r \in Requests \ Messages : sent[r]["completed"] > 0 =>
    \A f \in chosen[r] : \E u \in published : Req[u] = r /\ File[u] = f

\* A session gets at most one terminal event, and none while it is current.
TerminalOnce ==
  \A r \in Requests : Terminals(r) <= (IF slot = r THEN 0 ELSE 1)

\* A prompt is withdrawn at most once, and never after its session ended.
ExpiredOnce ==
  \A r \in Requests :
    sent[r]["expired"] <= 1 /\ (sent[r]["expired"] = 1 => Terminals(r) = 0)

\* An answered upload leaves its partial file behind only if it was published
\* and the partial file could not be unlinked.
PartialsRemoved ==
  \A u \in Uploads : upload[u] = "closed" /\ u \in parts => u \in published

\* A published file is recorded, or its session was reported failed, unless its
\* handler still holds the lock or was dropped with its connection.
UnrecordedIsCut ==
  \A u \in published :
    \/ File[u] \in received[Req[u]]
    \/ sent[Req[u]]["failed"] = 1
    \/ upload[u] \in {"linked", "dropped"}

\* Active I/O is not idle: no session is timed out while a body is consumed.
ConsumingIsNotIdle ==
  \A u \in Uploads :
    upload[u] \in CountedPhases /\ slot = Req[u] => ~TimedOut

\* FileReceived is sent for the session that is current, never for one that
\* ended or was replaced during the write.
FileReportedAlive ==
  [][\A r \in Requests : sent'[r]["file"] # sent[r]["file"] => Alive(r)]_vars

\* An accepted session leaves the slot with a terminal event, but for one that
\* timed out and that a new offer replaced before the sweep saw it.
SilentOnlyWhenTimedOut ==
  [][\A r \in Requests : Alive(r) /\ slot' # r =>
       Terminals(r)' = 1 \/ (TimedOut /\ slot' \in Requests)]_vars

-----------------------------------------------------------------------------
(* The contract with the consumer of the events *)

Contract == INSTANCE ReceiveContract WITH
  accepted <- IF open THEN chosen[slot] ELSE {}, saved <- received, told <- sent

\* events.rs, handlers.rs: whatever handlers, drops and timeouts interleave, what
\* the helper is told is a behaviour of ReceiveContract.tla.
ImplementsContract == Contract!Spec

-----------------------------------------------------------------------------
(* The inductive invariant behind the safety properties *)

\* active_uploads counts every upload whose body is consumed.
ActiveCounts == \A r \in Requests : Cardinality(Consuming(r)) <= active[r]

\* Who owns the slot, and who still has to give a reservation back.
SlotOwned ==
  /\ open => slot \in Requests
  /\ \A r \in Requests : slot = r =>
       IF open
       THEN prepare[r] \in {"messaging", "replied", "dropped"} /\ release[r] = "none"
       ELSE prepare[r] \in {"asking", "deciding"} \/ release[r] # "none"
  /\ \A r \in Requests : prepare[r] = "messaging" =>
       /\ r \in Messages /\ slot = r /\ open
       /\ idle <= AcceptTimeout
  /\ \A r \in Requests : release[r] # "none" => prepare[r] = "dropped"

\* An upload answered by anything but a refusal to begin belongs to a session
\* that was answered.
UploadsAnswered ==
  \A u \in Uploads : upload[u] # "new" => prepare[Req[u]] = "replied"

\* At most one handler holds the lock across an await.
LockExclusive ==
  \A u, v \in Uploads : upload[u] \in LockPhases /\ upload[v] \in LockPhases => u = v

\* An upload claims its file from its reservation to its answer, and for good
\* once the file is published or the handler dropped.
Claims(u) == upload[u] \notin {"new", "closed"} \/ u \in published

FilesClaimed ==
  /\ \A u \in Uploads : upload[u] \notin {"new", "closed"} => File[u] \in uploading[Req[u]]
  /\ \A u \in published : File[u] \in uploading[Req[u]] \cup received[Req[u]]
  /\ \A u \in published : upload[u] \in {"linked", "closed", "dropped"}
  /\ \A u \in Uploads : upload[u] = "linked" => u \in published
  /\ \A u, v \in Uploads :
       Claims(u) /\ Claims(v) /\ Req[u] = Req[v] /\ File[u] = File[v] => u = v
  /\ \A r \in Requests : uploading[r] \cap received[r] = {}

\* A file is recorded for an upload that published it.
RecordedIsPublished ==
  \A r \in Requests, f \in Files : f \in received[r] =>
    \E u \in published : Req[u] = r /\ File[u] = f

\* Completion is final: the accepted files were all recorded by then.
CompletedIsRecorded ==
  \A r \in Requests :
    /\ prepare[r] \in {"new", "asking", "deciding"} => sent[r]["completed"] = 0
    /\ sent[r]["completed"] > 0 /\ r \notin Messages => chosen[r] \subseteq received[r]

\* A request that is not over has no terminal event.
TerminalPending ==
  \A r \in Requests : prepare[r] = "new" \/ release[r] # "none" => Terminals(r) = 0

\* A withdrawn prompt never becomes a session.
PromptInv ==
  \A r \in Requests :
    /\ prepare[r] \in {"new", "asking"} => sent[r]["expired"] = 0 /\ chosen[r] = {}
    /\ release[r] = "expire" => sent[r]["expired"] = 0
    /\ sent[r]["expired"] > 0 =>
         /\ prepare[r] = "deciding" => chosen[r] = {}
         /\ prepare[r] # "messaging"
         /\ ~Alive(r)

IndInv ==
  /\ TypeOK /\ ActiveCounts
  /\ SlotOwned /\ ReservationHeld /\ ReservationBounded /\ UploadsAnswered
  /\ LockExclusive /\ PublicationOwnsSession /\ FilesClaimed
  /\ RecordedIsPublished /\ CompletedIsRecorded
  /\ TerminalOnce /\ TerminalPending /\ PromptInv /\ ExpiredOnce

-----------------------------------------------------------------------------
(* Liveness *)

\* active_uploads counts a handler that was dropped.
Leaked(r) == active[r] > Cardinality(Consuming(r))

\* Every prompt shown to the user ends with an answer or is withdrawn, whether
\* the sender waits, times out or goes away.
PromptSettled ==
  \A r \in Requests :
    sent[r]["request"] = 1 ~> (answer[r] # {} \/ sent[r]["expired"] = 1)

\* The slot is always reclaimed, unless a dropped upload is still counted.
SlotReclaimedUnlessLeaked ==
  \A r \in Requests : slot = r ~> (slot # r \/ Leaked(r))

-----------------------------------------------------------------------------
(* Statements of the repository the code does not keep *)

\* "a sender that vanishes mid-transfer must not permanently wedge the single
\* upload slot": every session frees the slot.
SlotReclaimed == \A r \in Requests : slot = r ~> slot # r

\* "every saved file is reported before SessionCancelled".
SavedBeforeCancelled ==
  \A u \in published : sent[Req[u]]["cancelled"] > 0 => File[u] \in received[Req[u]]

\* "reports nothing once the session is gone": progress is sent only while the
\* session is current.
ProgressOnlyAlive ==
  [][\A u \in Uploads :
       upload[u] \in {"reporting", "withdrawing"} /\ upload'[u] # upload[u]
         => Alive(Req[u])]_vars

\* "It must complete without the receiver sweeper terminating it": the sweep
\* ends no session while an upload of it has yet to be answered.
SweepSparesUploads ==
  [][Sweep => \A u \in Uploads :
       Req[u] = slot => upload[u] \notin {"hashing", "publishing"}]_vars
=============================================================================
