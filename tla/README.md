# Verification of omarchy-nearby

Omarchy Nearby is a LocalSend client for the Omarchy desktop. A QML service (`Service.qml`)
drives a Rust helper (`backend/src/main.rs`) over pipes; the helper links a vendored LocalSend
library (`backend/vendor/localsend-rs`), which receives files over HTTPS, sends them, and
discovers other devices.

The project holds TLA+ models of this code, TLC configurations that check them on small
instances, and theorems checked by TLAPS for every value of the constants. All paths below are
relative to `src/`; `handlers.rs`, `session.rs`, `server.rs` and the like are files of
`backend/vendor/localsend-rs/src/`; `main.rs`, `received.rs`, `settings.rs`, `identity.rs` and
`secure_state.rs` are files of `backend/src/`.

| Module | Contents | Checked in run | Proofs |
| --- | --- | --- | --- |
| `Receiver` | the receiving server: one upload slot, its handlers, sweep and clock | `files`, `live`, `wedged` | `Receiver_proofs` |
| `ReceiveContract` | what the consumer of the server's events may rely on (abstract) | `files` (refinement) | in `Receiver_proofs` |
| `Outgoing` | sending: panel service, command loop and send task over their channels | `service`, `outgoing_lost` | `Outgoing_proofs` |
| `Incoming` | a request between server, event task, command loop and panel | `panel`, `helper`, `incoming_stuck`, `followed` | in `HelperParts_proofs` |
| `Received` | what a cancel by the user deletes | `disk` | `Received_proofs` |
| `AtomicFile` | a private state file as a register (abstract) | `disk` (refinement) | in `StateDir_proofs` |
| `StateDir` | the walk to the private directory and the replacement of a file | `disk` | `StateDir_proofs` |
| `PinSettings` | the incoming PIN: file, server and panel; uses `AtomicFile` | `panel` | in `PanelParts_proofs` |
| `Identity` | the TLS identity at a helper's start; uses `AtomicFile` | `helper` | in `HelperParts_proofs` |
| `Lifecycle` | the helper process, its restarts, and the entry of shell.json | `service` | `Lifecycle_proofs` |
| `Discovery` | popups, discovery commands and rounds | `discovery` | `Discovery_proofs` |
| `Peers` | the registry of peers, its gate and timers, and the panel's list | `panel`, `downgraded` | in `PanelParts_proofs` |
| `ScanTargets` | the addresses a round probes | `helper` | in `HelperParts_proofs` |
| `Admission` | connection limits and the PIN gate | `helper` | in `HelperParts_proofs` |
| `ServiceParts` | `Lifecycle` and `Outgoing` side by side | `service` | `Outgoing_proofs` |
| `DiskParts` | `StateDir` and `Received` side by side | `disk` | `Received_proofs` |
| `PanelParts` | `PinSettings`, `Incoming` and `Peers` side by side | `panel` | `PanelParts_proofs` |
| `HelperParts` | `Admission`, `Identity`, `CommandLine`, `Selection`, `ScanTargets`, `Failures` and `Incoming` side by side | `helper` | `HelperParts_proofs` |
| `Selection` | the walk over the files to send | `helper` | in `HelperParts_proofs` |
| `CommandLine` | the reader of command lines | `helper` | in `HelperParts_proofs` |
| `Failures` | the code of a failure | `helper` | in `HelperParts_proofs` |
| `MC...` | constants, bounds and symmetry of the instances | | |

`tlc -config Discovery.cfg MCDiscovery` runs one instance (the configurations are named in the
section of each module), `tlapm Receiver_proofs.tla` checks the proofs of a module.

A `...Parts` module holds several components that share no state: a variable (`side`, `place`,
`talk` or `part`), chosen at the start and never changed, says which of them a behaviour is of,
and the others stay as they begin. Every one of them is explored, and proved about, as it would
be by itself; `MCService`, `MCDisk`, `MCPanel` and `MCHelper` give the constants their values.

Five runs expect a violation. Each shows that a statement of the repository's documents,
comments or tests does not hold of the code: `wedged` (3.7), `outgoing_lost` (4.7),
`incoming_stuck` and `followed` (5), `downgraded` (11). Further statements that do not hold are
in the modules too and told in the section of each, with the constants that show it.

## 1. Inventory

### 1.1 Components, state, operations

| Component | State | Operations | What makes it correct |
| --- | --- | --- | --- |
| Receiver sessions (`handlers.rs`, `session.rs`, `server.rs`, `events.rs`, `state.rs`, `core/file.rs`) | `current_session` behind an `RwLock`; one handler per request; partial and final files | prepare-upload, answer, expiry, upload, cancel, idle sweep, a handler dropped with its connection | one owner of the slot; nothing published for a session that ended; each file once; one terminal event; partial files removed; the slot is reclaimed |
| Sending (`Service.qml` `outgoing*`, `main.rs` `run` and `send_payload`, `client/client.rs`) | `pendingOutgoing`, `outgoingTransferId`, `viewState`; `outgoing`; the task; stdin, stdout and `OutgoingDone` channels | begin, retry with PIN, cancel, events; SendFiles, SendText, CancelOutgoing; register, walk, prepare, upload, cancel | one outcome per transfer; no task out of sight; a stale event changes nothing; every transfer is settled |
| Incoming half of helper and service (`main.rs` event task, `received.rs`, `Service.qml`) | table of pending requests, sessions to discard, files received; `incomingQueue`, `activeIncomingSession` | accept, decline, cancel_incoming, expiry, progress, text, the deletion of what a cancelled session wrote | a request leaves the queue; only the files of the cancelled session go; the panel follows the session it accepted, to its end |
| Incoming PIN gate (`server/pin.rs`), connection limits (`server/limits.rs`) | failures per address in a bounded LRU cache; counts of connections | check, block, forget; admit, refuse, give back | a blocked address stays blocked while remembered; every slot is given back |
| Incoming PIN settings (`settings.rs`, `secure_state.rs`, `update_incoming_pin`) | PIN on disk, in force, on the panel | set, disable, start | the three agree, also after failures, deaths and power losses |
| Identity and private files (`identity.rs`, `secure_state.rs`) | identity.json; the private directory | load or create; walk, save, load | a file is old or new, never partial; an identity served with is kept |
| Discovery and peer registry (`main.rs`, `Model.js`) | popups, the round under way, peers with ages, HTTPS fingerprints, snapshot gate | start, stop, rescan; record, expire, flush; scan | no round out of control; each recorded peer reaches the panel; HTTPS is not downgraded; the right hosts are probed, once |
| Helper lifecycle (`Service.qml`, `bin/nearby-*helper*`) | process, restart count, timers, the entry of shell.json | toggle, choose a folder, start, shutdown, exit, crash, repair | bounded restarts; a refusal stands; comes to rest off, ready or stopped with its cause told |
| Choosing what to send, codes of failures, command input (`main.rs`) | locals of one call each | walk, classify, read a line | the offer is whole or refused for its cause; the code is the cause's; each line once |
| Announcement replies, HTTP client, protocol, paths, TLS, downloads directory | none, or one table behind one mutex | pure functions and I/O | unit-tested; their answers and failures are choices in the models |
| Web share, vendored TUI and CLI, panel layout, translations, scripts, build | - | - | not in the helper, or wording |

### 1.2 How they interact

* A remote sender reaches the server through axum/hyper handlers, one task per request. They
  share `ServerState` behind a tokio `RwLock` and talk to the helper through an unbounded
  `events_tx`; the user's decision comes back in a oneshot (`PendingRequest`). `cancel_session`
  is called from the sender's `/cancel` handler and from the helper.
* The service writes one JSON command per line to the helper's stdin, and reads one event per
  line from its stdout. The helper's command loop is one `tokio::select!` over stdin, the
  reports of finished send tasks, discovered peers and two timers; an event task of its own
  reads the server's events. The two share the table of pending requests and
  `discard_requests`.
* A send task writes progress and the outcomes `done` and `cancelled` to stdout itself;
  failures and PIN refusals travel in its `OutgoingDone` and are written by the loop, which
  frees the slot first.
* The command loop and the discovery task both record peers; the gate and the registry are
  under one lock, the printing is not.
* The service does not hold its settings: it asks the shell to write an entry of shell.json and
  sees it when the file has been read again. The folder and the on/off switch are in one entry.
* Helpers share the private directory: a second one may start before the first has ended.

### 1.3 What is hard

* Every `.await` in a handler is a place where another handler runs, where the session may end
  or be replaced, and where hyper may drop the handler for good if the sender closes its
  connection. Only destructors and operations already handed to the blocking pool run after
  that.
* The body of an upload is written without the lock; only the publication (revalidate, link,
  record, report, complete) holds it across an await.
* Three clocks act on one session: the 60 s accept timeout, the 300 s idle limit, and the 60 s
  sweep; a new offer may also displace a session that is idle for too long.
* Panel, loop, event task and send task each have their own idea of the current transfer; the
  channels between them are not ordered with respect to each other.
* A save has seven steps that may fail, or end with the process or the power, and another
  helper may take any step in between.
* Restarts are asked for by exits, by the user and by changes of settings, and are bounded by a
  counter that each of them treats differently.

`PROJECT.json` lists each hazard at the line where it bites, with the properties that would
catch it.

## 2. How the project is built

The components were modelled in the order of the harm they can do: the two slots on which every
transfer depends (`Receiver`, `Outgoing`), what lies between server and panel
(`ReceiveContract`, `Incoming`, `Received`), what is written to disk (`StateDir`, `AtomicFile`,
`PinSettings`, `Identity`), the process (`Lifecycle`), discovery (`Discovery`, `Peers`,
`ScanTargets`), then the sequential parts.

Two components have an abstract specification:

* `AtomicFile` is a register that a save replaces in one step. `StateDir` implements it
  (`ImplementsAtomicFile`, checked and proved); `PinSettings` and `Identity` are written on top
  of it, so that their steps are those of their own code only.
* `ReceiveContract` says what an event consumer may rely on. `Receiver` implements it
  (`ImplementsContract`, checked and proved); `Incoming` and `Received` take no more than that
  of the server.

A module is written so that it can be proved about: constants with named assumptions, an action
per operation or handler step, invariants as conjunctions of named parts, recursion by
functions and folds only. A definition named after a mistake (`Faulty...`, `Mute...`,
`Hasty...`) is a variant of the definition after it, used to see that a property notices that
mistake.

Some properties are conjunctions of named statements (`StepsAreSafe`, `PeersAreRight`,
`RoundsAreOrderly`, `TargetsAreRight`, ...); the comment of each part names the code it is about.

Where a proof needs induction over numbers, sequences or finite sets it takes a least
counterexample: `LeastNumber` and `SmallestSet`, from the well-foundedness of the order of the
naturals, say that there is one. The equations of the recursive functions and of the folds are
proved in the same way, by the function on the first n arguments (`FoldIs`, `PowersAre`).

## 3. Receiver

### 3.1 State

| Variable | Code |
| --- | --- |
| `slot`, `open`, `idle` | `current_session`: whose it is, accepted session or placeholder, time since `last_activity` |
| `prepare`, `answer`, `chosen` | the await a prepare-upload handler is at, what is in its oneshot, `accepted_ids` |
| `release` | the task spawned by `PendingReservation::drop` |
| `uploading`, `received`, `active` | the fields of `Session`; kept per request, because an upload whose session has gone still holds the `Arc` of `active_uploads` |
| `upload`, `whole`, `chunks` | the await an upload handler is at, whether hyper has read its whole request, its progress |
| `parts`, `published` | the partial files and the final files on disk |
| `sent` | how often each event was sent |

A session is named by the request that opened it: its id is a fresh UUID, so comparing ids is
comparing requests. `open` distinguishes the placeholder put in the slot while the user is
asked from the session installed after the answer. `Alive(r)` is `Session.alive` seen through
its weak reference, and the comparison of session ids.

### 3.2 Actions

* prepare-upload: `PrepareRefuse`, `PrepareConflict`, `PrepareReserve`, `Answer`, `Decide`,
  `ExpirePrompt`, `Decline`, `Install`, `DeliverMessage`; `DropPrepare` and
  `ReleaseReservation` are the destructor and the task it spawns.
* upload: `UploadRefuse`, `UploadConflict`, `UploadBegin`, `StartBody`/`MkdirFails`/
  `EndUpload`, `BodyChunk`/`ReportProgress`, `BodyEnds`/`BodyFails`, `HashMatches`/
  `HashFails`, `RollbackProgress`/`WithdrawProgress`/`FailSession`,
  `Revalidate`/`DiscardStale`, `LinkFile`/`LinkFails`, `RecordFile`/`UnlinkFails`; `BodyTaken`,
  `DropUpload` and `LinkAdrift` are hyper and tokio.
* `CancelSession`, `Sweep`, `Tick`.

Each action runs from one await to the next. Between `Revalidate` and
`RecordFile`/`LinkFails`/`UnlinkFails` the handler holds the lock: every action that takes the
lock has `Unlocked` in its guard. `ReportProgress` and `WithdrawProgress` are actions of their
own although no await precedes them: they take no lock, the runtime is multi-threaded, and
another thread may end the session between the test and the send.

An upload handler can be dropped only once its request was read whole: until then the loss of
the connection is an error of the body, which the handler sees (`BodyFails`).

### 3.3 Abstractions

* A user who declines answers `{}`; accepting no file does the same, and so does the branch
  without an event consumer (handlers.rs:157-164).
* Auto-accept is left out: the helper never turns it on.
* The PIN gate and the checks of an offer are `PrepareRefuse`, before anything changed.
* The clock is coarse: `Tick` counts time for the current session, and does not pass the accept
  timeout while a handler or release task that is due has not run. This says that the runtime
  delays a ready task by less than the difference of the two limits (60 s and 300 s), and it is
  an assumption. `ReservationHeld` needs it.
* A partial file left by a process that ends is removed at start by age
  (`cleanup_stale_partial_files`); the end of the process is not modelled.

### 3.4 Properties

| Property | What could go wrong |
| --- | --- |
| `ReservationHeld`, `ReservationBounded` | `Decline` clears and `Install` replaces the slot without looking at it; a placeholder displaced by another offer or by the sweep would make them hit someone else's session |
| `PublicationOwnsSession` | the session ends between revalidation and record |
| `PublishedOnce` | two uploads of a file, one retried or dropped, both link it |
| `CompletedMeansSaved` | a session is reported complete with a file missing |
| `TerminalOnce`, `ExpiredOnce` | completion, failure, cancel and sweep, or expiry and destructor, both report |
| `PartialsRemoved` | a way out of the upload that leaves the partial file |
| `UnrecordedIsCut` | a published file that neither its session nor a failure accounts for, other than by a dropped handler |
| `ConsumingIsNotIdle` | a slow body is taken for an idle session |
| `FileReportedAlive` | FileReceived for a session that ended during the write |
| `SilentOnlyWhenTimedOut` | a session leaves without a terminal event |
| `PromptSettled` | a prompt stays on the screen after its sender went away |
| `SlotReclaimedUnlessLeaked` | a session keeps the slot for ever |

### 3.5 Runs

| Run (configuration) | Instance | Shows |
| --- | --- | --- |
| `files` (`Receiver_files.cfg`) | one session of two files, the first attempted twice, beside a text message; about 938,000 states | `PublishedOnce`, `CompletedMeansSaved`, `PartialsRemoved`, `UnrecordedIsCut`, `ImplementsContract` |
| `live` (`Receiver_live.cfg`) | two sessions of one upload each, no symmetry, fairness; about 63,000 states | `IndInv`, which holds `PublicationOwnsSession`, `TerminalOnce`, `ConsumingIsNotIdle` and the other parts of 3.6; `ReservationHeld`, `SilentOnlyWhenTimedOut`, `PromptSettled`, `SlotReclaimedUnlessLeaked` |
| `wedged` (`Receiver_wedged.cfg`) | as `live` | the disagreement of 3.7 |

Bounds. Two requests are what the slot needs to be contended for: a third is a stranger to the
session that ends just as the second is. Two uploads of one file and one of another give a
race, a retry, partial acceptance and completion in both orders. One chunk that reports
progress (`MaxChunks`) reaches each branch of the writer; progress within a file has no other
effect. `AcceptTimeout = IdleLimit = 1` makes the two clocks as close as the assumption allows.
The attempts `u1`, `u2` are symmetric in `files`; `live` uses no symmetry. Requests are finite,
so every behaviour stops in the end: hence `CHECK_DEADLOCK FALSE`.

Fairness (`FairSpec`): handlers that are ready are polled and their timers fire (`WF` of the
progress of each prepare and upload handler and of the release tasks), a body that does not go
on is cut by `upload_idle_timeout` (limits.rs:29, inside `UploadProgress` as `BodyFails`), the
sweep's interval fires (`WF(Sweep)`) and time passes. Nothing is assumed of the sender or of
the user.

### 3.6 Proofs

`Receiver_proofs` proves, for any requests, files, finite set of uploads, offers and limits
with `AcceptTimeout <= IdleLimit`:

* `Types`: `TypeOK` and `ActiveCounts`. `active_uploads` is a counter that is decremented, so
  that it never goes below zero needs that it counts the bodies being consumed
  (`Cardinality(Consuming(r)) <= active[r]`); the lemmas `CountsKept`, `CountsRaised` and
  `CountsLowered` relate a step to the cardinality.
* `Invariance`: `IndInv`, whose parts are
  - who owns the slot (`SlotOwned`): a placeholder belongs to a handler that asks or decides,
    or to a release task; an open session to a request that was answered. With
    `ReservationBounded` no placeholder is timed out, so `PrepareReserve` and `Sweep` find
    none, which gives `ReservationHeld`;
  - who claims a file (`FilesClaimed`): an upload claims its file from reservation to answer,
    and for ever once published or dropped; at most one claims it, which gives `PublishedOnce`
    and, with `LockExclusive`, `PublicationOwnsSession`;
  - what was recorded (`RecordedIsPublished`, `CompletedIsRecorded`), which gives
    `CompletedMeansSaved`;
  - what was sent (`TerminalOnce`, `TerminalPending`, `PromptInv`, `ExpiredOnce`).
* `Reservations`, `Bounded`, `Publications`, `Once`, `Saved`, `Terminal`, `Expired`, `NotIdle`
  and the action properties `ReportedAlive` and `Ends` follow from `IndInv`. `Removed` and
  `Cut` (`PartialsRemoved`, `UnrecordedIsCut`) follow from a second invariant beside it,
  `Disk`: what each stage of an upload has on the disk (`PartsInv`).
* `ContractKept`: every behaviour of `Receiver`, seen through the mapping
  of `Contract`, is one of `ReceiveContract`. The mapping shows who has the slot, the files
  accepted, the files recorded and the events sent. Beside `IndInv` it needs `ContractInv`;
  `PrepareSimulates` and `UploadSimulates` show, action by action, that a step is one of the
  contract or changes nothing of what it sees.

Each group of conjuncts has one lemma for the prepare steps, one for the upload steps and one
for sweep and clock (`PrepareSlot`, `UploadSlot`, `TimeSlot`, ...), with one step per action.

### 3.7 Where the code and its documents disagree

`wedged`. server.rs:373 says a sender that vanishes mid-transfer must not wedge the slot.
`active_uploads` is decremented by the line after the awaited body (handlers.rs:553); a handler
dropped inside that await never gets there. `SlotReclaimed` fails: the session never times out
and every later offer is answered 409. `SlotReclaimedUnlessLeaked` says this is the only way.

Three more statements are stated in the module and fail under `Receiver_wedged.cfg` when put in
the place of `SlotReclaimed` (as an INVARIANT, or a PROPERTY for the second and third):

* `SavedBeforeCancelled`. VENDORED_LOCALSEND_RS.md:578: every saved file is reported before
  SessionCancelled. A handler dropped while the link is made leaves a file that is saved and
  not reported.
* `ProgressOnlyAlive`. VENDORED_LOCALSEND_RS.md:595: the writer reports nothing once the
  session is gone. The test and the send are not under the lock.
* `SweepSparesUploads`. ROBUSTNESS.md:659 expects an upload of more than five minutes to
  complete. The body does not touch `last_activity`, and the upload stops being counted before
  it is hashed and published: a sweep that comes then ends its session.

## 4. Outgoing

### 4.1 State

| Variable | Code |
| --- | --- |
| `pending`, `current`, `view` | `pendingOutgoing`, `outgoingTransferId`, `viewState` of Service.qml |
| `retries`, `result` | history: dispatched from the PIN prompt; how the panel parted with a transfer |
| `stdin`, `stdout`, `done` | the two pipes and the `OutgoingDone` channel, all FIFO |
| `slot`, `cancelled` | `outgoing` of the command loop; the oneshot of each task |
| `task`, `left`, `report` | where `send_payload` awaits, files still to send, the event of its `OutgoingDone` |
| `told` | history: the outcomes written to stdout |

### 4.2 Actions

* Panel: `BeginOutgoing`, `RetryWithPin`, `CancelOutgoing`, `CancelPin`, `ChooserFails`,
  `HandleEvent` (every `outgoing_*` event of `handleEvent`).
* Loop: `StartSend`, `RefuseBusy`, `RefuseInvalid`, `CancelSend`, `IgnoreCancel`, `TakeDone`.
  `tokio::select!` picks among ready branches at random, so commands and reports are taken in
  any order between the two channels.
* Task: `LookUpFiles`, `Offer`, `Accepted`, `AcceptedEmpty`, `PinRefused`, `Uploaded`, `Fail`,
  `HearCancel`, `Withdrawn`, `Report`. A cancel competes with the answer in each `select!` of
  `send_payload`: both `HearCancel` and the answer are enabled.

### 4.3 Abstractions

Views other than the three that matter to sending are "elsewhere". Progress within a file has
the effect of the event that starts the file. A missing and an invalid PIN open the same prompt
and are one outcome. The two branches that no command of the service reaches (a line that is
too long, a command that does not parse) are left out: `beginOutgoing` checks the size first.
The end of the helper process is left to `Lifecycle`.

### 4.4 Properties

| Property | What could go wrong |
| --- | --- |
| `OneOutcome` | task and loop, or a cancel and an answer, both tell |
| `SlotCoversTask` | a stale report frees the slot of the next transfer, whose task then runs unseen |
| `PinRetryNotBusy` | the prompt is shown before the slot is free, so that a quick retry is refused |
| `SuccessIsTrue` | an event of the transfer before settles the one shown; done before the last file |
| `SendingNamesTransfer` (proved, in `IndInv`) | the Cancel button names no transfer, or the wrong one |
| `UncancelledSettles` | the helper refuses, or the panel ignores, every later send |
| `CancelledEnds` | a cancelled task waits for a receiver that never answers |

### 4.5 Runs

| Run (configuration) | Instance | Shows |
| --- | --- | --- |
| `service` (`MCService.cfg`), its part "sending" | two transfers of up to two files, fair; about 35,000 states | the safety properties, `CancelledEnds`, `UncancelledSettles` |
| `outgoing_lost` (`Outgoing_lost.cfg`) | two transfers of one file | the disagreement of 4.7 |

Bounds. Two transfers let the report, or the events, of the first arrive when the second holds
the slot. Two files make "not the last one" happen. A cancel can be pressed while fewer than
`MaxCommands = 3` commands wait: enough for a cancel pressed twice and for one that waits
behind a send; sends are bounded by the ids. Ids are used once, so every behaviour stops in the
end: hence `CHECK_DEADLOCK FALSE`.

Fairness (`ServiceFairness`): the service reads its events, the loop each of its channels (the random
choice of `select!` starves none), a cancelled task is woken, waits at most `control_timeout`
(10 s, client.rs:40) for `/cancel`, and sends its report. That the receiver answers, or the
connection fails, the code does not ensure - "A transfer itself has no overall time limit"
(docs/SECURITY.md:32) - so it is not part of it but the hypothesis `PeerAnswers` of
`UncancelledSettles`; `CancelledEnds` does without.

### 4.6 Proofs

`Outgoing_proofs` proves, of the specification `ServiceSpec`, for any number of transfers, files and waiting commands, with
`NoTransfer` no transfer: `Invariance` (`IndInv`), and from it `Outcome`, `Covered`, `Retries`,
`Success` and `Naming`.

That a transfer has one outcome rests on who may still tell it: a running task, a report not
yet taken, or a command not yet read, and never two of them (`SendsAreNew`, `DoneIsGone`,
`ToldByOne`). That a success is true rests on what is in the pipe being what was told
(`EventsAreTold`). That a retry is not refused as busy rests on the order of the channel
(`CurrentIsLast`) and on the slot being free from the PIN refusal to the retry
(`PromptFindsSlotFree`). The proof first sums up what the actions do to the shared state
(`TaskEffects`, `CommandEffects`, `PanelEffects`: a channel grows at its end or shrinks at its
head, at most one transfer is told one outcome), then shows that each such effect keeps every
part of `IndInv`.

### 4.7 Where the code and its documents disagree

`outgoing_lost`. docs/LOCALSEND_ARCHITECTURE_STUDY.md:304 answers a local cancel with
`outgoing_cancelled`. If the task failed by itself and its report is still in the channel,
`CancelOutgoing` empties the slot, the report no longer matches it, and main.rs:1438 drops its
event. The panel keeps `pendingOutgoing` and does nothing on every later send until the helper
restarts. `CancelIsTold` fails; `UncancelledSettles` shows that transfers nobody cancels are
always settled.

`BusyIsTrue` fails under the same configuration: the refusal says "Another transfer is already
active" (i18n/en.json:164), but the task tells the panel `outgoing_done` before the loop has
freed the slot, so a send that follows at once may be refused although nothing runs.

A chooser that fails while a PIN prompt is shown (`ChooserFails`) hides the prompt and leaves
the payload pending; no statement of the repository speaks of it.

## 5. Incoming

A request from its offer to the end of its session: the server's handler, reduced to what
`ReceiveContract` says of it; the helper's event task and command loop with the table `pending`
between them (main.rs 1318-1412); the panel's queue, view and session.

State: `at`, `answer`, `reports`, `late` (server); `events`, `pending`, `reply`, `out`,
`commands` (helper and its pipes); `incomingQueue`, `viewState`, `activeIncomingSession`,
`lastEndedIncomingSession`, `incomingText`, `incomingTextPending`, `pendingOutgoing` (service,
under its own names).

Actions: `Sender` (ask, report, end, late progress, a sender that leaves) and `Handler` (expire,
hear the answer, open, sweep), `ReadEvent` (one event of the server, in the order of the channel), `CommandLoop`
(accept, decline, cancel; the print of the result is an action of its own, because the event
task may print in between), `PanelReads` (every incoming event of `handleEvent`), the user's
answers and sends.

A session is "open" or "stuck". The handler of an upload that is dropped while it awaits the
body leaves the session's count of active uploads above zero (`Leak`; section 3.7 and the run
`wedged`): no sweep and no offer then sees the session idle, and only the sender, a failed upload
or the user's cancel ends it. A send only takes the view and gives it back (`Outgoing` has it in
detail). Nothing is assumed of the environment: a sender may leave at any moment, the user
answers when he likes, progress may be told after the end of its session.

| Property | Instance | What could go wrong |
| --- | --- | --- |
| `PanelSettles` (run `panel`): `SettlesIfTold`, `FollowedEnds`, `QueueDrains` | a file transfer, a text and a send, fair | the panel waits in "receiving" for ever, or for ever follows a session, or keeps a request in its queue |
| `RequestsAreRight` (run `helper`) | the same two requests and send, with late progress | a request stays in the table though nobody waits for it (`PendingIsAsked`); the panel follows again a session it has finished (`EndedIsNotFollowed`) |
| `Settles` (run `incoming_stuck`, violated) | one request | the first disagreement below |
| `FollowsTheAccepted` (run `followed`, violated) | two file transfers, a send, one late progress | the second disagreement below |

Two requests are enough for one to wait behind the other and for the progress of one to be
taken for that of the other. Fairness (`FairSpec`): the runtime runs its tasks, an accept times
out, a session that is "open" is swept once idle, the shell reads its helper, and a send comes
to an end (that it does, `Outgoing` shows of those nobody cancels). A "stuck" session has no
fairness.

`PanelSettles` does not hold without exceptions, and names each of them:

* `Untold`: an accepted request whose end nobody tells the panel of. Its session is stuck; or
  its sender left before the handler heard the answer (`incoming_stuck`); or an offer took the
  place of the idle session (handlers.rs:123).
* `Foreign`: the panel took the late progress of an earlier session for that of the one it
  waits for (`followed`).
* `again`: the user accepted the same request twice. The event task and the command loop print
  independently: the session of an accepted request may fail, and its end be printed, before the
  loop has printed `incoming_accepted`. The end brings the view back to "incoming", and the
  request is still in the queue; if the user accepts it again, the answer is an expiry of a
  request that has left the queue meanwhile, and the panel stays in "receiving". It takes one
  request and no send (`Request = {r1}`, `SettlesIfTold` without `again`).

`incoming_stuck` (`Incoming_stuck.cfg`). Once the user accepted, the sender may close its
connection before the handler answers. The handler's destructor then either tells of an expiry
that follows `incoming_accepted`, when the request is no longer in the queue and the view is
kept (Service.qml:675-677), or, the prompt resolved, tells nothing at all (handlers.rs:174-175,
260-285). The panel stays in "receiving" with no session and no Cancel.
tests/service-state.test.js:803 says that "an expired approval must not leave the UI waiting
for a receive session that cannot start".

`followed` (`Incoming_followed.cfg`). `lastEndedIncomingSession` remembers only sessions that
were adopted. One that ran behind a send (Service.qml:683-687) is not, so its late progress is
adopted when the panel waits for the next, whose own events are then dropped.
handlers.rs:325-326: "a consumer must not take such late progress for a newer transfer".

Proved in `HelperParts_proofs`, for any requests, texts, reports and sends: `RequestsStayRight`
(`RequestsAreRight`). A request is ahead of its expiry in the one channel between server and
helper (`PendingInv`, `OnTheWayInv`). No file of a session is told behind its end, in the channel
or in the pipe (`OverInv`), so that none can make the panel follow again the session it finished
last (`FinishedInv`); late progress of that one it ignores.

Stated and not kept, with no run of its own: `HeldTextAppears`. A text that arrives during a
send is held back in one place; if a request takes the view when the send ends
(Service.qml:543-550) and turns out to be a text too, the first is never shown
(docs/USAGE.md:67: "Received text appears in the panel").

## 6. Received

What a cancel by the user deletes: `ReceivedFiles` (received.rs), the event task and the mark
`discard_requests` that `cancel_incoming` sets before it asks the server (main.rs 1484). The
server is reduced to one open session, but publishes as `Receiver` does: under the lock the
session is looked at again (`Revalidate`), the file is linked on the blocking pool (`LinkFile`,
`LinkFails`, `UnlinkFails`), and recorded and reported (`RecordFile`); the handler may be dropped
at the await in between, when the link is made all the same (`DropUpload`, `LinkAdrift`). The
clean-up removes one file or folder at a time, on a thread the event task waits for.

| Property | What could go wrong |
| --- | --- |
| `CancelledIsGone` | a file published, or noted, after the files to delete were listed; a mark left for a later transfer |
| `OnlyCancelledGoes` | files of a transfer that completed, failed, or that the user never cancelled go |

Run `disk` (`MCDisk.cfg`), its part "downloads": two transfers of two files, one after the
other, into the same folder; every end at every step, and one handler dropped. One progress
event is what makes a folder known before a file of it is saved. `FilesGone` and
`FinishedFilesStay` (below) fail in this instance when put in the place of what is checked.

Proved in `Received_proofs`: `Gone` and `Stays`, for any transfers, files, folders and bounds.
The inductive invariant says that the end of a transfer is the last event of it and comes after
it left the slot (`EndsInv`), and who ended it (`EnderInv`); that a file on the disk is noted, or
will be by an event on its way, or by the handler that holds the lock, or is about to go, or
its handler was dropped, or its transfer ended in a way that keeps it (`NotedInv`); and that a
mark is about to be used, withdrawn, or waits for an event on its way (`MarkInv`).

What the documents promise is more, and the code does not keep it:

* `FilesGone` (docs/USAGE.md:47-49: "everything that transfer saved is deleted"). A sender that
  closes its connection while the file is being linked has its handler dropped at
  handlers.rs:653; the link is made, nobody records or reports it, and when the user then
  cancels the file is not among those that go. This is `SavedBeforeCancelled` of section 3.7,
  seen from the panel. `CancelledIsGone` excepts these files (`upload = "lost"`), and no others.
* `FinishedFilesStay` (docs/USAGE.md:52: "If the sender cancels or the connection drops,
  finished files stay"). `cancel_incoming` sets the mark before it asks the server to end the
  session (main.rs:1484). If the sender cancels in between, `SessionCancelled` is the sender's,
  the event task finds the mark and deletes the files. `OnlyCancelledGoes` says what is left: a
  file goes only if its transfer was cancelled, by either, and the user had asked for it before
  the end was told; a transfer that completed or failed keeps its files even then.

Also stated and not kept: `LeavesNoFolder` (docs/USAGE.md:47-50: a cancel deletes "folders it
created"): folders are made before the body is read (handlers.rs:508-511) but noted only with
the first progress event (main.rs:1365, received.rs:31-36), and a cancel in between leaves an
empty one. `WhatWasThereStays` (docs/USAGE.md:50-51): `discard` removes every folder the
transfer used once it is empty (received.rs:67-78), also one that was there before (`Before`).

## 7. StateDir and AtomicFile

`StateDir` is `secure_state.rs`: the walk to the private directory component by component,
opening or making each, and `load` and `save` of a file in it (check, exclusive temporary with
retries, write, sync, rename, directory sync, removal after a failure). Several helpers do this
at once; any step may fail; a helper may die and the machine lose power. `entries` is what
processes see, `durable` what a power loss would leave; `WriteBack` is the system writing to
disk of its own accord. `Target` stands for either state file: each is replaced in the same
way, apart from the other. A directory that was made is taken to be reachable after a power
loss once a file in it was synced.

| Property | What could go wrong |
| --- | --- |
| `NeverPartial` | a name that shows a file not yet written in full, now or after a power loss |
| `StepsAreSafe` | of two helpers that both make the directory one is refused (`RefusedForCause`); the clean-up of a failed save removes the file another helper created under the same name (`RemovesOwn`); an unsafe object is replaced (`KeepsUnsafe`) |
| `ImplementsAtomicFile` | a save acknowledged before it is durable, or taking effect in two steps, or a load that sees neither |

Run `disk` (`MCDisk.cfg`), its part "state": two helpers, two documents, two temporary names, a
path of two components below the root in eight first states (there, to be created, foreign,
shared, not a directory), two calls, two deaths or power losses; symmetric in helpers,
documents, names and, for the other part, transfers and files. Two names let both helpers draw the same one; two
calls are what races. Both parts together have about 523,000 states. Transfers are used once, so
the part "downloads" stops in the end: hence `CHECK_DEADLOCK FALSE`.

Proved in `StateDir_proofs`, for any helpers, documents, names and depth: `WholeFiles`,
`SafePath` (`OpenedIsSafe`: the directory in use was reached only through components nobody
else can swap), `SafeSteps` and `Refinement`. The inductive invariant adds who owns a temporary
(`OwnsTemp`) and how far each call has come (`Reached`). The refinement maps a save under way
to the abstract one that is done from the rename on; a lemma per action shows it is the
abstract step or a stutter.

`AtomicFile`: a call starts (`Start`), the document is put in force in one step (`PutInForce`), a save
is acknowledged only when what is in force is also what a power loss would leave (`Acknowledge`), a
call fails with or without effect (`Fail`), the system writes to disk (`Settle`), power is lost. It is
checked through `StateDir`, `PinSettings` and `Identity`, and has no run of its own.

## 8. PinSettings

The incoming PIN in the file (`value`, `stable`: the register), in the helper (`current`), in
the server (`live`) and on the panel, with the two pipes. Actions: `Launch`, `Load`,
`RefuseSettings`, `Submit`, `UpdatePin`, `Saved` and its failure, `Apply` (`set_pin`, and the
restore of the old settings when it fails), `Restored`, `HandleEvent`, exit, power loss.
`set_pin` fails only with the server not running, which the helper never is before it exits;
its test (main.rs:2329) has the case, and so has the model (`SetPinAnswers`). The helper's own
refusal of a malformed PIN is unreachable: the panel applies the same pattern first.

| Property | What could go wrong |
| --- | --- |
| `PanelIsRight` | the panel shows the answer to another change, or the state told at start for an answer |
| `PromiseKept` | an acknowledged change is undone by a death, a power loss or a failed later step |
| `FailureKeepsGate` | a change that fails leaves the server open |
| `UpdateSettles` | the panel waits for an answer for ever |

Run `panel` (`MCPanel.cfg`): two PINs, two changes, two faults. Fairness: a call on the file
returns, with a result or an error, and each side reads what the other writes.

Proved in `PanelParts_proofs`: the three safety properties and `OnlyWhatWasAsked`, for any
PINs and bounds. The invariant ties each stage to the call on the file that belongs to it
(`StageInv`), says what a standing promise fixes (`PromiseInv`), where every setting comes from
(`AskedInv`), and that the last event on its way to the panel, or else the panel, agrees with
the server (`ShownInv`).

## 9. Identity

`load_or_create` up to the bind of the port: read, adopt or repair the stored fingerprint, or
generate, save, bind. Helpers are started, die at any step and lose power; `identity.json` is
the register.

`IdentityStays` (run `helper`, one helper that starts five times, three deaths, two power
losses, three certificates): every server presents the same certificate (`IdentityKept`), and
the file is written only when there is none or to correct the fingerprint of the same
certificate (`KeyIsKept`). One exception is part of the property: a save that ended between its
rename and its success, followed by a power loss (`slipped`).

Proved in `HelperParts_proofs` (`OneIdentity`), for any certificates, documents and bounds and
one helper at a time: the invariant says what each stage of the start has read or made, and
that the certificate served is the one in the file, or a save of it is under way or slipped.

With two helpers `OneIdentity` fails: nothing orders their saves before the port is bound
(identity.rs:97-100, main.rs:1271-1280), so the one that gets the port may serve with a
certificate the other has replaced, and the certificate changes at the next start
(docs/SECURITY.md:132-133: "preserves a valid identity across restarts").

## 10. Lifecycle

The helper process under the service: `file` is the entry of shell.json and `entry` the copy
the service last read; a write replaces the entry by the copy with a change, so that it may
undo another. `proc`, `pipe` and `svc` are the process, what it printed, and the part of the
service that concerns it. Actions: the user's toggle, choice of a folder, repair; `Reload`;
`Started`, the helper's own steps (refuse, be ready, serve, close, clean up, end), crashes, the
250 ms fall-back and SIGTERM, `HandleEvent`, `HandleExit`, `RestartTimer`; a change of what
keeps a helper from serving.

Abstractions: one cause of failure at a time; start is part of "starting"; a switch and a
folder that change in one reload are seen in either order, as the bindings may; the legacy
host, which reads a write at once, is the case in which `Reload` follows. The string form of
the entry, edits by hand and the death of the shell are left out. `Prompt` says that a helper
told to stop ends within 250 ms, `Calm` that the user waits until what was written has been
read.

| Property | What could go wrong |
| --- | --- |
| `StartsBounded` | a failing helper is started for ever, by exits, timers and changes of folder together |
| `RefusalStands` | a helper that refused invalid security settings is started again without the user |
| `Settles` | a start is lost or repeated; the service rests in a state that is neither off, ready, nor stopped with its cause told |

Run `service` (`MCService.cfg`), its part "process": two folders, one of which may be unusable, every cause, two
acts of the user, two changes of the environment, `Prompt` FALSE, `Calm` TRUE; with the part
"sending" (section 4) about 281,000 states. Two acts are what it takes to ask for something while something else is under way;
starts themselves are not bounded by the model. Fairness: files are watched, timers fire,
processes run and their output is read. `CHECK_DEADLOCK FALSE`: the service comes to rest.

Proved in `Lifecycle_proofs`: `Bounded`, `Stands` and `Real` (`ReadyIsReal`), for any folders,
causes and bounds. `StartsInv`: each start that was not asked for is paid for by an exit that
was counted; `PipeInv`: what each stage of the process has in the pipe.

Stated and not kept, with the constants that show it:

* `OffRemovesPartials` (`Prompt` FALSE): the switch is written 250 ms after the shutdown was
  asked for (Service.qml:776), which ends the process; a helper that has not yet reached
  `cleanup_stale_partial_files` (main.rs:1510) leaves its partial file (docs/USAGE.md:162:
  "Turning Nearby off removes them").
* `ChoiceIsStored` (`Calm` FALSE): a folder chosen while the receiver is being turned off is
  dropped by the write of `finishReceiverShutdown` (Service.qml:313, :330; docs/USAGE.md:118).
* `NewFolderIsTried` (`Causes = {"none", "folder"}`): a folder chosen while the fifth start is
  failing is never tried: `handleBackendExit` does not look at `restartPending`
  (Service.qml:625, :346).

## 11. Discovery, Peers, ScanTargets

`Discovery`: popups (`open`, `view`), the commands start, rescan and stop, the loop's
`control`, and the rounds, which are tasks of their own: announce, grace period, fall-back,
probe of known peers, scan. A round told to stop goes on until it is polled, and tells its own
end. Retried announcements run beside a round and change nothing here. `Round` is a pool: a
task that ended may be used again.

* `RoundsAreOrderly`: of the rounds at work all but the loop's own were told to stop
  (`OneRound`); the subnet is scanned only as a last resort (`LastResort`); with nothing on its
  way, a panel that says it is looking is right (`LooksWhenItSaysSo`).
* `RoundsEnd`: with all popups closed no round stays (`ClosedIsPassive`); a round that is not
  stopped comes to a peer, or to the scan (`Escalates`).

Run `discovery` (`Discovery.cfg`): one popup, two rounds at once, two commands and one event on
their way; about 235,000 states. Two rounds are the forced one and the one it replaces.
Fairness: the loop reads commands, each await of a round ends (all have timeouts), the service
reads what it is told.

Proved in `Discovery_proofs` (`Orderly`), for any rounds, popups and pipes: `RoundsAreOrderly`.
That the panel is right needs `ToldInv`: a round of which it was told is at work until it has
told its end, and once no round is wanted the panel says so, an end is on its way, or a round
is there that will tell one.

`OpenLooks` (docs/USAGE.md:100: "Nearby on, a popup open | Active discovery also runs") is not
kept: a popup opened starts discovery only in the view "nearby" (Service.qml:246), and going
back from a chosen device does not (:399). Choose a device, close the popup, open it again and
go back: the list is shown with no discovery. After a forced rescan the `discovery_stopped` of
the old round may be told after the `discovery_started` of the new one, so that the panel says
less than is the case.

`Peers`: the announcement gate (HTTPS fingerprints remembered, token bucket), the registry with
ages, the two threads that record and print, the expiry and flush timers, and the panel's list.
What is printed is applied when it is printed: the pipe between is FIFO.

* `PeersAreRight` (run `panel`): device events stay within burst and rate (`RateBounded`), and a
  plain HTTP device is recorded under a fingerprint that was seen over HTTPS only after as many
  other fingerprints were remembered since as there is room for (`PlainOnlyIfForgotten`).
* `PanelSettles` (run `panel`): each peer of the registry comes to be shown as it is
  (`PeersAreShown`).

Run `panel`: two devices over either protocol, a registry of one, one remembered fingerprint,
three announcements: enough to defer, to evict, to forget a fingerprint, and to let the older of
two prints come last. Fairness: the timers fire and what was read is printed.

`downgraded` (`Peers_downgraded.cfg`): three fingerprints, two of which are remembered, and a
registry of three. docs/SECURITY.md:18-21: "Once a device has been seen over HTTPS, the helper
refuses plain HTTP announcements for its fingerprint until it restarts." `NeverDowngraded` fails:
the gate forgets the fingerprint first seen longest ago although its device is still in the
registry (main.rs:384-389), and then takes a plain HTTP claim in its place. With the code's bound
of 1024 it takes that many other HTTPS fingerprints.

Proved in `PanelParts_proofs`, for any devices, rates and sizes: `DevicesAreBounded` (the
registry, the panel's list, the remembered fingerprints and `RateBounded`), and `PeersStayRight`
(`PeersAreRight`), which assumes nothing about how many fingerprints there are. The tokens left
make up for the events beyond the rate (`RateInv`); a fingerprint seen over HTTPS is remembered,
and those remembered since are the ones behind it in the queue, or it was pushed out by as many
as the queue holds (`MemoryInv`).

`ScanTargets`: `ipv4_prefix_length`, the networks of the interfaces, the cut to a local range,
known peers that an interface reaches. Addresses have five bits instead of 32, a network is cut
at 8 addresses to 4 instead of 1024 to 256; masks are every prefix and one that is none.
`TargetsAreRight` (run `helper`, every pair of interfaces): each host the documents promise is
probed and no other (`ScansCompletely`, `ScanBounded`), known peers are reached (`HintsReach`),
none is probed twice (`ProbedOnce`).

Proved in `HelperParts_proofs` (`TargetsStayRight`), for any width of an address, any sizes and
any interfaces. The property speaks of the bits of an address, the code of remainders: that
they say the same is `LowBits` (the low bits are all clear, or all set, when the remainder is
the least, or the greatest) and `HighBits` (two addresses agree on the high bits when they have
the same quotient), by induction on the number of bits; `PrefixIs` is the same of a mask and
its length. `BlockIs` puts them together for one interface, `TargetsAre` and `UnionBounded` for
all of them.

## 12. Admission

`ConnectionLimit` (server/limits.rs): a slot is taken on accept and given back when its stream
is dropped. The PIN gate (server/pin.rs): wrong PINs of each address in an LRU cache of bounded
capacity.

* `SlotsAreStreams`: the counts are those of the open connections. Proved (`Slots`).
* `BlockedStays`: a blocked address stays blocked until the PIN is set anew or as many other
  addresses used the cache as it holds. Proved (`Stays`): the cache is ordered by last use, so
  that those before an address in it are among those that used it since (`CacheInv`); an
  address is evicted only at the end of a full cache.
  This is less than the documents say: docs/SECURITY.md:12-15, docs/USAGE.md:148-150 and
  docs/TROUBLESHOOTING.md:90-92 let an address stay blocked until the security settings change
  or the receiver restarts. server/pin.rs:47 keeps the failures in an LRU cache of bounded size,
  so that an address is let in again once enough other addresses sent a wrong PIN. In the
  instance of the run the third address does that to one of the other two: `BlockedStays`
  without its second exception fails there.
* `BlockedForCause`: nobody is blocked without three wrong PINs. Proved (`Cause`).

The three are theorems about `Admission`; `HelperGate` says that the gate's part of
`HelperParts` is that specification.

Run `helper`: three addresses, three connections, limits of three and two, a cache of two,
which a third address overflows; symmetric in addresses.

## 13. Selection, CommandLine, Failures

`Selection`: the walk over selected files and folders (main.rs 802-965) on its own thread while
files change and the user may cancel. `OfferIsRight`: the offer is of the files as they were
opened (`NeverPartial`), within the limits on files, depth and JSON length (`WithinLimits`), a
refusal has its cause (`RefusedForCause`), and after a cancel at most the file being opened is
opened (`CancelStops`). Folders keep their kind during the walk, a selected link resolves to a
file, and nothing is selected twice; the trees are finite, no folder is below itself, and
nothing is below what is no folder (`TreesOK`). Instance: seven entries in three levels and one selected
by itself, with every kind where it matters, limits of four files, nine bytes and two levels,
one change.

Proved (`OffersAreRight`), for any finite trees, lengths and limits: the length the code adds up
file by file is that of the offer (`LengthAdds`, `LengthGrows`); nothing is met twice, and if
nothing changed, all that is in a folder that was entered was opened or waits (`WalkInv`, with
the set of the folders that were entered as witness).

`CommandLine`: `BoundedLineReader`, byte by byte in any chunks, with reads dropped at every
wait, and with an input that may end anywhere. `EachLineOnce`: each line is returned once,
whole, or rejected for its length. It has one exception (`Again`), which the code does not avoid:
when the input ends in a last line that is too long, next_line returns `TooLong` and clears
`oversized` (main.rs:80-86) but not the buffer, which it clears at a newline (:108); the next call
returns what is left in it as a line of its own, which the loop takes for a command. The test
`bounded_command_reader_accepts_the_limit_and_recovers_after_rejection` (main.rs:1616-1641) expects None
there, but only with an input that ends with a newline. Texts up to three times the limit.
Proved, for any bytes and limits and without hypotheses: `LinesOnce`. The invariant says what
the reader remembers of the line it is in (`LineInv`), and what it still holds of one that was
cut (`RejectedInv`).

`Failures`: `classify_error` and `receive_failure_code` over the texts the code raises, each a
set of the rules' words with those of the paths and URLs it quotes. `TextsDecide`: where only
the error's own words occur the code is that of the cause. `StableCode` fails because quoted
words count (main.rs:234, :868; client.rs:55), which `TextsDecide` leaves out, `FullDiskSaid` because every failure of a body
is sent as a lost connection (handlers.rs:564; docs/translation-notes.json:152). Proved, for any
words of paths and ids: `CodesDecide`.

All three are in the run `helper` (`MCHelper.cfg`), as are the instances of `Admission`,
`Identity`, `ScanTargets` and `Incoming`; about 709,000 states in all. Each of them
ends: hence `CHECK_DEADLOCK FALSE`.

## 14. What is proved, checked, and neither

* Proved for every value of the constants: every safety property and every action property
  that a run checks, and the two refinements. One theorem has a hypothesis that the code does
  not ensure, without which the property is false: `OneIdentity` (one helper at a time; section
  9 says what two of them do). Where the code breaks what a document promises in a case that
  can be named, the property names the case as an exception instead, and the section says so:
  `SilentOnlyWhenTimedOut`, `UnrecordedIsCut`, `CancelledIsGone`, `OnlyCancelledGoes`,
  `PeersAreRight`, `BlockedStays`, `EachLineOnce`, and of those not proved
  `SlotReclaimedUnlessLeaked` and `PanelSettles`.
* Only model-checked: the liveness properties `PromptSettled`, `SlotReclaimedUnlessLeaked`,
  `CancelledEnds`, `UncancelledSettles`, `UpdateSettles`, `PanelSettles`, `RoundsEnd` and
  `Settles`. TLAPS covers neither liveness under fairness nor ENABLED.
* Assumptions of the theorems: the named assumptions on constants in each module, the coarse
  clock of `Receiver.Tick`, FIFO channels, unique ids, and the semantics of rename, fsync and
  O_EXCL in `StateDir`.
* Type invariants are proved of every module; some are a part of the property that is checked
  (`RoundsAreOrderly`, `PeersAreRight`, `OfferIsRight`, `RequestsAreRight`, ...).
* No module uses a RECURSIVE operator.

## 15. What is not modelled

* Announcement replies (`discovery/multicast.rs`): sockets, and one table behind one mutex with
  its unit tests.
* HTTP client, trust policy, certificates and TLS, protocol types, validation and paths:
  library calls or pure functions on strings; their answers and failures are choices in the
  models.
* `downloads.rs`: two variables and a file read in order at start, with no state after it.
* Web share and the vendored terminal and command-line programs: not in the helper.
* The panel's layout, translations and icons; the clipboard, copy and preview scripts; build
  and release. The repair script is one step of `Lifecycle`, without its downloads.
* In the modelled parts: bytes of files, names, JSON (but its length in `Selection`), rates and
  wording.
