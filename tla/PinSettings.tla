---------------------------- MODULE PinSettings ----------------------------
(***************************************************************************)
(* The incoming PIN: src/backend/src/settings.rs, update_incoming_pin and  *)
(* the start of the helper in main.rs, and the panel's side of it in       *)
(* src/Service.qml.  A change is saved, then put in force in the running   *)
(* server, then told to the panel, any of which may fail, with the helper  *)
(* dying or the machine losing power in between.  The settings file is the *)
(* register of AtomicFile.tla, which StateDir.tla implements.              *)
(***************************************************************************)
EXTENDS Naturals, Sequences

CONSTANTS
    Pin,            \* the PINs that valid_incoming_pin accepts
    SetPinAnswers,  \* what LocalSendServer::set_pin may answer
    MaxUpdates,     \* bound: changes asked for
    MaxFaults       \* bound: deaths and power losses

\* The helper never stops its server before it exits, so the vendored set_pin
\* answers TRUE; update_incoming_pin and its test handle FALSE as well.
ASSUME AnswersAssumption == SetPinAnswers \subseteq BOOLEAN /\ TRUE \in SetPinAnswers
ASSUME PinAssumption ==
    \A p \in Pin : p \notin {"off", "broken", "absent", "unsafe", "partial",
                             "none", "ok", "err"}

VARIABLES
    value, stable, saving, outcome,  \* settings.json (AtomicFile)
    stage,    \* what the helper is doing
    current,  \* receiver_settings in main
    next,     \* the settings being saved
    live,     \* the PIN the server asks for
    cmds,     \* standard input of the helper
    evts,     \* its standard output, with its exit
    panel,    \* the panel's copy
    promised, \* history: the last change put in force, if no other is asked for
    asked,    \* history: every setting the user asked for, or found at first
    updates, faults

register == <<value, stable, saving, outcome>>
vars == <<register, stage, current, next, live, cmds, evts, panel, promised, asked,
          updates, faults>>

\* What a file can hold: no PIN, a PIN, or something load refuses.
Setting == Pin \cup {"off"}
Document == Setting \cup {"broken"}

File == INSTANCE AtomicFile WITH Helper <- {"helper"}, Value <- Document

Stages == {"off", "loading", "serving", "saving", "applying", "restoring"}
Events == {"ready", "on", "off", "failed", "startup_failed", "exit"}

TypeOK ==
    /\ stage \in Stages
    /\ {current, next, live} \subseteq Setting
    /\ cmds \in Seq(Setting) /\ evts \in Seq(Events)
    /\ panel \in [ready: BOOLEAN, enabled: BOOLEAN, updating: BOOLEAN, invalid: BOOLEAN]
    /\ promised \in Setting \cup {"none"} /\ asked \subseteq Setting

NewPanel == [ready |-> FALSE, enabled |-> FALSE, updating |-> FALSE, invalid |-> FALSE]

\* serde, the size limit and the checks of validate.
validate(s) == s \in Setting

\* What load makes of the file: a missing one is the default.
Default(v) == IF v = "absent" THEN "off" ELSE v

Init ==
    /\ File!Init
    /\ stage = "off"
    /\ current = "off" /\ next = "off" /\ live = "off"
    /\ cmds = <<>> /\ evts = <<>>
    /\ panel = NewPanel
    /\ promised = "none"
    /\ asked = {Default(value)} \cap Setting
    /\ updates = 0 /\ faults = 0

emit(es) == evts' = evts \o es
state_event(s) == IF s = "off" THEN "off" ELSE "on"

-----------------------------------------------------------------------------
(* The helper *)

FileCall(v) == File!Start("helper") /\ saving'["helper"].val = v
FileError == File!Fail("helper") /\ outcome'["helper"] = "err"

\* The panel starts the helper, unless the settings were refused before.
Launch ==
    /\ stage = "off" /\ evts = <<>> /\ ~panel.invalid
    /\ FileCall("none")
    /\ stage' = "loading" /\ cmds' = <<>>
    /\ UNCHANGED <<current, next, live, evts, panel, promised, asked, updates, faults>>

\* load, and the rest of the start: the server is built with the PIN, and told.
Load ==
    /\ stage = "loading"
    /\ File!Load("helper")
    /\ validate(Default(value))
    /\ \/ /\ current' = Default(value)
          /\ live' = current'
          /\ stage' = "serving"
          /\ emit(<<"ready", state_event(current')>>)
       \/ /\ stage' = "off" /\ emit(<<"exit">>)
          /\ UNCHANGED <<current, live>>
    /\ UNCHANGED <<next, cmds, panel, promised, asked, updates, faults>>

\* Settings that cannot be read, or are not valid, end the helper.
RefuseSettings ==
    /\ stage = "loading"
    /\ FileError \/ (File!Load("helper") /\ ~validate(Default(value)))
    /\ stage' = "off"
    /\ emit(<<"startup_failed", "exit">>)
    /\ UNCHANGED <<current, next, live, cmds, panel, promised, asked, updates, faults>>

\* update_incoming_pin up to the save; the panel sends valid PINs only.
UpdatePin ==
    LET s == Head(cmds) IN
    /\ stage = "serving" /\ cmds # <<>>
    /\ cmds' = Tail(cmds)
    /\ next' = s /\ stage' = "saving" /\ FileCall(s)
    /\ UNCHANGED <<evts, current, live, panel, promised, asked, updates, faults>>

\* The rename inside a save, or inside the save that restores.
Rename ==
    /\ stage \in {"saving", "restoring"}
    /\ File!PutInForce("helper")
    /\ UNCHANGED <<stage, current, next, live, cmds, evts, panel, promised, asked, updates,
                   faults>>

EagerSaved ==
    /\ stage = "saving"
    /\ stage' = "applying" /\ File!Fail("helper") /\ UNCHANGED evts
    /\ UNCHANGED <<current, next, live, cmds, panel, promised, asked, updates, faults>>

\* save returns; a failure may come after the rename.
Saved ==
    /\ stage = "saving"
    /\ \/ File!Acknowledge("helper") /\ stage' = "applying" /\ UNCHANGED evts
       \/ FileError /\ stage' = "serving" /\ emit(<<"failed">>)
    /\ UNCHANGED <<current, next, live, cmds, panel, promised, asked, updates, faults>>

Promise == IF cmds = <<>> THEN next ELSE "none"

HastyApply ==
    /\ stage = "applying"
    /\ \E ok \in SetPinAnswers :
          /\ live' = IF ok THEN next ELSE live
          /\ current' = next /\ promised' = Promise
    /\ stage' = "serving" /\ emit(<<state_event(next)>>)
    /\ UNCHANGED <<register, next, cmds, panel, asked, updates, faults>>

\* set_pin on the running server; its failure undoes the save.
Apply ==
    /\ stage = "applying"
    /\ \E ok \in SetPinAnswers :
          IF ok
            THEN /\ live' = next /\ current' = next /\ promised' = Promise
                 /\ stage' = "serving" /\ emit(<<state_event(next)>>)
                 /\ UNCHANGED register
            ELSE /\ FileCall(current) /\ stage' = "restoring"
                 /\ UNCHANGED <<live, current, promised, evts>>
    /\ UNCHANGED <<next, cmds, panel, asked, updates, faults>>

Restored ==
    /\ stage = "restoring"
    /\ File!Acknowledge("helper") \/ FileError
    /\ stage' = "serving" /\ emit(<<"failed">>)
    /\ UNCHANGED <<current, next, live, cmds, panel, promised, asked, updates, faults>>

\* The helper is shut down, killed or crashes, whatever it is doing.
Exit ==
    /\ stage # "off" /\ faults < MaxFaults
    /\ File!Fail("helper") /\ outcome'["helper"] = "none"
    /\ stage' = "off" /\ emit(<<"exit">>)
    /\ faults' = faults + 1
    /\ UNCHANGED <<current, next, live, cmds, panel, promised, asked, updates>>

PowerLoss ==
    /\ faults < MaxFaults
    /\ File!PowerLoss
    /\ stage' = "off" /\ cmds' = <<>> /\ evts' = <<>> /\ panel' = NewPanel
    /\ faults' = faults + 1
    /\ UNCHANGED <<current, next, live, promised, asked, updates>>

Settle ==
    /\ File!Settle
    /\ UNCHANGED <<stage, current, next, live, cmds, evts, panel, promised, asked, updates,
                   faults>>

-----------------------------------------------------------------------------
(* The panel *)

OptimisticSubmit ==
    /\ panel.ready /\ ~panel.updating /\ updates < MaxUpdates
    /\ \E s \in Setting :
          /\ s = "off" => panel.enabled
          /\ cmds' = Append(cmds, s)
          /\ asked' = asked \cup {s}
          /\ panel' = [panel EXCEPT !.updating = TRUE, !.enabled = (s # "off")]
    /\ promised' = "none"
    /\ updates' = updates + 1
    /\ UNCHANGED <<register, stage, current, next, live, evts, faults>>

\* submitIncomingPin and confirmDisableIncomingPin.
Submit ==
    /\ panel.ready /\ ~panel.updating /\ updates < MaxUpdates
    /\ \E s \in Setting :
          /\ s = "off" => panel.enabled
          /\ cmds' = Append(cmds, s)
          /\ asked' = asked \cup {s}
    /\ panel' = [panel EXCEPT !.updating = TRUE]
    /\ promised' = "none"
    /\ updates' = updates + 1
    /\ UNCHANGED <<register, stage, current, next, live, evts, faults>>

StuckHandleEvent ==
    LET e == Head(evts) IN
    /\ evts # <<>>
    /\ evts' = Tail(evts)
    /\ panel' = CASE e = "ready" -> [panel EXCEPT !.ready = TRUE]
                  [] e \in {"on", "off"} -> [panel EXCEPT !.enabled = (e = "on"),
                                                          !.updating = FALSE]
                  [] e = "failed" -> [panel EXCEPT !.updating = FALSE]
                  [] e = "startup_failed" -> [panel EXCEPT !.invalid = TRUE]
                  [] e = "exit" -> [panel EXCEPT !.ready = FALSE]
    /\ UNCHANGED <<register, stage, current, next, live, cmds, promised, asked, updates,
                   faults>>

HandleEvent ==
    LET e == Head(evts) IN
    /\ evts # <<>>
    /\ evts' = Tail(evts)
    /\ panel' = CASE e = "ready" -> [panel EXCEPT !.ready = TRUE]
                  [] e \in {"on", "off"} -> [panel EXCEPT !.enabled = (e = "on"),
                                                          !.updating = FALSE]
                  [] e = "failed" -> [panel EXCEPT !.updating = FALSE]
                  [] e = "startup_failed" -> [panel EXCEPT !.invalid = TRUE]
                  [] e = "exit" -> [panel EXCEPT !.ready = FALSE, !.updating = FALSE]
    /\ UNCHANGED <<register, stage, current, next, live, cmds, promised, asked, updates,
                   faults>>

Helper ==
    Load \/ RefuseSettings \/ UpdatePin \/ Rename \/ Saved \/ Apply \/ Restored

Next ==
    \/ Launch \/ Helper \/ Exit \/ PowerLoss \/ Settle
    \/ Submit \/ HandleEvent

Spec == Init /\ [][Next]_vars

\* A call on the file returns, with a result or an error; the panel reads what
\* the helper writes.
FairSpec ==
    /\ Spec
    /\ WF_vars(Load \/ RefuseSettings) /\ WF_vars(UpdatePin) /\ WF_vars(Saved)
    /\ WF_vars(Apply) /\ WF_vars(Restored) /\ WF_vars(HandleEvent)

-----------------------------------------------------------------------------
(* Properties *)

\* main.rs:1485-1496, Service.qml:646-651: a panel that waits for nothing shows
\* whether the server asks for a PIN.
PanelIsRight ==
    stage = "serving" /\ panel.ready /\ ~panel.updating /\ evts = <<>> /\ cmds = <<>>
        => panel.enabled = (live # "off")

\* main.rs:1216-1224, settings.rs:97-110: a change that was acknowledged is what
\* every later server asks for, whatever dies, until another change is asked for.
PromiseKept ==
    promised # "none" /\ stage \in {"serving", "saving", "applying"} => live = promised

\* docs/SECURITY.md:105-107, settings.rs:75-95: a server only asks for what the user
\* asked for; in particular unreadable settings never turn the PIN off.
OnlyWhatWasAsked == stage \notin {"off", "loading"} => live \in asked

\* main.rs:1216-1222: a change that is reported as failed leaves the server, and
\* what the helper believes of it, as they were.
FailureKeepsGate ==
    [][stage' = "serving" /\ stage \in {"saving", "applying", "restoring"} =>
         \/ evts' = Append(evts, state_event(next)) /\ live' = next /\ value = next
         \/ evts' = Append(evts, "failed") /\ live' = live /\ current' = live]_vars

\* Service.qml:409-420, 592, 646-651: a change asked for in the panel ends.
UpdateSettles == panel.updating ~> ~panel.updating

=============================================================================
