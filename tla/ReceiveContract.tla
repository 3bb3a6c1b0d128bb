---------------------------- MODULE ReceiveContract ----------------------------
(***************************************************************************)
(* What the receiving server promises the program that consumes its events *)
(* (the helper): it asks about one request at a time; a request is asked   *)
(* about once, and withdrawn at most once, while it is not accepted; the   *)
(* files of an accepted one are reported once each, while it is the        *)
(* session; and it ends with one event, completed only when every accepted *)
(* file was reported, unless it timed out and a new request took its       *)
(* place.  Receiver.tla implements it; Incoming.tla and Received.tla rely  *)
(* on it.                                                                  *)
(***************************************************************************)
EXTENDS Naturals

CONSTANTS
  Requests,
  Files,
  Messages,     \* the requests that carry a text instead of files
  NoRequest

VARIABLES
  slot,         \* the request asked about, or the session
  open,         \* it was accepted
  accepted,     \* the files accepted of the session
  saved,        \* the files reported as saved, by request
  told          \* how often each event was told of each request

vars == <<slot, open, accepted, saved, told>>

Kinds == {"request", "expired", "text", "file", "completed", "cancelled", "failed"}

Init ==
  /\ slot = NoRequest /\ open = FALSE /\ accepted = {}
  /\ saved = [r \in Requests |-> {}]
  /\ told = [r \in Requests |-> [k \in Kinds |-> 0]]

Tell(r, kinds) ==
  told' = [told EXCEPT ![r] = [k \in Kinds |-> IF k \in kinds THEN @[k] + 1 ELSE @[k]]]

Free == slot' = NoRequest /\ open' = FALSE /\ accepted' = {}

Asked(r) == slot = r /\ ~open

\* A request is asked about when there is no other; a session may have timed out.
Ask(r) ==
  /\ told[r]["request"] = 0
  /\ slot = NoRequest \/ open
  /\ slot' = r /\ open' = FALSE /\ accepted' = {}
  /\ Tell(r, {"request"})
  /\ UNCHANGED saved

\* Nobody answered in time, or the sender is gone.
Withdraw(r) ==
  /\ Asked(r)
  /\ told[r]["expired"] = 0
  /\ Tell(r, {"expired"})
  /\ Free \/ UNCHANGED <<slot, open, accepted>>
  /\ UNCHANGED saved

\* Declined, withdrawn before, or answered in vain.
Release(r) == Asked(r) /\ Free /\ UNCHANGED <<saved, told>>

Accept(r, files) ==
  /\ Asked(r)
  /\ told[r]["expired"] = 0
  /\ open' = TRUE /\ accepted' = files
  /\ UNCHANGED <<slot, saved, told>>

Session(r) == slot = r /\ open

\* A file is saved; with the last one the session is complete.
Save(r, f) ==
  /\ Session(r)
  /\ f \in accepted \ saved[r]
  /\ saved' = [saved EXCEPT ![r] = @ \cup {f}]
  /\ IF saved[r] \cup {f} = accepted
     THEN Tell(r, {"file", "completed"}) /\ Free
     ELSE Tell(r, {"file"}) /\ UNCHANGED <<slot, open, accepted>>

Deliver(r) ==
  /\ Session(r) /\ r \in Messages
  /\ Tell(r, {"text", "completed"}) /\ Free
  /\ UNCHANGED saved

End(r) ==
  /\ Session(r)
  /\ Free
  /\ Tell(r, {"cancelled"}) \/ Tell(r, {"failed"})
  /\ UNCHANGED saved

Next ==
  \E r \in Requests :
    \/ Ask(r) \/ Withdraw(r) \/ Release(r) \/ Deliver(r) \/ End(r)
    \/ \E files \in (SUBSET Files) \ {{}} : Accept(r, files)
    \/ \E f \in Files : Save(r, f)

Spec == Init /\ [][Next]_vars
=============================================================================
