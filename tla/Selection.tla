----------------------------- MODULE Selection ------------------------------
(***************************************************************************)
(* What a send offers: the walk over the selected files and folders        *)
(* (src/backend/src/main.rs 802-965), on a thread of its own, while other  *)
(* programs change the files and the user may cancel (1025-1042).          *)
(* A folder keeps its kind here, and its list is read as it is entered.    *)
(***************************************************************************)
EXTENDS Naturals, Sequences, FiniteSets, FiniteSetsExt

CONSTANTS
    Entry,         \* files, folders and other entries of the selected trees
    Top, Parent,   \* Parent[e]: the folder of e, or Top for a selected entry
    Trees,         \* what the entries may be when the walk starts
    Nothing,
    Json,          \* Json[e]: the length of the JSON of e in the offer
    Envelope,      \* what the identity and the envelope add
    MAX_TRANSFER_FILES, MAX_PREPARE_BODY_BYTES, MAX_REMOTE_DIRECTORY_DEPTH,
    MaxChanges     \* bound: changes other programs make

Kind == {"dir", "file", "link", "fifo", "gone", "bad name"}

\* What the constants are to be: no folder is below itself, and what is below an entry
\* that is no folder is not there.
TreesOK ==
    /\ IsFiniteSet(Entry) /\ Top \notin Entry /\ Parent \in [Entry -> Entry \cup {Top}]
    /\ \A S \in SUBSET Entry : S # {} => \E e \in S : Parent[e] \notin S
    /\ Nothing \notin Entry /\ Trees \subseteq [Entry -> Kind]
    /\ \A t \in Trees, e \in Entry :
          Parent[e] # Top /\ t[e] # "gone" => t[Parent[e]] = "dir"
    /\ Json \in [Entry -> Nat \ {0}] /\ Envelope \in Nat
    /\ {MAX_TRANSFER_FILES, MAX_PREPARE_BODY_BYTES, MAX_REMOTE_DIRECTORY_DEPTH, MaxChanges} \subseteq Nat

VARIABLES
    kind, changes,
    todo,          \* the selected entries that are left
    stack,         \* the folders being read, with the entries left of each
    looked,        \* the entry found to be a file, which is to be opened
    metadata,      \* the files offered
    offer_size,
    cancelled,
    result,        \* of the walk
    late           \* history: files opened after the cancel

walk == <<todo, stack, looked, metadata, offer_size, result, late>>
vars == <<kind, changes, cancelled, walk>>

Children(d) == {e \in Entry : Parent[e] = d}
Depth[e \in Entry] == IF Parent[e] = Top THEN 1 ELSE Depth[Parent[e]] + 1

\* The JSON of some files, with a comma between two.
Length(S) == IF S = {} THEN 0
             ELSE MapThenSumSet(LAMBDA e : Json[e], S) + Cardinality(S) - 1

Results == {"running", "ok", "cancelled", "too_many_files", "too_deep", "offer_too_large",
            "invalid_utf8", "unsupported_entry", "unreadable", "not_regular", "no_files"}

\* The types; the size counted so far is that of the files noted.
TypeOK ==
    /\ kind \in [Entry -> Kind] /\ changes \in 0..MaxChanges
    /\ looked \in Entry \cup {Nothing} /\ metadata \subseteq Entry
    /\ \A i \in 1..Len(stack) : stack[i].todo \subseteq Children(stack[i].dir)
    /\ offer_size = Length(metadata) /\ cancelled \in BOOLEAN /\ result \in Results

Init ==
    /\ kind \in Trees /\ changes = 0
    /\ todo = Children(Top) /\ stack = <<>> /\ looked = Nothing
    /\ metadata = {} /\ offer_size = 0 /\ cancelled = FALSE /\ result = "running" /\ late = 0

-----------------------------------------------------------------------------
(* Others *)

Change(e) ==
    /\ result = "running" /\ changes < MaxChanges /\ kind[e] # "dir"
    /\ \E k \in {"file", "link", "fifo", "gone"} \ {kind[e]} : kind' = [kind EXCEPT ![e] = k]
    /\ changes' = changes + 1
    /\ UNCHANGED <<cancelled, walk>>

\* The async task is dropped or cancelled: ScanCancellation.
Cancel ==
    /\ ~cancelled /\ result = "running" /\ cancelled' = TRUE
    /\ UNCHANGED <<kind, changes, walk>>

-----------------------------------------------------------------------------
(* The walk *)

Fails(code) == result' = code /\ UNCHANGED <<stack, looked, metadata, offer_size, late>>
Goes == UNCHANGED <<metadata, offer_size, result, late>>

\* collect_directory_files up to its loop; below are the folders around it.
Enter(d, below) ==
    IF Depth[d] > MAX_REMOTE_DIRECTORY_DEPTH THEN Fails("too_deep")
    ELSE /\ stack' = <<[dir |-> d, todo |-> {e \in Children(d) : kind[e] # "gone"}]>> \o below
         /\ UNCHANGED looked /\ Goes

\* collect_outgoing_files: a selected link is resolved, here to a file.
Select(e) ==
    /\ result = "running" /\ looked = Nothing /\ stack = <<>> /\ e \in todo
    /\ todo' = todo \ {e}
    /\ CASE cancelled -> Fails("cancelled")
         [] ~cancelled /\ kind[e] = "dir" -> Enter(e, <<>>)
         [] ~cancelled /\ kind[e] \in {"file", "link"} -> looked' = e /\ UNCHANGED stack /\ Goes
         [] ~cancelled /\ kind[e] = "fifo" -> Fails("not_regular")
         [] ~cancelled /\ kind[e] = "gone" -> Fails("unreadable")
         [] ~cancelled /\ kind[e] = "bad name" -> Fails("invalid_utf8")
    /\ UNCHANGED <<kind, changes, cancelled>>

Left(e) == [stack EXCEPT ![1].todo = @ \ {e}]

\* Its kind comes with the entry, so an entry that went away is met when it is opened.
Found(e) ==
    CASE kind[e] = "dir" -> Enter(e, Left(e))
      [] kind[e] \in {"file", "gone"} -> looked' = e /\ stack' = Left(e) /\ Goes
      [] kind[e] = "link" -> stack' = Left(e) /\ UNCHANGED looked /\ Goes
      [] kind[e] = "fifo" -> Fails("unsupported_entry")
      [] kind[e] = "bad name" -> Fails("invalid_utf8")

\* An entry of the folder, in any order.
Look(e) ==
    /\ result = "running" /\ looked = Nothing /\ stack # <<>> /\ e \in stack[1].todo
    /\ IF cancelled THEN Fails("cancelled") ELSE Found(e)
    /\ UNCHANGED <<kind, changes, cancelled, todo>>

LeaveAll ==
    /\ result = "running" /\ looked = Nothing /\ stack # <<>> /\ stack[1].todo = {}
    /\ stack' = <<>>
    /\ UNCHANGED <<kind, changes, cancelled, todo, looked>> /\ Goes

Leave ==
    /\ result = "running" /\ looked = Nothing /\ stack # <<>> /\ stack[1].todo = {}
    /\ stack' = Tail(stack)
    /\ UNCHANGED <<kind, changes, cancelled, todo, looked>> /\ Goes

Grown(e) == offer_size + Json[e] + (IF metadata = {} THEN 0 ELSE 1)

Full == Cardinality(metadata) >= MAX_TRANSFER_FILES

\* A selected link was resolved before.
Opens(e) == kind[e] = "file" \/ (kind[e] = "link" /\ Parent[e] = Top)

\* OutgoingFiles::add_file, which opens without following a link or waiting for a fifo.
add_file ==
    /\ result = "running" /\ looked # Nothing
    /\ CASE Full -> Fails("too_many_files")
         [] ~Full /\ ~Opens(looked) ->
                Fails(IF kind[looked] = "fifo" THEN "not_regular" ELSE "unreadable")
         [] ~Full /\ Opens(looked) ->
                IF Grown(looked) > MAX_PREPARE_BODY_BYTES THEN Fails("offer_too_large")
                ELSE /\ metadata' = metadata \cup {looked}
                     /\ offer_size' = Grown(looked)
                     /\ looked' = Nothing
                     /\ late' = late + (IF cancelled THEN 1 ELSE 0)
                     /\ UNCHANGED <<stack, result>>
    /\ UNCHANGED <<kind, changes, cancelled, todo>>

\* The end of collect_outgoing_files, then check_offer_size.
Finish ==
    /\ result = "running" /\ looked = Nothing /\ stack = <<>> /\ todo = {}
    /\ Fails(CASE metadata = {} -> "no_files"
               [] metadata # {} /\ Envelope + offer_size > MAX_PREPARE_BODY_BYTES -> "offer_too_large"
               [] metadata # {} /\ Envelope + offer_size <= MAX_PREPARE_BODY_BYTES -> "ok")
    /\ UNCHANGED <<kind, changes, cancelled, todo>>

Walk == Leave \/ add_file \/ Finish \/ \E e \in Entry : Select(e) \/ Look(e)
Next == Walk \/ Cancel \/ \E e \in Entry : Change(e)

Spec == Init /\ [][Next]_vars

-----------------------------------------------------------------------------
(* Properties *)

\* docs/USAGE.md:28-30: an offer has every regular file of the selection, never a part
\* of it; a link inside a folder is left out.
NeverPartial ==
    result = "ok" /\ changes = 0
        => metadata = {e \in Entry : kind[e] = "file" \/ (kind[e] = "link" /\ Parent[e] = Top)}

\* docs/USAGE.md:23-26: what is offered is within the limits.
WithinLimits ==
    result = "ok" =>
        /\ Cardinality(metadata) <= MAX_TRANSFER_FILES
        /\ \A e \in metadata : Depth[e] <= MAX_REMOTE_DIRECTORY_DEPTH + 1
        /\ Envelope + Length(metadata) <= MAX_PREPARE_BODY_BYTES

\* docs/USAGE.md:23-26: a limit refuses only what exceeds it.
RefusedForCause ==
    changes = 0 =>
        LET files == {e \in Entry : Opens(e)} IN
        /\ result = "too_many_files" => Cardinality(files) > MAX_TRANSFER_FILES
        /\ result = "too_deep" => \E e \in Entry :
              kind[e] = "dir" /\ Depth[e] > MAX_REMOTE_DIRECTORY_DEPTH
        /\ result = "offer_too_large" => Envelope + Length(files) > MAX_PREPARE_BODY_BYTES

\* main.rs:842-843: once the send is cancelled the walk opens one file more at most.
CancelStops == late <= 1

\* main.rs:802-965: whatever is selected, changed or cancelled meanwhile, the offer is
\* whole and within the limits, or is refused for its cause, and a cancel ends the walk.
OfferIsRight == TypeOK /\ NeverPartial /\ WithinLimits /\ RefusedForCause /\ CancelStops

=============================================================================
