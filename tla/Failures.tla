------------------------------ MODULE Failures ------------------------------
(***************************************************************************)
(* The code a failed transfer is given for the panel to translate          *)
(* (src/backend/src/main.rs 224-298, 122-146): the first rule one of whose *)
(* words is in the text of the error.  A text is the set of the rules'     *)
(* words it contains: its own, and those in a path or a URL it quotes.     *)
(* The texts are the ones raised by main.rs 802-1150, vendor client.rs and *)
(* handlers.rs, with the words of the operating system.                    *)
(***************************************************************************)
EXTENDS Naturals, Sequences

CONSTANTS
    PathWords,     \* words of the rules that a path the user chose may contain
    IdWords        \* those that a random id in a URL may contain

VARIABLES failure, code
vars == <<failure, code>>

First(rules, text) ==
    LET hits == {i \in 1..Len(rules) : rules[i].words \cap text # {}} IN
    IF hits = {} THEN "transfer_failed"
    ELSE rules[CHOOSE i \in hits : \A j \in hits : i <= j].code

Rule(words, c) == [words |-> words, code |-> c]

SendRules == <<
    Rule({"offer exceeds 2 mib"}, "offer_too_large"),
    Rule({"10,000 files"}, "too_many_files"),
    Rule({"32 levels"}, "too_deep"),
    Rule({"unsafe remote file name"}, "unsafe_path"),
    Rule({"not valid utf-8", "no valid utf-8 name"}, "invalid_utf8"),
    Rule({"no transferable files"}, "no_files"),
    Rule({"unsupported entry"}, "unsupported_entry"),
    Rule({"permission"}, "permission_denied"),
    Rule({"cannot read", "cannot inspect"}, "unreadable"),
    Rule({"address already in use", "addrinuse"}, "port_in_use"),
    Rule({"refused", "unreachable"}, "device_unavailable"),
    Rule({"timeout", "timed out"}, "timed_out"),
    Rule({"403", "rejected"}, "declined"),
    Rule({"401", "pin"}, "pin_required"),
    Rule({"network", "socket"}, "network_unavailable") >>

LastRuleFirst(text) ==
    First([i \in 1..Len(SendRules) |-> SendRules[Len(SendRules) + 1 - i]], text)

classify_error(text) == First(SendRules, text)

ReceiveRules == <<
    Rule({"no space left", "quota"}, "disk_full"),
    Rule({"permission denied", "read-only"}, "permission_denied"),
    Rule({"symlink", "unsafe"}, "unsafe_path"),
    Rule({"did not match", "integrity", "validate"}, "integrity_failed"),
    Rule({"timed out", "timeout"}, "timed_out") >>

receive_failure_code(text) == First(ReceiveRules, text)

-----------------------------------------------------------------------------
(* The failures, with the words of their text, what it quotes, and what they mean *)

Failure(at, own, quotes, means) ==
    [at |-> at, own |-> own, quotes |-> quotes, means |-> means]

\* check_offer_size, OutgoingFiles::add_file and the two collect functions.
SelectionFailures == {
    Failure("offer", {"offer exceeds 2 mib"}, "nothing", "offer_too_large"),
    Failure("count", {"10,000 files"}, "nothing", "too_many_files"),
    Failure("depth", {"32 levels"}, "nothing", "too_deep"),
    Failure("name", {"unsafe remote file name"}, "nothing", "unsafe_path"),
    Failure("entry name", {"not valid utf-8"}, "nothing", "invalid_utf8"),
    Failure("selected name", {"no valid utf-8 name"}, "nothing", "invalid_utf8"),
    Failure("nothing", {"no transferable files"}, "nothing", "no_files"),
    Failure("fifo", {"unsupported entry"}, "nothing", "unsupported_entry"),
    Failure("open denied", {"cannot read", "permission"}, "path", "permission_denied"),
    Failure("open gone", {"cannot read"}, "path", "unreadable"),
    Failure("stat", {"cannot inspect"}, "nothing", "unreadable") }

\* LocalSendClient::prepare_upload and the uploads; a request that could not be sent
\* quotes its URL.
RequestFailures == {
    Failure("prepare declined", {"rejected", "403"}, "nothing", "declined"),
    Failure("prepare refused", {"refused"}, "pin", "device_unavailable"),
    Failure("prepare timeout", {"timed out"}, "pin", "timed_out"),
    Failure("prepare cut", {}, "pin", "transfer_failed"),
    Failure("upload refused", {"refused"}, "ids", "device_unavailable"),
    Failure("upload timeout", {"timed out"}, "ids", "timed_out"),
    Failure("upload cut", {}, "ids", "transfer_failed") }

\* fail_receive_session and commit_temp_file.  Whatever fails while the body is
\* written, the disk included, is told as a lost connection.
ReceiveFailures == {
    Failure("write full", {}, "nothing", "disk_full"),
    Failure("connection lost", {}, "nothing", "transfer_failed"),
    Failure("publish full", {"no space left"}, "nothing", "disk_full"),
    Failure("publish quota", {"quota"}, "nothing", "disk_full"),
    Failure("publish denied", {"permission denied"}, "nothing", "permission_denied"),
    Failure("publish symlink", {"unsafe", "symlink"}, "nothing", "unsafe_path"),
    Failure("size", {"did not match"}, "nothing", "integrity_failed"),
    Failure("hash", {"integrity"}, "nothing", "integrity_failed"),
    Failure("hash unread", {"validate"}, "nothing", "integrity_failed"),
    Failure("swept", {"timed out"}, "nothing", "timed_out") }

Quoted(quotes) ==
    CASE quotes = "path" -> SUBSET PathWords
      [] quotes = "pin" -> {{}, {"pin"}}
      [] quotes = "ids" -> SUBSET IdWords
      [] quotes = "nothing" -> {{}}

NoFailure == Failure("nowhere", {}, "nothing", "no code")

Init == failure = [f |-> NoFailure, quoted |-> {}] /\ code = "no code"

outgoing_failed ==
    \E f \in SelectionFailures \cup RequestFailures, quoted \in SUBSET (PathWords \cup IdWords \cup {"pin"}) :
        /\ quoted \in Quoted(f.quotes)
        /\ failure' = [f |-> f, quoted |-> quoted]
        /\ code' = classify_error(f.own \cup quoted)

incoming_failed ==
    \E f \in ReceiveFailures :
        /\ failure' = [f |-> f, quoted |-> {}]
        /\ code' = receive_failure_code(f.own)

Next == outgoing_failed \/ incoming_failed
Spec == Init /\ [][Next]_vars

-----------------------------------------------------------------------------
(* Properties *)

\* main.rs:2506-2524: a failed send has the code of what went wrong, as the texts are
\* really raised, when they quote nothing.
OwnWordsDecide ==
    failure.f \in SelectionFailures \cup RequestFailures /\ failure.quoted = {}
        => code = failure.f.means

\* main.rs:2538-2553: the same of a receive, but for a disk that fills during a write.
ReceiveTextsDecide ==
    failure.f \in ReceiveFailures /\ failure.f.at # "write full" => code = failure.f.means

\* main.rs:224-298: the codes of both directions tell what went wrong.
TextsDecide == OwnWordsDecide /\ ReceiveTextsDecide

\* main.rs:224: "a stable code": the same failure has the same code, whatever its text
\* quotes.
StableCode == failure.f \in SelectionFailures \cup RequestFailures => code = failure.f.means

\* docs/translation-notes.json:152: a full disk is told as one.
FullDiskSaid == failure.f.means = "disk_full" => code = "disk_full"

=============================================================================
