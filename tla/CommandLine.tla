----------------------------- MODULE CommandLine -----------------------------
(***************************************************************************)
(* The helper's reader of command lines, src/backend/src/main.rs 50-113    *)
(* (BoundedLineReader) and its caller, 1443-1445.  The text arrives in     *)
(* chunks of any size; next_line may be dropped at any wait for one, when  *)
(* another branch of the loop's select is taken, and then called again.    *)
(***************************************************************************)
EXTENDS Naturals, Sequences

CONSTANTS
    Byte,       \* what a line is made of
    Newline,
    max_bytes,
    MaxText     \* bound: bytes that are sent

\* What the constants are to be.
ReaderOK == Newline \notin Byte /\ {max_bytes, MaxText} \subseteq Nat

VARIABLES
    text,               \* sent by the service, not read yet
    sent, closed,       \* how much was sent, and whether there is no more
    buffer, oversized,  \* the reader
    line,               \* history: the current line, as it was sent
    results             \* history: what next_line returned, for which line, and whether
                        \* the end of the input cut it

vars == <<text, sent, closed, buffer, oversized, line, results>>

TooLong == <<Newline>>
Init ==
    /\ text = <<>> /\ sent = 0 /\ closed = FALSE
    /\ buffer = <<>> /\ oversized = FALSE
    /\ line = <<>> /\ results = <<>>

\* The service writes whole lines; it may die in the middle of one.
Send ==
    /\ ~closed /\ sent < MaxText
    /\ \E b \in Byte \cup {Newline} : text' = Append(text, b)
    /\ sent' = sent + 1
    /\ UNCHANGED <<closed, buffer, oversized, line, results>>

Close ==
    /\ ~closed /\ closed' = TRUE
    /\ UNCHANGED <<text, sent, buffer, oversized, line, results>>

\* What of a line's next bytes is kept: no more once it is too long.
Over(content) == oversized \/ Len(content) > max_bytes - Len(buffer)
Kept(content) == IF Over(content) THEN buffer ELSE buffer \o content

Return(kept, over, whole, cut) ==
    /\ results' = Append(results,
         [got |-> IF over THEN TooLong ELSE kept, line |-> whole, cut |-> cut])
    /\ line' = <<>> /\ oversized' = FALSE

FaultyReadEnd(content) ==
    /\ Return(Kept(content), Over(content), line \o content, FALSE)
    /\ buffer' = IF Over(content) THEN buffer ELSE <<>>

\* A chunk that holds the end of the line.
ReadEnd(content) ==
    /\ Return(Kept(content), Over(content), line \o content, FALSE)
    /\ buffer' = <<>>

ReadPart(content) ==
    /\ line' = line \o content
    /\ buffer' = Kept(content) /\ oversized' = Over(content)
    /\ UNCHANGED results

\* fill_buf gives some of the text; next_line takes what is of this line.
Read ==
    /\ \E k \in 1..Len(text) :
          /\ \A i \in 1..(k - 1) : text[i] # Newline
          /\ IF text[k] = Newline THEN ReadEnd(SubSeq(text, 1, k - 1))
             ELSE ReadPart(SubSeq(text, 1, k))
          /\ text' = SubSeq(text, k + 1, Len(text))
    /\ UNCHANGED <<sent, closed>>

\* No more text: what there is of a last line is returned, and after that None.  The
\* beginning of a line that is rejected here stays in the buffer.
ReadClosed ==
    /\ closed /\ text = <<>> /\ (buffer # <<>> \/ oversized)
    /\ Return(buffer, oversized, line, TRUE)
    /\ buffer' = IF oversized THEN buffer ELSE <<>>
    /\ UNCHANGED <<text, sent, closed>>

Next == Send \/ Close \/ Read \/ ReadClosed

Spec == Init /\ [][Next]_vars

-----------------------------------------------------------------------------
(* Properties *)

Right(r) == r.got = IF Len(r.line) <= max_bytes THEN r.line ELSE TooLong

\* What the reader still held of a line the end of the input cut, after its rejection.
Again(r, before) ==
    /\ before.cut /\ before.got = TooLong
    /\ r.cut /\ r.line = <<>>
    /\ Len(r.got) <= max_bytes /\ r.got = SubSeq(before.line, 1, Len(r.got))

\* main.rs:50-113: in whatever chunks they come, each line is returned once, whole, or
\* rejected if it is longer than the limit, and nothing else is returned; save that the
\* beginning of a last line that was cut and rejected may be returned, once, after it.
EachLineOnce ==
    \A i \in 1..Len(results) :
        Right(results[i]) \/ (i > 1 /\ i = Len(results) /\ Again(results[i], results[i - 1]))

=============================================================================
