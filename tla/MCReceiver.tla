----------------------------- MODULE MCReceiver -----------------------------
(***************************************************************************)
(* Small instances of Receiver: the constant functions the configurations   *)
(* choose from.                                                             *)
(***************************************************************************)
EXTENDS Receiver, TLC

CONSTANTS r1, r2, f1, f2, u1, u2, u3

\* Two sessions of one file each; the first file is attempted twice.
SessionsReq == u1 :> r1 @@ u2 :> r1 @@ u3 :> r2
SessionsFile == [u \in {u1, u2, u3} |-> f1]
SessionsOffer == [r \in {r1, r2} |-> {f1}]

\* One session of two files, the first attempted twice; the other request is a
\* text message.
FilesReq == [u \in {u1, u2, u3} |-> r1]
FilesFile == u1 :> f1 @@ u2 :> f1 @@ u3 :> f2
FilesOffer == r1 :> {f1, f2} @@ r2 :> {f1}

\* One upload in each of two sessions.
PairReq == u1 :> r1 @@ u2 :> r2
PairFile == [u \in {u1, u2} |-> f1]

\* The two attempts at one file are interchangeable.
AttemptSymmetry == Permutations({u1, u2})
=============================================================================
