----------------------------- MODULE MCOutgoing -----------------------------
(***************************************************************************)
(* Small instances of Outgoing: transfers are interchangeable.              *)
(***************************************************************************)
EXTENDS Outgoing, TLC

TransferSymmetry == Permutations(Transfers)
=============================================================================
