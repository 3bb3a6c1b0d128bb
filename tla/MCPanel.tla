------------------------------ MODULE MCPanel ------------------------------
(***************************************************************************)
(* Small instances of the parts of PanelParts: two requests, a file        *)
(* transfer and a text, and one send of the user's own; two devices, over  *)
(* HTTP or HTTPS, of which the registry holds one and the memory of HTTPS  *)
(* fingerprints the other.                                                 *)
(***************************************************************************)
EXTENDS PanelParts

CONSTANTS r1, r2, f1, f2, d1
=============================================================================
