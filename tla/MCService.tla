----------------------------- MODULE MCService -----------------------------
(* Two folders, one of which may be unusable, for the process; two         *)
(* transfers of up to two files for sending.                               *)
EXTENDS ServiceParts

MCFolders == {"downloads", "stick"}
AllCauses == {"none", "missing", "old", "security", "folder", "port"}
=============================================================================
