----------------------------- MODULE MCDisk -----------------------------
(* Two helpers and two values for the private directory; two transfers of  *)
(* two files, one after the other, for what a cancelled receive leaves.    *)
EXTENDS DiskParts, TLC

CONSTANTS h1, h2, v1, v2, n1, n2, settings, t1, t2, a, b, docs

MCHelper == {h1, h2}
MCValue == {v1, v2}
MCName == {n1, n2}

D(kind, owner, shared) == [kind |-> kind, owner |-> owner, shared |-> shared]
Root == D("dir", "root", FALSE)
Nothing == D("absent", "user", FALSE)

\* The path is there, is to be created, or holds something unsafe.
MCFirstDirs ==
    {[i \in 0..2 |-> <<Root, first, second>>[i + 1]] :
        first \in {Nothing, D("dir", "user", FALSE)},
        second \in {Nothing, D("dir", "user", TRUE)}}
    \cup {[i \in 0..2 |-> <<Root, first, Nothing>>[i + 1]] :
            first \in {D("dir", "root", FALSE), D("dir", "user", TRUE), D("other", "user", FALSE)}}
    \cup {[i \in 0..2 |-> <<Root, D("dir", "user", FALSE), D("dir", "root", FALSE)>>[i + 1]]}

\* The files of both transfers go into one folder.
MCItemFolder == [i \in Item |-> docs]

Symmetry ==
    Permutations(MCHelper) \cup Permutations(MCValue) \cup Permutations(MCName)
        \cup Permutations(Transfer) \cup Permutations(Item)

=============================================================================
