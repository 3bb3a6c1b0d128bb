------------------------------ MODULE MCHelper ------------------------------
(* Small instances of the parts of HelperParts. *)
EXTENDS HelperParts, TLC

CONSTANTS a1, a2, a3, s1, s2, s3,                   \* addresses, connections
          h1, c1, c2, c3, d1, d2, d3, broken,       \* certificates and documents
          docs, deep, deeper, a, b, c, link, note,  \* files and folders, bytes
          r1, r2                                     \* requests

\* Three addresses and a cache of two: the third evicts one of the others.
MCAddrs == {a1, a2, a3}
MCStreams == {s1, s2, s3}
Symmetry == Permutations(MCAddrs)

\* One helper that starts again and again.
StaleOf == (c1 :> d1) @@ (c2 :> d2) @@ (c3 :> d3)

\* docs/{a, link, deep/{b, c, deeper/}} and the selected file note.
FolderOf == (docs :> Top) @@ (a :> docs) @@ (link :> docs) @@ (deep :> docs)
            @@ (b :> deep) @@ (c :> deep) @@ (deeper :> deep) @@ (note :> Top)
FolderTrees ==
    {(docs :> "dir") @@ (deep :> "dir") @@ (deeper :> k.deeper) @@ (b :> k.b) @@ (c :> k.c)
     @@ (a :> k.a) @@ (link :> k.link) @@ (note :> k.note) :
        k \in [deeper: {"dir", "gone"}, b: {"file", "gone"}, c: {"file", "gone"},
               a: {"file", "fifo", "bad name"}, link: {"file", "link", "gone"},
               note: {"file", "link", "gone"}]}
JsonOf == [e \in {docs, deep, deeper, a, b, c, link, note} |-> IF e = b THEN 5 ELSE 1]

\* Of five bits: each prefix, and a mask that is none.
Masks == {{k \in 0..4 : k >= 5 - p} : p \in 0..5} \cup {{0, 3, 4}}
=============================================================================
