------------------------------ MODULE MCNTFSDir -----------------------------
(***************************************************************************)
(* Model of the directory routines for TLC: three DIR_ITER handles, a      *)
(* directory with a DOS alias among its names, an empty directory, a       *)
(* regular file, a path with no record and a path on no mounted volume.    *)
(***************************************************************************)
EXTENDS NTFSDir, TLC

MCKind == [p \in Paths |->
             CASE p = "/d" -> "dir" [] p = "/e" -> "dir" [] p = "/f" -> "file"
               [] p = "/m" -> "missing" [] OTHER -> "nodev"]

MCListing == [p \in Paths |->
                IF p = "/d"
                THEN <<[name |-> "a", dos |-> FALSE], [name |-> "A~1", dos |-> TRUE],
                       [name |-> "b", dos |-> FALSE]>>
                ELSE <<>>]

\* Handles are interchangeable: every property quantifies over all of them.
MCSymmetry == Permutations(Handles)
=============================================================================
