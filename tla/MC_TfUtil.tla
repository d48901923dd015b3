------------------------------ MODULE MC_TfUtil ------------------------------
(* Inputs for TfUtil: every string of up to three of '/', '.', 'a' for     *)
(* tf_makename; paths to a file and a directory in the root, to an absent   *)
(* name, into a subdirectory, an empty one and a missing one, and a path   *)
(* without '/', for tf_stat; one directory and three files with equal      *)
(* sizes, equal stamps and names equal but for case, for tf_sort_dirents.  *)
EXTENDS TfUtil

MC_Strs == UNION {[1..n -> {SL, DOT, 97}] : n \in 0..3}

MC_Paths == {<<SL>>, <<97>>, <<SL, 97>>, <<SL, 98>>, <<SL, 100>>,
             <<SL, 100, SL, 97>>, <<SL, 101, SL, 97>>, <<SL, 120, SL, 97>>}

File(n, sz, t) == [name |-> n, type |-> TYPE_F, size |-> sz, stamp |-> t]
Dir(n, t) == [name |-> n, type |-> TYPE_D, size |-> 0, stamp |-> t]

\* "/" holds file "a" and directories "d" and "e"; "/d" holds "a"; "/e" is empty
MC_Fs == (<<SL>> :> <<File(<<97>>, 7, 1136073600), Dir(<<100>>, 1041379200), Dir(<<101>>, 1041379200)>>)
         @@ (<<SL, 100>> :> <<File(<<97>>, 5, 1041465600)>>)
         @@ (<<SL, 101>> :> <<>>)

MC_Listings ==
    {<<Dir(<<100>>, 1041379200), File(<<66>>, 5, 1136073600),
       File(<<97>>, 7, 1041465600), File(<<98>>, 5, 1041465600)>>}

MC_SortTypes == {0, 1, 2, 3, -1, -2, -3}
=============================================================================
