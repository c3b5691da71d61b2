---------------------------- MODULE MCMapRecords ----------------------------
(***************************************************************************)
(* MapRecords on a small instance: 0 and 1 as integers and as doubles, and *)
(* a map that resizes its table at the second record instead of the        *)
(* fourth.                                                                 *)
(***************************************************************************)
EXTENDS MapRecords, TLC

MCKeys == [num : 0..1, tag : {"int", "float"}]

\* The tag is part of the hash.
MCHash(k) == Bits(IF k.tag = "float" THEN k.num + 7 ELSE k.num)

Symmetry == Permutations(Iterators)

=============================================================================
