---------------------------- MODULE MCSBusChannel ----------------------------
(***************************************************************************)
(* SBusChannel for TLC.  Files and string contents are model values that   *)
(* nothing in the spec tells apart except by equality, so permuting them   *)
(* is a symmetry of the safety runs (not used with liveness).              *)
(***************************************************************************)
EXTENDS SBusChannel, TLC

Symmetry == Permutations(Values) \cup Permutations(Files)

=============================================================================
