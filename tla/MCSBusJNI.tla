------------------------------ MODULE MCSBusJNI ------------------------------
(***************************************************************************)
(* Model values and symmetry for checking SBusJNI.                         *)
(***************************************************************************)
EXTENDS SBusJNI, TLC

Symmetry == Permutations(Files)

=============================================================================
