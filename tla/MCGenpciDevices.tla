-------------------------- MODULE MCGenpciDevices --------------------------
(* GenpciDevices with a few interchangeable functions. *)
EXTENDS GenpciDevices, TLC

MCSymmetry == Permutations(Fn)

=============================================================================
