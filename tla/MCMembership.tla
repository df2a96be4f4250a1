---------------------------- MODULE MCMembership ----------------------------
(* Model values and bounds for Membership. *)
EXTENDS Membership, TLC

\* Request slots are interchangeable, and so are users as long as none of them
\* is singled out by Addressees.
RequestSymmetry == Permutations(Requests)
Symmetry == RequestSymmetry \cup Permutations(Users)
=============================================================================
