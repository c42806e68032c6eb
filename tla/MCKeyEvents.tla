----------------------------- MODULE MCKeyEvents -----------------------------
(* KeyEvents with interchangeable virtual keyboards. *)
EXTENDS KeyEvents

VirtualSymmetry == Permutations(Virtuals)

=============================================================================
