----------------------------- MODULE MCHidInput -----------------------------
(* HidInput for TLC.  Operators are interchangeable in their buttons.       *)
EXTENDS HidInput, TLC

ButtonSymmetry == Permutations(Buttons)

=============================================================================
