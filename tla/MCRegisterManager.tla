------------------------- MODULE MCRegisterManager -------------------------
(* Small instances of RegisterManager for TLC. *)
EXTENDS RegisterManager, TLC

\* One block: registers 1 and 2.
OneStart == <<0>>
OneLen == <<2>>

\* Two blocks with one register each: 1, 11.
TwoStart == <<0, 10>>
TwoLen == <<1, 1>>

Symmetry == Permutations(Values)
=============================================================================
