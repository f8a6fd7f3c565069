----------------------------- MODULE MCRegistro -----------------------------
(* Instances of Registro for TLC: the windows of each program, and names.  *)
EXTENDS Registro, TLC

CONSTANTS v1, v2, v3, pa, pb, ana, luis

\* Two windows of one program, and one of another.
DosProgramas == v1 :> pa @@ v2 :> pa @@ v3 :> pb

\* "juan".
SoloJuan == {<<"m", "m", "m", "m">>}

CedulasSim == Permutations(Cedulas)
=============================================================================
