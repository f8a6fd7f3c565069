---------------------------- MODULE MCResaltado ----------------------------
(* Instances of Resaltado for TLC: the shape of the months, and symmetry.  *)
EXTENDS Resaltado, TLC

CONSTANTS enero, febrero, h1, h2

\* The second month begins one button after the first.
DosMeses == enero :> 0 @@ febrero :> 1

Una == {[mes |-> febrero, dia |-> 2]}
Dos == {[mes |-> enero, dia |-> 1], [mes |-> febrero, dia |-> 2]}

HilosSim == Permutations(Hilos)
=============================================================================
