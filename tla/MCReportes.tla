----------------------------- MODULE MCReportes -----------------------------
(* The instance of Reportes for TLC.                                       *)
EXTENDS Reportes, TLC

CONSTANTS p1, ana, luis, f1, f2, v1, v2

UnaVentana == p1 :> ana

\* Nothing compares row ids, nor viewers.
FilasVisoresSim == Permutations(Filas) \cup Permutations(Visores)
=============================================================================
