------------------------------ MODULE MCAgenda ------------------------------
(* Instances of Agenda for TLC: who logs in to each session, and symmetry. *)
EXTENDS Agenda, TLC

CONSTANTS s1, s2, ana, luis, f1, f2, f3, completo, sinDesc, vacio

UnaSesion    == s1 :> ana
DosUsuarios  == s1 :> ana @@ s2 :> luis
MismoUsuario == s1 :> ana @@ s2 :> ana

\* The hidden row ids are interchangeable: nothing compares them.
FilasSim == Permutations(Filas)
\* So are two sessions of the same user.
SesionesFilasSim == Permutations(Filas) \cup Permutations(Sesiones)
=============================================================================
