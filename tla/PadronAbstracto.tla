-------------------------- MODULE PadronAbstracto --------------------------
(***************************************************************************)
(* What the registration promises, with no windows, programs or database:  *)
(* a register of accounts to which one is added at a time, and the answer  *)
(* that each applicant is looking at.  An account is added in one step, by *)
(* the applicant to whom the cédula was free, and never changes; "exito"   *)
(* and "existe" are always true, and only "error" may hide that the        *)
(* account was added.                                                      *)
(***************************************************************************)
CONSTANTS
  Ventanas,      \* the applicants
  Cedulas,
  Formularios,   \* what may be typed
  Admisibles,    \* the part of it that may become an account
  Libre          \* "no account", "no form"

VARIABLES
  padron,        \* the account of each cédula
  respuesta      \* what each applicant is told, and of what form

vars == <<padron, respuesta>>

Ninguna == <<"", Libre>>

Init ==
  /\ padron = [c \in Cedulas |-> Libre]
  /\ respuesta = [v \in Ventanas |-> Ninguna]

\* v alone gets an answer: one of A, about one of the forms X.
Responder(v, A, X) ==
  /\ respuesta'[v] \in A \X X
  /\ respuesta' = [respuesta EXCEPT ![v] = respuesta'[v]]

\* A free cédula is taken.
Alta(v) ==
  /\ Responder(v, {"exito", "error"}, Admisibles)
  /\ LET x == respuesta'[v][2]
     IN  padron[x.ced] = Libre /\ padron' = [padron EXCEPT ![x.ced] = x]

\* The cédula is taken already.
Repetida(v) ==
  /\ Responder(v, {"existe"}, Admisibles)
  /\ padron[respuesta'[v][2].ced] # Libre
  /\ UNCHANGED padron

\* The form is not acceptable, or its two passwords differ, or the registration
\* was not possible.
Negar(v) ==
  /\ \/ Responder(v, {"cedula", "nombre"}, Formularios \ Admisibles)
     \/ Responder(v, {"clave", "error"}, Admisibles)
  /\ UNCHANGED padron

\* Some applicants are done with their answers.
Olvidar ==
  /\ \E W \in SUBSET Ventanas :
       respuesta' = [v \in Ventanas |-> IF v \in W THEN Ninguna ELSE respuesta[v]]
  /\ UNCHANGED padron

Next == Olvidar \/ \E v \in Ventanas : Alta(v) \/ Repetida(v) \/ Negar(v)

Spec == Init /\ [][Next]_vars
=============================================================================
