-------------------------- MODULE AgendaAbstracta --------------------------
(***************************************************************************)
(* What the agenda promises, with no windows, handlers or failures: a      *)
(* table of events that changes one whole write at a time, and, for each   *)
(* session, the list of its user's events that it last looked at.  The     *)
(* promise is modest: a list may be old, or empty; it is never a mixture   *)
(* of two tables, and never holds the event of somebody else.              *)
(***************************************************************************)
CONSTANTS Sesiones, UsuarioDe, Filas, NoHay, Dias, Horas, Textos, Completos

VARIABLES tabla, vista

vars == <<tabla, vista>>

Nada == [f \in Filas |-> NoHay]

Evento(u, d, h, t) == [usu |-> u, dia |-> d, hora |-> h, tex |-> t]

\* The rows of user u at one moment: writes address events by it.
EnMomento(u, d, h) ==
  {f \in Filas : /\ tabla[f] # NoHay
                 /\ tabla[f].usu = u /\ tabla[f].dia = d /\ tabla[f].hora = h}

\* A faithful picture of u's part of the table.
Foto(u) == [f \in Filas |-> IF tabla[f] # NoHay /\ tabla[f].usu = u
                              THEN tabla[f] ELSE NoHay]

Init == tabla = Nada /\ vista = [p \in Sesiones |-> Nada]

\* One event is added, with title and description.
Agregar(p) ==
  /\ \E f \in Filas, d \in Dias, h \in Horas, t \in Completos :
       /\ tabla[f] = NoHay
       /\ tabla' = [tabla EXCEPT ![f] = Evento(UsuarioDe[p], d, h, t)]
  /\ UNCHANGED vista

\* All the user's events at one moment become the same new event.
Cambiar(p) ==
  /\ \E d \in Dias, h \in Horas, d2 \in Dias, h2 \in Horas, t2 \in Textos :
       tabla' = [f \in Filas |-> IF f \in EnMomento(UsuarioDe[p], d, h)
                                   THEN Evento(UsuarioDe[p], d2, h2, t2)
                                   ELSE tabla[f]]
  /\ UNCHANGED vista

\* All the user's events at one moment go away.
Quitar(p) ==
  /\ \E d \in Dias, h \in Horas :
       tabla' = [f \in Filas |-> IF f \in EnMomento(UsuarioDe[p], d, h)
                                   THEN NoHay ELSE tabla[f]]
  /\ UNCHANGED vista

\* The session looks at the table, or loses what it had seen.
Mirar(p) ==
  /\ \E l \in {Foto(UsuarioDe[p]), Nada} : vista' = [vista EXCEPT ![p] = l]
  /\ UNCHANGED tabla

Next == \E p \in Sesiones : Agregar(p) \/ Cambiar(p) \/ Quitar(p) \/ Mirar(p)

Spec == Init /\ [][Next]_vars
=============================================================================
