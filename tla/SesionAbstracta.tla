-------------------------- MODULE SesionAbstracta --------------------------
(***************************************************************************)
(* What one execution of the program does with the events of its user,     *)
(* with no windows or dialogs: it reads them when it comes in, writes them *)
(* one statement at a time, and after each statement that was reported as  *)
(* done it reads them again before anything else.  Other sessions of the   *)
(* user, if there are any, write them too.                                 *)
(* Two models have these handlers, each with the detail that its own       *)
(* properties need; both implement this one.                               *)
(***************************************************************************)
CONSTANTS Filas, Valores, Nada,
          Momento,       \* the moment of each value: writes address rows by it
          Fallos,        \* "leer": a query may fail; "respuesta": an answer may be lost
          HayOtras       \* the user has other sessions

VARIABLES
  tabla,         \* the rows of the user
  lista,         \* those that the session has in memory
  lugar          \* "fuera", "dentro", or "pendiente" between a write and its refresh

vars == <<tabla, lista, lugar>>

Tablas == [Filas -> Valores \cup {Nada}]
Vacia  == [f \in Filas |-> Nada]

EnMomento(m) == {f \in Filas : tabla[f] # Nada /\ Momento[tabla[f]] = m}

\* What a query answers.
Leido == {tabla} \cup (IF "leer" \in Fallos THEN {Vacia} ELSE {})

Init == tabla \in Tablas /\ lista = Vacia /\ lugar = "fuera"

Entrar ==
  /\ lugar = "fuera" /\ lugar' = "dentro"
  /\ lista' \in Leido
  /\ UNCHANGED tabla

\* A statement that was committed: the user is told that it was done, and the
\* list is read again; or its answer was lost, and it is not.
Confirmada ==
  /\ lugar = "dentro"
  /\ lugar' = "pendiente" \/ ("respuesta" \in Fallos /\ lugar' = "dentro")
  /\ UNCHANGED lista

Crear ==
  /\ Confirmada
  /\ \E f \in Filas, v \in Valores :
       tabla[f] = Nada /\ tabla' = [tabla EXCEPT ![f] = v]

\* All the events of one moment become the same, or go.
Cambiar ==
  /\ Confirmada
  /\ \E m \in {Momento[v] : v \in Valores}, v \in Valores \cup {Nada} :
       /\ EnMomento(m) # {}
       /\ tabla' = [f \in Filas |-> IF f \in EnMomento(m) THEN v ELSE tabla[f]]

Refrescar ==
  /\ lugar = "pendiente" /\ lugar' = "dentro"
  /\ lista' \in Leido
  /\ UNCHANGED tabla

\* Another session of the user writes.
Ajena ==
  /\ HayOtras
  /\ tabla' \in Tablas
  /\ UNCHANGED <<lista, lugar>>

Salir ==
  /\ lugar # "fuera" /\ lugar' = "fuera"
  /\ lista' = Vacia
  /\ UNCHANGED tabla

Next == Entrar \/ Crear \/ Cambiar \/ Refrescar \/ Ajena \/ Salir

Spec == Init /\ [][Next]_vars
=============================================================================
