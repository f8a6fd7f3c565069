--------------------------- MODULE PopupAbstracto ---------------------------
(***************************************************************************)
(* The life of a pop-up, with no threads, queues or dialogs: a reminder is *)
(* announced, some time later its pop-up opens, and some time later the    *)
(* user accepts it, one at a time; each once, and none is lost unless the  *)
(* program ends.                                                           *)
(***************************************************************************)
CONSTANT Avisos          \* the reminders that there may be

VARIABLES
  etapa,         \* "no dado", "en espera", "abierto", "aceptado" or "perdido"
  acabado        \* the program has ended

vars == <<etapa, acabado>>

Init == etapa = [a \in Avisos |-> "no dado"] /\ acabado = FALSE

\* One pop-up goes from stage x to stage y.
Pasar(x, y) ==
  /\ \E a \in Avisos : etapa[a] = x /\ etapa' = [etapa EXCEPT ![a] = y]
  /\ ~ acabado /\ UNCHANGED acabado

Anunciar == Pasar("no dado", "en espera")
Abrir    == Pasar("en espera", "abierto")
Aceptar  == Pasar("abierto", "aceptado")

Acabar ==
  /\ ~ acabado /\ acabado' = TRUE
  /\ etapa' = [a \in Avisos |-> IF etapa[a] \in {"en espera", "abierto"} THEN "perdido"
                                                                        ELSE etapa[a]]

Next == Anunciar \/ Abrir \/ Aceptar \/ Acabar

Spec == Init /\ [][Next]_vars
=============================================================================
