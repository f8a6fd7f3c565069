------------------------ MODULE RecordadorAbstracto ------------------------
(***************************************************************************)
(* What a reminder promises, whoever gives it: the thread of the window    *)
(* (Notificador) or a process of the tray (Bandeja).  Each has a list of   *)
(* events, which others change at any time, and whatever reminder it gives *)
(* is true: of an event that is in its list then, in one of the two        *)
(* minutes it should, or at most Demora minutes later.  What was given is  *)
(* not taken back.  Nothing is said here of reminders that are lost.       *)
(***************************************************************************)
EXTENDS Integers

CONSTANTS
  Avisadores,    \* who gives reminders
  Demora,        \* how many minutes late one may come
  Nombres,       \* what identifies an event to its avisador
  Inicios        \* minutes in which an event may begin

VARIABLES
  hora,          \* the minute of the clock
  lista,         \* of each avisador, the events <<name, beginning>> in its list
  dados          \* and the reminders <<name, beginning, minutes before>> it gave

vars == <<hora, lista, dados>>

Antelaciones == {0, 5}

\* The reminder r is due to a list l in minute m.
Debido(r, l, m) ==
  /\ r[3] \in Antelaciones
  /\ <<r[1], r[2]>> \in l
  /\ r[2] = m + r[3]

Init ==
  /\ hora = 0
  /\ lista = [a \in Avisadores |-> {}]
  /\ dados = [a \in Avisadores |-> {}]

Pasar == hora' = hora + 1 /\ UNCHANGED <<lista, dados>>

\* Events are added, moved or removed, or an avisador turns to other events.
Cambiar ==
  /\ lista' \in [Avisadores -> SUBSET (Nombres \X Inicios)]
  /\ UNCHANGED <<hora, dados>>

\* An avisador gives some of the reminders that are due.
Avisar(a) ==
  /\ dados[a] \subseteq dados'[a]
  /\ \A r \in dados'[a] \ dados[a] :
       \E m \in hora - Demora .. hora : Debido(r, lista[a], m)
  /\ dados' = [dados EXCEPT ![a] = dados'[a]]
  /\ UNCHANGED <<hora, lista>>

Next == Pasar \/ Cambiar \/ \E a \in Avisadores : Avisar(a)

Spec == Init /\ [][Next]_vars
=============================================================================
