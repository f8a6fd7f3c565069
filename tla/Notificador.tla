----------------------------- MODULE Notificador -----------------------------
(***************************************************************************)
(* NotificadorEventos: the thread of the main window that looks at the     *)
(* list in memory and announces the events that begin now or in five       *)
(* minutes.                                                                *)
(*                                                                         *)
(* Time is a minute and a tick within it.  A look takes the list, then the *)
(* clock, and then posts its reminders one by one, with no lock: the list  *)
(* may be replaced, and the minute change, in between.  The thread looks   *)
(* for the events of exactly that minute and then sleeps for a whole one;  *)
(* a sleep lasts what was asked, waking up and looking take some more, the *)
(* delays add up, and now and then a minute passes between two looks.      *)
(***************************************************************************)
EXTENDS Integers

CONSTANTS
  K,             \* ticks in a minute
  Retraso,       \* bound on the delay between two looks, in ticks
  Citas,         \* the events that may be in memory
  Nada,          \* "not in memory"
  MaxMinuto,     \* bound on the clock
  Inicios        \* minutes in which an event may begin

Antelacion == 5
Minutos == 0 .. MaxMinuto
Listas  == [Citas -> Inicios \cup {Nada}]

ASSUME TiempoAssumption ==
  K \in Nat \ {0} /\ Retraso \in Nat /\ Retraso < K /\ MaxMinuto \in Nat
ASSUME IniciosAssumption == Inicios \subseteq Minutos
ASSUME NadaAssumption == Nada \notin Int

VARIABLES
  minuto, seg,   \* the clock
  fase,          \* "sin_ventana", "espera" (esperarInicioDelMinuto), "leida" (has
                 \* taken the list), "bucle" (has taken the clock, posts and
                 \* sleeps), "fin" (the program has ended)
  falta,         \* ticks left of its sleep
  atraso,        \* ticks spent otherwise since the last look
  leida,         \* local variable eventos: the list it took last
  ahora,         \* local variable: the minute of the last look, before any 0
  segAhora,      \* the tick of the last look, before any 0 (auxiliary)
  porDar,        \* the reminders of this look that are not posted yet
  memoria,       \* UsuarioActivo.eventosDelUsuario: when each event begins
  aTiempo,       \* and which were stored in time for both reminders (auxiliary)
  revisados,     \* the minutes looked at (auxiliary)
  avisos         \* the reminders posted

reloj  == <<minuto, seg>>
mirada == <<leida, ahora, segAhora, porDar, revisados>>
hilo   == <<fase, falta, atraso, mirada, avisos>>
lista  == <<memoria, aTiempo>>
vars   == <<reloj, hilo, lista>>

-----------------------------------------------------------------------------
(* Mutants.                                                                *)

\* The wait for the end of the minute is computed the wrong way round.
ArrancarAlReves ==
  /\ fase = "sin_ventana"
  /\ fase' = "espera"
  /\ falta' = K + seg
  /\ UNCHANGED <<reloj, lista, atraso, mirada, avisos>>

\* plusMinutes for minusMinutes: the reminder of five minutes comes late.
DebidosDespues(l, m) ==
  {<<c, m, "exacta">> : c \in {x \in Citas : l[x] = m}}
    \cup {<<c, m - Antelacion, "cinco">> : c \in {x \in Citas : l[x] = m - Antelacion}}

\* Not only what begins in exactly five minutes: whatever begins in the next five minutes.
DebidosDesde(l, m) ==
  {<<c, l[c], IF l[c] = m THEN "exacta" ELSE "cinco">> :
     c \in {x \in Citas : l[x] \in m .. m + Antelacion}}

\* A look that announces nothing and is followed by a sleep of d ticks.
MirarYDormir(d) ==
  /\ fase = "leida"
  /\ fase' = "bucle"
  /\ ahora' = minuto /\ segAhora' = seg
  /\ revisados' = revisados \cup {minuto}
  /\ porDar' = {}
  /\ falta' = d /\ atraso' = 0
  /\ UNCHANGED <<reloj, lista, leida, avisos>>

\* Half a minute, or three minutes, between looks.
MirarDosVeces == MirarYDormir(K \div 2)
MirarPoco     == MirarYDormir(3 * K)

-----------------------------------------------------------------------------
Init ==
  /\ minuto = 0 /\ seg \in 0 .. K - 1
  /\ fase = "sin_ventana" /\ falta = 0 /\ atraso = 0
  /\ leida = [c \in Citas |-> Nada]
  /\ ahora = 0 /\ segAhora = 0 /\ porDar = {}
  /\ memoria = [c \in Citas |-> Nada]
  /\ aTiempo = {}
  /\ revisados = {} /\ avisos = {}

\* The constructor of the main window starts the thread, which first sleeps to
\* the end of the current minute, or a little less: the wait is truncated to
\* milliseconds, and where the clock has a finer grain it ends early.
Arrancar ==
  /\ fase = "sin_ventana"
  /\ fase' = "espera"
  /\ falta' \in {K - seg, K - seg - 1}
  /\ UNCHANGED <<reloj, lista, atraso, mirada, avisos>>

\* One turn of the loop, once the sleep is over: it takes the list, ...
Leer ==
  /\ fase \in {"espera", "bucle"}
  /\ falta = 0 /\ porDar = {}
  /\ fase' = "leida"
  /\ leida' = memoria
  /\ UNCHANGED <<reloj, lista, falta, atraso, ahora, segAhora, porDar, revisados, avisos>>

\* The reminders due in minute m for the events of list l.
Debidos(l, m) ==
  {<<c, m, "exacta">> : c \in {x \in Citas : l[x] = m}}
    \cup {<<c, m + Antelacion, "cinco">> : c \in {x \in Citas : l[x] = m + Antelacion}}

\* ... takes the clock, ...
Mirar ==
  /\ fase = "leida"
  /\ fase' = "bucle"
  /\ ahora' = minuto /\ segAhora' = seg
  /\ revisados' = revisados \cup {minuto}
  /\ porDar' = Debidos(leida, minuto)
  /\ falta' = K /\ atraso' = 0
  /\ UNCHANGED <<reloj, lista, leida, avisos>>

\* ... and posts each reminder in the order of the list, the last events first.
\* With all posted, it sleeps.
Publicar(a) ==
  /\ fase = "bucle"
  /\ a \in porDar /\ \A b \in porDar : b[2] <= a[2]
  /\ porDar' = porDar \ {a}
  /\ avisos' = avisos \cup {a}
  /\ UNCHANGED <<reloj, lista, fase, falta, atraso, leida, ahora, segAhora, revisados>>

\* There is a whole minute left until that of the first reminder of an event
\* that begins in m.
EnTiempo(m) == m # Nada /\ minuto < m - Antelacion - 1

\* The login, or a handler of the window, stores the list l that it has read.
Actualizar(l) ==
  /\ fase # "fin" /\ l # memoria
  /\ memoria' = l
  /\ aTiempo' = {c \in Citas : IF l[c] = memoria[c] THEN c \in aTiempo ELSE EnTiempo(l[c])}
  /\ UNCHANGED <<reloj, hilo>>

\* The program ends, and its threads with it (nobody calls detener).
Terminar ==
  /\ fase # "fin"
  /\ fase' = "fin"
  /\ UNCHANGED <<reloj, falta, atraso, mirada, avisos, lista>>

\* The thread sleeps: neither looking nor late.
Duerme == fase \in {"espera", "bucle"} /\ porDar = {} /\ falta > 0

\* Time passes while the program runs, but between two looks no more than
\* Retraso is spent awake or oversleeping.
Tictac ==
  /\ minuto < MaxMinuto /\ fase # "fin"
  /\ \/ fase = "sin_ventana" /\ UNCHANGED <<falta, atraso>>
     \/ Duerme /\ falta' = falta - 1 /\ UNCHANGED atraso
     \/ /\ fase # "sin_ventana" /\ ~ Duerme
        /\ atraso < Retraso /\ atraso' = atraso + 1
        /\ UNCHANGED falta
  /\ IF seg + 1 < K
       THEN seg' = seg + 1 /\ UNCHANGED minuto
       ELSE seg' = 0 /\ minuto' = minuto + 1
  /\ UNCHANGED <<fase, mirada, avisos, lista>>

Tipos  == {"exacta", "cinco"}
Avisos == Citas \X Inicios \X Tipos

Next ==
  \/ Arrancar
  \/ Leer
  \/ Mirar
  \/ \E a \in Avisos : Publicar(a)
  \/ \E l \in Listas : Actualizar(l)
  \/ Terminar
  \/ Tictac

Spec == Init /\ [][Next]_vars

-----------------------------------------------------------------------------
(* Properties.                                                             *)

TypeOK ==
  /\ minuto \in Minutos /\ seg \in 0 .. K - 1
  /\ fase \in {"sin_ventana", "espera", "leida", "bucle", "fin"}
  /\ falta \in 0 .. K /\ atraso \in 0 .. Retraso
  /\ ahora \in Minutos /\ segAhora \in 0 .. K - 1
  /\ leida \in Listas /\ memoria \in Listas
  /\ aTiempo \subseteq Citas
  /\ revisados \subseteq Minutos
  /\ porDar \subseteq Avisos /\ avisos \subseteq Avisos

\* Whenever the thread takes the clock, the minute is one it never looked at,
\* and no reminder that it finds due was given before, although the first wait
\* may end early and a list may be older than the minute.
NuncaDosVeces ==
  [][fase = "leida" /\ fase' = "bucle" =>
       minuto \notin revisados /\ porDar' \cap avisos = {}]_vars

\* The minutes that went by between two looks.
Perdidos == {m \in Minutos : m \notin revisados /\ m < ahora /\ \E r \in revisados : r < m}

\* A missed minute uses up a minute of delay, which has to build up again: the
\* next one is n minutes later only if n delays are more than a minute.  (Never
\* two in a row: a delay is less than a minute.)
PerdidosEspaciados ==
  \A m \in Perdidos, n \in 1 .. MaxMinuto : n * Retraso <= K => m + n \notin Perdidos

\* If no delay is above a fifth of a minute, an event that has been in memory
\* for the whole minute before that of its first reminder gets at least one of
\* the two, however far the looks have drifted and whatever they had read when
\* it was stored: two missed minutes are never five apart, and no list is older
\* than the minute before the look.
UnAvisoSeguro ==
  Antelacion * Retraso <= K =>
    \A c \in aTiempo, m \in Inicios :
      /\ memoria[c] = m
      /\ \E r \in revisados : r <= m - Antelacion
      /\ m < ahora
      => <<c, m, "cinco">> \in avisos \/ <<c, m, "exacta">> \in avisos

\* Every reminder is true: of an event that is in the list that the look took,
\* in its minute or five before, and posted within the minute after that, even
\* if the clock moves between the list, the minute and the posts.
Recordador == INSTANCE RecordadorAbstracto WITH
  Avisadores <- {"hilo"}, Demora <- 1, Nombres <- Citas,
  hora  <- minuto,
  lista <- [a \in {"hilo"} |-> {<<c, leida[c]>> : c \in {x \in Citas : leida[x] # Nada}}],
  dados <- [a \in {"hilo"} |->
              {<<r[1], r[2], IF r[3] = "cinco" THEN Antelacion ELSE 0>> : r \in avisos}]
CumpleRecordador == Recordador!Spec

\* "Verifica cada minuto" (NotificadorEventos): once in the loop, no minute
\* goes by without a look.
VerificaCadaMinuto == Perdidos = {}
=============================================================================
