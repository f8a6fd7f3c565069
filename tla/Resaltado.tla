----------------------------- MODULE Resaltado -----------------------------
(***************************************************************************)
(* highlightEventDays, the method of VistaPrincipal that colours the day   *)
(* buttons of the calendar: green the days of the month with events,       *)
(* yellow the selected one.  A change of the calendar and a creation run   *)
(* it on a new thread, an edit and a deletion on the event thread.  Runs   *)
(* share the buttons, with no synchronisation: each write of a property of *)
(* a button is a step of its own.                                          *)
(*                                                                         *)
(* The buttons stay where they are and their labels move: day d of month m *)
(* is on button d + Hueco[m], and a run finds it by its label of the       *)
(* moment.                                                                 *)
(***************************************************************************)
EXTENDS Integers

CONSTANTS
  Hilos,         \* runs of the method that may be in progress together
  Nadie,         \* the event thread waits for the user
  Avisando,      \* the event thread is in a handler that has written
  Meses,         \* months
  NumDias,       \* days of a month
  Hueco,         \* blank buttons before the first day of each month
  Citables,      \* dates in which there may be events
  Otras,         \* other sessions of the user write to the table
  Fallos         \* {"leer"} if queries may fail

Dias    == 1 .. NumDias
Fechas  == [mes : Meses, dia : Dias]
Boton(m, d) == Hueco[m] + d
Props   == {"opaco", "fondo", "borde"}
Estilos == {"nada", "verde", "amarillo"}

ASSUME NadieAssumption == Nadie \notin Hilos /\ Avisando \notin Hilos /\ Nadie # Avisando
ASSUME MesesAssumption == NumDias \in Nat \ {0} /\ Hueco \in [Meses -> Nat]
ASSUME CitablesAssumption == Citables \subseteq Fechas
ASSUME OtrasAssumption == Otras \in BOOLEAN /\ Fallos \subseteq {"leer"}

VARIABLES
  fecha,         \* calendario.getDate()
  conEvento,     \* the dates with events of the user, in EVENTOS
  fase,          \* where each run is
  mes,           \* local `mes' and `año' of each run
  pintar,        \* days that the run has still to find and paint
  tarea,         \* writes that the run has still to do on buttons it has found
  edt,           \* the run that the event thread executes, Avisando, or Nadie
  aspecto,       \* who wrote last each property of each button
  limpio,        \* the last run to start has had the screen and the table
                 \* for itself (auxiliary)
  pisado         \* the selected day was clicked again and no run has painted
                 \* its background since (auxiliary)

vars == <<fecha, conEvento, fase, mes, pintar, tarea, edt, aspecto, limpio, pisado>>

TodosLosBotones == {Boton(m, d) : m \in Meses, d \in Dias}
Escrituras == TodosLosBotones \X Props

Activo(h) == fase[h] # "fin"
Quieto    == \A h \in Hilos : ~ Activo(h)

\* The button of the selected day.
Elegido == Boton(fecha.mes, fecha.dia)

\* The days of month m in a list of dates.
DelMes(lista, m) == {d \in Dias : [mes |-> m, dia |-> d] \in lista}

-----------------------------------------------------------------------------
(* Mutants.                                                                *)

\* The calendar does not start a run while there is one.
EmpezarSiQuieto(h) ==
  /\ ~ Activo(h)
  /\ fase' = IF Quieto THEN [fase EXCEPT ![h] = "leer"] ELSE fase
  /\ limpio' = Quieto

\* The button after the one with the label.
BuscarSiguiente(h, d) ==
  /\ fase[h] \in {"verde", "amarillo"}
  /\ tarea[h] = {} /\ d \in pintar[h]
  /\ pintar' = [pintar EXCEPT ![h] = @ \ {d}]
  /\ tarea' = [tarea EXCEPT ![h] = {Boton(fecha.mes, d) + 1} \X Props]
  /\ UNCHANGED <<fecha, conEvento, fase, mes, edt, aspecto, limpio, pisado>>

\* The reset leaves the borders.
ConsultarSinBordes(h) ==
  /\ fase[h] = "consultar"
  /\ pintar' = [pintar EXCEPT ![h] = DelMes(conEvento, mes[h])]
  /\ tarea' = [tarea EXCEPT ![h] = TodosLosBotones \X {"opaco", "fondo"}]
  /\ fase' = [fase EXCEPT ![h] = "borrar"]
  /\ UNCHANGED <<fecha, conEvento, mes, edt, aspecto, limpio, pisado>>

-----------------------------------------------------------------------------
Init ==
  /\ fecha \in Fechas
  /\ conEvento \in SUBSET Citables
  /\ \E h \in Hilos : fase = [g \in Hilos |-> IF g = h THEN "leer" ELSE "fin"]
  /\ mes = [h \in Hilos |-> fecha.mes]
  /\ pintar = [h \in Hilos |-> {}]
  /\ tarea = [h \in Hilos |-> {}]
  /\ edt = Nadie
  /\ aspecto = [e \in Escrituras |-> "nada"]
  /\ limpio = TRUE
  /\ pisado = FALSE

Empezar(h) ==
  /\ ~ Activo(h)
  /\ fase' = [fase EXCEPT ![h] = "leer"]
  /\ limpio' = Quieto

\* The backgrounds that the calendar itself repaints when the date changes.
Repintados(f) ==
  IF f.mes # fecha.mes THEN TodosLosBotones
                       ELSE {Boton(f.mes, f.dia), Boton(f.mes, fecha.dia)}

\* The user picks a date: the calendar's listener starts a thread.
ElegirFecha(h, f) ==
  /\ edt = Nadie
  /\ f # fecha
  /\ fecha' = f
  /\ Empezar(h)
  /\ aspecto' = [e \in Escrituras |->
                   IF e \in Repintados(f) \X {"fondo"} THEN "nada" ELSE aspecto[e]]
  /\ pisado' = FALSE
  /\ UNCHANGED <<conEvento, mes, pintar, tarea, edt>>

\* The user clicks the day that is selected already, as the second click of a
\* double one does: the calendar repaints its background, but its date is the
\* same and no listener is called.
VolverAElegir ==
  /\ edt = Nadie
  /\ aspecto' = [aspecto EXCEPT ![<<Elegido, "fondo">>] = "nada"]
  /\ limpio' = FALSE /\ pisado' = TRUE
  /\ UNCHANGED <<fecha, conEvento, fase, mes, pintar, tarea, edt>>

\* A handler has written, and the table is not what it was.
Guardar(E) ==
  /\ edt = Nadie
  /\ conEvento' = E
  /\ edt' = Avisando
  /\ limpio' = FALSE
  /\ UNCHANGED <<fecha, fase, mes, pintar, tarea, aspecto, pisado>>

\* Then it highlights: a creation on a new thread; an edit or a deletion on
\* the event thread, once its message is accepted.
Resaltar(h) ==
  /\ edt = Avisando
  /\ Empezar(h)
  /\ edt' \in {h, Nadie}
  /\ UNCHANGED <<fecha, conEvento, mes, pintar, tarea, aspecto, pisado>>

\* Another session of the user writes, or this one and the answer is lost.
OtraEscribe(E) ==
  /\ Otras
  /\ E # conEvento
  /\ conEvento' = E
  /\ limpio' = FALSE
  /\ UNCHANGED <<fecha, fase, mes, pintar, tarea, edt, aspecto, pisado>>

-----------------------------------------------------------------------------
(* A run of highlightEventDays.                                            *)

\* The month shown.
LeerMes(h) ==
  /\ fase[h] = "leer"
  /\ mes' = [mes EXCEPT ![h] = fecha.mes]
  /\ fase' = [fase EXCEPT ![h] = "consultar"]
  /\ UNCHANGED <<fecha, conEvento, pintar, tarea, edt, aspecto, limpio, pisado>>

\* 1) The user's events (none, if the query fails): the days to paint green.
\* Then 2) every button is to be reset.
Consultar(h) ==
  /\ fase[h] = "consultar"
  /\ \/ /\ pintar' = [pintar EXCEPT ![h] = DelMes(conEvento, mes[h])]
        /\ UNCHANGED limpio
     \/ /\ "leer" \in Fallos
        /\ pintar' = [pintar EXCEPT ![h] = {}]
        /\ limpio' = FALSE
  /\ tarea' = [tarea EXCEPT ![h] = Escrituras]
  /\ fase' = [fase EXCEPT ![h] = "borrar"]
  /\ UNCHANGED <<fecha, conEvento, mes, edt, aspecto, pisado>>

\* The writes are done button by button, and on each opaque first, then the
\* background, then the border.
Orden == [opaco |-> 1, fondo |-> 2, borde |-> 3]
Antes(e, g) == e[1] < g[1] \/ (e[1] = g[1] /\ Orden[e[2]] < Orden[g[2]])

Estilo(h) ==
  CASE fase[h] = "borrar"   -> "nada"
    [] fase[h] = "verde"    -> "verde"
    [] fase[h] = "amarillo" -> "amarillo"

Escribir(h, e) ==
  /\ fase[h] \in {"borrar", "verde", "amarillo"}
  /\ e \in tarea[h] /\ \A g \in tarea[h] : ~ Antes(g, e)
  /\ aspecto' = [aspecto EXCEPT ![e] = Estilo(h)]
  /\ tarea' = [tarea EXCEPT ![h] = @ \ {e}]
  /\ pisado' = (pisado /\ (fase[h] = "amarillo" => e # <<Elegido, "fondo">>))
  /\ UNCHANGED <<fecha, conEvento, fase, mes, pintar, edt, limpio>>

\* 3) A day with events: the button with its label, opaque and green.
\* 4) The selected day: opaque, yellow and with a border.
Buscar(h, d) ==
  /\ fase[h] \in {"verde", "amarillo"}
  /\ tarea[h] = {} /\ d \in pintar[h]
  /\ pintar' = [pintar EXCEPT ![h] = @ \ {d}]
  /\ tarea' = [tarea EXCEPT ![h] =
       {Boton(fecha.mes, d)} \X (IF fase[h] = "verde" THEN {"opaco", "fondo"} ELSE Props)]
  /\ UNCHANGED <<fecha, conEvento, fase, mes, edt, aspecto, limpio, pisado>>

\* After the reset, the green days.
PasarAVerde(h) ==
  /\ fase[h] = "borrar" /\ tarea[h] = {}
  /\ fase' = [fase EXCEPT ![h] = "verde"]
  /\ UNCHANGED <<fecha, conEvento, mes, pintar, tarea, edt, aspecto, limpio, pisado>>

\* After them, the date is read again for the selected day.
LeerSeleccionado(h) ==
  /\ fase[h] = "verde" /\ tarea[h] = {} /\ pintar[h] = {}
  /\ fase' = [fase EXCEPT ![h] = "amarillo"]
  /\ pintar' = [pintar EXCEPT ![h] = {fecha.dia}]
  /\ UNCHANGED <<fecha, conEvento, mes, tarea, edt, aspecto, limpio, pisado>>

Acabar(h) ==
  /\ fase[h] = "amarillo" /\ tarea[h] = {} /\ pintar[h] = {}
  /\ fase' = [fase EXCEPT ![h] = "fin"]
  /\ edt' = IF edt = h THEN Nadie ELSE edt
  /\ UNCHANGED <<fecha, conEvento, mes, pintar, tarea, aspecto, limpio, pisado>>

Paso(h) ==
  \/ LeerMes(h)
  \/ Consultar(h)
  \/ \E e \in Escrituras : Escribir(h, e)
  \/ \E d \in Dias : Buscar(h, d)
  \/ PasarAVerde(h)
  \/ LeerSeleccionado(h)
  \/ Acabar(h)

Next ==
  \/ \E h \in Hilos : Paso(h)
  \/ \E h \in Hilos, f \in Fechas : ElegirFecha(h, f)
  \/ VolverAElegir
  \/ \E E \in SUBSET Citables : Guardar(E)
  \/ \E h \in Hilos : Resaltar(h)
  \/ \E E \in SUBSET Citables : OtraEscribe(E)

Spec == Init /\ [][Next]_vars

-----------------------------------------------------------------------------
(* Properties.                                                             *)

TypeOK ==
  /\ fecha \in Fechas
  /\ conEvento \in SUBSET Citables
  /\ fase \in [Hilos -> {"leer", "consultar", "borrar", "verde", "amarillo", "fin"}]
  /\ mes \in [Hilos -> Meses]
  /\ pintar \in [Hilos -> SUBSET Dias]
  /\ tarea \in [Hilos -> SUBSET Escrituras]
  /\ edt \in Hilos \cup {Nadie, Avisando}
  /\ aspecto \in [Escrituras -> Estilos]
  /\ limpio \in BOOLEAN /\ pisado \in BOOLEAN

EsAmarillo(b) == \A q \in Props : aspecto[<<b, q>>] = "amarillo"
EsVerde(b)    == \A q \in Props : aspecto[<<b, q>>] = IF q = "borde" THEN "nada" ELSE "verde"
EsNormal(b)   == \A q \in Props : aspecto[<<b, q>>] = "nada"

\* However the runs interleave, once none is in progress the selected day is
\* marked: every run reads the date after its reset and its greens, so the last
\* one to damage the mark also restores it.  Only a click on the day already
\* selected takes anything from it for good, and only the background.
SeleccionadoMarcado ==
  Quieto => \A q \in Props : aspecto[<<Elegido, q>>] = "amarillo" \/ (q = "fondo" /\ pisado)

\* A run that had the screen and the table for itself leaves exactly the
\* picture of the month, whatever earlier runs and clicks had left.
PintaFiel ==
  Quieto /\ limpio =>
    \A d \in Dias : LET b == Boton(fecha.mes, d) IN
      IF d = fecha.dia THEN EsAmarillo(b)
      ELSE IF [mes |-> fecha.mes, dia |-> d] \in conEvento THEN EsVerde(b)
      ELSE EsNormal(b)

\* "Recorre los días del mes que muestra el calendario y pinta de verde
\* aquellos que tengan un evento" (VistaPrincipal): no other is left green.
SoloVerdesConEvento ==
  Quieto /\ edt = Nadie => \A d \in Dias :
    EsVerde(Boton(fecha.mes, d)) => [mes |-> fecha.mes, dia |-> d] \in conEvento
=============================================================================
