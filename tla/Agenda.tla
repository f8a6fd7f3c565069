------------------------------- MODULE Agenda -------------------------------
(***************************************************************************)
(* The agenda itself: the EVENTOS table, and the running copies of the     *)
(* program (sessions) that list, create, edit and delete the events of     *)
(* their user through the handlers of VistaPrincipal, EventoController and *)
(* EventoDAO.                                                              *)
(*                                                                         *)
(* A session is one execution of the program.  The Swing event thread runs *)
(* its handlers one at a time, but a handler waits in the middle, inside a *)
(* modal dialog or inside a database call, and there the other sessions,   *)
(* the clock and a crash interleave.  `fase' says where a session waits.   *)
(***************************************************************************)
EXTENDS Integers, FiniteSets

CONSTANTS
  Sesiones,      \* executions of the program
  Usuarios,      \* registered users (rows of USUARIOS)
  UsuarioDe,     \* the user that logs in to each session
  Filas,         \* hidden row ids of EVENTOS: the bound on the size of the table
  NoHay,         \* "no row", "no event"
  MaxDia,        \* bound on the calendar
  Horas,         \* values of HOR_EVE
  Textos,        \* values of (TIT_EVE, DES_EVE) ...
  ConTitulo,     \* ... those with a title that is not empty ...
  Completos,     \* ... those with neither part empty
  Fallos         \* database failures that may happen: see Lecturas and Escribir

Dias   == 1 .. MaxDia
Evento == [usu : Usuarios, dia : Dias, hora : Horas, tex : Textos]
Listas == [Filas -> Evento \cup {NoHay}]

ASSUME SesionesAssumption == UsuarioDe \in [Sesiones -> Usuarios]
ASSUME DiasAssumption     == MaxDia \in Nat \ {0}
ASSUME TextosAssumption   == Completos \subseteq ConTitulo /\ ConTitulo \subseteq Textos
ASSUME NoHayAssumption    == NoHay \notin Evento
ASSUME FallosAssumption   == Fallos \subseteq {"leer", "escribir", "respuesta"}

Fases == {"login", "libre", "creando", "elegirEdicion", "editando",
          "elegirBorrado", "confirmando", "refrescar"}

VARIABLES
  eventos,       \* the table EVENTOS
  hoy,           \* the date of the computer's clock
  fase,          \* where each session's event thread waits
  memoria,       \* UsuarioActivo.eventosDelUsuario
  sel,           \* calendario.getDate()
  agendable,     \* btnAgendar is visible
  modificable,   \* btnEditarEvento and btnEliminarEvento are visible
  evs,           \* the rows shown by the open selector dialog
  original       \* the event chosen in it

vars == <<eventos, hoy, fase, memoria, sel, agendable, modificable, evs, original>>
pantalla == <<sel, agendable, modificable>>

-----------------------------------------------------------------------------
(* EventoDAO: what the statements read and touch.                          *)

Vacia == [f \in Filas |-> NoHay]

\* Mutant of ListaDe: the list of every user.
ListaDeTodos(u) == eventos

\* SELECT ... WHERE ID_USU_PER = u
ListaDe(u) ==
  [f \in Filas |-> IF eventos[f] # NoHay /\ eventos[f].usu = u
                     THEN eventos[f] ELSE NoHay]

\* SELECT ... WHERE ID_USU_PER = u AND FEC_EVE = d
DiaDe(u, d) ==
  [f \in Filas |-> IF eventos[f] # NoHay /\ eventos[f].usu = u /\ eventos[f].dia = d
                     THEN eventos[f] ELSE NoHay]

\* Mutants of MomentoDe: a WHERE without the user, and one without the day.
MomentoDeCualquiera(e) ==
  {f \in Filas : eventos[f] # NoHay /\ eventos[f].dia = e.dia /\ eventos[f].hora = e.hora}
HoraDe(e) ==
  {f \in Filas : eventos[f] # NoHay /\ eventos[f].usu = e.usu /\ eventos[f].hora = e.hora}

\* The rows of WHERE ID_USU_PER = ? AND FEC_EVE = ? AND HOR_EVE = ?, which
\* need not be a single row: EVENTOS has no key.
MomentoDe(e) ==
  {f \in Filas : /\ eventos[f] # NoHay
                 /\ eventos[f].usu  = e.usu
                 /\ eventos[f].dia  = e.dia
                 /\ eventos[f].hora = e.hora}

\* A query that fails is caught in the DAO, which answers an empty list (the
\* driver has read every row when executeQuery returns, so never half a list).
Lecturas(lista) == {lista} \cup (IF "leer" \in Fallos THEN {Vacia} ELSE {})

\* Mutant of Escribir: a write that was done goes back without a refresh.
EscribirSinRefrescar(p, S, t, siNo) ==
  /\ S # {}
  /\ eventos' = t
  /\ fase' = [fase EXCEPT ![p] = siNo]

\* An autocommitted statement that would touch the rows S and leave the table
\* as t.  The handler goes on to refresh when the DAO answers true and to
\* `siNo' otherwise.  The DAO answers false when no row matched, when the
\* statement failed ("escribir") and when it was committed but its answer was
\* lost ("respuesta").
Escribir(p, S, t, siNo) ==
  \/ /\ S # {}
     /\ eventos' = t
     /\ fase' = [fase EXCEPT ![p] = "refrescar"]
  \/ /\ S = {} \/ "escribir" \in Fallos
     /\ fase' = [fase EXCEPT ![p] = siNo]
     /\ UNCHANGED eventos
  \/ /\ S # {} /\ "respuesta" \in Fallos
     /\ eventos' = t
     /\ fase' = [fase EXCEPT ![p] = siNo]

-----------------------------------------------------------------------------
(* Mutants of the handlers.                                                *)

\* The calendar opens on the day before.
IniciarSesionAyer(p) ==
  /\ fase[p] = "login"
  /\ \E l \in Lecturas(ListaDe(UsuarioDe[p])) : memoria' = [memoria EXCEPT ![p] = l]
  /\ fase' = [fase EXCEPT ![p] = "libre"]
  /\ sel' = [sel EXCEPT ![p] = hoy - 1]
  /\ agendable' = [agendable EXCEPT ![p] = TRUE]
  /\ modificable' = [modificable EXCEPT ![p] = FALSE]
  /\ UNCHANGED <<eventos, hoy, evs, original>>

\* Only the days after today can be scheduled.
ElegirDiaPosterior(p, d) ==
  /\ fase[p] = "libre"
  /\ sel[p] # d
  /\ sel' = [sel EXCEPT ![p] = d]
  /\ agendable' = [agendable EXCEPT ![p] = d > hoy]
  /\ modificable' = [modificable EXCEPT ![p] = DiaDe(UsuarioDe[p], d) # Vacia /\ d > hoy]
  /\ UNCHANGED <<eventos, hoy, fase, memoria, evs, original>>

\* The selector opens on all the events of the user.
AbrirSelectorDeTodo(p, a) ==
  /\ fase[p] = "libre" /\ modificable[p]
  /\ ListaDe(UsuarioDe[p]) # Vacia
  /\ evs' = [evs EXCEPT ![p] = ListaDe(UsuarioDe[p])]
  /\ fase' = [fase EXCEPT ![p] = a]
  /\ UNCHANGED <<eventos, hoy, memoria, pantalla, original>>

\* The list is read for the table on the screen, and not stored.
RefrescarSinGuardar(p) ==
  /\ fase[p] = "refrescar"
  /\ fase' = [fase EXCEPT ![p] = "libre"]
  /\ UNCHANGED <<eventos, hoy, memoria, pantalla, evs, original>>

\* What is stored is the list of the selected day.
RefrescarDelDia(p) ==
  /\ fase[p] = "refrescar"
  /\ memoria' = [memoria EXCEPT ![p] = DiaDe(UsuarioDe[p], sel[p])]
  /\ fase' = [fase EXCEPT ![p] = "libre"]
  /\ UNCHANGED <<eventos, hoy, pantalla, evs, original>>

-----------------------------------------------------------------------------
Init ==
  /\ eventos = Vacia
  /\ hoy = 1
  /\ fase = [p \in Sesiones |-> "login"]
  /\ memoria = [p \in Sesiones |-> Vacia]
  /\ sel = [p \in Sesiones |-> 1]
  /\ agendable = [p \in Sesiones |-> FALSE]
  /\ modificable = [p \in Sesiones |-> FALSE]
  /\ evs = [p \in Sesiones |-> Vacia]
  /\ original = [p \in Sesiones |-> NoHay]

\* Valid credentials: the list is read and stored, and the main window opens
\* on today with Agendar visible and the other two buttons hidden.
IniciarSesion(p) ==
  /\ fase[p] = "login"
  /\ \E l \in Lecturas(ListaDe(UsuarioDe[p])) : memoria' = [memoria EXCEPT ![p] = l]
  /\ fase' = [fase EXCEPT ![p] = "libre"]
  /\ sel' = [sel EXCEPT ![p] = hoy]
  /\ agendable' = [agendable EXCEPT ![p] = TRUE]
  /\ modificable' = [modificable EXCEPT ![p] = FALSE]
  /\ UNCHANGED <<eventos, hoy, evs, original>>

\* Another day is picked in the calendar: its listener recomputes the buttons.
ElegirDia(p, d) ==
  /\ fase[p] = "libre"
  /\ sel[p] # d
  /\ sel' = [sel EXCEPT ![p] = d]
  /\ agendable' = [agendable EXCEPT ![p] = d >= hoy]
  /\ \E l \in Lecturas(DiaDe(UsuarioDe[p], d)) :
       modificable' = [modificable EXCEPT ![p] = l # Vacia /\ d >= hoy]
  /\ UNCHANGED <<eventos, hoy, fase, memoria, evs, original>>

\* Agendar: the day is taken now, and the dialog waits for the rest.
Agendar(p) ==
  /\ fase[p] = "libre" /\ agendable[p]
  /\ fase' = [fase EXCEPT ![p] = "creando"]
  /\ UNCHANGED <<eventos, hoy, memoria, pantalla, evs, original>>

\* Guardar in EventoDialog, which insists on a title; crearEvento then refuses
\* an empty description, and answers as if the insertion had failed.
GuardarNuevo(p, h, t) ==
  /\ fase[p] = "creando"
  /\ t \in ConTitulo
  /\ IF t \in Completos
       THEN \E f \in Filas :
              /\ eventos[f] = NoHay
              /\ Escribir(p, {f},
                   [eventos EXCEPT ![f] = [usu |-> UsuarioDe[p], dia |-> sel[p],
                                           hora |-> h, tex |-> t]],
                   "libre")
       ELSE Escribir(p, {}, eventos, "libre")
  /\ UNCHANGED <<hoy, memoria, pantalla, evs, original>>

\* Editar and Eliminar: the day is read again, and the selector opens on what
\* was read unless it is empty.
AbrirSelector(p, a) ==
  /\ fase[p] = "libre" /\ modificable[p]
  /\ \E l \in Lecturas(DiaDe(UsuarioDe[p], sel[p])) :
       /\ l # Vacia
       /\ evs' = [evs EXCEPT ![p] = l]
  /\ fase' = [fase EXCEPT ![p] = a]
  /\ UNCHANGED <<eventos, hoy, memoria, pantalla, original>>

AbrirEdicion(p) == AbrirSelector(p, "elegirEdicion")
AbrirBorrado(p) == AbrirSelector(p, "elegirBorrado")

\* A row of the selector is chosen.  Editar closes the selector and opens
\* EditarEventoDialog; Eliminar keeps it open under the confirmation.
Elegir(p, f) ==
  /\ evs[p][f] # NoHay
  /\ original' = [original EXCEPT ![p] = evs[p][f]]
  /\ \/ /\ fase[p] = "elegirEdicion"
        /\ fase' = [fase EXCEPT ![p] = "editando"]
        /\ evs' = [evs EXCEPT ![p] = Vacia]
     \/ /\ fase[p] = "elegirBorrado"
        /\ fase' = [fase EXCEPT ![p] = "confirmando"]
        /\ UNCHANGED evs
  /\ UNCHANGED <<eventos, hoy, memoria, pantalla>>

\* Cancelar in any of the dialogs; an edit with no date ends here too.
Cancelar(p) ==
  /\ fase[p] \in {"creando", "elegirEdicion", "elegirBorrado", "editando"}
  /\ fase' = [fase EXCEPT ![p] = "libre"]
  /\ evs' = [evs EXCEPT ![p] = Vacia]
  /\ original' = [original EXCEPT ![p] = NoHay]
  /\ UNCHANGED <<eventos, hoy, memoria, pantalla>>

\* Guardar in EditarEventoDialog checks nothing; the UPDATE overwrites every
\* row at the moment of the original.
GuardarEdicion(p, d, h, t) ==
  /\ fase[p] = "editando"
  /\ LET S == MomentoDe(original[p])
         e == [usu |-> original[p].usu, dia |-> d, hora |-> h, tex |-> t]
     IN  Escribir(p, S, [f \in Filas |-> IF f \in S THEN e ELSE eventos[f]], "libre")
  /\ original' = [original EXCEPT ![p] = NoHay]
  /\ UNCHANGED <<hoy, memoria, pantalla, evs>>

\* The confirmation: NO goes back to the selector.
NoBorrar(p) ==
  /\ fase[p] = "confirmando"
  /\ fase' = [fase EXCEPT ![p] = "elegirBorrado"]
  /\ original' = [original EXCEPT ![p] = NoHay]
  /\ UNCHANGED <<eventos, hoy, memoria, pantalla, evs>>

\* YES deletes every row at the moment of the original.  If the DAO answers
\* false the selector stays open on the rows it already showed.
Borrar(p) ==
  /\ fase[p] = "confirmando"
  /\ LET S == MomentoDe(original[p])
     IN  Escribir(p, S, [f \in Filas |-> IF f \in S THEN NoHay ELSE eventos[f]],
                  "elegirBorrado")
  /\ original' = [original EXCEPT ![p] = NoHay]
  /\ evs' = [evs EXCEPT ![p] = IF fase'[p] = "refrescar" THEN Vacia ELSE @]
  /\ UNCHANGED <<hoy, memoria, pantalla>>

\* After a write that was reported as done: listarEventos, actualizarEventos.
Refrescar(p) ==
  /\ fase[p] = "refrescar"
  /\ \E l \in Lecturas(ListaDe(UsuarioDe[p])) : memoria' = [memoria EXCEPT ![p] = l]
  /\ fase' = [fase EXCEPT ![p] = "libre"]
  /\ UNCHANGED <<eventos, hoy, pantalla, evs, original>>

\* The program ends, by closing its window or by a crash at any point.
Terminar(p) ==
  /\ fase[p] # "login"
  /\ fase' = [fase EXCEPT ![p] = "login"]
  /\ memoria' = [memoria EXCEPT ![p] = Vacia]
  /\ sel' = [sel EXCEPT ![p] = 1]
  /\ agendable' = [agendable EXCEPT ![p] = FALSE]
  /\ modificable' = [modificable EXCEPT ![p] = FALSE]
  /\ evs' = [evs EXCEPT ![p] = Vacia]
  /\ original' = [original EXCEPT ![p] = NoHay]
  /\ UNCHANGED <<eventos, hoy>>

Medianoche ==
  /\ hoy < MaxDia
  /\ hoy' = hoy + 1
  /\ UNCHANGED <<eventos, fase, memoria, pantalla, evs, original>>

Paso(p) ==
  \/ IniciarSesion(p)
  \/ \E d \in Dias : ElegirDia(p, d)
  \/ Agendar(p)
  \/ \E h \in Horas, t \in Textos : GuardarNuevo(p, h, t)
  \/ AbrirEdicion(p)
  \/ AbrirBorrado(p)
  \/ \E f \in Filas : Elegir(p, f)
  \/ Cancelar(p)
  \/ \E d \in Dias, h \in Horas, t \in Textos : GuardarEdicion(p, d, h, t)
  \/ NoBorrar(p)
  \/ Borrar(p)
  \/ Refrescar(p)
  \/ Terminar(p)

Next == Medianoche \/ \E p \in Sesiones : Paso(p)

Spec == Init /\ [][Next]_vars

-----------------------------------------------------------------------------
(* Properties.                                                             *)

TypeOK ==
  /\ eventos \in Listas
  /\ hoy \in Dias
  /\ fase \in [Sesiones -> Fases]
  /\ memoria \in [Sesiones -> Listas]
  /\ sel \in [Sesiones -> Dias]
  /\ agendable \in [Sesiones -> BOOLEAN]
  /\ modificable \in [Sesiones -> BOOLEAN]
  /\ evs \in [Sesiones -> Listas]
  /\ original \in [Sesiones -> Evento \cup {NoHay}]

\* Nothing that a session holds (the list in memory, the selector's rows, the
\* event being edited or confirmed, which is always there) belongs to another
\* user.
SoloPropias ==
  \A p \in Sesiones :
    /\ \A f \in Filas : /\ memoria[p][f] # NoHay => memoria[p][f].usu = UsuarioDe[p]
                        /\ evs[p][f] # NoHay => evs[p][f].usu = UsuarioDe[p]
    /\ fase[p] \in {"editando", "confirmando"} =>
         original[p] # NoHay /\ original[p].usu = UsuarioDe[p]

\* p is the only session of its user.
Unica(p) == \A q \in Sesiones \ {p} : UsuarioDe[q] # UsuarioDe[p]

AlDia(p) == memoria[p] = ListaDe(UsuarioDe[p])

\* The list in memory, which the reminder thread reads, is the user's part of
\* the table whenever the window waits for the user: every handler that writes
\* refreshes it.  It takes that the user has no other session, that queries
\* do not fail and that no answer of a write is lost.
MemoriaAlDia ==
  "leer" \notin Fallos /\ "respuesta" \notin Fallos =>
    \A p \in Sesiones :
      Unica(p) /\ fase[p] \notin {"login", "refrescar"} => AlDia(p)

\* What the user is choosing from is still what the table holds: the selector
\* shows the selected day as it is, through any number of failed deletions,
\* and the event being edited or confirmed is a row of the table.
SelectorVigente ==
  "respuesta" \notin Fallos =>
    \A p \in Sesiones : Unica(p) =>
      /\ fase[p] \in {"elegirEdicion", "elegirBorrado", "confirmando"} =>
           evs[p] = DiaDe(UsuarioDe[p], sel[p])
      /\ fase[p] \in {"editando", "confirmando"} =>
           \E f \in Filas : eventos[f] = original[p]

\* The listener's verdict on the day is only ever recomputed when the day
\* changes, so it may be old: but it errs on one side only.  A day that is
\* today or later can always be scheduled; after midnight a past day still
\* can, until another day is picked.
BotonConservador ==
  \A p \in Sesiones : fase[p] # "login" /\ sel[p] >= hoy => agendable[p]

\* An event that was there is rewritten only by an edit, and disappears only
\* by a confirmed deletion, of a session of its user that had chosen an event
\* of the same day and hour.
AfectaSoloElMomento ==
  [][\A f \in Filas : eventos[f] # NoHay /\ eventos'[f] # eventos[f] =>
       \E p \in Sesiones :
         /\ fase[p] = IF eventos'[f] = NoHay THEN "confirmando" ELSE "editando"
         /\ fase'[p] # fase[p]
         /\ original[p].usu  = eventos[f].usu
         /\ original[p].dia  = eventos[f].dia
         /\ original[p].hora = eventos[f].hora]_vars

\* No step of a session touches, or leaves behind, the event of another user.
AisladoPorUsuario ==
  [][\A f \in Filas : eventos'[f] # eventos[f] =>
       \E p \in Sesiones :
         /\ fase'[p] # fase[p]
         /\ \A e \in {eventos[f], eventos'[f]} \ {NoHay} : e.usu = UsuarioDe[p]]_vars

\* p changes the table in this step.
Escribe(p) ==
  /\ fase[p] \in {"creando", "editando", "confirmando"} /\ fase'[p] # fase[p]
  /\ eventos' # eventos

\* A list does go stale, but only through a write of another session of its
\* user; through its own, for the instant until its refresh or because the
\* answer was lost; or because the query failed, and then it is empty.
DesfaseConCausa ==
  [][\A p \in Sesiones :
       AlDia(p) /\ memoria'[p] # ListaDe(UsuarioDe[p])' =>
         \/ \E q \in Sesiones \ {p} : UsuarioDe[q] = UsuarioDe[p] /\ Escribe(q)
         \/ Escribe(p) /\ (fase'[p] = "refrescar" \/ "respuesta" \in Fallos)
         \/ /\ fase[p] \in {"login", "refrescar"}
            /\ "leer" \in Fallos /\ memoria'[p] = Vacia
         \/ fase'[p] = "login"]_vars

\* Whatever the failures, crashes and interleavings, the table changes by
\* whole writes and every list in memory is a picture of it or empty.
Promesa == INSTANCE AgendaAbstracta WITH tabla <- eventos, vista <- memoria
CumplePromesa == Promesa!Spec

Lugar(p) ==
  IF fase[p] = "login" THEN "fuera" ELSE
  IF fase[p] = "refrescar" THEN "pendiente" ELSE "dentro"

\* Each session by itself, whatever the others do, reads, writes and reads
\* again: no handler acts between a write that was reported and its refresh, and
\* the list changes only by reading.
Sesion(p) == INSTANCE SesionAbstracta WITH
  Nada    <- NoHay,
  Valores <- {e \in Evento : e.usu = UsuarioDe[p]},
  Momento <- [e \in Evento |-> <<e.dia, e.hora>>],
  HayOtras <- ~ Unica(p),
  tabla   <- ListaDe(UsuarioDe[p]),
  lista   <- memoria[p],
  lugar   <- Lugar(p)
CumpleSesion ==
  /\ \A p \in Sesiones : Sesion(p)!Init
  /\ [][\A p \in Sesiones : Sesion(p)!Next \/ UNCHANGED Sesion(p)!vars]_vars

-----------------------------------------------------------------------------
(* What the texts of the program say, and the code does not do.            *)

\* "¿Eliminar el evento seleccionado?" (VistaPrincipal): one event goes.
BorraSoloElSeleccionado ==
  [][Cardinality({f \in Filas : eventos[f] # NoHay /\ eventos'[f] = NoHay}) <= 1]_vars

\* "El título es obligatorio" (EventoDialog): every event has one.
TituloObligatorio ==
  \A f \in Filas : eventos[f] # NoHay => eventos[f].tex \in ConTitulo
=============================================================================
