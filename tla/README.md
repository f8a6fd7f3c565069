# Verification of SistemaAgenda

TLA+ models of the agenda program in `src/src` (Java Swing over MySQL), TLC
runs that check them on small instances, and TLAPS proofs of what matters most
for every instance. Definitions keep the program's language, Spanish; comments
are in English.

## 1. The system

The program has no tests; its documents are `README.md`, the comments, and the
texts it shows. About 3000 lines of Java are its own; the rest of the
repository is a vendored MySQL, a JRE, libraries and installers.

| Component | State it keeps | Operations | Talks to |
|---|---|---|---|
| Agenda window (`view/VistaPrincipal`, `EventoDialog`, `EditarEventoDialog`) | selected day, which buttons are visible, the open dialog and the rows it shows | pick a day, create, edit, delete, show a day | `EventoController`; stores lists in `UsuarioActivo`; starts highlight threads and the reminder thread |
| Events (`EventoController`, `EventoDAO`, table `EVENTOS`) | the table, which has **no key** | insert, update and delete by (user, day, hour), two queries; each on its own autocommitted connection; exceptions become `false` or an empty list | MySQL |
| Session (`session/UsuarioActivo`) | the user and the list of events in memory | start, replace the list, (end) | written by login and the handlers, read by the reminder thread |
| Reminder thread (`view/NotificadorEventos`) | its sleep | look at the list, announce what begins now or in 5 minutes, sleep 60 s | `UsuarioActivo`, pop-ups |
| Login (`LoginUsuario`, `LoginController`, `UsuarioDAO`) | `session.txt`, the tray process it starts | log in, open registration | tray, `UsuarioActivo`, agenda window |
| Tray process (`view/NotificadorTray`) | what it already announced | read `session.txt`, query, announce, sleep to the next minute | the file, MySQL |
| Registration (`RegistroUsuario`, `RegistroController`) | table `USUARIOS` | check, then insert | MySQL |
| Highlighted days (`highlightEventDays`) | colours of the day buttons | repaint, on several threads | MySQL, the calendar |
| Reports (`ReporteController`, `Reporte`, `.jrxml`) | what each viewer shows | guards, fill, show | MySQL, JasperReports |

What is hard here: several executions of the program for one user (nothing
prevents it, and the tray is a second reader in any case); handlers that read,
wait in a modal dialog for as long as the user likes, and then write what they
read; a write and a read that are two transactions; failures turned into
ordinary answers; a thread that compares for equality with the current minute
although its sleeps drift, and that posts what it has read while others change
it; processes that outlive the window.

What makes each part correct: the table changes only as the user of the session
asked, at the moment chosen (Agenda); the list in memory is the table's
(Agenda); reminders are given, once (Notificador, Bandeja); one account per
cédula (Registro); the colours shown are those of the month shown (Resaltado);
each event is counted in one band, and in its day, month and year, so that the
four reports agree (Reportes). The
hazards, with their lines, are listed under `hazards` in `PROJECT.json`.

## 2. The plan

In the order in which the parts were built, the most important behaviour first:

1. `AgendaAbstracta`, `Agenda`: what the agenda promises, and the handlers, DAO and sessions that implement it. `MCAgenda` and its configurations.
2. `AgendaProofs`: types, ownership, the list in memory, the selector, the bounds of a write, the refinement.
3. `Notificador`, `NotificadorProofs`: the drifting reminder thread.
4. `Bandeja`, `BandejaProofs`: the login as a sequence of steps, and the tray processes it leaves behind.
5. `Registro`, `RegistroProofs`: check-then-insert from several windows, with lost answers.
6. `Resaltado`, `ResaltadoProofs`: runs of the highlighting that paint the same buttons.
7. `Reportes`, `ReportesProofs`: the four buttons and queries, and the windows that keep their answers.
8. `Ventana`, `VentanaProofs`: the window and the reminder thread together, from what the user is told to the pop-up that is accepted.
9. `RecordadorAbstracto`, `PadronAbstracto`: what a reminder and a registration promise, and the refinements: of both reminders to the one, of the registration to the other.
10. `SesionAbstracta`, `PopupAbstracto`: what one session does with its user's events, and the life of a pop-up. `Agenda` and `Ventana` both implement the first, so their two accounts of the same handlers are held to one specification; `Ventana` implements the second.

What could follow: `Ventana` with the full `Agenda` in place of its abridged
handlers (the state space of both is beyond a run of minutes, and the reminder
thread sees nothing of what is left out); liveness of the tray, whose process
owes nothing but to look again.

## 3. The modules

**`Agenda`** has one action per handler, or per part of a handler between two
waits. A *session* is one execution of the program. `fase` says where its event
thread waits: `login`, `libre` (main window), `creando` (EventoDialog),
`elegirEdicion`/`elegirBorrado` (the selectors), `editando`
(EditarEventoDialog), `confirmando` (the yes/no question), `refrescar` (between
a write that succeeded and the query that refreshes memory).

| Variable | In the code |
|---|---|
| `eventos` | table `EVENTOS`; `Filas` are InnoDB's hidden row ids, because the table has no key and may hold equal rows |
| `hoy` | the date of the clock |
| `memoria` | `UsuarioActivo.eventosDelUsuario` |
| `sel`, `agendable`, `modificable` | `calendario.getDate()`, `btnAgendar.isVisible()`, `btnEditarEvento`/`btnEliminarEvento.isVisible()` |
| `evs`, `original` | the locals `evs` and `original` of the edit and delete handlers |

| Action | Code |
|---|---|
| `IniciarSesion` | `LoginController.iniciarSesion`, then the constructor: today selected, Agendar visible, the others hidden |
| `ElegirDia` | the second `"calendar"` listener, VistaPrincipal 232-256 |
| `Agendar`, `GuardarNuevo` | 111-153, with the title check of `EventoDialog.onGuardar` and the description check of `crearEvento` |
| `AbrirEdicion`, `Elegir`, `GuardarEdicion` | 259-353 |
| `AbrirBorrado`, `Elegir`, `NoBorrar`, `Borrar` | 356-437 |
| `Cancelar` | the Cancelar buttons, and the `NullPointerException` of an edit without date, which abandons the handler |
| `Refrescar` | `listarEventos` + `actualizarEventos`, 137-138, 332-333, 412-413 |
| `Terminar` | closing the window (EXIT_ON_CLOSE) or a crash, at any wait |
| `Medianoche` | the clock |

Failures are the constant `Fallos`: `"leer"` (a query throws; the DAO answers an
empty list), `"escribir"` (a statement throws and did nothing) and
`"respuesta"` (it was committed, but the answer was lost, so the DAO answers
`false`). `Escribir` is the one place where a write can end in the three ways.
Texts are model values: what matters is whether title and description are empty.

Abstracted: the order of the rows in a list, the table on the screen (a copy of
`memoria` or of a day), messages, the highlight threads. A login that fails
changes nothing. The label "Cerrar Sesión" is not an action: `jPanel3.removeAll()`
(VistaPrincipal 447) takes it out of the window before it is shown.

**`AgendaAbstracta`** is the promise: a table that changes by whole writes of one
user at one moment, and, per session, a list that is a picture of the user's part
of the table, or empty. `Agenda` implements it with `tabla <- eventos`,
`vista <- memoria` (`CumplePromesa`).

**`SesionAbstracta`** is one session by itself, with no windows: it reads its user's
rows when it comes in, writes one statement at a time, and after each statement that
was reported as done it reads again *before anything else*; other sessions of the user
(`HayOtras`) may write at any time. Two models contain these handlers, with the
detail that their own properties need, and both implement it:

| `SesionAbstracta` | `Agenda`, for each session `p` | `Ventana` |
|---|---|---|
| `tabla` | `ListaDe(UsuarioDe[p])` | `eventos` |
| `lista` | `memoria[p]` | `memoria`, or nothing while `fuera` |
| `lugar`: `fuera`, `pendiente`, `dentro` | `login`, `refrescar`, any other `fase[p]` | `login` and `fin`, `refrescar`, any other `edt` |
| `Momento` | day and hour of an event | the minute itself |
| `HayOtras` | another session has the same user | always |

A login whose `session.txt` cannot be written is, there, one that came in and went out; the list
it leaves in memory is read by nobody until the next login replaces it.

**`MCAgenda`** gives TLC the sessions' users and the symmetry sets (row ids are
never compared; two sessions of one user are interchangeable).

**`Notificador`** is `NotificadorEventos`: `Arrancar` (`esperarInicioDelMinuto`); a
turn of the loop as `Leer` (takes the list), `Mirar` (takes the clock, and so which
events are due) and one `Publicar` for each reminder, in the order of the list;
`Actualizar` (any handler that stores a list), `Terminar` (the end of the program),
`Tictac` (time). A minute has `K` ticks. `falta` is what is left of a sleep, and `atraso`
the ticks spent otherwise since the last look: awake between the list, the clock and the
posts, or asleep for longer than was asked. It is bounded by `Retraso`. `segAhora`,
`aTiempo` and `revisados` are history.

The first wait may end up to a tick early: `toMillis` truncates it, and on a JDK whose
clock is finer than the millisecond (the README of the program asks for 17 or later) the thread
wakes up just before the minute begins. No minute is looked at twice even so
(`NuncaDosVeces`), because the next sleep is a whole minute. Pop-ups are posted with
`invokeLater`, so they do not delay the thread; `Ventana` follows them.

`eventosDelUsuario` is a plain static field, written by the event thread and read
by this one. A handler replaces the whole list and never changes one that it has
stored, so the thread takes an old list or a new one, and keeps the one it took until it has posted. Java would allow it to go on
reading the old one; between two reads the thread sleeps, and the model takes it
that a write is seen by the next look.

The clock is not set back.

**`Ventana`** extends `Notificador` with the rest of one execution: the login,
the event thread with its dialogs and handlers, the queue of posted pop-ups, and
the pop-ups on the screen. Its steps are `Notificador`'s, joined with those of
the event thread, or leave `Notificador`'s variables alone.

| Variable | In the code |
|---|---|
| `eventos` | the user's rows of `EVENTOS`, by the minute in which each begins |
| `edt` | where the event thread is: `login`, `entrando` (in `realizarLogin`, between the stored list and the main window), `libre`, `dialogo` (any dialog of Agendar, Editar or Eliminar), `refrescar` (between a write and its refresh), `mensaje` (the message of a handler), `fin` |
| `cola` | the runnables posted by `mostrarMensajeConSonido` |
| `pila` | its `JOptionPane`s that are open, the last in front |
| `vistos` | those that were accepted |
| `porDecir`, `dicho`, `prometidos` | history: what the window has told the user of each event, and of which in time |
| `desmentidos` | history: reminders under way that the window has contradicted |

| Action | Code |
|---|---|
| `Ingresar`, `AbrirVentana`, `FallarSesion` | `iniciarSesion`; then the constructor, which shows the list and starts the thread; or the `IOException` of `Files.write`, after which the login window is still there |
| `AbrirDialogo`, `Cancelar` | the dialogs of the three buttons |
| `GuardarNuevo` | an insertion |
| `GuardarCambio` | an update or a deletion of every row at a moment; `Escribir` has the three ends of a statement |
| `Refrescar`, `AceptarMensaje` | `listarEventos`, `actualizarEventos`, and the message |
| `LeerLista`, `MirarReloj`, `PublicarPopup` | `Leer`, `Mirar` and `Publicar`, each with a pop-up in the queue for the reminder; anything of the event thread fits in between |
| `Mostrar`, `Aceptar` | a posted runnable opens its modal dialog; the user closes the one in front |
| `OtraSesion` | whatever other executions do to the user's rows |
| `Salir` | EXIT_ON_CLOSE or a crash, anywhere |

A modal dialog runs an event loop of its own, so posted pop-ups open inside it and
inside one another (`Atiende`), and only the one in front can be used
(`Alcanza`). Inside a handler nothing is taken from the queue. Of the handlers this
module keeps what the reminders can notice: days, buttons, selectors and texts are
`Agenda`'s. A pop-up's looping clip is started before it opens and stopped when it closes.
If the icon or the clip fails, the pop-up opens without it.

`dicho` is what makes the promise to the user precise: a row counts as told when the
window opened with it, or when a handler that wrote it said so; it stops counting
when a handler starts writing it again, when another session writes it, and, for all
rows, when a refresh fails: then the list in memory is empty, whatever the message says.

No lock orders the two threads, so the window may say that an event was deleted while a look that
took the older list is about to post its reminder, or while the pop-up waits in the queue: it then
opens after the message. `EnCamino` are the reminders that may be caught so, and `NadaDesmentido`
says that these are the only ones: a look that takes its list after the message announces nothing
that the message contradicts.

**`RecordadorAbstracto`** is what a reminder promises, whoever gives it: only of
events in its list, in their minute or five minutes before, at most `Demora`
minutes late. `Notificador` implements it with `Demora <- 1`, because the clock may turn between
taking the minute and posting, and for the list that the look took; the processes of
`Bandeja` implement it with `Demora <- MaxMirada`, and for what the table holds when it is asked.

**`PopupAbstracto`** is the life of a reminder's pop-up with no threads, queues or
dialogs: several may be announced at once; they open and are accepted one at a time,
each once; only the end of the program loses any. `Ventana` implements it with the stage of each
reminder read off `avisos`, `cola`, `pila` and `vistos` (`Etapa`).

**`PadronAbstracto`** is what a registration promises: accounts are added one at a
time to free cédulas, in one step, and never change; every answer but "error" is
the truth. `Registro` implements it, though it checks and inserts in two steps.

**`Bandeja`** follows a login from valid credentials to the main window, and the
`NotificadorTray` process that it starts. An *execution* of the program
(`Ventanas`) logs in, is closed and logs in again; each login takes a process
from `Bandejas`, which outlives it.

| Variable | In the code |
|---|---|
| `eventos` | table `EVENTOS`, with the minute in which each event begins |
| `acceso` | where `realizarLogin` is: `login`, `truncar`, `escribir`, `abierta` (main window) |
| `archivo` | `session.txt`; `Vacio` also when it does not exist |
| `estado` | where the loop of `NotificadorTray.main` is: `arrancando`, `conectando`, `cinco`, `exacta` (before the first and the second query), `durmiendo`; `apagada` and `muerta` |
| `cedula`, `ahora`, `notificados` | `cedula`, `ahora`, `eventosNotificados` |
| `hasta` | the minute that the sleep ends in |
| `aTiempo`, `archivoDesde`, `inicio`, `veces`, `miradas`, `impuntual` | history: what the properties compare |

| Action | Code |
|---|---|
| `Ingresar`, `Truncar`, `EscribirSesion` | `realizarLogin`: the process, then the two effects of `Files.write`, then the main window |
| `Cerrar` | closing the window, or a crash at any of those points |
| `Leer` | the end of the sleep and `leerCedulaDesdeArchivo`; nobody there, or a file that cannot be read: sleep again |
| `Conectar` | `ConexionBD.conectar()` and `LocalDateTime.now()` |
| `AvisarCinco`, `AvisarExacta` | the two calls of `notificarEventos` |
| `FallarBase` | the `catch`: the rest of the look is skipped |
| `Escribir` | any session's insert, update or delete |
| `Tictac` | the next minute begins |

`Fallos` switches what may go wrong: `"adelanto"` (a sleep ends while it is still the same
minute, because the clock was slowed or set back meanwhile), `"base"`, `"disco"`, `"arranque"`
(the process cannot be started) and `"cierre"` (crashes, and processes that are killed). The ten
characters of the cédula are written at once.

How long a look takes is up to the database: `ConexionBD` sets no timeout for the connection or
for a query, so nothing in the code bounds it. `MaxMirada`, the number of minutes that may begin
during a look, is an assumption, of which the properties of slow looks are functions: what they
say holds for every value, and says nothing of a look that never ends.

`Recordatorios` are the reminders there are to give, an event of a user and a suffix, and `veces`
counts them; `Ids` are the identities by which the code decides whether it gave one
(`Ident`), which know neither users nor rows. `CallarConMotivo` relates the two.
An announcement (`reproducirSonidoYNotificacion`: a looping clip, a balloon, and a modal
pop-up posted to the event thread of the process) is counted in `veces`: the loop waits for none of the three.

**`Registro`** has windows in programs. `Atiende` is the event thread of a program:
while one of its windows is in a handler, or shows a message, no other is served.
`Registrar` is the button with the checks and `existeUsuario`; `Insertar` is
`registrarUsuario`, and between both any step of another program fits. `Salir` is
the close button: EXIT_ON_CLOSE ends the whole program, not the one window.
`Fallos` is as in `Agenda`; `fallo` remembers that the database has answered a
window wrongly, and `exitos` what has been reported as done. `capitalizar` and the
pattern of a name work on classes of characters: `m`/`M` for a-z/A-Z, `á`/`Á` for
the accented ones, and `" "` for the rest. `Cabe`: a name or password that its column does not
hold passes every check of the form, and is refused by the database (strict mode, `my.ini`)
whenever it is tried, with the message of any error. In `Agenda` and `Ventana` a title or description
that is too long is among the ways `"escribir"` fails.

**`Resaltado`** takes `highlightEventDays` apart into its reads and its writes:
the month, the query, then each property of each button, in the order in which the code
writes them, and the second reading of the date. Runs are on threads (`ElegirFecha`,
and `Resaltar` after a creation) or on the event thread (`Resaltar` after an edit or a
deletion, which keeps it busy: `edt`). Buttons stay and labels move: the button of a
day depends on the month shown (`Hueco`). `Repintados` is what the calendar itself
repaints when its date changes. `VolverAElegir` is a click on the day that is selected already,
as the second click of the double one that shows a day's events: the calendar repaints the
background of that button, and as its date stays the same it fires no `"calendar"` event, so
no run follows (`JDayChooser.setDay` and `JCalendar.setCalendar` of the library in `lib/`).
`pisado` remembers that no run has painted that background since. `limpio` remembers that the last run to start has had
neither another run, nor a write, a failed query or such a click beside it or after it. Each write of a property
is atomic: Swing's own internals are not modelled.

**`Reportes`** is the reports tab of each execution: `GenerarPorDia`,
`GraficoPorDia`, `GenerarPorMes`, `GraficoPorMes` are the buttons with the guards
of `ReporteController` in their order, and `Mostrar` is `Reporte.mostrarReporte`:
the file, the database, the empty report, the viewer. The queries of the `.jrxml`
files are `DeDia`, `DeMes`, `BandasDe` and `BarrasDe`. A message is modal (`aviso`), a
viewer is not (`visores`), so the table may change under it: `vigente` is history, and
remembers whether it has. Two guards are not in the model because they cannot hold: the
combo box gives no month outside 1..12, and a window has a session for as long as it is open.
Rows have no hidden columns: the join with `USUARIOS` adds names only.

Definitions named as mutants are slips one could make in that code; no
specification uses them.

## 4. The runs

| Run | Instance | What it shows |
|---|---|---|
| `dos_usuarios` | 2 sessions of 2 users, 2 rows, 2 days, 2 hours, texts with and without title, failing writes | `MemoriaAlDia`, `SoloPropias`, `AisladoPorUsuario`. `SelectorVigente`: through failed deletions retried from the open selector, and midnights, the user always chooses from what the table holds. `BotonConservador`: the stale button errs on one side only. `CumpleSesion`: each session implements `SesionAbstracta` |
| `promesa` | 2 sessions of one user, 2 rows, 2 days, all failures | `CumplePromesa`, the refinement. `AfectaSoloElMomento`: what a write from a stale selector can damage. `DesfaseConCausa`: how a list in memory can go stale |
| `recordatorios` | K = 5, Retraso = 1, 14 minutes, events at minutes 8 and 10; 1.3 million states | `NuncaDosVeces`; `PerdidosEspaciados`: minutes are missed only as often as the delays add up to a minute; `UnAvisoSeguro`; `CumpleRecordador`: no reminder is false |
| `ventana` | K = 5, Retraso = 1, 9 minutes, one row that may begin at minute 7, another session, all failures; 0.8 million states | `AvisoPrometido`: what the window said in time is announced. `NadaDesmentido`: what it said to be gone or moved is announced only if it was under way. `EnUnSitio`: a pop-up is waiting, on the screen or accepted, and once. `CumpleSesion`, `CumplePopup`: the two refinements. `AvisoMostrado`: it appears |
| `bandeja` | 1 execution, 1 tray process, 2 users, 1 row, an event at minute 6 of 7, looks during which up to 2 minutes begin, all failures; 3.1 million states | `CallarConMotivo`: the identities silence only second looks; `AvisosDados`: as long as a process's looks are prompt it gives both reminders, each once; `PerdidosSeguidos` and `AvisoAjenoBreve` bound what slow and failing looks can do; `CumpleRecordador`: what is announced is true, or was at most `MaxMirada` minutes ago |
| `registro` | 2 windows of one program and 1 of another, 2 cédulas, 2 passwords, one of them too long, all failures | `ExitoDuradero`, `RechazoCierto`, `CuentasValidas`; `CumplePadron`, the refinement |
| `resaltado` | 2 runs, 2 months of 2 days, shifted by one button, 1 date with events, failing queries, another session; 1.4 million states | `SeleccionadoMarcado`: however runs interleave, the selected day ends up marked, but for a background that was clicked away. `PintaFiel`: a run without interference paints the month, whatever it found |
| `reportes` | 1 execution, 2 viewers, 2 users, 2 rows, 2 days in each of 2 years, one of them refused, hour 6, missing files and failing queries | `Cuadran`: the reports that no write has made old agree; no report of a refused year |
| `borrado_multiple` | violation | deleting "the selected event" deletes every event of its day and hour |
| `sin_titulo` | violation | "the title is mandatory", but not in an edit |
| `minuto_perdido` | violation | "checks every minute", but the sleeps drift |
| `verde_ajeno` | violation | green are the days "that have an event", but a late run of the month before leaves others green |

**Bounds.** *Agenda:* two rows are enough for two events at one moment, and for one
elsewhere to be hit by mistake. Two days are enough for a day that is past, one
that is today, and one that is future: `hoy` moves from the first to the second
and `sel` takes both. The edit and delete buttons appear only after another day
is picked, so instances with one day would never edit: there is none. Two
sessions are the interference; a third adds no kind of step.
*Notificador:* with K = 5 and
Retraso = 1 the looks drift by a whole minute twice within the fourteen minutes: two
minutes are really lost, six apart. That is as near as `PerdidosEspaciados` allows, so
its bound is tight (with `K + 1` for `K` it is violated on this instance), and the
hypothesis of `UnAvisoSeguro` holds with equality.
*Ventana:* the same K and Retraso; an event at minute 7 has its first reminder at 2,
so it can be told in time in minute 0 only, which is also when the login may fail and be
repeated; the first look is at minute 0 or 1. By minute 8 both reminders are past, and the looks may have lost either
of the two minutes. One row has two reminders, so two pop-ups can be open over each
other, over a dialog, while the row is written again; more rows add more pop-ups, which
are the subject of the proof.
*Bandeja:* an event at minute 6 leaves one minute for its first reminder (1) after the clock starts,
and minute 7 one more to judge. Tray processes share nothing but the file and
the table, which they only read, so one shows what each does; that the file is
of somebody else comes from its first content, which may be either user or
none. With looks of up to two turns of the clock, eight minutes are enough to lose four in a row, the most that
`PerdidosSeguidos` allows.
*Registro:* a window beside another of its program, and one of another program, is
each kind of neighbour; two passwords tell whose row is in the table.
*Reportes:* hour 6 is where the first two bands meet; every other hour is in the
proof. Two viewers are a pair to compare. 1999 is a year that events may have (an edit can
move them there) and month reports may not.
*Resaltado:* two overlapping runs, and two months in which the same button has
different days, are what goes wrong in `verde_ajeno`.

**Symmetry.** Row ids, cédulas, viewers and runs are never compared with each other, and two
sessions of one user are interchangeable. The run of the liveness property uses no symmetry.

**Fairness.** Only in `Ventana`, and only of the event thread. `WF(Refrescar)`:
between a write and its refresh it waits for nobody. `SF(Mostrar)`: the event queue of Swing
is served in order, so a posted pop-up is taken before what was posted later; with weak
fairness only, the model would allow the handlers of an untiring user to go before it for
ever. Nothing else is fair: the user may leave any dialog open for ever, and the pop-up must
appear over it; the clock, the reminder thread, other sessions and crashes owe nothing. A
query that never returns is outside the model.

**Deadlock** is checked everywhere except in `recordatorios` and `ventana`, whose program may
end, and in `minuto_perdido`, whose clock stops at `MaxMinuto`.

## 5. The proofs

All are for arbitrary constants that satisfy the named assumptions: any sessions,
users, days, rows and failures; any K, Retraso < K and events. No theorem uses
a bound of the runs.

`AgendaProofs`:

- *Lemmas about the statements.* `LecturaPosible`, `LecturaPropia`: what a query
  answers. `EscrituraPosible`: the ways a write may end. `CrearEfecto`,
  `EditarEfecto`, `BorrarEfecto`: what each writing handler does to the table and
  to its phase, and that it stays within its user's rows (`CambiaSolo`).
- *`Propiedad` = `TypeOK /\ SoloPropias`* is inductive, and neither half is alone:
  the UPDATE copies the owner of the chosen event, so the table keeps its type
  only if a session that is editing has an event, and its own.
- From it, the action properties: `AfectaSoloElMomentoSiempre`,
  `AisladoPorUsuarioSiempre`, `DesfaseConCausaSiempre` (with `EscribeAlguien`: whoever changes the
  table is at one of the three writes).
- *`MemoriaAlDia` and `SelectorVigente`* are each inductive relative to
  `Propiedad`. The step of another session is the lemma `PasoAjeno` (it leaves this
  session's variables alone) and `ParteIntacta` (a user's part of the table does not
  notice writes of another user); the session's own steps are the cases.
- `BotonConservadorSiempre`; and `AgendaCumplePromesa`, the refinement, action by
  action (`PasoCumple`).
- `AgendaCumpleSesion`, and for each session `CadaSesionCumple`: `CambiarCumple` and
  `CrearCumple` say what a write is in the user's part of the table; `PasoAjeno` and
  `ParteIntacta` say that a step of another session is a write of the same user (then there
  are others) or nothing. The invariant is needed on both sides of the step, because the part
  of the table after it is a table only if it keeps its type.
- What remains of the two texts that the runs refute. `BorraUnoSiNoCoinciden`: a step removes one
  event at most if no two events of a user are at one moment. `SinTituloSoloPorEdicion`: an event
  without title appears only when an edit is saved.

`NotificadorProofs`: the invariant `IInv` has `Desfase` (the clock is at most two
minutes after the last look, and where in the minute follows from the sleep and the delay),
`Turno` (where the thread is in its turn of the loop), `Historia`, `Deriva` (after a missed minute,
the n-th look is less than n delays late in its minute, for every n), `Separados` (no two missed
minutes are n apart when n Retraso <= K), `Reciente` (the list that a look took lacks an event that was
stored in time only while the minute of its first reminder has not begun, unless one delay carries the look into
it), `Anunciados` (a look announces what is due), `Pendientes` (what is to be posted is of the list and the
minute of the look) and `Oportunos` (each reminder was given in a minute that was looked at, and once).
`Deriva` is the heart: losing a second minute n later takes n delays that
add up to more than a minute, and each turn of the loop adds one (`UnRetrasoMas`,
`UnRetraso`). `PerdidosEspaciados` is `Separados` in the words of the run; with n = 5 it gives
`UnAvisoSeguro`, and with n = 1 that no two minutes are lost in a row.
`SinRetrasoVerifica` is what remains of the text that `minuto_perdido` refutes: the loop
does check every minute if no sleep is ever late, so the drift is the whole cause.
`NotificadorCumpleRecordador` is the refinement, step by step: a post adds what is due
(`AlPublicar`, `AvisoDebido`), and everything else changes the list or the clock.

That `Retraso` bounds the delays, of waking up and of the look together, is an assumption about the machine: a suspended
computer breaks it, and then reminders are lost, as they are in the program.

`VentanaProofs`, for any events (finitely many), failures, delays and lengths of time:

- *`PasoDelHilo`*: every step of `Ventana` is a step of `Notificador` or leaves its
  variables alone. So `VSpec => Spec` (`VentanaCumpleNotificador`), and all that is proved in
  `NotificadorProofs` holds of the composition, its inductive invariant included.
- *`Hilos`* and *`Fiel`* are inductive together: what the user was told of a row is what the
  table and the list in memory hold, and has been in the list since. The steps that matter
  are `Refrescar`, which tells what it has just stored, and `OtraSesion` and the writes, which
  take back what they touch. `AvisoPrometido` is then `UnAvisoSeguro` seen from the window.
- *`Advertidos`* is `NadaDesmentido` for everything under way (`EnCamino`), a list just taken included:
  the list that a look takes is what the user was told (`Fiel`, `LeerListaAdvierte`), and a handler that
  tells something else marks what it contradicts (`DecirAdvierte`).
- *`Oportunos`* makes what a look posts new, and so *`Colas`* is inductive: the pop-ups waiting and on
  the screen are, without repetitions, the reminders not accepted yet. The lemmas about
  sequences without repetitions come first.

- *`VentanaCumpleSesion`*: the handlers here implement the same `SesionAbstracta` as those of
  `Agenda` (`EscribirCumple`, `VentanaPasoSesion`).
- *`VentanaCumplePopup`*: by `EnUnSitio`, before and after each step, the stages of a reminder
  exclude each other, so that `Mostrar` and `Aceptar` move one pop-up by one stage and nothing else
  moves any (`AnunciarCumple`, `AbrirCumple`, `AceptarCumple`, `AcabarCumple`, `PopupsQuietos`).
- `VentanaRecuerda` restates, of the composition, what `NotificadorProofs` proves of the thread.

`BandejaProofs`, for any executions, users, processes, events, failures and length of time:

- `LeerCasos`: the two ends of a reading of the file; `PasosDe`: what may happen to one process.
- *`Relojes`* says where the clock is with respect to each process: looks are past, one
  that is under way began at most `MaxMirada` minutes ago and at most `MaxMirada + 1` minutes after the
  last, and all of it is exact while the process has been prompt. `PerdidosSeguidos` and
  `AvisoAjenoBreve` are inductive relative to it (`MiradaNueva`: a look is at most
  `2 * MaxMirada + 1` minutes after the one before).
- *`Recordadas`*: every identity that is remembered is due in a minute that was looked at, or that is over for the process, or
  comes of the first query of the look under way. It gives
  `CallarConMotivo` (`RecordadasCallan`), and needs that looks go forward in time.
- *`Una`*: nothing remembered was given twice, nothing else at all.
- *`AvisosDados`* needs two more: `Seguidas` (a prompt process has looked at
  every minute since its first look) and `Dichas` (what it has asked for, it has
  announced). The step that matters is a query for an event in order, where
  `CedulaVigente` uses `AvisoAjenoBreve`: the look is after the file's last change, so it is for the right user.
- `BandejaCumpleRecordador`: what a query finds is due in the minute of its look, which is now
  or at most `MaxMirada` minutes ago (`TraidoDebido`, `AvisarCumple`); logins, reads of the file and writes are changes of a list.

`RegistroProofs`: `Base` is inductive: types, `Comprobados` (only fields that passed
the checks are inserted, or said to exist) and `Autoria` (a window about to insert
a cédula that was rightly found free is not its author). With it and `FilasQuedan`, that no step changes a row
that is there, each property is inductive; `CuentasQuedan` states `FilasQuedan` as an action property.
`RegistroCumplePadron` is the refinement: `Insertar` is the step in which the account exists, whatever is
answered, and the second statement finds the cédula free or fails (`MotivoCierto`, `InsertarCumple`).

`ResaltadoProofs`: `Marca` says that every property of the selected day's button is yellow, or that
some run will still write it, or that it is the background and the day was clicked again; the point is that each run reads the date *after* its
greens, so a run that has passed that reading without seeing the present date has another one
behind it. `Solo` follows the one clean run phase by phase, and gives `PintaFiel`.

`ReportesProofs`: `SumaDelDia` adds up the four bands of a day, from `UnaFranja` (an
hour is in one band only) and the cardinality of disjoint sets; it needs the rows to be
finitely many. `Fieles`, a report that no write has made old is the answer to its query
now, is inductive with `TypeOK`; two answers of now agree by the counting lemmas.

**Only model-checked:** `AvisoMostrado` (liveness under fairness is beyond the
prover), and the violations.

## 6. What is not modelled

Listed with reasons under `components` in `PROJECT.json`: layout and generated code have no
state that a property is about; connection, launch scripts and packaging only start things;
the vendored MySQL, JRE and libraries are not of this program. By lines, most of the repository is the
C headers of that MySQL (`mysql-5.7.30-winx64/include`): nothing here includes or compiles
them, the program talks to the server through JDBC, and a model of them would say nothing of it. Every line that is mapped is Java, SQL or `.jrxml`.

Of the modelled parts, these are left out: the clip and picture of a pop-up; the pop-ups of the tray,
which nothing reads; the full agenda beside the reminder thread (`Ventana` keeps of the handlers what
the thread can notice, and both models implement `SesionAbstracta`); how Swing draws a button; how JasperReports fills and shows a report.

Observations that contradict no text of the program, and so are not findings:

- After login, or after creating the first event of a day, the edit and delete
  buttons stay hidden until another day is picked; after midnight a past day can
  still be scheduled until another day is picked (`BotonConservador` says that it
  errs on this side only); an edit may move an event to a past day.
- An event created within its last five minutes gets only the second reminder.
- A failed query is an empty list, and is stored in memory as the user's list: after a write whose
  refresh failed, the message still says that it was done, and no event is announced until the next write.
- A click on the day that is selected takes its yellow background, and no run paints it again until the date
  or the table changes: the second click of the double one that shows the day's events always does. (The comment
  of the method, "4) Resalta el día seleccionado (siempre)", VistaPrincipal 597, is of what a run does.)
- A deletion that is reported while a look is under way, or while a pop-up waits behind the handler, is
  followed by the pop-up of the deleted event.
- Pop-ups of a look with several events open over each other, so the event that was listed last is in front,
  and their clips sound together.
- Tray processes accumulate, one per login, and each announces each event, for
  the user of the latest login. A crash between the two effects of
  `Files.write` leaves `session.txt` empty and all of them silent.
- A tray process tells announcements apart by date, hour, title and reminder, so
  two events of one moment and title share theirs.
- A registration whose answer is lost is reported as an error although the
  account exists; the next attempt says that the cédula is registered. A name or password
  longer than its column is refused as an error each time it is tried, and nothing says why. Closing the
  registration window ends the program. An empty password is accepted.
- A name whose initial is Á, É, Í, Ó, Ú or Ñ is refused, with the message that names
  must begin with a capital (RegistroController 35-36), although `capitalizar` puts it.
- The day's chart has its four bands even if there is no event, so it is always
  shown; the other three reports say that they contain no information.
- The highlighting reads the table, and not `UsuarioActivo` as its comment says.
