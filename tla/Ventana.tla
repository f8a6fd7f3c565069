------------------------------ MODULE Ventana ------------------------------
(***************************************************************************)
(* One execution of the program around its reminder thread: the login, the *)
(* event thread of Swing with the handlers that write the agenda and       *)
(* refresh the list in memory, the thread of Notificador that reads that   *)
(* list, and the pop-ups that the thread posts to the event thread.        *)
(*                                                                         *)
(* The two threads share the list and the queue of posted pop-ups, and     *)
(* nothing orders them: a handler may replace the list and report what it  *)
(* did while a look is under way or while its pop-ups wait.  The event     *)
(* thread takes what was posted whenever it attends, also inside a modal   *)
(* dialog: a pop-up opens over whatever is open, blocks it, and is blocked *)
(* by the next one.                                                        *)
(***************************************************************************)
EXTENDS Notificador, Sequences

CONSTANTS
  Incierto,      \* "the user was not told"
  Fallos         \* what may fail: "leer", "escribir", "respuesta", "disco"

ASSUME InciertoAssumption == Incierto \notin Int \cup {Nada}
ASSUME FallosAssumption   == Fallos \subseteq {"leer", "escribir", "respuesta", "disco"}

VARIABLES
  eventos,       \* the rows of the user in EVENTOS: when each begins
  edt,           \* where the event thread is: "login", "entrando" (in realizarLogin),
                 \* "libre", "dialogo", "refrescar" (in a handler), "mensaje", "fin"
  cola,          \* pop-ups posted with invokeLater
  pila,          \* pop-ups on the screen, the last one in front
  vistos,        \* pop-ups that were accepted
  porDecir,      \* the rows that the handler under way will report on, as long as
                 \* no other session writes them (auxiliary)
  dicho,         \* what the user was last told of each row, unless another session
                 \* has written it since or a query has failed (auxiliary)
  prometidos,    \* the events that it told the user of in time (auxiliary)
  desmentidos    \* reminders under way that the window has contradicted (auxiliary)

popups  == <<cola, pila, vistos>>
promesa == <<porDecir, dicho, prometidos, desmentidos>>
vvars   == <<vars, eventos, edt, popups, promesa>>

Vacia == [c \in Citas |-> Nada]

\* The event thread takes events: it is idle, or waits inside a modal dialog.
Atiende == edt \in {"libre", "dialogo", "mensaje"}

\* The user can act on the window or its dialogs: no pop-up is over them.
Alcanza == pila = <<>>

Elementos(s) == {s[i] : i \in DOMAIN s}

SinRepetidos(s) == \A i, j \in DOMAIN s : s[i] = s[j] => i = j

\* The reminders under way: posted, about to be, or that may come of the list
\* that a look has just taken.
EnCamino ==
  Elementos(cola) \cup porDar
    \cup {a \in Avisos \ avisos : fase = "leida" /\ a[2] = leida[a[1]]}

-----------------------------------------------------------------------------
(* Parts of the actions.                                                   *)

\* UsuarioActivo takes the list l, which may be the one it has.
Almacenar(l) == Actualizar(l) \/ (l = memoria /\ fase # "fin" /\ UNCHANGED vars)

\* The rows S are no longer what the user was told.
Desdecir(S) ==
  /\ dicho' = [c \in Citas |-> IF c \in S THEN Incierto ELSE dicho[c]]
  /\ prometidos' = prometidos \ S
  /\ UNCHANGED desmentidos

\* The user is told what the rows S are in l, whatever is under way.
Decir(S, l) ==
  /\ dicho' = [c \in Citas |-> IF c \in S THEN l[c] ELSE dicho[c]]
  /\ prometidos' = (prometidos \ S) \cup {c \in S : EnTiempo(l[c])}
  /\ desmentidos' = desmentidos \cup {a \in EnCamino : a[1] \in S /\ a[2] # l[a[1]]}

\* An autocommitted statement on the rows S that leaves the table as t: it is
\* done, or touches nothing, or fails, or its answer is lost.
Escribir(S, t) ==
  \/ /\ S # {}
     /\ eventos' = t /\ edt' = "refrescar"
     /\ porDecir' = S /\ Desdecir(S)
  \/ /\ S = {} \/ "escribir" \in Fallos
     /\ edt' = "mensaje"
     /\ UNCHANGED <<eventos, promesa>>
  \/ /\ S # {} /\ "respuesta" \in Fallos
     /\ eventos' = t /\ edt' = "mensaje"
     /\ Desdecir(S)
     /\ UNCHANGED porDecir

-----------------------------------------------------------------------------
(* Mutants.                                                                *)

\* The pop-up is opened by the reminder thread itself.
MostrarDesdeElHilo ==
  /\ cola # <<>>
  /\ pila' = Append(pila, Head(cola)) /\ cola' = Tail(cola)
  /\ desmentidos' = desmentidos \ {Head(cola)}
  /\ UNCHANGED <<vars, eventos, edt, vistos, porDecir, dicho, prometidos>>

\* A pop-up waits until nothing else is open.
MostrarSiLibre ==
  /\ edt = "libre" /\ pila = <<>>
  /\ MostrarDesdeElHilo

\* Closing the pop-up in front closes them all.
AceptarTodos ==
  /\ Atiende /\ pila # <<>>
  /\ vistos' = vistos \cup {pila[Len(pila)]}
  /\ pila' = <<>>
  /\ UNCHANGED <<vars, eventos, edt, cola, promesa>>

\* Closing the pop-up in front posts it again.
AceptarYReponer ==
  /\ Atiende /\ pila # <<>>
  /\ cola' = Append(cola, pila[Len(pila)])
  /\ pila' = SubSeq(pila, 1, Len(pila) - 1)
  /\ UNCHANGED <<vars, eventos, edt, vistos, promesa>>

\* The success is reported, and the list in memory stays.
RefrescarSinGuardar ==
  /\ edt = "refrescar" /\ edt' = "mensaje"
  /\ Decir(porDecir, eventos)
  /\ porDecir' = {}
  /\ UNCHANGED <<vars, eventos, popups>>

\* The list in memory gets what is new, and keeps what is gone.
RefrescarAgregando ==
  /\ edt = "refrescar" /\ edt' = "mensaje"
  /\ Almacenar([c \in Citas |-> IF eventos[c] = Nada THEN memoria[c] ELSE eventos[c]])
  /\ Decir(porDecir, eventos)
  /\ porDecir' = {}
  /\ UNCHANGED <<eventos, popups>>

-----------------------------------------------------------------------------
(* The event thread.                                                       *)

VInit ==
  /\ Init
  /\ eventos \in Listas
  /\ edt = "login"
  /\ cola = <<>> /\ pila = <<>> /\ vistos = {}
  /\ porDecir = {}
  /\ dicho = [c \in Citas |-> Incierto]
  /\ prometidos = {} /\ desmentidos = {}

\* iniciarSesion with valid credentials: the list is read and stored.
Ingresar ==
  /\ edt = "login" /\ edt' = "entrando"
  /\ \/ Almacenar(eventos) /\ porDecir' = Citas
     \/ "leer" \in Fallos /\ Almacenar(Vacia) /\ porDecir' = {}
  /\ UNCHANGED <<eventos, popups, dicho, prometidos, desmentidos>>

\* realizarLogin goes on: the main window opens, shows the list and starts the
\* thread ...
AbrirVentana ==
  /\ edt = "entrando" /\ edt' = "libre"
  /\ Arrancar
  /\ Decir(porDecir, memoria)
  /\ porDecir' = {}
  /\ UNCHANGED <<eventos, popups>>

\* ... unless session.txt cannot be written: the login window is still there.
FallarSesion ==
  /\ "disco" \in Fallos
  /\ edt = "entrando" /\ edt' = "login"
  /\ porDecir' = {}
  /\ UNCHANGED <<vars, eventos, popups, dicho, prometidos, desmentidos>>

\* Agendar, Editar or Eliminar open their dialogs.
AbrirDialogo ==
  /\ edt = "libre" /\ Alcanza
  /\ edt' = "dialogo"
  /\ UNCHANGED <<vars, eventos, popups, promesa>>

Cancelar ==
  /\ edt = "dialogo" /\ Alcanza
  /\ edt' = "libre"
  /\ UNCHANGED <<vars, eventos, popups, promesa>>

\* Guardar in a dialog: an event is created ...
GuardarNuevo(c, m) ==
  /\ edt = "dialogo" /\ Alcanza
  /\ eventos[c] = Nada
  /\ Escribir({c}, [eventos EXCEPT ![c] = m])
  /\ UNCHANGED <<vars, popups>>

\* ... or every row that begins at o, read when the dialog opened, is moved to
\* v, or deleted.
GuardarCambio(o, v) ==
  LET S == {c \in Citas : eventos[c] = o} IN
  /\ edt = "dialogo" /\ Alcanza
  /\ Escribir(S, [c \in Citas |-> IF c \in S THEN v ELSE eventos[c]])
  /\ UNCHANGED <<vars, popups>>

\* After a write that was done: the list is read and stored, or an empty one if
\* the query fails, and the message says that it was done.
Refrescar ==
  /\ edt = "refrescar" /\ edt' = "mensaje"
  /\ \/ Almacenar(eventos) /\ Decir(porDecir, eventos)
     \/ "leer" \in Fallos /\ Almacenar(Vacia) /\ Desdecir(Citas)
  /\ porDecir' = {}
  /\ UNCHANGED <<eventos, popups>>

\* The message of a handler is accepted.  (After a deletion that failed its
\* selector is there again: AbrirDialogo.)
AceptarMensaje ==
  /\ edt = "mensaje" /\ Alcanza
  /\ edt' = "libre"
  /\ UNCHANGED <<vars, eventos, popups, promesa>>

\* The event thread takes the next posted pop-up and opens it in front.
Mostrar ==
  /\ Atiende /\ cola # <<>>
  /\ pila' = Append(pila, Head(cola)) /\ cola' = Tail(cola)
  /\ desmentidos' = desmentidos \ {Head(cola)}
  /\ UNCHANGED <<vars, eventos, edt, vistos, porDecir, dicho, prometidos>>

\* The user accepts the pop-up in front.
Aceptar ==
  /\ Atiende /\ pila # <<>>
  /\ vistos' = vistos \cup {pila[Len(pila)]}
  /\ pila' = SubSeq(pila, 1, Len(pila) - 1)
  /\ UNCHANGED <<vars, eventos, edt, cola, promesa>>

\* The program ends, by closing its window or by a crash at any point.
Salir ==
  /\ Terminar
  /\ edt' = "fin" /\ cola' = <<>> /\ pila' = <<>>
  /\ UNCHANGED <<eventos, vistos, promesa>>

-----------------------------------------------------------------------------
(* The reminder thread, the clock and the other sessions of the user.      *)

\* A look takes the list ...
LeerLista == Leer /\ UNCHANGED <<eventos, edt, popups, promesa>>

\* ... and then the clock: what is not due now is no longer under way ...
MirarReloj ==
  /\ Mirar
  /\ desmentidos' = desmentidos \cap (Elementos(cola) \cup porDar')
  /\ UNCHANGED <<eventos, edt, popups, porDecir, dicho, prometidos>>

\* ... and posts a pop-up for each reminder.
PublicarPopup(a) ==
  /\ Publicar(a)
  /\ cola' = Append(cola, a)
  /\ UNCHANGED <<eventos, edt, pila, vistos, promesa>>

Pasar == Tictac /\ UNCHANGED <<eventos, edt, popups, promesa>>

OtraSesion(t) ==
  LET S == {c \in Citas : t[c] # eventos[c]} IN
  /\ fase # "fin" /\ S # {}
  /\ eventos' = t
  /\ porDecir' = porDecir \ S /\ Desdecir(S)
  /\ UNCHANGED <<vars, edt, popups>>

VNext ==
  \/ Ingresar
  \/ AbrirVentana
  \/ FallarSesion
  \/ AbrirDialogo
  \/ Cancelar
  \/ \E c \in Citas, m \in Inicios : GuardarNuevo(c, m)
  \/ \E o \in Inicios, v \in Inicios \cup {Nada} : GuardarCambio(o, v)
  \/ Refrescar
  \/ AceptarMensaje
  \/ Mostrar
  \/ Aceptar
  \/ Salir
  \/ LeerLista
  \/ MirarReloj
  \/ \E a \in Avisos : PublicarPopup(a)
  \/ Pasar
  \/ \E t \in Listas : OtraSesion(t)

VSpec == VInit /\ [][VNext]_vvars

\* The event thread ends its handlers; and its queue is served in order, so what
\* was posted is not put off for ever by the handlers that run in between.  The
\* user need not answer any dialog, and the clock and the thread owe nothing.
VFairSpec == VSpec /\ WF_vvars(Refrescar) /\ SF_vvars(Mostrar)

-----------------------------------------------------------------------------
(* Properties.                                                             *)

\* No pop-up is open or posted unless there is a thread to open it, nor is one
\* open while a handler runs.
VTypeOK ==
  /\ TypeOK
  /\ eventos \in Listas
  /\ edt \in {"login", "entrando", "libre", "dialogo", "refrescar", "mensaje", "fin"}
  /\ edt \in {"login", "entrando"} <=> fase = "sin_ventana"
  /\ edt = "fin" <=> fase = "fin"
  /\ cola \in Seq(avisos) /\ pila \in Seq(avisos) /\ vistos \subseteq avisos
  /\ pila # <<>> => Atiende
  /\ porDecir \subseteq Citas
  /\ dicho \in [Citas -> Inicios \cup {Nada, Incierto}]
  /\ prometidos \subseteq Citas /\ desmentidos \subseteq Avisos

\* What the window said of an event in time, the thread announces: with delays
\* of at most a fifth of a minute, at least one of the two reminders of every
\* event that the user was told of a whole minute before that of the first,
\* whatever was written, read, refused or lost in between, and whatever look
\* was under way.
AvisoPrometido ==
  Antelacion * Retraso <= K =>
    \A c \in prometidos, m \in Inicios :
      /\ dicho[c] = m
      /\ \E r \in revisados : r <= m - Antelacion
      /\ m < ahora
      => <<c, m, "cinco">> \in avisos \/ <<c, m, "exacta">> \in avisos

\* A pop-up contradicts what the window last said of its event (that it was
\* deleted, or moved to another moment) only if it was under way when that was
\* said: in the queue, about to be posted, or coming of a list already taken.
\* Whatever look takes the list after that, none is announced.
NadaDesmentido ==
  \A a \in Elementos(cola) \cup porDar :
    dicho[a[1]] \in {a[2], Incierto} \/ a \in desmentidos

\* However pop-ups pile up, each reminder is in one place and only once:
\* waiting, on the screen, or accepted.
EnUnSitio ==
  fase # "fin" =>
    /\ SinRepetidos(cola) /\ SinRepetidos(pila)
    /\ Elementos(cola) \cap Elementos(pila) = {}
    /\ Elementos(cola) \cup Elementos(pila) = avisos \ vistos

Etapa(a) ==
  IF a \notin avisos THEN "no dado" ELSE
  IF a \in vistos THEN "aceptado" ELSE
  IF a \in Elementos(pila) THEN "abierto" ELSE
  IF a \in Elementos(cola) THEN "en espera" ELSE "perdido"

\* Through queues, threads and dialogs over dialogs, each reminder goes from
\* announced to open to accepted, one at a time, once, and never back.
Popup == INSTANCE PopupAbstracto WITH
  Avisos  <- Avisos,
  etapa   <- [a \in Avisos |-> Etapa(a)],
  acabado <- fase = "fin"
CumplePopup == Popup!Spec

Lugar ==
  IF edt \in {"login", "fin"} THEN "fuera" ELSE
  IF edt = "refrescar" THEN "pendiente" ELSE "dentro"

\* For the table and the list in memory, the handlers here do what those of
\* Agenda do: both implement SesionAbstracta.  A login that fails half-way is one
\* that came in and went out.
Sesion == INSTANCE SesionAbstracta WITH
  Filas   <- Citas,
  Valores <- Inicios,
  Momento <- [m \in Inicios |-> m],
  HayOtras <- TRUE,
  tabla   <- eventos,
  lista   <- IF Lugar = "fuera" THEN Vacia ELSE memoria,
  lugar   <- Lugar
CumpleSesion == Sesion!Spec

\* A reminder that was announced appears, over whatever dialog the user has left
\* open, unless the program ends.
AvisoMostrado ==
  \A a \in Avisos :
    a \in Elementos(cola) ~> a \notin Elementos(cola)
=============================================================================
