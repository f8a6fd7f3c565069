------------------------------ MODULE Bandeja ------------------------------
(***************************************************************************)
(* The reminders of the system tray.  Every login of LoginUsuario starts a *)
(* NotificadorTray process, which outlives the program, and then rewrites  *)
(* session.txt, the one file from which all these processes learn whose    *)
(* events to announce.  Each process looks once a minute: it reads the     *)
(* file, connects, takes the minute, runs two queries and sleeps to the    *)
(* end of the minute it is in by then.                                     *)
(*                                                                         *)
(* Time is counted in minutes.  ConexionBD sets no timeout, so nothing in  *)
(* the code says how long a look may take: MaxMirada, how many times the   *)
(* clock may turn during one, is an assumption about the database.         *)
(***************************************************************************)
EXTENDS Integers, FiniteSets

CONSTANTS
  Ventanas,      \* executions of the program
  Usuarios,      \* registered users
  UsuarioDe,     \* the user that logs in to each execution
  Bandejas,      \* tray processes: the bound on the number of logins
  Filas,         \* rows of EVENTOS
  Titulos,       \* values of TIT_EVE
  Inicios,       \* minutes in which an event may begin
  MaxMinuto,     \* bound on the clock
  MaxMirada,     \* bound on the minutes that begin during a look
  NoHay,         \* "no row"
  Vacio,         \* the content of an empty session.txt
  Fallos         \* what may go wrong: see the actions

Antelacion == 5
Minutos == 0 .. MaxMinuto
Sufijos == {"-5min", "-exacta"}
Evento  == [usu : Usuarios, min : Inicios, tit : Titulos]

ASSUME VentanasAssumption == UsuarioDe \in [Ventanas -> Usuarios]
ASSUME TiempoAssumption   == MaxMinuto \in Nat /\ Inicios \subseteq Minutos
ASSUME MiradaAssumption   == MaxMirada \in Nat
ASSUME NoHayAssumption    == NoHay \notin Evento /\ Vacio \notin Usuarios
ASSUME FallosAssumption   ==
  Fallos \subseteq {"adelanto", "base", "disco", "arranque", "cierre"}

VARIABLES
  minuto,        \* the clock
  eventos,       \* the table EVENTOS
  aTiempo,       \* each row was there before its first reminder (auxiliary)
  acceso,        \* where each execution is: "login", "truncar", "escribir", "abierta"
  archivo,       \* the content of session.txt
  archivoDesde,  \* when it took it (auxiliary)
  estado,        \* where each tray process is
  inicio,        \* the minute in which the look began (auxiliary)
  cedula,        \* what its last look read in the file
  ahora,         \* local variable of the look: its minute
  hasta,         \* the minute it sleeps to
  notificados,   \* eventosNotificados: the identities announced
  veces,         \* how many times it gave each reminder (auxiliary)
  miradas,       \* the minutes of its looks (auxiliary)
  impuntual      \* some look of it has failed or was still under way when the
                 \* minute changed (auxiliary)

tabla   == <<eventos, aTiempo>>
fichero == <<archivo, archivoDesde>>
historia == <<notificados, veces, miradas, impuntual>>
mirada  == <<inicio, cedula, ahora, hasta>>
procesos == <<estado, mirada, historia>>
vars == <<minuto, tabla, acceso, fichero, procesos>>

\* fec + " " + hor + "-" + titulo + sufijo: neither the user nor the row.
Ids == Inicios \X Titulos \X Sufijos

\* The reminders there are to give, whatever the code identifies them by.
Recordatorios == Evento \X Sufijos

Mirando == {"conectando", "cinco", "exacta"}
Viva(b) == estado[b] \notin {"apagada", "muerta"}

-----------------------------------------------------------------------------
(* Mutants.                                                                *)

\* A process that sleeps over the next minute.
DormirDeMas(b, m) ==
  /\ estado' = [estado EXCEPT ![b] = "durmiendo"]
  /\ hasta' = [hasta EXCEPT ![b] = minuto + 2]
  /\ miradas' = [miradas EXCEPT ![b] = @ \cup {m}]
  /\ inicio' = [inicio EXCEPT ![b] = 0]
  /\ ahora' = [ahora EXCEPT ![b] = 0]

\* A process that, once it has somebody, does not read the file again.
LeerUnaVez(b) ==
  /\ estado[b] = "arrancando" \/ (estado[b] = "durmiendo" /\ minuto >= hasta[b])
  /\ archivo # Vacio
  /\ estado' = [estado EXCEPT ![b] = "conectando"]
  /\ inicio' = [inicio EXCEPT ![b] = minuto]
  /\ cedula' = [cedula EXCEPT ![b] = IF @ = Vacio THEN archivo ELSE @]
  /\ hasta' = [hasta EXCEPT ![b] = 0]
  /\ UNCHANGED <<minuto, tabla, acceso, fichero, ahora, historia>>

\* An identity without its suffix: the second reminder passes for the first.
IdentSinSufijo(e, suf) == <<e.min, e.tit, "-5min">>

\* A query without the user in its WHERE.
TraidosDeTodos(m, u) ==
  {eventos[f] : f \in {g \in Filas : eventos[g] # NoHay /\ eventos[g].min = m}}

-----------------------------------------------------------------------------
(* The login.                                                              *)

Init ==
  /\ minuto = 0
  /\ eventos = [f \in Filas |-> NoHay]
  /\ aTiempo = [f \in Filas |-> FALSE]
  /\ acceso = [p \in Ventanas |-> "login"]
  /\ archivo \in Usuarios \cup {Vacio}
  /\ archivoDesde = 0
  /\ estado = [b \in Bandejas |-> "apagada"]
  /\ inicio = [b \in Bandejas |-> 0]
  /\ cedula = [b \in Bandejas |-> Vacio]
  /\ ahora = [b \in Bandejas |-> 0]
  /\ hasta = [b \in Bandejas |-> 0]
  /\ notificados = [b \in Bandejas |-> {}]
  /\ veces = [b \in Bandejas |-> [r \in Recordatorios |-> 0]]
  /\ miradas = [b \in Bandejas |-> {}]
  /\ impuntual = [b \in Bandejas |-> FALSE]

\* Valid credentials: a tray process is started.  A process that cannot be
\* started ("arranque") is logged, and the login goes on without it.
Ingresar(p, b) ==
  /\ acceso[p] = "login"
  /\ acceso' = [acceso EXCEPT ![p] = "truncar"]
  /\ \/ /\ estado[b] = "apagada"
        /\ estado' = [estado EXCEPT ![b] = "arrancando"]
     \/ /\ "arranque" \in Fallos
        /\ UNCHANGED estado
  /\ UNCHANGED <<minuto, tabla, fichero, mirada, historia>>

\* Files.write first empties the file.  If the disk fails the exception leaves
\* the login window where it was, with its tray process running.
Truncar(p) ==
  /\ acceso[p] = "truncar"
  /\ \/ /\ acceso' = [acceso EXCEPT ![p] = "escribir"]
        /\ archivo' = Vacio /\ archivoDesde' = minuto
     \/ /\ "disco" \in Fallos
        /\ acceso' = [acceso EXCEPT ![p] = "login"]
        /\ UNCHANGED fichero
  /\ UNCHANGED <<minuto, tabla, procesos>>

\* Then it writes the cédula, and the main window opens.
EscribirSesion(p) ==
  /\ acceso[p] = "escribir"
  /\ \/ /\ acceso' = [acceso EXCEPT ![p] = "abierta"]
        /\ archivo' = UsuarioDe[p] /\ archivoDesde' = minuto
     \/ /\ "disco" \in Fallos
        /\ acceso' = [acceso EXCEPT ![p] = "login"]
        /\ UNCHANGED fichero
  /\ UNCHANGED <<minuto, tabla, procesos>>

\* The program ends, by closing its window or ("cierre") by a crash anywhere.
Cerrar(p) ==
  /\ acceso[p] = "abierta" \/ ("cierre" \in Fallos /\ acceso[p] # "login")
  /\ acceso' = [acceso EXCEPT ![p] = "login"]
  /\ UNCHANGED <<minuto, tabla, fichero, procesos>>

-----------------------------------------------------------------------------
(* The tray process.                                                       *)

\* The look at minute m is over.
Dormir(b, m) ==
  /\ estado' = [estado EXCEPT ![b] = "durmiendo"]
  /\ hasta' = [hasta EXCEPT ![b] = minuto + 1]
  /\ miradas' = [miradas EXCEPT ![b] = @ \cup {m}]
  /\ inicio' = [inicio EXCEPT ![b] = 0]
  /\ ahora' = [ahora EXCEPT ![b] = 0]

\* The process is up, or its sleep is over, and it reads the file.  If the
\* clock was slowed or set back during the sleep ("adelanto") it is still the
\* same minute.  A file that cannot be read ("disco") is taken for an empty one.
Leer(b) ==
  /\ \/ estado[b] = "arrancando"
     \/ estado[b] = "durmiendo" /\ minuto >= hasta[b]
     \/ estado[b] = "durmiendo" /\ "adelanto" \in Fallos
  /\ \E c \in {archivo, Vacio} :
       /\ c = archivo \/ "disco" \in Fallos
       /\ cedula' = [cedula EXCEPT ![b] = c]
       /\ impuntual' = [impuntual EXCEPT ![b] = IF c = archivo THEN @ ELSE TRUE]
       /\ \/ /\ c = Vacio
             /\ Dormir(b, minuto)
          \/ /\ c # Vacio
             /\ estado' = [estado EXCEPT ![b] = "conectando"]
             /\ inicio' = [inicio EXCEPT ![b] = minuto]
             /\ hasta' = [hasta EXCEPT ![b] = 0]
             /\ UNCHANGED <<ahora, miradas>>
  /\ UNCHANGED <<minuto, tabla, acceso, fichero, notificados, veces>>

\* The connection is made, and only then the minute is taken.
Conectar(b) ==
  /\ estado[b] = "conectando"
  /\ ahora' = [ahora EXCEPT ![b] = minuto]
  /\ estado' = [estado EXCEPT ![b] = "cinco"]
  /\ UNCHANGED <<minuto, tabla, acceso, fichero, inicio, cedula, hasta, historia>>

\* The rows of user u, and what a query for those that begin in minute m brings.
Suyos(u) == {eventos[f] : f \in {g \in Filas : eventos[g] # NoHay /\ eventos[g].usu = u}}

Traidos(m, u) == {e \in Suyos(u) : e.min = m}

Ident(e, suf) == <<e.min, e.tit, suf>>

\* Each of them is announced unless its identity is among the announced ones.
Anunciar(b, E, suf) ==
  /\ notificados' = [notificados EXCEPT ![b] = @ \cup {Ident(e, suf) : e \in E}]
  /\ veces' = [veces EXCEPT ![b] =
       [r \in Recordatorios |->
          IF r[1] \in E /\ r[2] = suf /\ Ident(r[1], suf) \notin notificados[b]
            THEN @[r] + 1 ELSE @[r]]]

\* notificarEventos for the events that begin in five minutes ...
AvisarCinco(b) ==
  /\ estado[b] = "cinco"
  /\ Anunciar(b, Traidos(ahora[b] + Antelacion, cedula[b]), "-5min")
  /\ estado' = [estado EXCEPT ![b] = "exacta"]
  /\ UNCHANGED <<minuto, tabla, acceso, fichero, mirada, miradas, impuntual>>

\* ... and for those that begin now.
AvisarExacta(b) ==
  /\ estado[b] = "exacta"
  /\ Anunciar(b, Traidos(ahora[b], cedula[b]), "-exacta")
  /\ Dormir(b, ahora[b])
  /\ UNCHANGED <<minuto, tabla, acceso, fichero, cedula, impuntual>>

\* The connection or a query fails: what is left of the look is skipped.
FallarBase(b) ==
  /\ "base" \in Fallos
  /\ estado[b] \in Mirando
  /\ Dormir(b, minuto)
  /\ impuntual' = [impuntual EXCEPT ![b] = TRUE]
  /\ UNCHANGED <<minuto, tabla, acceso, fichero, cedula, notificados, veces>>

\* The user ends the process, or it ends itself for want of a tray ("cierre"),
\* and the look that it was in ends with it.
Matar(b) ==
  /\ "cierre" \in Fallos /\ Viva(b)
  /\ estado' = [estado EXCEPT ![b] = "muerta"]
  /\ inicio' = [inicio EXCEPT ![b] = 0]
  /\ cedula' = [cedula EXCEPT ![b] = Vacio]
  /\ ahora' = [ahora EXCEPT ![b] = 0]
  /\ hasta' = [hasta EXCEPT ![b] = 0]
  /\ UNCHANGED <<minuto, tabla, acceso, fichero, historia>>

-----------------------------------------------------------------------------
(* The rest of the world.                                                  *)

\* Some session creates, edits or deletes an event.
Escribir(f, e) ==
  /\ eventos[f] # e
  /\ eventos' = [eventos EXCEPT ![f] = e]
  /\ aTiempo' = [aTiempo EXCEPT ![f] = e # NoHay /\ minuto < e.min - Antelacion]
  /\ UNCHANGED <<minuto, acceso, fichero, procesos>>

\* The clock turns.  A process that should be awake wakes up first, and a look
\* is over before MaxMirada + 1 minutes have begun during it.
Tictac ==
  /\ minuto < MaxMinuto
  /\ \A b \in Bandejas :
       /\ estado[b] = "durmiendo" => minuto < hasta[b]
       /\ estado[b] \in Mirando => minuto < inicio[b] + MaxMirada
  /\ minuto' = minuto + 1
  /\ impuntual' = [b \in Bandejas |-> impuntual[b] \/ estado[b] \in Mirando]
  /\ UNCHANGED <<tabla, acceso, fichero, estado, mirada, notificados, veces, miradas>>

PasoLogin(p) ==
  \/ \E b \in Bandejas : Ingresar(p, b)
  \/ Truncar(p)
  \/ EscribirSesion(p)
  \/ Cerrar(p)

PasoBandeja(b) ==
  \/ Leer(b)
  \/ Conectar(b)
  \/ AvisarCinco(b)
  \/ AvisarExacta(b)
  \/ FallarBase(b)
  \/ Matar(b)

Next ==
  \/ \E p \in Ventanas : PasoLogin(p)
  \/ \E b \in Bandejas : PasoBandeja(b)
  \/ \E f \in Filas, e \in Evento \cup {NoHay} : Escribir(f, e)
  \/ Tictac

Spec == Init /\ [][Next]_vars

-----------------------------------------------------------------------------
(* Properties.                                                             *)

Estados == {"apagada", "arrancando", "durmiendo", "muerta"} \cup Mirando

TypeOK ==
  /\ minuto \in Minutos
  /\ eventos \in [Filas -> Evento \cup {NoHay}]
  /\ aTiempo \in [Filas -> BOOLEAN]
  /\ acceso \in [Ventanas -> {"login", "truncar", "escribir", "abierta"}]
  /\ archivo \in Usuarios \cup {Vacio}
  /\ archivoDesde \in Minutos
  /\ estado \in [Bandejas -> Estados]
  /\ inicio \in [Bandejas -> Minutos]
  /\ cedula \in [Bandejas -> Usuarios \cup {Vacio}]
  /\ ahora \in [Bandejas -> Minutos]
  /\ hasta \in [Bandejas -> 0 .. MaxMinuto + 1]
  /\ notificados \in [Bandejas -> SUBSET Ids]
  /\ veces \in [Bandejas -> [Recordatorios -> Nat]]
  /\ miradas \in [Bandejas -> SUBSET Minutos]
  /\ impuntual \in [Bandejas -> BOOLEAN]

\* What the identities keep silent.  They tell neither users nor rows apart and
\* are never forgotten, but the only reminders lost to them are those of a
\* second look at the same minute, whatever failed, moved or changed owner
\* meanwhile: in a look at a minute not looked at before, no row that a query
\* is to bring has an identity that was announced.
CallarConMotivo ==
  \A b \in Bandejas :
    /\ estado[b] = "cinco" /\ ahora[b] \notin miradas[b] =>
         \A e \in Traidos(ahora[b] + Antelacion, cedula[b]) :
           Ident(e, "-5min") \notin notificados[b]
    /\ estado[b] = "exacta" /\ ahora[b] \notin miradas[b] =>
         \A e \in Traidos(ahora[b], cedula[b]) : Ident(e, "-exacta") \notin notificados[b]

\* A living process whose looks have neither failed nor run into the next
\* minute has given both reminders of every event that was in the table, of
\* the user that was in the file, before the minute of the first one.  (A
\* second event of the same moment and title shares them.)
AvisosDados ==
  \A b \in Bandejas, f \in Filas :
    LET e == eventos[f] IN
    /\ e # NoHay /\ aTiempo[f]
    /\ archivo = e.usu /\ archivoDesde < e.min - Antelacion
    /\ Viva(b) /\ ~ impuntual[b] /\ \E r \in miradas[b] : r <= e.min - Antelacion
    /\ minuto > e.min
    => \A suf \in Sufijos : veces[b][<<e, suf>>] = 1

\* The minutes that went by between two looks of b.
Perdidos(b) ==
  {m \in Minutos \ miradas[b] : /\ \E r \in miradas[b] : r < m
                               /\ \E r \in miradas[b] : r > m}

\* A slow look hides the minutes that begin during it, and the next look the
\* one that it begins in and those up to when it takes the time: no more than
\* 2 * MaxMirada minutes in a row are lost.
PerdidosSeguidos ==
  \A b \in Bandejas : \A m \in Perdidos(b) : ~ (m .. m + 2 * MaxMirada \subseteq Perdidos(b))

\* A process works for somebody who is no longer the one in the file only in a
\* look that was under way when the file changed, and MaxMirada minutes later
\* no such look is.
AvisoAjenoBreve ==
  \A b \in Bandejas :
    estado[b] \in Mirando /\ cedula[b] # archivo =>
      inicio[b] <= archivoDesde /\ minuto <= archivoDesde + MaxMirada

\* Every reminder is true: of an event that the table then has of the user the
\* look is for, in its minute or five before, or at most MaxMirada minutes late.
Recordador == INSTANCE RecordadorAbstracto WITH
  Avisadores <- Bandejas, Demora <- MaxMirada, Nombres <- Usuarios \X Titulos,
  hora  <- minuto,
  lista <- [b \in Bandejas |->
              {<<<<e.usu, e.tit>>, e.min>> :
                 e \in Suyos(cedula[b])}],
  dados <- [b \in Bandejas |->
              {<<<<r[1].usu, r[1].tit>>, r[1].min, IF r[2] = "-5min" THEN Antelacion ELSE 0>> :
                 r \in {s \in Recordatorios : veces[b][s] > 0}}]
CumpleRecordador == Recordador!Spec
=============================================================================
