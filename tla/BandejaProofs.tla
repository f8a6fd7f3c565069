--------------------------- MODULE BandejaProofs ---------------------------
(***************************************************************************)
(* Proofs about Bandeja: what any number of tray processes announce, and   *)
(* which minutes they miss, for any executions, users and events and for   *)
(* a clock that runs as long as it likes.                                  *)
(***************************************************************************)
EXTENDS Bandeja, TLAPS

USE VentanasAssumption, TiempoAssumption, MiradaAssumption, NoHayAssumption, FallosAssumption

-----------------------------------------------------------------------------
(* Types.                                                                  *)

\* A query brings events of the table.
LEMMA TraidosTipo ==
  ASSUME TypeOK, NEW m, NEW u
  PROVE  Traidos(m, u) \subseteq Evento
BY DEF TypeOK, Traidos, Suyos

LEMMA IdentTipo ==
  ASSUME NEW e \in Evento, NEW suf \in Sufijos
  PROVE  Ident(e, suf) \in Ids
BY DEF Ident, Ids, Evento

LEMMA AnunciarTipo ==
  ASSUME TypeOK, NEW b \in Bandejas, NEW E \in SUBSET Evento, NEW suf \in Sufijos,
         Anunciar(b, E, suf)
  PROVE  notificados' \in [Bandejas -> SUBSET Ids] /\ veces' \in [Bandejas -> [Recordatorios -> Nat]]
<1>1. veces[b] \in [Recordatorios -> Nat] /\ notificados[b] \subseteq Ids
  BY DEF TypeOK
<1>2. [r \in Recordatorios |->
         IF r[1] \in E /\ r[2] = suf /\ Ident(r[1], suf) \notin notificados[b]
           THEN veces[b][r] + 1 ELSE veces[b][r]] \in [Recordatorios -> Nat]
  BY <1>1
<1>3. {Ident(e, suf) : e \in E} \subseteq Ids
  BY IdentTipo
<1>4. veces' \in [Bandejas -> [Recordatorios -> Nat]]
  BY <1>2 DEF TypeOK, Anunciar
<1>5. notificados' \in [Bandejas -> SUBSET Ids]
  BY <1>1, <1>3 DEF TypeOK, Anunciar
<1> QED
  BY <1>4, <1>5

LEMMA DormirTipo ==
  ASSUME TypeOK, NEW b \in Bandejas, NEW m \in Minutos, Dormir(b, m)
  PROVE  /\ estado' \in [Bandejas -> Estados] /\ hasta' \in [Bandejas -> 0 .. MaxMinuto + 1]
         /\ miradas' \in [Bandejas -> SUBSET Minutos]
         /\ inicio' \in [Bandejas -> Minutos] /\ ahora' \in [Bandejas -> Minutos]
BY DEF TypeOK, Dormir, Estados, Minutos

\* The two ends of a reading: nobody is there, or a look begins for somebody.
LEMMA LeerCasos ==
  ASSUME TypeOK, NEW b \in Bandejas, Leer(b)
  PROVE  /\ UNCHANGED <<minuto, tabla, acceso, fichero, notificados, veces>>
         /\ cedula' \in [Bandejas -> Usuarios \cup {Vacio}]
         /\ impuntual' \in [Bandejas -> BOOLEAN]
         /\ impuntual[b] => impuntual'[b]
         /\ \/ Dormir(b, minuto) /\ (archivo = Vacio \/ impuntual'[b])
            \/ /\ archivo # Vacio /\ cedula'[b] = archivo
               /\ estado' = [estado EXCEPT ![b] = "conectando"]
               /\ inicio' = [inicio EXCEPT ![b] = minuto]
               /\ hasta' = [hasta EXCEPT ![b] = 0]
               /\ UNCHANGED <<ahora, miradas, impuntual>>
<1>0. UNCHANGED <<minuto, tabla, acceso, fichero, notificados, veces>>
  BY DEF Leer
<1>1. PICK c \in {archivo, Vacio} :
        /\ cedula' = [cedula EXCEPT ![b] = c]
        /\ impuntual' = [impuntual EXCEPT ![b] = IF c = archivo THEN @ ELSE TRUE]
        /\ \/ c = Vacio /\ Dormir(b, minuto)
           \/ /\ c # Vacio
              /\ estado' = [estado EXCEPT ![b] = "conectando"]
              /\ inicio' = [inicio EXCEPT ![b] = minuto]
              /\ hasta' = [hasta EXCEPT ![b] = 0]
              /\ UNCHANGED <<ahora, miradas>>
  BY DEF Leer
<1>2. /\ cedula' \in [Bandejas -> Usuarios \cup {Vacio}] /\ cedula'[b] = c
      /\ impuntual' \in [Bandejas -> BOOLEAN]
      /\ impuntual[b] => impuntual'[b]
  <2>1. /\ cedula \in [Bandejas -> Usuarios \cup {Vacio}] /\ archivo \in Usuarios \cup {Vacio}
        /\ impuntual \in [Bandejas -> BOOLEAN]
    BY DEF TypeOK
  <2> QED
    BY <1>1, <2>1
<1>3. CASE c = archivo
  <2>1. impuntual' = impuntual
    BY <1>1, <1>3 DEF TypeOK
  <2> QED
    BY <1>0, <1>1, <1>2, <1>3, <2>1
<1>4. CASE c # archivo
  <2>1. c = Vacio /\ impuntual'[b]
    BY <1>1, <1>4 DEF TypeOK
  <2> QED
    BY <1>0, <1>1, <1>2, <2>1
<1> QED
  BY <1>3, <1>4

LEMMA TipoInicial == Init => TypeOK
BY DEF Init, TypeOK, Minutos, Estados

LEMMA TipoLogin ==
  ASSUME TypeOK, NEW p \in Ventanas, PasoLogin(p)
  PROVE  TypeOK'
<1> USE DEF TypeOK, tabla, fichero, historia, mirada, procesos
<1>1. ASSUME NEW b \in Bandejas, Ingresar(p, b) PROVE TypeOK'
  BY <1>1 DEF Ingresar, Estados
<1>2. CASE Truncar(p)
  <2>1. UNCHANGED <<minuto, tabla, procesos>>
    BY <1>2 DEF Truncar
  <2>2. /\ acceso' \in [Ventanas -> {"login", "truncar", "escribir", "abierta"}]
        /\ archivo' \in Usuarios \cup {Vacio} /\ archivoDesde' \in Minutos
    BY <1>2 DEF Truncar
  <2> QED
    BY <2>1, <2>2
<1>3. CASE EscribirSesion(p)
  <2>1. UNCHANGED <<minuto, tabla, procesos>>
    BY <1>3 DEF EscribirSesion
  <2>2. /\ acceso' \in [Ventanas -> {"login", "truncar", "escribir", "abierta"}]
        /\ archivo' \in Usuarios \cup {Vacio} /\ archivoDesde' \in Minutos
    BY <1>3 DEF EscribirSesion
  <2> QED
    BY <2>1, <2>2
<1>4. CASE Cerrar(p)
  BY <1>4 DEF Cerrar
<1> QED
  BY <1>1, <1>2, <1>3, <1>4 DEF PasoLogin

LEMMA TipoLeer ==
  ASSUME TypeOK, NEW b \in Bandejas, Leer(b) \/ Conectar(b) \/ FallarBase(b) \/ Matar(b)
  PROVE  TypeOK'
<1> USE DEF tabla, fichero, historia, mirada
<1>1. CASE Leer(b)
  <2>1. CASE Dormir(b, minuto)
    <3>1. /\ minuto \in Minutos /\ cedula' \in [Bandejas -> Usuarios \cup {Vacio}]
          /\ impuntual' \in [Bandejas -> BOOLEAN]
      BY <1>1, LeerCasos DEF TypeOK
    <3>2. UNCHANGED <<minuto, tabla, acceso, fichero, notificados, veces>>
      BY <1>1, LeerCasos
    <3> QED
      BY <2>1, <3>1, <3>2, DormirTipo DEF TypeOK
  <2>2. CASE ~ Dormir(b, minuto)
    <3>1. /\ estado' = [estado EXCEPT ![b] = "conectando"]
          /\ inicio' = [inicio EXCEPT ![b] = minuto]
          /\ hasta' = [hasta EXCEPT ![b] = 0]
          /\ cedula' \in [Bandejas -> Usuarios \cup {Vacio}]
          /\ UNCHANGED <<minuto, tabla, acceso, fichero, historia, ahora>>
      BY <1>1, <2>2, LeerCasos
    <3>2. 0 \in 0 .. MaxMinuto + 1 /\ "conectando" \in Estados
      BY DEF Estados, Mirando
    <3> QED
      BY <3>1, <3>2 DEF TypeOK
  <2> QED
    BY <2>1, <2>2
<1>2. CASE Conectar(b)
  BY <1>2 DEF TypeOK, Conectar, Estados, Mirando
<1>3. CASE FallarBase(b)
  BY <1>3, DormirTipo DEF TypeOK, FallarBase
<1>4. CASE Matar(b)
  <2>1. 0 \in Minutos /\ 0 \in 0 .. MaxMinuto + 1
    BY DEF Minutos
  <2> QED
    BY <1>4, <2>1 DEF TypeOK, Matar, Estados
<1> QED
  BY <1>1, <1>2, <1>3, <1>4

LEMMA TipoAvisar ==
  ASSUME TypeOK, NEW b \in Bandejas, AvisarCinco(b) \/ AvisarExacta(b)
  PROVE  TypeOK'
<1> USE DEF tabla, fichero, historia, mirada
<1>1. CASE AvisarCinco(b)
  <2>1. Traidos(ahora[b] + Antelacion, cedula[b]) \subseteq Evento /\ "-5min" \in Sufijos
    BY TraidosTipo DEF Sufijos
  <2> QED
    BY <1>1, <2>1, AnunciarTipo DEF TypeOK, AvisarCinco, Estados, Mirando
<1>2. CASE AvisarExacta(b)
  <2>1. /\ Traidos(ahora[b], cedula[b]) \subseteq Evento /\ "-exacta" \in Sufijos
        /\ ahora[b] \in Minutos
    BY TraidosTipo DEF Sufijos, TypeOK
  <2> QED
    BY <1>2, <2>1, AnunciarTipo, DormirTipo DEF TypeOK, AvisarExacta
<1> QED
  BY <1>1, <1>2

LEMMA TipoPaso == TypeOK /\ [Next]_vars => TypeOK'
<1> SUFFICES ASSUME TypeOK, [Next]_vars PROVE TypeOK'
  OBVIOUS
<1> USE DEF tabla, fichero, historia, mirada, procesos
<1>1. ASSUME NEW f \in Filas, NEW e \in Evento \cup {NoHay}, Escribir(f, e) PROVE TypeOK'
  BY <1>1 DEF TypeOK, Escribir
<1>2. CASE Tictac
  BY <1>2 DEF TypeOK, Tictac, Minutos
<1>3. CASE UNCHANGED vars
  BY <1>3 DEF TypeOK, vars
<1> QED
  BY <1>1, <1>2, <1>3, TipoLogin, TipoLeer, TipoAvisar DEF Next, PasoBandeja

-----------------------------------------------------------------------------
(* What is announced.                                                      *)

\* Of what is remembered nothing was given twice, and of the rest nothing at all.
Una ==
  \A b \in Bandejas, e \in Evento, s \in Sufijos :
    veces[b][<<e, s>>] <= IF Ident(e, s) \in notificados[b] THEN 1 ELSE 0

\* What an announcement does to one reminder.
LEMMA AnunciarVeces ==
  ASSUME TypeOK, NEW b \in Bandejas, NEW E, NEW suf, Anunciar(b, E, suf),
         NEW e \in Evento, NEW s \in Sufijos
  PROVE  /\ veces[b][<<e, s>>] \in Nat
         /\ veces'[b][<<e, s>>] = IF e \in E /\ s = suf /\ Ident(e, s) \notin notificados[b]
                                   THEN veces[b][<<e, s>>] + 1 ELSE veces[b][<<e, s>>]
<1>1. <<e, s>> \in Recordatorios /\ veces[b] \in [Recordatorios -> Nat]
  BY DEF Recordatorios, TypeOK
<1>2. veces'[b] = [r \in Recordatorios |->
                     IF r[1] \in E /\ r[2] = suf /\ Ident(r[1], suf) \notin notificados[b]
                       THEN veces[b][r] + 1 ELSE veces[b][r]]
  BY DEF Anunciar, TypeOK
<1> QED
  BY <1>1, <1>2

\* Announcing remembers, and forgets nothing.
LEMMA AnunciarGuarda ==
  ASSUME TypeOK, NEW b \in Bandejas, NEW E, NEW suf, Anunciar(b, E, suf)
  PROVE  /\ notificados'[b] = notificados[b] \cup {Ident(e, suf) : e \in E}
         /\ \A c \in Bandejas \ {b} : notificados'[c] = notificados[c] /\ veces'[c] = veces[c]
BY DEF TypeOK, Anunciar

LEMMA AnunciarUna ==
  ASSUME TypeOK, Una, NEW b \in Bandejas, NEW E, NEW suf, Anunciar(b, E, suf)
  PROVE  Una'
<1> SUFFICES ASSUME NEW c \in Bandejas, NEW e \in Evento, NEW s \in Sufijos
             PROVE  veces'[c][<<e, s>>] <= IF Ident(e, s) \in notificados'[c] THEN 1 ELSE 0
  BY DEF Una, Ident
<1>0. veces[c][<<e, s>>] <= IF Ident(e, s) \in notificados[c] THEN 1 ELSE 0
  BY DEF Una
<1>1. CASE c # b
  BY <1>0, <1>1, AnunciarGuarda
<1>2. CASE c = b
  <2>1. e \in E /\ s = suf => Ident(e, s) \in notificados'[b]
    BY AnunciarGuarda
  <2>2. Ident(e, s) \in notificados[b] => Ident(e, s) \in notificados'[b]
    BY AnunciarGuarda
  <2> QED
    BY <1>0, <1>2, <2>1, <2>2, AnunciarVeces
<1> QED
  BY <1>1, <1>2

\* Only the two queries announce.
LEMMA SoloAvisan ==
  ASSUME [Next]_vars
  PROVE  \/ UNCHANGED <<notificados, veces>>
         \/ \E b \in Bandejas : AvisarCinco(b) \/ AvisarExacta(b)
BY DEF Next, vars, procesos, historia, PasoLogin, Ingresar, Truncar, EscribirSesion, Cerrar,
       PasoBandeja, Leer, Conectar, FallarBase, Matar, Escribir, Tictac

\* What was given once is not given again.
LEMMA AnunciarConserva ==
  ASSUME TypeOK, Una, NEW b \in Bandejas, NEW E, NEW suf, Anunciar(b, E, suf),
         NEW e \in Evento, NEW s \in Sufijos, veces[b][<<e, s>>] = 1
  PROVE  veces'[b][<<e, s>>] = 1
<1>1. Ident(e, s) \in notificados[b]
  BY DEF Una
<1> QED
  BY <1>1, AnunciarVeces

LEMMA UnaPaso == TypeOK /\ Una /\ [Next]_vars => Una'
<1> SUFFICES ASSUME TypeOK, Una, [Next]_vars PROVE Una'
  OBVIOUS
<1>1. CASE UNCHANGED <<notificados, veces>>
  BY <1>1 DEF Una
<1>2. ASSUME NEW b \in Bandejas, AvisarCinco(b) PROVE Una'
  BY <1>2, AnunciarUna DEF AvisarCinco
<1>3. ASSUME NEW b \in Bandejas, AvisarExacta(b) PROVE Una'
  BY <1>3, AnunciarUna DEF AvisarExacta
<1> QED
  BY <1>1, <1>2, <1>3, SoloAvisan

-----------------------------------------------------------------------------
(* The clock of a process.                                                 *)

\* r is the last look of b.
EsUltima(b, r) == r \in miradas[b] /\ \A x \in miradas[b] : x <= r

\* The looks are past; one under way began at most MaxMirada minutes ago,
\* and at most one more after the one before; a sleep ends as close to it.  All of it is
\* exact if its looks have been prompt.
Reloj(b) ==
  /\ \A r \in miradas[b] : r <= minuto
  /\ estado[b] \in {"apagada", "arrancando"} => miradas[b] = {}
  /\ estado[b] \in Mirando =>
       /\ inicio[b] <= minuto /\ minuto <= inicio[b] + MaxMirada
       /\ ~ impuntual[b] => minuto = inicio[b]
       /\ \A r \in miradas[b] : r <= inicio[b]
       /\ miradas[b] # {} => \E r \in Minutos : EsUltima(b, r) /\ inicio[b] <= r + MaxMirada + 1
  /\ estado[b] \in {"cinco", "exacta"} => inicio[b] <= ahora[b] /\ ahora[b] <= minuto
  /\ estado[b] = "durmiendo" =>
       /\ minuto <= hasta[b]
       /\ \E r \in Minutos : /\ EsUltima(b, r) /\ hasta[b] <= r + MaxMirada + 1
                             /\ ~ impuntual[b] => hasta[b] = r + 1

Relojes == archivoDesde <= minuto /\ \A b \in Bandejas : Reloj(b)

proceso(b) == <<estado[b], inicio[b], cedula[b], ahora[b], hasta[b], miradas[b], impuntual[b]>>

PasoDe(b) == \/ Leer(b) \/ Conectar(b) \/ AvisarCinco(b) \/ AvisarExacta(b)
             \/ FallarBase(b) \/ Matar(b)

LEMMA PasoDeQuieto ==
  ASSUME TypeOK, NEW b \in Bandejas, PasoDe(b)
  PROVE  UNCHANGED <<minuto, tabla>> /\ (impuntual[b] => impuntual'[b])
<1>1. CASE Leer(b)
  BY <1>1, LeerCasos
<1> QED
  BY <1>1 DEF PasoDe, Conectar, AvisarCinco, AvisarExacta, FallarBase, Matar, historia, TypeOK

\* What can happen to a process and its clock.
LEMMA PasosDe ==
  ASSUME TypeOK, [Next]_vars, NEW b \in Bandejas
  PROVE  \/ PasoDe(b)
         \/ Tictac
         \/ UNCHANGED <<minuto, proceso(b)>>
         \/ /\ estado[b] = "apagada" /\ estado'[b] = "arrancando"
            /\ UNCHANGED <<minuto, inicio[b], cedula[b], ahora[b], hasta[b], miradas[b], impuntual[b]>>
<1> USE DEF tabla, fichero, historia, mirada, procesos, proceso, TypeOK
<1>1. ASSUME NEW p \in Ventanas, NEW c \in Bandejas, Ingresar(p, c)
      PROVE  \/ UNCHANGED <<minuto, proceso(b)>>
             \/ /\ estado[b] = "apagada" /\ estado'[b] = "arrancando"
                /\ UNCHANGED <<minuto, inicio[b], cedula[b], ahora[b], hasta[b], miradas[b], impuntual[b]>>
  BY <1>1 DEF Ingresar
<1>2. ASSUME NEW p \in Ventanas, Truncar(p) \/ EscribirSesion(p) \/ Cerrar(p)
      PROVE  UNCHANGED <<minuto, proceso(b)>>
  BY <1>2 DEF Truncar, EscribirSesion, Cerrar
<1>3. ASSUME NEW c \in Bandejas, c # b, PasoDe(c)
      PROVE  UNCHANGED <<minuto, proceso(b)>>
  BY <1>3 DEF PasoDe, Leer, Conectar, AvisarCinco, AvisarExacta, FallarBase, Matar, Dormir
<1>4. ASSUME NEW f \in Filas, NEW e \in Evento \cup {NoHay}, Escribir(f, e)
      PROVE  UNCHANGED <<minuto, proceso(b)>>
  BY <1>4 DEF Escribir
<1>5. CASE UNCHANGED vars
  BY <1>5 DEF vars
<1> QED
  BY <1>1, <1>2, <1>3, <1>4, <1>5 DEF Next, PasoLogin, PasoBandeja, PasoDe

\* What the end of a look does to the clock of b.
LEMMA DormirReloj ==
  ASSUME TypeOK, NEW b \in Bandejas, NEW m \in Minutos, Dormir(b, m), UNCHANGED minuto,
         m <= minuto, minuto <= m + MaxMirada, ~ impuntual'[b] => minuto = m,
         \A r \in miradas[b] : r <= m
  PROVE  Reloj(b)'
<1>1. /\ estado'[b] = "durmiendo" /\ hasta'[b] = minuto + 1 /\ miradas'[b] = miradas[b] \cup {m}
      /\ minuto \in Int /\ m \in Int /\ miradas[b] \subseteq Int
  BY DEF Dormir, TypeOK, Minutos
<1>2. EsUltima(b, m)'
  BY <1>1 DEF EsUltima
<1> QED
  BY <1>1, <1>2 DEF Reloj, Mirando

LEMMA RelojPasoDe ==
  ASSUME TypeOK, NEW b \in Bandejas, Reloj(b), PasoDe(b)
  PROVE  Reloj(b)'
<1>0. minuto \in Minutos /\ minuto \in Int /\ Minutos \subseteq Int /\ UNCHANGED minuto
  BY PasoDeQuieto DEF TypeOK, Minutos
<1>1. CASE Leer(b)
  <2>1. CASE Dormir(b, minuto)
    BY <1>0, <2>1, DormirReloj DEF Reloj
  <2>2. CASE ~ Dormir(b, minuto)
    <3>1. /\ estado'[b] = "conectando" /\ inicio'[b] = minuto
          /\ UNCHANGED <<miradas, impuntual>>
      BY <1>1, <2>2, LeerCasos DEF TypeOK
    <3>2. miradas[b] # {} => \E r \in Minutos : EsUltima(b, r) /\ minuto <= r + MaxMirada + 1
      BY <1>0, <1>1 DEF Leer, Reloj, TypeOK
    <3> QED
      BY <1>0, <3>1, <3>2 DEF Reloj, Mirando, EsUltima
  <2> QED
    BY <2>1, <2>2
<1>2. CASE Conectar(b)
  <2>1. estado[b] \in Mirando /\ estado'[b] = "cinco" /\ ahora'[b] = minuto
        /\ UNCHANGED <<inicio, miradas, impuntual>>
    BY <1>2 DEF Conectar, TypeOK, Mirando, historia
  <2> QED
    BY <1>0, <2>1 DEF Reloj, Mirando, EsUltima
<1>3. CASE AvisarCinco(b)
  <2>1. estado[b] = "cinco" /\ estado'[b] = "exacta"
        /\ UNCHANGED <<inicio, miradas, ahora, impuntual>>
    BY <1>3 DEF AvisarCinco, TypeOK, mirada
  <2> QED
    BY <1>0, <2>1 DEF Reloj, Mirando, EsUltima
<1>4. CASE AvisarExacta(b)
  <2>1. Dormir(b, ahora[b]) /\ estado[b] = "exacta" /\ ahora[b] \in Minutos /\ inicio[b] \in Int
        /\ miradas[b] \subseteq Int /\ UNCHANGED impuntual
    BY <1>0, <1>4 DEF AvisarExacta, TypeOK
  <2>2. /\ ahora[b] <= minuto /\ minuto <= ahora[b] + MaxMirada
        /\ ~ impuntual[b] => minuto = ahora[b]
        /\ \A r \in miradas[b] : r <= ahora[b]
    <3>1. /\ inicio[b] <= ahora[b] /\ ahora[b] <= minuto /\ minuto <= inicio[b] + MaxMirada
          /\ ~ impuntual[b] => minuto = inicio[b]
          /\ \A r \in miradas[b] : r <= inicio[b]
      BY <2>1, SMTT(30) DEF Reloj, Mirando
    <3>2. ahora[b] \in Int
      BY <1>0, <2>1
    <3> QED
      BY <1>0, <2>1, <3>1, <3>2
  <2> QED
    BY <1>0, <2>1, <2>2, DormirReloj
<1>5. CASE FallarBase(b)
  <2>1. Dormir(b, minuto) /\ impuntual'[b] /\ \A r \in miradas[b] : r <= minuto
    BY <1>5 DEF FallarBase, TypeOK, Reloj
  <2> QED
    BY <1>0, <2>1, DormirReloj
<1>6. CASE Matar(b)
  <2>1. estado'[b] = "muerta" /\ UNCHANGED <<miradas, impuntual>>
    BY <1>6 DEF Matar, TypeOK, historia
  <2> QED
    BY <1>0, <2>1 DEF Reloj, Mirando
<1> QED
  BY <1>1, <1>2, <1>3, <1>4, <1>5, <1>6 DEF PasoDe

LEMMA RelojTictac ==
  ASSUME TypeOK, NEW b \in Bandejas, Reloj(b), Tictac
  PROVE  Reloj(b)'
<1>1. /\ minuto' = minuto + 1 /\ minuto \in Int
      /\ UNCHANGED <<estado, inicio, ahora, hasta, miradas>>
      /\ impuntual' = [c \in Bandejas |-> impuntual[c] \/ estado[c] \in Mirando]
  BY DEF TypeOK, Tictac, Minutos, procesos, mirada, historia
<1>2. inicio[b] \in Int /\ ahora[b] \in Int /\ hasta[b] \in Int /\ miradas[b] \subseteq Int
  BY DEF TypeOK, Minutos
<1>3. /\ estado[b] = "durmiendo" => minuto < hasta[b]
      /\ estado[b] \in Mirando => minuto < inicio[b] + MaxMirada
  BY DEF Tictac
<1>4. impuntual'[b] = (impuntual[b] \/ estado[b] \in Mirando)
  BY <1>1
<1>5. CASE estado[b] = "durmiendo"
  <2>1. ~ impuntual'[b] => ~ impuntual[b]
    BY <1>4
  <2> QED
    BY <1>1, <1>2, <1>3, <1>5, <2>1 DEF Reloj, EsUltima, Mirando
<1>6. CASE estado[b] \in Mirando
  <2>1. impuntual'[b]
    BY <1>4, <1>6
  <2> QED
    BY <1>1, <1>2, <1>3, <1>6, <2>1 DEF Reloj, EsUltima, Mirando
<1>7. CASE estado[b] # "durmiendo" /\ estado[b] \notin Mirando
  BY <1>1, <1>2, <1>7 DEF Reloj, EsUltima, Mirando
<1> QED
  BY <1>5, <1>6, <1>7

LEMMA RelojesPaso == TypeOK /\ Relojes /\ [Next]_vars => Relojes'
<1> SUFFICES ASSUME TypeOK, Relojes, [Next]_vars PROVE Relojes'
  OBVIOUS
<1>1. archivoDesde' <= minuto'
  <2>1. minuto \in Int /\ archivoDesde \in Int /\ archivoDesde <= minuto
    BY DEF TypeOK, Minutos, Relojes
  <2>2. minuto' \in {minuto, minuto + 1} /\ archivoDesde' \in {archivoDesde, minuto}
    BY <2>1 DEF Next, vars, PasoLogin, Ingresar, Truncar, EscribirSesion, Cerrar, PasoBandeja,
         Leer, Conectar, AvisarCinco, AvisarExacta, FallarBase, Matar, Escribir, Tictac, fichero
  <2> QED
    BY <2>1, <2>2
<1>2. ASSUME NEW b \in Bandejas
      PROVE  Reloj(b)'
  <2>1. Reloj(b)
    BY DEF Relojes
  <2>2. CASE UNCHANGED <<minuto, proceso(b)>>
    BY <2>1, <2>2 DEF proceso, Reloj, EsUltima
  <2>3. CASE /\ estado[b] = "apagada" /\ estado'[b] = "arrancando"
             /\ UNCHANGED <<minuto, inicio[b], cedula[b], ahora[b], hasta[b], miradas[b], impuntual[b]>>
    BY <2>1, <2>3 DEF Reloj, EsUltima, Mirando
  <2> QED
    BY <2>1, <2>2, <2>3, RelojPasoDe, RelojTictac, PasosDe
<1> QED
  BY <1>1, <1>2 DEF Relojes

-----------------------------------------------------------------------------
(* Whose events are announced.                                             *)

\* The file changes only with its date, and then the processes do not move.
LEMMA CambioArchivo ==
  ASSUME [Next]_vars
  PROVE  UNCHANGED fichero \/ (archivoDesde' = minuto /\ UNCHANGED <<minuto, tabla, procesos>>)
BY DEF Next, vars, PasoLogin, Ingresar, Truncar, EscribirSesion, Cerrar, PasoBandeja,
       Leer, Conectar, AvisarCinco, AvisarExacta, FallarBase, Matar, Escribir, Tictac

LEMMA AjenoPaso == TypeOK /\ Relojes /\ AvisoAjenoBreve /\ [Next]_vars => AvisoAjenoBreve'
<1> SUFFICES ASSUME TypeOK, Relojes, AvisoAjenoBreve, [Next]_vars,
                    NEW b \in Bandejas, (estado[b] \in Mirando /\ cedula[b] # archivo)'
             PROVE  (inicio[b] <= archivoDesde /\ minuto <= archivoDesde + MaxMirada)'
  BY DEF AvisoAjenoBreve
<1>0. minuto \in Int /\ archivoDesde \in Int /\ inicio[b] \in Int
  BY DEF TypeOK, Minutos
<1>1. CASE archivoDesde' = minuto /\ UNCHANGED <<minuto, procesos>>
  BY <1>0, <1>1 DEF Relojes, Reloj, procesos, mirada
<1>2. CASE UNCHANGED fichero
  <2>1. CASE PasoDe(b)
    <3>1. \/ cedula'[b] = archivo
          \/ estado'[b] \notin Mirando
          \/ estado[b] \in Mirando /\ UNCHANGED <<minuto, inicio[b], cedula[b]>>
      <4>1. CASE Leer(b)
        BY <4>1, LeerCasos DEF Dormir, TypeOK, Mirando
      <4> QED
        BY <2>1, <4>1 DEF PasoDe, Conectar, AvisarCinco, AvisarExacta, FallarBase, Matar, Dormir,
                          TypeOK, mirada, Mirando
    <3> QED
      BY <1>2, <3>1 DEF AvisoAjenoBreve, fichero
  <2>2. CASE Tictac
    <3>1. estado[b] \in Mirando /\ minuto < inicio[b] + MaxMirada /\ minuto' = minuto + 1
          /\ UNCHANGED <<inicio, cedula>>
      BY <2>2 DEF Tictac, procesos, mirada
    <3>2. inicio[b] <= archivoDesde
      BY <1>2, <2>2, <3>1 DEF AvisoAjenoBreve, fichero, Tictac, procesos
    <3> QED
      BY <1>0, <1>2, <3>1, <3>2 DEF fichero
  <2>3. CASE UNCHANGED <<minuto, proceso(b)>>
    BY <1>2, <2>3 DEF AvisoAjenoBreve, fichero, proceso
  <2>4. CASE estado'[b] = "arrancando"
    BY <2>4 DEF Mirando
  <2> QED
    BY <2>1, <2>2, <2>3, <2>4, PasosDe
<1> QED
  BY <1>1, <1>2, CambioArchivo

-----------------------------------------------------------------------------
(* The minutes that are missed.                                            *)

\* Between a look and the next at most 2 * MaxMirada minutes go by.
LEMMA MiradaNueva ==
  ASSUME TypeOK, Relojes, [Next]_vars, NEW b \in Bandejas
  PROVE  \/ miradas'[b] = miradas[b]
         \/ \E m \in Minutos :
              /\ miradas'[b] = miradas[b] \cup {m}
              /\ miradas[b] # {} => \E r \in Minutos : EsUltima(b, r) /\ r <= m /\ m <= r + 2 * MaxMirada + 1
<1>0. Reloj(b) /\ minuto \in Minutos /\ Minutos \subseteq Int
  BY DEF Relojes, TypeOK, Minutos
<1>1. CASE Leer(b)
  <2>1. CASE Dormir(b, minuto)
    <3>1. miradas'[b] = miradas[b] \cup {minuto}
      BY <2>1 DEF Dormir, TypeOK
    <3>2. miradas[b] # {} => \E r \in Minutos : EsUltima(b, r) /\ r <= minuto /\ minuto <= r + 2 * MaxMirada + 1
      <4>1. miradas[b] # {} => estado[b] = "durmiendo"
        BY <1>0, <1>1 DEF Leer, Reloj
      <4>2. hasta[b] \in Int
        BY DEF TypeOK
      <4> QED
        BY <1>0, <4>1, <4>2 DEF Reloj, EsUltima
    <3> QED
      BY <1>0, <3>1, <3>2
  <2>2. CASE ~ Dormir(b, minuto)
    BY <1>1, <2>2, LeerCasos
  <2> QED
    BY <2>1, <2>2
<1>2. ASSUME NEW m \in Minutos, Dormir(b, m), estado[b] \in Mirando, inicio[b] <= m, m <= minuto
      PROVE  \E k \in Minutos :
               /\ miradas'[b] = miradas[b] \cup {k}
               /\ miradas[b] # {} => \E r \in Minutos : EsUltima(b, r) /\ r <= k /\ k <= r + 2 * MaxMirada + 1
  <2>1. miradas'[b] = miradas[b] \cup {m}
    BY <1>2 DEF Dormir, TypeOK
  <2>2. inicio[b] \in Int /\ minuto <= inicio[b] + MaxMirada /\ \A r \in miradas[b] : r <= inicio[b]
    BY <1>0, <1>2 DEF Reloj, TypeOK
  <2>3. miradas[b] # {} => \E r \in Minutos : EsUltima(b, r) /\ inicio[b] <= r + MaxMirada + 1
    BY <1>0, <1>2 DEF Reloj
  <2>4. miradas[b] # {} => \E r \in Minutos : EsUltima(b, r) /\ r <= m /\ m <= r + 2 * MaxMirada + 1
    BY <1>0, <1>2, <2>2, <2>3 DEF EsUltima
  <2> QED
    BY <2>1, <2>4
<1>3. CASE AvisarExacta(b)
  <2>1. estado[b] = "exacta" /\ Dormir(b, ahora[b]) /\ ahora[b] \in Minutos
    BY <1>3 DEF AvisarExacta, TypeOK
  <2>2. inicio[b] <= ahora[b] /\ ahora[b] <= minuto
    BY <1>0, <2>1 DEF Reloj
  <2> QED
    BY <1>2, <2>1, <2>2 DEF Mirando
<1>4. CASE FallarBase(b)
  <2>1. estado[b] \in Mirando /\ Dormir(b, minuto) /\ inicio[b] <= minuto
    BY <1>0, <1>4 DEF FallarBase, Reloj
  <2> QED
    BY <1>0, <1>2, <2>1
<1>5. CASE Conectar(b) \/ AvisarCinco(b) \/ Matar(b) \/ Tictac
  BY <1>5 DEF Conectar, AvisarCinco, Matar, Tictac, procesos, historia
<1>6. CASE miradas'[b] = miradas[b]
  BY <1>6
<1> QED
  BY <1>1, <1>3, <1>4, <1>5, <1>6, PasosDe DEF PasoDe, proceso

LEMMA PerdidosPaso == TypeOK /\ Relojes /\ PerdidosSeguidos /\ [Next]_vars => PerdidosSeguidos'
<1> SUFFICES ASSUME TypeOK, Relojes, PerdidosSeguidos, [Next]_vars, NEW b \in Bandejas,
                    NEW k \in Perdidos(b)', k .. k + 2 * MaxMirada \subseteq Perdidos(b)'
             PROVE  FALSE
  BY DEF PerdidosSeguidos
<1> DEFINE z == k + 2 * MaxMirada
<1>0. /\ Minutos \subseteq Int /\ miradas[b] \subseteq Minutos /\ k \in Int /\ z \in Int /\ k <= z
      /\ k \in k .. z /\ z \in k .. z
  BY DEF TypeOK, Minutos, Perdidos
<1>1. CASE miradas'[b] = miradas[b]
  BY <1>1 DEF PerdidosSeguidos, Perdidos
<1>2. ASSUME NEW m \in Minutos, miradas'[b] = miradas[b] \cup {m},
             miradas[b] # {} =>
               \E r \in Minutos : EsUltima(b, r) /\ r <= m /\ m <= r + 2 * MaxMirada + 1
      PROVE  FALSE
  <2>1. miradas[b] # {}
    BY <1>0, <1>2 DEF Perdidos
  <2>2. PICK r \in Minutos : EsUltima(b, r) /\ r <= m /\ m <= r + 2 * MaxMirada + 1
    BY <1>2, <2>1
  <2>3. z < m /\ ~ (r \in k .. z)
    <3>1. z \in Perdidos(b)'
      BY <1>0
    <3>2. PICK y \in miradas'[b] : y > z
      BY <3>1 DEF Perdidos
    <3>3. y <= m /\ y \in Int
      <4>1. CASE y = m
        <5>1. m \in Int
          BY <1>0, <1>2
        <5> QED
          BY <4>1, <5>1
      <4>2. CASE y \in miradas[b]
        <5>1. y \in Int /\ r \in Int /\ m \in Int /\ y <= r /\ r <= m
          BY <1>0, <1>2, <2>2, <4>2 DEF EsUltima
        <5> QED
          BY <5>1
      <4> QED
        BY <1>2, <3>2, <4>1, <4>2
    <3>4. r \in miradas'[b]
      BY <1>2, <2>2 DEF EsUltima
    <3> QED
      BY <1>0, <1>2, <3>2, <3>3, <3>4 DEF Perdidos
  <2>4. r \in Int /\ m \in Int /\ (r < k \/ z < r)
    BY <1>0, <2>3
  <2>5. z < r
    BY <1>0, <2>2, <2>3, <2>4
  <2>6. ASSUME NEW j \in k .. z
        PROVE  j \in Perdidos(b)
    <3>1. j \in Perdidos(b)' /\ j < r /\ j \in Int
      BY <1>0, <2>4, <2>5
    <3> QED
      BY <1>0, <1>2, <2>2, <3>1 DEF Perdidos, EsUltima
  <2> QED
    BY <1>0, <2>6 DEF PerdidosSeguidos
<1> QED
  BY <1>1, <1>2, MiradaNueva

-----------------------------------------------------------------------------
(* What the identities keep silent.                                        *)

\* The minute in which the reminder i is due, and that which b is in.
Cuando(i) == IF i[3] = "-5min" THEN i[1] - Antelacion ELSE i[1]
Hora(b)   == IF estado[b] \in {"cinco", "exacta"} THEN ahora[b] ELSE minuto

\* What is remembered was due in a minute looked at, or in one that is over for
\* the process, or is of the first query of the look under way.
Recordada(b, i) ==
  \/ Cuando(i) \in miradas[b]
  \/ Cuando(i) < Hora(b)
  \/ estado[b] = "exacta" /\ i[3] = "-5min" /\ Cuando(i) = ahora[b]

Recordadas ==
  \A b \in Bandejas : estado[b] # "muerta" => \A i \in notificados[b] : Recordada(b, i)

LEMMA CuandoTipo ==
  ASSUME TypeOK, NEW b \in Bandejas, NEW i \in notificados[b]
  PROVE  i[1] \in Int /\ Cuando(i) \in Int
<1>1. i \in Ids
  BY DEF TypeOK
<1>2. i[1] \in Inicios /\ Inicios \subseteq Minutos /\ Minutos \subseteq Int
  BY <1>1 DEF Ids, Minutos
<1>3. i[1] \in Int
  BY <1>2
<1> QED
  BY <1>3 DEF Cuando, Antelacion

LEMMA RecordadasCallan == TypeOK /\ Recordadas => CallarConMotivo
<1> SUFFICES ASSUME TypeOK, Recordadas, NEW b \in Bandejas, ahora[b] \notin miradas[b]
             PROVE  /\ estado[b] = "cinco" =>
                         \A e \in Traidos(ahora[b] + Antelacion, cedula[b]) :
                           Ident(e, "-5min") \notin notificados[b]
                    /\ estado[b] = "exacta" =>
                         \A e \in Traidos(ahora[b], cedula[b]) :
                           Ident(e, "-exacta") \notin notificados[b]
  BY DEF CallarConMotivo
<1>0. ahora[b] \in Int
  BY DEF TypeOK, Minutos
<1>1. ASSUME estado[b] = "cinco", NEW e \in Traidos(ahora[b] + Antelacion, cedula[b]),
             Ident(e, "-5min") \in notificados[b]
      PROVE  FALSE
  <2>1. Cuando(Ident(e, "-5min")) = ahora[b]
    BY <1>0, <1>1 DEF Cuando, Ident, Traidos, Antelacion
  <2>2. Recordada(b, Ident(e, "-5min"))
    BY <1>1 DEF Recordadas
  <2> QED
    BY <1>0, <1>1, <2>1, <2>2 DEF Recordada, Hora
<1>2. ASSUME estado[b] = "exacta", NEW e \in Traidos(ahora[b], cedula[b]),
             Ident(e, "-exacta") \in notificados[b]
      PROVE  FALSE
  <2>1. Cuando(Ident(e, "-exacta")) = ahora[b] /\ Ident(e, "-exacta")[3] = "-exacta"
    BY <1>0, <1>2 DEF Cuando, Ident, Traidos
  <2>2. Recordada(b, Ident(e, "-exacta"))
    BY <1>2 DEF Recordadas
  <2> QED
    BY <1>0, <1>2, <2>1, <2>2 DEF Recordada, Hora
<1> QED
  BY <1>1, <1>2

\* Without a step of its own a process announces nothing.
LEMMA SinPasoCalla ==
  ASSUME TypeOK, [Next]_vars, NEW b \in Bandejas, ~ PasoDe(b)
  PROVE  notificados'[b] = notificados[b] /\ veces'[b] = veces[b]
<1>1. ASSUME NEW c \in Bandejas, AvisarCinco(c) \/ AvisarExacta(c)
      PROVE  notificados'[b] = notificados[b] /\ veces'[b] = veces[b]
  <2>1. c # b
    BY <1>1 DEF PasoDe
  <2> QED
    BY <1>1, <2>1, AnunciarGuarda DEF AvisarCinco, AvisarExacta
<1> QED
  BY <1>1, SoloAvisan

LEMMA RecordadasPasoDe ==
  ASSUME TypeOK, Relojes, Recordadas, NEW b \in Bandejas, PasoDe(b), estado'[b] # "muerta",
         NEW i \in notificados'[b]
  PROVE  Recordada(b, i)'
<1>0. /\ Reloj(b) /\ minuto \in Int /\ ahora[b] \in Int /\ UNCHANGED minuto
      /\ estado[b] # "muerta"
  <2>1. estado[b] # "muerta"
    BY DEF PasoDe, Leer, Conectar, AvisarCinco, AvisarExacta, FallarBase, Matar, Viva, Mirando
  <2> QED
    BY <2>1, PasoDeQuieto DEF Relojes, TypeOK, Minutos
<1>1. CASE Leer(b)
  <2>1. /\ estado[b] \notin {"cinco", "exacta"} /\ estado'[b] \notin {"cinco", "exacta"}
        /\ i \in notificados[b] /\ miradas[b] \subseteq miradas'[b]
    BY <1>1, LeerCasos DEF Leer, Dormir, TypeOK
  <2> QED
    BY <1>0, <2>1 DEF Recordadas, Recordada, Hora, Cuando
<1>2. CASE Conectar(b)
  <2>1. /\ estado[b] = "conectando" /\ estado'[b] = "cinco" /\ ahora'[b] = minuto
        /\ i \in notificados[b] /\ miradas'[b] = miradas[b]
    BY <1>2 DEF Conectar, TypeOK, historia
  <2> QED
    BY <1>0, <2>1 DEF Recordadas, Recordada, Hora, Cuando
<1>3. CASE AvisarCinco(b)
  <2>1. /\ estado[b] = "cinco" /\ estado'[b] = "exacta" /\ UNCHANGED <<ahora, miradas>>
        /\ notificados'[b] = notificados[b] \cup
              {Ident(e, "-5min") : e \in Traidos(ahora[b] + Antelacion, cedula[b])}
    BY <1>3, AnunciarGuarda DEF AvisarCinco, mirada, TypeOK
  <2>2. CASE i \in notificados[b]
    BY <1>0, <2>1, <2>2 DEF Recordadas, Recordada, Hora, Cuando
  <2>3. ASSUME NEW e \in Traidos(ahora[b] + Antelacion, cedula[b]), i = Ident(e, "-5min")
        PROVE  Recordada(b, i)'
    <3>1. Cuando(i) = ahora[b] /\ i[3] = "-5min"
      BY <1>0, <2>3 DEF Cuando, Ident, Traidos, Antelacion
    <3> QED
      BY <2>1, <3>1 DEF Recordada, Cuando
  <2> QED
    BY <2>1, <2>2, <2>3
<1>4. CASE AvisarExacta(b)
  <2>1. /\ estado[b] = "exacta" /\ estado'[b] = "durmiendo"
        /\ miradas'[b] = miradas[b] \cup {ahora[b]} /\ ahora[b] <= minuto
        /\ notificados'[b] = notificados[b] \cup
              {Ident(e, "-exacta") : e \in Traidos(ahora[b], cedula[b])}
    BY <1>0, <1>4, AnunciarGuarda DEF AvisarExacta, Dormir, TypeOK, Reloj
  <2>2. CASE i \in notificados[b]
    <3>1. Cuando(i) \in miradas[b] \/ Cuando(i) < ahora[b] \/ Cuando(i) = ahora[b]
      BY <1>0, <2>1, <2>2 DEF Recordadas, Recordada, Hora
    <3>2. Cuando(i) \in Int
      BY <2>2, CuandoTipo
    <3>3. Cuando(i) \in miradas'[b] \/ Cuando(i) < minuto
      BY <1>0, <2>1, <3>1, <3>2
    <3> QED
      BY <1>0, <2>1, <3>3 DEF Recordada, Hora, Cuando
  <2>3. ASSUME NEW e \in Traidos(ahora[b], cedula[b]), i = Ident(e, "-exacta")
        PROVE  Recordada(b, i)'
    <3>1. Cuando(i) = ahora[b]
      BY <1>0, <2>3 DEF Cuando, Ident, Traidos
    <3> QED
      BY <2>1, <3>1 DEF Recordada, Cuando
  <2> QED
    BY <2>1, <2>2, <2>3
<1>5. CASE FallarBase(b)
  <2>1. /\ estado[b] \in Mirando /\ estado'[b] = "durmiendo" /\ i \in notificados[b]
        /\ miradas'[b] = miradas[b] \cup {minuto}
    BY <1>5 DEF FallarBase, Dormir, TypeOK
  <2>2. estado[b] \in {"cinco", "exacta"} => ahora[b] <= minuto
    BY <1>0 DEF Reloj
  <2>3. Cuando(i) \in Int
    BY <2>1, CuandoTipo
  <2>4. Cuando(i) \in miradas'[b] \/ Cuando(i) < minuto
    <3>1. Recordada(b, i)
      BY <1>0, <2>1 DEF Recordadas
    <3>2. CASE Cuando(i) \in miradas[b]
      BY <2>1, <3>2
    <3>3. CASE Cuando(i) < Hora(b)
      BY <1>0, <2>2, <2>3, <3>3 DEF Hora
    <3>4. CASE estado[b] = "exacta" /\ Cuando(i) = ahora[b]
      BY <1>0, <2>1, <2>2, <2>3, <3>4
    <3> QED
      BY <3>1, <3>2, <3>3, <3>4 DEF Recordada
  <2> QED
    BY <1>0, <2>1, <2>4 DEF Recordada, Hora, Cuando
<1>6. CASE Matar(b)
  BY <1>6 DEF Matar, TypeOK
<1> QED
  BY <1>1, <1>2, <1>3, <1>4, <1>5, <1>6 DEF PasoDe

LEMMA RecordadasPaso == TypeOK /\ Relojes /\ Recordadas /\ [Next]_vars => Recordadas'
<1> SUFFICES ASSUME TypeOK, Relojes, Recordadas, [Next]_vars, NEW b \in Bandejas,
                    estado'[b] # "muerta", NEW i \in notificados'[b]
             PROVE  Recordada(b, i)'
  BY DEF Recordadas
<1>1. CASE PasoDe(b)
  BY <1>1, RecordadasPasoDe
<1>2. CASE ~ PasoDe(b)
  <2>1. i \in notificados[b] /\ minuto \in Int /\ ahora[b] \in Int /\ i[1] \in Int
    <3>1. i \in notificados[b]
      BY <1>2, SinPasoCalla
    <3> QED
      BY <3>1, CuandoTipo DEF TypeOK, Minutos
  <2>2. CASE Tictac
    <3>1. minuto' = minuto + 1 /\ UNCHANGED <<estado, ahora, miradas>>
      BY <2>2 DEF Tictac, mirada
    <3> QED
      BY <2>1, <3>1 DEF Recordadas, Recordada, Hora, Cuando, Antelacion
  <2>3. CASE UNCHANGED <<minuto, proceso(b)>>
    BY <2>1, <2>3 DEF Recordadas, Recordada, Hora, Cuando, proceso
  <2>4. CASE /\ estado[b] = "apagada" /\ estado'[b] = "arrancando"
             /\ UNCHANGED <<minuto, inicio[b], cedula[b], ahora[b], hasta[b], miradas[b], impuntual[b]>>
    BY <2>1, <2>4 DEF Recordadas, Recordada, Hora, Cuando
  <2> QED
    BY <1>2, <2>2, <2>3, <2>4, PasosDe
<1> QED
  BY <1>1, <1>2

-----------------------------------------------------------------------------
(* Both reminders, when queries are prompt.                                *)

\* A living and prompt process has looked at every minute since its first look.
Seguidas ==
  \A b \in Bandejas : Viva(b) /\ ~ impuntual[b] =>
    \A m \in Minutos : m < minuto /\ (\E r \in miradas[b] : r <= m) => m \in miradas[b]

\* The process has asked for what begins five minutes after m.
Pregunto(b, m) == m \in miradas[b] \/ (estado[b] = "exacta" /\ ahora[b] = m)

\* The event was in the table, and its user in the file, in time.
EnRegla(f) ==
  LET e == eventos[f] IN
  /\ e # NoHay /\ aTiempo[f]
  /\ archivo = e.usu /\ archivoDesde < e.min - Antelacion

\* What was asked for was announced; what is in order now was so by then.
Dichas ==
  \A b \in Bandejas, f \in Filas : EnRegla(f) /\ ~ impuntual[b] =>
    LET e == eventos[f] IN
    /\ Pregunto(b, e.min - Antelacion) => veces[b][<<e, "-5min">>] = 1
    /\ e.min \in miradas[b] => veces[b][<<e, "-exacta">>] = 1

LEMMA EventoTipo ==
  ASSUME TypeOK, NEW f \in Filas, eventos[f] # NoHay
  PROVE  /\ eventos[f].usu \in Usuarios /\ eventos[f].tit \in Titulos
         /\ eventos[f].min \in Inicios /\ eventos[f].min \in Minutos /\ eventos[f].min \in Int
<1>1. eventos[f] \in Evento
  BY DEF TypeOK
<1>2. eventos[f].usu \in Usuarios /\ eventos[f].tit \in Titulos /\ eventos[f].min \in Inicios
  BY <1>1 DEF Evento
<1>3. Inicios \subseteq Minutos /\ Minutos \subseteq Int
  BY DEF Minutos
<1> QED
  BY <1>2, <1>3

\* A prompt look is of the minute that it is.
LEMMA AhoraPuntual ==
  ASSUME TypeOK, NEW b \in Bandejas, ~ impuntual[b], Reloj(b), estado[b] \in {"cinco", "exacta"}
  PROVE  ahora[b] = minuto /\ inicio[b] = minuto
<1>1. inicio[b] <= ahora[b] /\ ahora[b] <= minuto /\ minuto = inicio[b]
  BY DEF Reloj, Mirando
<1>2. ahora[b] \in Int /\ minuto \in Int
  BY DEF TypeOK, Minutos
<1> QED
  BY <1>1, <1>2

LEMMA SeguidasPaso == TypeOK /\ Relojes /\ Seguidas /\ [Next]_vars => Seguidas'
<1> SUFFICES ASSUME TypeOK, Relojes, Seguidas, [Next]_vars,
                    NEW b \in Bandejas, Viva(b)', ~ impuntual'[b], NEW m \in Minutos, m < minuto',
                    \E r \in miradas'[b] : r <= m
             PROVE  m \in miradas'[b]
  BY DEF Seguidas
<1>0. Minutos \subseteq Int /\ minuto \in Minutos /\ Reloj(b) /\ miradas[b] \subseteq Minutos
  BY DEF TypeOK, Minutos, Relojes
<1>1. Viva(b) \/ miradas[b] = {}
  <2>1. estado[b] = "muerta" => estado'[b] = "muerta"
    <3>1. CASE PasoDe(b)
      BY <3>1 DEF PasoDe, Leer, Conectar, AvisarCinco, AvisarExacta, FallarBase, Matar, Viva, Mirando
    <3>2. CASE Tictac
      BY <3>2 DEF Tictac, procesos
    <3> QED
      BY <3>1, <3>2, PasosDe DEF proceso
  <2> QED
    BY <1>0, <2>1 DEF Viva, Reloj
<1>4. ~ impuntual[b]
  <2>1. CASE PasoDe(b)
    BY <2>1, PasoDeQuieto
  <2>2. CASE Tictac
    BY <2>2 DEF Tictac
  <2> QED
    BY <2>1, <2>2, PasosDe DEF proceso
<1>2. CASE Tictac
  <2>1. minuto' = minuto + 1 /\ UNCHANGED <<miradas, estado>>
    BY <1>2 DEF Tictac
  <2>2. estado[b] \notin Mirando /\ (estado[b] = "durmiendo" => minuto < hasta[b])
    BY <1>2 DEF Tictac
  <2>3. miradas[b] # {} => estado[b] = "durmiendo"
    BY <1>0, <2>1, <2>2, PasosDe DEF Reloj, TypeOK, Estados, Viva
  <2>4. miradas[b] # {} => minuto \in miradas[b]
    <3> SUFFICES ASSUME miradas[b] # {} PROVE minuto \in miradas[b]
      OBVIOUS
    <3>1. PICK r \in Minutos : EsUltima(b, r) /\ hasta[b] = r + 1
      BY <1>0, <1>4, <2>3 DEF Reloj
    <3>2. r \in miradas[b] /\ r <= minuto /\ minuto < r + 1
      BY <1>0, <2>2, <2>3, <3>1 DEF Reloj, EsUltima
    <3>3. r \in Int /\ minuto \in Int
      BY <1>0
    <3>4. r = minuto
      BY <3>2, <3>3
    <3> QED
      BY <3>2, <3>4
  <2> QED
    BY <1>0, <1>1, <1>4, <2>1, <2>4 DEF Seguidas
<1>3. CASE ~ Tictac
  <2>1. minuto' = minuto
    BY <1>3 DEF Next, vars, PasoLogin, Ingresar, Truncar, EscribirSesion, Cerrar, PasoBandeja,
         Leer, Conectar, AvisarCinco, AvisarExacta, FallarBase, Matar, Escribir
  <2>2. CASE miradas'[b] = miradas[b]
    BY <1>1, <1>4, <2>1, <2>2 DEF Seguidas
  <2>3. ASSUME NEW k \in Minutos, miradas'[b] = miradas[b] \cup {k}, k = minuto
        PROVE  m \in miradas'[b]
    <3>1. PICK r \in miradas'[b] : r <= m
      OBVIOUS
    <3>2. r # k /\ m < minuto
      BY <1>0, <2>1, <2>3, <3>1
    <3>3. r \in miradas[b] /\ Viva(b)
      BY <1>1, <2>3, <3>1, <3>2
    <3> QED
      BY <1>4, <2>3, <3>1, <3>2, <3>3 DEF Seguidas
  <2>4. miradas'[b] = miradas[b] \/ miradas'[b] = miradas[b] \cup {minuto}
    <3>1. estado[b] = "exacta" => ahora[b] = minuto
      BY <1>0, <1>4, AhoraPuntual
    <3>2. CASE PasoDe(b)
      <4>1. CASE Leer(b)
        BY <4>1, LeerCasos DEF Dormir, TypeOK
      <4> QED
        BY <3>1, <3>2, <4>1 DEF PasoDe, Conectar, AvisarCinco, AvisarExacta, FallarBase, Matar,
                                Dormir, TypeOK, historia
    <3> QED
      BY <1>3, <3>2, PasosDe DEF proceso
  <2> QED
    BY <1>0, <2>2, <2>3, <2>4
<1> QED
  BY <1>2, <1>3

\* A query for the minute and user of an event brings it.
LEMMA Trae ==
  ASSUME NEW f \in Filas, eventos[f] # NoHay
  PROVE  eventos[f] \in Traidos(eventos[f].min, eventos[f].usu)
BY DEF Traidos, Suyos

\* A look at the minute before an event in order works for its user.
LEMMA CedulaVigente ==
  ASSUME TypeOK, Relojes, AvisoAjenoBreve, NEW b \in Bandejas, NEW f \in Filas,
         EnRegla(f), ~ impuntual[b], estado[b] \in {"cinco", "exacta"}, ahora[b] >= eventos[f].min - Antelacion
  PROVE  cedula[b] = eventos[f].usu
<1>1. minuto = inicio[b] /\ ahora[b] = minuto
  BY AhoraPuntual DEF Relojes
<1>2. eventos[f].min \in Int /\ archivoDesde \in Int /\ minuto \in Int
  BY EventoTipo DEF TypeOK, Minutos, EnRegla
<1>3. ~ (inicio[b] <= archivoDesde)
  BY <1>1, <1>2 DEF EnRegla, Antelacion
<1> QED
  BY <1>3 DEF AvisoAjenoBreve, EnRegla, Mirando

DichasDe(b, f) ==
  LET e == eventos[f] IN
  /\ Pregunto(b, e.min - Antelacion) => veces[b][<<e, "-5min">>] = 1
  /\ e.min \in miradas[b] => veces[b][<<e, "-exacta">>] = 1

\* A step of the process, about an event in order.
LEMMA DichasPasoDe ==
  ASSUME TypeOK, Relojes, Una, CallarConMotivo, AvisoAjenoBreve, NEW b \in Bandejas,
         NEW f \in Filas, EnRegla(f), ~ impuntual[b], ~ impuntual'[b], DichasDe(b, f), PasoDe(b)
  PROVE  DichasDe(b, f)'
<1> DEFINE e == eventos[f]
<1>0. /\ e # NoHay /\ archivo # Vacio /\ e.min \in Int /\ Reloj(b) /\ ahora[b] \in Int
      /\ UNCHANGED eventos /\ e \in Evento
  BY EventoTipo, PasoDeQuieto DEF EnRegla, Relojes, TypeOK, Minutos, tabla
<1>1. CASE Leer(b) \/ Conectar(b) \/ Matar(b)
  <2>1. estado'[b] # "exacta" /\ UNCHANGED <<veces, miradas>>
    BY <1>0, <1>1, LeerCasos DEF Conectar, Matar, TypeOK, historia
  <2> QED
    BY <1>0, <2>1 DEF DichasDe, Pregunto
<1>2. CASE AvisarCinco(b)
  <2> DEFINE E == Traidos(ahora[b] + Antelacion, cedula[b])
  <2>1. estado[b] = "cinco" /\ UNCHANGED <<ahora, miradas>> /\ Anunciar(b, E, "-5min")
    BY <1>2 DEF AvisarCinco, mirada
  <2>2. \A s \in Sufijos : veces[b][<<e, s>>] = 1 => veces'[b][<<e, s>>] = 1
    BY <1>0, <2>1, AnunciarConserva
  <2>3. ASSUME ahora[b] = e.min - Antelacion
        PROVE  veces'[b][<<e, "-5min">>] = 1
    <3>1. cedula[b] = e.usu /\ ahora[b] + Antelacion = e.min
      BY <1>0, <2>1, <2>3, CedulaVigente DEF Antelacion
    <3>2. e \in E /\ "-5min" \in Sufijos
      BY <1>0, <3>1, Trae DEF Sufijos
    <3>3. CASE ahora[b] \in miradas[b]
      BY <2>2, <2>3, <3>2, <3>3 DEF DichasDe, Pregunto
    <3>4. CASE ahora[b] \notin miradas[b]
      <4>1. Ident(e, "-5min") \notin notificados[b]
        BY <2>1, <3>2, <3>4 DEF CallarConMotivo
      <4>2. veces[b][<<e, "-5min">>] <= 0
        BY <1>0, <3>2, <4>1 DEF Una
      <4> QED
        BY <1>0, <2>1, <3>2, <4>1, <4>2, AnunciarVeces
    <3> QED
      BY <3>3, <3>4
  <2> QED
    BY <1>0, <2>1, <2>2, <2>3 DEF DichasDe, Pregunto, Sufijos
<1>3. CASE AvisarExacta(b)
  <2> DEFINE E == Traidos(ahora[b], cedula[b])
  <2>1. /\ estado[b] = "exacta" /\ estado'[b] = "durmiendo"
        /\ miradas'[b] = miradas[b] \cup {ahora[b]} /\ Anunciar(b, E, "-exacta")
    BY <1>3 DEF AvisarExacta, Dormir, TypeOK
  <2>2. \A s \in Sufijos : veces[b][<<e, s>>] = 1 => veces'[b][<<e, s>>] = 1
    BY <1>0, <2>1, AnunciarConserva
  <2>3. ASSUME ahora[b] = e.min
        PROVE  veces'[b][<<e, "-exacta">>] = 1
    <3>1. cedula[b] = e.usu
      BY <1>0, <2>1, <2>3, CedulaVigente DEF Antelacion
    <3>2. e \in E /\ "-exacta" \in Sufijos
      BY <1>0, <2>3, <3>1, Trae DEF Sufijos
    <3>3. CASE ahora[b] \in miradas[b]
      BY <2>2, <2>3, <3>2, <3>3 DEF DichasDe
    <3>4. CASE ahora[b] \notin miradas[b]
      <4>1. Ident(e, "-exacta") \notin notificados[b]
        BY <2>1, <3>2, <3>4 DEF CallarConMotivo
      <4>2. veces[b][<<e, "-exacta">>] <= 0
        BY <1>0, <3>2, <4>1 DEF Una
      <4> QED
        BY <1>0, <2>1, <3>2, <4>1, <4>2, AnunciarVeces
    <3> QED
      BY <3>3, <3>4
  <2> QED
    BY <1>0, <2>1, <2>2, <2>3 DEF DichasDe, Pregunto, Sufijos
<1>4. CASE FallarBase(b)
  BY <1>4 DEF FallarBase, TypeOK
<1> QED
  BY <1>1, <1>2, <1>3, <1>4 DEF PasoDe

LEMMA DichasPaso ==
  ASSUME TypeOK, Relojes, Una, CallarConMotivo, AvisoAjenoBreve, Dichas, [Next]_vars
  PROVE  Dichas'
<1> SUFFICES ASSUME NEW b \in Bandejas, NEW f \in Filas, EnRegla(f)', ~ impuntual'[b]
             PROVE  DichasDe(b, f)'
  BY DEF Dichas, DichasDe
<1>0. eventos'[f] # NoHay /\ TypeOK' /\ Relojes'
  BY TipoPaso, RelojesPaso DEF EnRegla
<1>1. CASE (minuto < eventos[f].min - Antelacion)'
  <2>1. (minuto < eventos[f].min - Antelacion => DichasDe(b, f))'  \* nothing was asked yet
    <3>1. TypeOK' /\ Reloj(b)' /\ eventos'[f] # NoHay
      BY <1>0 DEF Relojes
    <3>2. /\ eventos'[f].min \in Int /\ minuto' \in Int /\ ahora'[b] \in Int
          /\ miradas'[b] \subseteq Int
      <4>1. eventos'[f] \in Evento
        BY <3>1 DEF TypeOK
      <4>2. eventos'[f].min \in Inicios /\ Inicios \subseteq Minutos /\ Minutos \subseteq Int
        BY <4>1 DEF Evento, Minutos
      <4> QED
        BY <3>1, <4>2 DEF TypeOK
    <3> QED
      BY <3>1, <3>2 DEF DichasDe, Pregunto, Reloj, Antelacion
  <2> QED
    BY <1>1, <2>1
<1>2. CASE ~ (minuto < eventos[f].min - Antelacion)'
  <2>1. UNCHANGED fichero
    BY <1>2, CambioArchivo DEF EnRegla
  <2>2. UNCHANGED <<eventos[f], aTiempo[f]>>
    <3>1. ASSUME NEW g \in Filas, NEW e \in Evento \cup {NoHay}, Escribir(g, e)
          PROVE  UNCHANGED <<eventos[f], aTiempo[f]>>
      BY <1>2, <3>1 DEF Escribir, TypeOK, EnRegla
    <3>2. UNCHANGED tabla \/ \E g \in Filas, e \in Evento \cup {NoHay} : Escribir(g, e)
      BY DEF Next, vars, PasoLogin, Ingresar, Truncar, EscribirSesion, Cerrar, PasoBandeja,
         Leer, Conectar, AvisarCinco, AvisarExacta, FallarBase, Matar, Tictac
    <3> QED
      BY <3>1, <3>2 DEF tabla
  <2>6. ~ impuntual[b]
    <3>1. CASE PasoDe(b)
      BY <3>1, PasoDeQuieto
    <3>2. CASE Tictac
      BY <3>2 DEF Tictac
    <3> QED
      BY <3>1, <3>2, PasosDe DEF proceso
  <2>3. EnRegla(f) /\ DichasDe(b, f)
    BY <2>1, <2>2, <2>6 DEF EnRegla, Dichas, DichasDe, fichero
  <2>4. CASE PasoDe(b)
    BY <2>3, <2>4, <2>6, DichasPasoDe
  <2>5. CASE ~ PasoDe(b)
    <3>1. veces'[b] = veces[b]
      BY <2>5, SinPasoCalla
    <3>2. /\ miradas'[b] = miradas[b] /\ ahora'[b] = ahora[b]
          /\ estado'[b] = "exacta" => estado[b] = "exacta"
      <4>1. CASE Tictac
        BY <4>1 DEF Tictac, procesos, mirada, historia
      <4> QED
        BY <2>5, <4>1, PasosDe DEF proceso
    <3> QED
      BY <2>2, <2>3, <3>1, <3>2 DEF DichasDe, Pregunto
  <2> QED
    BY <2>4, <2>5
<1> QED
  BY <1>1, <1>2

-----------------------------------------------------------------------------
(* Theorems.                                                               *)

IInv == /\ TypeOK /\ Relojes /\ Una /\ Recordadas /\ CallarConMotivo /\ AvisoAjenoBreve
        /\ PerdidosSeguidos /\ Seguidas /\ Dichas

LEMMA IInvInicial == Init => IInv
<1> SUFFICES ASSUME Init PROVE IInv
  OBVIOUS
<1>1. \A b \in Bandejas : estado[b] = "apagada" /\ miradas[b] = {} /\ notificados[b] = {}
  BY DEF Init
<1>2. Relojes /\ AvisoAjenoBreve
  BY <1>1 DEF Init, Relojes, Reloj, Mirando, AvisoAjenoBreve
<1>3. Una /\ Recordadas
  <2>1. \A b \in Bandejas, e \in Evento, s \in Sufijos : veces[b][<<e, s>>] = 0
    BY DEF Init, Recordatorios
  <2> QED
    BY <1>1, <2>1 DEF Una, Recordadas
<1>4. PerdidosSeguidos /\ Seguidas
  BY <1>1 DEF PerdidosSeguidos, Perdidos, Seguidas
<1>5. Dichas
  BY <1>1 DEF Dichas, Pregunto
<1> QED
  BY <1>2, <1>3, <1>4, <1>5, TipoInicial, RecordadasCallan DEF IInv

LEMMA IInvSiempre == Spec => []IInv
<1>1. IInv /\ [Next]_vars => IInv'
  <2> SUFFICES ASSUME IInv, [Next]_vars PROVE IInv'
    OBVIOUS
  <2>1. TypeOK' /\ Relojes' /\ Una' /\ Recordadas'
    BY TipoPaso, RelojesPaso, UnaPaso, RecordadasPaso DEF IInv
  <2>2. (TypeOK /\ Recordadas => CallarConMotivo)'
    BY RecordadasCallan, PTL
  <2> QED
    BY <2>1, <2>2, AjenoPaso, PerdidosPaso, SeguidasPaso, DichasPaso DEF IInv
<1> QED
  BY <1>1, IInvInicial, PTL DEF Spec

\* Every variable of the tray processes, the file and the logins keeps its type.
THEOREM TipoCorrecto == Spec => []TypeOK
<1>1. IInv => TypeOK
  BY DEF IInv
<1> QED
  BY <1>1, IInvSiempre, PTL

\* notificarEventos: whatever failures, logins and changes of the table come
\* between its looks, the identities a process remembers keep silent nothing
\* but what a second look at the same minute brings.
THEOREM CallarConMotivoSiempre == Spec => []CallarConMotivo
<1>1. IInv => CallarConMotivo
  BY DEF IInv
<1> QED
  BY <1>1, IInvSiempre, PTL

\* NotificadorTray.main: with prompt and working queries, both reminders of
\* every event that is there in time are given.
THEOREM AvisosDadosSiempre == Spec => []AvisosDados
<1>1. IInv => AvisosDados
  <2> SUFFICES ASSUME IInv, NEW b \in Bandejas, ~ impuntual[b], NEW f \in Filas, EnRegla(f), Viva(b),
                      NEW r \in miradas[b], r <= eventos[f].min - Antelacion,
                      minuto > eventos[f].min, NEW suf \in Sufijos
               PROVE  veces[b][<<eventos[f], suf>>] = 1
    BY DEF AvisosDados, EnRegla
  <2> DEFINE e == eventos[f]
  <2>1. /\ e.min \in Inicios /\ e.tit \in Titulos /\ e.min \in Minutos
        /\ e.min \in Int /\ minuto \in Int /\ r \in Minutos /\ r \in Int
    BY EventoTipo DEF EnRegla, IInv, TypeOK, Minutos
  <2>2. e.min - Antelacion \in Minutos /\ e.min - Antelacion < minuto /\ r <= e.min
    BY <2>1 DEF Minutos, Antelacion
  <2>3. e.min - Antelacion \in miradas[b] /\ e.min \in miradas[b]
    BY <2>1, <2>2 DEF IInv, Seguidas
  <2>4. veces[b][<<e, "-5min">>] = 1 /\ veces[b][<<e, "-exacta">>] = 1
    BY <2>3 DEF IInv, Dichas, Pregunto
  <2> QED
    BY <2>4 DEF Sufijos
<1> QED
  BY <1>1, IInvSiempre, PTL

\* The looks of NotificadorTray.main: if no more than MaxMirada minutes begin
\* during a look, whatever fails in it, at most 2 * MaxMirada minutes in a row
\* go by without one.
THEOREM PerdidosSeguidosSiempre == Spec => []PerdidosSeguidos
<1>1. IInv => PerdidosSeguidos
  BY DEF IInv
<1> QED
  BY <1>1, IInvSiempre, PTL

\* leerCedulaDesdeArchivo: a process works for the user of an earlier file
\* only in the look that was under way when it changed, MaxMirada minutes at most.
THEOREM AvisoAjenoBreveSiempre == Spec => []AvisoAjenoBreve
<1>1. IInv => AvisoAjenoBreve
  BY DEF IInv
<1> QED
  BY <1>1, IInvSiempre, PTL

-----------------------------------------------------------------------------
(* The tray processes implement RecordadorAbstracto.                       *)

\* The events that b's look is for, and its reminders, in abstract form.
Propios(b) == {<<<<e.usu, e.tit>>, e.min>> : e \in Suyos(cedula[b])}
Aviso(r)   == <<<<r[1].usu, r[1].tit>>, r[1].min, IF r[2] = "-5min" THEN Antelacion ELSE 0>>
Dados(b)   == {Aviso(r) : r \in {s \in Recordatorios : veces[b][s] > 0}}

\* What a query of minute m + d brings is due in minute m.
LEMMA TraidoDebido ==
  ASSUME NEW b \in Bandejas, NEW m \in Int, NEW d, NEW suf,
         \/ d = 5 /\ suf = "-5min"
         \/ d = 0 /\ suf = "-exacta",
         NEW e \in Traidos(m + d, cedula[b])
  PROVE  Recordador!Debido(Aviso(<<e, suf>>), Propios(b), m)
<1>1. e \in Suyos(cedula[b]) /\ e.min = m + d
  BY DEF Traidos
<1>2. Aviso(<<e, suf>>) = <<<<e.usu, e.tit>>, e.min, d>>
  BY DEF Aviso, Antelacion
<1>3. <<<<e.usu, e.tit>>, e.min>> \in Propios(b)
  BY <1>1 DEF Propios
<1> QED
  BY <1>1, <1>2, <1>3 DEF Recordador!Debido, Recordador!Antelaciones

LEMMA AvisarCumple ==
  ASSUME IInv, NEW b \in Bandejas, AvisarCinco(b) \/ AvisarExacta(b)
  PROVE  Recordador!Avisar(b)
<1> DEFINE A == [x \in Bandejas |-> Dados(x)]
           B == [x \in Bandejas |-> Dados(x)']
           L == [x \in Bandejas |-> Propios(x)]
<1>1. ahora[b] \in minuto - MaxMirada .. minuto /\ ahora[b] \in Int
  <2>1. minuto \in Int /\ ahora[b] \in Int /\ inicio[b] \in Int
    BY DEF IInv, TypeOK, Minutos
  <2>2. inicio[b] <= ahora[b] /\ ahora[b] <= minuto /\ minuto <= inicio[b] + MaxMirada
    BY DEF IInv, Relojes, Reloj, Mirando, AvisarCinco, AvisarExacta
  <2> QED
    BY <2>1, <2>2
<1>2. PICK E, suf : /\ Anunciar(b, E, suf)
                    /\ \A e \in E : Recordador!Debido(Aviso(<<e, suf>>), Propios(b), ahora[b])
  <2>1. CASE AvisarCinco(b)
    BY <1>1, <2>1, TraidoDebido DEF AvisarCinco, Antelacion
  <2>2. CASE AvisarExacta(b)
    <3>1. ahora[b] + 0 = ahora[b]
      BY <1>1
    <3> QED
      BY <1>1, <2>2, <3>1, TraidoDebido DEF AvisarExacta
  <2> QED
    BY <2>1, <2>2
<1>3. ASSUME NEW r \in Recordatorios
      PROVE  /\ veces[b][r] \in Nat
             /\ veces[b][r] > 0 => veces'[b][r] > 0
             /\ veces'[b][r] > 0 => veces[b][r] > 0 \/ (r[1] \in E /\ r = <<r[1], suf>>)
  <2>1. PICK e \in Evento, s \in Sufijos : r = <<e, s>>
    BY DEF Recordatorios
  <2> QED
    BY <1>2, <2>1, AnunciarVeces DEF IInv
<1>4. \A x \in Bandejas \ {b} : Dados(x)' = Dados(x)
  BY <1>2, AnunciarGuarda DEF Dados, IInv
<1>5. A[b] \subseteq B[b] /\ B = [A EXCEPT ![b] = B[b]]
  <2>1. Dados(b) \subseteq Dados(b)'
    BY <1>3 DEF Dados
  <2> QED
    BY <1>4, <2>1
<1>6. ASSUME NEW x \in B[b] \ A[b]
      PROVE  \E m \in minuto - MaxMirada .. minuto : Recordador!Debido(x, L[b], m)
  <2>1. PICK r \in Recordatorios : x = Aviso(r) /\ veces'[b][r] > 0
    BY <1>6 DEF Dados, Aviso
  <2>2. ~ (veces[b][r] > 0)
    BY <1>6, <2>1 DEF Dados
  <2>3. Recordador!Debido(x, L[b], ahora[b])
    BY <1>2, <1>3, <2>1, <2>2
  <2> QED
    BY <1>1, <2>3
<1>7. /\ UNCHANGED minuto
      /\ L = [x \in Bandejas |-> Propios(x)']
  BY DEF AvisarCinco, AvisarExacta, tabla, mirada, Propios, Suyos
<1> QED
  BY <1>5, <1>6, <1>7 DEF Recordador!Avisar, Dados, Propios, Aviso, Recordatorios, Suyos

\* Whatever fails in its looks and whatever the logins and the writes meanwhile,
\* a tray process only gives reminders of events that the table then has of the
\* user it looks for, and late by no more minutes than begin during a look.
THEOREM BandejaCumpleRecordador == Spec => CumpleRecordador
<1>1. Init => Recordador!Init
  <2> SUFFICES ASSUME Init PROVE Recordador!Init
    OBVIOUS
  <2>1. ASSUME NEW b \in Bandejas
        PROVE  Propios(b) = {} /\ Dados(b) = {}
    <3>1. \A s \in Recordatorios : veces[b][s] = 0
      BY DEF Init
    <3> QED
      BY <3>1 DEF Init, Propios, Suyos, Dados
  <2> QED
    BY <2>1 DEF Init, Recordador!Init, Propios, Dados, Aviso
<1>2. ASSUME IInv, [Next]_vars, TypeOK'
      PROVE  [Recordador!Next]_(Recordador!vars)
  <2>1. ASSUME NEW b \in Bandejas, AvisarCinco(b) \/ AvisarExacta(b)
        PROVE  Recordador!Next
    BY <1>2, <2>1, AvisarCumple DEF Recordador!Next
  <2>2. CASE Tictac
    <3>1. minuto' = minuto + 1 /\ UNCHANGED <<eventos, cedula, veces>>
      BY <2>2 DEF Tictac, tabla, mirada
    <3> QED
      BY <3>1 DEF Recordador!Next, Recordador!Pasar, Suyos
  <2>3. CASE UNCHANGED <<minuto, veces>>
    <3>1. \A b \in Bandejas : Propios(b)' \in SUBSET ((Usuarios \X Titulos) \X Inicios)
      BY <1>2 DEF Propios, Suyos, TypeOK, Evento
    <3>2. Recordador!Cambiar
      BY <2>3, <3>1 DEF Recordador!Cambiar, Propios, Suyos
    <3> QED
      BY <3>2 DEF Recordador!Next
  <2>4. \/ Tictac \/ UNCHANGED <<minuto, veces>>
        \/ \E b \in Bandejas : AvisarCinco(b) \/ AvisarExacta(b)
    BY <1>2 DEF Next, vars, procesos, historia, PasoLogin, Ingresar, Truncar, EscribirSesion,
                Cerrar, PasoBandeja, Leer, Conectar, FallarBase, Matar, Escribir
  <2> QED
    BY <2>1, <2>2, <2>3, <2>4
<1>3. IInv => TypeOK
  BY DEF IInv
<1> QED
  BY <1>1, <1>2, <1>3, IInvSiempre, PTL DEF Spec, CumpleRecordador, Recordador!Spec
=============================================================================
