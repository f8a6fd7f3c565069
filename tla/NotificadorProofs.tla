-------------------------- MODULE NotificadorProofs --------------------------
(***************************************************************************)
(* Proofs about Notificador: what its drift can and cannot do, for any     *)
(* length of the minute in ticks, any bound on the delays below a minute,  *)
(* and any events.                                                         *)
(***************************************************************************)
EXTENDS Notificador, TLAPS

USE TiempoAssumption, IniciosAssumption, NadaAssumption DEF Listas

-----------------------------------------------------------------------------
(* The inductive invariant.                                                *)

\* How far the clock is from the last look, by the time slept and lost since.
Desfase ==
  fase # "fin" /\ revisados # {} =>
    \/ minuto = ahora     /\ K - falta + atraso = seg - segAhora
    \/ minuto = ahora + 1 /\ K - falta + atraso = seg - segAhora + K
    \/ minuto = ahora + 2 /\ K - falta + atraso = seg - segAhora + K + K

\* Where the thread is in its turn of the loop.
Turno ==
  /\ fase \in {"sin_ventana", "espera"} => revisados = {} /\ porDar = {}
  /\ fase = "leida" => falta = 0 /\ porDar = {}
  /\ fase = "bucle" => revisados # {}
  /\ fase = "bucle" /\ porDar # {} => falta = K

\* The looks that were made, and the last of them.
Historia ==
  /\ \A r \in revisados : r <= ahora
  /\ ahora <= minuto
  /\ revisados # {} => ahora \in revisados
  /\ revisados = {} => segAhora = 0

Perdido(m) == m \notin revisados /\ m < ahora /\ \E r \in revisados : r < m

Pasos == Nat \ {0}

\* A missed minute leaves the next look early in its minute, and each look
\* since is later than the one before by at most one delay.
Deriva == \A i \in Pasos : Perdido(ahora - i) => segAhora < i * Retraso

\* No two missed minutes are so near that the delays between them are at most a
\* minute.
Separados ==
  \A n \in Pasos : n * Retraso <= K => \A m \in Int : ~ (Perdido(m) /\ Perdido(m + n))

\* The list that a look took is out of date only for what was stored before
\* the minute of its first reminder: it is still the minute before, in which the
\* delay since may have carried the look into.
Reciente ==
  \A c \in Citas :
    /\ memoria[c] # Nada /\ minuto < memoria[c] - 6 => c \in aTiempo
    /\ fase = "leida" /\ leida[c] # memoria[c] /\ c \in aTiempo =>
         /\ memoria[c] # Nada
         /\ \/ minuto < memoria[c] - 6
            \/ minuto = memoria[c] - 6 /\ seg < atraso

\* Looking announces what is due, for the events stored in time.
Anunciados ==
  \A c \in aTiempo, m \in Inicios : memoria[c] = m =>
    /\ m \in revisados => <<c, m, "exacta">> \in avisos \cup porDar
    /\ m - 5 \in revisados => <<c, m, "cinco">> \in avisos \cup porDar

\* The reminders to be posted are those of the list and the minute of the look.
Pendientes ==
  \A a \in porDar : /\ a[1] \in Citas /\ a[2] = leida[a[1]]
                    /\ a[3] = "exacta" => a[2] = ahora
                    /\ a[3] = "cinco" => a[2] = ahora + 5

\* Each reminder was given in a minute that was looked at, and once.
Oportunos ==
  /\ \A a \in avisos \cup porDar : /\ a[3] = "exacta" => a[2] \in revisados
                                   /\ a[3] = "cinco" => a[2] - 5 \in revisados
  /\ avisos \cap porDar = {}

IInv ==
  /\ TypeOK /\ Desfase /\ Turno /\ Historia
  /\ Deriva /\ Separados
  /\ Reciente /\ Anunciados /\ Pendientes /\ Oportunos

-----------------------------------------------------------------------------
(* Each step keeps it.                                                     *)

\* What a list has is minutes.
LEMMA ListaDeMinutos ==
  ASSUME NEW l \in Listas, NEW c \in Citas, l[c] # Nada
  PROVE  l[c] \in Int
<1>1. l[c] \in Inicios
  OBVIOUS
<1>2. Inicios \subseteq Int
  BY DEF Minutos
<1> QED
  BY <1>1, <1>2

LEMMA IInvInicial == Init => IInv
<1> SUFFICES ASSUME Init PROVE IInv
  OBVIOUS
<1>1. TypeOK
  BY DEF Init, TypeOK, Minutos
<1>2. Desfase /\ Turno /\ Historia /\ Reciente /\ Anunciados /\ Pendientes /\ Oportunos
  BY DEF Init, Desfase, Turno, Historia, Reciente, Anunciados, Pendientes, Oportunos, Minutos
<1>3. \A m : ~ Perdido(m)
  BY DEF Init, Perdido
<1> QED
  BY <1>1, <1>2, <1>3 DEF IInv, Deriva, Separados

\* The window opens, or time passes, or the list changes: no look is made.
LEMMA SinMirar ==
  ASSUME IInv, UNCHANGED <<ahora, segAhora, revisados>>
  PROVE  Deriva' /\ Separados'
BY DEF IInv, Deriva, Separados, Perdido

LEMMA ArrancarPaso == IInv /\ Arrancar => IInv'
<1> SUFFICES ASSUME IInv, Arrancar PROVE IInv'
  OBVIOUS
<1> USE DEF IInv, Arrancar, reloj, mirada, lista
<1>1. TypeOK'
  BY DEF TypeOK, Minutos
<1>2. Desfase' /\ Turno' /\ Historia' /\ Reciente'
  BY DEF Desfase, Turno, Historia, Reciente
<1>3. Deriva' /\ Separados'
  BY SinMirar
<1>4. Anunciados' /\ Pendientes' /\ Oportunos'
  BY DEF Anunciados, Pendientes, Oportunos
<1> QED
  BY <1>1, <1>2, <1>3, <1>4

LEMMA LeerPaso == IInv /\ Leer => IInv'
<1> SUFFICES ASSUME IInv, Leer PROVE IInv'
  OBVIOUS
<1> USE DEF IInv, Leer, reloj, lista
<1>1. TypeOK'
  BY DEF TypeOK
<1>2. Desfase' /\ Turno' /\ Historia' /\ Reciente'
  BY DEF Desfase, Turno, Historia, Reciente
<1>3. Deriva' /\ Separados'
  BY SinMirar
<1>4. Anunciados' /\ Pendientes' /\ Oportunos'
  BY DEF Anunciados, Pendientes, Oportunos
<1> QED
  BY <1>1, <1>2, <1>3, <1>4

LEMMA PublicarPaso ==
  ASSUME IInv, NEW a \in Avisos, Publicar(a)
  PROVE  IInv'
<1> USE DEF IInv, Publicar, reloj, lista
<1>1. TypeOK'
  BY DEF TypeOK
<1>2. Desfase' /\ Turno' /\ Historia' /\ Reciente'
  BY DEF Desfase, Turno, Historia, Reciente
<1>3. Deriva' /\ Separados'
  BY SinMirar
<1>4. avisos' \cup porDar' = avisos \cup porDar
  OBVIOUS
<1>5. Anunciados' /\ Pendientes' /\ Oportunos'
  BY <1>4 DEF Anunciados, Pendientes, Oportunos
<1> QED
  BY <1>1, <1>2, <1>3, <1>5

LEMMA ActualizarPaso ==
  ASSUME IInv, NEW l \in Listas, Actualizar(l)
  PROVE  IInv'
<1> USE DEF IInv, Actualizar, reloj, hilo, mirada
<1>1. TypeOK' /\ Desfase' /\ Turno' /\ Historia' /\ Pendientes' /\ Oportunos'
  BY DEF TypeOK, Desfase, Turno, Historia, Pendientes, Oportunos
<1>2. Deriva' /\ Separados'
  BY SinMirar
<1>3. /\ \A c \in Citas : memoria[c] # Nada => memoria[c] \in Int
      /\ \A c \in Citas : l[c] # Nada => l[c] \in Int
      /\ minuto \in Int /\ \A r \in revisados : r <= minuto /\ r \in Int
  <2>1. \A c \in Citas : memoria[c] # Nada => memoria[c] \in Int
    BY ListaDeMinutos DEF TypeOK
  <2>2. \A c \in Citas : l[c] # Nada => l[c] \in Int
    BY ListaDeMinutos
  <2>3. minuto \in Int /\ \A r \in revisados : r <= minuto /\ r \in Int
    BY DEF TypeOK, Historia, Minutos
  <2> QED
    BY <2>1, <2>2, <2>3
<1>4. \A c \in Citas : /\ memoria'[c] = l[c]
                       /\ l[c] = memoria[c] => (c \in aTiempo' <=> c \in aTiempo)
                       /\ l[c] # memoria[c] =>
                            (c \in aTiempo' <=> l[c] # Nada /\ minuto < l[c] - 6)
  BY <1>3 DEF EnTiempo, Antelacion
<1>5. Reciente'
  BY <1>3, <1>4 DEF Reciente
<1>6. Anunciados'
  <2> SUFFICES ASSUME NEW x \in aTiempo', NEW m \in Inicios, memoria'[x] = m
               PROVE  /\ m \in revisados => <<x, m, "exacta">> \in avisos \cup porDar
                      /\ m - 5 \in revisados => <<x, m, "cinco">> \in avisos \cup porDar
    BY DEF Anunciados
  <2>1. x \in Citas /\ m \in Int
    BY DEF Minutos
  <2>2. CASE l[x] = memoria[x]
    BY <1>4, <2>1, <2>2 DEF Anunciados
  <2>3. CASE l[x] # memoria[x]
    BY <1>3, <1>4, <2>1, <2>3
  <2> QED
    BY <2>2, <2>3
<1> QED
  BY <1>1, <1>2, <1>5, <1>6

LEMMA TerminarPaso == IInv /\ Terminar => IInv'
<1> SUFFICES ASSUME IInv, Terminar PROVE IInv'
  OBVIOUS
<1> USE DEF IInv, Terminar, reloj, mirada, lista
<1>1. TypeOK' /\ Desfase' /\ Turno' /\ Historia'
  BY DEF TypeOK, Desfase, Turno, Historia
<1>2. Deriva' /\ Separados'
  BY SinMirar
<1>3. Reciente' /\ Anunciados' /\ Pendientes' /\ Oportunos'
  BY DEF Reciente, Anunciados, Pendientes, Oportunos
<1> QED
  BY <1>1, <1>2, <1>3

LEMMA TictacPaso == IInv /\ Tictac => IInv'
<1> SUFFICES ASSUME IInv, Tictac PROVE IInv'
  OBVIOUS
<1> USE DEF IInv, Tictac, mirada, lista
<1>0. /\ minuto \in Int /\ ahora \in Int /\ seg \in 0 .. K - 1 /\ segAhora \in 0 .. K - 1
      /\ falta \in 0 .. K /\ atraso \in 0 .. Retraso
      /\ K \in Int /\ Retraso \in Int /\ 0 <= Retraso /\ Retraso < K
  BY DEF TypeOK, Minutos
<1>1. TypeOK'
  BY DEF TypeOK, Minutos, Duerme
<1>2. \/ seg' = seg + 1 /\ minuto' = minuto
      \/ seg' = 0 /\ seg = K - 1 /\ minuto' = minuto + 1
  BY <1>0
<1>3. Desfase'
  <2> SUFFICES ASSUME revisados # {} PROVE Desfase'
    BY DEF Desfase
  <2>1. ahora' = ahora /\ segAhora' = segAhora
    OBVIOUS
  <2>2. \/ falta' = falta - 1 /\ falta > 0 /\ atraso' = atraso
        \/ falta' = falta /\ atraso < Retraso /\ atraso' = atraso + 1
    BY DEF Turno, Duerme
  <2>3. CASE seg' = seg + 1 /\ minuto' = minuto
    BY <1>0, <2>1, <2>2, <2>3 DEF Desfase
  <2>4. CASE seg' = 0 /\ seg = K - 1 /\ minuto' = minuto + 1
    BY <1>0, <2>1, <2>2, <2>4 DEF Desfase
  <2> QED
    BY <1>2, <2>3, <2>4
<1>4. Turno'
  BY DEF Turno, Duerme
<1>5. Historia'
  BY DEF TypeOK, Historia, Minutos
<1>6. Deriva' /\ Separados'
  BY SinMirar
<1>7. Reciente'
  <2> SUFFICES ASSUME NEW c \in Citas, memoria[c] # Nada \/ c \in aTiempo
               PROVE  /\ memoria[c] # Nada /\ minuto' < memoria[c] - 6 => c \in aTiempo
                      /\ fase = "leida" /\ leida[c] # memoria[c] /\ c \in aTiempo =>
                           /\ memoria[c] # Nada
                           /\ \/ minuto' < memoria[c] - 6
                              \/ minuto' = memoria[c] - 6 /\ seg' < atraso'
    BY DEF Reciente
  <2>1. fase = "leida" => atraso < Retraso /\ atraso' = atraso + 1
    BY DEF Duerme
  <2>2. /\ memoria[c] # Nada /\ minuto < memoria[c] - 6 => c \in aTiempo
        /\ fase = "leida" /\ leida[c] # memoria[c] /\ c \in aTiempo =>
             /\ memoria[c] # Nada
             /\ \/ minuto < memoria[c] - 6
                \/ minuto = memoria[c] - 6 /\ seg < atraso
    BY DEF Reciente
  <2>3. memoria[c] # Nada => memoria[c] \in Int
    BY ListaDeMinutos DEF TypeOK
  <2> QED
    BY <1>0, <1>2, <2>1, <2>2, <2>3
<1>8. Anunciados' /\ Pendientes' /\ Oportunos'
  BY DEF Anunciados, Pendientes, Oportunos
<1> QED
  BY <1>1, <1>3, <1>4, <1>5, <1>6, <1>7, <1>8

\* When the thread takes the clock, it is one or two minutes after the last look.
LEMMA AlMirar ==
  ASSUME IInv, Mirar
  PROVE  /\ minuto \in Int /\ ahora \in Int /\ seg \in 0 .. K - 1 /\ segAhora \in 0 .. K - 1
         /\ revisados = {} \/ ahora \in revisados
         /\ revisados # {} =>
              \/ minuto = ahora + 1 /\ seg <= segAhora + Retraso
              \/ minuto = ahora + 2 /\ seg < Retraso /\ segAhora + Retraso >= K
         /\ minuto \notin revisados
<1>1. /\ minuto \in Int /\ ahora \in Int /\ seg \in 0 .. K - 1 /\ segAhora \in 0 .. K - 1
      /\ falta = 0 /\ atraso \in 0 .. Retraso
      /\ K \in Nat /\ Retraso \in Nat /\ Retraso < K
  BY DEF IInv, TypeOK, Minutos, Turno, Mirar
<1>2. revisados # {} =>
        \/ minuto = ahora     /\ K - falta + atraso = seg - segAhora
        \/ minuto = ahora + 1 /\ K - falta + atraso = seg - segAhora + K
        \/ minuto = ahora + 2 /\ K - falta + atraso = seg - segAhora + K + K
  BY DEF IInv, Desfase, Mirar
<1>3. revisados # {} =>
        \/ minuto = ahora + 1 /\ seg <= segAhora + Retraso
        \/ minuto = ahora + 2 /\ seg < Retraso /\ segAhora + Retraso >= K
  BY <1>1, <1>2
<1>4. revisados = {} \/ ahora \in revisados
  BY DEF IInv, Historia
<1>5. minuto \notin revisados
  BY <1>1, <1>3 DEF IInv, Historia
<1> QED
  BY <1>1, <1>3, <1>4, <1>5

\* The only minute that a look can add to the missed ones is the one after the
\* look before.
LEMMA PerdidoNuevo ==
  ASSUME IInv, Mirar, NEW m \in Int, Perdido(m)'
  PROVE  revisados # {} /\ (Perdido(m) \/ (m = ahora + 1 /\ minuto = ahora + 2))
<1>1. /\ m \notin revisados /\ m # minuto /\ m < minuto
      /\ \E r \in revisados : r < m
  BY AlMirar DEF Mirar, Perdido
<1>2. ahora \in revisados
  BY <1>1, AlMirar
<1> QED
  BY <1>1, <1>2, AlMirar DEF Perdido

\* Delays add up.
LEMMA UnRetrasoMas ==
  ASSUME NEW i \in Pasos
  PROVE  /\ i * Retraso \in Int
         /\ (i + 1) * Retraso = i * Retraso + Retraso
BY DEF Pasos

LEMMA UnRetraso ==
  ASSUME NEW i \in Pasos
  PROVE  Retraso <= i * Retraso
<1>1. CASE i = 1
  BY <1>1
<1>2. CASE i # 1
  <2> DEFINE k == i - 1
  <2>1. k \in Nat /\ i = k + 1
    BY <1>2 DEF Pasos
  <2> HIDE DEF k
  <2>2. i * Retraso = k * Retraso + Retraso /\ k * Retraso \in Nat
    BY <2>1
  <2> QED
    BY <2>2
<1> QED
  BY <1>1, <1>2

LEMMA MirarPaso == IInv /\ Mirar => IInv'
<1> SUFFICES ASSUME IInv, Mirar PROVE IInv'
  OBVIOUS
<1>0. /\ ahora' = minuto /\ segAhora' = seg /\ falta' = K /\ atraso' = 0 /\ fase' = "bucle"
      /\ revisados' = revisados \cup {minuto} /\ porDar' = Debidos(leida, minuto)
      /\ UNCHANGED <<minuto, seg, lista, leida, avisos>>
  BY DEF Mirar, reloj, lista
<1>1. \A a \in porDar' : /\ a \in Avisos /\ a[2] = leida[a[1]]
                         /\ a[3] = "exacta" => a[2] = minuto
                         /\ a[3] = "cinco" => a[2] = minuto + 5
  <2>1. minuto \in Int /\ minuto + 5 \in Int
    BY AlMirar
  <2>2. \A c \in Citas : leida[c] \in Int => leida[c] \in Inicios
    BY DEF IInv, TypeOK
  <2> QED
    BY <1>0, <2>1, <2>2 DEF Debidos, Avisos, Tipos, Antelacion
<1>2. TypeOK'
  BY <1>0, <1>1 DEF IInv, TypeOK, lista
<1>3. Desfase' /\ Turno' /\ Historia' /\ Reciente'
  <2>1. minuto \in Int /\ seg \in Int /\ K \in Int
    BY AlMirar
  <2>2. \A r \in revisados : r <= minuto
    BY AlMirar DEF IInv, Historia, TypeOK, Minutos
  <2> QED
    BY <1>0, <2>1, <2>2 DEF Desfase, Turno, Historia, Reciente, IInv, lista
<1>4. Deriva'
  <2> SUFFICES ASSUME NEW i \in Pasos, NEW k \in Int, k = minuto - i, Perdido(k)'
               PROVE  seg < i * Retraso
    <3>1. \A i \in Pasos : ahora' - i \in Int
      BY <1>0, AlMirar DEF Pasos
    <3> QED
      BY <1>0, <3>1 DEF Deriva, Perdido
  <2>1. revisados # {} /\ (Perdido(k) \/ (k = ahora + 1 /\ minuto = ahora + 2))
    BY PerdidoNuevo
  <2>2. CASE minuto = ahora + 2
    <3>1. seg < Retraso
      BY <2>1, <2>2, AlMirar
    <3>2. Retraso <= i * Retraso /\ i * Retraso \in Int
      BY UnRetraso, UnRetrasoMas
    <3> QED
      BY <3>1, <3>2, AlMirar
  <2>3. CASE minuto = ahora + 1
    <3>1. Perdido(k) /\ k = ahora + 1 - i
      BY <2>1, <2>3, AlMirar DEF Pasos
    <3>2. i # 1
      BY <2>1, <3>1, AlMirar DEF Perdido, IInv, Historia
    <3>3. PICK j \in Pasos : i = j + 1
      <4>1. i - 1 \in Pasos /\ i = (i - 1) + 1
        BY <3>2 DEF Pasos
      <4> QED
        BY <4>1
    <3>4. k = ahora - j
      BY <3>1, <3>3, AlMirar DEF Pasos
    <3>5. segAhora < j * Retraso
      BY <3>1, <3>4 DEF IInv, Deriva
    <3>6. i * Retraso = j * Retraso + Retraso /\ j * Retraso \in Int
      BY <3>3, UnRetrasoMas
    <3>7. seg <= segAhora + Retraso
      BY <2>1, <2>3, AlMirar
    <3> QED
      BY <3>5, <3>6, <3>7, AlMirar
  <2> QED
    BY <2>1, <2>2, <2>3, AlMirar
<1>5. Separados'
  <2> SUFFICES ASSUME NEW n \in Pasos, n * Retraso <= K,
                      NEW m \in Int, Perdido(m)', Perdido(m + n)'
               PROVE  FALSE
    BY <1>0 DEF Separados
  <2>1. m + n \in Int /\ n \in Int /\ n >= 1
    BY DEF Pasos
  <2>2. Perdido(m) \/ (m = ahora + 1 /\ minuto = ahora + 2)
    BY PerdidoNuevo
  <2>3. Perdido(m + n) \/ (m + n = ahora + 1 /\ minuto = ahora + 2)
    BY <2>1, PerdidoNuevo
  <2>4. m + n < minuto /\ revisados # {} /\ ahora \in revisados
    <3>1. revisados # {}
      BY <2>1, PerdidoNuevo
    <3> QED
      BY <1>0, <3>1, AlMirar DEF Perdido
  <2>5. CASE m = ahora + 1 /\ minuto = ahora + 2
    BY <2>1, <2>4, <2>5, AlMirar
  <2>6. CASE Perdido(m) /\ Perdido(m + n)
    BY <2>6 DEF IInv, Separados
  <2>7. CASE Perdido(m) /\ m + n = ahora + 1 /\ minuto = ahora + 2
    <3>1. n # 1
      BY <2>4, <2>7, AlMirar DEF Perdido
    <3>2. PICK i \in Pasos : n = i + 1
      <4>1. n - 1 \in Pasos /\ n = (n - 1) + 1
        BY <3>1 DEF Pasos
      <4> QED
        BY <4>1
    <3>3. m = ahora - i
      BY <2>7, <3>2, AlMirar DEF Pasos
    <3>4. segAhora < i * Retraso
      BY <2>7, <3>3 DEF IInv, Deriva
    <3>5. n * Retraso = i * Retraso + Retraso /\ i * Retraso \in Int
      BY <3>2, UnRetrasoMas
    <3>6. segAhora + Retraso >= K
      BY <2>4, <2>7, AlMirar
    <3> QED
      BY <3>4, <3>5, <3>6, AlMirar
  <2> QED
    BY <2>2, <2>3, <2>5, <2>6, <2>7
<1>6. Anunciados'
  <2> SUFFICES ASSUME NEW c \in aTiempo, NEW m \in Inicios, memoria[c] = m
               PROVE  /\ m \in revisados \cup {minuto} => <<c, m, "exacta">> \in avisos \cup porDar'
                      /\ m - 5 \in revisados \cup {minuto} =>
                           <<c, m, "cinco">> \in avisos \cup porDar'
    BY <1>0 DEF Anunciados, lista
  <2>1. porDar = {}
    BY DEF IInv, Turno, Mirar
  <2>2. /\ m \in revisados => <<c, m, "exacta">> \in avisos
        /\ m - 5 \in revisados => <<c, m, "cinco">> \in avisos
    BY <2>1 DEF IInv, Anunciados
  <2>3. c \in Citas /\ m \in Int /\ minuto \in Int
    BY AlMirar DEF IInv, TypeOK, Minutos
  <2>4. m - 6 < minuto => leida[c] = m
    BY <2>3 DEF IInv, Reciente, Mirar
  <2>5. m = minuto => <<c, m, "exacta">> \in Debidos(leida, minuto)
    BY <2>3, <2>4 DEF Debidos
  <2>6. m - 5 = minuto => <<c, m, "cinco">> \in Debidos(leida, minuto)
    BY <2>3, <2>4 DEF Debidos, Antelacion
  <2> QED
    BY <1>0, <2>2, <2>5, <2>6
<1>7. Pendientes'
  BY <1>0, <1>1 DEF Pendientes, Avisos
<1>8. Oportunos'
  <2>1. \A a \in porDar' : /\ a[3] = "exacta" => a[2] = minuto
                           /\ a[3] = "cinco" => a[2] - 5 = minuto
                           /\ a[3] \in Tipos
    BY <1>1, AlMirar DEF Avisos
  <2>2. minuto \notin revisados
    BY AlMirar
  <2> QED
    BY <1>0, <2>1, <2>2 DEF IInv, Oportunos, Tipos
<1> QED
  BY <1>2, <1>3, <1>4, <1>5, <1>6, <1>7, <1>8 DEF IInv

LEMMA IInvPaso == IInv /\ [Next]_vars => IInv'
<1>1. IInv /\ UNCHANGED vars => IInv'
  BY DEF vars, reloj, hilo, mirada, lista, IInv, TypeOK, Desfase, Turno, Historia, Deriva,
         Separados, Perdido, Reciente, Anunciados, Pendientes, Oportunos
<1> QED
  BY <1>1, ArrancarPaso, LeerPaso, MirarPaso, PublicarPaso, ActualizarPaso, TerminarPaso,
     TictacPaso DEF Next

LEMMA IInvSiempre == Spec => []IInv
BY IInvInicial, IInvPaso, PTL DEF Spec

-----------------------------------------------------------------------------
(* The theorems.                                                           *)

\* Every variable keeps its type: above all, no look is more than a sleep and
\* a delay after the one before.
THEOREM TipoCorrecto == Spec => []TypeOK
BY IInvSiempre, PTL DEF IInv

\* However late the thread is and however early its first wait ends, it never
\* looks twice at one minute nor gives a reminder again.
THEOREM NuncaDosVecesSiempre == Spec => NuncaDosVeces
<1>1. ASSUME IInv, IInv', [Next]_vars, fase = "leida", fase' = "bucle"
      PROVE  minuto \notin revisados /\ porDar' \cap avisos = {}
  <2>1. Mirar
    BY <1>1 DEF Next, vars, hilo, Arrancar, Leer, Publicar, Actualizar, Terminar, Tictac
  <2>2. avisos' = avisos
    BY <2>1 DEF Mirar
  <2> QED
    BY <1>1, <2>1, <2>2, AlMirar DEF IInv, Oportunos
<1>2. IInv /\ IInv' /\ [Next]_vars =>
        [fase = "leida" /\ fase' = "bucle"
           => minuto \notin revisados /\ porDar' \cap avisos = {}]_vars
  BY <1>1
<1> QED
  BY <1>2, IInvSiempre, PTL DEF Spec, NuncaDosVeces

\* However the delays fall, two missed minutes are farther apart than the
\* minutes that it takes for delays to add up to one.
THEOREM PerdidosEspaciadosSiempre == Spec => []PerdidosEspaciados
<1>1. IInv => PerdidosEspaciados
  BY DEF IInv, Separados, PerdidosEspaciados, Perdidos, Perdido, Minutos, Pasos
<1> QED
  BY <1>1, IInvSiempre, PTL

\* "Verifica cada minuto" would hold if the sleeps were exact: what the code
\* lacks is nothing but the correction of the delays.
THEOREM SinRetrasoVerifica == Retraso = 0 => (Spec => []VerificaCadaMinuto)
<1> SUFFICES ASSUME Retraso = 0 PROVE Spec => []VerificaCadaMinuto
  OBVIOUS
<1>1. IInv => VerificaCadaMinuto
  <2> SUFFICES ASSUME IInv, NEW m \in Perdidos PROVE FALSE
    BY DEF VerificaCadaMinuto
  <2>1. m \in Int /\ ahora \in Int /\ m < ahora /\ Perdido(m)
    BY DEF Perdidos, Perdido, Minutos, IInv, TypeOK
  <2>2. PICK i \in Pasos : m = ahora - i
    <3>1. ahora - m \in Pasos /\ m = ahora - (ahora - m)
      BY <2>1 DEF Pasos
    <3> QED
      BY <3>1
  <2>3. segAhora < i * Retraso /\ i * Retraso = 0
    BY <2>1, <2>2 DEF IInv, Deriva, Pasos
  <2> QED
    BY <2>3 DEF IInv, TypeOK
<1> QED
  BY <1>1, IInvSiempre, PTL

\* Delays of at most a fifth of a minute never lose both reminders of an event
\* that was in memory in time, although list, minute and posts are three steps.
THEOREM UnAvisoSeguroSiempre == Spec => []UnAvisoSeguro
<1>1. IInv => UnAvisoSeguro
  <2> SUFFICES ASSUME IInv, 5 * Retraso <= K,
                      NEW c \in aTiempo, NEW m \in Inicios, memoria[c] = m,
                      NEW r \in revisados, r <= m - 5, m < ahora
               PROVE  <<c, m, "cinco">> \in avisos \/ <<c, m, "exacta">> \in avisos
    BY DEF UnAvisoSeguro, Antelacion
  <2>1. m \in Int /\ m - 5 \in Int /\ (m - 5) + 5 = m /\ r \in Int /\ ahora \in Int
    BY DEF IInv, TypeOK, Minutos
  <2>2. <<c, m, "cinco">> \notin porDar /\ <<c, m, "exacta">> \notin porDar
    BY <2>1 DEF IInv, Pendientes
  <2>3. CASE m - 5 \in revisados
    BY <2>2, <2>3 DEF IInv, Anunciados
  <2>4. CASE m \in revisados
    BY <2>2, <2>4 DEF IInv, Anunciados
  <2>5. CASE m - 5 \notin revisados /\ m \notin revisados
    <3>1. Perdido(m - 5) /\ Perdido(m)
      BY <2>1, <2>5 DEF Perdido
    <3>2. 5 \in Pasos
      BY DEF Pasos
    <3> QED
      BY <2>1, <3>1, <3>2 DEF IInv, Separados
  <2> QED
    BY <2>3, <2>4, <2>5
<1> QED
  BY <1>1, IInvSiempre, PTL

-----------------------------------------------------------------------------
(* The thread implements RecordadorAbstracto.                              *)

\* The list and the reminders as the abstract reminder sees them.
Agendadas == {<<c, leida[c]>> : c \in {x \in Citas : leida[x] # Nada}}
Aviso(r)  == <<r[1], r[2], IF r[3] = "cinco" THEN Antelacion ELSE 0>>
Dados     == {Aviso(r) : r \in avisos}

\* A reminder is posted in the minute of its look or in the next one.
LEMMA AlPublicar ==
  ASSUME IInv, NEW r \in Avisos, Publicar(r)
  PROVE  ahora \in minuto - 1 .. minuto
<1>1. /\ minuto \in Int /\ ahora \in Int /\ seg \in 0 .. K - 1 /\ segAhora \in 0 .. K - 1
      /\ falta = K /\ atraso \in 0 .. Retraso
      /\ K \in Int /\ Retraso \in Int /\ Retraso < K
  BY DEF IInv, TypeOK, Minutos, Turno, Publicar
<1>2. \/ minuto = ahora     /\ K - falta + atraso = seg - segAhora
      \/ minuto = ahora + 1 /\ K - falta + atraso = seg - segAhora + K
      \/ minuto = ahora + 2 /\ K - falta + atraso = seg - segAhora + K + K
  BY DEF IInv, Desfase, Turno, Publicar
<1> QED
  BY <1>1, <1>2

\* It is due in the minute of the look, by the list that the look took.
LEMMA AvisoDebido ==
  ASSUME IInv, NEW r \in porDar
  PROVE  Recordador!Debido(Aviso(r), Agendadas, ahora)
<1>1. /\ r[1] \in Citas /\ r[2] \in Inicios /\ r[3] \in {"exacta", "cinco"}
      /\ r[2] = leida[r[1]]
      /\ r[3] = "exacta" => r[2] = ahora
      /\ r[3] = "cinco" => r[2] = ahora + 5
  BY DEF IInv, TypeOK, Pendientes, Avisos, Tipos
<1>2. <<r[1], r[2]>> \in Agendadas
  <2>1. \A v \in Inicios : v \in Int /\ v # Nada
    BY DEF Minutos
  <2> QED
    BY <1>1, <2>1, Zenon DEF Agendadas
<1>3. ahora \in Int
  BY DEF IInv, TypeOK, Minutos
<1>4. CASE r[3] = "exacta"
  <2>1. Aviso(r) = <<r[1], r[2], 0>>
    BY <1>4 DEF Aviso
  <2> QED
    BY <1>1, <1>2, <1>3, <1>4, <2>1 DEF Recordador!Debido, Recordador!Antelaciones
<1>5. CASE r[3] = "cinco"
  <2>1. Aviso(r) = <<r[1], r[2], 5>>
    BY <1>5 DEF Aviso, Antelacion
  <2> QED
    BY <1>1, <1>2, <1>3, <1>5, <2>1 DEF Recordador!Debido, Recordador!Antelaciones
<1> QED
  BY <1>1, <1>4, <1>5

LEMMA PublicarCumple ==
  ASSUME IInv, NEW x \in Avisos, Publicar(x)
  PROVE  Recordador!Avisar("hilo")
<1> DEFINE A == [a \in {"hilo"} |-> Dados]
           B == [a \in {"hilo"} |-> Dados']
           L == [a \in {"hilo"} |-> Agendadas]
<1>1. Dados' = Dados \cup {Aviso(x)}
  <2>1. avisos' = avisos \cup {x}
    BY DEF Publicar
  <2> QED
    BY <2>1, ZenonT(30) DEF Dados, Aviso
<1>2. A["hilo"] \subseteq B["hilo"] /\ B = [A EXCEPT !["hilo"] = B["hilo"]]
  BY <1>1
<1>3. ASSUME NEW r \in B["hilo"] \ A["hilo"]
      PROVE  \E m \in minuto - 1 .. minuto : Recordador!Debido(r, L["hilo"], m)
  <2>1. x \in porDar /\ r = Aviso(x)
    BY <1>1, <1>3 DEF Publicar
  <2>2. Recordador!Debido(r, L["hilo"], ahora)
    BY <2>1, AvisoDebido
  <2> QED
    BY <2>2, AlPublicar
<1>4. UNCHANGED <<minuto, Agendadas>>
  BY DEF Publicar, reloj, Agendadas
<1> QED
  BY <1>2, <1>3, <1>4 DEF Recordador!Avisar, Dados, Agendadas, Aviso

\* Whatever the delays of the thread and the changes of the list, it only gives
\* reminders of events in the list that it took, in their minute or five before,
\* or in the minute after that.
THEOREM NotificadorCumpleRecordador == Spec => CumpleRecordador
<1>1. Init => Recordador!Init
  BY DEF Init, Recordador!Init
<1>2. ASSUME IInv, [Next]_vars
      PROVE  [Recordador!Next]_(Recordador!vars)
  <2>1. ASSUME NEW a \in Avisos, Publicar(a)
        PROVE  Recordador!Next
    BY <1>2, <2>1, PublicarCumple DEF Recordador!Next
  <2>2. CASE Leer
    <3>1. leida' \in Listas /\ UNCHANGED <<minuto, avisos>>
      BY <1>2, <2>2 DEF Leer, reloj, IInv, TypeOK
    <3>2. Agendadas' \in SUBSET (Citas \X Inicios)
      BY <3>1 DEF Agendadas
    <3>3. Recordador!Cambiar
      BY <3>1, <3>2 DEF Recordador!Cambiar, Agendadas
    <3> QED
      BY <3>3 DEF Recordador!Next
  <2>3. CASE Tictac
    <3>1. UNCHANGED <<leida, avisos>> /\ (minuto' = minuto + 1 \/ UNCHANGED minuto)
      BY <2>3 DEF Tictac, mirada
    <3> QED
      BY <3>1 DEF Recordador!Next, Recordador!Pasar, Recordador!vars
  <2>4. CASE UNCHANGED <<minuto, leida, avisos>>
    BY <2>4 DEF Recordador!vars
  <2>5. Arrancar \/ Mirar \/ Terminar \/ (\E l \in Listas : Actualizar(l)) \/ UNCHANGED vars
          => UNCHANGED <<minuto, leida, avisos>>
    BY DEF Arrancar, Mirar, Terminar, Actualizar, vars, reloj, lista, hilo, mirada
  <2> QED
    BY <1>2, <2>1, <2>2, <2>3, <2>4, <2>5 DEF Next
<1> QED
  BY <1>1, <1>2, IInvSiempre, PTL DEF Spec, CumpleRecordador, Recordador!Spec
=============================================================================
