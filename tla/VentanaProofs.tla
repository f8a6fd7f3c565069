---------------------------- MODULE VentanaProofs ----------------------------
(***************************************************************************)
(* Proofs about Ventana.  Whatever the event thread, the dialogs and the   *)
(* other sessions do, the reminder thread only sees steps of Notificador,  *)
(* so all that is proved of it there is inherited; on top of that, what    *)
(* the user was told is what the list in memory holds, and the pop-ups are *)
(* the reminders, each in one place.                                       *)
(***************************************************************************)
EXTENDS Ventana, NotificadorProofs, SequenceTheorems

USE TiempoAssumption, IniciosAssumption, NadaAssumption, InciertoAssumption DEF Listas

-----------------------------------------------------------------------------
(* Sequences without repetitions.                                          *)

LEMMA AlFinal ==
  ASSUME NEW S, NEW s \in Seq(S), NEW x \in S
  PROVE  /\ Elementos(Append(s, x)) = Elementos(s) \cup {x}
         /\ SinRepetidos(s) /\ x \notin Elementos(s) => SinRepetidos(Append(s, x))
<1> DEFINE t == Append(s, x)
<1>1. /\ t \in Seq(S) /\ Len(t) = Len(s) + 1 /\ t[Len(s) + 1] = x
      /\ \A i \in 1 .. Len(s) : t[i] = s[i]
  BY AppendProperties
<1>2. Len(s) \in Nat /\ DOMAIN s = 1 .. Len(s) /\ DOMAIN t = 1 .. Len(s) + 1
  BY <1>1, LenProperties
<1> HIDE DEF t
<1>3. Elementos(t) = Elementos(s) \cup {x}
  BY <1>1, <1>2 DEF Elementos
<1>4. SinRepetidos(s) /\ x \notin Elementos(s) => SinRepetidos(t)
  BY <1>1, <1>2 DEF Elementos, SinRepetidos
<1> QED
  BY <1>3, <1>4 DEF t

LEMMA PorDelante ==
  ASSUME NEW S, NEW s \in Seq(S), s # <<>>
  PROVE  /\ Head(s) \in S /\ Tail(s) \in Seq(S)
         /\ Elementos(s) = {Head(s)} \cup Elementos(Tail(s))
         /\ SinRepetidos(s) => SinRepetidos(Tail(s)) /\ Head(s) \notin Elementos(Tail(s))
<1> DEFINE t == Tail(s)
<1>1. /\ Head(s) \in S /\ t \in Seq(S) /\ Len(t) = Len(s) - 1
      /\ \A i \in 1 .. Len(t) : t[i] = s[i + 1]
  BY HeadTailProperties
<1>2. Len(s) \in Nat \ {0} /\ DOMAIN s = 1 .. Len(s) /\ DOMAIN t = 1 .. Len(s) - 1
  BY <1>1, LenProperties, EmptySeq
<1>3. Head(s) = s[1]
  OBVIOUS
<1> HIDE DEF t
<1>4. \A i \in DOMAIN t : i + 1 \in DOMAIN s /\ i + 1 # 1 /\ s[i + 1] = t[i]
  BY <1>1, <1>2
<1>5. \A i \in DOMAIN s : i = 1 \/ (i - 1 \in DOMAIN t /\ t[i - 1] = s[i])
  BY <1>1, <1>2
<1>6. Elementos(s) = {s[1]} \cup Elementos(t)
  <2>1. 1 \in DOMAIN s
    BY <1>2
  <2> QED
    BY <1>4, <1>5, <2>1 DEF Elementos
<1>7. ASSUME SinRepetidos(s)
      PROVE  SinRepetidos(t) /\ s[1] \notin Elementos(t)
  <2>1. ASSUME NEW i \in DOMAIN t, NEW j \in DOMAIN t, t[i] = t[j]
        PROVE  i = j
    <3>1. i + 1 = j + 1
      BY <1>4, <1>7, <2>1 DEF SinRepetidos
    <3> QED
      BY <1>2, <3>1
  <2>2. ASSUME NEW i \in DOMAIN t, t[i] = s[1]
        PROVE  FALSE
    <3>1. 1 \in DOMAIN s
      BY <1>2
    <3> QED
      BY <1>4, <1>7, <2>2, <3>1 DEF SinRepetidos
  <2> QED
    BY <2>1, <2>2 DEF SinRepetidos, Elementos
<1> QED
  BY <1>1, <1>3, <1>6, <1>7 DEF t

LEMMA PorDetras ==
  ASSUME NEW S, NEW s \in Seq(S), s # <<>>
  PROVE  /\ s[Len(s)] \in S /\ SubSeq(s, 1, Len(s) - 1) \in Seq(S)
         /\ Elementos(s) = Elementos(SubSeq(s, 1, Len(s) - 1)) \cup {s[Len(s)]}
         /\ SinRepetidos(s) => /\ SinRepetidos(SubSeq(s, 1, Len(s) - 1))
                               /\ s[Len(s)] \notin Elementos(SubSeq(s, 1, Len(s) - 1))
<1> DEFINE n == Len(s)
           t == SubSeq(s, 1, n - 1)
<1>1. n \in Nat \ {0} /\ DOMAIN s = 1 .. n /\ \A i \in 1 .. n : s[i] \in S
  BY LenProperties, EmptySeq, ElementOfSeq
<1>2. /\ t \in Seq(S) /\ Len(t) = n - 1
      /\ \A i \in 1 .. n - 1 : t[i] = s[i]
  <2>1. \A i \in 1 .. n - 1 : s[i] \in S
    BY <1>1
  <2>2. /\ t \in Seq(S) /\ Len(t) = IF 1 <= n - 1 THEN (n - 1) - 1 + 1 ELSE 0
        /\ \A i \in 1 .. (n - 1) - 1 + 1 : t[i] = s[1 + i - 1]
    BY <1>1, <2>1, SubSeqProperties
  <2> HIDE DEF t, n
  <2> QED
    BY <1>1, <2>2
<1>3. DOMAIN t = 1 .. n - 1
  BY <1>2, LenProperties
<1> HIDE DEF t, n
<1>4. Elementos(s) = Elementos(t) \cup {s[n]}
  BY <1>1, <1>2, <1>3 DEF Elementos
<1>5. SinRepetidos(s) => SinRepetidos(t) /\ s[n] \notin Elementos(t)
  BY <1>1, <1>2, <1>3 DEF Elementos, SinRepetidos
<1> QED
  BY <1>1, <1>2, <1>4, <1>5 DEF t, n

-----------------------------------------------------------------------------
(* The inductive invariant.                                                *)

Etapas == {"login", "entrando", "libre", "dialogo", "refrescar", "mensaje", "fin"}

\* The event thread starts the reminder thread, and ends with it.
Hilos ==
  /\ eventos \in Listas
  /\ edt \in Etapas
  /\ edt \in {"login", "entrando"} <=> fase = "sin_ventana"
  /\ edt = "fin" <=> fase = "fin"

\* What the user was told is in the table and in memory, and if it was told in
\* time it was stored in time.
Fiel ==
  /\ porDecir \subseteq Citas /\ prometidos \subseteq Citas
  /\ dicho \in [Citas -> Inicios \cup {Nada, Incierto}]
  /\ \A c \in Citas : dicho[c] # Incierto => dicho[c] = memoria[c] /\ memoria[c] = eventos[c]
  /\ \A c \in prometidos : dicho[c] # Incierto /\ c \in aTiempo
  /\ edt = "entrando" => \A c \in porDecir : memoria[c] = eventos[c]
  /\ edt \in {"login", "entrando"} => \A c \in Citas : dicho[c] = Incierto

\* The reminders under way say what the user was last told, or were contradicted.
Advertidos ==
  /\ desmentidos \subseteq Avisos
  /\ \A a \in EnCamino : dicho[a[1]] \in {a[2], Incierto} \/ a \in desmentidos

\* The pop-ups are the reminders.
Colas ==
  /\ cola \in Seq(avisos) /\ pila \in Seq(avisos) /\ vistos \subseteq avisos
  /\ pila # <<>> => Atiende
  /\ EnUnSitio

VInv == IInv /\ Hilos /\ Fiel /\ Advertidos /\ Colas

-----------------------------------------------------------------------------
(* The reminder thread only sees steps of Notificador.                     *)

LEMMA CiertoEnListas ==
  ASSUME NEW l \in Listas, NEW c \in Citas
  PROVE  l[c] # Incierto
<1>1. l[c] = Nada \/ l[c] \in Int
  BY ListaDeMinutos
<1> QED
  BY <1>1

LEMMA VaciaEnListas == Vacia \in Listas
BY DEF Vacia

\* A step of the event thread after the login, or of another session, that does
\* not touch the thread nor its list.
LEMMA AlmacenarPaso ==
  ASSUME NEW l \in Listas, Almacenar(l)
  PROVE  /\ [Next]_vars /\ UNCHANGED <<reloj, hilo>> /\ memoria' = l
         /\ \A c \in Citas : l[c] = memoria[c] => (c \in aTiempo' <=> c \in aTiempo)
BY DEF Almacenar, Actualizar, Next, vars, lista, reloj, hilo

LEMMA PasoDelHilo ==
  ASSUME eventos \in Listas, [VNext]_vvars
  PROVE  [Next]_vars
<1>1. CASE Ingresar
  BY <1>1, VaciaEnListas, AlmacenarPaso DEF Ingresar
<1>2. CASE AbrirVentana
  BY <1>2 DEF AbrirVentana, Next
<1>3. CASE Refrescar
  BY <1>3, VaciaEnListas, AlmacenarPaso DEF Refrescar
<1>4. CASE Salir
  BY <1>4 DEF Salir, Next
<1>5. CASE LeerLista \/ MirarReloj \/ \E a \in Avisos : PublicarPopup(a)
  BY <1>5 DEF LeerLista, MirarReloj, PublicarPopup, Next
<1>6. CASE Pasar
  BY <1>6 DEF Pasar, Next
<1>7. CASE FallarSesion \/ AbrirDialogo \/ Cancelar \/ AceptarMensaje \/ Mostrar \/ Aceptar
  BY <1>7 DEF FallarSesion, AbrirDialogo, Cancelar, AceptarMensaje, Mostrar, Aceptar
<1>8. ASSUME NEW c \in Citas, NEW m \in Inicios, GuardarNuevo(c, m) PROVE [Next]_vars
  BY <1>8 DEF GuardarNuevo
<1>9. ASSUME NEW o \in Inicios, NEW v \in Inicios \cup {Nada}, GuardarCambio(o, v)
      PROVE  [Next]_vars
  BY <1>9 DEF GuardarCambio
<1>10. ASSUME NEW t \in Listas, OtraSesion(t) PROVE [Next]_vars
  BY <1>10 DEF OtraSesion
<1>11. CASE UNCHANGED vvars
  BY <1>11 DEF vvars
<1> QED
  BY <1>1, <1>2, <1>3, <1>4, <1>5, <1>6, <1>7, <1>8, <1>9, <1>10, <1>11 DEF VNext

\* What a write leaves, whether it was done or not.
LEMMA EscribirPaso ==
  ASSUME Hilos, Fiel, NEW S \in SUBSET Citas, NEW t \in Listas,
         \A c \in Citas \ S : t[c] = eventos[c],
         edt = "dialogo", Escribir(S, t), UNCHANGED vars
  PROVE  Hilos' /\ Fiel' /\ edt' \in {"refrescar", "mensaje"}
<1>1. edt' \in {"refrescar", "mensaje"} /\ eventos' \in Listas
  BY DEF Escribir, Hilos
<1>2. Hilos'
  BY <1>1 DEF Hilos, Etapas, vars, hilo
<1>3. CASE Desdecir(S) /\ eventos' = t /\ porDecir' \subseteq Citas
  BY <1>1, <1>2, <1>3 DEF Fiel, Desdecir, vars, lista
<1>4. CASE UNCHANGED <<eventos, promesa>>
  BY <1>1, <1>2, <1>4 DEF Fiel, vars, lista, promesa
<1>5. porDecir' \subseteq Citas
  BY DEF Escribir, Fiel, promesa
<1> QED
  BY <1>1, <1>2, <1>3, <1>4, <1>5 DEF Escribir

\* What is told in time was stored in time.
LEMMA DecirEnTiempo ==
  ASSUME IInv, NEW c \in Citas, EnTiempo(memoria[c])
  PROVE  c \in aTiempo
<1>1. memoria[c] \in Int /\ minuto \in Int
  BY ListaDeMinutos DEF IInv, TypeOK, EnTiempo, Minutos
<1> QED
  BY <1>1 DEF IInv, Reciente, EnTiempo, Antelacion

LEMMA HilosPaso ==
  ASSUME IInv, IInv', Hilos, Fiel, [VNext]_vvars
  PROVE  Hilos' /\ Fiel'
<1> USE DEF Hilos, Etapas
<1>0. /\ memoria \in Listas
      /\ fase \in {"sin_ventana", "espera", "leida", "bucle", "fin"}
  BY DEF IInv, TypeOK
<1>1. CASE Ingresar
  <2>1. PICK l \in Listas : Almacenar(l) /\ (l = eventos \/ porDecir' = {})
    BY <1>1, VaciaEnListas DEF Ingresar
  <2>2. /\ UNCHANGED hilo /\ memoria' = l
        /\ UNCHANGED <<eventos, dicho, prometidos>>
    BY <1>1, <2>1, AlmacenarPaso DEF Ingresar
  <2>3. porDecir' \subseteq Citas /\ edt = "login" /\ edt' = "entrando"
    BY <1>1 DEF Ingresar
  <2>4. prometidos = {}
    BY <2>3 DEF Fiel
  <2> QED
    BY <2>1, <2>2, <2>3, <2>4 DEF Fiel, hilo
<1>2. CASE AbrirVentana
  <2>1. /\ edt = "entrando" /\ edt' = "libre" /\ fase' = "espera"
        /\ UNCHANGED <<minuto, memoria, aTiempo, eventos>> /\ porDecir' = {}
        /\ dicho' = [c \in Citas |-> IF c \in porDecir THEN memoria[c] ELSE dicho[c]]
        /\ prometidos' = (prometidos \ porDecir) \cup {c \in porDecir : EnTiempo(memoria[c])}
    BY <1>2 DEF AbrirVentana, Arrancar, Decir, reloj, lista
  <2>2. \A c \in prometidos' : c \in aTiempo'
    BY <2>1, DecirEnTiempo DEF Fiel
  <2>3. \A c \in Citas : memoria[c] # Incierto
    BY <1>0, CiertoEnListas
  <2> QED
    BY <1>0, <2>1, <2>2, <2>3 DEF Fiel
<1>3. CASE Refrescar
  <2>1. edt = "refrescar" /\ edt' = "mensaje" /\ eventos' = eventos /\ porDecir' = {}
    BY <1>3 DEF Refrescar
  <2>2. CASE Almacenar(eventos) /\ Decir(porDecir, eventos)
    <3>1. /\ UNCHANGED <<reloj, hilo>> /\ memoria' = eventos
          /\ \A c \in Citas : memoria[c] = eventos[c] => (c \in aTiempo' <=> c \in aTiempo)
      BY <2>2, AlmacenarPaso
    <3>2. /\ dicho' = [c \in Citas |-> IF c \in porDecir THEN eventos[c] ELSE dicho[c]]
          /\ prometidos' = (prometidos \ porDecir) \cup {c \in porDecir : EnTiempo(eventos[c])}
      BY <2>2 DEF Decir
    <3>3. \A c \in porDecir : EnTiempo(eventos[c]) => c \in aTiempo'
      <4>1. \A c \in Citas : EnTiempo(eventos[c]) <=> EnTiempo(memoria[c])'
        BY <3>1 DEF EnTiempo, reloj
      <4>2. \A c \in Citas : EnTiempo(memoria[c])' => c \in aTiempo'
        <5>1. \A c \in Citas : memoria'[c] # Nada => memoria'[c] \in Int
          BY <3>1, ListaDeMinutos
        <5>2. minuto' \in Int
          BY DEF IInv, TypeOK, Minutos
        <5> QED
          BY <5>1, <5>2 DEF IInv, Reciente, EnTiempo, Antelacion
      <4> QED
        BY <4>1, <4>2 DEF Fiel
    <3>4. \A c \in prometidos \ porDecir : c \in aTiempo'
      BY <3>1 DEF Fiel
    <3>5. \A c \in Citas : eventos[c] # Incierto
      BY CiertoEnListas
    <3> QED
      BY <1>0, <2>1, <3>1, <3>2, <3>3, <3>4, <3>5 DEF Fiel, hilo
  <2>3. CASE Almacenar(Vacia) /\ Desdecir(Citas)
    <3>1. UNCHANGED <<reloj, hilo>>
      BY <2>3, VaciaEnListas, AlmacenarPaso
    <3>2. dicho' = [c \in Citas |-> Incierto] /\ prometidos' = {}
      BY <2>3 DEF Desdecir, Fiel
    <3> QED
      BY <1>0, <2>1, <3>1, <3>2 DEF Fiel, reloj, hilo
  <2> QED
    BY <1>3, <2>2, <2>3 DEF Refrescar
<1>4. CASE Salir
  BY <1>4 DEF Salir, Terminar, Fiel, reloj, lista, promesa
<1>5. CASE LeerLista \/ MirarReloj \/ \E a \in Avisos : PublicarPopup(a)
  <2>1. /\ fase' # "sin_ventana" /\ fase # "sin_ventana" /\ fase # "fin" /\ fase' # "fin"
        /\ UNCHANGED <<lista, eventos, edt, porDecir, dicho, prometidos>>
    BY <1>5 DEF LeerLista, MirarReloj, PublicarPopup, Leer, Mirar, Publicar, promesa
  <2> QED
    BY <2>1 DEF Fiel, lista
<1>6. CASE Pasar
  <2>1. UNCHANGED <<fase, lista, eventos, edt, porDecir, dicho, prometidos>>
    BY <1>6 DEF Pasar, Tictac, promesa
  <2> QED
    BY <2>1 DEF Fiel, lista
<1>7. CASE FallarSesion
  BY <1>7 DEF FallarSesion, Fiel, vars, reloj, hilo, lista
<1>8. CASE AbrirDialogo \/ Cancelar \/ AceptarMensaje \/ Mostrar \/ Aceptar
  BY <1>8 DEF AbrirDialogo, Cancelar, AceptarMensaje, Mostrar, Aceptar, Fiel, vars, reloj,
              hilo, lista, promesa
<1>9. ASSUME NEW c \in Citas, NEW m \in Inicios, GuardarNuevo(c, m)
      PROVE  Hilos' /\ Fiel'
  <2>1. [eventos EXCEPT ![c] = m] \in Listas
    OBVIOUS
  <2> QED
    BY <1>9, <2>1, EscribirPaso DEF GuardarNuevo
<1>10. ASSUME NEW o \in Inicios, NEW v \in Inicios \cup {Nada}, GuardarCambio(o, v)
       PROVE  Hilos' /\ Fiel'
  <2> DEFINE S == {c \in Citas : eventos[c] = o}
             t == [c \in Citas |-> IF c \in S THEN v ELSE eventos[c]]
  <2>1. t \in Listas /\ S \in SUBSET Citas /\ \A c \in Citas \ S : t[c] = eventos[c]
    OBVIOUS
  <2>2. edt = "dialogo" /\ Escribir(S, t) /\ UNCHANGED vars
    BY <1>10 DEF GuardarCambio
  <2> HIDE DEF S, t
  <2> QED
    BY <2>1, <2>2, EscribirPaso
<1>11. ASSUME NEW t \in Listas, OtraSesion(t) PROVE Hilos' /\ Fiel'
  <2> DEFINE S == {c \in Citas : t[c] # eventos[c]}
  <2>1. /\ eventos' = t /\ edt' = edt /\ UNCHANGED <<fase, memoria, aTiempo>>
        /\ porDecir' = porDecir \ S /\ prometidos' = prometidos \ S
        /\ dicho' = [c \in Citas |-> IF c \in S THEN Incierto ELSE dicho[c]]
    BY <1>11 DEF OtraSesion, Desdecir, vars, hilo, lista
  <2>2. \A c \in Citas \ S : t[c] = eventos[c]
    OBVIOUS
  <2> HIDE DEF S
  <2> QED
    BY <1>0, <2>1, <2>2 DEF Fiel
<1>12. CASE UNCHANGED vvars
  BY <1>12 DEF vvars, vars, reloj, hilo, lista, promesa, Fiel
<1> QED
  BY <1>1, <1>2, <1>3, <1>4, <1>5, <1>6, <1>7, <1>8, <1>9, <1>10, <1>11, <1>12 DEF VNext

-----------------------------------------------------------------------------
(* The pop-ups.                                                            *)

LEMMA MostrarPaso ==
  ASSUME Colas, Mostrar, UNCHANGED avisos
  PROVE  Colas'
<1> DEFINE h == Head(cola)
           r == Tail(cola)
           p == Append(pila, h)
<1>1. /\ Atiende /\ edt' = edt /\ UNCHANGED <<fase, vistos>>
      /\ cola # <<>> /\ pila' = p /\ cola' = r
  BY DEF Mostrar, vars, hilo
<1>2. cola \in Seq(avisos) /\ pila \in Seq(avisos)
  BY DEF Colas
<1>3. /\ h \in avisos /\ r \in Seq(avisos) /\ Elementos(cola) = {h} \cup Elementos(r)
      /\ SinRepetidos(cola) => SinRepetidos(r) /\ h \notin Elementos(r)
  BY <1>1, <1>2, PorDelante
<1> HIDE DEF h, r
<1>4. /\ p \in Seq(avisos) /\ Elementos(p) = Elementos(pila) \cup {h}
      /\ SinRepetidos(pila) /\ h \notin Elementos(pila) => SinRepetidos(p)
  BY <1>2, <1>3, AlFinal, AppendProperties
<1> HIDE DEF p
<1>5. EnUnSitio'
  <2> SUFFICES ASSUME fase # "fin" PROVE EnUnSitio'
    BY <1>1 DEF EnUnSitio
  <2>1. /\ SinRepetidos(cola) /\ SinRepetidos(pila)
        /\ Elementos(cola) \cap Elementos(pila) = {}
        /\ Elementos(cola) \cup Elementos(pila) = avisos \ vistos
    BY DEF Colas, EnUnSitio
  <2>2. SinRepetidos(r) /\ SinRepetidos(p)
    BY <1>3, <1>4, <2>1
  <2>3. Elementos(r) \cap Elementos(p) = {}
    BY <1>3, <1>4, <2>1
  <2>4. Elementos(r) \cup Elementos(p) = avisos \ vistos
    BY <1>3, <1>4, <2>1
  <2> QED
    BY <1>1, <2>2, <2>3, <2>4 DEF EnUnSitio
<1> QED
  BY <1>1, <1>3, <1>4, <1>5 DEF Colas, Atiende

LEMMA AceptarPaso ==
  ASSUME Colas, Aceptar, UNCHANGED avisos
  PROVE  Colas'
<1> DEFINE u == pila[Len(pila)]
           p == SubSeq(pila, 1, Len(pila) - 1)
<1>1. /\ Atiende /\ edt' = edt /\ UNCHANGED <<fase, cola>>
      /\ pila # <<>> /\ pila' = p /\ vistos' = vistos \cup {u}
  BY DEF Aceptar, vars, hilo
<1>2. /\ u \in avisos /\ p \in Seq(avisos) /\ Elementos(pila) = Elementos(p) \cup {u}
      /\ SinRepetidos(pila) => SinRepetidos(p) /\ u \notin Elementos(p)
  BY <1>1, PorDetras DEF Colas
<1> HIDE DEF u, p
<1>3. EnUnSitio'
  <2> SUFFICES ASSUME fase # "fin" PROVE EnUnSitio'
    BY <1>1 DEF EnUnSitio
  <2>1. /\ SinRepetidos(cola) /\ SinRepetidos(pila)
        /\ Elementos(cola) \cap Elementos(pila) = {}
        /\ Elementos(cola) \cup Elementos(pila) = avisos \ vistos
    BY DEF Colas, EnUnSitio
  <2>2. Elementos(cola) \cap Elementos(p) = {}
    BY <1>2, <2>1
  <2>3. Elementos(cola) \cup Elementos(p) = avisos \ (vistos \cup {u})
    BY <1>2, <2>1
  <2> QED
    BY <1>1, <1>2, <2>1, <2>2, <2>3 DEF EnUnSitio
<1> QED
  BY <1>1, <1>2, <1>3 DEF Colas, Atiende

LEMMA PublicarPopupPaso ==
  ASSUME IInv, Colas, NEW a \in Avisos, PublicarPopup(a)
  PROVE  Colas'
<1>1. /\ a \notin avisos /\ avisos' = avisos \cup {a} /\ cola' = Append(cola, a)
      /\ UNCHANGED <<edt, pila, vistos, fase>> /\ fase # "fin"
  BY DEF PublicarPopup, Publicar, IInv, Oportunos
<1>2. /\ cola \in Seq(avisos') /\ pila \in Seq(avisos') /\ a \in avisos'
      /\ vistos \subseteq avisos /\ (pila # <<>> => Atiende)
  BY <1>1, SeqMonotonic DEF Colas
<1>3. /\ SinRepetidos(cola) /\ SinRepetidos(pila)
      /\ Elementos(cola) \cap Elementos(pila) = {}
      /\ Elementos(cola) \cup Elementos(pila) = avisos \ vistos
  BY <1>1 DEF Colas, EnUnSitio
<1>4. cola' \in Seq(avisos')
  BY <1>1, <1>2, AppendProperties
<1>5. /\ Elementos(cola') = Elementos(cola) \cup {a}
      /\ SinRepetidos(cola')
  BY <1>1, <1>2, <1>3, AlFinal
<1>6. EnUnSitio'
  <2>1. Elementos(cola') \cap Elementos(pila) = {}
    BY <1>1, <1>3, <1>5
  <2>2. Elementos(cola') \cup Elementos(pila) = (avisos \cup {a}) \ vistos
    BY <1>1, <1>2, <1>3, <1>5
  <2> QED
    BY <1>1, <1>3, <1>5, <2>1, <2>2 DEF EnUnSitio
<1> QED
  BY <1>1, <1>2, <1>4, <1>6 DEF Colas, Atiende

\* Every other action leaves the pop-ups, and runs no handler under one.
LEMMA ColasPaso ==
  ASSUME VInv, [VNext]_vvars
  PROVE  Colas'
<1> USE DEF VInv
<1>1. CASE Mostrar
  <2>1. UNCHANGED avisos
    BY <1>1 DEF Mostrar, vars, hilo
  <2> QED
    BY <1>1, <2>1, MostrarPaso
<1>2. CASE Aceptar
  <2>1. UNCHANGED avisos
    BY <1>2 DEF Aceptar, vars, hilo
  <2> QED
    BY <1>2, <2>1, AceptarPaso
<1>3. ASSUME NEW a \in Avisos, PublicarPopup(a) PROVE Colas'
  BY <1>3, PublicarPopupPaso
<1>4. CASE Salir
  <2>1. /\ UNCHANGED <<avisos, vistos>> /\ fase' = "fin"
        /\ cola' = <<>> /\ pila' = <<>>
    BY <1>4 DEF Salir, Terminar
  <2>2. <<>> \in Seq(avisos)
    BY EmptySeq
  <2> QED
    BY <2>1, <2>2 DEF Colas, EnUnSitio
<1>5. ASSUME UNCHANGED <<avisos, popups>>, fase # "fin", fase' # "fin",
             pila # <<>> => Atiende'
      PROVE  Colas'
  BY <1>5 DEF Colas, EnUnSitio, popups
<1> DEFINE Otro ==
      /\ UNCHANGED <<avisos, popups>> /\ fase # "fin" /\ fase' # "fin"
      /\ pila # <<>> => Atiende'
<1>6. Ingresar => Otro
  <2> SUFFICES ASSUME Ingresar PROVE Otro
    OBVIOUS
  <2>1. UNCHANGED hilo
    BY VaciaEnListas, AlmacenarPaso DEF Ingresar, Hilos
  <2> QED
    BY <2>1 DEF Ingresar, Hilos, Colas, Atiende, hilo
<1>7. AbrirVentana => Otro
  BY DEF AbrirVentana, Arrancar, Atiende
<1>8. Refrescar => Otro
  <2> SUFFICES ASSUME Refrescar PROVE Otro
    OBVIOUS
  <2>1. UNCHANGED hilo
    BY VaciaEnListas, AlmacenarPaso DEF Refrescar, Hilos
  <2> QED
    BY <2>1 DEF Refrescar, Hilos, Atiende, hilo
<1>9. FallarSesion \/ AbrirDialogo \/ Cancelar \/ AceptarMensaje => Otro
  BY DEF FallarSesion, AbrirDialogo, Cancelar, AceptarMensaje, Hilos, Colas, Atiende, vars, hilo
<1>10. \A S, t : edt = "dialogo" /\ Alcanza /\ Escribir(S, t) /\ UNCHANGED <<vars, popups>> => Otro
  BY DEF Escribir, Alcanza, Hilos, vars, hilo
<1>11. (\E c \in Citas, m \in Inicios : GuardarNuevo(c, m)) => Otro
  BY <1>10 DEF GuardarNuevo
<1>12. (\E o \in Inicios, v \in Inicios \cup {Nada} : GuardarCambio(o, v)) => Otro
  BY <1>10 DEF GuardarCambio
<1>13. Pasar \/ LeerLista \/ MirarReloj => Otro
  BY DEF Pasar, LeerLista, MirarReloj, Tictac, Leer, Mirar, Colas, Atiende
<1>14. (\E t \in Listas : OtraSesion(t)) => Otro
  BY DEF OtraSesion, Colas, Atiende, vars, hilo
<1>15. CASE UNCHANGED vvars
  BY <1>15 DEF vvars, vars, hilo, popups, Colas, EnUnSitio, Atiende
<1> QED
  BY <1>1, <1>2, <1>3, <1>4, <1>5, <1>6, <1>7, <1>8, <1>9, <1>11, <1>12, <1>13, <1>14, <1>15
     DEF VNext

-----------------------------------------------------------------------------
(* The reminders under way and what the window says.                       *)

\* A list that was just taken holds what the user was told.
LEMMA LeerListaAdvierte ==
  ASSUME Fiel, Advertidos, LeerLista
  PROVE  Advertidos'
<1>1. /\ UNCHANGED <<cola, porDar, dicho, desmentidos, avisos>> /\ leida' = memoria
  BY DEF LeerLista, Leer, popups, promesa
<1>2. ASSUME NEW a \in EnCamino'
      PROVE  dicho[a[1]] \in {a[2], Incierto} \/ a \in desmentidos
  <2>1. CASE a \in Elementos(cola) \cup porDar
    BY <2>1 DEF Advertidos, EnCamino
  <2>2. CASE a \in Avisos /\ a[2] = memoria[a[1]]
    BY <2>2 DEF Fiel, Avisos
  <2> QED
    BY <1>1, <1>2, <2>1, <2>2 DEF EnCamino
<1> QED
  BY <1>1, <1>2 DEF Advertidos

\* What is due was in the list that the look took, and was not given before.
LEMMA MirarRelojAdvierte ==
  ASSUME IInv', Advertidos, MirarReloj
  PROVE  Advertidos'
<1>1. /\ UNCHANGED <<cola, dicho, leida, avisos>> /\ fase = "leida" /\ fase' = "bucle"
      /\ desmentidos' = desmentidos \cap (Elementos(cola) \cup porDar')
  BY DEF MirarReloj, Mirar, popups
<1>2. \A a \in porDar' : a \in Avisos \ avisos /\ a[2] = leida[a[1]]
  BY <1>1 DEF IInv, TypeOK, Pendientes, Oportunos
<1>3. EnCamino' = Elementos(cola) \cup porDar' /\ EnCamino' \subseteq EnCamino
  BY <1>1, <1>2 DEF EnCamino
<1> QED
  BY <1>1, <1>3 DEF Advertidos

LEMMA PublicarPopupAdvierte ==
  ASSUME Colas, Advertidos, NEW a \in Avisos, PublicarPopup(a)
  PROVE  Advertidos'
<1>1. /\ UNCHANGED <<dicho, desmentidos, leida>> /\ fase = "bucle" /\ fase' = "bucle"
      /\ a \in porDar /\ porDar' = porDar \ {a} /\ cola' = Append(cola, a)
  BY DEF PublicarPopup, Publicar, promesa
<1>2. cola \in Seq(avisos \cup {a})
  BY SeqMonotonic DEF Colas
<1>3. Elementos(cola') = Elementos(cola) \cup {a}
  BY <1>1, <1>2, AlFinal
<1>4. EnCamino' \subseteq EnCamino
  BY <1>1, <1>3 DEF EnCamino
<1> QED
  BY <1>1, <1>4 DEF Advertidos

\* A pop-up that opens is no longer under way.
LEMMA MostrarAdvierte ==
  ASSUME IInv, Hilos, Colas, Advertidos, Mostrar
  PROVE  Advertidos'
<1> DEFINE h == Head(cola)
<1>1. /\ UNCHANGED <<dicho, leida, fase, porDar, avisos>>
      /\ cola # <<>> /\ cola' = Tail(cola) /\ desmentidos' = desmentidos \ {h}
      /\ fase # "fin"
  BY DEF Mostrar, vars, hilo, mirada, Hilos, Atiende
<1>2. /\ h \in avisos /\ Elementos(cola) = {h} \cup Elementos(cola')
      /\ h \notin Elementos(cola')
  BY <1>1, PorDelante DEF Colas, EnUnSitio
<1>3. h \notin porDar
  BY <1>2 DEF IInv, Oportunos
<1> HIDE DEF h
<1>4. EnCamino' \subseteq EnCamino \ {h}
  BY <1>1, <1>2, <1>3 DEF EnCamino
<1> QED
  BY <1>1, <1>4 DEF Advertidos

LEMMA EnCaminoSonAvisos ==
  ASSUME IInv, Colas
  PROVE  EnCamino \subseteq Avisos
<1>1. Elementos(cola) \subseteq avisos
  BY ElementOfSeq, LenProperties DEF Colas, Elementos
<1> QED
  BY <1>1 DEF EnCamino, IInv, TypeOK

\* Saying what the rows S are contradicts what is under way, or agrees with it.
LEMMA DecirAdvierte ==
  ASSUME Colas, IInv, Advertidos, NEW S \in SUBSET Citas, NEW l \in Listas, Decir(S, l),
         UNCHANGED <<cola, porDar, leida, avisos>>, fase' = "leida" <=> fase = "leida"
  PROVE  Advertidos'
<1>1. EnCamino' = EnCamino
  BY DEF EnCamino
<1>2. EnCamino \subseteq Avisos
  BY EnCaminoSonAvisos
<1>3. desmentidos' \subseteq Avisos
  BY <1>2 DEF Decir, Advertidos
<1>4. ASSUME NEW a \in EnCamino
      PROVE  dicho'[a[1]] \in {a[2], Incierto} \/ a \in desmentidos'
  <2>1. a[1] \in Citas
    BY <1>2 DEF Avisos
  <2>2. CASE a[1] \in S
    BY <2>1, <2>2 DEF Decir
  <2>3. CASE a[1] \notin S
    BY <2>1, <2>3 DEF Decir, Advertidos
  <2> QED
    BY <2>2, <2>3
<1> QED
  BY <1>1, <1>3, <1>4 DEF Advertidos

\* Saying nothing, or that something is no longer sure, contradicts nothing.
LEMMA CallarAdvierte ==
  ASSUME Colas, IInv, Advertidos, NEW S \in SUBSET Citas,
         UNCHANGED <<dicho, desmentidos>> \/ Desdecir(S),
         UNCHANGED <<cola, porDar, leida, avisos>>,
         fase' = "leida" => fase = "leida"
  PROVE  Advertidos'
<1>1. EnCamino' \subseteq EnCamino
  BY DEF EnCamino
<1>2. \A a \in EnCamino : a[1] \in Citas
  BY EnCaminoSonAvisos DEF Avisos
<1> QED
  BY <1>1, <1>2 DEF Advertidos, Desdecir

LEMMA AdvertidosPaso ==
  ASSUME VInv, IInv', [VNext]_vvars
  PROVE  Advertidos'
<1> USE DEF VInv
<1>0. Citas \in SUBSET Citas /\ {} \in SUBSET Citas
  OBVIOUS
<1> DEFINE Quieto == UNCHANGED <<cola, porDar, leida, avisos>>
<1>1. CASE LeerLista \/ MirarReloj \/ (\E a \in Avisos : PublicarPopup(a)) \/ Mostrar
  BY <1>1, LeerListaAdvierte, MirarRelojAdvierte, PublicarPopupAdvierte, MostrarAdvierte
<1>2. CASE Ingresar
  <2>1. UNCHANGED hilo
    BY <1>2, VaciaEnListas, AlmacenarPaso DEF Ingresar, Hilos
  <2> QED
    BY <1>0, <1>2, <2>1, CallarAdvierte DEF Ingresar, popups, hilo, mirada
<1>3. CASE AbrirVentana
  <2>1. Decir(porDecir, memoria) /\ Quieto /\ fase = "sin_ventana" /\ fase' = "espera"
    BY <1>3 DEF AbrirVentana, Arrancar, popups, mirada
  <2>2. memoria \in Listas /\ porDecir \in SUBSET Citas
    BY DEF IInv, TypeOK, Fiel
  <2> QED
    BY <2>1, <2>2, DecirAdvierte
<1>4. CASE Refrescar
  <2>1. UNCHANGED hilo /\ eventos \in Listas /\ porDecir \in SUBSET Citas
    BY <1>4, VaciaEnListas, AlmacenarPaso DEF Refrescar, Hilos, Fiel
  <2>2. Quieto /\ fase' = fase
    BY <1>4, <2>1 DEF Refrescar, popups, hilo, mirada
  <2>3. CASE Decir(porDecir, eventos)
    BY <2>1, <2>2, <2>3, DecirAdvierte
  <2>4. CASE Desdecir(Citas)
    BY <1>0, <2>2, <2>4, CallarAdvierte
  <2> QED
    BY <1>4, <2>3, <2>4 DEF Refrescar
<1>5. CASE Salir
  <2>1. /\ UNCHANGED <<porDar, leida, avisos, dicho, desmentidos>>
        /\ fase' = "fin" /\ cola' = <<>>
    BY <1>5 DEF Salir, Terminar, mirada, promesa
  <2>2. EnCamino' \subseteq EnCamino
    BY <2>1 DEF EnCamino, Elementos
  <2> QED
    BY <2>1, <2>2 DEF Advertidos
<1>6. ASSUME NEW S \in SUBSET Citas, NEW t, Escribir(S, t), UNCHANGED <<vars, popups>>
      PROVE  Advertidos'
  <2>1. UNCHANGED <<dicho, desmentidos>> \/ Desdecir(S)
    BY <1>6 DEF Escribir, promesa
  <2> QED
    BY <1>6, <2>1, CallarAdvierte DEF vars, popups, hilo, mirada
<1>7. ASSUME NEW c \in Citas, NEW m \in Inicios, GuardarNuevo(c, m) PROVE Advertidos'
  BY <1>6, <1>7 DEF GuardarNuevo
<1>8. ASSUME NEW o \in Inicios, NEW v \in Inicios \cup {Nada}, GuardarCambio(o, v)
      PROVE  Advertidos'
  <2> DEFINE S == {c \in Citas : eventos[c] = o}
  <2>1. S \in SUBSET Citas
    OBVIOUS
  <2> QED
    BY <1>6, <1>8, <2>1 DEF GuardarCambio
<1>9. ASSUME NEW t \in Listas, OtraSesion(t) PROVE Advertidos'
  <2> DEFINE S == {c \in Citas : t[c] # eventos[c]}
  <2>1. S \in SUBSET Citas /\ Desdecir(S) /\ UNCHANGED <<vars, popups>>
    BY <1>9 DEF OtraSesion
  <2> HIDE DEF S
  <2> QED
    BY <2>1, CallarAdvierte DEF vars, popups, hilo, mirada
<1>10. CASE \/ FallarSesion \/ AbrirDialogo \/ Cancelar \/ AceptarMensaje \/ Aceptar \/ Pasar
            \/ UNCHANGED vvars
  <2>1. Quieto /\ UNCHANGED <<fase, dicho, desmentidos>>
    BY <1>10 DEF FallarSesion, AbrirDialogo, Cancelar, AceptarMensaje, Aceptar, Pasar, Tictac,
       vvars, vars, popups, promesa, hilo, mirada
  <2> QED
    BY <1>0, <2>1, CallarAdvierte
<1> QED
  BY <1>1, <1>2, <1>3, <1>4, <1>5, <1>7, <1>8, <1>9, <1>10 DEF VNext

LEMMA VInvInicial == VInit => VInv
<1> SUFFICES ASSUME VInit PROVE VInv
  OBVIOUS
<1>1. IInv
  BY IInvInicial DEF VInit
<1>2. Hilos /\ Fiel
  BY DEF VInit, Init, Hilos, Etapas, Fiel
<1>3. Advertidos
  BY DEF VInit, Init, Advertidos, EnCamino, Elementos
<1>4. Colas
  <2>1. <<>> \in Seq(avisos) /\ Elementos(<<>>) = {} /\ SinRepetidos(<<>>)
    BY EmptySeq DEF Elementos, SinRepetidos
  <2> QED
    BY <2>1 DEF VInit, Init, Colas, EnUnSitio
<1> QED
  BY <1>1, <1>2, <1>3, <1>4 DEF VInv

LEMMA VInvPaso == VInv /\ [VNext]_vvars => VInv'
<1> SUFFICES ASSUME VInv, [VNext]_vvars PROVE VInv'
  OBVIOUS
<1>1. IInv'
  BY PasoDelHilo, IInvPaso DEF VInv, Hilos
<1> QED
  BY <1>1, HilosPaso, AdvertidosPaso, ColasPaso DEF VInv

LEMMA VInvSiempre == VSpec => []VInv
BY VInvInicial, VInvPaso, PTL DEF VSpec

-----------------------------------------------------------------------------
(* The theorems.                                                           *)

\* The window, its dialogs and the other sessions only let the reminder thread
\* take the steps of Notificador: all that is proved of it there holds here.
THEOREM VentanaCumpleNotificador == VSpec => Spec
<1>1. VInit => Init
  BY DEF VInit
<1>2. VInv /\ [VNext]_vvars => [Next]_vars
  BY PasoDelHilo DEF VInv, Hilos
<1> QED
  BY <1>1, <1>2, VInvSiempre, PTL DEF VSpec, Spec

\* So it is with the window: no reminder is repeated or false, missed minutes
\* are spaced, and small delays lose no event that has been in memory.
COROLLARY VentanaRecuerda ==
  VSpec => NuncaDosVeces /\ CumpleRecordador /\ []PerdidosEspaciados /\ []UnAvisoSeguro
BY VentanaCumpleNotificador, NuncaDosVecesSiempre, NotificadorCumpleRecordador,
   PerdidosEspaciadosSiempre, UnAvisoSeguroSiempre

\* Every variable keeps its type; no pop-up is on the screen while a handler
\* runs, so no handler is entered twice.
THEOREM VTipoCorrecto == VSpec => []VTypeOK
<1>1. VInv => VTypeOK
  BY DEF VInv, IInv, Hilos, Etapas, Fiel, Advertidos, Colas, VTypeOK
<1> QED
  BY <1>1, VInvSiempre, PTL

\* An event that the window said to be there is announced at least once, if the
\* user was told in time and delays are small.
THEOREM AvisoPrometidoSiempre == VSpec => []AvisoPrometido
<1>1. VInv /\ UnAvisoSeguro => AvisoPrometido
  BY DEF VInv, Fiel, UnAvisoSeguro, AvisoPrometido
<1> QED
  BY <1>1, VInvSiempre, VentanaCumpleNotificador, UnAvisoSeguroSiempre, PTL

\* Wherever the event thread reports a deletion or a change between the steps of
\* a look, a waiting pop-up contradicts it only if it was under way then.
THEOREM NadaDesmentidoSiempre == VSpec => []NadaDesmentido
<1>1. VInv => NadaDesmentido
  BY DEF VInv, Advertidos, EnCamino, NadaDesmentido
<1> QED
  BY <1>1, VInvSiempre, PTL

\* Each reminder waits, is on the screen, or was accepted, and only one of them,
\* for any number of events and of pop-ups over each other.
THEOREM EnUnSitioSiempre == VSpec => []EnUnSitio
<1>1. VInv => EnUnSitio
  BY DEF VInv, Colas
<1> QED
  BY <1>1, VInvSiempre, PTL

-----------------------------------------------------------------------------
(* The window implements SesionAbstracta.                                  *)

\* A statement of a dialog on the rows S = those at the moment o.
LEMMA EscribirCumple ==
  ASSUME NEW S, NEW t, edt = "dialogo", UNCHANGED vars, Escribir(S, t)
  PROVE  \/ UNCHANGED Sesion!vars
         \/ eventos' = t /\ S # {} /\ Sesion!Confirmada
BY DEF Escribir, Sesion!vars, Sesion!Confirmada, Lugar, vars, lista

LEMMA VentanaPasoSesion ==
  ASSUME VInv, [VNext]_vvars
  PROVE  [Sesion!Next]_(Sesion!vars)
<1>0. eventos \in Listas /\ edt \in Etapas
  BY DEF VInv, Hilos
<1>1. Vacia = Sesion!Vacia /\ Vacia \in Listas
  BY DEF Vacia, Sesion!Vacia
<1>2. CASE Ingresar
  <2>1. /\ edt = "login" /\ edt' = "entrando" /\ UNCHANGED eventos
        /\ memoria' = eventos \/ (memoria' = Vacia /\ "leer" \in Fallos)
    BY <1>0, <1>1, <1>2, AlmacenarPaso DEF Ingresar
  <2> QED
    BY <1>1, <2>1 DEF Sesion!Next, Sesion!Entrar, Sesion!Leido, Lugar
<1>3. CASE Refrescar
  <2>1. /\ edt = "refrescar" /\ edt' = "mensaje" /\ UNCHANGED eventos
        /\ memoria' = eventos \/ (memoria' = Vacia /\ "leer" \in Fallos)
    BY <1>0, <1>1, <1>3, AlmacenarPaso DEF Refrescar
  <2> QED
    BY <1>1, <2>1 DEF Sesion!Next, Sesion!Refrescar, Sesion!Leido, Lugar
<1>4. CASE FallarSesion \/ Salir
  <2>1. edt' \in {"login", "fin"} /\ UNCHANGED eventos
    BY <1>4 DEF FallarSesion, Salir
  <2>2. edt \notin {"login", "fin"} => Sesion!Salir
    BY <1>1, <2>1 DEF Sesion!Salir, Lugar
  <2>3. edt \in {"login", "fin"} => UNCHANGED Sesion!vars
    BY <2>1 DEF Sesion!vars, Lugar, Vacia
  <2> QED
    BY <2>2, <2>3 DEF Sesion!Next
<1>5. ASSUME NEW c \in Citas, NEW m \in Inicios, GuardarNuevo(c, m)
      PROVE  [Sesion!Next]_(Sesion!vars)
  <2>1. \/ UNCHANGED Sesion!vars
        \/ eventos' = [eventos EXCEPT ![c] = m] /\ Sesion!Confirmada
    BY <1>5, EscribirCumple DEF GuardarNuevo
  <2>2. eventos[c] = Nada
    BY <1>5 DEF GuardarNuevo
  <2> QED
    BY <2>1, <2>2 DEF Sesion!Next, Sesion!Crear
<1>6. ASSUME NEW o \in Inicios, NEW v \in Inicios \cup {Nada}, GuardarCambio(o, v)
      PROVE  [Sesion!Next]_(Sesion!vars)
  <2> DEFINE S == {c \in Citas : eventos[c] = o}
             Momento == [m \in Inicios |-> m]
  <2>1. \/ UNCHANGED Sesion!vars
        \/ /\ eventos' = [c \in Citas |-> IF c \in S THEN v ELSE eventos[c]]
           /\ S # {} /\ Sesion!Confirmada
    BY <1>6, EscribirCumple DEF GuardarCambio
  <2>2. S = Sesion!EnMomento(o)
    <3>1. \A c \in Citas : eventos[c] = o <=> eventos[c] # Nada /\ Momento[eventos[c]] = o
      BY <1>0 DEF Minutos
    <3> QED
      BY <3>1 DEF Sesion!EnMomento
  <2>3. o \in {Momento[m] : m \in Inicios}
    OBVIOUS
  <2> QED
    BY <2>1, <2>2, <2>3 DEF Sesion!Next, Sesion!Cambiar
<1>7. ASSUME NEW t \in Listas, OtraSesion(t)
      PROVE  [Sesion!Next]_(Sesion!vars)
  <2>1. eventos' = t /\ UNCHANGED <<memoria, edt>>
    BY <1>7 DEF OtraSesion, vars, lista
  <2> QED
    BY <2>1 DEF Sesion!Next, Sesion!Ajena, Sesion!Tablas, Lugar, Vacia
<1>8. ASSUME UNCHANGED <<eventos, memoria>>, Lugar' = Lugar
      PROVE  UNCHANGED Sesion!vars
  BY <1>8 DEF Sesion!vars, Vacia
<1>9. CASE \/ AbrirVentana \/ AbrirDialogo \/ Cancelar \/ AceptarMensaje
           \/ Mostrar \/ Aceptar \/ LeerLista \/ MirarReloj \/ Pasar
           \/ (\E a \in Avisos : PublicarPopup(a)) \/ UNCHANGED vvars
  <2>1. UNCHANGED <<eventos, memoria>>
    BY <1>9 DEF AbrirVentana, Arrancar, AbrirDialogo, Cancelar, AceptarMensaje, Mostrar, Aceptar,
       LeerLista, MirarReloj, PublicarPopup, Leer, Mirar, Publicar, Pasar, Tictac, vvars,
       vars, lista
  <2>2. Lugar' = Lugar
    BY <1>9 DEF AbrirVentana, AbrirDialogo, Cancelar, AceptarMensaje, Mostrar, Aceptar,
       LeerLista, MirarReloj, PublicarPopup, Pasar, vvars, Lugar
  <2> QED
    BY <1>8, <2>1, <2>2
<1> QED
  BY <1>2, <1>3, <1>4, <1>5, <1>6, <1>7, <1>9 DEF VNext

\* The handlers of the window, with their dialogs, pop-ups and the reminder
\* thread beside them, do with the table and the list in memory what those of
\* the agenda do: they implement the same specification of a session.
THEOREM VentanaCumpleSesion == VSpec => CumpleSesion
<1>1. VInit => Sesion!Init
  BY DEF VInit, Sesion!Init, Sesion!Tablas, Sesion!Vacia, Lugar, Vacia
<1> QED
  BY <1>1, VentanaPasoSesion, VInvSiempre, PTL DEF VSpec, CumpleSesion, Sesion!Spec

-----------------------------------------------------------------------------
(* The pop-ups implement PopupAbstracto.                                   *)

\* While the program runs, the stage of a reminder says where it is.
LEMMA EtapaEsSitio ==
  ASSUME Colas, fase # "fin", NEW a
  PROVE  /\ Etapa(a) = "no dado" <=> a \notin avisos
         /\ Etapa(a) = "en espera" <=> a \in Elementos(cola)
         /\ Etapa(a) = "abierto" <=> a \in Elementos(pila)
         /\ Etapa(a) = "aceptado" <=> a \in vistos
         /\ Etapa(a) \in {"no dado", "en espera", "abierto", "aceptado"}
BY DEF Colas, EnUnSitio, Etapa

LEMMA AnunciarCumple ==
  ASSUME VInv, NEW b \in Avisos, PublicarPopup(b)
  PROVE  Popup!Anunciar
<1>1. /\ b \notin avisos /\ avisos' = avisos \cup {b} /\ cola' = Append(cola, b)
      /\ fase # "fin" /\ fase' # "fin" /\ UNCHANGED <<pila, vistos>>
  BY DEF PublicarPopup, Publicar, VInv, IInv, Oportunos
<1>2. Elementos(cola') = Elementos(cola) \cup {b}
  <2>1. cola \in Seq(avisos \cup {b})
    BY SeqMonotonic DEF VInv, Colas
  <2> QED
    BY <1>1, <2>1, AlFinal
<1>3. ASSUME NEW a \in Avisos
      PROVE  Etapa(a)' = IF a = b THEN "en espera" ELSE Etapa(a)
  BY <1>1, <1>2 DEF VInv, Colas, EnUnSitio, Etapa
<1>4. Etapa(b) = "no dado"
  BY <1>1 DEF Etapa
<1> QED
  BY <1>1, <1>3, <1>4 DEF Popup!Anunciar, Popup!Pasar

LEMMA AbrirCumple ==
  ASSUME VInv, VInv', Mostrar
  PROVE  Popup!Abrir
<1> DEFINE h == Head(cola)
<1>1. /\ UNCHANGED <<fase, avisos, vistos, edt>> /\ edt # "fin" /\ cola # <<>>
      /\ pila' = Append(pila, h)
  BY DEF Mostrar, Atiende, vars, hilo
<1>2. fase # "fin"
  BY <1>1 DEF VInv, Hilos
<1>3. h \in avisos /\ h \in Elementos(cola)
  BY <1>1, PorDelante DEF VInv, Colas
<1>4. Elementos(pila') = Elementos(pila) \cup {h}
  BY <1>1, <1>3, AlFinal DEF VInv, Colas
<1> HIDE DEF h
<1>5. ASSUME NEW a \in Avisos
      PROVE  Etapa(a)' = IF a = h THEN "abierto" ELSE Etapa(a)
  BY <1>1, <1>2, <1>3, <1>4 DEF VInv, Colas, EnUnSitio, Etapa
<1>6. h \in Avisos /\ Etapa(h) = "en espera"
  BY <1>2, <1>3, EtapaEsSitio DEF VInv, IInv, TypeOK
<1> QED
  BY <1>1, <1>2, <1>5, <1>6 DEF Popup!Abrir, Popup!Pasar

LEMMA AceptarCumple ==
  ASSUME VInv, VInv', Aceptar
  PROVE  Popup!Aceptar
<1> DEFINE u == pila[Len(pila)]
<1>1. /\ UNCHANGED <<fase, avisos, cola, edt>> /\ edt # "fin" /\ pila # <<>>
      /\ vistos' = vistos \cup {u}
  BY DEF Aceptar, Atiende, vars, hilo
<1>2. fase # "fin"
  BY <1>1 DEF VInv, Hilos
<1>3. u \in avisos /\ u \in Elementos(pila)
  BY <1>1, PorDetras DEF VInv, Colas
<1> HIDE DEF u
<1>4. ASSUME NEW a \in Avisos
      PROVE  Etapa(a)' = IF a = u THEN "aceptado" ELSE Etapa(a)
  BY <1>1, <1>2, <1>3 DEF VInv, Colas, EnUnSitio, Etapa
<1>5. u \in Avisos /\ Etapa(u) = "abierto"
  BY <1>2, <1>3, EtapaEsSitio DEF VInv, IInv, TypeOK
<1> QED
  BY <1>1, <1>2, <1>4, <1>5 DEF Popup!Aceptar, Popup!Pasar

LEMMA AcabarCumple ==
  ASSUME VInv, Salir
  PROVE  Popup!Acabar
<1>1. /\ fase # "fin" /\ fase' = "fin" /\ UNCHANGED <<avisos, vistos>>
      /\ cola' = <<>> /\ pila' = <<>>
  BY DEF Salir, Terminar
<1>2. Elementos(<<>>) = {}
  BY DEF Elementos
<1>3. ASSUME NEW a \in Avisos
      PROVE  Etapa(a)' = IF Etapa(a) \in {"en espera", "abierto"} THEN "perdido" ELSE Etapa(a)
  BY <1>1, <1>2, EtapaEsSitio DEF VInv, Etapa, Colas, EnUnSitio
<1> QED
  BY <1>1, <1>3 DEF Popup!Acabar

\* Nothing else touches the pop-ups.
LEMMA PopupsQuietos ==
  ASSUME VInv, [VNext]_vvars, ~ (\E a \in Avisos : PublicarPopup(a)),
         ~ Mostrar, ~ Aceptar, ~ Salir
  PROVE  UNCHANGED <<avisos, popups>> /\ (fase' = "fin" <=> fase = "fin")
<1>1. \A l \in Listas : Almacenar(l) => UNCHANGED <<avisos, fase>>
  BY AlmacenarPaso DEF hilo
<1>2. CASE Ingresar \/ Refrescar
  BY <1>1, <1>2, VaciaEnListas DEF Ingresar, Refrescar, VInv, Hilos
<1>3. CASE AbrirVentana
  BY <1>3 DEF AbrirVentana, Arrancar
<1>4. CASE FallarSesion \/ AbrirDialogo \/ Cancelar \/ AceptarMensaje
  BY <1>4 DEF FallarSesion, AbrirDialogo, Cancelar, AceptarMensaje, vars, hilo
<1>5. CASE \/ \E c \in Citas, m \in Inicios : GuardarNuevo(c, m)
           \/ \E o \in Inicios, v \in Inicios \cup {Nada} : GuardarCambio(o, v)
           \/ \E t \in Listas : OtraSesion(t)
  BY <1>5 DEF GuardarNuevo, GuardarCambio, OtraSesion, vars, hilo
<1>6. CASE Pasar \/ LeerLista \/ MirarReloj
  BY <1>6 DEF Pasar, LeerLista, MirarReloj, Tictac, Leer, Mirar
<1>7. CASE UNCHANGED vvars
  BY <1>7 DEF vvars, vars, hilo
<1> QED
  BY <1>2, <1>3, <1>4, <1>5, <1>6, <1>7 DEF VNext

\* Each reminder is announced, opened and accepted, in this order, once, and none
\* is lost while the program runs, for any number of pop-ups over each other.
THEOREM VentanaCumplePopup == VSpec => CumplePopup
<1>1. VInit => Popup!Init
  BY DEF VInit, Init, Popup!Init, Etapa
<1>2. ASSUME VInv, VInv', [VNext]_vvars
      PROVE  [Popup!Next]_(Popup!vars)
  <2>1. CASE (\E a \in Avisos : PublicarPopup(a)) \/ Mostrar \/ Aceptar \/ Salir
    BY <1>2, <2>1, AnunciarCumple, AbrirCumple, AceptarCumple, AcabarCumple DEF Popup!Next
  <2>2. CASE ~ ((\E a \in Avisos : PublicarPopup(a)) \/ Mostrar \/ Aceptar \/ Salir)
    <3>1. UNCHANGED <<avisos, popups>> /\ (fase' = "fin" <=> fase = "fin")
      BY <1>2, <2>2, PopupsQuietos
    <3> QED
      BY <3>1 DEF Popup!vars, popups, Etapa
  <2> QED
    BY <2>1, <2>2
<1> QED
  BY <1>1, <1>2, VInvSiempre, PTL DEF VSpec, CumplePopup, Popup!Spec
=============================================================================
