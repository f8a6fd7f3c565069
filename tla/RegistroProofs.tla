--------------------------- MODULE RegistroProofs ---------------------------
(***************************************************************************)
(* Proofs about Registro: what every interleaving of registration windows, *)
(* failures and crashes leaves in the table and says to the users, for any *)
(* windows, programs, cédulas, names and passwords.                        *)
(***************************************************************************)
EXTENDS Registro, TLAPS

USE VentanasAssumption, CedulasAssumption, NoHayAssumption, FallosAssumption

-----------------------------------------------------------------------------
(* The inductive invariant.                                                *)

\* Only checked forms are inserted, and only a window that shows a message
\* has one; "existe" and "error" are about checked forms.
Comprobados ==
  \A v \in Ventanas :
    /\ fase[v] = "insertar" => campos[v] \in Aceptables
    /\ mensaje[v] # "" => fase[v] = "mensaje"
    /\ mensaje[v] \in {"existe", "error"} => campos[v] \in Aceptables

\* A row without account has no author; and a window that is about to insert a
\* cédula that the query rightly found free is not the one that has it.
Autoria ==
  /\ \A c \in Cedulas : cuentas[c] = NoHay => autor[c] = NoHay
  /\ \A v \in Ventanas : fase[v] = "insertar" /\ ~ fallo[v] => autor[campos[v].ced] # v

Base == TypeOK /\ Comprobados /\ Autoria
IInv == Base /\ ExitoDuradero /\ RechazoCierto /\ CuentasValidas

-----------------------------------------------------------------------------
(* Lemmas about the two statements and the checks.                         *)

\* The checks let through only what is acceptable.
LEMMA MotivoBien ==
  ASSUME NEW c \in Campos, NEW conf, Motivo(c, conf) = "ninguno"
  PROVE  c \in Aceptables
BY DEF Motivo, Aceptables

\* Every refusal of the checks is one of the messages.
LEMMA MotivoMensaje ==
  ASSUME NEW c, NEW conf
  PROVE  Motivo(c, conf) \in {"cedula", "nombre", "clave", "ninguno"}
BY DEF Motivo

\* A found cédula is there.
LEMMA ExisteBien ==
  ASSUME NEW ced, TRUE \in Existe(ced)
  PROVE  cuentas[ced] # NoHay
BY Zenon DEF Existe

\* No step changes or removes an account that is there, or its author.
Quedan ==
  \A c \in Cedulas : cuentas[c] # NoHay => cuentas'[c] = cuentas[c] /\ autor'[c] = autor[c]

\* What an insertion does to the table: it takes a free cédula, or nothing.
LEMMA InsertarTabla ==
  ASSUME Base, NEW v \in Ventanas, Insertar(v)
  PROVE  /\ campos[v] \in Aceptables
         /\ \/ UNCHANGED tabla /\ mensaje'[v] = "error" /\ UNCHANGED exitos
            \/ /\ cuentas[campos[v].ced] = NoHay /\ Cabe(campos[v]) /\ Anotar(v)
               /\ \/ mensaje'[v] = "exito" /\ exitos' = exitos \cup {[ven |-> v, cam |-> campos[v]]}
                  \/ "respuesta" \in Fallos /\ mensaje'[v] = "error" /\ UNCHANGED exitos
         /\ Quedan
<1>1. campos[v] \in Aceptables
  BY DEF Base, Comprobados, Insertar
<1>2. \/ UNCHANGED tabla /\ mensaje'[v] = "error" /\ UNCHANGED exitos
      \/ /\ cuentas[campos[v].ced] = NoHay /\ Cabe(campos[v]) /\ Anotar(v)
         /\ \/ mensaje'[v] = "exito" /\ exitos' = exitos \cup {[ven |-> v, cam |-> campos[v]]}
            \/ "respuesta" \in Fallos /\ mensaje'[v] = "error" /\ UNCHANGED exitos
  BY DEF Base, TypeOK, Insertar
<1>3. Quedan
  <2>1. CASE UNCHANGED tabla
    BY <2>1 DEF Quedan, tabla
  <2>2. CASE cuentas[campos[v].ced] = NoHay /\ Anotar(v)
    BY <1>1, <2>2 DEF Quedan, Anotar, Base, TypeOK, Aceptables
  <2> QED
    BY <1>2, <2>1, <2>2
<1> QED
  BY <1>1, <1>2, <1>3

-----------------------------------------------------------------------------
(* Base.                                                                   *)

LEMMA BaseInicial == Init => Base
<1> SUFFICES ASSUME Init PROVE Base
  OBVIOUS
<1>1. TypeOK
  BY DEF Init, TypeOK, Mensajes
<1>2. Comprobados /\ Autoria
  BY DEF Init, Comprobados, Autoria
<1> QED
  BY <1>1, <1>2 DEF Base

LEMMA AbrirBase ==
  ASSUME Base, NEW v \in Ventanas, Abrir(v)
  PROVE  Base'
BY DEF Base, TypeOK, Comprobados, Autoria, Aceptables, Abrir, tabla

LEMMA RegistrarBase ==
  ASSUME Base, NEW v \in Ventanas, NEW c \in Campos, NEW conf \in Claves, Registrar(v, c, conf)
  PROVE  Base'
<1> USE DEF Base, Registrar, tabla
<1>1. Motivo(c, conf) \in {"cedula", "nombre", "clave", "ninguno"}
  BY MotivoMensaje
<1>2. Motivo(c, conf) = "ninguno" => c \in Aceptables
  BY MotivoBien
<1>3. TypeOK'
  BY <1>1 DEF TypeOK, Mensajes
<1>4. Comprobados'
  BY <1>1, <1>2 DEF TypeOK, Comprobados, Aceptables
<1>5. Autoria'
  <2> SUFFICES ASSUME NEW w \in Ventanas, fase'[w] = "insertar", ~ fallo'[w]
               PROVE  autor[campos'[w].ced] # w
    BY DEF Autoria
  <2>1. CASE w # v
    BY <2>1 DEF TypeOK, Autoria
  <2>2. CASE w = v
    <3>1. /\ campos'[v] = c /\ Motivo(c, conf) = "ninguno"
          /\ fallo' = [fallo EXCEPT ![v] = cuentas[c.ced] # NoHay]
      BY <2>2 DEF TypeOK
    <3>2. c.ced \in Cedulas /\ cuentas[c.ced] = NoHay
      BY <2>2, <3>1, <1>2 DEF Aceptables, TypeOK
    <3> QED
      BY <2>2, <3>1, <3>2 DEF Autoria
  <2> QED
    BY <2>1, <2>2
<1> QED
  BY <1>3, <1>4, <1>5

LEMMA InsertarBase ==
  ASSUME Base, NEW v \in Ventanas, Insertar(v)
  PROVE  Base'
<1>1. campos[v] \in Aceptables
  BY InsertarTabla
<1> USE DEF Base, Insertar, tabla, Anotar
<1>2. TypeOK'
  <2>1. cuentas' \in [Cedulas -> Campos \cup {NoHay}] /\ autor' \in [Cedulas -> Ventanas \cup {NoHay}]
    BY <1>1 DEF TypeOK, Aceptables
  <2>2. fase' \in [Ventanas -> {"cerrada", "formulario", "insertar", "mensaje"}]
    BY DEF TypeOK
  <2>3. mensaje' \in [Ventanas -> Mensajes]
    BY DEF TypeOK, Mensajes
  <2>4. exitos' \subseteq [ven : Ventanas, cam : Campos]
    BY <1>1 DEF TypeOK, Aceptables
  <2> QED
    BY <2>1, <2>2, <2>3, <2>4 DEF TypeOK
<1>3. Comprobados'
  BY <1>1 DEF TypeOK, Comprobados, Aceptables
<1>4. Autoria'
  <2>1. \A c \in Cedulas : cuentas'[c] = NoHay => autor'[c] = NoHay
    BY <1>1 DEF TypeOK, Autoria, Aceptables
  <2>2. ASSUME NEW w \in Ventanas, fase'[w] = "insertar", ~ fallo'[w]
        PROVE  autor'[campos'[w].ced] # w
    <3>1. w # v /\ fase[w] = "insertar" /\ ~ fallo[w] /\ campos'[w] = campos[w]
      BY <2>2 DEF TypeOK
    <3>2. autor[campos[w].ced] # w /\ campos[w].ced \in Cedulas
      BY <2>2, <3>1 DEF Autoria, Comprobados, Aceptables
    <3>3. autor'[campos[w].ced] \in {autor[campos[w].ced], v}
      BY <1>1, <3>2 DEF TypeOK
    <3> QED
      BY <3>1, <3>2, <3>3
  <2> QED
    BY <2>1, <2>2 DEF Autoria
<1> QED
  BY <1>2, <1>3, <1>4

LEMMA AceptarBase ==
  ASSUME Base, NEW v \in Ventanas, Aceptar(v)
  PROVE  Base'
BY DEF Base, TypeOK, Comprobados, Autoria, Aceptables, Aceptar, Limpiar, tabla, Mensajes

LEMMA VolverBase ==
  ASSUME Base, NEW v \in Ventanas, Volver(v)
  PROVE  Base'
BY DEF Base, TypeOK, Comprobados, Autoria, Aceptables, Volver, tabla

LEMMA SalirBase ==
  ASSUME Base, NEW p \in Programas, Salir(p)
  PROVE  Base'
BY DEF Base, TypeOK, Comprobados, Autoria, Aceptables, Salir, tabla, Mensajes

LEMMA BasePaso == Base /\ [Next]_vars => Base'
<1> SUFFICES ASSUME Base, [Next]_vars PROVE Base'
  OBVIOUS
<1>1. CASE UNCHANGED vars
  BY <1>1 DEF Base, TypeOK, Comprobados, Autoria, Aceptables, vars, tabla
<1>2. ASSUME NEW v \in Ventanas, Abrir(v) \/ Insertar(v) \/ Aceptar(v) \/ Volver(v) PROVE Base'
  BY <1>2, AbrirBase, InsertarBase, AceptarBase, VolverBase
<1>3. ASSUME NEW v \in Ventanas, NEW c \in Campos, NEW conf \in Claves, Registrar(v, c, conf)
      PROVE  Base'
  BY <1>3, RegistrarBase
<1>4. ASSUME NEW p \in Programas, Salir(p) PROVE Base'
  BY <1>4, SalirBase
<1> QED
  BY <1>1, <1>2, <1>3, <1>4 DEF Next

-----------------------------------------------------------------------------
(* The accounts.                                                           *)

\* The only step that writes to the table is the insertion.
LEMMA SoloInserta ==
  ASSUME [Next]_vars
  PROVE  UNCHANGED <<tabla, exitos>> \/ \E v \in Ventanas : Insertar(v)
BY DEF Next, vars, Abrir, Registrar, Aceptar, Volver, Salir

LEMMA FilasQuedan ==
  ASSUME Base, [Next]_vars
  PROVE  Quedan
<1>1. CASE UNCHANGED <<tabla, exitos>>
  BY <1>1 DEF Quedan, tabla
<1> QED
  BY <1>1, SoloInserta, InsertarTabla

LEMMA ExitoPaso ==
  ASSUME Base, ExitoDuradero, [Next]_vars
  PROVE  ExitoDuradero'
<1>1. Quedan
  BY FilasQuedan
<1>2. ASSUME NEW x \in exitos
      PROVE  x.cam.ced \in Cedulas /\ cuentas'[x.cam.ced] = x.cam /\ autor'[x.cam.ced] = x.ven
  BY <1>1, <1>2 DEF Quedan, ExitoDuradero, Base, TypeOK
<1>3. CASE UNCHANGED <<tabla, exitos>>
  BY <1>2, <1>3 DEF ExitoDuradero
<1>4. ASSUME NEW v \in Ventanas, Insertar(v)
      PROVE  ExitoDuradero'
  <2>1. CASE UNCHANGED exitos
    BY <1>2, <2>1 DEF ExitoDuradero
  <2>2. CASE Anotar(v) /\ exitos' = exitos \cup {[ven |-> v, cam |-> campos[v]]}
    <3>1. campos[v] \in Aceptables
      BY <1>4, InsertarTabla
    <3>2. cuentas'[campos[v].ced] = campos[v] /\ autor'[campos[v].ced] = v
      BY <2>2, <3>1 DEF Anotar, Aceptables, Base, TypeOK
    <3> QED
      BY <1>2, <2>2, <3>1, <3>2 DEF ExitoDuradero, Aceptables
  <2> QED
    BY <1>4, <2>1, <2>2, InsertarTabla
<1> QED
  BY <1>3, <1>4, SoloInserta

LEMMA CuentasPaso ==
  ASSUME Base, CuentasValidas, [Next]_vars
  PROVE  CuentasValidas'
<1>1. CASE UNCHANGED <<tabla, exitos>>
  BY <1>1 DEF CuentasValidas, tabla
<1>2. ASSUME NEW v \in Ventanas, Insertar(v)
      PROVE  CuentasValidas'
  <2>1. campos[v] \in Aceptables /\ (UNCHANGED tabla \/ (Cabe(campos[v]) /\ Anotar(v)))
    BY <1>2, InsertarTabla
  <2>2. CASE UNCHANGED tabla
    BY <2>2 DEF CuentasValidas, tabla
  <2>3. CASE Cabe(campos[v]) /\ Anotar(v)
    BY <2>1, <2>3 DEF CuentasValidas, Anotar, Aceptables, Base, TypeOK
  <2> QED
    BY <2>1, <2>2, <2>3
<1> QED
  BY <1>1, <1>2, SoloInserta

-----------------------------------------------------------------------------
(* The refusals.                                                           *)

RechazoDe(v) ==
  /\ mensaje[v] = "existe" => cuentas[campos[v].ced] # NoHay
  /\ mensaje[v] = "error" /\ ~ fallo[v] /\ Cabe(campos[v]) =>
       cuentas[campos[v].ced] # NoHay /\ autor[campos[v].ced] # v

\* A refusal that is true stays so while its message is on the screen.
LEMMA RechazoQueda ==
  ASSUME Base, Quedan, NEW v \in Ventanas, RechazoDe(v),
         mensaje'[v] = mensaje[v], campos'[v] = campos[v], fallo'[v] = fallo[v]
  PROVE  RechazoDe(v)'
<1>1. CASE mensaje[v] \in {"existe", "error"}
  <2>1. campos[v].ced \in Cedulas
    BY <1>1 DEF Base, Comprobados, Aceptables
  <2> QED
    BY <2>1 DEF RechazoDe, Quedan
<1> QED
  BY <1>1 DEF RechazoDe

\* A window that begins to show a message has a reason for it.
LEMMA RechazoRegistrar ==
  ASSUME Base, NEW v \in Ventanas, NEW c \in Campos, NEW conf \in Claves, Registrar(v, c, conf)
  PROVE  RechazoDe(v)'
<1>1. Motivo(c, conf) \in {"cedula", "nombre", "clave", "ninguno"}
  BY MotivoMensaje
<1>2. TRUE \in Existe(c.ced) => cuentas[c.ced] # NoHay
  BY ExisteBien
<1>3. campos'[v] = c /\ UNCHANGED tabla /\ mensaje[v] = ""
  BY DEF Registrar, Base, TypeOK, Comprobados
<1>4. mensaje'[v] # "error" /\ (mensaje'[v] = "existe" => TRUE \in Existe(c.ced))
  BY <1>1, <1>3 DEF Registrar, Base, TypeOK
<1> QED
  BY <1>2, <1>3, <1>4 DEF RechazoDe, tabla

LEMMA RechazoInsertar ==
  ASSUME Base, NEW v \in Ventanas, Insertar(v)
  PROVE  RechazoDe(v)'
<1>1. campos[v] \in Aceptables /\ campos'[v] = campos[v]
  BY InsertarTabla DEF Insertar
<1>2. mensaje'[v] # "existe"
  BY InsertarTabla
<1>3. ASSUME mensaje'[v] = "error", ~ fallo'[v], Cabe(campos[v])
      PROVE  UNCHANGED tabla /\ cuentas[campos[v].ced] # NoHay /\ ~ fallo[v]
  BY <1>3 DEF Insertar, Base, TypeOK
<1>4. ~ fallo[v] => autor[campos[v].ced] # v
  BY DEF Insertar, Base, Autoria
<1> QED
  BY <1>1, <1>2, <1>3, <1>4 DEF RechazoDe, tabla

LEMMA RechazoPaso ==
  ASSUME Base, RechazoCierto, [Next]_vars
  PROVE  RechazoCierto'
<1>1. Quedan
  BY FilasQuedan
<1> SUFFICES ASSUME NEW v \in Ventanas PROVE RechazoDe(v)'
  BY DEF RechazoCierto, RechazoDe
<1>2. RechazoDe(v)
  BY DEF RechazoCierto, RechazoDe
<1>3. CASE UNCHANGED <<mensaje[v], campos[v], fallo[v]>>
  BY <1>1, <1>2, <1>3, RechazoQueda
<1>4. CASE mensaje'[v] = ""
  BY <1>4 DEF RechazoDe
<1>5. ASSUME NEW w \in Ventanas, w # v, \/ Insertar(w)
                                       \/ \E c \in Campos, conf \in Claves : Registrar(w, c, conf)
      PROVE  UNCHANGED <<mensaje[v], campos[v], fallo[v]>>
  BY <1>5 DEF Insertar, Registrar, Base, TypeOK
<1>6. ASSUME NEW w \in Ventanas, Abrir(w) \/ Volver(w)
      PROVE  UNCHANGED <<mensaje[v], campos[v], fallo[v]>>
  BY <1>6 DEF Abrir, Volver
<1>7. ASSUME NEW w \in Ventanas, Aceptar(w)
      PROVE  mensaje'[v] = "" \/ UNCHANGED <<mensaje[v], campos[v], fallo[v]>>
  BY <1>7 DEF Aceptar, Limpiar, Base, TypeOK
<1>8. ASSUME NEW p \in Programas, Salir(p)
      PROVE  mensaje'[v] = "" \/ UNCHANGED <<mensaje[v], campos[v], fallo[v]>>
  <2>1. mensaje'[v] = IF ProgramaDe[v] = p THEN "" ELSE mensaje[v]
    BY <1>8 DEF Salir
  <2>2. campos'[v] = IF ProgramaDe[v] = p THEN NoHay ELSE campos[v]
    BY <1>8 DEF Salir
  <2>3. ProgramaDe[v] # p => fallo'[v] = fallo[v]
    BY <1>8, Zenon DEF Salir, Base, TypeOK
  <2> QED
    BY <2>1, <2>2, <2>3
<1>9. CASE UNCHANGED vars
  BY <1>3, <1>9 DEF vars
<1> QED
  BY <1>3, <1>4, <1>5, <1>6, <1>7, <1>8, <1>9, RechazoRegistrar, RechazoInsertar DEF Next

-----------------------------------------------------------------------------
(* Theorems.                                                               *)

LEMMA IInvSiempre == Spec => []IInv
<1>1. Init => IInv
  <2> SUFFICES ASSUME Init PROVE IInv
    OBVIOUS
  <2>1. ExitoDuradero /\ RechazoCierto /\ CuentasValidas
    BY DEF Init, ExitoDuradero, RechazoCierto, CuentasValidas
  <2> QED
    BY <2>1, BaseInicial DEF IInv
<1>2. IInv /\ [Next]_vars => IInv'
  BY BasePaso, ExitoPaso, RechazoPaso, CuentasPaso DEF IInv
<1> QED
  BY <1>1, <1>2, PTL DEF Spec

\* Every variable of the registration keeps its type.
THEOREM TipoCorrecto == Spec => []TypeOK
<1>1. IInv => TypeOK
  BY DEF IInv, Base
<1> QED
  BY <1>1, IInvSiempre, PTL

\* validarYRegistrar: an account reported as done is never lost or replaced,
\* however many windows register the same cédula at once.
THEOREM ExitoDuraderoSiempre == Spec => []ExitoDuradero
<1>1. IInv => ExitoDuradero
  BY DEF IInv
<1> QED
  BY <1>1, IInvSiempre, PTL

\* The messages "existe" and "error" of the form are true for as long as they
\* are on the screen, as far as the failures that may happen allow.
THEOREM RechazoCiertoSiempre == Spec => []RechazoCierto
<1>1. IInv => RechazoCierto
  BY DEF IInv
<1> QED
  BY <1>1, IInvSiempre, PTL

\* Every account of USUARIOS has its own cédula and names that the form accepts,
\* whole in their columns.
THEOREM CuentasValidasSiempre == Spec => []CuentasValidas
<1>1. IInv => CuentasValidas
  BY DEF IInv
<1> QED
  BY <1>1, IInvSiempre, PTL

\* No step of any window, and no failure or crash, changes or removes an
\* account: USUARIOS is only added to.
THEOREM CuentasQuedan == Spec => [][Quedan]_vars
<1>1. Base /\ [Next]_vars => [Quedan]_vars
  BY FilasQuedan
<1>2. IInv => Base
  BY DEF IInv
<1> QED
  BY <1>1, <1>2, IInvSiempre, PTL DEF Spec

-----------------------------------------------------------------------------
(* The registration implements PadronAbstracto.                            *)

\* The answer that the users see in v.
Respuesta(v) == IF mensaje[v] = "" THEN <<"", NoHay>> ELSE <<mensaje[v], campos[v]>>

\* The checks refuse with a reason that is true of the form.
LEMMA MotivoCierto ==
  ASSUME NEW c \in Campos, NEW conf
  PROVE  /\ Motivo(c, conf) \in {"cedula", "nombre"} => c \notin Aceptables
         /\ Motivo(c, conf) = "clave" => c \in Aceptables
BY DEF Motivo, Aceptables

\* A handler of v that shows a message gives an answer to v alone.
LEMMA Responde ==
  ASSUME NEW v \in Ventanas, NEW A, NEW X,
         \A w \in Ventanas \ {v} : mensaje'[w] = mensaje[w] /\ campos'[w] = campos[w],
         mensaje'[v] # "", mensaje'[v] \in A, campos'[v] \in X
  PROVE  Padron!Responder(v, A, X) /\ Respuesta(v)' = <<mensaje'[v], campos'[v]>>
<1>1. Respuesta(v)' = <<mensaje'[v], campos'[v]>>
  BY DEF Respuesta
<1>2. \A w \in Ventanas \ {v} : Respuesta(w)' = Respuesta(w)
  BY DEF Respuesta
<1>3. [w \in Ventanas |-> Respuesta(w)'][v] \in A \X X
  <2>1. [w \in Ventanas |-> Respuesta(w)'][v] = Respuesta(v)'
    BY Zenon
  <2>2. <<mensaje'[v], campos'[v]>> \in A \X X
    OBVIOUS
  <2> QED
    BY <1>1, <2>1, <2>2
<1>4. [w \in Ventanas |-> Respuesta(w)']
        = [[w \in Ventanas |-> Respuesta(w)] EXCEPT ![v] = [w \in Ventanas |-> Respuesta(w)'][v]]
  BY <1>2
<1> QED
  BY <1>1, <1>3, <1>4 DEF Padron!Responder, Respuesta

\* The button: what the checks and the query answer.
LEMMA RegistrarCumple ==
  ASSUME Base, NEW v \in Ventanas, NEW c \in Campos, NEW conf \in Claves, Registrar(v, c, conf)
  PROVE  [Padron!Next]_(Padron!vars)
<1> USE DEF Base
<1>1. /\ campos' = [campos EXCEPT ![v] = c] /\ UNCHANGED cuentas
      /\ \A w \in Ventanas \ {v} : mensaje'[w] = mensaje[w] /\ campos'[w] = campos[w]
      /\ campos'[v] = c
  BY DEF Registrar, TypeOK, tabla
<1>2. CASE Motivo(c, conf) # "ninguno" /\ mensaje' = [mensaje EXCEPT ![v] = Motivo(c, conf)]
  <2>1. mensaje'[v] = Motivo(c, conf) /\ Motivo(c, conf) \in {"cedula", "nombre", "clave"}
    BY <1>2, MotivoMensaje DEF TypeOK
  <2>2. CASE Motivo(c, conf) \in {"cedula", "nombre"}
    <3>1. Padron!Responder(v, {"cedula", "nombre"}, Campos \ Aceptables)
      BY <1>1, <2>1, <2>2, MotivoCierto, Responde
    <3> QED
      BY <1>1, <3>1 DEF Padron!Next, Padron!Negar
  <2>3. CASE Motivo(c, conf) = "clave"
    <3>1. Padron!Responder(v, {"clave", "error"}, Aceptables)
      BY <1>1, <2>1, <2>3, MotivoCierto, Responde
    <3> QED
      BY <1>1, <3>1 DEF Padron!Next, Padron!Negar
  <2> QED
    BY <2>1, <2>2, <2>3
<1>3. CASE /\ Motivo(c, conf) = "ninguno" /\ TRUE \in Existe(c.ced)
           /\ mensaje' = [mensaje EXCEPT ![v] = "existe"]
  <2>1. c \in Aceptables /\ cuentas[c.ced] # NoHay /\ mensaje'[v] = "existe"
    BY <1>3, MotivoBien, ExisteBien DEF TypeOK
  <2>2. Padron!Responder(v, {"existe"}, Aceptables) /\ Respuesta(v)' = <<"existe", c>>
    BY <1>1, <2>1, Responde
  <2> QED
    BY <1>1, <2>1, <2>2 DEF Padron!Next, Padron!Repetida, Respuesta
<1>4. CASE fase'[v] = "insertar" /\ UNCHANGED mensaje
  <2>1. \A w \in Ventanas : Respuesta(w)' = Respuesta(w)
    BY <1>1, <1>4 DEF Respuesta, Registrar, Comprobados, TypeOK
  <2> QED
    BY <1>1, <2>1 DEF Padron!vars, Respuesta
<1>5. \/ Motivo(c, conf) # "ninguno" /\ mensaje' = [mensaje EXCEPT ![v] = Motivo(c, conf)]
      \/ /\ Motivo(c, conf) = "ninguno" /\ TRUE \in Existe(c.ced)
         /\ mensaje' = [mensaje EXCEPT ![v] = "existe"]
      \/ fase'[v] = "insertar" /\ UNCHANGED mensaje
  BY DEF Registrar, TypeOK
<1> QED
  BY <1>2, <1>3, <1>4, <1>5

\* The insertion: the abstract step that adds the account, or an error.
LEMMA InsertarCumple ==
  ASSUME Base, NEW v \in Ventanas, Insertar(v)
  PROVE  Padron!Next
<1>1. /\ campos[v] \in Aceptables /\ campos' = campos
      /\ mensaje'[v] \in {"exito", "error"}
      /\ \A w \in Ventanas \ {v} : mensaje'[w] = mensaje[w] /\ campos'[w] = campos[w]
  BY InsertarTabla DEF Insertar, Base, TypeOK
<1>2. CASE UNCHANGED tabla /\ mensaje'[v] = "error"
  <2>1. Padron!Responder(v, {"clave", "error"}, Aceptables)
    BY <1>1, <1>2, Responde
  <2> QED
    BY <1>2, <2>1 DEF Padron!Next, Padron!Negar, tabla
<1>3. CASE cuentas[campos[v].ced] = NoHay /\ Anotar(v)
  <2>1. /\ Padron!Responder(v, {"exito", "error"}, Aceptables)
        /\ Respuesta(v)' = <<mensaje'[v], campos'[v]>>
    BY <1>1, Responde
  <2> QED
    BY <1>1, <1>3, <2>1 DEF Padron!Next, Padron!Alta, Anotar, Respuesta
<1> QED
  BY <1>2, <1>3, InsertarTabla

\* A message that is accepted, and a program that ends, take answers away.
LEMMA OlvidarCumple ==
  ASSUME Base, NEW W \in SUBSET Ventanas, UNCHANGED cuentas,
         mensaje' = [v \in Ventanas |-> IF v \in W THEN "" ELSE mensaje[v]],
         \A v \in Ventanas \ W : campos'[v] = campos[v]
  PROVE  Padron!Next
<1>1. \A v \in Ventanas : Respuesta(v)' = IF v \in W THEN <<"", NoHay>> ELSE Respuesta(v)
  BY DEF Respuesta
<1>2. [v \in Ventanas |-> Respuesta(v)]'
        = [v \in Ventanas |-> IF v \in W THEN Padron!Ninguna
                               ELSE [w \in Ventanas |-> Respuesta(w)][v]]
  BY <1>1 DEF Padron!Ninguna
<1>3. Padron!Olvidar
  BY <1>2 DEF Padron!Olvidar, Respuesta
<1> QED
  BY <1>3 DEF Padron!Next

\* The two statements of a registration, the checks before them and whatever
\* other windows, programs, failures and crashes do in between are to the users
\* one step of a register that never says what is not.
THEOREM RegistroCumplePadron == Spec => CumplePadron
<1>1. Init => Padron!Init
  BY DEF Init, Padron!Init, Padron!Ninguna
<1>2. ASSUME Base, [Next]_vars
      PROVE  [Padron!Next]_(Padron!vars)
  <2>1. ASSUME NEW v \in Ventanas, Aceptar(v) PROVE Padron!Next
    <3>1. /\ mensaje' = [w \in Ventanas |-> IF w \in {v} THEN "" ELSE mensaje[w]]
          /\ \A w \in Ventanas \ {v} : campos'[w] = campos[w]
      BY <1>2, <2>1 DEF Aceptar, Limpiar, Base, TypeOK
    <3>2. UNCHANGED cuentas /\ {v} \in SUBSET Ventanas
      BY <2>1 DEF Aceptar, tabla
    <3> QED
      BY <1>2, <3>1, <3>2, OlvidarCumple
  <2>2. ASSUME NEW p \in Programas, Salir(p) PROVE Padron!Next
    <3> DEFINE W == {v \in Ventanas : ProgramaDe[v] = p}
    <3>1. /\ mensaje' = [w \in Ventanas |-> IF w \in W THEN "" ELSE mensaje[w]]
          /\ \A w \in Ventanas \ W : campos'[w] = campos[w]
      BY <2>2 DEF Salir
    <3>2. UNCHANGED cuentas
      BY <2>2 DEF Salir, tabla
    <3> QED
      BY <1>2, <3>1, <3>2, OlvidarCumple
  <2>3. CASE UNCHANGED <<tabla, campos, mensaje>>
    BY <2>3 DEF Padron!vars, tabla
  <2>4. ASSUME NEW v \in Ventanas, Abrir(v) \/ Volver(v)
        PROVE  UNCHANGED <<tabla, campos, mensaje>>
    BY <2>4 DEF Abrir, Volver
  <2> QED
    BY <1>2, <2>1, <2>2, <2>3, <2>4, RegistrarCumple, InsertarCumple DEF Next, vars
<1>3. IInv => Base
  BY DEF IInv
<1> QED
  BY <1>1, <1>2, <1>3, IInvSiempre, PTL DEF Spec, CumplePadron, Padron!Spec
=============================================================================
