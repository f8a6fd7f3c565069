------------------------------ MODULE Registro ------------------------------
(***************************************************************************)
(* The registration of users: the windows RegistroUsuario, which the login *)
(* window opens as many times as it is asked to, the checks and the two    *)
(* statements of RegistroController.validarYRegistrar, and the table       *)
(* USUARIOS, whose key is the cédula.                                      *)
(*                                                                         *)
(* The windows of one program share its event thread, and a message of one *)
(* blocks them all; those of different programs interleave, also between   *)
(* the query that finds a cédula free and the insertion.                   *)
(***************************************************************************)
EXTENDS Naturals, Sequences

CONSTANTS
  Ventanas,      \* registration windows
  Programas,     \* executions of the program
  ProgramaDe,    \* the program of each window
  Cedulas,       \* texts of 10 digits
  Cortas,        \* other texts that the field accepts: fewer digits
  Palabras,      \* names as typed: sequences of classes of characters
  Claves,        \* passwords
  Largas,        \* those that are longer than the column CON_USU
  Ancho,         \* the width of the columns NOM_USU and APE_USU
  NoHay,         \* "no row", "no form"
  Fallos         \* database failures: "leer", "escribir", "respuesta"

-----------------------------------------------------------------------------
(* Names.  "m" is a letter a-z and "M" one of A-Z; "á" is one of áéíóúñ    *)
(* and "Á" one of ÁÉÍÓÚÑ; " " is anything else that may be typed.          *)

Mayuscula(c) == CASE c = "m" -> "M" [] c = "á" -> "Á" [] OTHER -> c
Minuscula(c) == CASE c = "M" -> "m" [] c = "Á" -> "á" [] OTHER -> c

\* capitalizar, when a name loses the focus.
Capitalizar(s) ==
  [i \in DOMAIN s |-> IF i = 1 THEN Mayuscula(s[i]) ELSE Minuscula(s[i])]

\* matches("[A-Z][a-záéíóúñ]+")
NombreValido(s) ==
  Len(s) >= 2 /\ s[1] = "M" /\ \A i \in 2 .. Len(s) : s[i] \in {"m", "á"}

\* The Enter key presses the button without taking the focus from the name.
Nombres == Palabras \cup {Capitalizar(s) : s \in Palabras}
Campos  == [ced : Cedulas \cup Cortas, nom : Nombres, ape : Nombres, con : Claves]

\* The texts of c fit in their columns; nothing checks it before the database.
Cabe(c) == Len(c.nom) <= Ancho /\ Len(c.ape) <= Ancho /\ c.con \notin Largas

ASSUME VentanasAssumption == ProgramaDe \in [Ventanas -> Programas]
ASSUME CedulasAssumption  == Cedulas \cap Cortas = {}
ASSUME NoHayAssumption    == NoHay \notin Campos /\ NoHay \notin Ventanas
ASSUME FallosAssumption   == Fallos \subseteq {"leer", "escribir", "respuesta"}

VARIABLES
  cuentas,       \* the table USUARIOS: the row of each cédula
  autor,         \* the window that inserted it (auxiliary)
  fase,          \* where each window waits
  campos,        \* what it is registering
  mensaje,       \* the message it shows
  fallo,         \* in its last attempt the database failed to its harm (auxiliary)
  exitos         \* the registrations reported as done (auxiliary)

tabla == <<cuentas, autor>>
vars  == <<tabla, fase, campos, mensaje, fallo, exitos>>

Mensajes == {"", "cedula", "nombre", "clave", "existe", "error", "exito"}

-----------------------------------------------------------------------------
(* Mutants.                                                                *)

\* The insertion replaces the row that is there.
InsertarEncima(v) ==
  /\ fase[v] = "insertar"
  /\ cuentas' = [cuentas EXCEPT ![campos[v].ced] = campos[v]]
  /\ autor' = [autor EXCEPT ![campos[v].ced] = v]
  /\ mensaje' = [mensaje EXCEPT ![v] = "exito"]
  /\ fase' = [fase EXCEPT ![v] = "mensaje"]
  /\ exitos' = exitos \cup {[ven |-> v, cam |-> campos[v]]}
  /\ UNCHANGED <<campos, fallo>>

\* The answer of the statement is not looked at: whatever it is, it was done.
InsertarOptimista(v) ==
  /\ fase[v] = "insertar"
  /\ cuentas' = IF cuentas[campos[v].ced] # NoHay THEN cuentas
                  ELSE [cuentas EXCEPT ![campos[v].ced] = campos[v]]
  /\ mensaje' = [mensaje EXCEPT ![v] = "exito"]
  /\ fase' = [fase EXCEPT ![v] = "mensaje"]
  /\ UNCHANGED <<autor, campos, fallo, exitos>>

\* A cédula is said to be registered when the query fails.
ExisteSiFalla(ced) ==
  {cuentas[ced] # NoHay} \cup (IF "leer" \in Fallos THEN {TRUE} ELSE {})

\* The names are not checked.
MotivoSinNombres(c, conf) ==
  IF c.ced \notin Cedulas THEN "cedula"
  ELSE IF c.con # conf THEN "clave"
  ELSE "ninguno"

\* The form goes on with no message at all.
LimpiarMensaje(v) ==
  /\ campos' = [campos EXCEPT ![v] = NoHay]
  /\ mensaje' = [mensaje EXCEPT ![v] = NoHay]

-----------------------------------------------------------------------------
Init ==
  /\ cuentas = [c \in Cedulas |-> NoHay]
  /\ autor = [c \in Cedulas |-> NoHay]
  /\ fase = [v \in Ventanas |-> "cerrada"]
  /\ campos = [v \in Ventanas |-> NoHay]
  /\ mensaje = [v \in Ventanas |-> ""]
  /\ fallo = [v \in Ventanas |-> FALSE]
  /\ exitos = {}

\* No window of v's program is in a handler or showing a message.
Atiende(v) ==
  \A w \in Ventanas :
    ProgramaDe[w] = ProgramaDe[v] => fase[w] \in {"cerrada", "formulario"}

\* Registrarse in the login window.
Abrir(v) ==
  /\ fase[v] = "cerrada" /\ Atiende(v)
  /\ fase' = [fase EXCEPT ![v] = "formulario"]
  /\ UNCHANGED <<tabla, campos, mensaje, fallo, exitos>>

\* The checks of the form, in their order.
Motivo(c, conf) ==
  IF c.ced \notin Cedulas THEN "cedula"
  ELSE IF ~ NombreValido(c.nom) \/ ~ NombreValido(c.ape) THEN "nombre"
  ELSE IF c.con # conf THEN "clave"
  ELSE "ninguno"

\* The answers of existeUsuario: a query that fails finds nobody.
Existe(ced) ==
  {cuentas[ced] # NoHay} \cup (IF "leer" \in Fallos THEN {FALSE} ELSE {})

\* The button: the checks, and the query if they pass.
Registrar(v, c, conf) ==
  /\ fase[v] = "formulario" /\ Atiende(v)
  /\ campos' = [campos EXCEPT ![v] = c]
  /\ \/ /\ Motivo(c, conf) # "ninguno"
        /\ mensaje' = [mensaje EXCEPT ![v] = Motivo(c, conf)]
        /\ fase' = [fase EXCEPT ![v] = "mensaje"]
        /\ UNCHANGED fallo
     \/ /\ Motivo(c, conf) = "ninguno" /\ TRUE \in Existe(c.ced)
        /\ mensaje' = [mensaje EXCEPT ![v] = "existe"]
        /\ fase' = [fase EXCEPT ![v] = "mensaje"]
        /\ UNCHANGED fallo
     \/ /\ Motivo(c, conf) = "ninguno" /\ FALSE \in Existe(c.ced)
        /\ fase' = [fase EXCEPT ![v] = "insertar"]
        /\ fallo' = [fallo EXCEPT ![v] = cuentas[c.ced] # NoHay]
        /\ UNCHANGED mensaje
  /\ UNCHANGED <<tabla, exitos>>

Anotar(v) ==
  /\ cuentas' = [cuentas EXCEPT ![campos[v].ced] = campos[v]]
  /\ autor' = [autor EXCEPT ![campos[v].ced] = v]

\* registrarUsuario.  The key refuses a cédula that is there, and the columns
\* (in strict mode) a text that they do not hold; the statement may fail; and it
\* may be committed with its answer lost.
Insertar(v) ==
  /\ fase[v] = "insertar"
  /\ fase' = [fase EXCEPT ![v] = "mensaje"]
  /\ LET posible == cuentas[campos[v].ced] = NoHay /\ Cabe(campos[v]) IN
     \/ /\ posible
        /\ Anotar(v)
        /\ mensaje' = [mensaje EXCEPT ![v] = "exito"]
        /\ exitos' = exitos \cup {[ven |-> v, cam |-> campos[v]]}
        /\ UNCHANGED fallo
     \/ /\ ~ posible
        /\ mensaje' = [mensaje EXCEPT ![v] = "error"]
        /\ UNCHANGED <<tabla, fallo, exitos>>
     \/ /\ posible /\ "escribir" \in Fallos
        /\ mensaje' = [mensaje EXCEPT ![v] = "error"]
        /\ fallo' = [fallo EXCEPT ![v] = TRUE]
        /\ UNCHANGED <<tabla, exitos>>
     \/ /\ posible /\ "respuesta" \in Fallos
        /\ Anotar(v)
        /\ mensaje' = [mensaje EXCEPT ![v] = "error"]
        /\ fallo' = [fallo EXCEPT ![v] = TRUE]
        /\ UNCHANGED exitos
  /\ UNCHANGED campos

Limpiar(v) ==
  /\ campos' = [campos EXCEPT ![v] = NoHay]
  /\ mensaje' = [mensaje EXCEPT ![v] = ""]

\* The message is accepted: after a success the window closes, and after
\* anything else it goes on with its fields, which may be corrected.
Aceptar(v) ==
  /\ fase[v] = "mensaje"
  /\ fase' = [fase EXCEPT ![v] = IF mensaje[v] = "exito" THEN "cerrada" ELSE "formulario"]
  /\ Limpiar(v)
  /\ fallo' = [fallo EXCEPT ![v] = FALSE]
  /\ UNCHANGED <<tabla, exitos>>

\* "Iniciar sesión" in the registration window.
Volver(v) ==
  /\ fase[v] = "formulario" /\ Atiende(v)
  /\ fase' = [fase EXCEPT ![v] = "cerrada"]
  /\ UNCHANGED <<tabla, campos, mensaje, fallo, exitos>>

\* The close button of any window ends the whole program (EXIT_ON_CLOSE), and
\* so does a crash, anywhere.
Salir(p) ==
  LET W == {v \in Ventanas : ProgramaDe[v] = p} IN
  /\ \E v \in W : fase[v] # "cerrada"
  /\ fase' = [v \in Ventanas |-> IF v \in W THEN "cerrada" ELSE fase[v]]
  /\ campos' = [v \in Ventanas |-> IF v \in W THEN NoHay ELSE campos[v]]
  /\ mensaje' = [v \in Ventanas |-> IF v \in W THEN "" ELSE mensaje[v]]
  /\ fallo' = [v \in Ventanas |-> v \notin W /\ fallo[v]]
  /\ UNCHANGED <<tabla, exitos>>

Next ==
  \/ \E v \in Ventanas : Abrir(v)
  \/ \E v \in Ventanas, c \in Campos, conf \in Claves : Registrar(v, c, conf)
  \/ \E v \in Ventanas : Insertar(v)
  \/ \E v \in Ventanas : Aceptar(v)
  \/ \E v \in Ventanas : Volver(v)
  \/ \E p \in Programas : Salir(p)

Spec == Init /\ [][Next]_vars

-----------------------------------------------------------------------------
(* Properties.                                                             *)

TypeOK ==
  /\ cuentas \in [Cedulas -> Campos \cup {NoHay}]
  /\ autor \in [Cedulas -> Ventanas \cup {NoHay}]
  /\ fase \in [Ventanas -> {"cerrada", "formulario", "insertar", "mensaje"}]
  /\ campos \in [Ventanas -> Campos \cup {NoHay}]
  /\ mensaje \in [Ventanas -> Mensajes]
  /\ fallo \in [Ventanas -> BOOLEAN]
  /\ exitos \subseteq [ven : Ventanas, cam : Campos]

\* A registration that was reported as done is in the table, with the data of
\* the window that made it, and stays: of two windows that found the same
\* cédula free only one is told so, and the other overwrites nothing.
ExitoDuradero ==
  \A x \in exitos :
    x.cam.ced \in Cedulas /\ cuentas[x.cam.ced] = x.cam /\ autor[x.cam.ced] = x.ven

\* Whatever the failures, nobody is told that a cédula is registered unless it
\* is; and an attempt in which the database did not fail gives an error only
\* for a text that its column does not hold or a cédula that another window
\* took between the two statements.
RechazoCierto ==
  \A v \in Ventanas :
    /\ mensaje[v] = "existe" => cuentas[campos[v].ced] # NoHay
    /\ mensaje[v] = "error" /\ ~ fallo[v] /\ Cabe(campos[v]) =>
         cuentas[campos[v].ced] # NoHay /\ autor[campos[v].ced] # v

\* No sequence of registrations, failures and crashes leaves an account that
\* the form would not accept, or cut to the width of its columns.
CuentasValidas ==
  \A c \in Cedulas : cuentas[c] # NoHay =>
    /\ cuentas[c].ced = c /\ Cabe(cuentas[c])
    /\ NombreValido(cuentas[c].nom) /\ NombreValido(cuentas[c].ape)

\* What the checks of the form let through.
Aceptables ==
  {c \in Campos : c.ced \in Cedulas /\ NombreValido(c.nom) /\ NombreValido(c.ape)}

\* A query and an insertion with anything in between are to the users one step
\* that adds an account or does not, whose answers are true but for "error".
Padron == INSTANCE PadronAbstracto WITH
  Formularios <- Campos, Admisibles <- Aceptables, Libre <- NoHay,
  padron    <- cuentas,
  respuesta <- [v \in Ventanas |->
                  IF mensaje[v] = "" THEN <<"", NoHay>> ELSE <<mensaje[v], campos[v]>>]
CumplePadron == Padron!Spec
=============================================================================
