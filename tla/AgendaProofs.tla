---------------------------- MODULE AgendaProofs ----------------------------
(***************************************************************************)
(* Proofs about Agenda, for any sessions, users, calendar, table size and  *)
(* combination of database failures.                                       *)
(***************************************************************************)
EXTENDS Agenda, FiniteSetTheorems, TLAPS

USE SesionesAssumption, DiasAssumption, TextosAssumption, NoHayAssumption,
    FallosAssumption

-----------------------------------------------------------------------------
(* What the statements return, and what a write does.                      *)

LEMMA VaciaTipo == Vacia \in Listas
BY DEF Vacia, Listas

\* A query answers the rows, or, when it fails, nothing.
LEMMA LecturaPosible ==
  ASSUME NEW l, NEW r \in Lecturas(l)
  PROVE  r = l \/ ("leer" \in Fallos /\ r = Vacia)
BY DEF Lecturas

\* Either way it is a list of rows of the user asked for.
LEMMA LecturaPropia ==
  ASSUME TypeOK, NEW u, NEW d, NEW r \in Lecturas(ListaDe(u)) \cup Lecturas(DiaDe(u, d))
  PROVE  r \in Listas /\ \A f \in Filas : r[f] # NoHay => r[f].usu = u
<1>1. r = ListaDe(u) \/ r = DiaDe(u, d) \/ r = Vacia
  BY DEF Lecturas
<1> QED
  BY <1>1 DEF TypeOK, ListaDe, DiaDe, Vacia, Listas

\* A write leaves the table as it was or as intended; it is reported as done
\* only in the second case, and only a lost answer hides it.
LEMMA EscrituraPosible ==
  ASSUME NEW p \in Sesiones, fase \in [Sesiones -> Fases],
         NEW S, NEW t, NEW siNo \in Fases, Escribir(p, S, t, siNo)
  PROVE  /\ fase' \in [Sesiones -> Fases]
         /\ \A q \in Sesiones : q # p => fase'[q] = fase[q]
         /\ \/ eventos' = t /\ S # {} /\ fase'[p] = "refrescar"
            \/ eventos' = eventos /\ fase'[p] = siNo
            \/ eventos' = t /\ S # {} /\ fase'[p] = siNo /\ "respuesta" \in Fallos
BY DEF Escribir, Fases

-----------------------------------------------------------------------------
(* The three statements that write, as the handlers issue them.            *)

\* Every changed row was free or of user u, and is so afterwards.
CambiaSolo(u) ==
  \A f \in Filas : eventos'[f] # eventos[f] =>
    /\ eventos[f] # NoHay => eventos[f].usu = u
    /\ eventos'[f] # NoHay => eventos'[f].usu = u

\* How a write by p, in a handler that goes back to siNo, may end.
Resultado(p, siNo) ==
  /\ fase' \in [Sesiones -> Fases]
  /\ \A q \in Sesiones : q # p => fase'[q] = fase[q]
  /\ \/ fase'[p] = "refrescar"
     \/ fase'[p] = siNo /\ eventos' = eventos
     \/ fase'[p] = siNo /\ "respuesta" \in Fallos

\* The event that Guardar inserts.
Nuevo(p, h, t) == [usu |-> UsuarioDe[p], dia |-> sel[p], hora |-> h, tex |-> t]

LEMMA CrearEfecto ==
  ASSUME TypeOK, NEW p \in Sesiones, NEW h \in Horas, NEW t \in Textos,
         GuardarNuevo(p, h, t)
  PROVE  /\ fase[p] = "creando" /\ Resultado(p, "libre")
         /\ eventos' \in Listas
         /\ CambiaSolo(UsuarioDe[p])
         /\ \/ eventos' = eventos
            \/ /\ t \in Completos
               /\ \E f \in Filas : /\ eventos[f] = NoHay
                                   /\ eventos' = [eventos EXCEPT ![f] = Nuevo(p, h, t)]
<1> DEFINE e == Nuevo(p, h, t)
<1>0. fase[p] = "creando"
  BY DEF GuardarNuevo
<1>1. e \in Evento /\ e.usu = UsuarioDe[p]
  BY DEF TypeOK, Evento, Nuevo
<1>2. CASE t \in Completos
  <2>1. PICK f \in Filas : /\ eventos[f] = NoHay
                           /\ Escribir(p, {f}, [eventos EXCEPT ![f] = e], "libre")
    BY <1>2 DEF GuardarNuevo, Nuevo
  <2>2. /\ Resultado(p, "libre")
        /\ eventos' = eventos \/ eventos' = [eventos EXCEPT ![f] = e]
    BY <2>1, EscrituraPosible DEF TypeOK, Resultado, Fases
  <2>3. eventos' \in Listas /\ CambiaSolo(UsuarioDe[p])
    BY <1>1, <2>1, <2>2 DEF TypeOK, Listas, CambiaSolo
  <2> QED
    BY <1>0, <1>2, <2>1, <2>2, <2>3
<1>3. CASE t \notin Completos
  <2>1. Escribir(p, {}, eventos, "libre")
    BY <1>3 DEF GuardarNuevo
  <2>2. Resultado(p, "libre") /\ eventos' = eventos
    BY <2>1, EscrituraPosible DEF TypeOK, Resultado, Fases
  <2> QED
    BY <1>0, <2>2 DEF TypeOK, CambiaSolo
<1> QED
  BY <1>2, <1>3

LEMMA EditarEfecto ==
  ASSUME TypeOK, SoloPropias, NEW p \in Sesiones,
         NEW d \in Dias, NEW h \in Horas, NEW t \in Textos,
         GuardarEdicion(p, d, h, t)
  PROVE  /\ fase[p] = "editando" /\ Resultado(p, "libre")
         /\ eventos' \in Listas
         /\ CambiaSolo(UsuarioDe[p])
         /\ \/ eventos' = eventos
            \/ eventos' = [f \in Filas |->
                 IF f \in MomentoDe(original[p])
                   THEN [usu |-> UsuarioDe[p], dia |-> d, hora |-> h, tex |-> t]
                   ELSE eventos[f]]
<1> DEFINE S == MomentoDe(original[p])
           e == [usu |-> UsuarioDe[p], dia |-> d, hora |-> h, tex |-> t]
           T == [f \in Filas |-> IF f \in S THEN e ELSE eventos[f]]
<1>1. original[p] # NoHay /\ original[p].usu = UsuarioDe[p]
  BY DEF GuardarEdicion, SoloPropias
<1>2. e \in Evento /\ e.usu = UsuarioDe[p]
  BY DEF Evento
<1>3. Escribir(p, S, T, "libre")
  BY <1>1 DEF GuardarEdicion
<1>4. Resultado(p, "libre") /\ (eventos' = eventos \/ eventos' = T)
  BY <1>3, EscrituraPosible DEF TypeOK, Resultado, Fases
<1>5. \A f \in S : eventos[f].usu = UsuarioDe[p]
  BY <1>1 DEF MomentoDe
<1>6. eventos' \in Listas /\ CambiaSolo(UsuarioDe[p])
  BY <1>2, <1>4, <1>5 DEF TypeOK, Listas, CambiaSolo
<1>7. fase[p] = "editando"
  BY DEF GuardarEdicion
<1> QED
  BY <1>4, <1>6, <1>7

LEMMA BorrarEfecto ==
  ASSUME TypeOK, SoloPropias, NEW p \in Sesiones, Borrar(p)
  PROVE  /\ fase[p] = "confirmando" /\ Resultado(p, "elegirBorrado")
         /\ eventos' \in Listas
         /\ CambiaSolo(UsuarioDe[p])
         /\ \/ eventos' = eventos
            \/ eventos' = [f \in Filas |->
                 IF f \in MomentoDe(original[p]) THEN NoHay ELSE eventos[f]]
<1> DEFINE S == MomentoDe(original[p])
           T == [f \in Filas |-> IF f \in S THEN NoHay ELSE eventos[f]]
<1>1. original[p] # NoHay /\ original[p].usu = UsuarioDe[p]
  BY DEF Borrar, SoloPropias
<1>2. Escribir(p, S, T, "elegirBorrado")
  BY DEF Borrar
<1>3. Resultado(p, "elegirBorrado") /\ (eventos' = eventos \/ eventos' = T)
  BY <1>2, EscrituraPosible DEF TypeOK, Resultado, Fases
<1>4. \A f \in S : eventos[f].usu = UsuarioDe[p]
  BY <1>1 DEF MomentoDe
<1>5. eventos' \in Listas /\ CambiaSolo(UsuarioDe[p])
  BY <1>3, <1>4 DEF TypeOK, Listas, CambiaSolo
<1>6. fase[p] = "confirmando"
  BY DEF Borrar
<1> QED
  BY <1>3, <1>5, <1>6

-----------------------------------------------------------------------------
(* Type correctness and ownership, together: the UPDATE keeps the owner of *)
(* the chosen event, so that the table keeps its type takes that the       *)
(* chosen event is there and is the session's own.                         *)

Propiedad == TypeOK /\ SoloPropias

LEMMA PropiedadInicial == Init => Propiedad
<1> SUFFICES ASSUME Init PROVE Propiedad
  OBVIOUS
<1>1. TypeOK
  BY VaciaTipo DEF Init, TypeOK, Fases, Dias
<1>2. SoloPropias
  BY DEF Init, SoloPropias, Vacia
<1> QED
  BY <1>1, <1>2 DEF Propiedad

LEMMA PropiedadPaso == Propiedad /\ [Next]_vars => Propiedad'
<1> SUFFICES ASSUME TypeOK, SoloPropias, [Next]_vars PROVE TypeOK' /\ SoloPropias'
  BY DEF Propiedad
<1>1. CASE UNCHANGED vars
  BY <1>1 DEF vars, TypeOK, SoloPropias
<1>2. CASE Medianoche
  BY <1>2 DEF Medianoche, pantalla, TypeOK, SoloPropias, Dias
<1>3. ASSUME NEW p \in Sesiones, IniciarSesion(p) PROVE TypeOK' /\ SoloPropias'
  <2>1. PICK l \in Lecturas(ListaDe(UsuarioDe[p])) : memoria' = [memoria EXCEPT ![p] = l]
    BY <1>3 DEF IniciarSesion
  <2>2. l \in Listas /\ \A f \in Filas : l[f] # NoHay => l[f].usu = UsuarioDe[p]
    BY <2>1, LecturaPropia
  <2>3. TypeOK'
    BY <1>3, <2>1, <2>2 DEF IniciarSesion, TypeOK, Fases
  <2>4. SoloPropias'
    BY <1>3, <2>1, <2>2 DEF IniciarSesion, TypeOK, SoloPropias
  <2> QED
    BY <2>3, <2>4
<1>4. ASSUME NEW p \in Sesiones, NEW d \in Dias, ElegirDia(p, d)
      PROVE  TypeOK' /\ SoloPropias'
  BY <1>4 DEF ElegirDia, TypeOK, SoloPropias
<1>5. ASSUME NEW p \in Sesiones, Agendar(p) PROVE TypeOK' /\ SoloPropias'
  BY <1>5 DEF Agendar, pantalla, TypeOK, SoloPropias, Fases
<1>6. ASSUME NEW p \in Sesiones, NEW h \in Horas, NEW t \in Textos, GuardarNuevo(p, h, t)
      PROVE  TypeOK' /\ SoloPropias'
  <2>1. eventos' \in Listas /\ Resultado(p, "libre")
    BY <1>6, CrearEfecto
  <2>2. UNCHANGED <<hoy, memoria, sel, agendable, modificable, evs, original>>
    BY <1>6 DEF GuardarNuevo, pantalla
  <2> QED
    BY <2>1, <2>2 DEF Resultado, TypeOK, SoloPropias
<1>7. ASSUME NEW p \in Sesiones, NEW a \in {"elegirEdicion", "elegirBorrado"},
             AbrirSelector(p, a)
      PROVE  TypeOK' /\ SoloPropias'
  <2>1. PICK l \in Lecturas(DiaDe(UsuarioDe[p], sel[p])) : evs' = [evs EXCEPT ![p] = l]
    BY <1>7 DEF AbrirSelector
  <2>2. l \in Listas /\ \A f \in Filas : l[f] # NoHay => l[f].usu = UsuarioDe[p]
    BY <2>1, LecturaPropia
  <2>3. TypeOK'
    BY <1>7, <2>1, <2>2 DEF AbrirSelector, pantalla, TypeOK, Fases
  <2>4. SoloPropias'
    BY <1>7, <2>1, <2>2 DEF AbrirSelector, pantalla, TypeOK, SoloPropias
  <2> QED
    BY <2>3, <2>4
<1>8. ASSUME NEW p \in Sesiones, NEW f \in Filas, Elegir(p, f)
      PROVE  TypeOK' /\ SoloPropias'
  <2>1. evs[p][f] \in Evento /\ evs[p][f].usu = UsuarioDe[p]
    BY <1>8 DEF Elegir, TypeOK, Listas, SoloPropias
  <2>2. TypeOK'
    BY <1>8, <2>1, VaciaTipo DEF Elegir, pantalla, TypeOK, Fases
  <2>3. SoloPropias'
    BY <1>8, <2>1 DEF Elegir, pantalla, TypeOK, SoloPropias, Vacia
  <2> QED
    BY <2>2, <2>3
<1>9. ASSUME NEW p \in Sesiones, Cancelar(p) PROVE TypeOK' /\ SoloPropias'
  BY <1>9, VaciaTipo DEF Cancelar, pantalla, TypeOK, SoloPropias, Fases, Vacia
<1>10. ASSUME NEW p \in Sesiones, NEW d \in Dias, NEW h \in Horas, NEW t \in Textos,
              GuardarEdicion(p, d, h, t)
       PROVE  TypeOK' /\ SoloPropias'
  <2>1. eventos' \in Listas /\ Resultado(p, "libre")
    BY <1>10, EditarEfecto
  <2>2. /\ original' = [original EXCEPT ![p] = NoHay]
        /\ UNCHANGED <<hoy, memoria, sel, agendable, modificable, evs>>
    BY <1>10 DEF GuardarEdicion, pantalla
  <2> QED
    BY <2>1, <2>2 DEF Resultado, TypeOK, SoloPropias
<1>11. ASSUME NEW p \in Sesiones, NoBorrar(p) PROVE TypeOK' /\ SoloPropias'
  BY <1>11 DEF NoBorrar, pantalla, TypeOK, SoloPropias, Fases
<1>12. ASSUME NEW p \in Sesiones, Borrar(p) PROVE TypeOK' /\ SoloPropias'
  <2>1. eventos' \in Listas /\ Resultado(p, "elegirBorrado")
    BY <1>12, BorrarEfecto
  <2>2. /\ original' = [original EXCEPT ![p] = NoHay]
        /\ evs' = [evs EXCEPT ![p] = IF fase'[p] = "refrescar" THEN Vacia ELSE @]
        /\ UNCHANGED <<hoy, memoria, sel, agendable, modificable>>
    BY <1>12 DEF Borrar, pantalla
  <2>3. TypeOK'
    BY <2>1, <2>2, VaciaTipo DEF Resultado, TypeOK
  <2>4. SoloPropias'
    BY <2>1, <2>2 DEF Resultado, TypeOK, SoloPropias, Vacia
  <2> QED
    BY <2>3, <2>4
<1>13. ASSUME NEW p \in Sesiones, Refrescar(p) PROVE TypeOK' /\ SoloPropias'
  <2>1. PICK l \in Lecturas(ListaDe(UsuarioDe[p])) : memoria' = [memoria EXCEPT ![p] = l]
    BY <1>13 DEF Refrescar
  <2>2. l \in Listas /\ \A f \in Filas : l[f] # NoHay => l[f].usu = UsuarioDe[p]
    BY <2>1, LecturaPropia
  <2>3. TypeOK'
    BY <1>13, <2>1, <2>2 DEF Refrescar, pantalla, TypeOK, Fases
  <2>4. SoloPropias'
    BY <1>13, <2>1, <2>2 DEF Refrescar, pantalla, TypeOK, SoloPropias
  <2> QED
    BY <2>3, <2>4
<1>14. ASSUME NEW p \in Sesiones, Terminar(p) PROVE TypeOK' /\ SoloPropias'
  BY <1>14, VaciaTipo DEF Terminar, TypeOK, SoloPropias, Fases, Vacia, Dias
<1> QED
  BY <1>1, <1>2, <1>3, <1>4, <1>5, <1>6, <1>7, <1>8, <1>9, <1>10, <1>11, <1>12,
     <1>13, <1>14 DEF Next, Paso, AbrirEdicion, AbrirBorrado

THEOREM PropiedadInvariante == Spec => []Propiedad
BY PropiedadInicial, PropiedadPaso, PTL DEF Spec

\* Every variable keeps its type.
THEOREM TipoCorrecto == Spec => []TypeOK
BY PropiedadInvariante, PTL DEF Propiedad

\* A session never holds, and so never edits or deletes, another user's event.
THEOREM SoloPropiasSiempre == Spec => []SoloPropias
BY PropiedadInvariante, PTL DEF Propiedad

-----------------------------------------------------------------------------
(* Which steps write, and where.                                           *)

LEMMA SoloEscribenTres ==
  ASSUME [Next]_vars, eventos' # eventos
  PROVE  \E p \in Sesiones :
           \/ \E h \in Horas, t \in Textos : GuardarNuevo(p, h, t)
           \/ \E d \in Dias, h \in Horas, t \in Textos : GuardarEdicion(p, d, h, t)
           \/ Borrar(p)
BY DEF Next, Paso, vars, Medianoche, IniciarSesion, ElegirDia, Agendar, AbrirEdicion,
       AbrirBorrado, AbrirSelector, Elegir, Cancelar, NoBorrar, Refrescar, Terminar

\* An existing event changes only at the moment of the chosen event of a
\* session that is editing it or deleting it.
THEOREM AfectaSoloElMomentoSiempre == Spec => AfectaSoloElMomento
<1> DEFINE Toca(p, f) ==
             /\ fase[p] = IF eventos'[f] = NoHay THEN "confirmando" ELSE "editando"
             /\ fase'[p] # fase[p]
             /\ original[p].usu  = eventos[f].usu
             /\ original[p].dia  = eventos[f].dia
             /\ original[p].hora = eventos[f].hora
<1>1. ASSUME Propiedad, [Next]_vars,
             NEW f \in Filas, eventos[f] # NoHay, eventos'[f] # eventos[f]
      PROVE  \E p \in Sesiones : Toca(p, f)
  <2>1. TypeOK /\ SoloPropias
    BY <1>1 DEF Propiedad
  <2>2. ASSUME NEW p \in Sesiones, NEW h \in Horas, NEW t \in Textos,
               GuardarNuevo(p, h, t)
        PROVE  FALSE
    <3>1. \E g \in Filas : /\ eventos[g] = NoHay
                          /\ eventos' = [eventos EXCEPT ![g] = Nuevo(p, h, t)]
      BY <1>1, <2>1, <2>2, CrearEfecto
    <3> QED
      BY <1>1, <2>1, <3>1 DEF TypeOK, Listas
  <2>3. ASSUME NEW p \in Sesiones, NEW d \in Dias, NEW h \in Horas, NEW t \in Textos,
               GuardarEdicion(p, d, h, t)
        PROVE  Toca(p, f)
    <3>1. f \in MomentoDe(original[p]) /\ eventos'[f] \in Evento
      BY <1>1, <2>1, <2>3, EditarEfecto DEF Evento
    <3>2. fase[p] = "editando" /\ fase'[p] # "editando"
      BY <2>1, <2>3, EditarEfecto DEF Resultado
    <3> QED
      BY <3>1, <3>2 DEF MomentoDe
  <2>4. ASSUME NEW p \in Sesiones, Borrar(p)
        PROVE  Toca(p, f)
    <3>1. f \in MomentoDe(original[p]) /\ eventos'[f] = NoHay
      BY <1>1, <2>1, <2>4, BorrarEfecto
    <3>2. fase[p] = "confirmando" /\ fase'[p] # "confirmando"
      BY <2>1, <2>4, BorrarEfecto DEF Resultado
    <3> QED
      BY <3>1, <3>2 DEF MomentoDe
  <2> QED
    BY <1>1, <2>2, <2>3, <2>4, SoloEscribenTres
<1>2. Propiedad /\ [Next]_vars =>
        [\A f \in Filas : eventos[f] # NoHay /\ eventos'[f] # eventos[f] =>
           \E p \in Sesiones : Toca(p, f)]_vars
  BY <1>1
<1> QED
  BY <1>2, PropiedadInvariante, PTL DEF Spec, AfectaSoloElMomento

\* A write of one session touches and leaves only rows of its own user.
THEOREM AisladoPorUsuarioSiempre == Spec => AisladoPorUsuario
<1> DEFINE Propio(p, f) ==
             /\ fase'[p] # fase[p]
             /\ \A e \in {eventos[f], eventos'[f]} \ {NoHay} : e.usu = UsuarioDe[p]
<1>1. ASSUME Propiedad, [Next]_vars, NEW f \in Filas, eventos'[f] # eventos[f]
      PROVE  \E p \in Sesiones : Propio(p, f)
  <2>1. TypeOK /\ SoloPropias
    BY <1>1 DEF Propiedad
  <2>2. PICK p \in Sesiones :
          \/ \E h \in Horas, t \in Textos : GuardarNuevo(p, h, t)
          \/ \E d \in Dias, h \in Horas, t \in Textos : GuardarEdicion(p, d, h, t)
          \/ Borrar(p)
    BY <1>1, SoloEscribenTres
  <2>3. /\ CambiaSolo(UsuarioDe[p])
        /\ \/ fase[p] \in {"creando", "editando"} /\ Resultado(p, "libre")
           \/ fase[p] = "confirmando" /\ Resultado(p, "elegirBorrado")
    <3>1. CASE \E h \in Horas, t \in Textos : GuardarNuevo(p, h, t)
      BY <2>1, <3>1, CrearEfecto
    <3>2. CASE \E d \in Dias, h \in Horas, t \in Textos : GuardarEdicion(p, d, h, t)
      BY <2>1, <3>2, EditarEfecto
    <3>3. CASE Borrar(p)
      BY <2>1, <3>3, BorrarEfecto
    <3> QED
      BY <2>2, <3>1, <3>2, <3>3
  <2>4. fase'[p] # fase[p]
    BY <2>3 DEF Resultado
  <2> QED
    BY <1>1, <2>3, <2>4 DEF CambiaSolo
<1>2. Propiedad /\ [Next]_vars =>
        [\A f \in Filas : eventos'[f] # eventos[f] => \E p \in Sesiones : Propio(p, f)]_vars
  BY <1>1
<1> QED
  BY <1>2, PropiedadInvariante, PTL DEF Spec, AisladoPorUsuario

-----------------------------------------------------------------------------
(* What a session sees of the steps of the others.                         *)

LEMMA PasoAjeno ==
  ASSUME Propiedad, NEW q \in Sesiones, Paso(q), NEW p \in Sesiones, p # q
  PROVE  /\ fase'[p] = fase[p]
         /\ memoria'[p] = memoria[p]
         /\ sel'[p] = sel[p]
         /\ evs'[p] = evs[p]
         /\ original'[p] = original[p]
         /\ CambiaSolo(UsuarioDe[q])
<1> DEFINE Intacta == /\ fase'[p] = fase[p]
                      /\ memoria'[p] = memoria[p]
                      /\ sel'[p] = sel[p]
                      /\ evs'[p] = evs[p]
                      /\ original'[p] = original[p]
<1>1. TypeOK /\ SoloPropias
  BY DEF Propiedad
<1>2. ASSUME NEW h \in Horas, NEW t \in Textos, GuardarNuevo(q, h, t)
      PROVE  Intacta /\ CambiaSolo(UsuarioDe[q])
  <2>1. Resultado(q, "libre") /\ CambiaSolo(UsuarioDe[q])
    BY <1>1, <1>2, CrearEfecto
  <2>2. UNCHANGED <<memoria, sel, evs, original>>
    BY <1>2 DEF GuardarNuevo, pantalla
  <2> QED
    BY <2>1, <2>2 DEF Resultado
<1>3. ASSUME NEW d \in Dias, NEW h \in Horas, NEW t \in Textos, GuardarEdicion(q, d, h, t)
      PROVE  Intacta /\ CambiaSolo(UsuarioDe[q])
  <2>1. Resultado(q, "libre") /\ CambiaSolo(UsuarioDe[q])
    BY <1>1, <1>3, EditarEfecto
  <2>2. UNCHANGED <<memoria, sel, evs>> /\ original' = [original EXCEPT ![q] = NoHay]
    BY <1>3 DEF GuardarEdicion, pantalla
  <2> QED
    BY <1>1, <2>1, <2>2 DEF Resultado, TypeOK
<1>4. ASSUME Borrar(q)
      PROVE  Intacta /\ CambiaSolo(UsuarioDe[q])
  <2>1. Resultado(q, "elegirBorrado") /\ CambiaSolo(UsuarioDe[q])
    BY <1>1, <1>4, BorrarEfecto
  <2>2. UNCHANGED <<memoria, sel>> /\ original' = [original EXCEPT ![q] = NoHay]
        /\ evs' = [evs EXCEPT ![q] = IF fase'[q] = "refrescar" THEN Vacia ELSE @]
    BY <1>4 DEF Borrar, pantalla
  <2> QED
    BY <1>1, <2>1, <2>2 DEF Resultado, TypeOK
<1>5. ASSUME ~ \E h \in Horas, t \in Textos : GuardarNuevo(q, h, t),
             ~ \E d \in Dias, h \in Horas, t \in Textos : GuardarEdicion(q, d, h, t),
             ~ Borrar(q)
      PROVE  Intacta /\ CambiaSolo(UsuarioDe[q])
  <2>1. UNCHANGED eventos /\ Intacta
    BY <1>1, <1>5 DEF Paso, TypeOK, pantalla, IniciarSesion, ElegirDia, Agendar,
       AbrirEdicion, AbrirBorrado, AbrirSelector, Elegir, Cancelar, NoBorrar,
       Refrescar, Terminar
  <2> QED
    BY <2>1 DEF CambiaSolo
<1> QED
  BY <1>2, <1>3, <1>4, <1>5

\* A user's part of the table does not notice the writes of another user.
LEMMA ParteIntacta ==
  ASSUME TypeOK, TypeOK', NEW u, NEW v, u # v, CambiaSolo(v)
  PROVE  /\ ListaDe(u)' = ListaDe(u)
         /\ \A d \in Dias : DiaDe(u, d)' = DiaDe(u, d)
         /\ \A f \in Filas :
              eventos[f] # NoHay /\ eventos[f].usu = u => eventos'[f] = eventos[f]
BY DEF CambiaSolo, ListaDe, DiaDe, TypeOK, Listas

-----------------------------------------------------------------------------
(* The list in memory follows the table.                                   *)

LEMMA MemoriaPaso ==
  Propiedad /\ Propiedad' /\ MemoriaAlDia /\ [Next]_vars => MemoriaAlDia'
<1> SUFFICES ASSUME Propiedad, Propiedad', MemoriaAlDia, [Next]_vars,
                    "leer" \notin Fallos, "respuesta" \notin Fallos,
                    NEW p \in Sesiones, Unica(p), fase'[p] \notin {"login", "refrescar"}
             PROVE  memoria'[p] = ListaDe(UsuarioDe[p])'
  BY DEF MemoriaAlDia, AlDia, Unica
<1>0. TypeOK /\ TypeOK' /\ SoloPropias
  BY DEF Propiedad
<1>1. ASSUME fase[p] \notin {"login", "refrescar"}
      PROVE  memoria[p] = ListaDe(UsuarioDe[p])
  BY <1>1 DEF MemoriaAlDia, AlDia
<1>2. CASE UNCHANGED <<eventos, fase, memoria>>
  BY <1>1, <1>2 DEF ListaDe
<1>3. ASSUME NEW q \in Sesiones, q # p, Paso(q)
      PROVE  memoria'[p] = ListaDe(UsuarioDe[p])'
  <2>1. UsuarioDe[p] # UsuarioDe[q]
    BY <1>3 DEF Unica
  <2> QED
    BY <1>0, <1>1, <1>3, <2>1, PasoAjeno, ParteIntacta
<1>4. CASE IniciarSesion(p) \/ Refrescar(p)
  <2>1. memoria' = [memoria EXCEPT ![p] = ListaDe(UsuarioDe[p])] /\ UNCHANGED eventos
    BY <1>4, LecturaPosible DEF IniciarSesion, Refrescar
  <2> QED
    BY <1>0, <2>1 DEF TypeOK, ListaDe
<1>5. ASSUME NEW h \in Horas, NEW t \in Textos, GuardarNuevo(p, h, t)
      PROVE  memoria'[p] = ListaDe(UsuarioDe[p])'
  <2>1. fase[p] = "creando" /\ UNCHANGED eventos
    BY <1>0, <1>5, CrearEfecto DEF Resultado
  <2>2. UNCHANGED memoria
    BY <1>5 DEF GuardarNuevo
  <2> QED
    BY <1>1, <2>1, <2>2 DEF ListaDe
<1>6. ASSUME NEW d \in Dias, NEW h \in Horas, NEW t \in Textos, GuardarEdicion(p, d, h, t)
      PROVE  memoria'[p] = ListaDe(UsuarioDe[p])'
  <2>1. fase[p] = "editando" /\ UNCHANGED eventos
    BY <1>0, <1>6, EditarEfecto DEF Resultado
  <2>2. UNCHANGED memoria
    BY <1>6 DEF GuardarEdicion
  <2> QED
    BY <1>1, <2>1, <2>2 DEF ListaDe
<1>7. CASE Borrar(p)
  <2>1. fase[p] = "confirmando" /\ UNCHANGED eventos
    BY <1>0, <1>7, BorrarEfecto DEF Resultado
  <2>2. UNCHANGED memoria
    BY <1>7 DEF Borrar
  <2> QED
    BY <1>1, <2>1, <2>2 DEF ListaDe
<1>8. CASE Terminar(p)
  BY <1>0, <1>8 DEF Terminar, TypeOK
<1>9. ASSUME Paso(p),
             ~ (IniciarSesion(p) \/ Refrescar(p)), ~ Borrar(p), ~ Terminar(p),
             ~ \E h \in Horas, t \in Textos : GuardarNuevo(p, h, t),
             ~ \E d \in Dias, h \in Horas, t \in Textos : GuardarEdicion(p, d, h, t)
      PROVE  memoria'[p] = ListaDe(UsuarioDe[p])'
  <2>1. UNCHANGED <<eventos, memoria>> /\ fase[p] \notin {"login", "refrescar"}
    BY <1>9 DEF Paso, ElegirDia, Agendar, AbrirEdicion, AbrirBorrado, AbrirSelector,
       Elegir, Cancelar, NoBorrar
  <2> QED
    BY <1>1, <2>1 DEF ListaDe
<1> QED
  BY <1>2, <1>3, <1>4, <1>5, <1>6, <1>7, <1>8, <1>9 DEF Next, vars, Medianoche

\* With reliable reads and answers, the memory of a user's only session is the
\* user's part of the table whenever the window waits for the user.
THEOREM MemoriaAlDiaSiempre == Spec => []MemoriaAlDia
<1>1. Init => MemoriaAlDia
  BY DEF Init, MemoriaAlDia
<1> QED
  BY <1>1, MemoriaPaso, PropiedadInvariante, PTL DEF Spec

-----------------------------------------------------------------------------
(* The selector shows the table.                                           *)

\* SelectorVigente for one session.
Vigente(p) ==
  /\ fase[p] \in {"elegirEdicion", "elegirBorrado", "confirmando"} =>
       evs[p] = DiaDe(UsuarioDe[p], sel[p])
  /\ fase[p] \in {"editando", "confirmando"} =>
       \E f \in Filas : eventos[f] = original[p]

LEMMA SelectorPaso ==
  Propiedad /\ Propiedad' /\ SelectorVigente /\ [Next]_vars => SelectorVigente'
<1> SUFFICES ASSUME Propiedad, Propiedad', [Next]_vars, "respuesta" \notin Fallos,
                    NEW p \in Sesiones, Unica(p), Vigente(p)
             PROVE  Vigente(p)'
  BY DEF SelectorVigente, Vigente, Unica
<1>0. TypeOK /\ TypeOK' /\ SoloPropias
  BY DEF Propiedad
<1>1. CASE UNCHANGED <<eventos, fase, sel, evs, original>>
  BY <1>1 DEF Vigente, DiaDe
<1>2. ASSUME NEW q \in Sesiones, q # p, Paso(q)
      PROVE  Vigente(p)'
  <2>1. UsuarioDe[p] # UsuarioDe[q]
    BY <1>2 DEF Unica
  <2>2. /\ fase'[p] = fase[p] /\ sel'[p] = sel[p]
        /\ evs'[p] = evs[p] /\ original'[p] = original[p]
        /\ CambiaSolo(UsuarioDe[q])
    BY <1>2, PasoAjeno
  <2>3. \A f \in Filas :
          eventos[f] # NoHay /\ eventos[f].usu = UsuarioDe[p] => eventos'[f] = eventos[f]
    BY <1>0, <2>1, <2>2, ParteIntacta
  <2>4. DiaDe(UsuarioDe[p], sel[p])' = DiaDe(UsuarioDe[p], sel[p])
    BY <1>0, <2>1, <2>2 DEF DiaDe, CambiaSolo, TypeOK, Listas
  <2>5. ASSUME fase[p] \in {"editando", "confirmando"}
        PROVE  \E f \in Filas : eventos'[f] = original[p]
    <3>1. original[p] # NoHay /\ original[p].usu = UsuarioDe[p]
      BY <1>0, <2>5 DEF SoloPropias
    <3> QED
      BY <2>3, <2>5, <3>1 DEF Vigente
  <2> QED
    BY <2>2, <2>4, <2>5 DEF Vigente
<1>3. ASSUME NEW a \in {"elegirEdicion", "elegirBorrado"}, AbrirSelector(p, a)
      PROVE  Vigente(p)'
  <2>1. evs' = [evs EXCEPT ![p] = DiaDe(UsuarioDe[p], sel[p])]
    BY <1>3, LecturaPosible DEF AbrirSelector
  <2>2. fase' = [fase EXCEPT ![p] = a] /\ UNCHANGED <<eventos, sel>>
    BY <1>3 DEF AbrirSelector, pantalla
  <2> QED
    BY <1>0, <2>1, <2>2 DEF Vigente, TypeOK, DiaDe
<1>4. ASSUME NEW f \in Filas, Elegir(p, f)
      PROVE  Vigente(p)'
  <2>1. evs[p] = DiaDe(UsuarioDe[p], sel[p])
    BY <1>4 DEF Elegir, Vigente
  <2>2. eventos[f] = evs[p][f]
    BY <1>4, <2>1 DEF Elegir, DiaDe
  <2>3. original'[p] = evs[p][f] /\ UNCHANGED <<eventos, sel>>
    BY <1>0, <1>4 DEF Elegir, pantalla, TypeOK
  <2>4. fase'[p] = "editando" \/ (fase'[p] = "confirmando" /\ UNCHANGED evs)
    BY <1>0, <1>4 DEF Elegir, TypeOK
  <2> QED
    BY <2>1, <2>2, <2>3, <2>4 DEF Vigente, DiaDe
<1>5. CASE NoBorrar(p)
  BY <1>0, <1>5 DEF NoBorrar, pantalla, Vigente, TypeOK, DiaDe
<1>6. CASE Borrar(p)
  <2>1. /\ fase[p] = "confirmando"
        /\ \/ fase'[p] = "refrescar"
           \/ fase'[p] = "elegirBorrado" /\ UNCHANGED eventos
    BY <1>0, <1>6, BorrarEfecto DEF Resultado
  <2>2. /\ evs' = [evs EXCEPT ![p] = IF fase'[p] = "refrescar" THEN Vacia ELSE @]
        /\ UNCHANGED sel
    BY <1>6 DEF Borrar, pantalla
  <2> QED
    BY <1>0, <2>1, <2>2 DEF Vigente, TypeOK, DiaDe
<1>7. ASSUME NEW h \in Horas, NEW t \in Textos, GuardarNuevo(p, h, t)
      PROVE  Vigente(p)'
  BY <1>0, <1>7, CrearEfecto DEF Resultado, Vigente
<1>8. ASSUME NEW d \in Dias, NEW h \in Horas, NEW t \in Textos, GuardarEdicion(p, d, h, t)
      PROVE  Vigente(p)'
  BY <1>0, <1>8, EditarEfecto DEF Resultado, Vigente
<1>9. ASSUME Paso(p), ~ NoBorrar(p), ~ Borrar(p),
             ~ AbrirEdicion(p), ~ AbrirBorrado(p), ~ \E f \in Filas : Elegir(p, f),
             ~ \E h \in Horas, t \in Textos : GuardarNuevo(p, h, t),
             ~ \E d \in Dias, h \in Horas, t \in Textos : GuardarEdicion(p, d, h, t)
      PROVE  Vigente(p)'
  <2>1. fase'[p] \in {"libre", "creando", "login"}
    BY <1>0, <1>9 DEF Paso, TypeOK, IniciarSesion, ElegirDia, Agendar, Cancelar,
       Refrescar, Terminar
  <2> QED
    BY <2>1 DEF Vigente
<1> QED
  BY <1>1, <1>2, <1>3, <1>4, <1>5, <1>6, <1>7, <1>8, <1>9
  DEF Next, vars, Medianoche, pantalla, AbrirEdicion, AbrirBorrado

\* Unless an answer is lost, a user's only session chooses from what the table
\* holds, and the event it edits or confirms is still there.
THEOREM SelectorVigenteSiempre == Spec => []SelectorVigente
<1>1. Init => SelectorVigente
  BY DEF Init, SelectorVigente
<1> QED
  BY <1>1, SelectorPaso, PropiedadInvariante, PTL DEF Spec

-----------------------------------------------------------------------------
(* The clock and the button.                                               *)

\* A day that is today or later can be scheduled, whatever was picked before
\* and however many midnights have passed.
THEOREM BotonConservadorSiempre == Spec => []BotonConservador
<1>1. Init => BotonConservador
  BY DEF Init, BotonConservador
<1>2. TypeOK /\ BotonConservador /\ [Next]_vars => BotonConservador'
  <2> SUFFICES ASSUME TypeOK, BotonConservador, [Next]_vars PROVE BotonConservador'
    OBVIOUS
  <2> USE DEF TypeOK, BotonConservador
  <2>1. CASE UNCHANGED vars
    BY <2>1 DEF vars
  <2>2. CASE Medianoche
    BY <2>2 DEF Medianoche, pantalla, Dias
  <2>3. ASSUME NEW q \in Sesiones,
               IniciarSesion(q) \/ (\E d \in Dias : ElegirDia(q, d)) \/ Terminar(q)
        PROVE  BotonConservador'
    <3>1. CASE IniciarSesion(q)
      BY <3>1 DEF IniciarSesion
    <3>2. ASSUME NEW d \in Dias, ElegirDia(q, d)
          PROVE  BotonConservador'
      <4>1. agendable'[q] = (d >= hoy) /\ sel'[q] = d /\ hoy' = hoy
        BY <3>2 DEF ElegirDia
      <4>2. \A p \in Sesiones \ {q} : agendable'[p] = agendable[p] /\ sel'[p] = sel[p]
        BY <3>2 DEF ElegirDia
      <4>3. fase' = fase
        BY <3>2 DEF ElegirDia
      <4> QED
        BY <4>1, <4>2, <4>3
    <3>3. CASE Terminar(q)
      BY <3>3 DEF Terminar
    <3> QED
      BY <2>3, <3>1, <3>2, <3>3
  <2>4. ASSUME NEW q \in Sesiones, Paso(q),
               ~ IniciarSesion(q), ~ (\E d \in Dias : ElegirDia(q, d)), ~ Terminar(q)
        PROVE  BotonConservador'
    <3>1. UNCHANGED <<hoy, sel, agendable>>
      BY <2>4 DEF Paso, pantalla, Agendar, GuardarNuevo, AbrirEdicion, AbrirBorrado,
         AbrirSelector, Elegir, Cancelar, GuardarEdicion, NoBorrar, Borrar, Refrescar
    <3>2. fase[q] # "login" /\ \A p \in Sesiones \ {q} : fase'[p] = fase[p]
      <4>1. fase[q] # "login"
        BY <2>4 DEF Paso, Agendar, GuardarNuevo, AbrirEdicion, AbrirBorrado,
           AbrirSelector, Elegir, Cancelar, GuardarEdicion, NoBorrar, Borrar, Refrescar
      <4>2. \A p \in Sesiones \ {q} : fase'[p] = fase[p]
        BY <2>4 DEF Paso, Escribir, Agendar, GuardarNuevo, AbrirEdicion, AbrirBorrado,
           AbrirSelector, Elegir, Cancelar, GuardarEdicion, NoBorrar, Borrar, Refrescar
      <4> QED
        BY <4>1, <4>2
    <3> QED
      BY <3>1, <3>2
  <2> QED
    BY <2>1, <2>2, <2>3, <2>4 DEF Next, Paso
<1> QED
  BY <1>1, <1>2, TipoCorrecto, PTL DEF Spec

-----------------------------------------------------------------------------
(* Two sessions of one user.                                               *)

\* Whoever changes the table is at one of the three writes.
LEMMA EscribeAlguien ==
  ASSUME Propiedad, [Next]_vars, eventos' # eventos
  PROVE  \E q \in Sesiones :
           /\ Escribe(q) /\ CambiaSolo(UsuarioDe[q]) /\ UNCHANGED memoria
           /\ fase'[q] = "refrescar" \/ "respuesta" \in Fallos
<1>1. TypeOK /\ SoloPropias
  BY DEF Propiedad
<1>2. PICK q \in Sesiones :
        \/ \E h \in Horas, t \in Textos : GuardarNuevo(q, h, t)
        \/ \E d \in Dias, h \in Horas, t \in Textos : GuardarEdicion(q, d, h, t)
        \/ Borrar(q)
  BY SoloEscribenTres
<1>3. UNCHANGED memoria
  BY <1>2 DEF GuardarNuevo, GuardarEdicion, Borrar
<1>4. CASE \E h \in Horas, t \in Textos : GuardarNuevo(q, h, t)
  BY <1>1, <1>3, <1>4, CrearEfecto DEF Resultado, Escribe
<1>5. CASE \E d \in Dias, h \in Horas, t \in Textos : GuardarEdicion(q, d, h, t)
  BY <1>1, <1>3, <1>5, EditarEfecto DEF Resultado, Escribe
<1>6. CASE Borrar(q)
  BY <1>1, <1>3, <1>6, BorrarEfecto DEF Resultado, Escribe
<1> QED
  BY <1>2, <1>4, <1>5, <1>6

\* A list in memory goes stale only by a write of a session of its user, its own
\* until the refresh or because the answer was lost, or by a query that failed.
THEOREM DesfaseConCausaSiempre == Spec => DesfaseConCausa
<1> DEFINE Causa(p) ==
             \/ \E q \in Sesiones \ {p} : UsuarioDe[q] = UsuarioDe[p] /\ Escribe(q)
             \/ Escribe(p) /\ (fase'[p] = "refrescar" \/ "respuesta" \in Fallos)
             \/ /\ fase[p] \in {"login", "refrescar"}
                /\ "leer" \in Fallos /\ memoria'[p] = Vacia
             \/ fase'[p] = "login"
<1>1. ASSUME Propiedad, Propiedad', [Next]_vars, NEW p \in Sesiones,
             AlDia(p), memoria'[p] # ListaDe(UsuarioDe[p])'
      PROVE  Causa(p)
  <2>1. TypeOK /\ TypeOK'
    BY <1>1 DEF Propiedad
  <2>2. CASE UNCHANGED eventos
    <3>1. ListaDe(UsuarioDe[p])' = ListaDe(UsuarioDe[p])
      BY <2>2 DEF ListaDe
    <3>2. memoria'[p] # memoria[p]
      BY <1>1, <3>1 DEF AlDia
    <3>3. IniciarSesion(p) \/ Refrescar(p) \/ Terminar(p)
      <4>1. PICK q \in Sesiones : IniciarSesion(q) \/ Refrescar(q) \/ Terminar(q)
        BY <1>1, <3>2 DEF Next, Paso, vars, Medianoche, ElegirDia, Agendar, GuardarNuevo,
           AbrirEdicion, AbrirBorrado, AbrirSelector, Elegir, Cancelar, GuardarEdicion,
           NoBorrar, Borrar
      <4>2. \E l : memoria' = [memoria EXCEPT ![q] = l]
        BY <4>1 DEF IniciarSesion, Refrescar, Terminar
      <4>3. q = p
        BY <2>1, <3>2, <4>2 DEF TypeOK
      <4> QED
        BY <4>1, <4>3
    <3>4. CASE IniciarSesion(p) \/ Refrescar(p)
      <4>1. /\ fase[p] \in {"login", "refrescar"}
            /\ \/ memoria'[p] = ListaDe(UsuarioDe[p])
               \/ "leer" \in Fallos /\ memoria'[p] = Vacia
        BY <2>1, <3>4, LecturaPosible DEF IniciarSesion, Refrescar, TypeOK
      <4> QED
        BY <1>1, <3>1, <4>1
    <3>5. CASE Terminar(p)
      BY <2>1, <3>5 DEF Terminar, TypeOK
    <3> QED
      BY <3>3, <3>4, <3>5
  <2>3. CASE eventos' # eventos
    <3>1. PICK q \in Sesiones :
            /\ Escribe(q) /\ CambiaSolo(UsuarioDe[q]) /\ UNCHANGED memoria
            /\ fase'[q] = "refrescar" \/ "respuesta" \in Fallos
      BY <1>1, <2>3, EscribeAlguien
    <3>2. UsuarioDe[q] = UsuarioDe[p]
      <4>1. SUFFICES ASSUME UsuarioDe[q] # UsuarioDe[p] PROVE FALSE
        OBVIOUS
      <4>2. ListaDe(UsuarioDe[p])' = ListaDe(UsuarioDe[p])
        BY <2>1, <3>1, <4>1, ParteIntacta
      <4> QED
        BY <1>1, <3>1, <4>2 DEF AlDia
    <3> QED
      BY <3>1, <3>2
  <2> QED
    BY <2>2, <2>3
<1>2. Propiedad /\ Propiedad' /\ [Next]_vars =>
        [\A p \in Sesiones :
           AlDia(p) /\ memoria'[p] # ListaDe(UsuarioDe[p])' => Causa(p)]_vars
  BY <1>1
<1> QED
  BY <1>2, PropiedadInvariante, PTL DEF Spec, DesfaseConCausa

-----------------------------------------------------------------------------
(* The agenda implements AgendaAbstracta.                                  *)

\* The names of the two specifications for the same things.
LEMMA Traduccion ==
  /\ Promesa!Nada = Vacia
  /\ \A u : Promesa!Foto(u) = ListaDe(u)
BY DEF Promesa!Nada, Vacia, Promesa!Foto, ListaDe

LEMMA PasoCumple == Propiedad /\ [Next]_vars => [Promesa!Next]_(Promesa!vars)
<1> SUFFICES ASSUME TypeOK, SoloPropias, [Next]_vars,
                    ~ UNCHANGED <<eventos, memoria>>
             PROVE  Promesa!Next
  BY DEF Propiedad, Promesa!vars
<1>1. ASSUME NEW p \in Sesiones, IniciarSesion(p) \/ Refrescar(p) \/ Terminar(p)
      PROVE  Promesa!Mirar(p)
  <2>1. \E l \in {ListaDe(UsuarioDe[p]), Vacia} : memoria' = [memoria EXCEPT ![p] = l]
    BY <1>1, LecturaPosible DEF IniciarSesion, Refrescar, Terminar
  <2>2. UNCHANGED eventos
    BY <1>1 DEF IniciarSesion, Refrescar, Terminar
  <2> QED
    BY <2>1, <2>2, Traduccion DEF Promesa!Mirar
<1>2. ASSUME NEW p \in Sesiones, NEW h \in Horas, NEW t \in Textos, GuardarNuevo(p, h, t)
      PROVE  Promesa!Agregar(p)
  <2>1. UNCHANGED memoria
    BY <1>2 DEF GuardarNuevo
  <2>2. /\ t \in Completos
        /\ \E f \in Filas : /\ eventos[f] = NoHay
                            /\ eventos' = [eventos EXCEPT ![f] = Nuevo(p, h, t)]
    BY <1>2, <2>1, CrearEfecto
  <2>3. sel[p] \in Dias
    BY DEF TypeOK
  <2> QED
    BY <2>1, <2>2, <2>3 DEF Promesa!Agregar, Promesa!Evento, Nuevo
<1>3. ASSUME NEW p \in Sesiones, NEW d \in Dias, NEW h \in Horas, NEW t \in Textos,
             GuardarEdicion(p, d, h, t)
      PROVE  Promesa!Cambiar(p)
  <2>1. UNCHANGED memoria
    BY <1>3 DEF GuardarEdicion
  <2>2. eventos' = [f \in Filas |->
                      IF f \in MomentoDe(original[p])
                        THEN [usu |-> UsuarioDe[p], dia |-> d, hora |-> h, tex |-> t]
                        ELSE eventos[f]]
    BY <1>3, <2>1, EditarEfecto
  <2>3. /\ original[p].usu = UsuarioDe[p]
        /\ original[p].dia \in Dias /\ original[p].hora \in Horas
    BY <1>3, EditarEfecto DEF SoloPropias, TypeOK, Evento
  <2>4. MomentoDe(original[p])
          = Promesa!EnMomento(UsuarioDe[p], original[p].dia, original[p].hora)
    BY <2>3 DEF MomentoDe, Promesa!EnMomento
  <2> QED
    BY <2>1, <2>2, <2>3, <2>4 DEF Promesa!Cambiar, Promesa!Evento
<1>4. ASSUME NEW p \in Sesiones, Borrar(p)
      PROVE  Promesa!Quitar(p)
  <2>1. UNCHANGED memoria
    BY <1>4 DEF Borrar
  <2>2. eventos' = [f \in Filas |->
                      IF f \in MomentoDe(original[p]) THEN NoHay ELSE eventos[f]]
    BY <1>4, <2>1, BorrarEfecto
  <2>3. /\ original[p].usu = UsuarioDe[p]
        /\ original[p].dia \in Dias /\ original[p].hora \in Horas
    BY <1>4, BorrarEfecto DEF SoloPropias, TypeOK, Evento
  <2>4. MomentoDe(original[p])
          = Promesa!EnMomento(UsuarioDe[p], original[p].dia, original[p].hora)
    BY <2>3 DEF MomentoDe, Promesa!EnMomento
  <2> QED
    BY <2>1, <2>2, <2>3, <2>4 DEF Promesa!Quitar
<1>5. CASE eventos' = eventos
  <2>1. PICK p \in Sesiones : IniciarSesion(p) \/ Refrescar(p) \/ Terminar(p)
    BY <1>5 DEF Next, Paso, vars, Medianoche, ElegirDia, Agendar, GuardarNuevo,
       AbrirEdicion, AbrirBorrado, AbrirSelector, Elegir, Cancelar, GuardarEdicion,
       NoBorrar, Borrar
  <2> QED
    BY <1>1, <2>1 DEF Promesa!Next
<1>6. CASE eventos' # eventos
  BY <1>2, <1>3, <1>4, <1>6, SoloEscribenTres DEF Promesa!Next
<1> QED
  BY <1>5, <1>6

\* Whatever the failures, the table changes by whole writes and what is in
\* memory is a picture of it or nothing: the agenda implements AgendaAbstracta.
THEOREM AgendaCumplePromesa == Spec => CumplePromesa
<1>1. Init => Promesa!Init
  BY DEF Init, Promesa!Init, Promesa!Nada, Vacia
<1> QED
  BY <1>1, PasoCumple, PropiedadInvariante, PTL DEF Spec, CumplePromesa, Promesa!Spec

-----------------------------------------------------------------------------
(* Each session implements SesionAbstracta.                                *)

Suyos(p) == {e \in Evento : e.usu = UsuarioDe[p]}

\* An edit or a deletion of every row at the moment of the chosen event.
LEMMA CambiarCumple ==
  ASSUME TypeOK, NEW p \in Sesiones, NEW v \in Suyos(p) \cup {NoHay}, NEW x \in Suyos(p),
         fase[p] \in {"editando", "confirmando"},
         \/ fase'[p] = "refrescar"
         \/ fase'[p] \in {"libre", "elegirBorrado"} /\ "respuesta" \in Fallos,
         memoria'[p] = memoria[p],
         MomentoDe(x) # {},
         eventos' = [f \in Filas |-> IF f \in MomentoDe(x) THEN v ELSE eventos[f]]
  PROVE  Sesion(p)!Cambiar
<1> DEFINE m == <<x.dia, x.hora>>
           L == ListaDe(UsuarioDe[p])
           Momento == [e \in Evento |-> <<e.dia, e.hora>>]
<1>1. x \in Evento /\ x.usu = UsuarioDe[p]
  BY DEF Suyos
<1>2. \A f \in Filas : f \in MomentoDe(x) <=> L[f] # NoHay /\ Momento[L[f]] = m
  BY <1>1 DEF MomentoDe, ListaDe, TypeOK, Listas
<1>3. MomentoDe(x) = Sesion(p)!EnMomento(m)
  BY <1>2 DEF Sesion!EnMomento, MomentoDe
<1>4. L' = [f \in Filas |-> IF f \in MomentoDe(x) THEN v ELSE L[f]]
  BY <1>1 DEF ListaDe, MomentoDe, Suyos
<1>5. m \in {Momento[e] : e \in Suyos(p)}
  BY <1>1 DEF Suyos
<1>6. Sesion(p)!Confirmada
  BY DEF Sesion!Confirmada, Lugar
<1> QED
  BY <1>3, <1>4, <1>5, <1>6 DEF Sesion!Cambiar, Suyos

LEMMA CrearCumple ==
  ASSUME TypeOK, NEW p \in Sesiones, NEW h \in Horas, NEW t \in Textos,
         GuardarNuevo(p, h, t)
  PROVE  Sesion(p)!Crear \/ UNCHANGED Sesion(p)!vars
<1> DEFINE e == Nuevo(p, h, t)
           L == ListaDe(UsuarioDe[p])
<1>1. fase[p] = "creando" /\ memoria' = memoria
  BY DEF GuardarNuevo
<1>2. e \in Suyos(p)
  BY DEF TypeOK, Evento, Nuevo, Suyos
<1>3. CASE eventos' = eventos /\ fase'[p] = "libre"
  <2>1. L' = L
    BY <1>3 DEF ListaDe
  <2> QED
    BY <1>1, <1>3, <2>1 DEF Sesion!vars, Lugar
<1>4. ASSUME NEW f \in Filas, eventos[f] = NoHay, eventos' = [eventos EXCEPT ![f] = e],
             \/ fase'[p] = "refrescar"
             \/ fase'[p] = "libre" /\ "respuesta" \in Fallos
      PROVE  Sesion(p)!Crear
  <2>1. L[f] = NoHay /\ L' = [L EXCEPT ![f] = e]
    BY <1>2, <1>4 DEF ListaDe, Suyos, TypeOK, Listas
  <2>2. Sesion(p)!Confirmada
    BY <1>1, <1>4 DEF Sesion!Confirmada, Lugar
  <2> QED
    BY <1>2, <2>1, <2>2 DEF Sesion!Crear, Suyos
<1>5. CASE t \in Completos
  <2>1. PICK f \in Filas : /\ eventos[f] = NoHay
                           /\ Escribir(p, {f}, [eventos EXCEPT ![f] = e], "libre")
    BY <1>5 DEF GuardarNuevo, Nuevo
  <2> QED
    BY <1>3, <1>4, <2>1, EscrituraPosible DEF TypeOK, Fases
<1>6. CASE t \notin Completos
  <2>1. Escribir(p, {}, eventos, "libre")
    BY <1>6 DEF GuardarNuevo
  <2> QED
    BY <1>3, <2>1, EscrituraPosible DEF TypeOK, Fases
<1> QED
  BY <1>5, <1>6

LEMMA EditarCumple ==
  ASSUME TypeOK, SoloPropias, NEW p \in Sesiones,
         NEW d \in Dias, NEW h \in Horas, NEW t \in Textos, GuardarEdicion(p, d, h, t)
  PROVE  Sesion(p)!Cambiar \/ UNCHANGED Sesion(p)!vars
<1> DEFINE x == original[p]
           v == [usu |-> UsuarioDe[p], dia |-> d, hora |-> h, tex |-> t]
           T == [f \in Filas |-> IF f \in MomentoDe(x) THEN v ELSE eventos[f]]
<1>1. fase[p] = "editando" /\ memoria' = memoria
  BY DEF GuardarEdicion
<1>2. x \in Suyos(p) /\ v \in Suyos(p)
  BY <1>1 DEF SoloPropias, TypeOK, Suyos, Evento
<1>3. Escribir(p, MomentoDe(x), T, "libre")
  BY <1>2 DEF GuardarEdicion, Suyos
<1>4. \/ eventos' = T /\ MomentoDe(x) # {} /\ fase'[p] = "refrescar"
      \/ eventos' = eventos /\ fase'[p] = "libre"
      \/ eventos' = T /\ MomentoDe(x) # {} /\ fase'[p] = "libre" /\ "respuesta" \in Fallos
  BY <1>3, EscrituraPosible DEF TypeOK, Fases
<1>5. CASE eventos' = eventos /\ fase'[p] = "libre"
  BY <1>1, <1>5 DEF Sesion!vars, Lugar, ListaDe
<1>6. CASE ~ (eventos' = eventos /\ fase'[p] = "libre")
  BY <1>1, <1>2, <1>4, <1>6, CambiarCumple
<1> QED
  BY <1>5, <1>6

LEMMA BorrarCumple ==
  ASSUME TypeOK, SoloPropias, NEW p \in Sesiones, Borrar(p)
  PROVE  Sesion(p)!Cambiar \/ UNCHANGED Sesion(p)!vars
<1> DEFINE x == original[p]
           T == [f \in Filas |-> IF f \in MomentoDe(x) THEN NoHay ELSE eventos[f]]
<1>1. fase[p] = "confirmando" /\ memoria' = memoria
  BY DEF Borrar
<1>2. x \in Suyos(p)
  BY <1>1 DEF SoloPropias, TypeOK, Suyos, Evento
<1>3. Escribir(p, MomentoDe(x), T, "elegirBorrado")
  BY DEF Borrar
<1>4. \/ eventos' = T /\ MomentoDe(x) # {} /\ fase'[p] = "refrescar"
      \/ eventos' = eventos /\ fase'[p] = "elegirBorrado"
      \/ /\ eventos' = T /\ MomentoDe(x) # {} /\ fase'[p] = "elegirBorrado"
         /\ "respuesta" \in Fallos
  BY <1>3, EscrituraPosible DEF TypeOK, Fases
<1>5. CASE eventos' = eventos /\ fase'[p] = "elegirBorrado"
  BY <1>1, <1>5 DEF Sesion!vars, Lugar, ListaDe
<1>6. CASE ~ (eventos' = eventos /\ fase'[p] = "elegirBorrado")
  BY <1>1, <1>2, <1>4, <1>6, CambiarCumple
<1> QED
  BY <1>5, <1>6

\* The steps of a session that do not write.
LEMMA SesionLee ==
  ASSUME TypeOK, NEW p \in Sesiones, Paso(p), UNCHANGED eventos,
         ~ \E h \in Horas, t \in Textos : GuardarNuevo(p, h, t),
         ~ \E d \in Dias, h \in Horas, t \in Textos : GuardarEdicion(p, d, h, t),
         ~ Borrar(p)
  PROVE  Sesion(p)!Next \/ UNCHANGED Sesion(p)!vars
<1>0. ListaDe(UsuarioDe[p])' = ListaDe(UsuarioDe[p])
  BY DEF ListaDe
<1>1. \A r : r \in Lecturas(ListaDe(UsuarioDe[p])) <=> r \in Sesion(p)!Leido
  BY DEF Lecturas, Sesion!Leido, Sesion!Vacia, Vacia
<1>2. CASE IniciarSesion(p)
  <2>1. /\ fase[p] = "login" /\ fase'[p] = "libre"
        /\ memoria'[p] \in Lecturas(ListaDe(UsuarioDe[p]))
    BY <1>2 DEF IniciarSesion, TypeOK
  <2> QED
    BY <1>0, <1>1, <2>1 DEF Sesion!Next, Sesion!Entrar, Lugar
<1>3. CASE Refrescar(p)
  <2>1. /\ fase[p] = "refrescar" /\ fase'[p] = "libre"
        /\ memoria'[p] \in Lecturas(ListaDe(UsuarioDe[p]))
    BY <1>3 DEF Refrescar, TypeOK
  <2> QED
    BY <1>0, <1>1, <2>1 DEF Sesion!Next, Sesion!Refrescar, Lugar
<1>4. CASE Terminar(p)
  <2>1. fase[p] # "login" /\ fase'[p] = "login" /\ memoria'[p] = Vacia
    BY <1>4 DEF Terminar, TypeOK
  <2> QED
    BY <1>0, <2>1 DEF Sesion!Next, Sesion!Salir, Sesion!Vacia, Vacia, Lugar
<1>5. ASSUME ~ IniciarSesion(p), ~ Refrescar(p), ~ Terminar(p)
      PROVE  UNCHANGED Sesion(p)!vars
  <2>1. /\ memoria' = memoria /\ fase[p] \notin {"login", "refrescar"}
        /\ fase'[p] \notin {"login", "refrescar"}
    BY <1>5 DEF Paso, TypeOK, ElegirDia, Agendar, AbrirEdicion, AbrirBorrado,
       AbrirSelector, Elegir, Cancelar, NoBorrar
  <2> QED
    BY <1>0, <2>1 DEF Sesion!vars, Lugar
<1> QED
  BY <1>2, <1>3, <1>4, <1>5

LEMMA SesionPaso ==
  ASSUME Propiedad, Propiedad', [Next]_vars, NEW p \in Sesiones
  PROVE  Sesion(p)!Next \/ UNCHANGED Sesion(p)!vars
<1>0. TypeOK /\ TypeOK' /\ SoloPropias
  BY DEF Propiedad
<1>1. CASE UNCHANGED <<eventos, fase, memoria>>
  BY <1>1 DEF Sesion!vars, ListaDe, Lugar
<1>2. ASSUME NEW q \in Sesiones, q # p, Paso(q)
      PROVE  Sesion(p)!Next \/ UNCHANGED Sesion(p)!vars
  <2>1. fase'[p] = fase[p] /\ memoria'[p] = memoria[p] /\ CambiaSolo(UsuarioDe[q])
    BY <1>2, PasoAjeno
  <2>2. CASE UsuarioDe[q] # UsuarioDe[p]
    <3>1. ListaDe(UsuarioDe[p])' = ListaDe(UsuarioDe[p])
      BY <1>0, <2>1, <2>2, ParteIntacta
    <3> QED
      BY <2>1, <3>1 DEF Sesion!vars, Lugar
  <2>3. CASE UsuarioDe[q] = UsuarioDe[p]
    <3>1. ListaDe(UsuarioDe[p])' \in [Filas -> Suyos(p) \cup {NoHay}]
      BY <1>0 DEF TypeOK, Listas, ListaDe, Suyos
    <3>2. ~ Unica(p)
      BY <1>2, <2>3 DEF Unica
    <3>3. Sesion(p)!Ajena
      BY <2>1, <3>1, <3>2 DEF Sesion!Ajena, Sesion!Tablas, Suyos, Lugar
    <3> QED
      BY <3>3 DEF Sesion!Next
  <2> QED
    BY <2>2, <2>3
<1>3. CASE Paso(p)
  <2>1. CASE \E h \in Horas, t \in Textos : GuardarNuevo(p, h, t)
    BY <1>0, <2>1, CrearCumple DEF Sesion!Next
  <2>2. CASE \E d \in Dias, h \in Horas, t \in Textos : GuardarEdicion(p, d, h, t)
    BY <1>0, <2>2, EditarCumple DEF Sesion!Next
  <2>3. CASE Borrar(p)
    BY <1>0, <2>3, BorrarCumple DEF Sesion!Next
  <2>4. ASSUME ~ \E h \in Horas, t \in Textos : GuardarNuevo(p, h, t),
               ~ \E d \in Dias, h \in Horas, t \in Textos : GuardarEdicion(p, d, h, t),
               ~ Borrar(p)
        PROVE  Sesion(p)!Next \/ UNCHANGED Sesion(p)!vars
    <3>1. UNCHANGED eventos
      BY <1>3, <2>4 DEF Paso, IniciarSesion, ElegirDia, Agendar, AbrirEdicion, AbrirBorrado,
         AbrirSelector, Elegir, Cancelar, NoBorrar, Refrescar, Terminar
    <3> QED
      BY <1>0, <1>3, <2>4, <3>1, SesionLee
  <2> QED
    BY <2>1, <2>2, <2>3, <2>4
<1> QED
  BY <1>1, <1>2, <1>3 DEF Next, vars, Medianoche

LEMMA SesionInicial ==
  ASSUME Init, NEW p \in Sesiones
  PROVE  Sesion(p)!Init
<1>1. eventos = Vacia /\ fase[p] = "login" /\ memoria[p] = Vacia
  BY DEF Init
<1>2. ListaDe(UsuarioDe[p]) = Vacia
  BY <1>1 DEF ListaDe, Vacia
<1>3. Vacia \in Sesion(p)!Tablas /\ Vacia = Sesion(p)!Vacia
  BY DEF Vacia, Sesion!Tablas, Sesion!Vacia
<1> QED
  BY <1>1, <1>2, <1>3 DEF Sesion!Init, Lugar

\* Between a write that was reported and its refresh a session does nothing
\* else, its list changes only by reading, and only its user's other sessions, if
\* there are any, write besides: every session implements SesionAbstracta.
THEOREM AgendaCumpleSesion == Spec => CumpleSesion
<1>1. Init => \A p \in Sesiones : Sesion(p)!Init
  BY SesionInicial
<1>2. Propiedad /\ Propiedad' /\ [Next]_vars =>
        [\A p \in Sesiones : Sesion(p)!Next \/ UNCHANGED Sesion(p)!vars]_vars
  BY SesionPaso
<1> QED
  BY <1>1, <1>2, PropiedadInvariante, PTL DEF Spec, CumpleSesion

\* The same, of each session by itself.
THEOREM CadaSesionCumple ==
  ASSUME NEW p \in Sesiones
  PROVE  Spec => Sesion(p)!Spec
<1>1. Init => Sesion(p)!Init
  BY SesionInicial
<1>2. Propiedad /\ Propiedad' /\ [Next]_vars => [Sesion(p)!Next]_(Sesion(p)!vars)
  BY SesionPaso
<1> QED
  BY <1>1, <1>2, PropiedadInvariante, PTL DEF Spec, Sesion!Spec

-----------------------------------------------------------------------------
(* What remains of the two texts that the code does not keep.              *)

\* No two events of one user are at the same day and hour.
SinCoincidencias ==
  \A f, g \in Filas :
    /\ eventos[f] # NoHay /\ eventos[g] # NoHay
    /\ eventos[f].usu = eventos[g].usu
    /\ eventos[f].dia = eventos[g].dia
    /\ eventos[f].hora = eventos[g].hora
    => f = g

\* "Eliminar el evento seleccionado" (VistaPrincipal) removes one event as long
\* as no two events of a user coincide; that they do is all that
\* BorraSoloElSeleccionado lacks.
THEOREM BorraUnoSiNoCoinciden ==
  Spec => [][SinCoincidencias =>
               Cardinality({f \in Filas : eventos[f] # NoHay /\ eventos'[f] = NoHay}) <= 1]_vars
<1> DEFINE Idos == {f \in Filas : eventos[f] # NoHay /\ eventos'[f] = NoHay}
<1>1. ASSUME Propiedad, [Next]_vars, SinCoincidencias
      PROVE  Cardinality(Idos) <= 1
  <2>1. TypeOK /\ SoloPropias
    BY <1>1 DEF Propiedad
  <2>2. CASE Idos = {}
    <3>1. Cardinality({}) = 0
      BY FS_EmptySet
    <3> HIDE DEF Idos
    <3> QED
      BY <2>2, <3>1
  <2>3. ASSUME NEW f \in Idos, NEW g \in Idos
        PROVE  f = g
    <3>1. eventos' # eventos
      BY <2>3
    <3>2. ASSUME NEW p \in Sesiones, NEW h \in Horas, NEW t \in Textos,
                 GuardarNuevo(p, h, t)
          PROVE  FALSE
      <4>1. \E k \in Filas : /\ eventos[k] = NoHay
                            /\ eventos' = [eventos EXCEPT ![k] = Nuevo(p, h, t)]
        BY <2>1, <3>1, <3>2, CrearEfecto
      <4> QED
        BY <2>1, <2>3, <4>1 DEF TypeOK, Listas
    <3>3. ASSUME NEW p \in Sesiones, NEW d \in Dias, NEW h \in Horas, NEW t \in Textos,
                 GuardarEdicion(p, d, h, t)
          PROVE  FALSE
      <4>1. eventos'[f] = [usu |-> UsuarioDe[p], dia |-> d, hora |-> h, tex |-> t]
              \/ eventos'[f] = eventos[f]
        BY <2>1, <3>1, <3>3, EditarEfecto
      <4>2. [usu |-> UsuarioDe[p], dia |-> d, hora |-> h, tex |-> t] \in Evento
        BY DEF Evento
      <4> QED
        BY <2>3, <4>1, <4>2
    <3>4. ASSUME NEW p \in Sesiones, Borrar(p)
          PROVE  f = g
      <4>1. f \in MomentoDe(original[p]) /\ g \in MomentoDe(original[p])
        BY <2>1, <2>3, <3>1, <3>4, BorrarEfecto
      <4> QED
        BY <1>1, <2>3, <4>1 DEF MomentoDe, SinCoincidencias
    <3> QED
      BY <1>1, <3>1, <3>2, <3>3, <3>4, SoloEscribenTres
  <2>4. CASE Idos # {}
    <3>1. PICK f \in Idos : TRUE
      BY <2>4
    <3>2. Idos = {f}
      BY <2>3, <3>1
    <3>3. Cardinality({f}) = 1
      BY FS_Singleton
    <3> HIDE DEF Idos
    <3> QED
      BY <3>2, <3>3
  <2> QED
    BY <2>2, <2>4
<1>2. Propiedad /\ [Next]_vars => [SinCoincidencias => Cardinality(Idos) <= 1]_vars
  BY <1>1
<1> QED
  BY <1>2, PropiedadInvariante, PTL DEF Spec

\* "El titulo es obligatorio" (EventoDialog) holds of every new event: one with
\* no title appears only when an edit is saved, by a session of its user.
THEOREM SinTituloSoloPorEdicion ==
  Spec => [][\A f \in Filas :
               /\ eventos'[f] # eventos[f]
               /\ eventos'[f] # NoHay /\ eventos'[f].tex \notin ConTitulo
               => \E p \in Sesiones : /\ fase[p] = "editando" /\ fase'[p] # "editando"
                                      /\ eventos[f] # NoHay
                                      /\ eventos'[f].usu = UsuarioDe[p]]_vars
<1> DEFINE Edita(p, f) == /\ fase[p] = "editando" /\ fase'[p] # "editando"
                          /\ eventos[f] # NoHay
                          /\ eventos'[f].usu = UsuarioDe[p]
<1>1. ASSUME Propiedad, [Next]_vars, NEW f \in Filas, eventos'[f] # eventos[f],
             eventos'[f] # NoHay, eventos'[f].tex \notin ConTitulo
      PROVE  \E p \in Sesiones : Edita(p, f)
  <2>1. TypeOK /\ SoloPropias
    BY <1>1 DEF Propiedad
  <2>2. ASSUME NEW p \in Sesiones, NEW h \in Horas, NEW t \in Textos,
               GuardarNuevo(p, h, t)
        PROVE  FALSE
    <3>1. t \in ConTitulo
      BY <2>2 DEF GuardarNuevo
    <3>2. \E k \in Filas : eventos' = [eventos EXCEPT ![k] = Nuevo(p, h, t)]
      BY <1>1, <2>1, <2>2, CrearEfecto
    <3>3. eventos'[f] = Nuevo(p, h, t)
      BY <1>1, <2>1, <3>2 DEF TypeOK, Listas
    <3> QED
      BY <1>1, <3>1, <3>3 DEF Nuevo
  <2>3. ASSUME NEW p \in Sesiones, NEW d \in Dias, NEW h \in Horas, NEW t \in Textos,
               GuardarEdicion(p, d, h, t)
        PROVE  Edita(p, f)
    <3>1. fase[p] = "editando" /\ fase'[p] # "editando"
      BY <2>1, <2>3, EditarEfecto DEF Resultado
    <3>2. /\ f \in MomentoDe(original[p])
          /\ eventos'[f] = [usu |-> UsuarioDe[p], dia |-> d, hora |-> h, tex |-> t]
      BY <1>1, <2>1, <2>3, EditarEfecto
    <3> QED
      BY <3>1, <3>2 DEF MomentoDe
  <2>4. ASSUME NEW p \in Sesiones, Borrar(p)
        PROVE  FALSE
    BY <1>1, <2>1, <2>4, BorrarEfecto
  <2> QED
    BY <1>1, <2>2, <2>3, <2>4, SoloEscribenTres
<1>2. Propiedad /\ [Next]_vars =>
        [\A f \in Filas :
           /\ eventos'[f] # eventos[f]
           /\ eventos'[f] # NoHay /\ eventos'[f].tex \notin ConTitulo
           => \E p \in Sesiones : Edita(p, f)]_vars
  BY <1>1
<1> QED
  BY <1>2, PropiedadInvariante, PTL DEF Spec
=============================================================================
