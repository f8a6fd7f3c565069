--------------------------- MODULE ReportesProofs ---------------------------
(***************************************************************************)
(* Proofs about Reportes.  The counting facts come first: each row of a    *)
(* day falls in one band, so the bands add up to the list.  Then Fieles: a *)
(* report that no write has made old is still the answer to its query.     *)
(* Two such answers agree, by the counting facts.                          *)
(***************************************************************************)
EXTENDS Reportes, FiniteSetTheorems, TLAPS

Tablas == [Filas -> Evento \cup {NoHay}]

\* The rows of the day that fall in a band.
DeFranja(t, u, x, b) == {f \in DeDia(t, u, x) : EnFranja(t[f].hora, b)}

\* What the report i would say if it were made of table t.
Respuesta(t, i) ==
  CASE i.tipo = "dia"        -> Lista(t, DeDia(t, UsuarioDe[i.de], i.plazo))
    [] i.tipo = "mes"        -> Lista(t, DeMes(t, UsuarioDe[i.de], i.plazo))
    [] i.tipo = "graficoDia" -> BandasDe(t, UsuarioDe[i.de], i.plazo)
    [] i.tipo = "graficoMes" -> BarrasDe(t, UsuarioDe[i.de], i.plazo)

Fieles ==
  \A v \in Visores :
    vigente[v] => visores[v] # NoHay /\ visores[v].datos = Respuesta(eventos, visores[v])

IInv == TypeOK /\ Fieles

-----------------------------------------------------------------------------
(* Counting.                                                               *)

\* Rows are finitely many, so every count is a number.
LEMMA Cuenta == ASSUME NEW R \in SUBSET Filas
                PROVE  IsFiniteSet(R) /\ Cardinality(R) \in Nat
  BY FilasAssumption, FS_Subset, FS_CardinalityType

\* Two disjoint sets of rows count as much together as apart.
LEMMA CuentaDisjunta ==
  ASSUME NEW R \in SUBSET Filas, NEW T \in SUBSET Filas, R \cap T = {}
  PROVE  Cardinality(R \cup T) = Cardinality(R) + Cardinality(T)
<1>1. IsFiniteSet(R) /\ IsFiniteSet(T) /\ Cardinality(R) \in Nat /\ Cardinality(T) \in Nat
  BY Cuenta
<1>2. Cardinality(R \cap T) = 0
  BY FS_EmptySet
<1>3. Cardinality(R \cup T) = Cardinality(R) + Cardinality(T) - Cardinality(R \cap T)
  BY <1>1, FS_Union
<1> QED
  BY <1>1, <1>2, <1>3

\* An hour is in one band, and in one only.
LEMMA UnaFranja ==
  ASSUME NEW h \in 0 .. 23
  PROVE  /\ \E b \in Franjas : EnFranja(h, b)
         /\ \A b, c \in Franjas : EnFranja(h, b) /\ EnFranja(h, c) => b = c
  BY DEF Franjas, EnFranja, Ini, Fin

\* Hence the four bands of a day add up to its rows.
LEMMA SumaDelDia ==
  ASSUME NEW t \in Tablas, NEW u, NEW x
  PROVE  Suma(BandasDe(t, u, x)) = Cardinality(DeDia(t, u, x))
<1> DEFINE M == DeFranja(t, u, x, "madrugada")
           N == DeFranja(t, u, x, "manana")
           T == DeFranja(t, u, x, "tarde")
           C == DeFranja(t, u, x, "noche")
<1>1. \A f \in DeDia(t, u, x) : f \in Filas /\ t[f].hora \in 0 .. 23
  <2> SUFFICES ASSUME NEW f \in DeDia(t, u, x) PROVE f \in Filas /\ t[f].hora \in 0 .. 23
    OBVIOUS
  <2>1. f \in Filas /\ t[f] \in Evento
    BY DEF DeDia, Tablas
  <2>2. t[f].hora \in Horas
    BY <2>1 DEF Evento
  <2> QED
    BY <2>1, <2>2, FechasAssumption
<1>2. M \subseteq Filas /\ N \subseteq Filas /\ T \subseteq Filas /\ C \subseteq Filas
  BY <1>1 DEF DeFranja
<1>3. /\ M \cap N = {}
      /\ (M \cup N) \cap T = {}
      /\ ((M \cup N) \cup T) \cap C = {}
  BY <1>1, UnaFranja DEF DeFranja, Franjas
<1>4. DeDia(t, u, x) = ((M \cup N) \cup T) \cup C
  BY <1>1, UnaFranja DEF DeFranja, Franjas
<1>5. Cardinality(M \cup N) = Cardinality(M) + Cardinality(N)
  BY <1>2, <1>3, CuentaDisjunta
<1>6. Cardinality((M \cup N) \cup T) = Cardinality(M \cup N) + Cardinality(T)
  BY <1>2, <1>3, CuentaDisjunta
<1>7. Cardinality(((M \cup N) \cup T) \cup C) = Cardinality((M \cup N) \cup T) + Cardinality(C)
  BY <1>2, <1>3, CuentaDisjunta
<1>8. Suma(BandasDe(t, u, x)) =
        Cardinality(M) + Cardinality(N) + Cardinality(T) + Cardinality(C)
  BY DEF Suma, BandasDe, DeFranja, Franjas
<1> HIDE DEF M, N, T, C
<1> QED
  BY <1>2, <1>4, <1>5, <1>6, <1>7, <1>8, Cuenta

\* A list shows the rows it was made of.
LEMMA FilasDeLista ==
  ASSUME NEW t \in Tablas, NEW R \in SUBSET Filas, \A f \in R : t[f] # NoHay
  PROVE  /\ Presentes(Lista(t, R)) = R
         /\ \A d : EnElDia(Lista(t, R), d) = {f \in R : t[f].dia = d}
  BY DEF Presentes, EnElDia, Lista

LEMMA FilasDeConsultas ==
  ASSUME NEW t \in Tablas, NEW u, NEW x
  PROVE  /\ DeDia(t, u, x) \in SUBSET Filas /\ DeMes(t, u, x) \in SUBSET Filas
         /\ \A f \in DeDia(t, u, x) \cup DeMes(t, u, x) : t[f] # NoHay
  BY DEF DeDia, DeMes

\* The rows of a day are those of its month on that day.
LEMMA DiaDelMes ==
  ASSUME NEW t \in Tablas, NEW u, NEW x, NEW m, DelPlazo(x, m)
  PROVE  DeDia(t, u, x) = {f \in DeMes(t, u, m) : t[f].dia = x.dia}
  BY DEF DeDia, DeMes, DelPlazo

-----------------------------------------------------------------------------
(* Answers to queries have the type of their report.                       *)

LEMMA ConsultasTipadas ==
  ASSUME NEW t \in Tablas, NEW u, NEW x
  PROVE  /\ Lista(t, DeDia(t, u, x)) \in Listas
         /\ Lista(t, DeMes(t, u, x)) \in Listas
         /\ BandasDe(t, u, x) \in [Franjas -> Nat]
         /\ BarrasDe(t, u, x) \in [Dias -> Nat]
<1>1. Lista(t, DeDia(t, u, x)) \in Listas /\ Lista(t, DeMes(t, u, x)) \in Listas
  BY DEF Lista, Listas, Tablas
<1>2. \A b \in Franjas : {f \in DeDia(t, u, x) : EnFranja(t[f].hora, b)} \in SUBSET Filas
  BY DEF DeDia
<1>3. \A d \in Dias : {f \in DeMes(t, u, x) : t[f].dia = d} \in SUBSET Filas
  BY DEF DeMes
<1>4. BandasDe(t, u, x) \in [Franjas -> Nat]
  BY <1>2, Cuenta DEF BandasDe
<1>5. BarrasDe(t, u, x) \in [Dias -> Nat]
  BY <1>3, Cuenta DEF BarrasDe
<1> QED
  BY <1>1, <1>4, <1>5

\* A report of each kind, made now, has its type and is faithful.
Recien(i) == i \in Informe /\ i.datos = Respuesta(eventos, i)

LEMMA DiaRecien ==
  ASSUME TypeOK, NEW p \in Ventanas, NEW x \in Fechas
  PROVE  Recien([de |-> p, tipo |-> "dia", plazo |-> x,
                 datos |-> Lista(eventos, DeDia(eventos, UsuarioDe[p], x))])
  BY ConsultasTipadas DEF TypeOK, Tablas, Recien, Informe, Respuesta

LEMMA BandasRecien ==
  ASSUME TypeOK, NEW p \in Ventanas, NEW x \in Fechas
  PROVE  Recien([de |-> p, tipo |-> "graficoDia", plazo |-> x,
                 datos |-> BandasDe(eventos, UsuarioDe[p], x)])
  BY ConsultasTipadas DEF TypeOK, Tablas, Recien, Informe, Respuesta

LEMMA MesRecien ==
  ASSUME TypeOK, NEW p \in Ventanas, NEW x \in Plazos
  PROVE  Recien([de |-> p, tipo |-> "mes", plazo |-> x,
                 datos |-> Lista(eventos, DeMes(eventos, UsuarioDe[p], x))])
  BY ConsultasTipadas DEF TypeOK, Tablas, Recien, Informe, Respuesta

LEMMA BarrasRecien ==
  ASSUME TypeOK, NEW p \in Ventanas, NEW x \in Plazos
  PROVE  Recien([de |-> p, tipo |-> "graficoMes", plazo |-> x,
                 datos |-> BarrasDe(eventos, UsuarioDe[p], x)])
  BY ConsultasTipadas DEF TypeOK, Tablas, Recien, Informe, Respuesta

\* A year that is not refused is one that a report may have.
LEMMA PlazoPedido ==
  ASSUME NEW a \in AniosPedidos, NEW m \in Meses, AnioValido(a)
  PROVE  [anio |-> a, mes |-> m] \in Plazos
  BY FechasAssumption DEF AnioValido, Plazos

-----------------------------------------------------------------------------
(* The invariant.                                                          *)

\* A message changes neither the table nor the viewers.
LEMMA AvisarConserva ==
  ASSUME IInv, NEW p \in Ventanas,
         NEW m \in {"", "fecha", "anio", "noEncontrado", "error", "vacio"}, Avisar(p, m)
  PROVE  IInv'
<1>1. TypeOK'
  BY DEF IInv, TypeOK, Avisar
<1>2. Fieles'
  BY DEF IInv, Fieles, Avisar
<1> QED
  BY <1>1, <1>2 DEF IInv

\* Showing a report made now keeps every viewer faithful.
LEMMA MostrarConserva ==
  ASSUME IInv, NEW p \in Ventanas, NEW i, Recien(i), NEW vacio, Mostrar(p, i, vacio)
  PROVE  IInv'
<1>1. CASE Avisar(p, "noEncontrado") \/ Avisar(p, "error") \/ Avisar(p, "vacio")
  BY <1>1, AvisarConserva
<1>2. CASE \E v \in Visores :
             /\ visores[v] = NoHay
             /\ visores' = [visores EXCEPT ![v] = i]
             /\ vigente' = [vigente EXCEPT ![v] = TRUE]
             /\ UNCHANGED <<eventos, aviso>>
  <2>1. PICK v \in Visores :
          /\ visores' = [visores EXCEPT ![v] = i]
          /\ vigente' = [vigente EXCEPT ![v] = TRUE]
          /\ UNCHANGED <<eventos, aviso>>
    BY <1>2
  <2>2. TypeOK'
    BY <2>1 DEF IInv, TypeOK, Recien
  <2>3. Fieles'
    <3> SUFFICES ASSUME NEW w \in Visores, vigente'[w]
                 PROVE  visores'[w] # NoHay /\ visores'[w].datos = Respuesta(eventos', visores'[w])
      BY DEF Fieles
    <3>1. CASE w = v
      <4>1. visores'[w] = i
        BY <2>1, <3>1 DEF IInv, TypeOK
      <4>2. i # NoHay
        BY InformeAssumption DEF Recien
      <4> QED
        BY <4>1, <4>2, <2>1 DEF Recien
    <3>2. CASE w # v
      <4>1. visores'[w] = visores[w] /\ vigente[w]
        BY <2>1, <3>2 DEF IInv, TypeOK
      <4> QED
        BY <4>1, <2>1 DEF IInv, Fieles
    <3> QED
      BY <3>1, <3>2
  <2> QED
    BY <2>2, <2>3 DEF IInv
<1> QED
  BY <1>1, <1>2 DEF Mostrar

LEMMA InitIInv == Init => IInv
  BY DEF Init, IInv, TypeOK, Fieles

LEMMA NextIInv == IInv /\ [Next]_vars => IInv'
<1> SUFFICES ASSUME IInv, [Next]_vars PROVE IInv'
  OBVIOUS
<1>0. TypeOK
  BY DEF IInv
<1>1. ASSUME NEW p \in Ventanas, NEW x \in Fechas \cup {NoHay}, GenerarPorDia(p, x)
      PROVE  IInv'
  BY <1>0, <1>1, AvisarConserva, MostrarConserva, DiaRecien DEF GenerarPorDia
<1>2. ASSUME NEW p \in Ventanas, NEW x \in Fechas \cup {NoHay}, GraficoPorDia(p, x)
      PROVE  IInv'
  BY <1>0, <1>2, AvisarConserva, MostrarConserva, BandasRecien DEF GraficoPorDia
<1>3. ASSUME NEW p \in Ventanas, NEW m \in Meses, NEW a \in AniosPedidos, GenerarPorMes(p, m, a)
      PROVE  IInv'
  BY <1>0, <1>3, AvisarConserva, MostrarConserva, MesRecien, PlazoPedido DEF GenerarPorMes
<1>4. ASSUME NEW p \in Ventanas, NEW m \in Meses, NEW a \in AniosPedidos, GraficoPorMes(p, m, a)
      PROVE  IInv'
  BY <1>0, <1>4, AvisarConserva, MostrarConserva, BarrasRecien, PlazoPedido DEF GraficoPorMes
<1>5. ASSUME NEW p \in Ventanas, Aceptar(p) PROVE IInv'
  BY <1>5, AvisarConserva DEF Aceptar
<1>6. ASSUME NEW p \in Ventanas, Terminar(p) PROVE IInv'
  <2>1. TypeOK'
    BY <1>0, <1>6 DEF TypeOK, Terminar
  <2>2. \A v \in Visores : vigente'[v] => vigente[v] /\ visores'[v] = visores[v]
    BY <1>0, <1>6 DEF TypeOK, Terminar
  <2>3. Fieles'
    BY <1>6, <2>2 DEF IInv, Fieles, Terminar
  <2> QED
    BY <2>1, <2>3 DEF IInv
<1>7. ASSUME NEW v \in Visores, CerrarVisor(v) PROVE IInv'
  <2>1. TypeOK'
    BY <1>0, <1>7 DEF TypeOK, CerrarVisor
  <2>2. \A w \in Visores : vigente'[w] => vigente[w] /\ visores'[w] = visores[w]
    BY <1>0, <1>7 DEF TypeOK, CerrarVisor
  <2>3. Fieles'
    BY <1>7, <2>2 DEF IInv, Fieles, CerrarVisor
  <2> QED
    BY <2>1, <2>3 DEF IInv
<1>8. ASSUME NEW f \in Filas, NEW e \in Evento \cup {NoHay}, Escribir(f, e) PROVE IInv'
  <2>1. TypeOK'
    BY <1>0, <1>8 DEF TypeOK, Escribir
  <2>2. Fieles'
    BY <1>8 DEF Fieles, Escribir
  <2> QED
    BY <2>1, <2>2 DEF IInv
<1>9. CASE UNCHANGED vars
  BY <1>9 DEF vars, IInv, TypeOK, Fieles
<1> QED
  BY <1>1, <1>2, <1>3, <1>4, <1>5, <1>6, <1>7, <1>8, <1>9 DEF Next

LEMMA Invariante == Spec => []IInv
  BY InitIInv, NextIInv, PTL DEF Spec

\* Every variable of the reports keeps its type (VistaPrincipal's four buttons,
\* ReporteController, Reporte): no report is of a year that is refused.
THEOREM TipoCorrecto == Spec => []TypeOK
<1>1. IInv => TypeOK
  BY DEF IInv
<1> QED
  BY <1>1, Invariante, PTL

-----------------------------------------------------------------------------
(* Two answers of now agree.                                               *)

LEMMA ListaYBandasDeAhora ==
  ASSUME eventos \in Tablas, NEW i, NEW j, UsuarioDe[i.de] = UsuarioDe[j.de],
         i.datos = Respuesta(eventos, i), j.datos = Respuesta(eventos, j)
  PROVE  ListaYBandas(i, j)
<1> SUFFICES ASSUME i.tipo = "dia", j.tipo = "graficoDia", i.plazo = j.plazo
             PROVE  Suma(j.datos) = Cardinality(Presentes(i.datos))
  BY DEF ListaYBandas
<1> DEFINE R == DeDia(eventos, UsuarioDe[i.de], i.plazo)
<1>1. i.datos = Lista(eventos, R) /\ j.datos = BandasDe(eventos, UsuarioDe[i.de], i.plazo)
  BY DEF Respuesta
<1>2. Presentes(i.datos) = R
  BY <1>1, FilasDeLista, FilasDeConsultas
<1> QED
  BY <1>1, <1>2, SumaDelDia

LEMMA ListaYBarrasDeAhora ==
  ASSUME eventos \in Tablas, NEW i, NEW j, UsuarioDe[i.de] = UsuarioDe[j.de],
         i.datos = Respuesta(eventos, i), j.datos = Respuesta(eventos, j)
  PROVE  ListaYBarras(i, j)
<1> SUFFICES ASSUME i.tipo = "mes", j.tipo = "graficoMes", i.plazo = j.plazo, NEW d \in Dias
             PROVE  j.datos[d] = Cardinality(EnElDia(i.datos, d))
  BY DEF ListaYBarras
<1> DEFINE R == DeMes(eventos, UsuarioDe[i.de], i.plazo)
<1>1. i.datos = Lista(eventos, R) /\ j.datos = BarrasDe(eventos, UsuarioDe[i.de], i.plazo)
  BY DEF Respuesta
<1>2. EnElDia(i.datos, d) = {f \in R : eventos[f].dia = d}
  BY <1>1, FilasDeLista, FilasDeConsultas
<1> QED
  BY <1>1, <1>2 DEF BarrasDe

LEMMA DiaYMesDeAhora ==
  ASSUME eventos \in Tablas, NEW i, NEW j, UsuarioDe[i.de] = UsuarioDe[j.de],
         i.datos = Respuesta(eventos, i), j.datos = Respuesta(eventos, j)
  PROVE  DiaYMes(i, j)
<1> SUFFICES ASSUME i.tipo = "dia", j.tipo = "mes", DelPlazo(i.plazo, j.plazo)
             PROVE  Presentes(i.datos) = EnElDia(j.datos, i.plazo.dia)
  BY DEF DiaYMes
<1> DEFINE u == UsuarioDe[i.de]
<1>1. /\ i.datos = Lista(eventos, DeDia(eventos, u, i.plazo))
      /\ j.datos = Lista(eventos, DeMes(eventos, u, j.plazo))
  BY DEF Respuesta
<1>2. Presentes(i.datos) = DeDia(eventos, u, i.plazo)
  BY <1>1, FilasDeLista, FilasDeConsultas
<1>3. EnElDia(j.datos, i.plazo.dia) =
        {f \in DeMes(eventos, u, j.plazo) : eventos[f].dia = i.plazo.dia}
  BY <1>1, FilasDeLista, FilasDeConsultas
<1> QED
  BY <1>2, <1>3, DiaDelMes

LEMMA BandasYBarrasDeAhora ==
  ASSUME eventos \in Tablas, NEW i \in Informe, NEW j, UsuarioDe[i.de] = UsuarioDe[j.de],
         i.datos = Respuesta(eventos, i), j.datos = Respuesta(eventos, j)
  PROVE  BandasYBarras(i, j)
<1> SUFFICES ASSUME i.tipo = "graficoDia", j.tipo = "graficoMes", DelPlazo(i.plazo, j.plazo)
             PROVE  Suma(i.datos) = j.datos[i.plazo.dia]
  BY DEF BandasYBarras
<1> DEFINE u == UsuarioDe[i.de]
<1>1. /\ i.datos = BandasDe(eventos, u, i.plazo)
      /\ j.datos = BarrasDe(eventos, u, j.plazo)
  BY DEF Respuesta
<1>2. i.plazo.dia \in Dias
  BY DEF Informe, Fechas
<1>3. j.datos[i.plazo.dia] =
        Cardinality({f \in DeMes(eventos, u, j.plazo) : eventos[f].dia = i.plazo.dia})
  BY <1>1, <1>2 DEF BarrasDe
<1>4. DeDia(eventos, u, i.plazo) =
        {f \in DeMes(eventos, u, j.plazo) : eventos[f].dia = i.plazo.dia}
  BY ZenonT(30), DiaDelMes
<1> QED
  BY <1>1, <1>3, <1>4, SumaDelDia

LEMMA IInvCuadran == IInv => Cuadran
<1> SUFFICES ASSUME IInv, NEW v \in Visores, NEW w \in Visores, vigente[v], vigente[w],
                    UsuarioDe[visores[v].de] = UsuarioDe[visores[w].de]
             PROVE  Concuerdan(visores[v], visores[w])
  BY DEF Cuadran
<1>1. eventos \in Tablas
  BY DEF IInv, TypeOK, Tablas
<1>2. visores[v] \in Informe /\ visores[v].datos = Respuesta(eventos, visores[v])
  BY DEF IInv, TypeOK, Fieles
<1>3. visores[w].datos = Respuesta(eventos, visores[w])
  BY DEF IInv, Fieles
<1> QED
  BY <1>1, <1>2, <1>3, ListaYBandasDeAhora, ListaYBarrasDeAhora, DiaYMesDeAhora,
     BandasYBarrasDeAhora DEF Concuerdan

\* Reports of one user that no write has made old agree, for any table, hours,
\* dates and number of windows: the four queries of the .jrxml files are of the
\* same events, and the bands of the day's chart leave out no hour and count
\* none twice.
THEOREM CuadranSiempre == Spec => []Cuadran
  BY IInvCuadran, Invariante, PTL
=============================================================================
