------------------------------ MODULE Reportes ------------------------------
(***************************************************************************)
(* The reports: the list of a day or of a month, the chart of a day in     *)
(* four bands of hours, and the chart of a month in bars, one per day.     *)
(* Each is one query, whose result a viewer keeps while sessions go on     *)
(* writing to the table.                                                   *)
(***************************************************************************)
EXTENDS Integers, FiniteSets

CONSTANTS
  Ventanas,      \* executions of the program, past their login
  Usuarios,      \* registered users
  UsuarioDe,     \* the user of each execution
  Filas,         \* rows of EVENTOS
  Anios, Meses, Dias, Horas,     \* when events may be
  AniosPedidos,  \* what the year's spinner may hold
  Visores,       \* report windows: a bound on how many are open
  NoHay,         \* "no row", "no date", "no report"
  Fallos         \* "fichero": a .jasper is missing; "base": the query fails

Evento == [usu : Usuarios, anio : Anios, mes : Meses, dia : Dias, hora : Horas]
Fechas == [anio : Anios, mes : Meses, dia : Dias]
Plazos == [anio : AniosPedidos \cap 2000 .. 2100, mes : Meses]

ASSUME VentanasAssumption == UsuarioDe \in [Ventanas -> Usuarios]
ASSUME FilasAssumption    == IsFiniteSet(Filas)
ASSUME FechasAssumption   == Meses \subseteq 1 .. 12 /\ Horas \subseteq 0 .. 23
                             /\ Anios \subseteq Int /\ AniosPedidos \subseteq Int
ASSUME NoHayAssumption    == NoHay \notin Evento /\ NoHay \notin Fechas
ASSUME FallosAssumption   == Fallos \subseteq {"fichero", "base"}

-----------------------------------------------------------------------------
(* The four queries.                                                       *)

Franjas == {"madrugada", "manana", "tarde", "noche"}
Ini == [madrugada |-> 0, manana |-> 6, tarde |-> 12, noche |-> 18]
Fin == [madrugada |-> 6, manana |-> 12, tarde |-> 18, noche |-> 24]

\* Mutant of EnFranja: bands that share their limits.
EnFranjaCerrada(h, b) == h >= Ini[b] /\ h <= Fin[b]

EnFranja(h, b) == h >= Ini[b] /\ h < Fin[b]

\* WHERE E.FEC_EVE = fecha AND E.ID_USU_PER = u, in table t
DeDia(t, u, x) ==
  {f \in Filas : t[f] # NoHay /\ t[f].usu = u
                 /\ t[f].anio = x.anio /\ t[f].mes = x.mes /\ t[f].dia = x.dia}

\* WHERE MONTH(E.FEC_EVE) = mes AND YEAR(E.FEC_EVE) = anio AND ...
DeMes(t, u, x) ==
  {f \in Filas : t[f] # NoHay /\ t[f].usu = u /\ t[f].anio = x.anio /\ t[f].mes = x.mes}

\* A list: the rows and what they held.
Lista(t, R) == [f \in Filas |-> IF f \in R THEN t[f] ELSE NoHay]

\* The counts of a day's chart: one per band, be it 0 (LEFT JOIN) ...
BandasDe(t, u, x) ==
  [b \in Franjas |-> Cardinality({f \in DeDia(t, u, x) : EnFranja(t[f].hora, b)})]

\* ... and of a month's (0: the day has no bar).
BarrasDe(t, u, x) ==
  [d \in Dias |-> Cardinality({f \in DeMes(t, u, x) : t[f].dia = d})]

Vacia  == [f \in Filas |-> NoHay]
Listas == [Filas -> Evento \cup {NoHay}]

Informe ==
       [de : Ventanas, tipo : {"dia"}, plazo : Fechas, datos : Listas]
  \cup [de : Ventanas, tipo : {"mes"}, plazo : Plazos, datos : Listas]
  \cup [de : Ventanas, tipo : {"graficoDia"}, plazo : Fechas, datos : [Franjas -> Nat]]
  \cup [de : Ventanas, tipo : {"graficoMes"}, plazo : Plazos, datos : [Dias -> Nat]]

ASSUME InformeAssumption == NoHay \notin Informe

-----------------------------------------------------------------------------
VARIABLES
  eventos,       \* the table EVENTOS
  visores,       \* the report in each window
  vigente,       \* the table is as it was when the report was made (auxiliary)
  aviso          \* the message that each execution shows, or ""

vars == <<eventos, visores, vigente, aviso>>

-----------------------------------------------------------------------------
Init ==
  /\ eventos = [f \in Filas |-> NoHay]
  /\ visores = [v \in Visores |-> NoHay]
  /\ vigente = [v \in Visores |-> FALSE]
  /\ aviso = [p \in Ventanas |-> ""]

Avisar(p, m) ==
  /\ aviso' = [aviso EXCEPT ![p] = m]
  /\ UNCHANGED <<eventos, visores, vigente>>

\* mostrarReporte, of a report that has pages unless it is empty.  The viewer
\* is a window of its own, and the program goes on beside it.
Mostrar(p, informe, vacio) ==
  \/ "fichero" \in Fallos /\ Avisar(p, "noEncontrado")
  \/ "base" \in Fallos /\ Avisar(p, "error")
  \/ vacio /\ Avisar(p, "vacio")
  \/ \E v \in Visores :
       /\ ~ vacio /\ visores[v] = NoHay
       /\ visores' = [visores EXCEPT ![v] = informe]
       /\ vigente' = [vigente EXCEPT ![v] = TRUE]
       /\ UNCHANGED <<eventos, aviso>>

\* The two buttons of a day.  There is always a session: nothing ends it.
GenerarPorDia(p, fecha) ==
  /\ aviso[p] = ""
  /\ \/ fecha = NoHay /\ Avisar(p, "fecha")
     \/ /\ fecha # NoHay
        /\ LET lista == Lista(eventos, DeDia(eventos, UsuarioDe[p], fecha)) IN
           Mostrar(p, [de |-> p, tipo |-> "dia", plazo |-> fecha, datos |-> lista],
                   lista = Vacia)

GraficoPorDia(p, fecha) ==
  /\ aviso[p] = ""
  /\ \/ fecha = NoHay /\ Avisar(p, "fecha")
     \/ /\ fecha # NoHay
        /\ Mostrar(p, [de |-> p, tipo |-> "graficoDia", plazo |-> fecha,
                       datos |-> BandasDe(eventos, UsuarioDe[p], fecha)],
                   FALSE)

\* Mutant of AnioValido: no year is refused.
AnioCualquiera(a) == TRUE

AnioValido(a) == 2000 <= a /\ a <= 2100

\* The two buttons of a month: the combo box holds months only, and the
\* spinner any number.
GenerarPorMes(p, mes, anio) ==
  /\ aviso[p] = ""
  /\ \/ ~ AnioValido(anio) /\ Avisar(p, "anio")
     \/ /\ AnioValido(anio)
        /\ LET plazo == [anio |-> anio, mes |-> mes]
               lista == Lista(eventos, DeMes(eventos, UsuarioDe[p], plazo))
           IN Mostrar(p, [de |-> p, tipo |-> "mes", plazo |-> plazo, datos |-> lista],
                      lista = Vacia)

GraficoPorMes(p, mes, anio) ==
  /\ aviso[p] = ""
  /\ \/ ~ AnioValido(anio) /\ Avisar(p, "anio")
     \/ /\ AnioValido(anio)
        /\ LET plazo  == [anio |-> anio, mes |-> mes]
               barras == BarrasDe(eventos, UsuarioDe[p], plazo)
           IN Mostrar(p, [de |-> p, tipo |-> "graficoMes", plazo |-> plazo, datos |-> barras],
                      \A d \in Dias : barras[d] = 0)

Aceptar(p) ==
  /\ aviso[p] # ""
  /\ Avisar(p, "")

\* A message is modal: it stops the viewers of its execution too.
CerrarVisor(v) ==
  /\ visores[v] # NoHay
  /\ aviso[visores[v].de] = ""
  /\ visores' = [visores EXCEPT ![v] = NoHay]
  /\ vigente' = [vigente EXCEPT ![v] = FALSE]
  /\ UNCHANGED <<eventos, aviso>>

\* The execution ends, and its viewers with it: p is then the next execution of
\* that user.
Terminar(p) ==
  /\ visores' = [v \in Visores |->
                   IF visores[v] # NoHay /\ visores[v].de = p THEN NoHay ELSE visores[v]]
  /\ vigente' = [v \in Visores |-> vigente[v] /\ visores'[v] # NoHay]
  /\ aviso' = [aviso EXCEPT ![p] = ""]
  /\ UNCHANGED eventos

\* Some session creates, edits or deletes an event.
Escribir(f, e) ==
  /\ eventos[f] # e
  /\ eventos' = [eventos EXCEPT ![f] = e]
  /\ vigente' = [v \in Visores |-> FALSE]
  /\ UNCHANGED <<visores, aviso>>

Next ==
  \/ \E p \in Ventanas, x \in Fechas \cup {NoHay} : GenerarPorDia(p, x) \/ GraficoPorDia(p, x)
  \/ \E p \in Ventanas, m \in Meses, a \in AniosPedidos :
       GenerarPorMes(p, m, a) \/ GraficoPorMes(p, m, a)
  \/ \E p \in Ventanas : Aceptar(p) \/ Terminar(p)
  \/ \E v \in Visores : CerrarVisor(v)
  \/ \E f \in Filas, e \in Evento \cup {NoHay} : Escribir(f, e)

Spec == Init /\ [][Next]_vars

-----------------------------------------------------------------------------
(* Properties.                                                             *)

\* Every variable has its type: in particular no report is of a year that the
\* four methods of ReporteController refuse.
TypeOK ==
  /\ eventos \in [Filas -> Evento \cup {NoHay}]
  /\ visores \in [Visores -> Informe \cup {NoHay}]
  /\ vigente \in [Visores -> BOOLEAN]
  /\ aviso \in [Ventanas -> {"", "fecha", "anio", "noEncontrado", "error", "vacio"}]

Presentes(lista) == {f \in Filas : lista[f] # NoHay}
EnElDia(lista, d) == {f \in Presentes(lista) : lista[f].dia = d}
Suma(bandas) ==
  bandas["madrugada"] + bandas["manana"] + bandas["tarde"] + bandas["noche"]

\* What two reports of one user say of the same events.
ListaYBandas(i, j) ==
  i.tipo = "dia" /\ j.tipo = "graficoDia" /\ i.plazo = j.plazo
    => Suma(j.datos) = Cardinality(Presentes(i.datos))

ListaYBarras(i, j) ==
  i.tipo = "mes" /\ j.tipo = "graficoMes" /\ i.plazo = j.plazo
    => \A d \in Dias : j.datos[d] = Cardinality(EnElDia(i.datos, d))

DelPlazo(x, m) == x.anio = m.anio /\ x.mes = m.mes

DiaYMes(i, j) ==
  i.tipo = "dia" /\ j.tipo = "mes" /\ DelPlazo(i.plazo, j.plazo)
    => Presentes(i.datos) = EnElDia(j.datos, i.plazo.dia)

BandasYBarras(i, j) ==
  i.tipo = "graficoDia" /\ j.tipo = "graficoMes" /\ DelPlazo(i.plazo, j.plazo)
    => Suma(i.datos) = j.datos[i.plazo.dia]

Concuerdan(i, j) ==
  ListaYBandas(i, j) /\ ListaYBarras(i, j) /\ DiaYMes(i, j) /\ BandasYBarras(i, j)

\* The four queries are written apart, one by HOUR in bands, one by MONTH and
\* YEAR, one by date and one grouped: whenever two windows, of any executions,
\* show reports of one user that no write has made old, they agree.  The bands
\* of a day add up to its list, the bars of a month are the days of its list,
\* and a day is the same on its own as in its month.
Cuadran ==
  \A v, w \in Visores :
    vigente[v] /\ vigente[w] /\ UsuarioDe[visores[v].de] = UsuarioDe[visores[w].de]
      => Concuerdan(visores[v], visores[w])
=============================================================================
