-------------------------- MODULE ResaltadoProofs --------------------------
(***************************************************************************)
(* Proofs about Resaltado: what the runs of highlightEventDays leave on    *)
(* the buttons, for any number of runs, months, days and events.           *)
(***************************************************************************)
EXTENDS Resaltado, TLAPS

USE NadieAssumption, MesesAssumption, CitablesAssumption, OtrasAssumption

-----------------------------------------------------------------------------
(* Types.                                                                  *)

\* The selected day and its button.
LEMMA FechaBien ==
  ASSUME fecha \in Fechas
  PROVE  /\ fecha.mes \in Meses /\ fecha.dia \in Dias
         /\ \A d \in Dias : Boton(fecha.mes, d) \in TodosLosBotones
BY DEF Fechas, TodosLosBotones

LEMMA TipoInicial == Init => TypeOK
<1> SUFFICES ASSUME Init PROVE TypeOK
  OBVIOUS
<1>1. fecha.mes \in Meses
  BY FechaBien DEF Init
<1> QED
  BY <1>1 DEF Init, TypeOK, Estilos

LEMMA TipoElegir ==
  ASSUME TypeOK, NEW h \in Hilos, NEW f \in Fechas, ElegirFecha(h, f)
  PROVE  TypeOK'
BY DEF TypeOK, ElegirFecha, Empezar, Quieto, Estilos

LEMMA TipoVolver ==
  ASSUME TypeOK, VolverAElegir
  PROVE  TypeOK'
BY DEF TypeOK, VolverAElegir, Estilos

LEMMA TipoTabla ==
  ASSUME TypeOK, NEW E \in SUBSET Citables, Guardar(E) \/ OtraEscribe(E)
  PROVE  TypeOK'
BY DEF TypeOK, Guardar, OtraEscribe

LEMMA TipoResaltar ==
  ASSUME TypeOK, NEW h \in Hilos, Resaltar(h)
  PROVE  TypeOK'
BY DEF TypeOK, Resaltar, Empezar, Quieto

LEMMA TipoEscribir ==
  ASSUME TypeOK, NEW h \in Hilos, NEW e \in Escrituras, Escribir(h, e)
  PROVE  TypeOK'
<1>1. Estilo(h) \in Estilos
  BY DEF Escribir, Estilo, Estilos
<1> QED
  BY <1>1 DEF TypeOK, Escribir

LEMMA TipoBuscar ==
  ASSUME TypeOK, NEW h \in Hilos, NEW d \in Dias, Buscar(h, d)
  PROVE  TypeOK'
<1>1. Boton(fecha.mes, d) \in TodosLosBotones
  BY FechaBien DEF TypeOK
<1>2. {Boton(fecha.mes, d)} \X (IF fase[h] = "verde" THEN {"opaco", "fondo"} ELSE Props) \in SUBSET Escrituras
  BY <1>1 DEF Escrituras, Props
<1> QED
  BY <1>2 DEF TypeOK, Buscar

LEMMA TipoConsultar ==
  ASSUME TypeOK, NEW h \in Hilos, Consultar(h)
  PROVE  TypeOK'
<1>1. DelMes(conEvento, mes[h]) \in SUBSET Dias
  BY DEF DelMes
<1> QED
  BY <1>1 DEF TypeOK, Consultar

LEMMA TipoOtros ==
  ASSUME TypeOK, NEW h \in Hilos,
         LeerMes(h) \/ PasarAVerde(h) \/ LeerSeleccionado(h) \/ Acabar(h)
  PROVE  TypeOK'
<1>1. fecha.mes \in Meses /\ fecha.dia \in Dias
  BY FechaBien DEF TypeOK
<1> QED
  BY <1>1 DEF TypeOK, LeerMes, PasarAVerde, LeerSeleccionado, Acabar

LEMMA TipoPaso == TypeOK /\ [Next]_vars => TypeOK'
<1> SUFFICES ASSUME TypeOK, [Next]_vars PROVE TypeOK'
  OBVIOUS
<1>1. ASSUME NEW h \in Hilos, Paso(h) PROVE TypeOK'
  BY <1>1, TipoConsultar, TipoEscribir, TipoBuscar, TipoOtros DEF Paso
<1>2. CASE UNCHANGED vars
  BY <1>2 DEF vars, TypeOK
<1> QED
  BY <1>1, <1>2, TipoElegir, TipoVolver, TipoTabla, TipoResaltar DEF Next

-----------------------------------------------------------------------------
(* The selected day.                                                       *)

\* Run h has still to write property q of the selected day's button.
Debe(h, q) ==
  \/ fase[h] \in {"leer", "consultar", "borrar", "verde"}
  \/ fase[h] = "amarillo" /\ (pintar[h] = {fecha.dia} \/ <<Elegido, q>> \in tarea[h])

\* What is not yellow was taken by a click or is owed by some run.
Marca ==
  \A q \in Props : \/ aspecto[<<Elegido, q>>] = "amarillo"
                   \/ q = "fondo" /\ pisado
                   \/ \E h \in Hilos : Debe(h, q)

\* A run that begins owes everything.
LEMMA EmpezarDebe ==
  ASSUME TypeOK, NEW h \in Hilos, Empezar(h)
  PROVE  Marca'
<1>1. fase'[h] = "leer"
  BY DEF TypeOK, Empezar
<1> QED
  BY <1>1 DEF Marca, Debe

\* A step of h that pays nothing and touches no button leaves the debts of all.
LEMMA MarcaQueda ==
  ASSUME TypeOK, Marca, NEW h \in Hilos, UNCHANGED <<fecha, aspecto, pisado>>,
         \A g \in Hilos \ {h} : UNCHANGED <<fase[g], pintar[g], tarea[g]>>,
         \A q \in Props : Debe(h, q) => Debe(h, q)'
  PROVE  Marca'
<1> SUFFICES ASSUME NEW q \in Props, aspecto'[<<Elegido', q>>] # "amarillo",
                    ~ (q = "fondo" /\ pisado')
             PROVE  \E g \in Hilos : Debe(g, q)'
  BY DEF Marca
<1>1. PICK g \in Hilos : Debe(g, q)
  BY DEF Marca, Elegido
<1>2. CASE g = h
  BY <1>1, <1>2
<1>3. CASE g # h
  BY <1>1, <1>3 DEF Debe, Elegido
<1> QED
  BY <1>2, <1>3

LEMMA MarcaEscribir ==
  ASSUME TypeOK, Marca, NEW h \in Hilos, NEW e \in Escrituras, Escribir(h, e)
  PROVE  Marca'
<1> SUFFICES ASSUME NEW q \in Props, aspecto'[<<Elegido, q>>] # "amarillo",
                    ~ (q = "fondo" /\ pisado')
             PROVE  \E g \in Hilos : Debe(g, q)'
  BY DEF Marca, Elegido, Escribir
<1>1. Elegido \in TodosLosBotones
  BY FechaBien DEF TypeOK, Elegido
<1>2. CASE e = <<Elegido, q>>
  <2>1. fase[h] # "amarillo"
    BY <1>2 DEF Escribir, Estilo, TypeOK
  <2> QED
    BY <2>1 DEF Escribir, Debe
<1>3. CASE e # <<Elegido, q>>
  <2>0. q = "fondo" => pisado' = pisado
    BY <1>3 DEF Escribir, TypeOK
  <2>1. PICK g \in Hilos : Debe(g, q)
    BY <1>1, <1>3, <2>0 DEF Marca, Escribir, TypeOK, Escrituras
  <2> QED
    BY <1>3, <2>1 DEF Debe, Escribir, TypeOK, Elegido
<1> QED
  BY <1>2, <1>3

LEMMA MarcaPaso == TypeOK /\ Marca /\ [Next]_vars => Marca'
<1> SUFFICES ASSUME TypeOK, Marca, [Next]_vars PROVE Marca'
  OBVIOUS
<1>1. ASSUME NEW h \in Hilos, LeerMes(h) \/ Consultar(h) \/ PasarAVerde(h)
      PROVE  Marca'
  <2>1. fase'[h] \in {"consultar", "borrar", "verde"}
    BY <1>1 DEF LeerMes, Consultar, PasarAVerde, TypeOK
  <2> QED
    BY <2>1 DEF Marca, Debe
<1>2. ASSUME NEW h \in Hilos, NEW d \in Dias, Buscar(h, d)
      PROVE  Marca'
  <2>1. ASSUME NEW q \in Props, Debe(h, q) PROVE Debe(h, q)'
    BY <1>2, <2>1 DEF Debe, Buscar, TypeOK, Elegido
  <2> QED
    BY <1>2, <2>1, MarcaQueda DEF Buscar, TypeOK
<1>3. ASSUME NEW h \in Hilos, LeerSeleccionado(h)
      PROVE  Marca'
  BY <1>3 DEF LeerSeleccionado, Marca, Debe, TypeOK
<1>4. ASSUME NEW h \in Hilos, Acabar(h)
      PROVE  Marca'
  <2>1. \A q \in Props : ~ Debe(h, q)
    BY <1>4 DEF Acabar, Debe
  <2> QED
    BY <1>4, <2>1, MarcaQueda DEF Acabar, TypeOK
<1>5. ASSUME NEW E \in SUBSET Citables, Guardar(E) \/ OtraEscribe(E)
      PROVE  Marca'
  BY <1>5 DEF Guardar, OtraEscribe, Marca, Debe, Elegido
<1>6. CASE UNCHANGED vars
  BY <1>6 DEF vars, Marca, Debe, Elegido
<1>9. CASE VolverAElegir
  <2>1. \A q \in Props \ {"fondo"} : aspecto'[<<Elegido, q>>] = aspecto[<<Elegido, q>>]
    <3>1. Elegido \in TodosLosBotones
      BY FechaBien DEF TypeOK, Elegido
    <3> QED
      BY <1>9, <3>1 DEF VolverAElegir, TypeOK, Escrituras
  <2> QED
    BY <1>9, <2>1 DEF VolverAElegir, Marca, Debe, Elegido
<1>7. ASSUME NEW h \in Hilos, Paso(h) PROVE Marca'
  BY <1>1, <1>2, <1>3, <1>4, <1>7, MarcaEscribir DEF Paso
<1>8. ASSUME NEW h \in Hilos, Resaltar(h) \/ \E f \in Fechas : ElegirFecha(h, f)
      PROVE  Marca'
  BY <1>8, EmpezarDebe DEF Resaltar, ElegirFecha
<1> QED
  BY <1>5, <1>6, <1>7, <1>8, <1>9 DEF Next

-----------------------------------------------------------------------------
(* A run without interference.                                             *)

Verdes == DelMes(conEvento, fecha.mes)

\* The writes that paint the days in D green.
DeVerde(D) == {Boton(fecha.mes, d) : d \in D} \X {"opaco", "fondo"}

Color(e, W) == IF e \in W THEN "verde" ELSE "nada"

\* Run h is the only one, and this is what it has done so far.
Solo(h) ==
  /\ \A g \in Hilos \ {h} : ~ Activo(g)
  /\ fase[h] # "leer" => mes[h] = fecha.mes
  /\ fase[h] = "borrar" =>
       pintar[h] = Verdes /\ \A e \in Escrituras \ tarea[h] : aspecto[e] = "nada"
  /\ fase[h] = "verde" =>
       /\ pintar[h] \subseteq Verdes /\ tarea[h] \subseteq DeVerde(Verdes \ pintar[h])
       /\ \A e \in Escrituras : aspecto[e] = Color(e, DeVerde(Verdes \ pintar[h]) \ tarea[h])
  /\ fase[h] = "amarillo" =>
       /\ pintar[h] \subseteq {fecha.dia} /\ tarea[h] \subseteq {Elegido} \X Props
       /\ pisado => Debe(h, "fondo")
       /\ \A e \in Escrituras : e[1] # Elegido => aspecto[e] = Color(e, DeVerde(Verdes))

Limpieza == limpio => PintaFiel /\ \A h \in Hilos : Activo(h) => Solo(h)

IInv == TypeOK /\ Marca /\ Limpieza

\* Days of a month have buttons of their own.
LEMMA BotonInyectivo ==
  ASSUME NEW m \in Meses, NEW d1 \in Dias, NEW d2 \in Dias, Boton(m, d1) = Boton(m, d2)
  PROVE  d1 = d2
BY DEF Boton, Dias

\* While a run is in progress there is nothing to say of the result.
LEMMA SoloBasta ==
  ASSUME NEW h \in Hilos, Activo(h), \A g \in Hilos \ {h} : ~ Activo(g), Solo(h)
  PROVE  Limpieza
BY DEF Limpieza, PintaFiel, Quieto

LEMMA SoloLeer ==
  ASSUME TypeOK, NEW h \in Hilos, Solo(h), LeerMes(h)
  PROVE  Solo(h)'
BY DEF TypeOK, Solo, Activo, LeerMes

LEMMA SoloConsultar ==
  ASSUME TypeOK, NEW h \in Hilos, Solo(h), Consultar(h), limpio'
  PROVE  Solo(h)'
BY DEF TypeOK, Solo, Activo, Consultar, Verdes, DelMes

LEMMA SoloVerde ==
  ASSUME TypeOK, NEW h \in Hilos, Solo(h), PasarAVerde(h)
  PROVE  Solo(h)'
<1>1. /\ fase'[h] = "verde" /\ pintar'[h] = Verdes /\ tarea'[h] = {}
      /\ \A e \in Escrituras : aspecto'[e] = "nada"
  BY DEF TypeOK, Solo, PasarAVerde
<1>2. DeVerde(Verdes \ Verdes) = {}
  BY DEF DeVerde
<1>3. Verdes' = Verdes /\ \A D : DeVerde(D)' = DeVerde(D)
  BY DEF PasarAVerde, Verdes, DelMes, DeVerde
<1>4. mes'[h] = fecha'.mes /\ \A g \in Hilos \ {h} : ~ Activo(g)'
  BY DEF TypeOK, Solo, PasarAVerde, Activo
<1> QED
  BY <1>1, <1>2, <1>3, <1>4 DEF Solo, Color

LEMMA SoloSeleccionado ==
  ASSUME TypeOK, NEW h \in Hilos, Solo(h), LeerSeleccionado(h)
  PROVE  Solo(h)'
<1>1. \A e \in Escrituras : aspecto[e] = Color(e, DeVerde(Verdes))
  BY DEF Solo, LeerSeleccionado
<1>2. Verdes' = Verdes /\ DeVerde(Verdes)' = DeVerde(Verdes) /\ Elegido' = Elegido
  BY DEF LeerSeleccionado, Verdes, DelMes, DeVerde, Elegido
<1>3. fase'[h] = "amarillo" /\ pintar'[h] = {fecha.dia} /\ tarea'[h] = {}
  BY DEF TypeOK, LeerSeleccionado
<1>4. mes'[h] = fecha'.mes /\ \A g \in Hilos \ {h} : ~ Activo(g)'
  BY DEF TypeOK, Solo, LeerSeleccionado, Activo
<1> QED
  BY <1>1, <1>2, <1>3, <1>4 DEF Solo, Color, LeerSeleccionado, Debe

LEMMA SoloBuscar ==
  ASSUME TypeOK, NEW h \in Hilos, NEW d \in Dias, Solo(h), Buscar(h, d)
  PROVE  Solo(h)'
<1>1. Verdes' = Verdes /\ (\A D : DeVerde(D)' = DeVerde(D)) /\ Elegido' = Elegido
  BY DEF Buscar, Verdes, DelMes, DeVerde, Elegido
<1>2. mes'[h] = fecha'.mes /\ (\A g \in Hilos \ {h} : ~ Activo(g)') /\ fase'[h] = fase[h]
  BY DEF TypeOK, Solo, Buscar, Activo
<1>3. CASE fase[h] = "verde"
  <2>1. pintar'[h] = pintar[h] \ {d} /\ d \in Verdes /\ pintar'[h] \subseteq Verdes
    BY <1>3 DEF TypeOK, Solo, Buscar
  <2>2. tarea'[h] = {Boton(fecha.mes, d)} \X {"opaco", "fondo"} /\ tarea[h] = {}
    BY <1>3 DEF TypeOK, Buscar
  <2>3. DeVerde(Verdes \ pintar'[h]) = DeVerde(Verdes \ pintar[h]) \cup tarea'[h]
    BY <1>3, <2>1, <2>2 DEF DeVerde, Buscar
  <2>4. DeVerde(Verdes \ pintar[h]) \cap tarea'[h] = {}
    <3>1. Verdes \subseteq Dias /\ fecha.mes \in Meses
      BY FechaBien DEF Verdes, DelMes, TypeOK
    <3>2. \A c \in Verdes \ pintar[h] : Boton(fecha.mes, c) # Boton(fecha.mes, d)
      BY <3>1, BotonInyectivo DEF Buscar
    <3> QED
      BY <2>2, <3>2 DEF DeVerde
  <2>5. \A e \in Escrituras : aspecto'[e] = Color(e, DeVerde(Verdes \ pintar'[h]) \ tarea'[h])
    BY <1>3, <2>2, <2>3, <2>4 DEF Solo, Buscar, Color
  <2> QED
    BY <1>1, <1>2, <1>3, <2>1, <2>3, <2>5 DEF Solo, Color
<1>4. CASE fase[h] = "amarillo"
  <2>1. pintar'[h] \subseteq {fecha.dia} /\ tarea'[h] = {Elegido} \X Props
    BY <1>4 DEF TypeOK, Solo, Buscar, Elegido
  <2>2. Debe(h, "fondo")'
    BY <1>1, <1>2, <1>4, <2>1 DEF Debe, Props
  <2> QED
    BY <1>1, <1>2, <1>4, <2>1, <2>2 DEF Solo, Color, Buscar
<1> QED
  BY <1>3, <1>4 DEF Buscar

LEMMA SoloEscribir ==
  ASSUME TypeOK, NEW h \in Hilos, NEW e \in Escrituras, Solo(h), Escribir(h, e)
  PROVE  Solo(h)'
<1>1. Verdes' = Verdes /\ (\A D : DeVerde(D)' = DeVerde(D)) /\ Elegido' = Elegido
  BY DEF Escribir, Verdes, DelMes, DeVerde, Elegido
<1>2. /\ mes'[h] = fecha'.mes /\ (\A g \in Hilos \ {h} : ~ Activo(g)')
      /\ fase'[h] = fase[h] /\ pintar'[h] = pintar[h] /\ tarea'[h] = tarea[h] \ {e}
  BY DEF TypeOK, Solo, Escribir, Activo
<1>3. \A g \in Escrituras : aspecto'[g] = IF g = e THEN Estilo(h) ELSE aspecto[g]
  BY DEF TypeOK, Escribir
<1>4. CASE fase[h] = "borrar"
  BY <1>1, <1>2, <1>3, <1>4 DEF Solo, Estilo, Escribir
<1>5. CASE fase[h] = "verde"
  <2> DEFINE W == DeVerde(Verdes \ pintar[h])
  <2>1. e \in W /\ Estilo(h) = "verde" /\ tarea'[h] \subseteq W
    BY <1>2, <1>5 DEF Solo, Estilo, Escribir
  <2>2. \A g \in Escrituras : aspecto'[g] = Color(g, W \ tarea'[h])
    BY <1>2, <1>3, <1>5, <2>1 DEF Solo, Color
  <2> QED
    BY <1>1, <1>2, <1>5, <2>1, <2>2 DEF Solo, Color, Escribir
<1>6. CASE fase[h] = "amarillo"
  <2>1. e[1] = Elegido
    BY <1>6 DEF Solo, Escribir
  <2>2. pisado' => Debe(h, "fondo")'
    BY <1>1, <1>2, <1>6 DEF Solo, Debe, Escribir
  <2> QED
    BY <1>1, <1>2, <1>3, <1>6, <2>1, <2>2 DEF Solo, Color, Escribir
<1> QED
  BY <1>4, <1>5, <1>6 DEF Escribir

\* The end of a run without interference.
LEMMA SoloAcabar ==
  ASSUME TypeOK, Marca, NEW h \in Hilos, Solo(h), Acabar(h)
  PROVE  PintaFiel'
<1>1. \A q \in Props, g \in Hilos : ~ Debe(g, q)
  BY DEF Solo, Acabar, Debe, Activo
<1>2. EsAmarillo(Elegido)
  <2>1. ~ pisado
    BY <1>1 DEF Solo, Acabar, Props
  <2> QED
    BY <1>1, <2>1 DEF Marca, EsAmarillo
<1>3. ASSUME NEW d \in Dias, d # fecha.dia
      PROVE  IF d \in Verdes THEN EsVerde(Boton(fecha.mes, d)) ELSE EsNormal(Boton(fecha.mes, d))
  <2> DEFINE b == Boton(fecha.mes, d)
  <2>1. fecha.mes \in Meses /\ fecha.dia \in Dias /\ b \in TodosLosBotones /\ Verdes \subseteq Dias
    BY FechaBien DEF TypeOK, Verdes, DelMes
  <2>2. b # Elegido
    BY <1>3, <2>1, BotonInyectivo DEF Elegido
  <2>3. \A q \in Props : <<b, q>> \in Escrituras /\ aspecto[<<b, q>>] = Color(<<b, q>>, DeVerde(Verdes))
    BY <2>1, <2>2 DEF Solo, Acabar, Escrituras
  <2>4. \A q \in Props : <<b, q>> \in DeVerde(Verdes) <=> d \in Verdes /\ q # "borde"
    <3>1. \A c \in Verdes : Boton(fecha.mes, c) = b => c = d
      BY <2>1, BotonInyectivo
    <3> QED
      BY <3>1 DEF DeVerde, Props
  <2> QED
    BY <2>3, <2>4 DEF Color, EsVerde, EsNormal
<1> QED
  BY <1>2, <1>3 DEF PintaFiel, Acabar, Elegido, Verdes, DelMes, EsAmarillo, EsVerde, EsNormal

LEMMA LimpiezaPaso == IInv /\ [Next]_vars => Limpieza'
<1> SUFFICES ASSUME TypeOK, Marca, Limpieza, [Next]_vars, limpio' PROVE Limpieza'
  BY DEF IInv, Limpieza
<1>1. ASSUME NEW h \in Hilos, Paso(h)
      PROVE  Limpieza'
  <2>1. limpio /\ Activo(h)
    BY <1>1 DEF Paso, LeerMes, Consultar, Escribir, Buscar, PasarAVerde, LeerSeleccionado,
               Acabar, Activo
  <2>2. Solo(h)
    BY <2>1 DEF Limpieza
  <2>3. CASE Acabar(h)
    <3>1. \A g \in Hilos : ~ Activo(g)'
      BY <2>2, <2>3 DEF Solo, Acabar, Activo, TypeOK
    <3> QED
      BY <2>2, <2>3, <3>1, SoloAcabar DEF Limpieza
  <2>4. CASE ~ Acabar(h)
    <3>1. Solo(h)'
      BY <1>1, <2>2, <2>4, SoloLeer, SoloConsultar, SoloEscribir, SoloBuscar, SoloVerde,
         SoloSeleccionado DEF Paso
    <3>2. Activo(h)'
      BY <1>1, <2>1, <2>4 DEF Paso, LeerMes, Consultar, Escribir, Buscar, PasarAVerde,
               LeerSeleccionado, Activo, TypeOK
    <3>3. \A g \in Hilos \ {h} : ~ Activo(g)'
      BY <3>1 DEF Solo
    <3> QED
      BY <3>1, <3>2, <3>3 DEF Limpieza, PintaFiel, Quieto
  <2> QED
    BY <2>3, <2>4
<1>2. ASSUME NEW h \in Hilos, Empezar(h)
      PROVE  Limpieza'
  <2>1. fase' = [fase EXCEPT ![h] = "leer"] /\ \A g \in Hilos : ~ Activo(g)
    BY <1>2 DEF Empezar, Quieto
  <2>2. fase'[h] = "leer" /\ \A g \in Hilos \ {h} : ~ Activo(g)'
    BY <2>1 DEF TypeOK, Activo
  <2>3. Solo(h)' /\ Activo(h)'
    BY <2>2 DEF Solo, Activo
  <2> QED
    BY <2>2, <2>3 DEF Limpieza, PintaFiel, Quieto
<1>3. ASSUME VolverAElegir \/ \E E \in SUBSET Citables : Guardar(E) \/ OtraEscribe(E)
      PROVE  FALSE
  BY <1>3 DEF VolverAElegir, Guardar, OtraEscribe
<1>4. CASE UNCHANGED vars
  <2>1. PintaFiel' = PintaFiel
    BY <1>4 DEF vars, PintaFiel, Quieto, Activo, EsAmarillo, EsVerde, EsNormal
  <2>2. ASSUME NEW h \in Hilos PROVE Activo(h)' = Activo(h) /\ Solo(h)' = Solo(h)
    BY <1>4 DEF vars, Activo, Solo, Debe, Verdes, DelMes, DeVerde, Elegido
  <2> QED
    BY <1>4, <2>1, <2>2 DEF vars, Limpieza
<1> QED
  BY <1>1, <1>2, <1>3, <1>4 DEF Next, ElegirFecha, Resaltar

LEMMA IInvInicial == Init => IInv
<1> SUFFICES ASSUME Init PROVE IInv
  OBVIOUS
<1>1. PICK h \in Hilos : fase = [g \in Hilos |-> IF g = h THEN "leer" ELSE "fin"]
  BY DEF Init
<1>2. Marca
  BY <1>1 DEF Marca, Debe
<1>3. Activo(h) /\ Solo(h) /\ \A g \in Hilos \ {h} : ~ Activo(g)
  BY <1>1 DEF Solo, Activo
<1>4. Limpieza
  BY <1>3, SoloBasta
<1> QED
  BY <1>2, <1>4, TipoInicial DEF IInv

LEMMA IInvSiempre == Spec => []IInv
<1>1. IInv /\ [Next]_vars => IInv'
  BY TipoPaso, MarcaPaso, LimpiezaPaso DEF IInv
<1> QED
  BY <1>1, IInvInicial, PTL DEF Spec

-----------------------------------------------------------------------------
(* Theorems.                                                               *)

\* Every variable of the highlighting keeps its type.
THEOREM TipoCorrecto == Spec => []TypeOK
<1>1. IInv => TypeOK
  BY DEF IInv
<1> QED
  BY <1>1, IInvSiempre, PTL

\* highlightEventDays: any number of runs, interleaved write by write and with
\* clicks of the user, end with the selected day marked, but for the background
\* of a day that was clicked again after the last of them painted it.
THEOREM SeleccionadoMarcadoSiempre == Spec => []SeleccionadoMarcado
<1>1. IInv => SeleccionadoMarcado
  <2> SUFFICES ASSUME IInv, Quieto PROVE SeleccionadoMarcado
    BY DEF SeleccionadoMarcado
  <2>1. \A q \in Props, h \in Hilos : ~ Debe(h, q)
    BY DEF Quieto, Activo, Debe
  <2> QED
    BY <2>1 DEF IInv, Marca, SeleccionadoMarcado
<1> QED
  BY <1>1, IInvSiempre, PTL

\* highlightEventDays: a run with the screen and the table for itself ends
\* with the picture of the month, whatever it found on the buttons.
THEOREM PintaFielSiempre == Spec => []PintaFiel
<1>1. IInv => PintaFiel
  BY DEF IInv, Limpieza, PintaFiel
<1> QED
  BY <1>1, IInvSiempre, PTL
=============================================================================
