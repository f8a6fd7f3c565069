CONSTANTS
  v1 = v1  v2 = v2  v3 = v3  pa = pa  pb = pb  ana = ana  luis = luis
  Ventanas = {v1, v2, v3}
  Programas = {pa, pb}
  ProgramaDe <- DosProgramas
  Cedulas = {ana, luis}
  Cortas = {"123"}
  Palabras <- SoloJuan
  Claves = {"k1", "larga"}
  Largas = {"larga"}
  Ancho = 4
  NoHay = NoHay
  Fallos = {"leer", "escribir", "respuesta"}
SPECIFICATION Spec
SYMMETRY CedulasSim
INVARIANTS
  TypeOK
  ExitoDuradero
  RechazoCierto
  CuentasValidas
PROPERTY CumplePadron
