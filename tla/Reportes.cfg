CONSTANTS
  p1 = p1  ana = ana  luis = luis  f1 = f1  f2 = f2  v1 = v1  v2 = v2
  NoHay = NoHay
  Ventanas = {p1}
  Usuarios = {ana, luis}
  UsuarioDe <- UnaVentana
  Filas = {f1, f2}
  Anios = {1999, 2025}
  Meses = {1}
  Dias = {1, 2}
  Horas = {6}
  AniosPedidos = {1999, 2025}
  Visores = {v1, v2}
  Fallos = {"fichero", "base"}
SPECIFICATION Spec
SYMMETRY FilasVisoresSim
INVARIANTS
  TypeOK
  Cuadran
