CONSTANTS
  s1 = s1  s2 = s2  ana = ana  luis = luis  f1 = f1  f2 = f2  f3 = f3
  completo = completo  sinDesc = sinDesc  vacio = vacio
  NoHay = NoHay
  Sesiones = {s1}
  Usuarios = {ana}
  UsuarioDe <- UnaSesion
  Filas = {f1, f2}
  MaxDia = 2
  Horas = {8}
  Textos = {completo, vacio}
  ConTitulo = {completo}
  Completos = {completo}
  Fallos = {}
SPECIFICATION Spec
INVARIANT TituloObligatorio
