CONSTANTS
  ana = ana  luis = luis  p1 = p1
  Ventanas = {p1}
  Usuarios = {ana, luis}
  UsuarioDe <- DeAna
  Bandejas = {b1}
  Filas = {f1}
  Titulos = {t1}
  Inicios = {6}
  MaxMinuto = 7
  MaxMirada = 2
  NoHay = NoHay
  Vacio = Vacio
  Fallos = {"adelanto", "base", "disco", "arranque", "cierre"}
SPECIFICATION Spec
INVARIANTS
  TypeOK
  CallarConMotivo
  AvisosDados
  PerdidosSeguidos
  AvisoAjenoBreve
PROPERTY CumpleRecordador
