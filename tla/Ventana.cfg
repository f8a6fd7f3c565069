CONSTANTS
  K = 5
  Retraso = 1
  MaxMinuto = 8
  Inicios = {7}
  Citas = {c1}
  Nada = Nada
  Incierto = Incierto
  Fallos = {"leer", "escribir", "respuesta", "disco"}
SPECIFICATION VFairSpec
INVARIANTS
  VTypeOK
  AvisoPrometido
  EnUnSitio
  NadaDesmentido
PROPERTIES
  CumpleSesion
  CumplePopup
  AvisoMostrado
CHECK_DEADLOCK FALSE
