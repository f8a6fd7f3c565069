CONSTANTS
  K = 5
  Retraso = 1
  MaxMinuto = 13
  Inicios = {8, 10}
  Citas = {c1}
  Nada = Nada
SPECIFICATION Spec
INVARIANTS
  TypeOK
  PerdidosEspaciados
  UnAvisoSeguro
PROPERTIES
  NuncaDosVeces
  CumpleRecordador
CHECK_DEADLOCK FALSE
