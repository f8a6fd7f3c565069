CONSTANTS
  K = 2
  Retraso = 1
  MaxMinuto = 5
  Inicios = {}
  Citas = {c1}
  Nada = Nada
SPECIFICATION Spec
INVARIANT VerificaCadaMinuto
CHECK_DEADLOCK FALSE
