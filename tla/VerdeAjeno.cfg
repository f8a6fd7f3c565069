CONSTANTS
  enero = enero  febrero = febrero  h1 = h1  h2 = h2
  Hilos = {h1, h2}
  Nadie = Nadie  Avisando = Avisando
  Meses = {enero, febrero}
  NumDias = 2
  Hueco <- DosMeses
  Citables <- Dos
  Otras = FALSE
  Fallos = {}
SPECIFICATION Spec
SYMMETRY HilosSim
INVARIANTS
  SoloVerdesConEvento
