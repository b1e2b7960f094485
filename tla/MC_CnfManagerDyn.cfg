SPECIFICATION BlockedSpec
CONSTANTS
  NbVar = 5
  Formulas <- MCFormulas
  Managers = {"dyn", "pure"}
  Decision = {1, 2, 3}
INVARIANTS CnfTypeOK ResidualExact OccExact SizeExact WatchUndef
