SPECIFICATION Spec
CONSTANTS
  Thread = {t1, t2}
  Best = "vector"
  MaxCleanups = 1
INVARIANTS
  NoTornRead
  ScalarHonoured
PROPERTIES
  InitEnds
