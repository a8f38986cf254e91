SPECIFICATION Spec
CONSTANTS
  MaxOutputs = 3
  Mine = {1, 3}
  MaxHead = 4
  MaxGen = 2
  Callers = {c1, c2}
SYMMETRY CallerSymmetry
INVARIANTS TypeOK CacheExact NoNoteHidden NoSettledSpentOffered IInv
