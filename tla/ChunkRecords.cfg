\* Two downloads whose records have a name, one without.
SPECIFICATION Spec
CONSTANTS
  Tasks = {d1, d2, d3}
  Named = {d1, d2}
  Length = 2
  NoTask = NoTask
SYMMETRY NamedSymmetry
INVARIANTS TypeOK NoneComesBack
PROPERTIES ResumesFromLast ImplementsResumeStore
