\* One caller and its parser, two files of two contents, two tasks.
SPECIFICATION FairSpec
CONSTANTS
  Parsers = {p1}
  Files = {f1, f2}
  Params = {x1}
  Contents = {c1, c2}
  MaxParts = 2
  MaxTasks = 2
INVARIANTS TypeOK SendsItsBody
PROPERTIES BodyComplete FilesStay ImplementsBodyService BodyEnds
