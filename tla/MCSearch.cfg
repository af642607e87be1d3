SPECIFICATION Spec
CONSTANTS
  Id = {a, b, c}
  MaxDegree = 2
  SizeMax = 15
  Created = {"ready"}
INVARIANTS
  TypeOK
  AnswersAreRight
  NothingForgotten
  QueueBounded
  CallsCounted
PROPERTY SearchesEnd
