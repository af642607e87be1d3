SPECIFICATION Spec
CONSTANTS
  Id = {a, b, c}
  MaxDegree = 1
  SizeMax = 15
  Created = {"ready", "unusable"}
INVARIANT PathFoundMeansAPath
