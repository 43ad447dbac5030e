\* Two projects, three names of which two differ in case only.
SPECIFICATION Spec
CONSTANTS
  Ids = {1, 2}
  Words = {"a", "b"}
  Capitals = {"a"}
  Unset = Unset
  MaxSteps = 5
  MaxRequests = 2
CHECK_DEADLOCK FALSE
INVARIANTS
  TypeOK
  NamesStayDistinct
PROPERTIES
  PickFollowsItsName
  ChangesAreAskedFor
