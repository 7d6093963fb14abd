SPECIFICATION Spec
CONSTANTS
  Names = {1, 2, 3, 4}
  MaxInt = 9
  Texts <- FewTexts
  Universes <- Repositories
  Worlds <- SmallWorlds
  OtherArchs <- OneOrTwoArchs
  MapOrders <- UpAndDown
  Origins = {"", "o1"}
INVARIANTS
  WalkBounded
  Answered
  SatisfiedIfForced
  ReproducibleIfOrdered
PROPERTIES
  WorkShrinks
