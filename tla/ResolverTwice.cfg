SPECIFICATION Spec
CONSTANTS
  Names = {1, 2, 3, 4}
  MaxInt = 9
  Texts <- FewTexts
  Universes <- PlainRepositories
  Worlds <- JustA
  OtherArchs <- OneArch
  MapOrders <- UpAndDown
  Origins = {"", "o1"}
INVARIANT
  Reproducible
