\* One session: every statement, declared types and parameters, prepared again between.
SPECIFICATION Spec
INVARIANTS SessionTypeOK BoundLikeLiterals AnnouncedTypesSuffice DescribedAsExecuted
CONSTANTS
  Documents <- MCDocuments
  Texts <- MCTexts
  TypeLists <- MCTypeLists
  Supplies <- MCSupplies
  Names = {n1}
  Portals = {p1}
  Largest <- MCLargest
