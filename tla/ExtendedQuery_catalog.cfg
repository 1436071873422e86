\* An INSERT that mentions a catalog view is not executed.
SPECIFICATION Spec
INVARIANT InsertsAreExecuted
CONSTANTS
  Documents <- MCDocuments
  Texts <- MCTexts
  TypeLists <- MCTypeLists
  Supplies <- MCSupplies
  Names = {n1}
  Portals = {p1}
  Largest <- MCLargest
