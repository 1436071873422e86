\* Every SELECT against two tables that are written through the proxy.
SPECIFICATION Spec
INVARIANTS ReadsTypeOK RowsAreSql WritesAreSql AnnouncedTypesFit FieldsCanBeNamed InsertedIsSelected
CONSTANTS
  Samples <- MCSamples
  Statements <- MCStatements
  Ids = {1, 2, 3}
