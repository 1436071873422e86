\* UPDATE with <> and NOT IN.
SPECIFICATION Spec
INVARIANT UpdatesMirrorSql
CONSTANTS
  Samples <- MCSamples
  Statements <- MCStatements
  Ids = {1, 2, 3}
