\* Two clients and every configuration.
SPECIFICATION Spec
INVARIANTS StartupTypeOK ServedIsAuthenticated
CONSTANTS
  Clients = {c1, c2}
  Modes = {"trust", "cleartext", "md5"}
  Texts <- MCTexts
  NoText = NoText
