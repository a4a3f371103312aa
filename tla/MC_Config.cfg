SPECIFICATION Spec
CONSTANTS
  Lines <- SomeLines
  MaxLines = 6
  Roots = {"www", "pub", ""}
  Ids = {"/", "/a", ""}
  Codes = {404, 500}
  Pages = {"own"}
  Names = {"one"}
INVARIANTS
  ParsedRight
  PortDecides
  EmptyRootCauses
CHECK_DEADLOCK FALSE
