SPECIFICATION Spec
CONSTANTS
  Identifiers <- MCIdentifiers
  MaxGuid = 3
INVARIANTS CursorsStayApart
CHECK_DEADLOCK FALSE
