SPECIFICATION FairSpec
CONSTANTS
  a = a
  b = b
  Rows = {a, b}
  Mine = {a}
  KeyOf <- SharedKey
  Window = 1
  DropAfter = 2
  MinAge = 1
  LossAfter = 3
  MaxSpan = 1
  Retention = 3
  MaxAge = 4
  MaxRestarts = 1
  Verifying = TRUE
  Off = Off
INVARIANTS
  NoEarlyDelete
PROPERTIES
  AuditRefines
  RowsLeave
  VerdictsCome
