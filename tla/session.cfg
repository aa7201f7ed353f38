\* One connection, transactions of up to two statements, breakage and death anywhere
SPECIFICATION Spec
CONSTANTS
  r1 = r1  r2 = r2  None = None
  Databases <- Tables
  Statements <- RowStatements
  Effect <- RowEffect
  MaxStatements = 2
INVARIANTS TypeOK NoTransactionLeft
PROPERTIES EveryCallEnds ImplementsStatementApi
