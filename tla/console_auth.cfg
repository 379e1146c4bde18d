SPECIFICATION Spec
CONSTANTS
  Pollers = {q1, q3}
  Sidebar = {q2}
  Mutations = {m1}
  Life = 7
  Period = 2
INVARIANTS
  TypeOK
  ForcedOutHasCause
PROPERTIES
  RequestsSettle
  ExpiryIsNoticed
