SPECIFICATION Spec
CONSTANTS
  Tasks = {t1, t2}
  Requests = {r1}
  Clients = {c1, c2}
  Endpoints = {"sessions"}
  None = None
  Rounds = 1
  MaxSessions = 1
INVARIANTS
  TypeOK
  EventsReachClients
PROPERTIES
  RequestsAnswered
  TasksEnd
  HubForgets
CHECK_DEADLOCK FALSE
