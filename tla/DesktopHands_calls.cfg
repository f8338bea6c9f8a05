SPECIFICATION SmallSpec
CONSTANTS
  Sockets = {s1, s2}
  Tools = {shot, file}
  FileTools = {file}
  Tasks = {t1}
  Calls = {c1, c2}
  t1 = t1
  c1 = c1
  c2 = c2
  shot = shot
  file = file
  TaskOf <- TaskOfTwo
  ToolOf <- ToolOfTwo
  NoSocket = NoSocket
INVARIANTS TypeOK PendingIsInFlight CompletedWasCarriedOut
PROPERTIES CooldownHolds RegistryHolds ImplementsContract
CHECK_DEADLOCK FALSE
