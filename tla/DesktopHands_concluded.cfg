SPECIFICATION Spec
CONSTANTS
  Sockets = {s1}
  Tools = {shot, file}
  FileTools = {file}
  Tasks = {t1}
  Calls = {c1}
  t1 = t1
  c1 = c1
  c2 = c2
  shot = shot
  file = file
  TaskOf <- TaskOfOne
  ToolOf <- ToolOfOne
  NoSocket = NoSocket
INVARIANT StartedIsConcluded
CHECK_DEADLOCK FALSE
