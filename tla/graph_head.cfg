SPECIFICATION Spec
CONSTANTS
  lead = lead
  writer = writer
  editor = editor
  artist = artist
  Task = {lead, writer, editor}
  NoTask = NoTask
  Parent <- Chain
  MayBlockOn <- NoWaits
  EditTo = {}
  MaxDisturbances = 0
CHECK_DEADLOCK FALSE
INVARIANTS NotDoneBeforeHeads
