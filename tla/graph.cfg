SPECIFICATION Spec
CONSTANTS
  lead = lead
  writer = writer
  editor = editor
  artist = artist
  Task = {lead, writer, editor, artist}
  NoTask = NoTask
  Parent <- LeadOf
  MayBlockOn <- WaitsFor
  EditTo = {"done"}
  MaxDisturbances = 1
SYMMETRY Alike
CHECK_DEADLOCK FALSE
INVARIANTS TypeOK   LastBlockerFrees
