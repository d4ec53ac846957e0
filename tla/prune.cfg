SPECIFICATION Spec
CONSTANTS
  Missing = Missing
  Rewords = {"prompts", "websocket"}
  Restores = {"agent-autonomous", "websocket"}
INVARIANTS
  DoneIsPruned
  ForetoldByDryRun
