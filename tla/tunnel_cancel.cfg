\* No request handler is needed: the context, Run, its watcher and its read loop.
SPECIFICATION Spec
CONSTANTS
  EventCap = 2
  Handler = {}
  Answers <- AllAnswers
PROPERTIES
  CancelEndsRun
CHECK_DEADLOCK FALSE
