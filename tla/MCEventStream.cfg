CONSTANTS
  reader = reader
  quitter = quitter
  delta = delta
  update = update
  finish = finish
  fallback = fallback
  Consumers <- MCConsumers
  Quitters <- MCQuitters
  Events <- MCEvents
  Terminal <- MCTerminal
  Results <- MCResults
  Nil = Nil
  MaxEvents = 3
SPECIFICATION Spec
INVARIANTS WaitersMatch ResultIsTerminalEvent
PROPERTIES ImplementsChannel ConsumersReturn EventsReachConsumers
CHECK_DEADLOCK FALSE
