CONSTANT c1 = c1
SPECIFICATION Spec
PROPERTIES
  EventsFlow StopsReturn ConnectionsEnd
CHECK_DEADLOCK FALSE
