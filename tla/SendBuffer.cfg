\* A connection of the main loop, text of one and two bytes per character.
SPECIFICATION BufferSpec
CONSTANTS
  w1 = w1
  w2 = w2
  Main = Main
  Thread <- NoWorkers
  Widths <- Latin
  Chunk = 2
  MaxChars = 5
INVARIANT OutInOrder
PROPERTY Drains
CHECK_DEADLOCK FALSE
