\* Two workers and the main loop, text with wider characters.
SPECIFICATION BufferSpec
CONSTANTS
  w1 = w1
  w2 = w2
  Main = Main
  Thread <- TwoWorkers
  Widths <- Latin
  Chunk = 2
  MaxChars = 2
INVARIANTS OutInOrder NothingLost
CHECK_DEADLOCK FALSE
