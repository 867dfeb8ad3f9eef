CONSTANTS
  w1 = w1
  w2 = w2
  ch1 = ch1
  ch2 = ch2
  Workers = {w1, w2}
  Chars = {ch1, ch2}
  Nul = Nul
  BufferSize = 2
SPECIFICATION Spec
INVARIANT
  ExecutesOwnMessage
