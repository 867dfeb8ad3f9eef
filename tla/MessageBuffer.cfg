CONSTANTS
  w1 = w1
  w2 = w2
  ch1 = ch1
  ch2 = ch2
  Workers = {w1}
  Chars = {ch1, ch2}
  Nul = Nul
  BufferSize = 4
SPECIFICATION Spec
INVARIANT
  ExecutesOwnMessage
