\* Five places and pops of up to seven: every split of a pop around the end, a
\* full buffer, and more asked for than the buffer can hold.
CONSTANTS
  BufferSize = 5
  MaxPop = 7
  Value = {a, b}
INVARIANT TypeOK
SPECIFICATION Spec
PROPERTY ImplementsFifo
