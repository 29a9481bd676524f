SPECIFICATION MCSpec
CONSTANTS
  Word = 1024
  HeapStart = 64
  HeapSize = 208
  Requests = {1, 16, 17, 40, 100, 190}
  MaxLive = 6
  Addresses = {m1, m2, m3}
  Vars = {p, q}
  Null = Null
SYMMETRY MCSymmetry
INVARIANT HeapIsSound
PROPERTY CollectsExactly
