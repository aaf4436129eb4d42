CONSTANTS
  a = a  b = b  n1 = n1  n2 = n2  j1 = j1  j2 = j2
  Names = {n1}
  Chunks = {a, b}
  Absent = Absent
  Torn = Torn
  Contents <- FewContents
  MaxChunks = 2
  Jobs = {j1}
  MaxSecond = 0
  MaxBytes = 2
SPECIFICATION Spec
INVARIANTS CompletedIsWhole
