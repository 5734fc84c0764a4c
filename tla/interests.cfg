SPECIFICATION Spec
CONSTANTS
  v1 = v1  v2 = v2
  Value = {v1, v2}
  Interests <- PlainInterests
  Subjects <- MCSubjects
  Padded <- MCPadded
INVARIANTS
  FindsMatching RootFromRaw
