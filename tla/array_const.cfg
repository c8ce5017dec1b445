SPECIFICATION Spec
CONSTANTS
  F = 3
  a = a  b = b  g = g  l = l
  Arg = {a, b}
  Global = {g}
  Local = {l}
  Programs <- MCPassed
INVARIANTS
  ConstNeverWritten
