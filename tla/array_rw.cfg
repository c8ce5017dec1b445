\* Two array arguments, a global and a local array, three functions.
SPECIFICATION Spec
CONSTANTS
  F = 3
  a = a  b = b  g = g  l = l
  Arg = {a, b}
  Global = {g}
  Local = {l}
  Programs <- MCPrograms
INVARIANTS
  TypeOK
  SummaryExact
  AliasFound
