SPECIFICATION Spec
CONSTANTS
  a = a
  ai = ai
  b = b
  bi = bi
  macA = macA
  macB = macB
  e1 = e1
  e2 = e2
  e3 = e3
  e4 = e4
  NoUniq = NoUniq
  NoPath = NoPath
  NoInput = NoInput
  Unknown = Unknown
  Macs = {macA, macB}
  Paths = {e1, e2, e3}
  ScanOrder <- Order
  Inputs <- TwoInputs
  KindOf <- TwoKind
  UniqOf <- TwoUniq
  Homes <- TwoHomes
  Fds = {1, 2, 3, 4, 5, 6, 7, 8, 9, 10, 11, 12, 13, 14, 15, 16}
  MaxEvents = 6
  MaxFaults = 1
INVARIANTS
  ReadsReadyOnly
