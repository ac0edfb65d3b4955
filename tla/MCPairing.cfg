SPECIFICATION Spec
CONSTANTS
  NoUniq = NoUniq
  Macs = {a, b}
  MaxNodes = 5
INVARIANTS
  NoSharedImu
  MacPairingExact
  NeverGuesses
