\* Two transactions and a caller who keeps a slice, on a slice of up to three elements.
SPECIFICATION TSpec
CONSTANTS
  None = none
  Values = {v, w}
  Txs = {t, u}
  MaxLen = 3
  MaxArgs = 2
  Slack = 1
  TxLen = 2
SYMMETRY MCSymmetry
INVARIANTS Private EffectsExact
PROPERTIES CommitsSerial Isolated
