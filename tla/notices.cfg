\* Two payments and an outgoing transaction of a wallet, another wallet to go to, two toasts.
SPECIFICATION LiveSpec
CONSTANTS
  w1 = w1
  w2 = w2
  p1 = p1
  p2 = p2
  t1 = t1
  Wallets = {w1, w2}
  Txs = {p1, p2, t1}
  Owner <- OneWallet
  Incoming = {p1, p2}
  None = None
  NoData = NoData
  TOAST_LIMIT = 1
  MaxToasts = 2
INVARIANT TypeOK
PROPERTIES
  FreshNotice
  ToastEnds
CHECK_DEADLOCK FALSE
