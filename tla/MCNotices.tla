----------------------------- MODULE MCNotices ------------------------------
EXTENDS Notices
CONSTANTS w1, w2, p1, p2, t1
OneWallet == [t \in Txs |-> w1]
=============================================================================
