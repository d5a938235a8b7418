----------------------------- MODULE MCNodePage -----------------------------
EXTENDS NodePage
=============================================================================
