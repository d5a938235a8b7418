------------------------------- MODULE MCSend -------------------------------
EXTENDS Send
=============================================================================
