----------------------------- MODULE MCOnboard ------------------------------
EXTENDS Onboard
=============================================================================
