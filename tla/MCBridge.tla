------------------------------- MODULE MCBridge -------------------------------
EXTENDS GdbBridge
=============================================================================
