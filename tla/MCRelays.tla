------------------------------ MODULE MCRelays ------------------------------
EXTENDS Relays, TLC
=============================================================================
