--------------------------- MODULE MCClientReconnect ---------------------------
EXTENDS ClientReconnect, TLC

CONSTANTS c1, c2, c3
================================================================================
