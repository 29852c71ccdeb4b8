--------------------------- MODULE MCServerRegistry ----------------------------
EXTENDS ServerRegistry, TLC

CONSTANTS h1, h2, d1, w1
================================================================================
