---------------------------- MODULE MCServerSession ----------------------------
EXTENDS ServerSession, TLC

CONSTANTS c1, c2, c3, u1, u2

\* connections are interchangeable; used only where no liveness is checked
Symmetry == Permutations(Conn)
================================================================================
