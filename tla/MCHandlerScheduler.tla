-------------------------- MODULE MCHandlerScheduler --------------------------
EXTENDS HandlerScheduler, TLC

CONSTANTS o1, o2, s1, s2, w1, w2

\* one connection per session, or two connections (epochs) of one session
OpPerSession == o1 :> s1 @@ o2 :> s2
TwoEpochs == o1 :> s1 @@ o2 :> s1
===============================================================================
