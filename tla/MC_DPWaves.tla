------------------------------ MODULE MC_DPWaves ------------------------------
\* Two engines that agree every other step, and requests of different length:
\* one of two steps is still running when the engines agree.
EXTENDS DPWaves

MCSteps == [q \in Reqs |-> IF q = 1 THEN 2 ELSE 1]
===============================================================================
