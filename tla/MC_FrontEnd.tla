----------------------------- MODULE MC_FrontEnd -----------------------------
EXTENDS FrontEnd

\* One or two completions of each output kind
MCFanOut == {<<[n |-> n, kind |-> k]>> : n \in {1, 2}, k \in Kinds}
=============================================================================
