------------------------- MODULE MC_MultiprocExecutor -------------------------
\* Two workers: one that always answers and one that only answers calls to
\* all of them.
EXTENDS MultiprocExecutor
===============================================================================
