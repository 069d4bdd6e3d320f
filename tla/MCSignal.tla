------------------------------- MODULE MCSignal -------------------------------
EXTENDS Signal, TLC

CONSTANTS a, b, p, q, r

\* One client, two, one that is named twice.  The other order of the two is the same
\* up to their names.
Names == {<<a>>, <<a, b>>, <<a, a>>}
=============================================================================
