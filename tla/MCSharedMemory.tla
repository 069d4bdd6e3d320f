--------------------------- MODULE MCSharedMemory ---------------------------
EXTENDS SharedMemory, TLC

CONSTANTS h, p, q, pre, other

OnePrefix == h :> pre @@ p :> pre @@ q :> pre
TwoPrefixes == p :> pre @@ q :> other

\* The one that may make the memory again, after it was freed, is p.
Once == h :> 1 @@ p :> 1 @@ q :> 1
Rounds == h :> 1 @@ p :> 2 @@ q :> 1

\* One that cannot make its files, one that cannot lock, and one that cannot read.
NoneFail == h :> {} @@ p :> {} @@ q :> {}
SomeFail == h :> {"lock"} @@ p :> {"attach", "key", "info"} @@ q :> {"read"}

\* random() draws that differ, and what random() without a seed draws: the first
\* number of the one sequence every process starts with.
Drawn == h :> 11 @@ p :> 12 @@ q :> 13
Unseeded == p :> 11 @@ q :> 11
=============================================================================
