------------------------------ MODULE MCMixer ------------------------------
EXTENDS Mixer, TLC

CONSTANTS a, b, c, u, v

FewOutputs == a :> 1 @@ b :> 2 @@ c :> 1
=============================================================================
