------------------------------ MODULE MCClients ------------------------------
EXTENDS Clients, TLC

CONSTANTS a, b, x

OwnNames == a :> "synth" @@ b :> "drums"
TwiceAndOnce == a :> 2 @@ b :> 1
Once == a :> 1 @@ b :> 1
Wanted == x :> "synth"
=============================================================================
