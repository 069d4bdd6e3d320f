----------------------------- MODULE RemoteCall -----------------------------
(***************************************************************************)
(* What aipc_plugincaller_call_plugin promises its user, without buffers,  *)
(* pipes or threads: a call is refused before the plugin's callback has    *)
(* run, or the callback runs for it exactly once and the call returns what *)
(* that run answered.                                                      *)
(***************************************************************************)
CONSTANT Replies      \* sizes a callback may answer with; 0 is NULL

VARIABLES
  phase,              \* how far the call is
  answer,             \* what the callback answered last
  given               \* what the call gave its user, while it returns

NotGiven == "nothing"

RCInit == phase = "idle" /\ answer = 0 /\ given = NotGiven

Ask == phase = "idle" /\ phase' = "asked" /\ UNCHANGED <<answer, given>>

Refuse == phase = "asked" /\ phase' = "idle" /\ UNCHANGED <<answer, given>>

RunCallback ==
  /\ phase = "asked" /\ phase' = "answered"
  /\ answer' \in Replies
  /\ UNCHANGED given

Deliver ==
  /\ phase = "answered" /\ phase' = "delivered"
  /\ given' = answer
  /\ UNCHANGED answer

Return ==
  /\ phase = "delivered" /\ phase' = "idle"
  /\ given' = NotGiven
  /\ UNCHANGED answer

RCNext == Ask \/ Refuse \/ RunCallback \/ Deliver \/ Return

RCSpec == RCInit /\ [][RCNext]_<<phase, answer, given>>
=============================================================================
