----------------------------- MODULE MCMqSystem -----------------------------
(***************************************************************************)
(* Two calls of MQJobClient, one of them invalid, and one of the UI, with  *)
(* one worker and a queue of one: requests are accepted, refused by the    *)
(* full queue and refused as invalid; subscriptions break and are made     *)
(* anew; the second call of the client meets the subscriber that the first *)
(* one left behind.                                                        *)
(***************************************************************************)
EXTENDS MqSystem
=============================================================================
