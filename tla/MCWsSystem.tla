------------------------------ MODULE MCWsSystem ------------------------------
(***************************************************************************)
(* A batch of two requests, a single one, or WebSocketJobClient with one   *)
(* job, over one worker and a queue of two; what the requests are is       *)
(* chosen initially.                                                       *)
(***************************************************************************)
EXTENDS WsSystem
=============================================================================
