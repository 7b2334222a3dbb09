------------------------------ MODULE MCWebsockets ------------------------------
(* Two pools, and two connections although one is the limit. *)
EXTENDS Websockets
=================================================================================
