------------------------------ MODULE MCGateway ------------------------------
(* Three frames of two bytes and a buffer that holds three bytes. *)
EXTENDS Gateway
=============================================================================
