------------------------------ MODULE MCGateway ------------------------------
(* Gateway for TLC: one proxy process, as the Dockerfile starts it.        *)
EXTENDS Gateway, TLC
==============================================================================
