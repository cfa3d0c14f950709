------------------------------ MODULE MCWbMux -------------------------------
(* Three ports, so that a waiting port can be bypassed by two others, and  *)
(* two requests, so that they can be told apart.                           *)
EXTENDS WbMux
=============================================================================
