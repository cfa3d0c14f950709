----------------------------- MODULE MCSdCard ------------------------------
(* Two blocks whose addresses differ in two bytes, and whose bytes look    *)
(* like no answer, like the token and like an answer.                      *)
EXTENDS SdCard, TLC

MCContent == (2 :> <<255, 254>>) @@ (513 :> <<0, 1>>)
=============================================================================
