------------------------------ MODULE MCAuthVars ------------------------------
(* Payloads for AuthVars: nothing, one byte, a signed value. *)
EXTENDS AuthVars
SmallPayloads == {<<>>, <<1>>, <<0, 1>>}
===============================================================================
