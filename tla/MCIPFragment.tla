---------------------------- MODULE MCIPFragment ----------------------------
(* Instances of IPFragment for TLC: payloads around the sizes at which a   *)
(* further fragment begins.                                                *)
EXTENDS IPFragment

Payloads == {0, 1, 7, 28, 40, 41, 48, 49, 88, 96, 97, 131, 140, 161}
=============================================================================
