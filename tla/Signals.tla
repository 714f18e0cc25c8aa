------------------------------ MODULE Signals ------------------------------
(* What a pin or a register carries while its valid flag is low.           *)
CONSTANT None
=============================================================================
