----------------------------- MODULE MCHandler -----------------------------
(* Small instances of HandlerSystem.                                       *)
EXTENDS HandlerSystem
MCTags == 0 .. MaxInstr
=============================================================================
