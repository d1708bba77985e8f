----------------------------- MODULE SessionIds -----------------------------
(* The session ids (SessionId in src/types/index.ts) that the components   *)
(* watching over sessions keep their entries for.                          *)
CONSTANT Sessions
=============================================================================
