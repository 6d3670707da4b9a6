--------------------------- MODULE MCA2bController ---------------------------
(* Two streams and two profiles, of which the second does not start muted. *)
EXTENDS A2bController

MCProfiles == {"tas", "bench"}
MCStartMuted == {"tas", "wrong"}
MCAllResults == {"ok", "error", "mismatch"}
===============================================================================
