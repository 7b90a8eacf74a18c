--------------------------- MODULE MCCommandPool ---------------------------
(* Two commands, a limit of one, one worker, and one uncounted lookup: the   *)
(* second command may come in the same session or after a reconnection.      *)
EXTENDS CommandPool

CONSTANTS c1, c2, l1

MCCommands == {c1, c2}
MCLookups == {l1}
=============================================================================
