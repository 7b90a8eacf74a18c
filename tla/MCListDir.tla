---------------------------- MODULE MCListDir ----------------------------
(* A tree three levels deep: the first directory has two places for         *)
(* entries, one of which may be a directory with a place of its own, the    *)
(* second has one.                                                          *)
EXTENDS ListDir

MCNames == 1..2
MCPaths == {<<>>, <<1>>, <<2>>, <<1, 1>>, <<1, 2>>, <<1, 1, 1>>, <<2, 1>>}
MCFlaky == {<<2>>}
=============================================================================
