---------------------------- MODULE MCPtyStream ----------------------------
(* Two PTYs, a container exec and a host shell, that share a pool of one    *)
(* worker; with one stream id they come one after the other, with two they  *)
(* may wait for each other.                                                 *)
EXTENDS PtyStream

MCHandlers == 1..2
MCHostShells == {2}
MCFrames == {Data(1, 0), Signal("resize"), Close}
MCSignals == {Signal("resize"), Close}
=============================================================================
