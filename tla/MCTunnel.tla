------------------------------ MODULE MCTunnel ------------------------------
(* Two tunnels that use the same id one after the other, with frames of one  *)
(* byte, a ceiling of two of them and a socket that blocks on the first.     *)
EXTENDS Tunnel

CONSTANT a

MCHandlers == 1..2
MCIds == {a}
MCFrames == {Data(1, k) : k \in 1..MaxFrames} \cup {Signal(t) : t \in {"pause", "resume", "close"}}
=============================================================================
