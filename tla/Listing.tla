------------------------------ MODULE Listing ------------------------------
(***************************************************************************)
(* What a recursive listing in pages promises its caller, whatever happens *)
(* to the tree meanwhile: no file is reported twice, and when the listing  *)
(* says it is complete, every file that was there all the time has been    *)
(* reported.  (CHANGELOG 171-180, test_hardening.py 274-309)               *)
(***************************************************************************)
EXTENDS SequencesExt

CONSTANTS Files     \* paths a file may have

VARIABLES
  steady,    \* files there ever since the listing began
  listed,    \* what the pages have reported so far
  complete   \* the last page said there is no more

vars == <<steady, listed, complete>>

Init == steady \subseteq Files /\ listed = <<>> /\ complete = FALSE

(* The tree changes; what has been away once is no longer steady. *)
Change ==
  /\ steady' \subseteq steady
  /\ UNCHANGED <<listed, complete>>

(* A page goes on after the pages before it; the last one makes the list whole. *)
ReceivePage ==
  /\ ~complete
  /\ IsPrefix(listed, listed')
  /\ Range(listed') \subseteq Files /\ IsInjective(listed')
  /\ complete' \in BOOLEAN
  /\ complete' => steady \subseteq Range(listed')
  /\ UNCHANGED steady

Next == Change \/ ReceivePage

Spec == Init /\ [][Next]_vars
=============================================================================
