---------------------------- MODULE MCRunStream ----------------------------
(* Two viewers of a run of up to five steps, with queues of two and three  *)
(* steps remembered: every queue can overflow, the memory is trimmed, and  *)
(* what is remembered does not all fit a queue.                            *)
EXTENDS RunStream

CONSTANTS v1, v2
MCViewers == {v1, v2}
OneViewer == {v1}
=============================================================================
