---------------------------- MODULE MCUpdateQueue ----------------------------
(* hai.update called for one surface, and then by another surface's name.    *)
EXTENDS UpdateQueue
==============================================================================
