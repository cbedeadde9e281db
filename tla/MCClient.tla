------------------------------- MODULE MCClient -------------------------------
(* Two requests and one wake turn. A browser that may poll meets a reset or *)
(* a fault; one that keeps its stream may meet both.                        *)
EXTENDS Client

Troubles ==
  {[polls |-> TRUE, resets |-> 0, faults |-> 1],
   [polls |-> TRUE, resets |-> 1, faults |-> 0],
   [polls |-> FALSE, resets |-> 1, faults |-> 1]}

OneDrop == {[polls |-> FALSE, resets |-> 0, faults |-> 1]}
===============================================================================
