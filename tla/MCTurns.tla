------------------------------ MODULE MCTurns ------------------------------
(* Two requests, each of which may run again under a later lease. One run  *)
(* has four setups, each with the kinds of request that meet in it.        *)
EXTENDS Turns

CONSTANTS r1, r2

Symmetry == Permutations({r1, r2})

\* Messages and clicks, two tool calls in a reply.
Answers ==
  [kinds |-> {"chat", "click"}, hasInit |-> FALSE, readFails |-> TRUE,
   maxHops |-> 1, maxWakes |-> 1, tokens |-> 3, handles |-> 2, notices |-> 0, calls |-> 2]

\* An app with an init tool.
Openings == [Answers EXCEPT !.kinds = {"chat", "click", "start"}, !.hasInit = TRUE, !.calls = 1]

\* Messages and clicks against hai.update.
Revisions ==
  [kinds |-> {"chat", "click", "update"}, hasInit |-> FALSE, readFails |-> FALSE,
   maxHops |-> 1, maxWakes |-> 1, tokens |-> 3, handles |-> 2, notices |-> 1, calls |-> 1]

\* Messages against wake turns.
Wakes ==
  [kinds |-> {"chat", "wake"}, hasInit |-> FALSE, readFails |-> FALSE,
   maxHops |-> 2, maxWakes |-> 1, tokens |-> 3, handles |-> 1, notices |-> 1, calls |-> 1]

\* Wake turns whose last read may fail.
WakeReadFails == [Wakes EXCEPT !.readFails = TRUE, !.maxHops = 1]

AllSetups == {Answers, Openings, Revisions, Wakes}
OnlyWakeReadFails == {WakeReadFails}
=============================================================================
