--------------------------- MODULE MCWakeAttempts ---------------------------
(* Two streams of one server, one wake notice, one other request.          *)
EXTENDS WakeAttempts
=============================================================================
