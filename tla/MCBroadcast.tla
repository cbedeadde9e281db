----------------------------- MODULE MCBroadcast -----------------------------
(* Two servers, two streams and one conversation. A behaviour either sends *)
(* signals to one stream, or opens two and may lose a server.              *)
EXTENDS Broadcast

MCBounds == {[opens |-> 1, sends |-> 2, losses |-> 1, crashes |-> 0],
             [opens |-> 2, sends |-> 0, losses |-> 1, crashes |-> 1]}
==============================================================================
