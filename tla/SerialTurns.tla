---------------------------- MODULE SerialTurns ----------------------------
(***************************************************************************)
(* What a store promises about one conversation's row, whatever leases,    *)
(* tokens and copies it is built from: the row belongs to one writer at a  *)
(* time, and a writer adds or takes back its own turn and nothing else.    *)
(* A turn another writer recorded is never lost.                           *)
(*                                                                         *)
(* ConversationLease implements this specification.                        *)
(***************************************************************************)
EXTENDS Naturals

VARIABLES
  turns,    \* the writers whose turn is on record
  writer    \* the writer the row belongs to; writers are numbered as they come

vars == <<turns, writer>>

Init ==
  /\ turns = {}
  /\ writer = 0

\* The row passes to a new writer, as it stands.
TakeOver ==
  /\ writer' = writer + 1
  /\ UNCHANGED turns

\* The writer's turn is put on record, or taken back.
Write ==
  /\ \/ turns' = turns \union {writer}
     \/ turns' = turns \ {writer}
  /\ UNCHANGED writer

Next == TakeOver \/ Write

Spec == Init /\ [][Next]_vars
=============================================================================
