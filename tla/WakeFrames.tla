----------------------------- MODULE WakeFrames -----------------------------
(***************************************************************************)
(* The frames by which every server shows a wake turn and lets it go.      *)
(*                                                                         *)
(* A wake turn runs in one server.  It says `streaming` with its number    *)
(* before its opening save, again once that has landed, and `released`     *)
(* when its lease is let go; a server that shows a turn has its browsers   *)
(* hold their requests.  Each frame goes to the turn's own server at once  *)
(* and to every other server that listens, in the order sent; frames of    *)
(* two servers come in any order.  A turn is known by the token of its     *)
(* lease, so a higher one is newer.  What else a turn does is in Turns,    *)
(* and when a stream starts one in WakeAttempts.                           *)
(***************************************************************************)
EXTENDS Integers, Sequences, FiniteSets

CONSTANTS
  Server,
  MaxTurn,      \* bound: wake turns
  MaxFaults,    \* bound: servers that crash, and turns with a frame lost on the way to a server
  None

ASSUME FramesAssumption ==
  /\ MaxTurn \in Nat /\ MaxFaults \in Nat
  /\ None \notin Server

VARIABLES
  row,        \* the stored row: its token, `wakeTurns`
  turn,       \* each turn: its stage, its server, its number
  watchers,   \* each server's entry: `deliver`'s current and newest
  wire,       \* frames on their way, from each server to each other
  faults,
  recorded,   \* history: turns whose number is on record
  lost        \* history: a turn, and a server not sent some frame of it

vars == <<row, turn, watchers, wire, faults, recorded, lost>>

Turn   == 1 .. MaxTurn
Stages == {"no", "loaded", "commit", "started", "over"}

NoTurn  == [pc |-> "no", at |-> None, number |-> 0, own |-> FALSE]
Over    == [NoTurn EXCEPT !.pc = "over"]
\* `last` is no variable of the code: the turn shown last.
NoEntry == [there |-> FALSE, showing |-> 0, newest |-> 0, last |-> 0]

Init ==
  /\ row = [token |-> 0, turns |-> 0]
  /\ turn = [t \in Turn |-> NoTurn]
  /\ watchers = [s \in Server |-> NoEntry]
  /\ wire = [s \in Server |-> [d \in Server |-> <<>>]]
  /\ faults = 0
  /\ recorded = {}
  /\ lost = {}

At(t, stage) == turn[t].pc = stage
Streaming(t, number) == [kind |-> "streaming", turn |-> t, number |-> number]
Released(t) == [kind |-> "released", turn |-> t, number |-> turn[t].number]

-----------------------------------------------------------------------------
(* Frames                                                                   *)

\* An older turn's late start is dropped, and so is any frame of a turn that is
\* not the one showing.
Deliver(w, f) ==
  CASE f.kind = "streaming" /\ w.showing # f.turn /\ f.number >= w.newest ->
         [w EXCEPT !.showing = f.turn, !.newest = f.number, !.last = f.turn]
    [] f.kind = "released" /\ w.showing = f.turn -> [w EXCEPT !.showing = 0]
    [] OTHER -> w

\* To the entry the turn began with, and to every server that listens.
Emit(t, f) ==
  LET s == turn[t].at
  IN  /\ watchers' = IF turn[t].own THEN [watchers EXCEPT ![s] = Deliver(@, f)] ELSE watchers
      /\ wire' = [wire EXCEPT ![s] = [d \in Server |->
                    IF d # s /\ watchers[d].there THEN Append(@[d], f) ELSE @[d]]]

Hear(s, d) ==
  /\ wire[s][d] # <<>>
  /\ watchers' = [watchers EXCEPT ![d] = Deliver(@, Head(wire[s][d]))]
  /\ wire' = [wire EXCEPT ![s][d] = Tail(@)]
  /\ UNCHANGED <<row, turn, faults, recorded, lost>>

\* Publishing is best effort: a frame may never arrive.
Lose(s, d) ==
  /\ wire[s][d] # <<>>
  /\ LET frame == <<Head(wire[s][d]).turn, d>>
     IN  /\ lost' = lost \union {frame}
         /\ faults' = faults + (IF frame \in lost THEN 0 ELSE 1)
         /\ faults' <= MaxFaults
  /\ wire' = [wire EXCEPT ![s][d] = Tail(@)]
  /\ UNCHANGED <<row, turn, watchers, recorded>>

-----------------------------------------------------------------------------
(* Entries                                                                  *)

\* A first stream opens, and the server listens before the browser is told so.
Listen(s) ==
  /\ ~watchers[s].there
  /\ watchers' = [watchers EXCEPT ![s].there = TRUE]
  /\ UNCHANGED <<row, turn, wire, faults, recorded, lost>>

Left(s) == wire' = [r \in Server |-> [wire[r] EXCEPT ![s] = <<>>]]

\* A while after its last stream the entry goes, unless a turn shows.  A turn
\* that has said nothing yet keeps the entry it began with.
Forget(s) ==
  /\ watchers[s].there /\ watchers[s].showing = 0
  /\ watchers' = [watchers EXCEPT ![s] = NoEntry]
  /\ turn' = [t \in Turn |-> IF turn[t].at = s THEN [turn[t] EXCEPT !.own = FALSE] ELSE turn[t]]
  /\ Left(s)
  /\ UNCHANGED <<row, faults, recorded, lost>>

-----------------------------------------------------------------------------
(* A turn                                                                   *)

Step(t, stage) == turn' = [turn EXCEPT ![t].pc = stage]
Fence(t) == row.token = t
Saved(number) == [row EXCEPT !.turns = number]

\* An attempt of a stream here takes the lease, let go or lapsed: a lease may
\* lapse under any turn, so it holds back none.
Load(s) ==
  LET t == row.token + 1
  IN  /\ watchers[s].there /\ t \in Turn
      /\ row' = [row EXCEPT !.token = t]
      /\ turn' = [turn EXCEPT ![t] = [pc |-> "loaded", at |-> s,
                                         number |-> row.turns, own |-> TRUE]]
      /\ UNCHANGED <<watchers, wire, faults, recorded, lost>>

\* It finds nothing to wake for, or fails before it starts: nothing is shown.
NoWake(t) ==
  /\ At(t, "loaded")
  /\ turn' = [turn EXCEPT ![t] = Over]
  /\ UNCHANGED <<row, watchers, wire, faults, recorded, lost>>

\* Numbered, and said before the save that commits it.
Start(t) ==
  /\ At(t, "loaded")
  /\ turn' = [turn EXCEPT ![t].pc = "commit", ![t].number = @ + 1]
  /\ Emit(t, Streaming(t, turn[t].number + 1))
  /\ UNCHANGED <<row, faults, recorded, lost>>

CommitLands(t) ==
  /\ At(t, "commit") /\ Fence(t)
  /\ row' = Saved(turn[t].number)
  /\ recorded' = recorded \union {t}
  /\ Step(t, "started")
  /\ Emit(t, Streaming(t, turn[t].number))
  /\ UNCHANGED <<faults, lost>>

\* Refused, or failed, and then perhaps landed all the same.
CommitFails(t) ==
  /\ At(t, "commit")
  /\ \/ UNCHANGED <<row, recorded>>
     \/ Fence(t) /\ row' = Saved(turn[t].number) /\ recorded' = recorded \union {t}
  /\ Step(t, "started")
  /\ UNCHANGED <<watchers, wire, faults, lost>>

\* Slip: a failed turn's undo puts `wakeTurns` back too.
NumberUndone(t) == turn[t].number - 1
\* A turn that fails is counted all the same.
NumberKept(t) == turn[t].number

\* Slip: `released` is said only of a lease that was let go.
LetsGoSaved(saved) == saved
\* Said even when the last save failed, or the browsers would wait for ever.
LetsGo(saved) == TRUE

\* The turn ends, and its last save lands, is refused, or fails and perhaps
\* landed all the same.
Release(t) ==
  /\ At(t, "started")
  /\ \E saved \in BOOLEAN :
       /\ \/ Fence(t) /\ row' = Saved(NumberKept(t)) /\ recorded' = recorded \union {t}
          \/ ~saved /\ UNCHANGED <<row, recorded>>
       /\ IF LetsGo(saved) THEN Emit(t, Released(t)) ELSE UNCHANGED <<watchers, wire>>
  /\ turn' = [turn EXCEPT ![t] = Over]
  /\ UNCHANGED <<faults, lost>>

-----------------------------------------------------------------------------
\* From its `streaming` to its `released`.
Shows(t) == turn[t].pc \in {"commit", "started"}

\* A turn under way dies with its server, and never says `released`.
Crash(s) ==
  /\ faults < MaxFaults
  /\ faults' = faults + 1
  /\ LET dead == {t \in Turn : turn[t].at = s}
     IN  /\ turn' = [t \in Turn |-> IF t \in dead THEN Over ELSE turn[t]]
         /\ lost' = lost \union ({t \in dead : Shows(t)} \X (Server \ {s}))
  /\ watchers' = [watchers EXCEPT ![s] = NoEntry]
  /\ Left(s)
  /\ UNCHANGED <<row, recorded>>

Next ==
  \/ \E s \in Server : Listen(s) \/ Forget(s) \/ Load(s) \/ Crash(s)
  \/ \E s, d \in Server : Hear(s, d) \/ Lose(s, d)
  \/ \E t \in Turn :
       NoWake(t) \/ Start(t) \/ CommitLands(t) \/ CommitFails(t) \/ Release(t)

Spec == Init /\ [][Next]_vars

-----------------------------------------------------------------------------
(* Properties                                                               *)

\* The variables keep their types, and a server that is not listening is sent
\* nothing.
TypeOK ==
  /\ row \in [token : 0 .. MaxTurn, turns : 0 .. MaxTurn]
  /\ recorded \subseteq Turn /\ lost \subseteq Turn \X Server /\ faults \in 0 .. MaxFaults
  /\ \A t \in Turn : turn[t] \in [pc : Stages, at : Server \union {None},
                                  number : 0 .. MaxTurn, own : BOOLEAN]
  /\ \A s \in Server :
       /\ watchers[s] \in [there : BOOLEAN, showing : 0 .. MaxTurn,
                           newest : 0 .. MaxTurn, last : 0 .. MaxTurn]
       /\ ~watchers[s].there => \A r \in Server : wire[r][s] = <<>>

\* A server that shows a wake turn, and so has its browsers hold their
\* requests, shows one that is under way or whose `released` is coming, unless
\* a frame of it was lost to this server or its own server crashed.
ShownTurnsLetGo ==
  \A s \in Server :
    LET t == watchers[s].showing
    IN  t # 0 =>
          \/ Shows(t) /\ (turn[t].own \/ turn[t].at # s)
          \/ \E r \in Server : \E i \in DOMAIN wire[r][s] :
               wire[r][s][i].kind = "released" /\ wire[r][s][i].turn = t
          \/ <<t, s>> \in lost

\* A server that has shown a turn shows no older one later, though an older
\* turn's start may come after the newer one's.  That is so of turns whose
\* number is on record, as the row counts them; a turn never saved may have the
\* number of the next, and then come after it.
RecordedTurnsInOrder ==
  [][\A s \in Server :
       (watchers'[s].there /\ {watchers[s].last, watchers'[s].last} \subseteq recorded')
         => watchers'[s].last >= watchers[s].last]_vars
=============================================================================
