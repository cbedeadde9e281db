--------------------------- MODULE Servers_proofs ----------------------------
(****************************************************************************)
(* Servers over one store: WakeFrames, the wake turns they show, and        *)
(* Revocation, one user's sign-ins as they know them.                       *)
(****************************************************************************)
EXTENDS WakeFrames, Revocation, SequenceTheorems, WellFoundedInduction, TLAPS

------------------------------------------------------------------------------
(****************************************************************************)
(* What WakeFrames says of any number of servers, turns and faults: a       *)
(* server never holds its browsers for a turn whose end it will not hear,   *)
(* and never goes back from a turn on record to an older one.               *)
(*                                                                          *)
(* The first comes of the order of each server's frames: behind every       *)
(* `streaming` on its way, the turn still runs at the server that said it,  *)
(* or its `released` follows (QueuesSound). The second comes of the fence:  *)
(* turns can be numbered once and for all so that every frame, entry and    *)
(* turn agrees, and a turn on record has a lower number than every newer    *)
(* turn (Numbered).                                                         *)
(****************************************************************************)

Kinds     == {"streaming", "released"}
Frame     == [kind : Kinds, turn : Turn, number : Nat]
Entry     == [there : BOOLEAN, showing : Nat, newest : Nat, last : Nat]
TurnState == [pc : Stages, at : Server \union {None}, number : Nat, own : BOOLEAN]

Typed ==
  /\ row \in [token : Nat, turns : Nat]
  /\ turn \in [Turn -> TurnState]
  /\ watchers \in [Server -> Entry]
  /\ wire \in [Server -> [Server -> Seq(Frame)]]
  /\ recorded \subseteq Turn

\* A server without an entry shows nothing and is sent nothing; none sends itself.
AbsentQuiet ==
  /\ \A s \in Server : ~watchers[s].there =>
       watchers[s] = NoEntry /\ \A r \in Server : wire[r][s] = <<>>
  /\ \A s \in Server : wire[s][s] = <<>>

\* A turn is of the server it runs in, and has that server's entry while it is there.
TurnSound(t) ==
  /\ turn[t].pc \in {"loaded", "commit", "started"} => turn[t].at \in Server
  /\ turn[t].pc \in {"no", "over"} => turn[t].at = None /\ ~turn[t].own
  /\ turn[t].own => watchers[turn[t].at].there
  /\ t > row.token => turn[t].pc = "no"

TurnsSound == \A t \in Turn : TurnSound(t)

\* A `released` of t follows the i-th frame.
ReleasedIn(q, t, i) ==
  \E j \in DOMAIN q : j > i /\ q[j].kind = "released" /\ q[j].turn = t

\* The end of t, as r says it to d, is yet to come, or was lost.
Due(q, t, i, r, d) ==
  \/ Shows(t) /\ turn[t].at = r
  \/ ReleasedIn(q, t, i)
  \/ <<t, d>> \in lost

QueueSound(q, r, d) ==
  \A i \in DOMAIN q : q[i].kind = "streaming" => Due(q, q[i].turn, i, r, d)

QueuesSound == \A r, d \in Server : QueueSound(wire[r][d], r, d)

\* ShownTurnsLetGo, of one server and turn.
LetGoDue(s, t) ==
  \/ Shows(t) /\ (turn[t].own \/ turn[t].at # s)
  \/ \E r \in Server : ReleasedIn(wire[r][s], t, 0)
  \/ <<t, s>> \in lost

ShownDue == \A s \in Server : watchers[s].showing # 0 =>
              watchers[s].showing \in Turn /\ LetGoDue(s, watchers[s].showing)

FInv ==
  /\ Typed
  /\ AbsentQuiet
  /\ TurnsSound
  /\ QueuesSound
  /\ ShownDue

-----------------------------------------------------------------------------
(* The numbers of turns                                                     *)

\* What every frame, entry and turn says its number is, or will be, is num.
TurnNumbered(num, t) ==
  /\ turn[t].pc = "loaded" => num[t] = turn[t].number + 1
  /\ turn[t].pc \in {"commit", "started"} => num[t] = turn[t].number

FrameNumbered(num, f) == f.turn <= row.token /\ f.number = num[f.turn]

EntryNumbered(num, w) == w.last # 0 =>
  w.last \in Turn /\ w.last <= row.token /\ w.newest = num[w.last]

\* A turn on record is counted, and comes before every newer turn.
RecordNumbered(num, t) ==
  /\ t <= row.token /\ num[t] <= row.turns
  /\ \A u \in Turn : t < u /\ u <= row.token => num[t] < num[u]

RowNumbered(num) == row.token # 0 => row.token \in Turn /\ row.turns <= num[row.token]

SentNumbered(num)  == \A r, d \in Server : \A i \in DOMAIN wire[r][d] :
                        FrameNumbered(num, wire[r][d][i])
ShownNumbered(num) == \A s \in Server : EntryNumbered(num, watchers[s])

Numbering(num) ==
  /\ \A t \in Turn : TurnNumbered(num, t)
  /\ SentNumbered(num) /\ ShownNumbered(num)
  /\ \A t \in recorded : RecordNumbered(num, t)
  /\ RowNumbered(num)

Numbered == \E num \in [Turn -> Nat] : Numbering(num)

-----------------------------------------------------------------------------
(* Queues                                                                   *)

LEMMA Queues ==
  ASSUME NEW q \in Seq(Frame)
  PROVE  /\ Len(q) \in Nat /\ DOMAIN q = 1 .. Len(q)
         /\ q # <<>> <=> Len(q) > 0
         /\ \A i \in DOMAIN q : q[i] \in Frame
<1>1. Len(q) \in Nat /\ DOMAIN q = 1 .. Len(q)  BY LenProperties
<1>2. \A i \in 1 .. Len(q) : q[i] \in Frame  BY ElementOfSeq
<1>3. q # <<>> => Len(q) \in Nat \ {0}  BY EmptySeq
<1>4. Len(<<>>) = 0  BY EmptySeq
<1>5. q # <<>> <=> Len(q) > 0
  <2>1. CASE q = <<>>  BY <1>4, <2>1
  <2>2. CASE q # <<>>  BY <1>3, <2>2
  <2> QED  BY <2>1, <2>2
<1> QED  BY <1>1, <1>2, <1>5

LEMMA Appended ==
  ASSUME NEW q \in Seq(Frame), NEW f \in Frame
  PROVE  /\ Append(q, f) \in Seq(Frame)
         /\ DOMAIN Append(q, f) = 1 .. Len(q) + 1
         /\ \A i \in DOMAIN q : Append(q, f)[i] = q[i]
         /\ Append(q, f)[Len(q) + 1] = f
<1>1. /\ Append(q, f) \in Seq(Frame) /\ Len(Append(q, f)) = Len(q) + 1
      /\ \A i \in 1 .. Len(q) : Append(q, f)[i] = q[i]
      /\ Append(q, f)[Len(q) + 1] = f
  BY AppendProperties
<1>2. DOMAIN q = 1 .. Len(q) /\ DOMAIN Append(q, f) = 1 .. Len(Append(q, f))
  BY <1>1, LenProperties
<1> QED  BY <1>1, <1>2

\* What follows a frame still does when another is sent.
LEMMA AppendedIn ==
  ASSUME NEW q \in Seq(Frame), NEW f \in Frame, NEW t, NEW i \in Nat,
         ReleasedIn(q, t, i) \/ (i <= Len(q) /\ f.kind = "released" /\ f.turn = t)
  PROVE  ReleasedIn(Append(q, f), t, i)
<1>1. Len(q) \in Nat /\ DOMAIN q = 1 .. Len(q)  BY Queues
<1>2. CASE ReleasedIn(q, t, i)
  <2>1. PICK j \in DOMAIN q : j > i /\ q[j].kind = "released" /\ q[j].turn = t
    BY <1>2 DEF ReleasedIn
  <2>2. j \in DOMAIN Append(q, f) /\ Append(q, f)[j] = q[j]
    BY <1>1, <2>1, Appended
  <2> QED  BY <2>1, <2>2 DEF ReleasedIn
<1>3. CASE i <= Len(q) /\ f.kind = "released" /\ f.turn = t
  <2>1. Len(q) + 1 \in DOMAIN Append(q, f) /\ Append(q, f)[Len(q) + 1] = f /\ Len(q) + 1 > i
    BY <1>1, <1>3, Appended
  <2> QED  BY <1>3, <2>1 DEF ReleasedIn
<1> QED  BY <1>2, <1>3

LEMMA Dequeued ==
  ASSUME NEW q \in Seq(Frame), q # <<>>
  PROVE  /\ Tail(q) \in Seq(Frame) /\ Head(q) = q[1] /\ Head(q) \in Frame /\ 1 \in DOMAIN q
         /\ \A i \in DOMAIN Tail(q) : i \in Nat /\ i + 1 \in DOMAIN q /\ Tail(q)[i] = q[i + 1]
<1>1. /\ Tail(q) \in Seq(Frame) /\ Len(Tail(q)) = Len(q) - 1 /\ Head(q) \in Frame
      /\ \A i \in 1 .. Len(Tail(q)) : Tail(q)[i] = q[i + 1]
  BY HeadTailProperties
<1>2. Len(q) \in Nat /\ DOMAIN q = 1 .. Len(q) /\ Len(q) > 0  BY Queues
<1>3. DOMAIN Tail(q) = 1 .. Len(q) - 1  BY <1>1, LenProperties
<1>4. Head(q) = q[1]  OBVIOUS
<1> QED  BY <1>1, <1>2, <1>3, <1>4

\* What follows a frame still does when the queue's head is heard, or lost: if it
\* was the frame itself, all that was behind it is left.
LEMMA DequeuedIn ==
  ASSUME NEW q \in Seq(Frame), q # <<>>, NEW t, NEW i \in Nat,
         ReleasedIn(q, t, i + 1) \/ (i = 0 /\ ReleasedIn(q, t, 0)
                                     /\ ~(Head(q).kind = "released" /\ Head(q).turn = t))
  PROVE  ReleasedIn(Tail(q), t, i)
<1>1. PICK j \in DOMAIN q : j > i + 1 /\ q[j].kind = "released" /\ q[j].turn = t
  <2>1. CASE ReleasedIn(q, t, i + 1)
    BY <2>1 DEF ReleasedIn
  <2>2. CASE i = 0 /\ ReleasedIn(q, t, 0) /\ ~(Head(q).kind = "released" /\ Head(q).turn = t)
    <3>1. PICK j \in DOMAIN q : j > 0 /\ q[j].kind = "released" /\ q[j].turn = t
      BY <2>2 DEF ReleasedIn
    <3>2. j # 1  BY <2>2, <3>1, Dequeued
    <3>3. j \in Nat  BY Queues
    <3> QED  BY <2>2, <3>1, <3>2, <3>3
  <2> QED  BY <2>1, <2>2
<1>2. Len(q) \in Nat /\ DOMAIN q = 1 .. Len(q)  BY Queues
<1>3. DOMAIN Tail(q) = 1 .. Len(q) - 1 /\ \A k \in 1 .. Len(q) - 1 : Tail(q)[k] = q[k + 1]
  <2>1. /\ Tail(q) \in Seq(Frame) /\ Len(Tail(q)) = Len(q) - 1
        /\ \A k \in 1 .. Len(Tail(q)) : Tail(q)[k] = q[k + 1]
    BY HeadTailProperties
  <2> QED  BY <2>1, LenProperties
<1>4. j - 1 \in 1 .. Len(q) - 1 /\ (j - 1) + 1 = j
  BY <1>1, <1>2
<1>5. j - 1 > i  BY <1>1, <1>2
<1> QED  BY <1>1, <1>3, <1>4, <1>5 DEF ReleasedIn

-----------------------------------------------------------------------------
(* What a frame does                                                        *)

\* A `streaming` is shown, or a `released` lets go of what shows, or nothing.
LEMMA Delivers ==
  ASSUME NEW w \in Entry, NEW f \in Frame
  PROVE  /\ Deliver(w, f) \in Entry /\ Deliver(w, f).there = w.there
         /\ \/ /\ f.kind = "streaming" /\ f.number >= w.newest
               /\ Deliver(w, f).showing = f.turn /\ Deliver(w, f).last = f.turn
               /\ Deliver(w, f).newest = f.number
            \/ /\ Deliver(w, f).showing \in {0, w.showing}
               /\ f.kind = "released" => Deliver(w, f).showing # f.turn
               /\ Deliver(w, f).last = w.last /\ Deliver(w, f).newest = w.newest
<1>1. CASE f.kind = "streaming" /\ w.showing # f.turn /\ f.number >= w.newest
  <2>1. Deliver(w, f) = [w EXCEPT !.showing = f.turn, !.newest = f.number, !.last = f.turn]
    BY <1>1 DEF Deliver
  <2>2. f.turn \in Nat /\ f.number \in Nat  BY DEF Frame, Turn
  <2> QED  BY <1>1, <2>1, <2>2 DEF Entry
<1>2. CASE f.kind = "released" /\ w.showing = f.turn
  <2>1. Deliver(w, f) = [w EXCEPT !.showing = 0]  BY <1>2 DEF Deliver
  <2>2. f.turn # 0  BY DEF Frame, Turn
  <2> QED  BY <1>2, <2>1, <2>2 DEF Entry
<1>3. CASE /\ ~(f.kind = "streaming" /\ w.showing # f.turn /\ f.number >= w.newest)
           /\ ~(f.kind = "released" /\ w.showing = f.turn)
  <2>1. Deliver(w, f) = w  BY <1>3 DEF Deliver
  <2> QED  BY <1>3, <2>1
<1> QED  BY <1>1, <1>2, <1>3

LEMMA Emits ==
  ASSUME Typed, NEW t \in Turn, turn[t].at \in Server, NEW f \in Frame, Emit(t, f)
  PROVE  LET s == turn[t].at
         IN  /\ watchers' \in [Server -> Entry]
             /\ \A d \in Server : watchers'[d].there = watchers[d].there
             /\ \A d \in Server : d # s \/ ~turn[t].own => watchers'[d] = watchers[d]
             /\ turn[t].own => watchers'[s] = Deliver(watchers[s], f)
             /\ wire' \in [Server -> [Server -> Seq(Frame)]]
             /\ \A r, d \in Server :
                  wire'[r][d] = IF r = s /\ d # s /\ watchers[d].there
                                THEN Append(wire[r][d], f) ELSE wire[r][d]
<1> DEFINE s    == turn[t].at
           sent == [d \in Server |-> IF d # s /\ watchers[d].there
                                     THEN Append(wire[s][d], f) ELSE wire[s][d]]
<1>1. /\ watchers \in [Server -> Entry] /\ wire \in [Server -> [Server -> Seq(Frame)]]
      /\ s \in Server
  BY DEF Typed
<1>2. sent \in [Server -> Seq(Frame)]
  <2>1. \A d \in Server : wire[s][d] \in Seq(Frame)  BY <1>1
  <2>2. \A d \in Server : Append(wire[s][d], f) \in Seq(Frame)  BY <2>1, Appended
  <2> QED  BY <2>1, <2>2
<1>3. wire' = [wire EXCEPT ![s] = sent]  BY DEF Emit
<1>4. /\ wire' \in [Server -> [Server -> Seq(Frame)]] /\ wire'[s] = sent
      /\ \A r \in Server : r # s => wire'[r] = wire[r]
  <2> HIDE DEF sent, s
  <2> QED  BY <1>1, <1>2, <1>3
<1>5. \A r, d \in Server : wire'[r][d] = IF r = s /\ d # s /\ watchers[d].there
                                         THEN Append(wire[r][d], f) ELSE wire[r][d]
  <2> SUFFICES ASSUME NEW r \in Server, NEW d \in Server
               PROVE  wire'[r][d] = IF r = s /\ d # s /\ watchers[d].there
                                    THEN Append(wire[r][d], f) ELSE wire[r][d]
    OBVIOUS
  <2>1. CASE r = s
    <3>1. wire'[r][d] = sent[d]  BY <1>4, <2>1
    <3> QED  BY <2>1, <3>1
  <2>2. CASE r # s
    <3>1. wire'[r][d] = wire[r][d]  BY <1>4, <2>2
    <3> QED  BY <2>2, <3>1
  <2> QED  BY <2>1, <2>2
<1>6. CASE turn[t].own
  <2>1. watchers' = [watchers EXCEPT ![s] = Deliver(watchers[s], f)]  BY <1>6 DEF Emit
  <2>2. Deliver(watchers[s], f) \in Entry /\ Deliver(watchers[s], f).there = watchers[s].there
    BY <1>1, Delivers
  <2>3. /\ watchers' \in [Server -> Entry] /\ watchers'[s] = Deliver(watchers[s], f)
        /\ \A d \in Server : d # s => watchers'[d] = watchers[d]
    <3> HIDE DEF s
    <3> QED  BY <1>1, <2>1, <2>2
  <2> QED  BY <1>4, <1>5, <1>6, <2>2, <2>3
<1>7. CASE ~turn[t].own
  <2>1. watchers' = watchers  BY <1>7 DEF Emit
  <2> QED  BY <1>1, <1>4, <1>5, <1>7, <2>1
<1> QED  BY <1>6, <1>7

\* The frame at the head of a queue leaves it.
Dequeues(s, d) == wire' = [wire EXCEPT ![s][d] = Tail(@)]

LEMMA Tails ==
  ASSUME Typed, NEW s \in Server, NEW d \in Server, wire[s][d] # <<>>,
         Dequeues(s, d)
  PROVE  /\ wire' \in [Server -> [Server -> Seq(Frame)]]
         /\ wire'[s][d] = Tail(wire[s][d])
         /\ \A r, c \in Server : (r # s \/ c # d) => wire'[r][c] = wire[r][c]
<1>1. wire \in [Server -> [Server -> Seq(Frame)]]  BY DEF Typed
<1>2. wire' = [wire EXCEPT ![s] = [wire[s] EXCEPT ![d] = Tail(wire[s][d])]]  BY DEF Dequeues
<1>3. wire[s] \in [Server -> Seq(Frame)] /\ wire[s][d] \in Seq(Frame)  BY <1>1
<1>4. Tail(wire[s][d]) \in Seq(Frame)  BY <1>3, Dequeued
<1>5. [wire[s] EXCEPT ![d] = Tail(wire[s][d])] \in [Server -> Seq(Frame)]
  BY <1>3, <1>4
<1> QED  BY <1>1, <1>2, <1>3, <1>5

-----------------------------------------------------------------------------
(* Shown turns are let go                                                   *)

LEMMA FramesInitially == ASSUME Init PROVE FInv
<1>1. <<>> \in Seq(Frame) /\ DOMAIN <<>> = {}  BY EmptySeq
<1>2. Typed
  <2>1. wire \in [Server -> [Server -> Seq(Frame)]]  BY <1>1 DEF Init
  <2> QED  BY <2>1 DEF Init, Typed, TurnState, Entry, NoTurn, NoEntry, Stages
<1>3. AbsentQuiet  BY DEF Init, AbsentQuiet
<1>4. TurnsSound  BY DEF Init, TurnsSound, TurnSound, NoTurn
<1>5. QueuesSound  BY <1>1 DEF Init, QueuesSound, QueueSound
<1>6. ShownDue  BY DEF Init, ShownDue, NoEntry
<1> QED  BY <1>2, <1>3, <1>4, <1>5, <1>6 DEF FInv

\* Nothing is sent or heard, and the turns that show go on.
LEMMA TurnsMove ==
  ASSUME FInv, Typed', TurnsSound', UNCHANGED <<watchers, wire, lost>>,
         \A t \in Turn : Shows(t) => /\ Shows(t)'
                                     /\ turn'[t].at = turn[t].at /\ turn'[t].own = turn[t].own
  PROVE  FInv'
<1>1. AbsentQuiet'  BY DEF FInv, AbsentQuiet
<1>2. QueuesSound'
  <2> SUFFICES ASSUME NEW r \in Server, NEW d \in Server, NEW i \in DOMAIN wire[r][d],
                      wire[r][d][i].kind = "streaming"
               PROVE  Due(wire[r][d], wire[r][d][i].turn, i, r, d)'
    BY DEF QueuesSound, QueueSound
  <2>1. Due(wire[r][d], wire[r][d][i].turn, i, r, d)  BY DEF FInv, QueuesSound, QueueSound
  <2>2. wire[r][d][i].turn \in Turn
    <3>1. wire[r][d] \in Seq(Frame)  BY DEF FInv, Typed
    <3> QED  BY <3>1, Queues DEF Frame
  <2> QED  BY <2>1, <2>2 DEF Due
<1>3. ShownDue'
  <2> SUFFICES ASSUME NEW s \in Server, watchers[s].showing # 0
               PROVE  watchers[s].showing \in Turn /\ LetGoDue(s, watchers[s].showing)'
    BY DEF ShownDue
  <2>1. watchers[s].showing \in Turn /\ LetGoDue(s, watchers[s].showing)  BY DEF FInv, ShownDue
  <2> QED  BY <2>1 DEF LetGoDue
<1> QED  BY <1>1, <1>2, <1>3 DEF FInv

LEMMA LoadKeeps == ASSUME FInv, NEW s \in Server, Load(s) PROVE FInv'
<1> DEFINE t == row.token + 1
           r == [pc |-> "loaded", at |-> s, number |-> row.turns, own |-> TRUE]
<1>1. /\ watchers[s].there /\ t \in Turn /\ row' = [row EXCEPT !.token = t]
      /\ turn' = [turn EXCEPT ![t] = r]
      /\ UNCHANGED <<watchers, wire, recorded, lost>>
  BY DEF Load
<1>2. row \in [token : Nat, turns : Nat] /\ turn \in [Turn -> TurnState]  BY DEF FInv, Typed
<1>3. r \in TurnState  BY <1>2 DEF TurnState, Stages
<1>4. t \in Nat /\ t > row.token  BY <1>2
<1>5. row'.token = t /\ row' \in [token : Nat, turns : Nat]  BY <1>1, <1>2, <1>4
<1>6. r.pc = "loaded" /\ r.at = s  OBVIOUS
<1> HIDE DEF r
<1>7. /\ turn' \in [Turn -> TurnState] /\ turn'[t] = r
      /\ \A u \in Turn : u # t => turn'[u] = turn[u]
  BY <1>1, <1>2, <1>3
<1>8. Typed'  BY <1>1, <1>5, <1>7 DEF FInv, Typed
<1>9. turn[t].pc = "no"  BY <1>1, <1>4 DEF FInv, TurnsSound, TurnSound
<1>10. TurnsSound'
  <2> SUFFICES ASSUME NEW u \in Turn  PROVE TurnSound(u)'
    BY DEF TurnsSound
  <2>1. TurnSound(u) /\ u \in Nat  BY DEF FInv, TurnsSound, Turn
  <2>2. CASE u = t  BY <1>1, <1>4, <1>5, <1>6, <1>7, <2>2 DEF TurnSound
  <2>3. CASE u # t
    <3>1. turn'[u] = turn[u]  BY <1>7, <2>3
    <3>2. u > row'.token => u > row.token  BY <1>2, <1>4, <1>5, <2>1
    <3> QED  BY <1>1, <2>1, <3>1, <3>2 DEF TurnSound
  <2> QED  BY <2>2, <2>3
<1>11. \A u \in Turn : Shows(u) => /\ Shows(u)'
                                   /\ turn'[u].at = turn[u].at /\ turn'[u].own = turn[u].own
  BY <1>7, <1>9 DEF Shows
<1> QED  BY <1>1, <1>8, <1>10, <1>11, TurnsMove

LEMMA OverTyped ==
  /\ Over \in TurnState /\ Over.pc = "over" /\ Over.at = None /\ ~Over.own
BY DEF Over, NoTurn, TurnState, Stages

LEMMA NoWakeKeeps == ASSUME FInv, NEW t \in Turn, NoWake(t) PROVE FInv'
<1>1. /\ turn[t].pc = "loaded" /\ turn' = [turn EXCEPT ![t] = Over]
      /\ UNCHANGED <<row, watchers, wire, recorded, lost>>
  BY DEF NoWake, At
<1>2. turn \in [Turn -> TurnState]  BY DEF FInv, Typed
<1>3. /\ turn' \in [Turn -> TurnState] /\ turn'[t] = Over
      /\ \A u \in Turn : u # t => turn'[u] = turn[u]
  BY <1>1, <1>2, OverTyped
<1>4. Typed'  BY <1>1, <1>3 DEF FInv, Typed
<1>5. TurnsSound'
  <2> SUFFICES ASSUME NEW u \in Turn  PROVE TurnSound(u)'
    BY DEF TurnsSound
  <2>1. TurnSound(u)  BY DEF FInv, TurnsSound
  <2>2. CASE u = t  BY <1>1, <1>3, <2>1, <2>2, OverTyped DEF TurnSound
  <2>3. CASE u # t  BY <1>1, <1>3, <2>1, <2>3 DEF TurnSound
  <2> QED  BY <2>2, <2>3
<1>6. \A u \in Turn : Shows(u) => /\ Shows(u)'
                                  /\ turn'[u].at = turn[u].at /\ turn'[u].own = turn[u].own
  BY <1>1, <1>3 DEF Shows
<1> QED  BY <1>1, <1>4, <1>5, <1>6, TurnsMove

\* A turn's next stage: its server, its number and its entry stay.
LEMMA Stepped ==
  ASSUME Typed, NEW t \in Turn, NEW stage \in Stages, Step(t, stage)
  PROVE  /\ turn' \in [Turn -> TurnState]
         /\ turn'[t].pc = stage /\ turn'[t].at = turn[t].at
         /\ turn'[t].own = turn[t].own /\ turn'[t].number = turn[t].number
         /\ \A u \in Turn : u # t => turn'[u] = turn[u]
<1> DEFINE r == [turn[t] EXCEPT !.pc = stage]
<1>1. turn \in [Turn -> TurnState] /\ turn' = [turn EXCEPT ![t] = r]
  BY DEF Typed, Step
<1>2. /\ r \in TurnState /\ r.pc = stage /\ r.at = turn[t].at /\ r.own = turn[t].own
      /\ r.number = turn[t].number
  BY <1>1 DEF TurnState
<1> HIDE DEF r
<1> QED  BY <1>1, <1>2

\* What a turn saves leaves the token.
LEMMA SavedTyped ==
  ASSUME Typed, NEW t \in Turn, row' = row \/ row' = Saved(turn[t].number)
  PROVE  row' \in [token : Nat, turns : Nat] /\ row'.token = row.token
<1>1. row \in [token : Nat, turns : Nat] /\ turn[t].number \in Nat  BY DEF Typed, TurnState
<1> QED  BY <1>1 DEF Saved

\* A turn under way moves on among its stages.
LEMMA StagesSound ==
  ASSUME FInv, NEW t \in Turn, turn[t].pc \in {"loaded", "commit", "started"},
         turn'[t].pc \in {"loaded", "commit", "started"},
         turn'[t].at = turn[t].at, turn'[t].own = turn[t].own,
         \A u \in Turn : u # t => turn'[u] = turn[u],
         row'.token = row.token, \A d \in Server : watchers'[d].there = watchers[d].there
  PROVE  TurnsSound'
<1> SUFFICES ASSUME NEW u \in Turn  PROVE TurnSound(u)'
  BY DEF TurnsSound
<1>1. TurnSound(u) /\ TurnSound(t)  BY DEF FInv, TurnsSound
<1>2. turn[u].own => turn[u].at \in Server
  <2>1. turn[u].pc \in Stages  BY DEF FInv, Typed, TurnState
  <2> QED  BY <1>1, <2>1 DEF TurnSound, Stages
<1>3. CASE u = t  BY <1>1, <1>2, <1>3 DEF TurnSound
<1>4. CASE u # t  BY <1>1, <1>2, <1>4 DEF TurnSound
<1> QED  BY <1>3, <1>4

LEMMA CommitFailsKeeps == ASSUME FInv, NEW t \in Turn, CommitFails(t) PROVE FInv'
<1>1. /\ turn[t].pc = "commit" /\ Step(t, "started")
      /\ row' = row \/ row' = Saved(turn[t].number)
      /\ recorded' \subseteq recorded \union {t}
      /\ UNCHANGED <<watchers, wire, lost>>
  BY DEF CommitFails, At
<1>2. Typed  BY DEF FInv
<1>3. /\ turn' \in [Turn -> TurnState]
      /\ turn'[t].pc = "started" /\ turn'[t].at = turn[t].at /\ turn'[t].own = turn[t].own
      /\ \A u \in Turn : u # t => turn'[u] = turn[u]
  <2>1. "started" \in Stages  BY DEF Stages
  <2> QED  BY <1>1, <1>2, <2>1, Stepped
<1>4. row' \in [token : Nat, turns : Nat] /\ row'.token = row.token
  BY <1>1, <1>2, SavedTyped
<1>5. Typed'  BY <1>1, <1>2, <1>3, <1>4 DEF Typed
<1>6. TurnsSound'
  <2>1. \A d \in Server : watchers'[d].there = watchers[d].there  BY <1>1
  <2> QED  BY <1>1, <1>3, <1>4, <2>1, StagesSound
<1>7. \A u \in Turn : Shows(u) => /\ Shows(u)'
                                  /\ turn'[u].at = turn[u].at /\ turn'[u].own = turn[u].own
  BY <1>1, <1>3 DEF Shows
<1> QED  BY <1>1, <1>5, <1>6, <1>7, TurnsMove

LEMMA FramesStutter == ASSUME FInv, UNCHANGED vars PROVE FInv'
<1>1. UNCHANGED <<row, turn, watchers, wire, recorded, lost>>  BY DEF vars
<1>2. Typed'  BY <1>1 DEF FInv, Typed
<1>3. TurnsSound'  BY <1>1 DEF FInv, TurnsSound, TurnSound
<1>4. \A u \in Turn : Shows(u) => /\ Shows(u)'
                                  /\ turn'[u].at = turn[u].at /\ turn'[u].own = turn[u].own
  BY <1>1 DEF Shows
<1> QED  BY <1>1, <1>2, <1>3, <1>4, TurnsMove

\* An emitted frame goes behind what is on its way, to servers that are there.
LEMMA EmitKeepsQuiet ==
  ASSUME FInv, NEW t \in Turn, turn[t].at \in Server, turn[t].own => watchers[turn[t].at].there,
         NEW f \in Frame, Emit(t, f)
  PROVE  /\ AbsentQuiet'
         /\ \A r, d \in Server, u, i \in Nat :
              ReleasedIn(wire[r][d], u, i) => ReleasedIn(wire'[r][d], u, i)
<1> DEFINE s == turn[t].at
<1>1. /\ \A d \in Server : watchers'[d].there = watchers[d].there
      /\ \A d \in Server : d # s \/ ~turn[t].own => watchers'[d] = watchers[d]
      /\ \A r, d \in Server :
           wire'[r][d] = IF r = s /\ d # s /\ watchers[d].there
                         THEN Append(wire[r][d], f) ELSE wire[r][d]
  BY Emits DEF FInv
<1>2. \A r, d \in Server : wire[r][d] \in Seq(Frame)  BY DEF FInv, Typed
<1>3. AbsentQuiet'
  <2>1. ASSUME NEW d \in Server, ~watchers'[d].there
        PROVE  watchers'[d] = NoEntry /\ \A r \in Server : wire'[r][d] = <<>>
    BY <1>1, <2>1 DEF FInv, AbsentQuiet
  <2>2. \A d \in Server : wire'[d][d] = <<>>  BY <1>1 DEF FInv, AbsentQuiet
  <2> QED  BY <2>1, <2>2 DEF AbsentQuiet
<1>4. ASSUME NEW r \in Server, NEW d \in Server, NEW u \in Nat, NEW i \in Nat,
             ReleasedIn(wire[r][d], u, i)
      PROVE  ReleasedIn(wire'[r][d], u, i)
  <2>1. CASE wire'[r][d] = wire[r][d]  BY <1>4, <2>1
  <2>2. CASE wire'[r][d] = Append(wire[r][d], f)  BY <1>2, <1>4, <2>2, AppendedIn
  <2>3. wire'[r][d] = IF r = s /\ d # s /\ watchers[d].there
                      THEN Append(wire[r][d], f) ELSE wire[r][d]
    BY <1>1, Zenon
  <2> QED  BY <2>1, <2>2, <2>3
<1> QED  BY <1>3, <1>4

\* A turn says that it streams.
LEMMA StreamingSaid ==
  ASSUME FInv, NEW t \in Turn, turn[t].pc \in {"loaded", "commit"},
         turn' \in [Turn -> TurnState], turn'[t].pc \in {"commit", "started"},
         turn'[t].at = turn[t].at, turn'[t].own = turn[t].own,
         \A u \in Turn : u # t => turn'[u] = turn[u],
         NEW f \in Frame, f.kind = "streaming", f.turn = t, Emit(t, f),
         row' \in [token : Nat, turns : Nat], row'.token = row.token,
         recorded' \subseteq Turn, lost' = lost
  PROVE  FInv'
<1> DEFINE s == turn[t].at
<1>1. TurnSound(t)  BY DEF FInv, TurnsSound
<1>2. s \in Server /\ (turn[t].own => watchers[s].there)  BY <1>1 DEF TurnSound
<1>3. /\ watchers' \in [Server -> Entry] /\ wire' \in [Server -> [Server -> Seq(Frame)]]
      /\ \A d \in Server : watchers'[d].there = watchers[d].there
      /\ \A d \in Server : d # s \/ ~turn[t].own => watchers'[d] = watchers[d]
      /\ turn[t].own => watchers'[s] = Deliver(watchers[s], f)
      /\ \A r, d \in Server :
           wire'[r][d] = IF r = s /\ d # s /\ watchers[d].there
                         THEN Append(wire[r][d], f) ELSE wire[r][d]
  BY <1>2, Emits DEF FInv
<1>4. /\ AbsentQuiet'
      /\ \A r, d \in Server, u, i \in Nat :
           ReleasedIn(wire[r][d], u, i) => ReleasedIn(wire'[r][d], u, i)
  BY <1>2, EmitKeepsQuiet
<1>5. Typed'  BY <1>3 DEF Typed
<1>6. TurnsSound'  BY <1>3, StagesSound
<1>7. \A u \in Turn : u \in Nat /\ (Shows(u) => Shows(u)' /\ turn'[u].at = turn[u].at
                                               /\ turn'[u].own = turn[u].own)
  BY DEF Shows, Turn
<1>8. Shows(t)'  BY DEF Shows
<1>9. QueuesSound'
  <2> SUFFICES ASSUME NEW r \in Server, NEW d \in Server, NEW i \in DOMAIN wire'[r][d],
                      wire'[r][d][i].kind = "streaming"
               PROVE  Due(wire[r][d], wire[r][d][i].turn, i, r, d)'
    BY DEF QueuesSound, QueueSound
  <2> DEFINE q == wire[r][d]
  <2>1. q \in Seq(Frame) /\ DOMAIN q = 1 .. Len(q) /\ Len(q) \in Nat
        /\ \A j \in DOMAIN q : q[j] \in Frame
    <3>1. q \in Seq(Frame)  BY DEF FInv, Typed
    <3> HIDE DEF q
    <3> QED  BY <3>1, Queues
  <2>2. CASE i \in DOMAIN q /\ wire'[r][d][i] = q[i]
    <3>1. Due(q, q[i].turn, i, r, d)  BY <2>2 DEF FInv, QueuesSound, QueueSound
    <3>2. q[i].turn \in Turn /\ i \in Nat  BY <2>1, <2>2 DEF Frame
    <3> QED  BY <1>4, <1>7, <2>2, <3>1, <3>2 DEF Due
  <2>3. CASE r = s /\ wire'[r][d][i] = f
    BY <1>8, <2>3 DEF Due
  <2>4. (i \in DOMAIN q /\ wire'[r][d][i] = q[i]) \/ (r = s /\ wire'[r][d][i] = f)
    <3>1. CASE wire'[r][d] = q  BY <3>1
    <3>2. CASE r = s /\ wire'[r][d] = Append(q, f)
      <4>1. /\ DOMAIN Append(q, f) = 1 .. Len(q) + 1
            /\ \A j \in DOMAIN q : Append(q, f)[j] = q[j]
            /\ Append(q, f)[Len(q) + 1] = f
        BY <2>1, Appended
      <4>2. i \in 1 .. Len(q) + 1  BY <3>2, <4>1
      <4>3. DOMAIN q = 1 .. Len(q) /\ Len(q) \in Nat  BY <2>1
      <4> HIDE DEF q
      <4>4. i \in DOMAIN q \/ i = Len(q) + 1  BY <4>2, <4>3
      <4> QED  BY <3>2, <4>1, <4>4
    <3> QED  BY <1>3, <3>1, <3>2
  <2> QED  BY <2>2, <2>3, <2>4
<1>10. ShownDue'
  <2> SUFFICES ASSUME NEW d \in Server, watchers'[d].showing # 0
               PROVE  watchers'[d].showing \in Turn /\ LetGoDue(d, watchers[d].showing)'
    BY DEF ShownDue
  <2>1. CASE watchers'[d].showing = watchers[d].showing
    <3>1. watchers[d].showing \in Turn /\ LetGoDue(d, watchers[d].showing)
      BY <2>1 DEF FInv, ShownDue
    <3> QED  BY <1>4, <1>7, <2>1, <3>1 DEF LetGoDue
  <2>2. CASE d = s /\ turn[t].own /\ watchers'[d].showing = t
    BY <1>8, <2>2 DEF LetGoDue
  <2>3. (d = s /\ turn[t].own /\ watchers'[d].showing = t)
        \/ watchers'[d].showing = watchers[d].showing
    <3>1. CASE d = s /\ turn[t].own
      <4>1. watchers[d] \in Entry  BY DEF FInv, Typed
      <4>2. watchers'[d] = Deliver(watchers[d], f)  BY <1>3, <3>1
      <4> QED  BY <3>1, <4>1, <4>2, Delivers
    <3>2. CASE d # s \/ ~turn[t].own  BY <1>3, <3>2
    <3> QED  BY <3>1, <3>2
  <2> QED  BY <2>1, <2>2, <2>3
<1> QED  BY <1>4, <1>5, <1>6, <1>9, <1>10 DEF FInv

LEMMA StartKeeps == ASSUME FInv, NEW t \in Turn, Start(t) PROVE FInv'
<1> DEFINE f == Streaming(t, turn[t].number + 1)
           r == [turn[t] EXCEPT !.pc = "commit", !.number = turn[t].number + 1]
<1>1. /\ turn[t].pc = "loaded" /\ Emit(t, f) /\ UNCHANGED <<row, recorded, lost>>
  BY DEF Start, At
<1>2. turn \in [Turn -> TurnState] /\ turn[t].number + 1 \in Nat  BY DEF FInv, Typed, TurnState
<1>3. /\ r \in TurnState /\ r.pc = "commit" /\ r.at = turn[t].at /\ r.own = turn[t].own
  BY <1>2 DEF TurnState, Stages
<1>4. turn' = [turn EXCEPT ![t] = r]  BY <1>2 DEF Start
<1>5. f \in Frame /\ f.kind = "streaming" /\ f.turn = t
  BY <1>2 DEF Streaming, Frame, Kinds
<1> HIDE DEF r, f
<1>6. /\ turn' \in [Turn -> TurnState] /\ turn'[t] = r
      /\ \A u \in Turn : u # t => turn'[u] = turn[u]
  BY <1>2, <1>3, <1>4
<1>7. row' \in [token : Nat, turns : Nat] /\ row'.token = row.token /\ recorded' \subseteq Turn
  BY <1>1 DEF FInv, Typed
<1> QED  BY <1>1, <1>3, <1>5, <1>6, <1>7, StreamingSaid

LEMMA CommitLandsKeeps == ASSUME FInv, NEW t \in Turn, CommitLands(t) PROVE FInv'
<1> DEFINE f == Streaming(t, turn[t].number)
<1>1. /\ turn[t].pc = "commit" /\ Emit(t, f) /\ Step(t, "started")
      /\ row' = Saved(turn[t].number) /\ recorded' = recorded \union {t} /\ lost' = lost
  BY DEF CommitLands, At
<1>2. Typed  BY DEF FInv
<1>3. /\ turn' \in [Turn -> TurnState]
      /\ turn'[t].pc = "started" /\ turn'[t].at = turn[t].at /\ turn'[t].own = turn[t].own
      /\ \A u \in Turn : u # t => turn'[u] = turn[u]
  <2>1. "started" \in Stages  BY DEF Stages
  <2> QED  BY <1>1, <1>2, <2>1, Stepped
<1>4. row' \in [token : Nat, turns : Nat] /\ row'.token = row.token
  BY <1>1, <1>2, SavedTyped
<1>5. f \in Frame /\ f.kind = "streaming" /\ f.turn = t
  BY <1>2 DEF Streaming, Frame, Kinds, Typed, TurnState
<1>6. recorded' \subseteq Turn  BY <1>1, <1>2 DEF Typed
<1> HIDE DEF f
<1> QED  BY <1>1, <1>3, <1>4, <1>5, <1>6, StreamingSaid

\* A turn's last frame goes to every server that may still have a `streaming` of
\* it, shown or on its way.
LEMMA ReleaseKeeps == ASSUME FInv, NEW t \in Turn, Release(t) PROVE FInv'
<1> DEFINE s == turn[t].at
           f == Released(t)
<1>1. /\ turn[t].pc = "started" /\ turn' = [turn EXCEPT ![t] = Over] /\ lost' = lost
      /\ row' = row \/ row' = Saved(turn[t].number)
      /\ recorded' \subseteq recorded \union {t}
      /\ Emit(t, f)
  BY DEF Release, At, LetsGo, NumberKept
<1>2. TurnSound(t) /\ Typed  BY DEF FInv, TurnsSound
<1>3. s \in Server /\ (turn[t].own => watchers[s].there)  BY <1>1, <1>2 DEF TurnSound
<1>4. f \in Frame /\ f.kind = "released" /\ f.turn = t
  BY <1>2 DEF Released, Frame, Kinds, Typed, TurnState
<1> HIDE DEF f
<1>5. /\ watchers' \in [Server -> Entry] /\ wire' \in [Server -> [Server -> Seq(Frame)]]
      /\ \A d \in Server : watchers'[d].there = watchers[d].there
      /\ \A d \in Server : d # s \/ ~turn[t].own => watchers'[d] = watchers[d]
      /\ turn[t].own => watchers'[s] = Deliver(watchers[s], f)
      /\ \A r, d \in Server :
           wire'[r][d] = IF r = s /\ d # s /\ watchers[d].there
                         THEN Append(wire[r][d], f) ELSE wire[r][d]
  BY <1>1, <1>2, <1>3, <1>4, Emits
<1>6. /\ AbsentQuiet'
      /\ \A r, d \in Server, u, i \in Nat :
           ReleasedIn(wire[r][d], u, i) => ReleasedIn(wire'[r][d], u, i)
  BY <1>1, <1>3, <1>4, EmitKeepsQuiet
<1>7. /\ turn' \in [Turn -> TurnState] /\ turn'[t] = Over
      /\ \A u \in Turn : u # t => turn'[u] = turn[u]
  BY <1>1, <1>2, OverTyped DEF Typed
<1>8. row' \in [token : Nat, turns : Nat] /\ row'.token = row.token
  BY <1>1, <1>2, SavedTyped
<1>9. Typed'  BY <1>1, <1>2, <1>5, <1>7, <1>8 DEF Typed
<1>10. TurnsSound'
  <2> SUFFICES ASSUME NEW u \in Turn  PROVE TurnSound(u)'
    BY DEF TurnsSound
  <2>1. TurnSound(u)  BY DEF FInv, TurnsSound
  <2>2. CASE u = t  BY <1>1, <1>7, <1>8, <2>1, <2>2, OverTyped DEF TurnSound
  <2>3. CASE u # t
    <3>1. turn[u].own => turn[u].at \in Server
      <4>1. turn[u].pc \in Stages  BY <1>2 DEF Typed, TurnState
      <4> QED  BY <2>1, <4>1 DEF TurnSound, Stages
    <3> QED  BY <1>5, <1>7, <1>8, <2>1, <2>3, <3>1 DEF TurnSound
  <2> QED  BY <2>2, <2>3
<1>11. \A u \in Turn : u \in Nat /\ (u # t /\ Shows(u) =>
          Shows(u)' /\ turn'[u].at = turn[u].at /\ turn'[u].own = turn[u].own)
  BY <1>7 DEF Shows, Turn
\* Whoever is there is sent the end of t, behind all it was sent of it.
<1>12. ASSUME NEW d \in Server, d # s, watchers[d].there, NEW i \in Nat, i <= Len(wire[s][d])
       PROVE  ReleasedIn(wire'[s][d], t, i)
  <2>1. wire[s][d] \in Seq(Frame)  BY <1>2, <1>3 DEF Typed
  <2>2. wire'[s][d] = Append(wire[s][d], f)  BY <1>3, <1>5, <1>12
  <2>3. ReleasedIn(Append(wire[s][d], f), t, i)  BY <1>4, <1>12, <2>1, AppendedIn
  <2> QED  BY <2>2, <2>3
<1>13. QueuesSound'
  <2> SUFFICES ASSUME NEW r \in Server, NEW d \in Server, NEW i \in DOMAIN wire'[r][d],
                      wire'[r][d][i].kind = "streaming"
               PROVE  Due(wire[r][d], wire[r][d][i].turn, i, r, d)'
    BY DEF QueuesSound, QueueSound
  <2> DEFINE q == wire[r][d]
  <2>1. /\ q \in Seq(Frame) /\ DOMAIN q = 1 .. Len(q) /\ Len(q) \in Nat
        /\ \A j \in DOMAIN q : q[j] \in Frame
        /\ q # <<>> <=> Len(q) > 0
    <3>1. q \in Seq(Frame)  BY <1>2 DEF Typed
    <3> HIDE DEF q
    <3> QED  BY <3>1, Queues
  <2>2. i \in DOMAIN q /\ wire'[r][d][i] = q[i]
    <3>1. CASE wire'[r][d] = q  BY <3>1
    <3>2. CASE wire'[r][d] = Append(q, f)
      <4>1. /\ DOMAIN Append(q, f) = 1 .. Len(q) + 1
            /\ \A j \in DOMAIN q : Append(q, f)[j] = q[j]
            /\ Append(q, f)[Len(q) + 1] = f
        BY <1>4, <2>1, Appended
      <4>2. i \in 1 .. Len(q) + 1  BY <3>2, <4>1
      <4>3. DOMAIN q = 1 .. Len(q) /\ Len(q) \in Nat  BY <2>1
      <4> HIDE DEF q
      <4>4. i \in DOMAIN q \/ i = Len(q) + 1  BY <4>2, <4>3
      <4> QED  BY <1>4, <3>2, <4>1, <4>4
    <3> QED  BY <1>5, <3>1, <3>2
  <2>3. Due(q, q[i].turn, i, r, d)  BY <2>2 DEF FInv, QueuesSound, QueueSound
  <2>4. q[i].turn \in Turn /\ i \in Nat  BY <2>1, <2>2 DEF Frame
  <2>5. CASE ReleasedIn(q, q[i].turn, i) \/ <<q[i].turn, d>> \in lost \/ q[i].turn # t
    BY <1>1, <1>6, <1>11, <2>2, <2>3, <2>4, <2>5 DEF Due
  <2>6. CASE q[i].turn = t /\ turn[t].at = r
    <3>1. q # <<>>
      <4>1. i \in 1 .. Len(q)  BY <2>1, <2>2
      <4>2. Len(q) > 0  BY <2>1, <4>1
      <4> QED  BY <2>1, <4>2
    <3>2. d # s /\ watchers[d].there  BY <2>6, <3>1 DEF FInv, AbsentQuiet
    <3>3. i <= Len(q)
      <4>1. i \in 1 .. Len(q)  BY <2>1, <2>2
      <4> QED  BY <4>1
    <3>4. ReleasedIn(wire'[r][d], t, i)  BY <1>12, <2>4, <2>6, <3>2, <3>3
    <3> QED  BY <2>2, <2>6, <3>4 DEF Due
  <2> QED  BY <2>3, <2>5, <2>6 DEF Due
<1>14. ShownDue'
  <2> SUFFICES ASSUME NEW d \in Server, watchers'[d].showing # 0
               PROVE  watchers'[d].showing \in Turn /\ LetGoDue(d, watchers[d].showing)'
    BY DEF ShownDue
  <2>1. /\ watchers'[d].showing = watchers[d].showing
        /\ d = s /\ turn[t].own => watchers'[d].showing # t
    <3>1. CASE d = s /\ turn[t].own
      <4>1. watchers[d] \in Entry  BY <1>2 DEF Typed
      <4>2. watchers'[d] = Deliver(watchers[d], f)  BY <1>5, <3>1
      <4> QED  BY <1>4, <4>1, <4>2, Delivers
    <3>2. CASE ~(d = s /\ turn[t].own)  BY <1>5, <3>2
    <3> QED  BY <3>1, <3>2
  <2>2. watchers[d].showing \in Turn /\ LetGoDue(d, watchers[d].showing)
    BY <2>1 DEF FInv, ShownDue
  <2>3. CASE watchers[d].showing # t
    BY <1>1, <1>6, <1>11, <2>1, <2>2, <2>3 DEF LetGoDue
  <2>4. CASE watchers[d].showing = t /\ d # s
    <3>1. watchers[d].there  BY <2>1 DEF FInv, AbsentQuiet, NoEntry
    <3>2. 0 \in Nat /\ 0 <= Len(wire[s][d])
      <4>1. wire[s][d] \in Seq(Frame)  BY <1>2, <1>3 DEF Typed
      <4>2. Len(wire[s][d]) \in Nat  BY <4>1, Queues
      <4> QED  BY <4>2
    <3>3. ReleasedIn(wire'[s][d], t, 0)  BY <1>12, <2>4, <3>1, <3>2
    <3> QED  BY <1>3, <2>1, <2>2, <2>4, <3>3 DEF LetGoDue
  <2>5. CASE watchers[d].showing = t /\ d = s
    <3>1. ~turn[t].own  BY <2>1, <2>5
    <3> QED  BY <1>1, <1>6, <2>1, <2>2, <2>5, <3>1, <1>11 DEF LetGoDue
  <2> QED  BY <2>3, <2>4, <2>5
<1> QED  BY <1>6, <1>9, <1>10, <1>13, <1>14 DEF FInv

\* A frame is heard, or lost: what is behind it is due as before.
LEMMA HeadGone ==
  ASSUME FInv, NEW s \in Server, NEW d \in Server, wire[s][d] # <<>>,
         Dequeues(s, d), turn' = turn, lost \subseteq lost'
  PROVE  /\ QueuesSound' /\ s # d /\ watchers[d].there
         /\ \A c \in Server : wire'[c][c] = <<>>
         /\ \A r, c \in Server, u \in Nat :
              ReleasedIn(wire[r][c], u, 0)
                /\ ~(r = s /\ c = d /\ Head(wire[s][d]).kind = "released"
                     /\ Head(wire[s][d]).turn = u)
              => ReleasedIn(wire'[r][c], u, 0)
<1> DEFINE q == wire[s][d]
<1>1. /\ wire' \in [Server -> [Server -> Seq(Frame)]]
      /\ wire'[s][d] = Tail(q)
      /\ \A r, c \in Server : (r # s \/ c # d) => wire'[r][c] = wire[r][c]
  <2>1. Typed  BY DEF FInv
  <2> QED  BY <2>1, Tails
<1>2. s # d /\ watchers[d].there  BY DEF FInv, AbsentQuiet
<1>3. \A c \in Server : wire'[c][c] = <<>>  BY <1>1, <1>2 DEF FInv, AbsentQuiet
<1>4. q \in Seq(Frame) /\ q # <<>>  BY DEF FInv, Typed
<1>5. QueuesSound'
  <2> SUFFICES ASSUME NEW r \in Server, NEW c \in Server, NEW i \in DOMAIN wire'[r][c],
                      wire'[r][c][i].kind = "streaming"
               PROVE  Due(wire[r][c], wire[r][c][i].turn, i, r, c)'
    BY DEF QueuesSound, QueueSound
  <2>1. CASE (r # s \/ c # d)
    <3>1. wire'[r][c] = wire[r][c]  BY <1>1, <2>1
    <3>2. Due(wire[r][c], wire[r][c][i].turn, i, r, c)
      BY <3>1 DEF FInv, QueuesSound, QueueSound
    <3> QED  BY <3>1, <3>2 DEF Due, Shows
  <2>2. CASE r = s /\ c = d
    <3>1. i \in DOMAIN Tail(q) /\ wire'[r][c][i] = Tail(q)[i]  BY <1>1, <2>2
    <3>2. i \in Nat /\ i + 1 \in DOMAIN q /\ Tail(q)[i] = q[i + 1]
      <4> HIDE DEF q
      <4> QED  BY <1>4, <3>1, Dequeued
    <3>3. Due(q, q[i + 1].turn, i + 1, s, d)
      BY <2>2, <3>1, <3>2 DEF FInv, QueuesSound, QueueSound
    <3>4. ReleasedIn(q, q[i + 1].turn, i + 1) => ReleasedIn(Tail(q), q[i + 1].turn, i)
      <4> HIDE DEF q
      <4> QED  BY <1>4, <3>2, DequeuedIn
    <3> QED  BY <1>1, <2>2, <3>1, <3>2, <3>3, <3>4 DEF Due, Shows
  <2> QED  BY <2>1, <2>2
<1>6. ASSUME NEW r \in Server, NEW c \in Server, NEW u \in Nat, ReleasedIn(wire[r][c], u, 0),
             ~(r = s /\ c = d /\ Head(q).kind = "released" /\ Head(q).turn = u)
      PROVE  ReleasedIn(wire'[r][c], u, 0)
  <2>1. CASE (r # s \/ c # d)
    <3>1. wire'[r][c] = wire[r][c]  BY <1>1, <2>1
    <3> QED  BY <1>6, <3>1
  <2>2. CASE r = s /\ c = d
    <3>1. ReleasedIn(q, u, 0) /\ ~(Head(q).kind = "released" /\ Head(q).turn = u)
      BY <1>6, <2>2
    <3>2. ReleasedIn(Tail(q), u, 0)
      <4> HIDE DEF q
      <4> QED  BY <1>4, <3>1, DequeuedIn
    <3> QED  BY <1>1, <2>2, <3>2
  <2> QED  BY <2>1, <2>2
<1> QED  BY <1>2, <1>3, <1>5, <1>6

LEMMA HearKeeps ==
  ASSUME FInv, NEW s \in Server, NEW d \in Server, Hear(s, d)
  PROVE  FInv'
<1> DEFINE q == wire[s][d]
           f == Head(q)
<1>1. /\ q # <<>> /\ Dequeues(s, d)
      /\ watchers' = [watchers EXCEPT ![d] = Deliver(watchers[d], f)]
      /\ UNCHANGED <<row, turn, recorded, lost>>
  BY DEF Hear, Dequeues
<1>2. Typed  BY DEF FInv
<1>3. /\ wire' \in [Server -> [Server -> Seq(Frame)]]
      /\ wire'[s][d] = Tail(q)
      /\ \A r, c \in Server : (r # s \/ c # d) => wire'[r][c] = wire[r][c]
  BY <1>1, <1>2, Tails
<1>4. /\ QueuesSound' /\ s # d /\ watchers[d].there
      /\ \A c \in Server : wire'[c][c] = <<>>
      /\ \A r, c \in Server, u \in Nat :
           ReleasedIn(wire[r][c], u, 0)
             /\ ~(r = s /\ c = d /\ f.kind = "released" /\ f.turn = u)
           => ReleasedIn(wire'[r][c], u, 0)
  BY <1>1, HeadGone
<1>5. q \in Seq(Frame) /\ watchers \in [Server -> Entry]  BY <1>2 DEF Typed
<1>6. f \in Frame /\ f = q[1] /\ 1 \in DOMAIN q
  <2> HIDE DEF q
  <2> QED  BY <1>1, <1>5, Dequeued
<1>7. f.turn \in Turn /\ f.turn \in Nat  BY <1>6 DEF Frame, Turn
<1> DEFINE w == watchers[d]
<1>8. /\ Deliver(w, f) \in Entry /\ Deliver(w, f).there = w.there
      /\ \/ f.kind = "streaming" /\ Deliver(w, f).showing = f.turn
         \/ /\ Deliver(w, f).showing \in {0, w.showing}
            /\ f.kind = "released" => Deliver(w, f).showing # f.turn
  <2>1. w \in Entry  BY <1>5
  <2> HIDE DEF w, f
  <2> QED  BY <1>6, <2>1, Delivers
<1>9. /\ watchers' \in [Server -> Entry] /\ watchers'[d] = Deliver(w, f)
      /\ \A c \in Server : c # d => watchers'[c] = watchers[c]
  <2> HIDE DEF f
  <2> QED  BY <1>1, <1>5, <1>8
<1>10. \A c \in Server : watchers'[c].there = watchers[c].there  BY <1>8, <1>9
<1>11. Typed'  BY <1>1, <1>2, <1>3, <1>9 DEF Typed
<1>12. AbsentQuiet'
  <2>1. ASSUME NEW c \in Server, ~watchers'[c].there
        PROVE  watchers'[c] = NoEntry /\ \A r \in Server : wire'[r][c] = <<>>
    <3>1. c # d /\ ~watchers[c].there  BY <1>4, <1>10, <2>1
    <3>2. watchers'[c] = watchers[c] /\ \A r \in Server : wire'[r][c] = wire[r][c]
      BY <1>3, <1>9, <3>1
    <3> QED  BY <3>1, <3>2 DEF FInv, AbsentQuiet
  <2> QED  BY <1>4, <2>1 DEF AbsentQuiet
<1>13. TurnsSound'
  <2>1. \A t \in Turn : turn[t].own => turn[t].at \in Server
    BY DEF FInv, TurnsSound, TurnSound, Typed, TurnState, Stages
  <2> QED  BY <1>1, <1>10, <2>1 DEF FInv, TurnsSound, TurnSound
<1>14. ShownDue'
  <2> SUFFICES ASSUME NEW c \in Server, watchers'[c].showing # 0
               PROVE  watchers'[c].showing \in Turn /\ LetGoDue(c, watchers[c].showing)'
    BY DEF ShownDue
  <2>1. CASE /\ watchers'[c].showing = watchers[c].showing
             /\ c = d /\ f.kind = "released" => watchers[c].showing # f.turn
    <3>1. watchers[c].showing \in Turn /\ LetGoDue(c, watchers[c].showing)
      BY <2>1 DEF FInv, ShownDue
    <3>2. watchers[c].showing \in Nat  BY <3>1 DEF Turn
    <3>3. (\E r \in Server : ReleasedIn(wire[r][c], watchers[c].showing, 0))
          => \E r \in Server : ReleasedIn(wire'[r][c], watchers[c].showing, 0)
      BY <1>4, <2>1, <3>2
    <3> QED  BY <1>1, <2>1, <3>1, <3>3 DEF LetGoDue, Shows
  <2>2. CASE c = d /\ f.kind = "streaming" /\ watchers'[c].showing = f.turn
    <3>1. Due(q, f.turn, 1, s, d)  BY <1>6, <2>2 DEF FInv, QueuesSound, QueueSound
    <3>2. ReleasedIn(q, f.turn, 1) => ReleasedIn(Tail(q), f.turn, 0)
      <4>1. 0 \in Nat /\ 0 + 1 = 1  OBVIOUS
      <4> HIDE DEF q
      <4> QED  BY <1>1, <1>5, <4>1, DequeuedIn
    <3>3. CASE Shows(f.turn) /\ turn[f.turn].at = s
      <4>1. turn[f.turn].at # d  BY <1>4, <3>3
      <4> HIDE DEF f
      <4> QED  BY <1>1, <1>7, <2>2, <3>3, <4>1 DEF LetGoDue, Shows
    <3>4. CASE ReleasedIn(q, f.turn, 1)
      <4>1. ReleasedIn(wire'[s][d], f.turn, 0)  BY <1>3, <3>2, <3>4
      <4> HIDE DEF f
      <4> QED  BY <1>7, <2>2, <4>1 DEF LetGoDue
    <3>5. CASE <<f.turn, d>> \in lost
      <4> HIDE DEF f
      <4> QED  BY <1>1, <1>7, <2>2, <3>5 DEF LetGoDue
    <3> QED  BY <3>1, <3>3, <3>4, <3>5 DEF Due
  <2>3. CASE c # d
    <3>1. watchers'[c] = watchers[c]  BY <1>9, <2>3
    <3> QED  BY <2>1, <2>3, <3>1
  <2>4. CASE c = d
    <3>1. watchers'[c].showing = Deliver(w, f).showing /\ w = watchers[c]  BY <1>9, <2>4
    <3> HIDE DEF w, f
    <3>2. \/ f.kind = "streaming" /\ watchers'[c].showing = f.turn
          \/ /\ watchers'[c].showing = watchers[c].showing
             /\ f.kind = "released" => watchers[c].showing # f.turn
      BY <1>8, <3>1
    <3> QED  BY <2>1, <2>2, <2>4, <3>2
  <2> QED  BY <2>3, <2>4
<1> QED  BY <1>4, <1>11, <1>12, <1>13, <1>14 DEF FInv

LEMMA LoseKeeps ==
  ASSUME FInv, NEW s \in Server, NEW d \in Server, Lose(s, d)
  PROVE  FInv'
<1> DEFINE q == wire[s][d]
           f == Head(q)
<1>1. /\ q # <<>> /\ Dequeues(s, d)
      /\ lost' = lost \union {<<f.turn, d>>}
      /\ UNCHANGED <<row, turn, watchers, recorded>>
  BY DEF Lose, Dequeues
<1>2. Typed  BY DEF FInv
<1>3. /\ wire' \in [Server -> [Server -> Seq(Frame)]]
      /\ \A r, c \in Server : (r # s \/ c # d) => wire'[r][c] = wire[r][c]
  BY <1>1, <1>2, Tails
<1>4. /\ QueuesSound' /\ watchers[d].there
      /\ \A c \in Server : wire'[c][c] = <<>>
      /\ \A r, c \in Server, u \in Nat :
           ReleasedIn(wire[r][c], u, 0)
             /\ ~(r = s /\ c = d /\ f.kind = "released" /\ f.turn = u)
           => ReleasedIn(wire'[r][c], u, 0)
  BY <1>1, HeadGone
<1>5. Typed'  BY <1>1, <1>2, <1>3 DEF Typed
<1>6. AbsentQuiet'
  <2>1. ASSUME NEW c \in Server, ~watchers[c].there
        PROVE  watchers[c] = NoEntry /\ \A r \in Server : wire'[r][c] = <<>>
    <3>1. c # d  BY <1>4, <2>1
    <3> QED  BY <1>3, <2>1, <3>1 DEF FInv, AbsentQuiet
  <2> QED  BY <1>1, <1>4, <2>1 DEF AbsentQuiet
<1>7. TurnsSound'  BY <1>1 DEF FInv, TurnsSound, TurnSound
<1>8. ShownDue'
  <2> SUFFICES ASSUME NEW c \in Server, watchers[c].showing # 0
               PROVE  watchers[c].showing \in Turn /\ LetGoDue(c, watchers[c].showing)'
    BY <1>1 DEF ShownDue
  <2>1. watchers[c].showing \in Turn /\ LetGoDue(c, watchers[c].showing)  BY DEF FInv, ShownDue
  <2>2. watchers[c].showing \in Nat  BY <2>1 DEF Turn
  <2>3. CASE c = d /\ watchers[c].showing = f.turn
    BY <1>1, <2>1, <2>3 DEF LetGoDue
  <2>4. CASE ~(c = d /\ watchers[c].showing = f.turn)
    <3>1. (\E r \in Server : ReleasedIn(wire[r][c], watchers[c].showing, 0))
          => \E r \in Server : ReleasedIn(wire'[r][c], watchers[c].showing, 0)
      BY <1>4, <2>2, <2>4
    <3> QED  BY <1>1, <2>1, <3>1 DEF LetGoDue, Shows
  <2> QED  BY <2>3, <2>4
<1> QED  BY <1>4, <1>5, <1>6, <1>7, <1>8 DEF FInv

LEMMA ListenKeeps == ASSUME FInv, NEW s \in Server, Listen(s) PROVE FInv'
<1>1. /\ ~watchers[s].there /\ UNCHANGED <<row, turn, wire, recorded, lost>>
      /\ watchers' = [watchers EXCEPT ![s] = [watchers[s] EXCEPT !.there = TRUE]]
  BY DEF Listen
<1>2. watchers \in [Server -> Entry]  BY DEF FInv, Typed
<1>3. /\ watchers' \in [Server -> Entry] /\ watchers'[s].there
      /\ watchers'[s].showing = watchers[s].showing
      /\ \A d \in Server : d # s => watchers'[d] = watchers[d]
  BY <1>1, <1>2 DEF Entry
<1>4. Typed'  BY <1>1, <1>3 DEF FInv, Typed
<1>5. AbsentQuiet'  BY <1>1, <1>3 DEF FInv, AbsentQuiet
<1>6. TurnsSound'
  <2>1. \A d \in Server : watchers[d].there => watchers'[d].there  BY <1>3
  <2>2. \A t \in Turn : turn[t].own => turn[t].at \in Server
    BY DEF FInv, TurnsSound, TurnSound, Typed, TurnState, Stages
  <2> QED  BY <1>1, <2>1, <2>2 DEF FInv, TurnsSound, TurnSound
<1>7. QueuesSound'  BY <1>1 DEF FInv, QueuesSound, QueueSound, Due, Shows
<1>8. ShownDue'
  <2> SUFFICES ASSUME NEW d \in Server, watchers'[d].showing # 0
               PROVE  watchers'[d].showing \in Turn /\ LetGoDue(d, watchers[d].showing)'
    BY DEF ShownDue
  <2>1. watchers'[d].showing = watchers[d].showing  BY <1>3
  <2>2. watchers[d].showing \in Turn /\ LetGoDue(d, watchers[d].showing)
    BY <2>1 DEF FInv, ShownDue
  <2> QED  BY <1>1, <2>1, <2>2 DEF LetGoDue, Shows
<1> QED  BY <1>4, <1>5, <1>6, <1>7, <1>8 DEF FInv

LEMMA LeftTyped ==
  ASSUME Typed, NEW s \in Server, Left(s)
  PROVE  /\ wire' \in [Server -> [Server -> Seq(Frame)]]
         /\ \A r \in Server : wire'[r][s] = <<>>
         /\ \A r, d \in Server : d # s => wire'[r][d] = wire[r][d]
<1>1. wire \in [Server -> [Server -> Seq(Frame)]] /\ <<>> \in Seq(Frame)
  BY EmptySeq DEF Typed
<1>2. \A r \in Server : [wire[r] EXCEPT ![s] = <<>>] \in [Server -> Seq(Frame)]
  BY <1>1
<1>3. wire' = [r \in Server |-> [wire[r] EXCEPT ![s] = <<>>]]  BY DEF Left
<1>4. wire' \in [Server -> [Server -> Seq(Frame)]]  BY <1>2, <1>3
<1> QED  BY <1>1, <1>3, <1>4

\* A server's entry goes, and with it what was on its way to it: the turns that
\* show go on at their servers, or are lost to the others.
LEMMA EntryGoes ==
  ASSUME FInv, NEW s \in Server, Typed', TurnsSound', Left(s),
         watchers' = [watchers EXCEPT ![s] = NoEntry],
         lost \subseteq lost',
         \A t \in Turn, d \in Server : d # s /\ Shows(t) =>
           \/ Shows(t)' /\ turn'[t].at = turn[t].at
              /\ (turn'[t].own = turn[t].own \/ turn[t].at = s)
           \/ <<t, d>> \in lost'
  PROVE  FInv'
<1>1. Typed  BY DEF FInv
<1>2. /\ \A r \in Server : wire'[r][s] = <<>>
      /\ \A r, d \in Server : d # s => wire'[r][d] = wire[r][d]
  BY <1>1, LeftTyped
<1>3. watchers'[s] = NoEntry /\ \A d \in Server : d # s => watchers'[d] = watchers[d]
  BY <1>1 DEF Typed
<1>4. AbsentQuiet'
  <2>1. ASSUME NEW d \in Server, ~watchers'[d].there
        PROVE  watchers'[d] = NoEntry /\ \A r \in Server : wire'[r][d] = <<>>
    <3>1. CASE d = s  BY <1>2, <1>3, <3>1
    <3>2. CASE d # s
      <4>1. ~watchers[d].there /\ watchers'[d] = watchers[d]  BY <1>3, <2>1, <3>2
      <4> QED  BY <1>2, <3>2, <4>1 DEF FInv, AbsentQuiet
    <3> QED  BY <3>1, <3>2
  <2>2. \A d \in Server : wire'[d][d] = <<>>  BY <1>2 DEF FInv, AbsentQuiet
  <2> QED  BY <2>1, <2>2 DEF AbsentQuiet
<1>5. QueuesSound'
  <2> SUFFICES ASSUME NEW r \in Server, NEW d \in Server, NEW i \in DOMAIN wire'[r][d],
                      wire'[r][d][i].kind = "streaming"
               PROVE  Due(wire[r][d], wire[r][d][i].turn, i, r, d)'
    BY DEF QueuesSound, QueueSound
  <2>1. d # s
    <3>1. DOMAIN <<>> = {}  OBVIOUS
    <3> QED  BY <1>2, <3>1
  <2>2. wire'[r][d] = wire[r][d]  BY <1>2, <2>1
  <2>3. Due(wire[r][d], wire[r][d][i].turn, i, r, d)
    BY <2>2 DEF FInv, QueuesSound, QueueSound
  <2>4. wire[r][d][i].turn \in Turn
    <3>1. wire[r][d] \in Seq(Frame)  BY <1>1 DEF Typed
    <3> QED  BY <2>2, <3>1, Queues DEF Frame
  <2> QED  BY <2>1, <2>2, <2>3, <2>4 DEF Due
<1>6. ShownDue'
  <2> SUFFICES ASSUME NEW d \in Server, watchers'[d].showing # 0
               PROVE  watchers'[d].showing \in Turn /\ LetGoDue(d, watchers[d].showing)'
    BY DEF ShownDue
  <2>1. d # s /\ watchers'[d] = watchers[d]  BY <1>3 DEF NoEntry
  <2>2. watchers[d].showing \in Turn /\ LetGoDue(d, watchers[d].showing)
    BY <2>1 DEF FInv, ShownDue
  <2> DEFINE t == watchers[d].showing
  <2>3. CASE \E r \in Server : ReleasedIn(wire[r][d], t, 0)
    BY <1>2, <2>1, <2>2, <2>3 DEF LetGoDue
  <2>4. CASE <<t, d>> \in lost  BY <2>1, <2>2, <2>4 DEF LetGoDue
  <2>5. CASE Shows(t) /\ (turn[t].own \/ turn[t].at # d)
    BY <2>1, <2>2, <2>5 DEF LetGoDue
  <2> QED  BY <2>2, <2>3, <2>4, <2>5 DEF LetGoDue
<1> QED  BY <1>4, <1>5, <1>6 DEF FInv

LEMMA ForgetKeeps == ASSUME FInv, NEW s \in Server, Forget(s) PROVE FInv'
<1>1. /\ watchers' = [watchers EXCEPT ![s] = NoEntry] /\ Left(s)
      /\ turn' = [t \in Turn |-> IF turn[t].at = s THEN [turn[t] EXCEPT !.own = FALSE] ELSE turn[t]]
      /\ UNCHANGED <<row, recorded, lost>>
  BY DEF Forget
<1>2. Typed  BY DEF FInv
<1>3. \A t \in Turn : turn[t] \in TurnState /\ turn[t].pc \in Stages
                      /\ [turn[t] EXCEPT !.own = FALSE] \in TurnState
  BY <1>2 DEF Typed, TurnState
<1>4. /\ turn' \in [Turn -> TurnState]
      /\ \A t \in Turn :
           /\ turn'[t].pc = turn[t].pc /\ turn'[t].at = turn[t].at
           /\ turn'[t].own = IF turn[t].at = s THEN FALSE ELSE turn[t].own
  BY <1>1, <1>3 DEF TurnState
<1>5. Typed'
  <2>1. NoEntry \in Entry  BY DEF NoEntry, Entry
  <2>2. watchers' \in [Server -> Entry]  BY <1>1, <1>2, <2>1 DEF Typed
  <2> QED  BY <1>1, <1>2, <1>4, <2>2, LeftTyped DEF Typed
<1>6. TurnsSound'
  <2> SUFFICES ASSUME NEW t \in Turn  PROVE TurnSound(t)'
    BY DEF TurnsSound
  <2>1. TurnSound(t)  BY DEF FInv, TurnsSound
  <2>2. turn'[t].own => watchers'[turn'[t].at].there
    <3> SUFFICES ASSUME turn'[t].own  PROVE watchers'[turn[t].at].there
      BY <1>4
    <3>1. turn[t].own /\ turn[t].at # s  BY <1>4
    <3>2. turn[t].at \in Server  BY <1>3, <2>1, <3>1 DEF TurnSound, Stages
    <3>3. watchers'[turn[t].at] = watchers[turn[t].at]  BY <1>1, <1>2, <3>1, <3>2 DEF Typed
    <3> QED  BY <2>1, <3>1, <3>3 DEF TurnSound
  <2>3. turn[t].own \in BOOLEAN  BY <1>3 DEF TurnState
  <2> QED  BY <1>1, <1>4, <2>1, <2>2, <2>3 DEF TurnSound
<1>7. \A t \in Turn, d \in Server : d # s /\ Shows(t) =>
        \/ Shows(t)' /\ turn'[t].at = turn[t].at
           /\ (turn'[t].own = turn[t].own \/ turn[t].at = s)
        \/ <<t, d>> \in lost'
  BY <1>4 DEF Shows
<1>8. lost \subseteq lost'  BY <1>1
<1> QED  BY <1>1, <1>5, <1>6, <1>7, <1>8, EntryGoes

LEMMA CrashKeeps == ASSUME FInv, NEW s \in Server, Crash(s) PROVE FInv'
<1> DEFINE dead == {t \in Turn : turn[t].at = s}
<1>1. /\ watchers' = [watchers EXCEPT ![s] = NoEntry] /\ Left(s)
      /\ turn' = [t \in Turn |-> IF t \in dead THEN Over ELSE turn[t]]
      /\ lost' = lost \union ({t \in dead : Shows(t)} \X (Server \ {s}))
      /\ UNCHANGED <<row, recorded>>
  BY DEF Crash
<1>2. Typed  BY DEF FInv
<1>3. \A t \in Turn : turn[t] \in TurnState /\ turn[t].pc \in Stages
  BY <1>2 DEF Typed, TurnState
<1>4. /\ turn' \in [Turn -> TurnState]
      /\ \A t \in Turn : turn'[t] = IF turn[t].at = s THEN Over ELSE turn[t]
  BY <1>1, <1>3, OverTyped
<1>5. Typed'
  <2>1. NoEntry \in Entry  BY DEF NoEntry, Entry
  <2>2. watchers' \in [Server -> Entry]  BY <1>1, <1>2, <2>1 DEF Typed
  <2> QED  BY <1>1, <1>2, <1>4, <2>2, LeftTyped DEF Typed
<1>6. TurnsSound'
  <2> SUFFICES ASSUME NEW t \in Turn  PROVE TurnSound(t)'
    BY DEF TurnsSound
  <2>1. TurnSound(t)  BY DEF FInv, TurnsSound
  <2>2. CASE turn[t].at = s
    <3>1. turn'[t] = Over  BY <1>4, <2>2
    <3>2. ~(t > row.token)
      <4>1. None \notin Server  BY FramesAssumption
      <4> QED  BY <2>1, <2>2, <4>1 DEF TurnSound
    <3> QED  BY <1>1, <3>1, <3>2, OverTyped DEF TurnSound
  <2>3. CASE turn[t].at # s
    <3>1. turn'[t] = turn[t]  BY <1>4, <2>3
    <3>2. turn[t].own => watchers'[turn[t].at].there
      <4> SUFFICES ASSUME turn[t].own  PROVE watchers'[turn[t].at].there
        OBVIOUS
      <4>1. turn[t].at \in Server  BY <1>3, <2>1 DEF TurnSound, Stages
      <4>2. watchers'[turn[t].at] = watchers[turn[t].at]  BY <1>1, <1>2, <2>3, <4>1 DEF Typed
      <4> QED  BY <2>1, <4>2 DEF TurnSound
    <3> QED  BY <1>1, <2>1, <3>1, <3>2 DEF TurnSound
  <2> QED  BY <2>2, <2>3
<1>7. ASSUME NEW t \in Turn, NEW d \in Server, d # s, Shows(t)
      PROVE  \/ Shows(t)' /\ turn'[t].at = turn[t].at
                /\ (turn'[t].own = turn[t].own \/ turn[t].at = s)
             \/ <<t, d>> \in lost'
  <2>1. CASE turn[t].at = s  BY <1>1, <1>7, <2>1
  <2>2. CASE turn[t].at # s
    <3>1. turn'[t] = turn[t]  BY <1>4, <2>2
    <3> QED  BY <1>7, <3>1 DEF Shows
  <2> QED  BY <2>1, <2>2
<1>8. lost \subseteq lost'  BY <1>1
<1> QED  BY <1>1, <1>5, <1>6, <1>7, <1>8, EntryGoes

LEMMA FramesStep == ASSUME FInv, [Next]_vars PROVE FInv'
<1>1. ASSUME NEW s \in Server, Listen(s)  PROVE FInv'  BY <1>1, ListenKeeps
<1>2. ASSUME NEW s \in Server, Forget(s)  PROVE FInv'  BY <1>2, ForgetKeeps
<1>3. ASSUME NEW s \in Server, Load(s)  PROVE FInv'  BY <1>3, LoadKeeps
<1>4. ASSUME NEW s \in Server, Crash(s)  PROVE FInv'  BY <1>4, CrashKeeps
<1>5. ASSUME NEW s \in Server, NEW d \in Server, Hear(s, d)  PROVE FInv'  BY <1>5, HearKeeps
<1>6. ASSUME NEW s \in Server, NEW d \in Server, Lose(s, d)  PROVE FInv'  BY <1>6, LoseKeeps
<1>7. ASSUME NEW t \in Turn, NoWake(t)  PROVE FInv'  BY <1>7, NoWakeKeeps
<1>8. ASSUME NEW t \in Turn, Start(t)  PROVE FInv'  BY <1>8, StartKeeps
<1>9. ASSUME NEW t \in Turn, CommitLands(t)  PROVE FInv'  BY <1>9, CommitLandsKeeps
<1>10. ASSUME NEW t \in Turn, CommitFails(t)  PROVE FInv'  BY <1>10, CommitFailsKeeps
<1>11. ASSUME NEW t \in Turn, Release(t)  PROVE FInv'  BY <1>11, ReleaseKeeps
<1>12. CASE UNCHANGED vars  BY <1>12, FramesStutter
<1> QED
  BY <1>1, <1>2, <1>3, <1>4, <1>5, <1>6, <1>7, <1>8, <1>9, <1>10, <1>11, <1>12 DEF Next

THEOREM FramesInvariance == Spec => []FInv
<1>1. Init => FInv  BY FramesInitially
<1>2. FInv /\ [Next]_vars => FInv'  BY FramesStep
<1> QED  BY <1>1, <1>2, PTL DEF Spec

\* A server that has its browsers hold their requests for a wake turn shows one
\* that is under way or whose `released` is on its way to it, unless a frame of it
\* was lost to this server or its own server crashed: with any number of servers,
\* of turns that overtake each other, and of entries that go and come back.
THEOREM BrowsersLetGo == Spec => []ShownTurnsLetGo
<1>1. FInv => ShownTurnsLetGo
  <2> SUFFICES ASSUME FInv, NEW s \in Server, watchers[s].showing # 0
               PROVE  LET t == watchers[s].showing
                      IN  \/ Shows(t) /\ (turn[t].own \/ turn[t].at # s)
                          \/ \E r \in Server : \E i \in DOMAIN wire[r][s] :
                               wire[r][s][i].kind = "released" /\ wire[r][s][i].turn = t
                          \/ <<t, s>> \in lost
    BY DEF ShownTurnsLetGo
  <2>1. LetGoDue(s, watchers[s].showing)  BY DEF FInv, ShownDue
  <2> QED  BY <2>1 DEF LetGoDue, ReleasedIn
<1> QED  BY <1>1, FramesInvariance, PTL

-----------------------------------------------------------------------------
(* Turns on record are shown in order                                       *)

\* What RecordedTurnsInOrder says of a step.
InOrder(s) ==
  (watchers'[s].there /\ {watchers[s].last, watchers'[s].last} \subseteq recorded')
    => watchers'[s].last >= watchers[s].last

\* A frame leaves an entry with the number of the turn it shows, and does not take
\* it back from a turn of R to an older one, when those of R come before every
\* newer turn.
LEMMA DeliverNumbered ==
  ASSUME NEW num \in [Turn -> Nat], NEW w \in Entry, NEW f \in Frame, NEW R \in SUBSET Turn,
         EntryNumbered(num, w), FrameNumbered(num, f),
         \A t \in R, u \in Turn : t < u /\ u <= row.token => num[t] < num[u]
  PROVE  /\ EntryNumbered(num, Deliver(w, f))
         /\ {w.last, Deliver(w, f).last} \subseteq R => Deliver(w, f).last >= w.last
<1>1. \/ /\ f.number >= w.newest
         /\ Deliver(w, f).last = f.turn /\ Deliver(w, f).newest = f.number
      \/ Deliver(w, f).last = w.last /\ Deliver(w, f).newest = w.newest
  BY Delivers
<1>2. f.turn \in Turn /\ f.turn \in Nat /\ f.number \in Nat /\ w.last \in Nat /\ w.newest \in Nat
  BY DEF Frame, Entry, Turn
<1>3. CASE Deliver(w, f).last = w.last /\ Deliver(w, f).newest = w.newest
  BY <1>2, <1>3 DEF EntryNumbered
<1>4. CASE /\ f.number >= w.newest
           /\ Deliver(w, f).last = f.turn /\ Deliver(w, f).newest = f.number
  <2>1. EntryNumbered(num, Deliver(w, f))  BY <1>2, <1>4 DEF EntryNumbered, FrameNumbered
  <2>2. ASSUME w.last \in R, f.turn \in R, f.turn < w.last  PROVE FALSE
    <3>1. w.last \in Turn /\ w.last <= row.token /\ w.newest = num[w.last]
      BY <2>2 DEF EntryNumbered, Turn
    <3>2. num[f.turn] < num[w.last]  BY <2>2, <3>1
    <3>3. f.number = num[f.turn]  BY DEF FrameNumbered
    <3> QED  BY <1>2, <1>4, <3>1, <3>2, <3>3
  <2> QED  BY <1>2, <1>4, <2>1, <2>2
<1> QED  BY <1>1, <1>3, <1>4

\* Entries and frames are as before, or were heard or sent.
LEMMA EmitNumbered ==
  ASSUME FInv, NEW num \in [Turn -> Nat], Numbering(num), NEW t \in Turn, turn[t].at \in Server,
         NEW f \in Frame, FrameNumbered(num, f), Emit(t, f), row'.token = row.token,
         recorded' \subseteq Turn, (\A u \in recorded : RecordNumbered(num, u))'
  PROVE  SentNumbered(num)' /\ ShownNumbered(num)' /\ \A s \in Server : InOrder(s)
<1>1. Typed  BY DEF FInv
<1>2. /\ \A d \in Server : watchers[d] \in Entry
      /\ \A r, d \in Server : wire[r][d] \in Seq(Frame)
  BY <1>1 DEF Typed
<1>3. /\ \A d \in Server : watchers'[d] = watchers[d] \/ watchers'[d] = Deliver(watchers[d], f)
      /\ \A r, d \in Server :
           wire'[r][d] = wire[r][d] \/ wire'[r][d] = Append(wire[r][d], f)
  <2>1. LET s == turn[t].at
        IN  /\ \A d \in Server : d # s \/ ~turn[t].own => watchers'[d] = watchers[d]
            /\ turn[t].own => watchers'[s] = Deliver(watchers[s], f)
            /\ \A r, d \in Server :
                 wire'[r][d] = IF r = s /\ d # s /\ watchers[d].there
                               THEN Append(wire[r][d], f) ELSE wire[r][d]
    BY <1>1, Emits
  <2> QED  BY <2>1
<1>4. SentNumbered(num)'
  <2> SUFFICES ASSUME NEW r \in Server, NEW d \in Server, NEW i \in DOMAIN wire'[r][d]
               PROVE  FrameNumbered(num, wire'[r][d][i])
    BY DEF SentNumbered, FrameNumbered
  <2> DEFINE q == wire[r][d]
  <2>1. \A j \in DOMAIN q : FrameNumbered(num, q[j])  BY DEF Numbering, SentNumbered
  <2>2. q \in Seq(Frame)  BY <1>2
  <2>3. wire'[r][d] = q \/ wire'[r][d] = Append(q, f)  BY <1>3
  <2> HIDE DEF q
  <2>4. CASE wire'[r][d] = q  BY <2>1, <2>4
  <2>5. CASE wire'[r][d] = Append(q, f)
    <3>1. DOMAIN q = 1 .. Len(q) /\ Len(q) \in Nat  BY <2>2, Queues
    <3>2. /\ i \in 1 .. Len(q) + 1
          /\ \A j \in DOMAIN q : Append(q, f)[j] = q[j]
          /\ Append(q, f)[Len(q) + 1] = f
      BY <2>2, <2>5, Appended
    <3>3. CASE i = Len(q) + 1  BY <2>5, <3>2, <3>3
    <3>4. CASE i \in DOMAIN q  BY <2>1, <2>5, <3>2, <3>4
    <3> QED  BY <3>1, <3>2, <3>3, <3>4
  <2> QED  BY <2>3, <2>4, <2>5
<1>5. ASSUME NEW s \in Server  PROVE EntryNumbered(num, watchers'[s]) /\ InOrder(s)
  <2> DEFINE w == watchers[s]
  <2>1. w \in Entry /\ w.last \in Nat  BY <1>2 DEF Entry
  <2>2. EntryNumbered(num, w)  BY DEF Numbering, ShownNumbered
  <2>3. watchers'[s] = w \/ watchers'[s] = Deliver(w, f)  BY <1>3
  <2>4. InOrder(s) <=> (watchers'[s].there /\ {w.last, watchers'[s].last} \subseteq recorded'
                         => watchers'[s].last >= w.last)
    BY DEF InOrder
  <2> HIDE DEF w
  <2>5. CASE watchers'[s] = w  BY <2>1, <2>2, <2>4, <2>5
  <2>6. CASE watchers'[s] = Deliver(w, f)
    <3>1. \A u \in recorded', v \in Turn : u < v /\ v <= row.token => num[u] < num[v]
      BY DEF RecordNumbered
    <3>2. /\ EntryNumbered(num, Deliver(w, f))
          /\ {w.last, Deliver(w, f).last} \subseteq recorded' => Deliver(w, f).last >= w.last
      BY <2>1, <2>2, <3>1, DeliverNumbered
    <3> QED  BY <2>4, <2>6, <3>2
  <2> QED  BY <2>3, <2>5, <2>6
<1>6. ShownNumbered(num)'  BY <1>5 DEF ShownNumbered, EntryNumbered
<1> QED  BY <1>4, <1>5, <1>6

\* A save of t, whose lease is the newest, puts its number on record.
LEMMA SaveNumbered ==
  ASSUME FInv, NEW num \in [Turn -> Nat], Numbering(num), NEW t \in Turn,
         turn[t].pc \in {"commit", "started"},
         \/ row' = row /\ recorded' = recorded
         \/ Fence(t) /\ row' = Saved(turn[t].number) /\ recorded' = recorded \union {t}
  PROVE  (\A u \in recorded : RecordNumbered(num, u))' /\ RowNumbered(num)'
<1>1. /\ row \in [token : Nat, turns : Nat] /\ recorded \subseteq Turn
      /\ t \in Nat /\ num[t] \in Nat
  <2>1. t \in Nat  BY DEF Turn
  <2> QED  BY <2>1 DEF FInv, Typed
<1>2. /\ \A u \in recorded : RecordNumbered(num, u)
      /\ RowNumbered(num) /\ num[t] = turn[t].number
  BY DEF Numbering, TurnNumbered
<1>3. CASE row' = row /\ recorded' = recorded
  BY <1>2, <1>3 DEF RecordNumbered, RowNumbered
<1>4. CASE Fence(t) /\ row' = Saved(turn[t].number) /\ recorded' = recorded \union {t}
  <2>1. row.token = t /\ row'.token = t /\ row'.turns = num[t] /\ t # 0
    BY <1>1, <1>2, <1>4 DEF Fence, Saved, Turn
  <2>2. RowNumbered(num)'  BY <1>1, <2>1 DEF RowNumbered
  <2>3. row.turns <= num[t]  BY <1>2, <2>1 DEF RowNumbered
  <2>4. ASSUME NEW u \in recorded'  PROVE RecordNumbered(num, u)'
    <3>1. CASE u = t  BY <1>1, <2>1, <3>1 DEF RecordNumbered, Turn
    <3>2. CASE u \in recorded
      <4>1. RecordNumbered(num, u) /\ num[u] \in Nat  BY <1>1, <1>2, <3>2
      <4> QED  BY <1>1, <2>1, <2>3, <4>1 DEF RecordNumbered
    <3> QED  BY <1>4, <3>1, <3>2
  <2> QED  BY <2>2, <2>4
<1> QED  BY <1>3, <1>4

LEMMA StartNumbered ==
  ASSUME FInv, NEW num \in [Turn -> Nat], Numbering(num), NEW t \in Turn, Start(t)
  PROVE  Numbering(num)' /\ \A s \in Server : InOrder(s)
<1> DEFINE f == Streaming(t, turn[t].number + 1)
           r == [turn[t] EXCEPT !.pc = "commit", !.number = turn[t].number + 1]
<1>1. /\ turn[t].pc = "loaded" /\ Emit(t, f) /\ UNCHANGED <<row, recorded, lost>>
  BY DEF Start, At
<1>2. turn \in [Turn -> TurnState] /\ turn[t] \in TurnState /\ turn[t].number + 1 \in Nat
      /\ TurnSound(t) /\ row.token \in Nat
  BY DEF FInv, Typed, TurnState, TurnsSound
<1>3. TurnNumbered(num, t) /\ num[t] = turn[t].number + 1
  BY <1>1 DEF Numbering, TurnNumbered
<1>4. r.pc = "commit" /\ r.number = num[t] /\ r \in TurnState
  BY <1>2, <1>3 DEF TurnState, Stages
<1>5. turn' = [turn EXCEPT ![t] = r]  BY <1>2 DEF Start
<1>6. f \in Frame  BY <1>2 DEF Streaming, Frame, Kinds
<1>7. FrameNumbered(num, f)
  <2>1. t <= row.token  BY <1>1, <1>2 DEF TurnSound, Turn
  <2> QED  BY <1>3, <2>1 DEF FrameNumbered, Streaming
<1>8. turn[t].at \in Server  BY <1>1, <1>2 DEF TurnSound
<1> HIDE DEF f, r
<1>9. ASSUME NEW u \in Turn  PROVE TurnNumbered(num, u)'
  <2>1. CASE u = t  BY <1>2, <1>4, <1>5, <2>1 DEF TurnNumbered
  <2>2. CASE u # t  BY <1>2, <1>5, <2>2 DEF Numbering, TurnNumbered
  <2> QED  BY <2>1, <2>2
<1>10. /\ (\A u \in recorded : RecordNumbered(num, u))' /\ RowNumbered(num)'
       /\ recorded' \subseteq Turn
  BY <1>1 DEF Numbering, RecordNumbered, RowNumbered, FInv, Typed
<1>11. SentNumbered(num)' /\ ShownNumbered(num)' /\ \A s \in Server : InOrder(s)
  BY <1>1, <1>6, <1>7, <1>8, <1>10, EmitNumbered
<1> QED  BY <1>9, <1>10, <1>11 DEF Numbering

LEMMA CommitLandsNumbered ==
  ASSUME FInv, NEW num \in [Turn -> Nat], Numbering(num), NEW t \in Turn, CommitLands(t)
  PROVE  Numbering(num)' /\ \A s \in Server : InOrder(s)
<1> DEFINE f == Streaming(t, turn[t].number)
<1>1. /\ turn[t].pc = "commit" /\ Fence(t) /\ Emit(t, f) /\ Step(t, "started")
      /\ row' = Saved(turn[t].number) /\ recorded' = recorded \union {t}
  BY DEF CommitLands, At
<1>2. Typed /\ TurnSound(t)  BY DEF FInv, TurnsSound
<1>3. /\ turn'[t].pc = "started" /\ turn'[t].number = turn[t].number
      /\ \A u \in Turn : u # t => turn'[u] = turn[u]
  <2>1. "started" \in Stages  BY DEF Stages
  <2> QED  BY <1>1, <1>2, <2>1, Stepped
<1>4. row'.token = row.token  BY <1>1, <1>2, SavedTyped
<1>5. num[t] = turn[t].number  BY <1>1 DEF Numbering, TurnNumbered
<1>6. f \in Frame  BY <1>2 DEF Streaming, Frame, Kinds, Typed, TurnState
<1>7. FrameNumbered(num, f)
  <2>1. t <= row.token  BY <1>1 DEF Fence, Turn
  <2> QED  BY <1>5, <2>1 DEF FrameNumbered, Streaming
<1>8. turn[t].at \in Server  BY <1>1, <1>2 DEF TurnSound
<1> HIDE DEF f
<1>9. ASSUME NEW u \in Turn  PROVE TurnNumbered(num, u)'
  <2>1. CASE u = t  BY <1>3, <1>5, <2>1 DEF TurnNumbered
  <2>2. CASE u # t  BY <1>3, <2>2 DEF Numbering, TurnNumbered
  <2> QED  BY <2>1, <2>2
<1>10. /\ (\A u \in recorded : RecordNumbered(num, u))' /\ RowNumbered(num)'
       /\ recorded' \subseteq Turn
  BY <1>1, <1>2, SaveNumbered DEF Typed
<1>11. SentNumbered(num)' /\ ShownNumbered(num)' /\ \A s \in Server : InOrder(s)
  BY <1>1, <1>4, <1>6, <1>7, <1>8, <1>10, EmitNumbered
<1> QED  BY <1>9, <1>10, <1>11 DEF Numbering

\* Nothing is sent or heard.
LEMMA SilentInOrder ==
  ASSUME FInv, UNCHANGED watchers
  PROVE  \A s \in Server : InOrder(s)
<1>1. \A s \in Server : watchers[s].last \in Nat  BY DEF FInv, Typed, Entry
<1> QED  BY <1>1 DEF InOrder

LEMMA SilentNumbered ==
  ASSUME FInv, NEW num \in [Turn -> Nat], Numbering(num), UNCHANGED <<watchers, wire>>,
         row'.token = row.token
  PROVE  SentNumbered(num)' /\ ShownNumbered(num)'
BY DEF Numbering, SentNumbered, ShownNumbered, FrameNumbered, EntryNumbered

LEMMA CommitFailsNumbered ==
  ASSUME FInv, NEW num \in [Turn -> Nat], Numbering(num), NEW t \in Turn, CommitFails(t)
  PROVE  Numbering(num)' /\ \A s \in Server : InOrder(s)
<1>1. /\ turn[t].pc = "commit" /\ Step(t, "started") /\ UNCHANGED <<watchers, wire>>
      /\ \/ row' = row /\ recorded' = recorded
         \/ Fence(t) /\ row' = Saved(turn[t].number) /\ recorded' = recorded \union {t}
  BY DEF CommitFails, At
<1>2. Typed  BY DEF FInv
<1>3. /\ turn'[t].pc = "started" /\ turn'[t].number = turn[t].number
      /\ \A u \in Turn : u # t => turn'[u] = turn[u]
  <2>1. "started" \in Stages  BY DEF Stages
  <2> QED  BY <1>1, <1>2, <2>1, Stepped
<1>4. row'.token = row.token  BY <1>1, <1>2, SavedTyped
<1>5. num[t] = turn[t].number  BY <1>1 DEF Numbering, TurnNumbered
<1>6. ASSUME NEW u \in Turn  PROVE TurnNumbered(num, u)'
  <2>1. CASE u = t  BY <1>3, <1>5, <2>1 DEF TurnNumbered
  <2>2. CASE u # t  BY <1>3, <2>2 DEF Numbering, TurnNumbered
  <2> QED  BY <2>1, <2>2
<1>7. SentNumbered(num)' /\ ShownNumbered(num)'  BY <1>1, <1>4, SilentNumbered
<1>8. (\A u \in recorded : RecordNumbered(num, u))' /\ RowNumbered(num)'
  BY <1>1, SaveNumbered
<1> QED  BY <1>1, <1>6, <1>7, <1>8, SilentInOrder DEF Numbering

LEMMA ReleaseNumbered ==
  ASSUME FInv, NEW num \in [Turn -> Nat], Numbering(num), NEW t \in Turn, Release(t)
  PROVE  Numbering(num)' /\ \A s \in Server : InOrder(s)
<1> DEFINE f == Released(t)
<1>1. /\ turn[t].pc = "started" /\ turn' = [turn EXCEPT ![t] = Over]
      /\ \/ row' = row /\ recorded' = recorded
         \/ Fence(t) /\ row' = Saved(turn[t].number) /\ recorded' = recorded \union {t}
      /\ Emit(t, f)
  BY DEF Release, At, LetsGo, NumberKept
<1>2. Typed /\ TurnSound(t)  BY DEF FInv, TurnsSound
<1>3. turn'[t] = Over /\ \A u \in Turn : u # t => turn'[u] = turn[u]
  BY <1>1, <1>2 DEF Typed
<1>4. row'.token = row.token  BY <1>1, <1>2, SavedTyped
<1>5. num[t] = turn[t].number  BY <1>1 DEF Numbering, TurnNumbered
<1>6. f \in Frame  BY <1>2 DEF Released, Frame, Kinds, Typed, TurnState
<1>7. FrameNumbered(num, f)
  <2>1. t <= row.token
    <3>1. row.token \in Nat  BY <1>2 DEF Typed
    <3> QED  BY <1>1, <1>2, <3>1 DEF TurnSound, Turn
  <2> QED  BY <1>5, <2>1 DEF FrameNumbered, Released
<1>8. turn[t].at \in Server  BY <1>1, <1>2 DEF TurnSound
<1> HIDE DEF f
<1>9. ASSUME NEW u \in Turn  PROVE TurnNumbered(num, u)'
  <2>1. CASE u = t  BY <1>3, <2>1, OverTyped DEF TurnNumbered
  <2>2. CASE u # t  BY <1>3, <2>2 DEF Numbering, TurnNumbered
  <2> QED  BY <2>1, <2>2
<1>10. /\ (\A u \in recorded : RecordNumbered(num, u))' /\ RowNumbered(num)'
       /\ recorded' \subseteq Turn
  BY <1>1, <1>2, SaveNumbered DEF Typed
<1>11. SentNumbered(num)' /\ ShownNumbered(num)' /\ \A s \in Server : InOrder(s)
  BY <1>1, <1>4, <1>6, <1>7, <1>8, <1>10, EmitNumbered
<1> QED  BY <1>9, <1>10, <1>11 DEF Numbering

LEMMA NoWakeNumbered ==
  ASSUME FInv, NEW num \in [Turn -> Nat], Numbering(num), NEW t \in Turn, NoWake(t)
  PROVE  Numbering(num)' /\ \A s \in Server : InOrder(s)
<1>1. turn' = [turn EXCEPT ![t] = Over] /\ UNCHANGED <<row, watchers, wire, recorded>>
  BY DEF NoWake
<1>2. turn'[t] = Over /\ \A u \in Turn : u # t => turn'[u] = turn[u]
  BY <1>1 DEF FInv, Typed
<1>3. ASSUME NEW u \in Turn  PROVE TurnNumbered(num, u)'
  <2>1. CASE u = t  BY <1>2, <2>1, OverTyped DEF TurnNumbered
  <2>2. CASE u # t  BY <1>2, <2>2 DEF Numbering, TurnNumbered
  <2> QED  BY <2>1, <2>2
<1>4. SentNumbered(num)' /\ ShownNumbered(num)'  BY <1>1, SilentNumbered
<1>5. (\A u \in recorded : RecordNumbered(num, u))' /\ RowNumbered(num)'
  BY <1>1 DEF Numbering, RecordNumbered, RowNumbered
<1> QED  BY <1>1, <1>3, <1>4, <1>5, SilentInOrder DEF Numbering

\* The turns and the row are as before.
LEMMA TurnsAsBefore ==
  ASSUME NEW num \in [Turn -> Nat], Numbering(num), UNCHANGED <<row, recorded>>,
         \A t \in Turn : \/ turn'[t].pc = turn[t].pc /\ turn'[t].number = turn[t].number
                         \/ turn'[t].pc = "over"
  PROVE  /\ (\A t \in Turn : TurnNumbered(num, t))'
         /\ (\A t \in recorded : RecordNumbered(num, t))' /\ RowNumbered(num)'
<1>1. ASSUME NEW t \in Turn  PROVE TurnNumbered(num, t)'
  BY DEF Numbering, TurnNumbered
<1>2. (\A t \in recorded : RecordNumbered(num, t))' /\ RowNumbered(num)'
  BY DEF Numbering, RecordNumbered, RowNumbered
<1> QED  BY <1>1, <1>2

\* The head of a queue is gone.
LEMMA TailNumbered ==
  ASSUME FInv, NEW num \in [Turn -> Nat], Numbering(num), NEW s \in Server, NEW d \in Server,
         wire[s][d] # <<>>, Dequeues(s, d), row' = row
  PROVE  SentNumbered(num)' /\ Head(wire[s][d]) \in Frame /\ FrameNumbered(num, Head(wire[s][d]))
<1> DEFINE q == wire[s][d]
<1>1. Typed /\ q \in Seq(Frame)  BY DEF FInv, Typed
<1>2. /\ wire'[s][d] = Tail(q)
      /\ \A r, c \in Server : (r # s \/ c # d) => wire'[r][c] = wire[r][c]
  BY <1>1, Tails
<1>3. \A i \in DOMAIN q : FrameNumbered(num, q[i])  BY DEF Numbering, SentNumbered
<1>4. /\ Head(q) = q[1] /\ Head(q) \in Frame /\ 1 \in DOMAIN q
      /\ \A i \in DOMAIN Tail(q) : i + 1 \in DOMAIN q /\ Tail(q)[i] = q[i + 1]
  <2>1. q # <<>>  OBVIOUS
  <2> HIDE DEF q
  <2> QED  BY <1>1, <2>1, Dequeued
<1>5. ASSUME NEW r \in Server, NEW c \in Server, NEW i \in DOMAIN wire'[r][c]
      PROVE  FrameNumbered(num, wire'[r][c][i])
  <2>1. CASE (r # s \/ c # d)
    <3>1. wire'[r][c] = wire[r][c]  BY <1>2, <2>1
    <3> QED  BY <3>1 DEF Numbering, SentNumbered
  <2>2. CASE r = s /\ c = d
    <3>1. wire'[r][c] = Tail(q)  BY <1>2, <2>2
    <3> HIDE DEF q
    <3> QED  BY <1>3, <1>4, <3>1
  <2> QED  BY <2>1, <2>2
<1>6. SentNumbered(num)'  BY <1>5 DEF SentNumbered, FrameNumbered
<1>7. FrameNumbered(num, Head(q))
  <2> HIDE DEF q
  <2> QED  BY <1>3, <1>4
<1> QED  BY <1>4, <1>6, <1>7

LEMMA HearNumbered ==
  ASSUME FInv, NEW num \in [Turn -> Nat], Numbering(num), NEW s \in Server, NEW d \in Server,
         Hear(s, d)
  PROVE  Numbering(num)' /\ \A c \in Server : InOrder(c)
<1> DEFINE f == Head(wire[s][d])
<1>1. /\ wire[s][d] # <<>> /\ Dequeues(s, d)
      /\ watchers' = [watchers EXCEPT ![d] = Deliver(watchers[d], f)]
      /\ UNCHANGED <<row, turn, recorded>>
  BY DEF Hear, Dequeues
<1>2. SentNumbered(num)' /\ f \in Frame /\ FrameNumbered(num, f)  BY <1>1, TailNumbered
<1>3. watchers \in [Server -> Entry] /\ recorded \subseteq Turn  BY DEF FInv, Typed
<1>4. \A c \in Server : watchers'[c] = watchers[c] \/ watchers'[c] = Deliver(watchers[c], f)
  <2> HIDE DEF f
  <2> QED  BY <1>1, <1>3
<1>5. ASSUME NEW c \in Server  PROVE EntryNumbered(num, watchers'[c]) /\ InOrder(c)
  <2> DEFINE w == watchers[c]
  <2>1. w \in Entry /\ w.last \in Nat  BY <1>3 DEF Entry
  <2>2. /\ EntryNumbered(num, w)
        /\ \A u \in recorded, v \in Turn : u < v /\ v <= row.token => num[u] < num[v]
    BY DEF Numbering, ShownNumbered, RecordNumbered
  <2>3. watchers'[c] = w \/ watchers'[c] = Deliver(w, f)  BY <1>4
  <2>4. InOrder(c) <=> (watchers'[c].there /\ {w.last, watchers'[c].last} \subseteq recorded
                         => watchers'[c].last >= w.last)
    BY <1>1 DEF InOrder
  <2> HIDE DEF w, f
  <2>5. CASE watchers'[c] = w  BY <2>1, <2>2, <2>4, <2>5
  <2>6. CASE watchers'[c] = Deliver(w, f)
    <3>1. /\ EntryNumbered(num, Deliver(w, f))
          /\ {w.last, Deliver(w, f).last} \subseteq recorded => Deliver(w, f).last >= w.last
      BY <1>2, <1>3, <2>1, <2>2, DeliverNumbered
    <3> QED  BY <2>4, <2>6, <3>1
  <2> QED  BY <2>3, <2>5, <2>6
<1>6. ShownNumbered(num)'  BY <1>1, <1>5 DEF ShownNumbered, EntryNumbered
<1>7. /\ (\A t \in Turn : TurnNumbered(num, t))'
      /\ (\A t \in recorded : RecordNumbered(num, t))' /\ RowNumbered(num)'
  BY <1>1, TurnsAsBefore
<1> QED  BY <1>2, <1>5, <1>6, <1>7 DEF Numbering

LEMMA LoseNumbered ==
  ASSUME FInv, NEW num \in [Turn -> Nat], Numbering(num), NEW s \in Server, NEW d \in Server,
         Lose(s, d)
  PROVE  Numbering(num)' /\ \A c \in Server : InOrder(c)
<1>1. /\ wire[s][d] # <<>> /\ Dequeues(s, d)
      /\ UNCHANGED <<row, turn, watchers, recorded>>
  BY DEF Lose, Dequeues
<1>2. SentNumbered(num)'  BY <1>1, TailNumbered
<1>3. ShownNumbered(num)'  BY <1>1 DEF Numbering, ShownNumbered, EntryNumbered
<1>4. /\ (\A t \in Turn : TurnNumbered(num, t))'
      /\ (\A t \in recorded : RecordNumbered(num, t))' /\ RowNumbered(num)'
  BY <1>1, TurnsAsBefore
<1> QED  BY <1>1, <1>2, <1>3, <1>4, SilentInOrder DEF Numbering

LEMMA ListenNumbered ==
  ASSUME FInv, NEW num \in [Turn -> Nat], Numbering(num), NEW s \in Server, Listen(s)
  PROVE  Numbering(num)' /\ \A c \in Server : InOrder(c)
<1>1. /\ UNCHANGED <<row, turn, wire, recorded>>
      /\ watchers' = [watchers EXCEPT ![s] = [watchers[s] EXCEPT !.there = TRUE]]
  BY DEF Listen
<1>2. watchers \in [Server -> Entry]  BY DEF FInv, Typed
<1>3. \A c \in Server : /\ watchers'[c].last = watchers[c].last /\ watchers[c].last \in Nat
                        /\ watchers'[c].newest = watchers[c].newest
  BY <1>1, <1>2 DEF Entry
<1>4. SentNumbered(num)'  BY <1>1 DEF Numbering, SentNumbered, FrameNumbered
<1>5. ShownNumbered(num)'  BY <1>1, <1>3 DEF Numbering, ShownNumbered, EntryNumbered
<1>6. /\ (\A t \in Turn : TurnNumbered(num, t))'
      /\ (\A t \in recorded : RecordNumbered(num, t))' /\ RowNumbered(num)'
  BY <1>1, TurnsAsBefore
<1>7. \A c \in Server : InOrder(c)  BY <1>3 DEF InOrder
<1> QED  BY <1>4, <1>5, <1>6, <1>7 DEF Numbering

\* An entry that is gone shows nothing, and one that comes back has shown nothing.
LEMMA GoneNumbered ==
  ASSUME FInv, NEW num \in [Turn -> Nat], Numbering(num), NEW s \in Server, Left(s),
         watchers' = [watchers EXCEPT ![s] = NoEntry], UNCHANGED row
  PROVE  SentNumbered(num)' /\ ShownNumbered(num)' /\ \A c \in Server : InOrder(c)
<1>1. Typed /\ watchers \in [Server -> Entry]  BY DEF FInv, Typed
<1>2. /\ \A r \in Server : wire'[r][s] = <<>>
      /\ \A r, d \in Server : d # s => wire'[r][d] = wire[r][d]
  BY <1>1, LeftTyped
<1>3. watchers'[s] = NoEntry /\ \A d \in Server : d # s => watchers'[d] = watchers[d]
  BY <1>1
<1>4. ~NoEntry.there /\ NoEntry.last = 0  BY DEF NoEntry
<1>5. SentNumbered(num)'
  <2> SUFFICES ASSUME NEW r \in Server, NEW d \in Server, NEW i \in DOMAIN wire'[r][d]
               PROVE  FrameNumbered(num, wire'[r][d][i])
    BY DEF SentNumbered, FrameNumbered
  <2>1. d # s
    <3>1. DOMAIN <<>> = {}  OBVIOUS
    <3> QED  BY <1>2, <3>1
  <2>2. wire'[r][d] = wire[r][d]  BY <1>2, <2>1
  <2> QED  BY <2>2 DEF Numbering, SentNumbered
<1>6. ASSUME NEW d \in Server  PROVE EntryNumbered(num, watchers'[d]) /\ InOrder(d)
  <2>1. CASE d = s  BY <1>3, <1>4, <2>1 DEF EntryNumbered, InOrder
  <2>2. CASE d # s
    <3>1. watchers'[d] = watchers[d] /\ watchers[d].last \in Nat  BY <1>1, <1>3, <2>2 DEF Entry
    <3> QED  BY <3>1 DEF Numbering, ShownNumbered, InOrder
  <2> QED  BY <2>1, <2>2
<1>7. ShownNumbered(num)'  BY <1>6 DEF ShownNumbered, EntryNumbered
<1> QED  BY <1>5, <1>6, <1>7

LEMMA ForgetNumbered ==
  ASSUME FInv, NEW num \in [Turn -> Nat], Numbering(num), NEW s \in Server, Forget(s)
  PROVE  Numbering(num)' /\ \A c \in Server : InOrder(c)
<1>1. /\ watchers' = [watchers EXCEPT ![s] = NoEntry] /\ Left(s)
      /\ turn' = [t \in Turn |-> IF turn[t].at = s THEN [turn[t] EXCEPT !.own = FALSE] ELSE turn[t]]
      /\ UNCHANGED <<row, recorded>>
  BY DEF Forget
<1>2. SentNumbered(num)' /\ ShownNumbered(num)' /\ \A c \in Server : InOrder(c)
  BY <1>1, GoneNumbered
<1>3. \A t \in Turn : turn[t] \in TurnState  BY DEF FInv, Typed
<1>4. \A t \in Turn : turn'[t].pc = turn[t].pc /\ turn'[t].number = turn[t].number
  BY <1>1, <1>3 DEF TurnState
<1>5. /\ (\A t \in Turn : TurnNumbered(num, t))'
      /\ (\A t \in recorded : RecordNumbered(num, t))' /\ RowNumbered(num)'
  BY <1>1, <1>4, TurnsAsBefore
<1> QED  BY <1>2, <1>5 DEF Numbering

LEMMA CrashNumbered ==
  ASSUME FInv, NEW num \in [Turn -> Nat], Numbering(num), NEW s \in Server, Crash(s)
  PROVE  Numbering(num)' /\ \A c \in Server : InOrder(c)
<1> DEFINE dead == {t \in Turn : turn[t].at = s}
<1>1. /\ watchers' = [watchers EXCEPT ![s] = NoEntry] /\ Left(s)
      /\ turn' = [t \in Turn |-> IF t \in dead THEN Over ELSE turn[t]]
      /\ UNCHANGED <<row, recorded>>
  BY DEF Crash
<1>2. SentNumbered(num)' /\ ShownNumbered(num)' /\ \A c \in Server : InOrder(c)
  BY <1>1, GoneNumbered
<1>3. \A t \in Turn : \/ turn'[t].pc = turn[t].pc /\ turn'[t].number = turn[t].number
                      \/ turn'[t].pc = "over"
  BY <1>1, OverTyped
<1>4. /\ (\A t \in Turn : TurnNumbered(num, t))'
      /\ (\A t \in recorded : RecordNumbered(num, t))' /\ RowNumbered(num)'
  BY <1>1, <1>3, TurnsAsBefore
<1> QED  BY <1>2, <1>4 DEF Numbering

\* A turn is numbered as it loads the row: behind every turn the row has counted.
LEMMA LoadNumbered ==
  ASSUME FInv, NEW num \in [Turn -> Nat], Numbering(num), NEW s \in Server, Load(s)
  PROVE  Numbered' /\ \A c \in Server : InOrder(c)
<1> DEFINE t == row.token + 1
           r == [pc |-> "loaded", at |-> s, number |-> row.turns, own |-> TRUE]
<1>1. /\ t \in Turn /\ row' = [row EXCEPT !.token = t] /\ turn' = [turn EXCEPT ![t] = r]
      /\ UNCHANGED <<watchers, wire, recorded>>
  BY DEF Load
<1>2. /\ row \in [token : Nat, turns : Nat] /\ turn \in [Turn -> TurnState]
      /\ recorded \subseteq Turn /\ \A d \in Server : watchers[d] \in Entry
      /\ \A a, d \in Server : wire[a][d] \in Seq(Frame)
  BY DEF FInv, Typed
<1>3. row.token \in Nat /\ row.turns \in Nat /\ t \in Nat /\ t = row.token + 1  BY <1>2
<1>4. row'.token = t /\ row'.turns = row.turns  BY <1>1, <1>2
<1>5. r.pc = "loaded" /\ r.number = row.turns  OBVIOUS
<1>6. PICK n \in [Turn -> Nat] : n[t] = row.turns + 1 /\ \A u \in Turn : u # t => n[u] = num[u]
  <2> DEFINE m == [num EXCEPT ![t] = row.turns + 1]
  <2>1. row.turns + 1 \in Nat  BY <1>3
  <2>2. m \in [Turn -> Nat] /\ m[t] = row.turns + 1 /\ \A u \in Turn : u # t => m[u] = num[u]
    <3> HIDE DEF t
    <3> QED  BY <1>1, <2>1
  <2> QED  BY <2>2
<1> HIDE DEF r
<1>7. turn'[t] = r /\ \A u \in Turn : u # t => turn'[u] = turn[u]  BY <1>1, <1>2
<1> HIDE DEF t
<1>8. \A u \in Turn : u \in Nat  BY DEF Turn
\* What was numbered keeps its number.
<1>9. \A u \in Turn : u <= row.token => n[u] = num[u] /\ u <= row'.token
  BY <1>3, <1>4, <1>6, <1>8
<1>10. ASSUME NEW u \in Turn  PROVE TurnNumbered(n, u)'
  <2>1. CASE u = t  BY <1>5, <1>6, <1>7, <2>1 DEF TurnNumbered
  <2>2. CASE u # t  BY <1>6, <1>7, <2>2 DEF Numbering, TurnNumbered
  <2> QED  BY <2>1, <2>2
<1>11. SentNumbered(n)'
  <2> SUFFICES ASSUME NEW a \in Server, NEW d \in Server, NEW i \in DOMAIN wire[a][d]
               PROVE  FrameNumbered(n, wire[a][d][i])'
    BY <1>1 DEF SentNumbered
  <2>1. FrameNumbered(num, wire[a][d][i])  BY DEF Numbering, SentNumbered
  <2>2. wire[a][d][i].turn \in Turn
    <3>1. wire[a][d] \in Seq(Frame)  BY <1>2
    <3> QED  BY <3>1, Queues DEF Frame
  <2> QED  BY <1>1, <1>9, <2>1, <2>2 DEF FrameNumbered
<1>12. ShownNumbered(n)'
  BY <1>1, <1>9 DEF Numbering, ShownNumbered, EntryNumbered
<1>13. ASSUME NEW u \in recorded  PROVE RecordNumbered(n, u)'
  <2>1. u \in Turn /\ RecordNumbered(num, u)  BY <1>2 DEF Numbering
  <2>2. u <= row.token /\ num[u] <= row.turns /\ n[u] = num[u] /\ u <= row'.token
    BY <1>9, <2>1 DEF RecordNumbered
  <2>3. ASSUME NEW v \in Turn, u < v, v <= t  PROVE n[u] < n[v]
    <3>1. CASE v = t
      <4>1. n[v] = row.turns + 1 /\ n[u] \in Nat  BY <1>6, <2>1, <3>1
      <4> QED  BY <1>3, <2>2, <4>1
    <3>2. CASE v # t
      <4>1. v <= row.token /\ n[v] = num[v]  BY <1>3, <1>6, <1>8, <2>3, <3>2
      <4>2. num[u] < num[v]  BY <2>1, <2>3, <4>1 DEF RecordNumbered
      <4> QED  BY <2>2, <4>1, <4>2
    <3> QED  BY <3>1, <3>2
  <2> QED  BY <1>4, <2>2, <2>3 DEF RecordNumbered
<1>14. RowNumbered(n)'  BY <1>1, <1>3, <1>4, <1>6 DEF RowNumbered
<1>15. Numbering(n)'  BY <1>1, <1>10, <1>11, <1>12, <1>13, <1>14 DEF Numbering
<1> QED  BY <1>1, <1>15, SilentInOrder DEF Numbered

LEMMA NumberedInitially == ASSUME Init PROVE Numbered
<1> DEFINE num == [t \in Turn |-> 0]
<1>1. num \in [Turn -> Nat]  OBVIOUS
<1>2. /\ row.token = 0 /\ recorded = {}
      /\ \A t \in Turn : turn[t].pc = "no"
      /\ \A s \in Server : watchers[s].last = 0
      /\ \A r, d \in Server : wire[r][d] = <<>>
  BY DEF Init, NoTurn, NoEntry
<1>3. DOMAIN <<>> = {}  OBVIOUS
<1> HIDE DEF num
<1>4. \A t \in Turn : TurnNumbered(num, t)  BY <1>2 DEF TurnNumbered
<1>5. SentNumbered(num)  BY <1>2, <1>3 DEF SentNumbered
<1>6. ShownNumbered(num)  BY <1>2 DEF ShownNumbered, EntryNumbered
<1>7. RowNumbered(num)  BY <1>2 DEF RowNumbered
<1> QED  BY <1>1, <1>2, <1>4, <1>5, <1>6, <1>7 DEF Numbered, Numbering

LEMMA NumberedStep ==
  ASSUME FInv, Numbered, [Next]_vars
  PROVE  Numbered' /\ \A s \in Server : InOrder(s)
<1> PICK num \in [Turn -> Nat] : Numbering(num)  BY DEF Numbered
<1> DEFINE Goes == Numbering(num)' /\ \A c \in Server : InOrder(c)
<1>1. ASSUME NEW s \in Server, Listen(s)  PROVE Goes  BY <1>1, ListenNumbered
<1>2. ASSUME NEW s \in Server, Forget(s)  PROVE Goes  BY <1>2, ForgetNumbered
<1>3. ASSUME NEW s \in Server, Load(s)
      PROVE  Numbered' /\ \A c \in Server : InOrder(c)
  BY <1>3, LoadNumbered
<1>4. ASSUME NEW s \in Server, Crash(s)  PROVE Goes  BY <1>4, CrashNumbered
<1>5. ASSUME NEW s \in Server, NEW d \in Server, Hear(s, d)  PROVE Goes  BY <1>5, HearNumbered
<1>6. ASSUME NEW s \in Server, NEW d \in Server, Lose(s, d)  PROVE Goes  BY <1>6, LoseNumbered
<1>7. ASSUME NEW t \in Turn, NoWake(t)  PROVE Goes  BY <1>7, NoWakeNumbered
<1>8. ASSUME NEW t \in Turn, Start(t)  PROVE Goes  BY <1>8, StartNumbered
<1>9. ASSUME NEW t \in Turn, CommitLands(t)  PROVE Goes  BY <1>9, CommitLandsNumbered
<1>10. ASSUME NEW t \in Turn, CommitFails(t)  PROVE Goes  BY <1>10, CommitFailsNumbered
<1>11. ASSUME NEW t \in Turn, Release(t)  PROVE Goes  BY <1>11, ReleaseNumbered
<1>12. CASE UNCHANGED vars
  <2>1. UNCHANGED <<row, turn, watchers, wire, recorded>>  BY <1>12 DEF vars
  <2>2. SentNumbered(num)' /\ ShownNumbered(num)'  BY <2>1, SilentNumbered
  <2>3. /\ (\A t \in Turn : TurnNumbered(num, t))'
        /\ (\A t \in recorded : RecordNumbered(num, t))' /\ RowNumbered(num)'
    BY <2>1, TurnsAsBefore
  <2>4. Goes  BY <2>1, <2>2, <2>3, SilentInOrder DEF Numbering
  <2> QED  BY <2>4 DEF Numbered
<1>13. Goes => Numbered' /\ \A c \in Server : InOrder(c)  BY DEF Numbered
<1> HIDE DEF Goes
<1> QED
  BY <1>1, <1>2, <1>3, <1>4, <1>5, <1>6, <1>7, <1>8, <1>9, <1>10, <1>11, <1>12, <1>13 DEF Next

\* A server that has shown a turn on record never goes back to an older one on
\* record, in whatever order the frames of two servers arrive, and whichever of
\* them are lost: their numbers, taken under a lease that may lapse at any time,
\* tell them apart, because a save is refused once a newer lease is out.
THEOREM NeverToAnOlder == Spec => RecordedTurnsInOrder
<1>1. Init => FInv /\ Numbered  BY FramesInitially, NumberedInitially
<1>2. FInv /\ Numbered /\ [Next]_vars => (FInv /\ Numbered)'  BY FramesStep, NumberedStep
<1> DEFINE Ordered == \A s \in Server :
      (watchers'[s].there /\ {watchers[s].last, watchers'[s].last} \subseteq recorded')
        => watchers'[s].last >= watchers[s].last
<1>3. FInv /\ Numbered /\ [Next]_vars => [Ordered]_vars  BY NumberedStep DEF InOrder
<1> QED  BY <1>1, <1>2, <1>3, PTL DEF Spec, RecordedTurnsInOrder

------------------------------------------------------------------------------
(****************************************************************************)
(* What Revocation says of any number of servers, requests and revocations: *)
(* once a revocation counts on a server, no sign-in of before it is taken   *)
(* there.                                                                   *)
(*                                                                          *)
(* The argument follows a revocation from the store to each server. The     *)
(* store's time is no earlier than any that was written (Written), so a     *)
(* read asked after a revocation was done finds one at least as late        *)
(* (ReadsRecent), and so does whatever was kept from such a read, or by the *)
(* server that revoked (KeptRecent). What a server keeps at the end of its  *)
(* own revoke is only as late as that began: a revocation of another server *)
(* counts there when that is old, too (CountsOn). So a kept time still      *)
(* young enough to be used was read after every revocation that counts.     *)
(****************************************************************************)

SignInStages == {"writing", "written", "done", "failed"}

Revocations == [srv : Servers, time : Nat, at : SignInStages, done : Nat]

SignInTyped ==
  /\ clock \in Nat /\ notBefore \in Nat
  /\ kept \in [Servers -> [at : Nat, read : Nat]]
  /\ revokes \in Seq(Revocations)
  /\ DOMAIN checks = Checks

Done(r) == revokes[r].at = "done"

\* A token says truly when its user signed in.
Honest(token) == token.since \in Nat /\ token.auth = Seconds(token.since)

TokensHonest ==
  /\ \A token \in tokens : Honest(token)
  /\ \A c \in Checks : checks[c].at # "none" => Honest(checks[c].token)

\* Every time read or kept is a revocation's own, or 0 for none.
Times == {0} \union {revokes[r].time : r \in DOMAIN revokes}

OfRevocations ==
  /\ notBefore \in Times
  /\ \A s \in Servers : kept[s].at \in Times
  /\ \A c \in Checks : checks[c].at = "read" => checks[c].found \in Times

\* What is written has reached the store, and is of the past.
Written ==
  \A r \in DOMAIN revokes :
    /\ revokes[r].time <= clock
    /\ revokes[r].at \in {"written", "done"} => notBefore >= revokes[r].time
    /\ Done(r) => revokes[r].time <= revokes[r].done /\ revokes[r].done <= clock

\* A server has read after a revocation of another, and after its own revokes begun
\* before that one.
Since(r, s) ==
  /\ revokes[r].done < kept[s].read
  /\ \A q \in DOMAIN revokes : BegunBefore(q, r, s) => revokes[q].done < kept[s].read

\* A server's kept time is no earlier than what it revoked itself, nor than
\* what it has read since.
KeptRecent ==
  \A s \in Servers :
    /\ kept[s].read <= clock
    /\ \A r \in DOMAIN revokes :
         Done(r) /\ (s = revokes[r].srv \/ Since(r, s)) => kept[s].at >= revokes[r].time

\* A read finds what was revoked before it was asked for.
ReadIsRecent(k) ==
  k.at \in {"reading", "read"} =>
    LET sees == IF k.at = "reading" THEN notBefore ELSE k.found IN
    /\ k.srv \in Servers /\ k.asked \in Nat /\ k.asked <= clock
    /\ k.due \in Nat /\ k.due <= sees
    /\ \A r \in DOMAIN revokes :
         Done(r) /\ revokes[r].done < k.asked => sees >= revokes[r].time

ReadsRecent == \A c \in Checks : ReadIsRecent(checks[c])

\* RevokedInTime, of one check.
RightVerdict(k) ==
  k.at = "over" =>
    IF k.ok
    THEN Seconds(k.token.since) >= Seconds(k.due)
    ELSE \E r \in DOMAIN revokes : Seconds(k.token.since) < Seconds(revokes[r].time)

IInv ==
  /\ SignInTyped
  /\ TokensHonest
  /\ OfRevocations
  /\ Written
  /\ KeptRecent
  /\ ReadsRecent
  /\ RevokedInTime

-----------------------------------------------------------------------------
(* The operators *)

Less == {ss \in Nat \X Nat : ss[1] < ss[2]}

\* A set of numbers that has a bound has a greatest member.
LEMMA MaxOfBounded ==
  ASSUME NEW S \in SUBSET Nat, S # {}, NEW n \in Nat, \A x \in S : x <= n
  PROVE  Max(S) \in S /\ \A x \in S : x <= Max(S)
<1> DEFINE Above == {m \in Nat : \A x \in S : x <= m}
<1>1. IsWellFoundedOn(Less, Nat)
  BY NatLessThanWellFounded DEF OpToRel, Less
<1>2. PICK m \in Above : \A k \in Above : <<k, m>> \notin Less
  <2>1. Above \subseteq Nat /\ n \in Above
    OBVIOUS
  <2> HIDE DEF Above
  <2> QED
    BY <1>1, <2>1, WFMin
<1>3. m \in S
  <2> SUFFICES ASSUME m \notin S PROVE FALSE
    OBVIOUS
  <2>1. PICK x \in S : TRUE
    OBVIOUS
  <2>2. x < m /\ m \in Nat /\ x \in Nat
    BY <2>1
  <2>3. m - 1 \in Above
    BY <2>2
  <2>4. <<m - 1, m>> \in Less
    BY <2>2 DEF Less
  <2> QED
    BY <1>2, <2>3, <2>4
<1>4. \A x \in S : m >= x
  OBVIOUS
<1> QED
  BY <1>3, <1>4 DEF Max

\* A later time is of no earlier second.
LEMMA SecondsGrow ==
  ASSUME NEW a \in Nat, NEW b \in Nat, a <= b
  PROVE  Seconds(a) \in Nat /\ Seconds(b) \in Nat /\ Seconds(a) <= Seconds(b)
BY RevocationBounds DEF Seconds

LEMMA RevokesTyped ==
  ASSUME SignInTyped
  PROVE  DOMAIN revokes = 1 .. Len(revokes) /\ \A r \in DOMAIN revokes : revokes[r] \in Revocations
BY LenProperties, ElementOfSeq DEF SignInTyped

LEMMA TimesAreNumbers ==
  ASSUME SignInTyped
  PROVE  Times \subseteq Nat
BY RevokesTyped DEF Times, Revocations

\* What counts on a server is a revocation's time, and no earlier than any other
\* that counts there.
LEMMA CountsIs ==
  ASSUME SignInTyped, Written, NEW s \in Servers
  PROVE  /\ Counts(s) \in Nat
         /\ Counts(s) # 0 =>
              \E r \in DOMAIN revokes :
                CountsOn(r, s) /\ Counts(s) = revokes[r].time
<1> DEFINE Counting == {revokes[r].time : r \in {r \in DOMAIN revokes : CountsOn(r, s)}}
<1>1. \A r \in DOMAIN revokes : revokes[r].time \in Nat /\ revokes[r].time <= clock
  BY RevokesTyped DEF Written, Revocations
<1>2. {0} \union Counting \in SUBSET Nat /\ \A x \in {0} \union Counting : x <= clock
  <2>1. \A x \in Counting : x \in Nat /\ x <= clock
    BY <1>1
  <2>2. 0 <= clock
    BY DEF SignInTyped
  <2> QED
    BY <2>1, <2>2
<1>3. Max({0} \union Counting) \in {0} \union Counting
  <2> HIDE DEF Counting
  <2> QED
    BY <1>2, MaxOfBounded DEF SignInTyped
<1> QED
  BY <1>2, <1>3 DEF Counts, Latest

\* A verdict on what was kept or found no earlier than what counted is right.
LEMMA JudgedRight ==
  ASSUME SignInTyped,
         NEW k, Honest(k.token), k.due \in Nat, NEW at \in Times, k.due <= at
  PROVE  RightVerdict(Judged(k, at))
<1> DEFINE token == k.token
           due == k.due
<1> SUFFICES IF Accepts(token, at)
             THEN Seconds(token.since) >= Seconds(due)
             ELSE \E r \in DOMAIN revokes : Seconds(token.since) < Seconds(revokes[r].time)
  BY DEF RightVerdict, Judged
<1>1. at \in Nat
  BY TimesAreNumbers
<1>2. /\ Seconds(due) <= Seconds(at) /\ Seconds(due) \in Nat /\ Seconds(at) \in Nat
      /\ Seconds(token.since) \in Nat
  BY <1>1, SecondsGrow DEF Honest
<1>3. CASE Accepts(token, at)
  <2>1. CASE at = 0
    <3>1. due = 0
      BY <2>1
    <3>2. Seconds(0) <= Seconds(token.since)
      BY SecondsGrow DEF Honest
    <3> QED
      BY <1>3, <3>1, <3>2, <1>2
  <2>2. CASE token.auth >= Seconds(at)
    BY <1>2, <1>3, <2>2 DEF Honest
  <2> QED
    BY <1>3, <2>1, <2>2 DEF Accepts
<1>4. CASE ~Accepts(token, at)
  BY <1>2, <1>4 DEF Accepts, Honest, Times
<1> QED
  BY <1>3, <1>4

-----------------------------------------------------------------------------
(* The inductive invariant *)

LEMMA InitIInv == SignInInit => IInv
<1> SUFFICES ASSUME SignInInit PROVE IInv
  OBVIOUS
<1>1. SignInTyped /\ DOMAIN revokes = {}
  BY EmptySeq DEF SignInInit, SignInTyped
<1> QED
  BY <1>1 DEF SignInInit, IInv, TokensHonest, OfRevocations, Times, Written, KeptRecent,
     ReadsRecent, ReadIsRecent, RevokedInTime, NoCheck

\* Time passes.
LEMMA TickStep == ASSUME IInv, Tick PROVE IInv'
<1>1. SignInTyped' /\ clock <= clock' /\ clock \in Nat /\ clock' \in Nat
  BY DEF Tick, IInv, SignInTyped
<1>2. UNCHANGED <<notBefore, kept, revokes, tokens, checks>>
  BY DEF Tick
<1>3. \A r \in DOMAIN revokes : revokes[r] \in Revocations
  BY RevokesTyped DEF IInv
<1>4. Written'
  BY <1>1, <1>2, <1>3 DEF IInv, Written, Done, Revocations
<1>5. KeptRecent'
  BY <1>1, <1>2, <1>3 DEF IInv, SignInTyped, KeptRecent, Since, BegunBefore, Done
<1>6. ReadsRecent'
  BY <1>1, <1>2 DEF IInv, ReadsRecent, ReadIsRecent, Done
<1> QED
  BY <1>1, <1>2, <1>4, <1>5, <1>6
  DEF IInv, TokensHonest, OfRevocations, Times, RevokedInTime, Done

\* A token is issued, of a time that is now or another token's.
LEMMA IssueStep ==
  ASSUME IInv, NEW since, NEW auth, Issue(since, auth),
         Honest([since |-> since, auth |-> auth]),
         DOMAIN checks' = Checks, \A c \in Checks : checks'[c] = checks[c] \/ checks'[c] = NoCheck
  PROVE  IInv'
<1>1. UNCHANGED <<clock, notBefore, kept, revokes>>
  BY DEF Issue
<1>2. SignInTyped'
  BY <1>1 DEF IInv, SignInTyped
<1>3. TokensHonest'
  BY DEF IInv, TokensHonest, Issue, NoCheck, Honest
<1>4. ReadsRecent'
  BY <1>1 DEF IInv, ReadsRecent, ReadIsRecent, NoCheck, Done
<1>5. RevokedInTime'
  BY <1>1 DEF IInv, RevokedInTime, NoCheck
<1>6. OfRevocations'
  BY <1>1 DEF IInv, OfRevocations, Times, NoCheck
<1> QED
  BY <1>1, <1>2, <1>3, <1>4, <1>5, <1>6
  DEF IInv, Written, KeptRecent, Since, BegunBefore, Done

\* A check goes on to k, and the server may keep what it read.
LEMMA CheckStep ==
  ASSUME IInv, NEW c \in Checks, NEW k,
         checks' = [checks EXCEPT ![c] = k], UNCHANGED <<clock, notBefore, revokes, tokens>>,
         k.at # "none" => Honest(k.token), k.at = "read" => k.found \in Times,
         ReadIsRecent(k), RightVerdict(k),
         kept' \in [Servers -> [at : Nat, read : Nat]],
         \A s \in Servers : kept'[s].at \in Times,
         KeptRecent'
  PROVE  IInv'
<1>1. DOMAIN checks' = Checks /\ \A d \in Checks : checks'[d] = checks[d] \/ checks'[d] = k
  BY DEF IInv, SignInTyped
<1>2. SignInTyped'
  BY <1>1 DEF IInv, SignInTyped
<1>3. TokensHonest'
  BY <1>1 DEF IInv, TokensHonest, Honest
<1>4. OfRevocations'
  BY <1>1 DEF IInv, OfRevocations, Times
<1>5. ReadsRecent'
  BY <1>1 DEF IInv, ReadsRecent, ReadIsRecent, Done
<1>6. RevokedInTime'
  BY <1>1 DEF IInv, RevokedInTime, RightVerdict
<1> QED
  BY <1>2, <1>3, <1>4, <1>5, <1>6 DEF IInv, Written, Done

\* Under the invariant, a kept time still young is later than all that counts.
LEMMA KeptCounts ==
  ASSUME IInv, NEW s \in Servers, clock < kept[s].read + Window
  PROVE  Counts(s) <= kept[s].at
<1>1. kept[s].at \in Nat /\ kept[s].read \in Nat /\ clock \in Nat /\ Window \in Nat
  BY RevocationBounds DEF IInv, SignInTyped
<1>2. CASE Counts(s) = 0
  BY <1>1, <1>2
<1>3. CASE Counts(s) # 0
  <2>1. PICK r \in DOMAIN revokes : CountsOn(r, s) /\ Counts(s) = revokes[r].time
    BY <1>3, CountsIs DEF IInv
  <2>2. revokes[r].time \in Nat /\ revokes[r].done \in Nat
    BY RevokesTyped DEF IInv, Revocations
  <2>3. Done(r) /\ \A q \in DOMAIN revokes : revokes[q].done \in Nat
    BY <2>1, RevokesTyped DEF IInv, Revocations, CountsOn, Promised, Done
  <2>4. s = revokes[r].srv \/ Since(r, s)
    BY <1>1, <2>1, <2>2, <2>3 DEF CountsOn, Promised, Since
  <2> QED
    BY <2>1, <2>3, <2>4, <1>1, <2>2 DEF IInv, KeptRecent
<1> QED
  BY <1>2, <1>3

LEMMA IdentifyStep ==
  ASSUME IInv, NEW c \in Checks, NEW s \in Servers, NEW token \in tokens,
         Identify(c, s, token)
  PROVE  IInv'
<1> DEFINE k == [at |-> "reading", srv |-> s, token |-> token, due |-> Counts(s),
                 said |-> PromisedTime(s), asked |-> clock]
           fresh == kept[s].read # 0 /\ clock < kept[s].read + Window
           new == IF fresh THEN Judged(k, kept[s].at) ELSE k
<1>1. /\ checks' = [checks EXCEPT ![c] = new] /\ UNCHANGED <<clock, notBefore, revokes, tokens>>
      /\ kept' = kept
  BY DEF Identify
<1>2. Honest(token) /\ Counts(s) \in Nat /\ clock \in Nat
  BY CountsIs DEF IInv, TokensHonest, SignInTyped
<1>3. KeptRecent' /\ kept' \in [Servers -> [at : Nat, read : Nat]]
      /\ \A x \in Servers : kept'[x].at \in Times
  BY <1>1 DEF IInv, KeptRecent, Since, BegunBefore, SignInTyped, OfRevocations, Done
<1>4. CASE fresh
  <2>1. new = Judged(k, kept[s].at)
    BY <1>4
  <2>2. RightVerdict(new)
    BY <1>2, <1>3, <1>1, <1>4, <2>1, KeptCounts, JudgedRight DEF IInv
  <2>3. new.at = "over" /\ new.token = token
    BY <2>1 DEF Judged
  <2> HIDE DEF new
  <2> QED
    BY <1>1, <1>2, <1>3, <2>2, <2>3, CheckStep DEF ReadIsRecent
<1>5. CASE ~fresh
  <2>1. new = k
    BY <1>5
  <2>2. \A r \in DOMAIN revokes : Done(r) => notBefore >= revokes[r].time
    BY DEF IInv, Written, Done
  <2>3. Counts(s) <= notBefore
    <3>1. Counts(s) = 0 \/ \E r \in DOMAIN revokes : Done(r) /\ Counts(s) = revokes[r].time
      BY CountsIs DEF IInv, CountsOn, Promised, Done
    <3>2. notBefore \in Nat
      BY DEF IInv, SignInTyped
    <3> QED
      BY <3>1, <3>2, <2>2
  <2>4. ReadIsRecent(k)
    BY <1>2, <2>2, <2>3 DEF ReadIsRecent
  <2>5. new.at = "reading" /\ new.token = token
    BY <2>1
  <2> HIDE DEF new, k
  <2> QED
    BY <1>1, <1>2, <1>3, <2>1, <2>4, <2>5, CheckStep DEF RightVerdict
<1> QED
  BY <1>4, <1>5

LEMMA StoreReadsStep ==
  ASSUME IInv, NEW c \in Checks, StoreReads(c)
  PROVE  IInv'
<1> DEFINE k == checks[c]
           new == [at |-> "read", srv |-> k.srv, token |-> k.token, due |-> k.due,
                   said |-> k.said, asked |-> k.asked, found |-> notBefore]
<1>1. /\ k.at = "reading" /\ checks' = [checks EXCEPT ![c] = new]
      /\ UNCHANGED <<clock, notBefore, revokes, tokens>> /\ kept' = kept
  BY DEF StoreReads
<1>2. KeptRecent' /\ kept' \in [Servers -> [at : Nat, read : Nat]]
      /\ \A x \in Servers : kept'[x].at \in Times
  BY <1>1 DEF IInv, KeptRecent, Since, BegunBefore, SignInTyped, OfRevocations, Done
<1>3. ReadIsRecent(new) /\ Honest(new.token) /\ new.found \in Times /\ new.at = "read"
  BY <1>1 DEF IInv, ReadsRecent, ReadIsRecent, TokensHonest, OfRevocations
<1> HIDE DEF new
<1> QED
  BY <1>1, <1>2, <1>3, CheckStep DEF RightVerdict

\* What is kept of a read is later than what it, or the server, knew before.
LEMMA AnsweredStep ==
  ASSUME IInv, NEW c \in Checks, Answered(c)
  PROVE  IInv'
<1> DEFINE k == checks[c]
           at == Later(k.found, kept[k.srv].at)
<1>1. /\ k.at = "read" /\ kept' = [kept EXCEPT ![k.srv] = [at |-> at, read |-> k.asked]]
      /\ checks' = [checks EXCEPT ![c] = Judged(k, at)]
      /\ UNCHANGED <<clock, notBefore, revokes, tokens>>
  BY DEF Answered
<1>2. /\ k.srv \in Servers /\ k.asked \in Nat /\ k.asked <= clock
      /\ k.due \in Nat /\ k.due <= k.found /\ Honest(k.token)
      /\ \A r \in DOMAIN revokes : Done(r) /\ revokes[r].done < k.asked => k.found >= revokes[r].time
  BY <1>1 DEF IInv, ReadsRecent, ReadIsRecent, TokensHonest
<1>3. k.found \in Times /\ kept[k.srv].at \in Times
  BY <1>1, <1>2 DEF IInv, OfRevocations
<1>4. /\ {k.found, kept[k.srv].at, at} \subseteq Nat
      /\ at \in Times /\ at >= k.found /\ at >= kept[k.srv].at
  <2>1. k.found \in Nat /\ kept[k.srv].at \in Nat
    BY <1>3, TimesAreNumbers DEF IInv
  <2> QED
    BY <1>3, <2>1 DEF Later
<1>5. \A s \in Servers : kept'[s] = IF s = k.srv THEN [at |-> at, read |-> k.asked] ELSE kept[s]
  BY <1>1 DEF IInv, SignInTyped
<1>6. kept' \in [Servers -> [at : Nat, read : Nat]] /\ \A s \in Servers : kept'[s].at \in Times
  BY <1>1, <1>2, <1>3, <1>4, <1>5 DEF IInv, SignInTyped, OfRevocations
<1>7. KeptRecent'
  <2> SUFFICES ASSUME NEW s \in Servers
               PROVE  /\ kept'[s].read <= clock
                      /\ \A r \in DOMAIN revokes :
                           Done(r) /\ (s = revokes[r].srv \/ Since(r, s)')
                             => kept'[s].at >= revokes[r].time
    BY <1>1 DEF KeptRecent, Done
  <2>1. \A r \in DOMAIN revokes : revokes[r].time \in Nat
    BY RevokesTyped DEF IInv, Revocations
  <2>2. CASE s = k.srv
    <3>1. kept'[s].read = k.asked /\ kept'[s].at = at
      BY <1>5, <2>2
    <3>2. ASSUME NEW r \in DOMAIN revokes, Done(r), s = revokes[r].srv
          PROVE  kept[s].at >= revokes[r].time
      BY <3>2 DEF IInv, KeptRecent
    <3>3. ASSUME NEW r \in DOMAIN revokes, Since(r, s)'
          PROVE  revokes[r].done < k.asked
      BY <1>1, <3>1, <3>3 DEF Since
    <3> HIDE DEF at, k
    <3> QED
      BY <1>2, <1>4, <2>1, <2>2, <3>1, <3>2, <3>3
  <2>3. CASE s # k.srv
    <3>1. kept'[s] = kept[s]
      BY <1>5, <2>3
    <3>2. ASSUME NEW r \in DOMAIN revokes, Since(r, s)' PROVE Since(r, s)
      BY <1>1, <3>1, <3>2 DEF Since, BegunBefore
    <3> QED
      BY <3>1, <3>2 DEF IInv, KeptRecent
  <2> QED
    BY <2>2, <2>3
<1>8. RightVerdict(Judged(k, at)) /\ Judged(k, at).token = k.token /\ Judged(k, at).at = "over"
  <2>1. Judged(k, at).token = k.token /\ Judged(k, at).at = "over"
    BY DEF Judged
  <2> HIDE DEF at, k
  <2>2. k.due <= at
    BY <1>2, <1>4
  <2> QED
    BY <1>2, <1>4, <2>1, <2>2, JudgedRight DEF IInv
<1> HIDE DEF at, k
<1> QED
  BY <1>1, <1>2, <1>6, <1>7, <1>8, CheckStep DEF ReadIsRecent

LEMMA LetGoStep ==
  ASSUME IInv, NEW c \in Checks, LetGo(c)
  PROVE  IInv'
<1>1. /\ checks' = [checks EXCEPT ![c] = NoCheck]
      /\ UNCHANGED <<clock, notBefore, revokes, tokens>> /\ kept' = kept
  BY DEF LetGo
<1>2. KeptRecent' /\ kept' \in [Servers -> [at : Nat, read : Nat]]
      /\ \A x \in Servers : kept'[x].at \in Times
  BY <1>1 DEF IInv, KeptRecent, Since, BegunBefore, SignInTyped, OfRevocations, Done
<1>3. NoCheck.at = "none"
  BY DEF NoCheck
<1> QED
  BY <1>1, <1>2, <1>3, CheckStep DEF ReadIsRecent, RightVerdict

\* A revocation begins.
LEMMA RevokeStep ==
  ASSUME IInv, NEW s \in Servers, Revoke(s)
  PROVE  IInv'
<1> DEFINE new == [srv |-> s, time |-> clock, at |-> "writing", done |-> 0]
           n == Len(revokes) + 1
<1>1. revokes' = Append(revokes, new) /\ UNCHANGED <<clock, notBefore, kept, tokens, checks>>
  BY DEF Revoke
<1>2. /\ revokes' \in Seq(Revocations) /\ DOMAIN revokes' = DOMAIN revokes \union {n}
      /\ n \notin DOMAIN revokes /\ revokes'[n] = new
      /\ \A r \in DOMAIN revokes : revokes'[r] = revokes[r]
  <2>1. new \in Revocations /\ revokes \in Seq(Revocations)
    BY DEF IInv, SignInTyped, Revocations, SignInStages
  <2>2. /\ Append(revokes, new) \in Seq(Revocations)
        /\ Len(Append(revokes, new)) = n
        /\ \A r \in 1 .. Len(revokes) : Append(revokes, new)[r] = revokes[r]
        /\ Append(revokes, new)[n] = new
    BY <2>1, AppendProperties
  <2>3. /\ DOMAIN revokes = 1 .. Len(revokes) /\ Len(revokes) \in Nat
        /\ DOMAIN Append(revokes, new) = 1 .. n
    BY <2>1, <2>2, LenProperties
  <2> QED
    BY <1>1, <2>2, <2>3
<1>3. new.srv = s /\ new.time = clock /\ new.at = "writing"
  OBVIOUS
<1> HIDE DEF new, n
<1>4. ASSUME NEW r \in DOMAIN revokes, NEW x \in Servers, Since(r, x)' PROVE Since(r, x)
  BY <1>1, <1>2, <1>4 DEF Since, BegunBefore
<1>5. SignInTyped'
  BY <1>1, <1>2 DEF IInv, SignInTyped
<1>6. OfRevocations'
  BY <1>1, <1>2 DEF IInv, OfRevocations, Times
<1>7. Written'
  BY <1>1, <1>2, <1>3 DEF IInv, SignInTyped, Written, Done
<1>8. KeptRecent'
  BY <1>1, <1>2, <1>3, <1>4 DEF IInv, KeptRecent, Done
<1>9. ReadsRecent'
  BY <1>1, <1>2, <1>3 DEF IInv, ReadsRecent, ReadIsRecent, Done
<1>10. RevokedInTime'
  BY <1>1, <1>2 DEF IInv, RevokedInTime
<1> QED
  BY <1>1, <1>5, <1>6, <1>7, <1>8, <1>9, <1>10 DEF IInv, TokensHonest, Honest

\* What a change of one revocation's stage leaves alone.
LEMMA StageStep ==
  ASSUME IInv, NEW r \in DOMAIN revokes, NEW stage \in SignInStages, NEW done \in Nat,
         revokes' = [revokes EXCEPT ![r].at = stage, ![r].done = done],
         UNCHANGED <<clock, tokens, checks>>,
         notBefore' \in Times, kept' \in [Servers -> [at : Nat, read : Nat]],
         \A s \in Servers : kept'[s].at \in Times
  PROVE  /\ SignInTyped' /\ TokensHonest' /\ OfRevocations' /\ RevokedInTime'
         /\ DOMAIN revokes' = DOMAIN revokes
         /\ \A q \in DOMAIN revokes :
              /\ revokes'[q].srv = revokes[q].srv /\ revokes'[q].time = revokes[q].time
              /\ q # r => revokes'[q] = revokes[q]
         /\ revokes'[r].at = stage /\ revokes'[r].done = done
<1> DEFINE new == [revokes[r] EXCEPT !.at = stage, !.done = done]
<1>1. revokes' = [revokes EXCEPT ![r] = new]
  OBVIOUS
<1>2. /\ revokes[r] \in Revocations /\ r \in 1 .. Len(revokes)
      /\ DOMAIN revokes = 1 .. Len(revokes)
  BY RevokesTyped DEF IInv
<1>3. /\ new \in Revocations /\ new.srv = revokes[r].srv /\ new.time = revokes[r].time
      /\ new.at = stage /\ new.done = done
  BY <1>2 DEF Revocations
<1> HIDE DEF new
<1>4. revokes' \in Seq(Revocations)
  <2>1. revokes \in Seq(Revocations)
    BY DEF IInv, SignInTyped
  <2>2. [revokes EXCEPT ![r] = new] \in Seq(Revocations)
    BY <1>2, <1>3, <2>1, ExceptSeq
  <2> QED
    BY <1>1, <2>2
<1>5. /\ DOMAIN revokes' = DOMAIN revokes /\ revokes'[r] = new
      /\ \A q \in DOMAIN revokes : q # r => revokes'[q] = revokes[q]
  BY <1>1
<1>6. Times' = Times
  BY <1>3, <1>5 DEF Times
<1>7. SignInTyped'
  BY <1>4, TimesAreNumbers DEF IInv, SignInTyped
<1>8. TokensHonest' /\ OfRevocations'
  BY <1>6 DEF IInv, TokensHonest, Honest, OfRevocations
<1>9. RevokedInTime'
  BY <1>3, <1>5 DEF IInv, RevokedInTime
<1> QED
  BY <1>3, <1>5, <1>7, <1>8, <1>9

LEMMA StoreWritesStep ==
  ASSUME IInv, NEW r \in DOMAIN revokes, StoreWrites(r)
  PROVE  IInv'
<1>1. /\ revokes[r].at = "writing" /\ notBefore' = Later(revokes[r].time, notBefore)
      /\ UNCHANGED <<clock, kept, tokens, checks>>
  BY DEF StoreWrites
<1>2. /\ revokes[r].time \in Nat /\ revokes[r].done \in Nat /\ revokes[r].time \in Times
      /\ notBefore \in Nat /\ notBefore \in Times
      /\ \A q \in DOMAIN revokes : revokes[q].time \in Nat
  BY RevokesTyped DEF IInv, SignInTyped, Revocations, Times, OfRevocations
<1>3. /\ notBefore' \in Nat /\ notBefore' \in Times
      /\ notBefore' >= notBefore /\ notBefore' >= revokes[r].time
  BY <1>1, <1>2 DEF Later
<1>4. revokes' = [revokes EXCEPT ![r].at = "written", ![r].done = revokes[r].done]
  <2>1. revokes[r] \in Revocations
    BY RevokesTyped DEF IInv
  <2>2. [revokes[r] EXCEPT !.at = "written"]
          = [revokes[r] EXCEPT !.at = "written", !.done = revokes[r].done]
    BY <2>1 DEF Revocations
  <2> QED
    BY <2>2 DEF StoreWrites
<1>5. kept' \in [Servers -> [at : Nat, read : Nat]] /\ \A s \in Servers : kept'[s].at \in Times
  BY <1>1 DEF IInv, SignInTyped, OfRevocations
<1>6. /\ SignInTyped' /\ TokensHonest' /\ OfRevocations' /\ RevokedInTime'
      /\ DOMAIN revokes' = DOMAIN revokes
      /\ \A q \in DOMAIN revokes :
           /\ revokes'[q].srv = revokes[q].srv /\ revokes'[q].time = revokes[q].time
           /\ q # r => revokes'[q] = revokes[q]
      /\ revokes'[r].at = "written"
  BY <1>1, <1>2, <1>3, <1>4, <1>5, StageStep DEF SignInStages
<1>7. Written'
  BY <1>1, <1>2, <1>3, <1>6 DEF IInv, Written, Done
<1>8. ASSUME NEW q \in DOMAIN revokes, NEW s \in Servers, Done(q), Since(q, s)' PROVE Since(q, s)
  BY <1>1, <1>6, <1>8 DEF Since, BegunBefore, Done
<1>9. KeptRecent'
  BY <1>1, <1>6, <1>8 DEF IInv, KeptRecent, Done
<1>10. ReadsRecent'
  BY <1>1, <1>2, <1>3, <1>6 DEF IInv, ReadsRecent, ReadIsRecent, Done
<1> QED
  BY <1>6, <1>7, <1>9, <1>10 DEF IInv

\* It is over, and the server keeps its time. A revocation of another server that is
\* later than this one counts there no more, and is no longer read since.
LEMMA RevokedStep ==
  ASSUME IInv, NEW r \in DOMAIN revokes, Revoked(r)
  PROVE  IInv'
<1> DEFINE s == revokes[r].srv
           at == Later(revokes[r].time, kept[s].at)
<1>1. /\ revokes[r].at = "written" /\ UNCHANGED <<clock, notBefore, tokens, checks>>
      /\ kept' = [kept EXCEPT ![s] = [at |-> at, read |-> clock]]
      /\ revokes' = [revokes EXCEPT ![r].at = "done", ![r].done = clock]
  BY DEF Revoked
<1>2. /\ s \in Servers /\ clock \in Nat
      /\ \A q \in DOMAIN revokes : revokes[q].time \in Nat /\ revokes[q].done \in Nat
      /\ revokes[r].time \in Times
  BY RevokesTyped DEF IInv, SignInTyped, Revocations, Times
<1>3. kept[s].at \in Nat /\ kept[s].at \in Times
  BY <1>2 DEF IInv, SignInTyped, OfRevocations
<1>4. at \in Nat /\ at \in Times /\ at >= revokes[r].time /\ at >= kept[s].at
  BY <1>2, <1>3 DEF Later
<1>5. \A x \in Servers : kept'[x] = IF x = s THEN [at |-> at, read |-> clock] ELSE kept[x]
  BY <1>1, <1>2 DEF IInv, SignInTyped
<1>6. kept' \in [Servers -> [at : Nat, read : Nat]] /\ \A x \in Servers : kept'[x].at \in Times
  BY <1>1, <1>2, <1>4, <1>5 DEF IInv, SignInTyped, OfRevocations
<1> HIDE DEF at
<1>7. notBefore \in Times
  BY DEF IInv, OfRevocations
<1>8. /\ SignInTyped' /\ TokensHonest' /\ OfRevocations' /\ RevokedInTime'
      /\ DOMAIN revokes' = DOMAIN revokes
      /\ \A q \in DOMAIN revokes :
           /\ revokes'[q].srv = revokes[q].srv /\ revokes'[q].time = revokes[q].time
           /\ q # r => revokes'[q] = revokes[q]
      /\ revokes'[r].at = "done" /\ revokes'[r].done = clock
  BY <1>1, <1>2, <1>6, <1>7, StageStep DEF SignInStages
<1>9. Written'
  BY <1>1, <1>2, <1>8 DEF IInv, Written, Done
<1>10. KeptRecent'
  <2> SUFFICES ASSUME NEW x \in Servers
               PROVE  /\ kept'[x].read <= clock
                      /\ \A q \in DOMAIN revokes :
                           Done(q)' /\ (x = revokes[q].srv \/ Since(q, x)')
                             => kept'[x].at >= revokes[q].time
    BY <1>1, <1>8 DEF KeptRecent
  <2>1. CASE x # s
    <3>1. kept'[x] = kept[x] /\ kept[x].read <= clock /\ kept[x].read \in Nat
      BY <1>5, <2>1 DEF IInv, KeptRecent, SignInTyped
    <3>2. ASSUME NEW q \in DOMAIN revokes, Done(q)', x = revokes[q].srv \/ Since(q, x)'
          PROVE  Done(q) /\ (x = revokes[q].srv \/ Since(q, x))
      <4>1. q # r
        BY <1>2, <1>8, <2>1, <3>1, <3>2 DEF Since
      <4>2. Done(q) /\ revokes'[q] = revokes[q]
        BY <1>8, <3>2, <4>1 DEF Done
      <4>3. ASSUME Since(q, x)' PROVE Since(q, x)
        BY <1>1, <1>8, <2>1, <3>1, <4>2, <4>3 DEF Since, BegunBefore
      <4> QED
        BY <3>2, <4>2, <4>3
    <3> QED
      BY <3>1, <3>2 DEF IInv, KeptRecent
  <2>2. CASE x = s
    <3>1. kept'[x].read = clock /\ kept'[x].at = at
      BY <1>5, <2>2
    <3> SUFFICES ASSUME NEW q \in DOMAIN revokes, Done(q)', x = revokes[q].srv \/ Since(q, x)'
                 PROVE  at >= revokes[q].time
      BY <1>2, <3>1
    <3>2. CASE q = r
      BY <1>4, <3>2
    <3>3. CASE q # r /\ revokes[q].srv = s
      <4>1. Done(q)
        BY <1>8, <3>3 DEF Done
      <4>2. kept[s].at >= revokes[q].time
        BY <1>2, <3>3, <4>1 DEF IInv, KeptRecent
      <4> QED
        BY <1>2, <1>3, <1>4, <4>2
    <3>4. CASE q # r /\ revokes[q].srv # s
      <4>1. Since(q, x)'
        BY <2>2, <3>4
      <4>2. ~BegunBefore(r, q, x)'
        BY <1>2, <1>8, <3>1, <4>1 DEF Since
      <4>3. revokes[r].time >= revokes[q].time
        BY <1>2, <1>8, <2>2, <4>2 DEF BegunBefore
      <4> QED
        BY <1>2, <1>4, <4>3
    <3> QED
      BY <3>2, <3>3, <3>4
  <2> QED
    BY <2>1, <2>2
<1>11. ReadsRecent'
  BY <1>1, <1>2, <1>8 DEF IInv, ReadsRecent, ReadIsRecent, Done
<1> QED
  BY <1>8, <1>9, <1>10, <1>11 DEF IInv

LEMMA RevokeFailsStep ==
  ASSUME IInv, NEW r \in DOMAIN revokes, RevokeFails(r)
  PROVE  IInv'
<1>1. Under(r) /\ UNCHANGED <<clock, notBefore, kept, tokens, checks>>
  BY DEF RevokeFails
<1>2. revokes' = [revokes EXCEPT ![r].at = "failed", ![r].done = revokes[r].done]
  <2>1. revokes[r] \in Revocations
    BY RevokesTyped DEF IInv
  <2>2. [revokes[r] EXCEPT !.at = "failed"]
          = [revokes[r] EXCEPT !.at = "failed", !.done = revokes[r].done]
    BY <2>1 DEF Revocations
  <2> QED
    BY <2>2 DEF RevokeFails
<1>3. /\ notBefore' \in Times /\ revokes[r].done \in Nat
      /\ kept' \in [Servers -> [at : Nat, read : Nat]] /\ \A s \in Servers : kept'[s].at \in Times
  BY <1>1, RevokesTyped DEF IInv, SignInTyped, Revocations, OfRevocations
<1>4. /\ SignInTyped' /\ TokensHonest' /\ OfRevocations' /\ RevokedInTime'
      /\ DOMAIN revokes' = DOMAIN revokes
      /\ \A q \in DOMAIN revokes :
           /\ revokes'[q].srv = revokes[q].srv /\ revokes'[q].time = revokes[q].time
           /\ q # r => revokes'[q] = revokes[q]
      /\ revokes'[r].at = "failed"
  BY <1>1, <1>2, <1>3, StageStep DEF SignInStages
<1>5. Written'
  BY <1>1, <1>4 DEF IInv, Written, Done
<1>6. ASSUME NEW q \in DOMAIN revokes, NEW s \in Servers, Done(q)', Since(q, s)'
      PROVE  Done(q) /\ Since(q, s)
  <2>1. ~Done(r)
    BY <1>1 DEF Under, Done
  <2>2. q # r /\ Done(q)
    BY <1>4, <1>6 DEF Done
  <2>3. \A p \in DOMAIN revokes : BegunBefore(p, q, s) => p # r /\ BegunBefore(p, q, s)'
    BY <1>4, <2>1 DEF BegunBefore, Done
  <2> QED
    BY <1>1, <1>4, <1>6, <2>2, <2>3 DEF Since
<1>7. KeptRecent'
  BY <1>1, <1>4, <1>6 DEF IInv, KeptRecent, Done
<1>8. ReadsRecent'
  BY <1>1, <1>4 DEF IInv, ReadsRecent, ReadIsRecent, Done
<1> QED
  BY <1>4, <1>5, <1>7, <1>8 DEF IInv

LEMMA NextStep ==
  ASSUME IInv, [SignInNext]_signInVars
  PROVE  IInv'
<1>1. CASE SignIn
  <2>1. Honest([since |-> clock, auth |-> Seconds(clock)])
    BY DEF IInv, SignInTyped, Honest
  <2>2. checks' = checks /\ DOMAIN checks = Checks
    BY <1>1 DEF SignIn, IInv, SignInTyped
  <2> QED
    BY <1>1, <2>1, <2>2, IssueStep DEF SignIn
<1>2. ASSUME NEW c \in Checks, Renew(c) PROVE IInv'
  <2> DEFINE since == checks[c].token.since
             auth == checks[c].token.auth
  <2>1. Honest([since |-> since, auth |-> auth]) /\ Issue(since, auth)
    BY <1>2 DEF IInv, TokensHonest, Honest, Renew
  <2>2. DOMAIN checks' = Checks /\ \A d \in Checks : checks'[d] = checks[d] \/ checks'[d] = NoCheck
    BY <1>2 DEF IInv, SignInTyped, Renew
  <2> HIDE DEF since, auth
  <2> QED
    BY <2>1, <2>2, IssueStep
<1>3. CASE UNCHANGED signInVars
  <2> QED
    BY <1>3 DEF signInVars, IInv, SignInTyped, TokensHonest, Honest, OfRevocations, Times, Written,
       KeptRecent, Since, BegunBefore, ReadsRecent, ReadIsRecent, RevokedInTime, Done
<1> QED
  BY <1>1, <1>2, <1>3, TickStep, IdentifyStep, StoreReadsStep, AnsweredStep, LetGoStep,
     RevokeStep, StoreWritesStep, RevokedStep, RevokeFailsStep
  DEF SignInNext

-----------------------------------------------------------------------------
(* The property the runs check *)

\* notBeforeOf's cache of revocation times, its reads and revoke's writes: once a
\* revocation counts on a server, no sign-in of before it is taken there, however
\* many servers read and revoke meanwhile. One of another server's counts when all
\* that was read before it was over is old, and all that a revoke begun before it
\* kept there at its end.
THEOREM RevokedOnTime == SignInSpec => []RevokedInTime
<1>1. IInv /\ [SignInNext]_signInVars => IInv'
  BY NextStep
<1>2. IInv => RevokedInTime
  BY DEF IInv
<1> QED
  BY InitIInv, <1>1, <1>2, PTL DEF SignInSpec
==============================================================================
