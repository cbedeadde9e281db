------------------------ MODULE WakeAttempts_proofs -------------------------
(***************************************************************************)
(* What WakeAttempts says of any number of streams, notices and requests:  *)
(* a server settles no notice that is not taken in on the row, or was not  *)
(* found to be no reason to wake the model.                                *)
(*                                                                         *)
(* An attempt takes in before the model runs, and gives back what it took  *)
(* in if the turn fails, so what the row says is decided also falls. What  *)
(* never falls is the Floor: what the row will say at least, whatever the  *)
(* attempt with its fence comes to. What an attempt found decided is no    *)
(* more than the Floor (FoundSo), and what it is about to settle is no     *)
(* more than the Floor or what was judged, unless it woke the model and    *)
(* still has the fence: that is on the row, and what it settles it has not *)
(* given back (Settling). What an overtaken attempt took in stays, for it  *)
(* can no longer give it back.                                             *)
(***************************************************************************)
EXTENDS WakeAttempts, TLAPS

Attempted ==
  [pc : Stages, through : Nat, again : BOOLEAN, outcome : Outcomes, decided : Nat,
   before : Nat, own : BOOLEAN, failed : Nat]

Row == [holder : Stream \union {Other, None}, held : BOOLEAN, decided : Nat]
Entry == [there : BOOLEAN, read : Nat, settled : Nat \union {-1}]

Typed ==
  /\ row \in Row
  /\ notices \in Nat /\ judged \in Nat
  /\ watchers \in Entry
  /\ waking \in [Stream -> Attempted]

\* Nothing is known of but what there is.
Known(a) == a.through <= notices /\ a.decided <= notices /\ a.before <= notices
AllKnown ==
  /\ judged <= notices /\ row.decided <= notices /\ watchers.read <= notices
  /\ \A x \in Stream : Known(waking[x])

Lesser(m, n) == IF m < n THEN m ELSE n

\* What the row may yet say is decided, of what it does: an attempt that is
\* under way with its fence may take back what it took in.
Least(a) == IF a.pc = "commit" \/ a.outcome = "woke" THEN a.before ELSE a.decided
Ending(a) == a.pc \in {"commit", "save"}
Standing(d, a) == IF Ending(a) THEN Lesser(d, Least(a)) ELSE d
Floor ==
  IF row.holder \in Stream THEN Standing(row.decided, waking[row.holder]) ELSE row.decided

\* An attempt takes in no less than it found decided.
TakesIn(a) == a.pc = "commit" \/ (a.pc = "save" /\ a.outcome = "woke") => a.before <= a.decided

\* What an attempt found decided stays so, and with the fence is all that is.
FoundSo(x) ==
  At(x, "lease") => waking[x].decided <= Floor /\ (Fence(x) => waking[x].decided = row.decided)

\* What an attempt is to settle is decided or judged, or will be with its save.
Settling(x) ==
  At(x, "save") /\ waking[x].outcome \in {"idle", "limited", "woke"} =>
    IF waking[x].outcome = "woke" /\ Fence(x)
    THEN waking[x].through <= waking[x].decided /\ waking[x].decided = row.decided
    ELSE waking[x].through <= Higher(Floor, judged)

\* Whoever is about to take in takes in what it is asked for.
Committing(x) == At(x, "commit") => waking[x].through <= waking[x].decided

AInv ==
  /\ Typed /\ AllKnown
  /\ \A x \in Stream : TakesIn(waking[x]) /\ FoundSo(x) /\ Settling(x) /\ Committing(x)
  /\ watchers.settled <= Higher(Floor, judged)

-----------------------------------------------------------------------------
LEMMA StandingIs ==
  ASSUME NEW d \in Nat, NEW a \in Attempted
  PROVE  Standing(d, a) \in Nat /\ Standing(d, a) <= d
BY DEF Standing, Lesser, Least, Attempted

LEMMA FloorIs == Typed => Floor \in Nat /\ Floor <= row.decided
<1> HAVE Typed
<1>1. row.decided \in Nat  BY DEF Typed, Row
<1>2. CASE row.holder \in Stream
  <2>1. waking[row.holder] \in Attempted  BY <1>2 DEF Typed
  <2>2. PICK m : m = Standing(row.decided, waking[row.holder])  OBVIOUS
  <2>3. m \in Nat /\ m <= row.decided  BY <1>1, <2>1, <2>2, StandingIs
  <2> QED  BY <1>2, <2>2, <2>3 DEF Floor
<1>3. CASE row.holder \notin Stream
  <2>1. Floor = row.decided  BY <1>3 DEF Floor
  <2> QED  BY <1>1, <2>1
<1> QED  BY <1>2, <1>3

\* The same of the next state.
LEMMA FloorIsNext == Typed' => Floor' \in Nat /\ Floor' <= row'.decided
<1> HAVE Typed'
<1>1. row'.decided \in Nat  BY DEF Typed, Row
<1>2. CASE row'.holder \in Stream
  <2>1. PICK b : b = waking'[row'.holder]  OBVIOUS
  <2>2. b \in Attempted  BY <1>2, <2>1 DEF Typed
  <2>3. PICK m : m = Standing(row'.decided, b)  OBVIOUS
  <2>4. m \in Nat /\ m <= row'.decided  BY <1>1, <2>2, <2>3, StandingIs
  <2> QED  BY <1>2, <2>1, <2>3, <2>4 DEF Floor
<1>3. CASE row'.holder \notin Stream
  <2>1. Floor' = row'.decided  BY <1>3 DEF Floor
  <2> QED  BY <1>1, <2>1
<1> QED  BY <1>2, <1>3

Quiet(a) == a.pc \notin {"lease", "commit", "save"}

SameTurn(a, b) ==
  /\ b.pc = a.pc /\ b.through = a.through /\ b.outcome = a.outcome
  /\ b.decided = a.decided /\ b.before = a.before

\* An attempt that a step leaves where it was, or in no turn.
Along(y) == SameTurn(waking[y], waking'[y]) \/ (Quiet(waking[y]) /\ Quiet(waking'[y]))

LEMMA FloorKept ==
  ASSUME row'.holder = row.holder, row'.decided = row.decided,
         row.holder \in Stream => Along(row.holder)
  PROVE  Floor' = Floor
<1>1. CASE row.holder \in Stream
  <2>1. PICK a, b : a = waking[row.holder] /\ b = waking'[row.holder]  OBVIOUS
  <2>2. SameTurn(a, b) \/ (Quiet(a) /\ Quiet(b))  BY <1>1, <2>1 DEF Along
  <2>3. PICK d : d = row.decided  OBVIOUS
  <2>4. Standing(d, b) = Standing(d, a)
    BY <2>2 DEF SameTurn, Quiet, Ending, Least, Standing
  <2> QED  BY <1>1, <2>1, <2>3, <2>4 DEF Floor
<1>2. CASE row.holder \notin Stream  BY <1>2 DEF Floor
<1> QED  BY <1>1, <1>2

Stands(x) == TakesIn(waking[x]) /\ FoundSo(x) /\ Settling(x) /\ Committing(x)

LEMMA AlongStands ==
  ASSUME AInv, Typed', NEW y \in Stream, Along(y), Floor' >= Floor, judged' >= judged,
         \/ row'.holder = row.holder /\ (row.holder = y => row'.decided = row.decided)
         \/ row'.holder # y /\ Floor' >= row.decided
  PROVE  Stands(y)'
<1> PICK a, b : a = waking[y] /\ b = waking'[y]  OBVIOUS
<1>1. /\ Floor \in Nat /\ Floor' \in Nat /\ judged \in Nat /\ judged' \in Nat
      /\ row.decided \in Nat /\ row'.decided \in Nat
      /\ a \in Attempted /\ b \in Attempted /\ Floor <= row.decided /\ Floor' <= row'.decided
  BY FloorIs, FloorIsNext DEF AInv, Typed, Row, Entry
<1>2. CASE Quiet(b)
  BY <1>2 DEF Stands, Quiet, TakesIn, FoundSo, Settling, Committing, At
<1>3. CASE SameTurn(a, b)
  <2>1. TakesIn(b) /\ Committing(y)'
    BY <1>3 DEF AInv, SameTurn, TakesIn, Committing, At
  <2>2. FoundSo(y)'
    <3> SUFFICES ASSUME b.pc = "lease"
                 PROVE  b.decided <= Floor' /\ (row'.holder = y => b.decided = row'.decided)
      BY DEF FoundSo, At, Fence
    <3>1. a.decided <= Floor /\ (row.holder = y => a.decided = row.decided) /\ b.decided = a.decided
      BY <1>3 DEF AInv, SameTurn, FoundSo, At, Fence
    <3>2. a.decided \in Nat  BY <1>1 DEF Attempted
    <3>3. b.decided <= Floor'  BY <1>1, <3>1, <3>2
    <3>4. row'.holder = y => row.holder = y /\ row'.decided = row.decided  OBVIOUS
    <3> QED  BY <3>1, <3>3, <3>4
  <2>3. Settling(y)'
    <3> SUFFICES ASSUME b.pc = "save", b.outcome \in {"idle", "limited", "woke"}
                 PROVE  IF b.outcome = "woke" /\ row'.holder = y
                        THEN b.through <= b.decided /\ b.decided = row'.decided
                        ELSE b.through <= Higher(Floor', judged')
      BY DEF Settling, At, Fence
    <3>1. /\ b.outcome = a.outcome /\ b.through = a.through /\ b.decided = a.decided
          /\ IF a.outcome = "woke" /\ row.holder = y
             THEN a.through <= a.decided /\ a.decided = row.decided
             ELSE a.through <= Higher(Floor, judged)
      BY <1>3 DEF AInv, SameTurn, Settling, At, Fence
    <3>2. a.decided \in Nat /\ a.through \in Nat  BY <1>1 DEF Attempted
    <3>3. Higher(Floor, judged) <= Higher(Floor', judged') /\ Higher(Floor, judged) \in Nat
          /\ Higher(Floor', judged') \in Nat /\ Floor' <= Higher(Floor', judged')
      BY <1>1 DEF Higher
    <3>4. CASE a.outcome = "woke" /\ row.holder = y
      <4>1. CASE row'.holder = y  BY <3>1, <3>4, <4>1
      <4>2. CASE row'.holder # y
        <5>1. a.through <= Floor'  BY <1>1, <3>1, <3>2, <3>4, <4>2
        <5> QED  BY <1>1, <3>1, <3>2, <3>3, <4>2, <5>1
      <4> QED  BY <4>1, <4>2
    <3>5. CASE ~(a.outcome = "woke" /\ row.holder = y)
      <4>1. ~(b.outcome = "woke" /\ row'.holder = y)  BY <3>1, <3>5
      <4>2. a.through <= Higher(Floor', judged')  BY <3>1, <3>2, <3>3, <3>5
      <4> QED  BY <3>1, <4>1, <4>2
    <3> QED  BY <3>4, <3>5
  <2> QED  BY <2>1, <2>2, <2>3 DEF Stands
<1> QED  BY <1>2, <1>3 DEF Along

\* What is settled stays decided or judged, as both only grow.
LEMMA SettledStays ==
  ASSUME AInv, Typed', Floor' >= Floor, judged' >= judged,
         watchers'.settled <= watchers.settled
  PROVE  watchers'.settled <= Higher(Floor', judged')
<1>1. /\ Floor \in Nat /\ Floor' \in Nat /\ judged \in Nat /\ judged' \in Nat
      /\ watchers.settled \in Int /\ watchers'.settled \in Int
  BY FloorIs, FloorIsNext DEF AInv, Typed, Row, Entry
<1>2. watchers.settled <= Higher(Floor, judged)  BY DEF AInv
<1> QED  BY <1>1, <1>2 DEF Higher

\* A step in which no attempt's turn goes on, nor the row's.
LEMMA QuietHolds ==
  ASSUME AInv, Typed', row'.holder = row.holder, row'.decided = row.decided, judged' = judged,
         notices' >= notices, \A y \in Stream : Along(y) /\ Known(waking[y])',
         watchers'.read <= notices', watchers'.settled <= watchers.settled
  PROVE  AInv'
<1>1. Floor' = Floor  BY FloorKept
<1>2. Floor \in Nat /\ judged \in Nat /\ notices \in Nat /\ notices' \in Nat /\ row.decided \in Nat
  BY FloorIs DEF AInv, Typed, Row
<1>3. Floor' >= Floor /\ judged' >= judged  BY <1>1, <1>2
<1>4. \A y \in Stream : Stands(y)'  BY <1>3, AlongStands
<1>5. watchers'.settled <= Higher(Floor', judged')  BY <1>3, SettledStays
<1>6. AllKnown'  BY <1>2 DEF AInv, AllKnown
<1> QED  BY <1>4, <1>5, <1>6 DEF AInv, Stands

\* A step of the turn of one attempt.
LEMMA TurnHolds ==
  ASSUME AInv, Typed', NEW x \in Stream, notices' = notices,
         \A y \in Stream \ {x} : waking'[y] = waking[y],
         Known(waking[x])', Stands(x)', Floor' >= Floor, judged' >= judged, judged' <= notices,
         row'.decided <= notices,
         \/ row'.holder = row.holder /\ (row.holder # x => row'.decided = row.decided)
         \/ row'.holder = x /\ Floor' >= row.decided,
         watchers'.read <= notices, watchers'.settled <= Higher(Floor', judged')
  PROVE  AInv'
<1>1. ASSUME NEW y \in Stream, y # x PROVE Stands(y)' /\ Known(waking[y])'
  <2>1. Along(y) /\ waking'[y] = waking[y]  BY <1>1 DEF Along, SameTurn
  <2>2. Stands(y)'  BY <1>1, <2>1, AlongStands
  <2>3. Known(waking[y])'  BY <2>1 DEF AInv, AllKnown, Known
  <2> QED  BY <2>2, <2>3
<1>2. AllKnown'  BY <1>1 DEF AllKnown
<1>3. \A y \in Stream : Stands(y)'  BY <1>1
<1> QED  BY <1>2, <1>3 DEF AInv, Stands

-----------------------------------------------------------------------------
(* What the steps have in common                                           *)

LEMMA Typing ==
  ASSUME AInv, NEW x \in Stream, NEW b \in Attempted, Step(x, b),
         row' \in Row, notices' \in Nat, judged' \in Nat, watchers' \in Entry
  PROVE  Typed' /\ waking'[x] = b /\ \A y \in Stream \ {x} : waking'[y] = waking[y]
BY DEF AInv, Typed, Step

\* The turn of one attempt lowers no floor but by what it lets the row take back.
LEMMA FloorRises ==
  ASSUME AInv, Typed', NEW x \in Stream, NEW a, NEW b, a = waking[x], b = waking'[x],
         \A y \in Stream \ {x} : waking'[y] = waking[y],
         row'.holder = row.holder, row.holder # x => row'.decided = row.decided,
         row.holder = x => Standing(row'.decided, b) >= Standing(row.decided, a)
  PROVE  Floor' >= Floor
<1>1. Floor \in Nat  BY FloorIs DEF AInv
<1>2. CASE row.holder = x  BY <1>2 DEF Floor
<1>3. CASE row.holder # x
  <2>1. row.holder \in Stream => Along(row.holder)  BY <1>3 DEF Along, SameTurn
  <2>2. Floor' = Floor  BY <1>3, <2>1, FloorKept
  <2> QED  BY <1>1, <2>2
<1> QED  BY <1>2, <1>3

LEMMA QuietStands ==
  ASSUME NEW x \in Stream, Quiet(waking'[x])
  PROVE  Stands(x)'
BY DEF Stands, Quiet, TakesIn, FoundSo, Settling, Committing, At

LEMMA TypesHere ==
  ASSUME AInv, NEW x \in Stream
  PROVE  /\ waking[x] \in Attempted /\ Known(waking[x])
         /\ row \in Row /\ watchers \in Entry /\ notices \in Nat /\ judged \in Nat
         /\ judged <= notices /\ row.decided <= notices /\ watchers.read <= notices
BY DEF AInv, Typed, AllKnown

LEMMA OffIs == \A n \in Nat : Off(n) \in Attempted /\ Quiet(Off(n))
BY DEF Off, Attempted, Stages, Outcomes, Quiet

LEMMA StartingIs ==
  ASSUME NEW a \in Attempted, NEW n \in Nat
  PROVE  LET b == Starting(a, n)
         IN  b \in Attempted /\ Quiet(b) /\ b.through = n /\ b.decided = 0 /\ b.before = 0
BY DEF Starting, Off, Attempted, Stages, Outcomes, Quiet

LEMMA DoneIs ==
  ASSUME NEW a \in Attempted
  PROVE  LET b == Done(a)
         IN  b \in Attempted /\ Quiet(b) /\ b.through = 0 /\ b.decided = 0 /\ b.before = 0
BY DEF Done, Off, Attempted, Stages, Outcomes, Quiet

LEMMA FailedIs ==
  ASSUME AInv, NEW x \in Stream
  PROVE  Failed(x) \in Attempted
<1>1. waking[x] \in Attempted  BY TypesHere
<1> QED  BY <1>1 DEF Failed, Attempted, Higher

\* The end of the loop: the attempt is in no turn, and what is settled was so or
\* is what it was asked for.
LEMMA FollowFacts ==
  ASSUME AInv, NEW x \in Stream, NEW outcome, Follow(x, outcome)
  PROVE  \E b \in Attempted :
           /\ Step(x, b) /\ Quiet(b) /\ Known(b)
           /\ watchers' \in Entry /\ watchers'.read = watchers.read
           /\ \/ watchers'.settled = watchers.settled
              \/ Settles(outcome) /\ watchers'.settled <= Higher(watchers.settled, waking[x].through)
<1> PICK a : a = IF outcome = "failed" THEN Failed(x) ELSE waking[x]  OBVIOUS
<1> PICK w : w = IF Settles(outcome) /\ a.own
                 THEN [watchers EXCEPT !.settled = Higher(@, a.through)] ELSE watchers
  OBVIOUS
<1>1. /\ waking[x] \in Attempted /\ watchers \in Entry /\ watchers.read <= notices
      /\ notices \in Nat
  BY TypesHere
<1>2. a \in Attempted /\ a.through = waking[x].through
  BY <1>1, FailedIs DEF Failed, Attempted
<1>3. a.through \in Nat  BY <1>2 DEF Attempted
<1>4. watchers.settled \in Int /\ watchers.read \in Nat  BY <1>1 DEF Entry
<1>5. Higher(watchers.settled, a.through) \in Nat  BY <1>1, <1>3 DEF Higher, Entry
<1>6. /\ w \in Entry /\ w.read = watchers.read
      /\ \/ w.settled = watchers.settled
         \/ Settles(outcome) /\ w.settled = Higher(watchers.settled, a.through)
  BY <1>1, <1>5 DEF Entry
<1>7. watchers' = w
      /\ Step(x, IF a.again /\ IsOpen(x) /\ Unsettled(w) THEN Starting(a, w.read) ELSE Done(a))
  BY DEF Follow
<1>8. PICK b : b = IF a.again /\ IsOpen(x) /\ Unsettled(w) THEN Starting(a, w.read) ELSE Done(a)
  OBVIOUS
<1>9. b \in Attempted /\ Quiet(b) /\ b.through \in {0, w.read} /\ b.decided = 0 /\ b.before = 0
  BY <1>2, <1>4, <1>6, <1>8, StartingIs, DoneIs
<1>10. Known(b)  BY <1>1, <1>4, <1>6, <1>9 DEF Known
<1>11. w.settled = watchers.settled \/ w.settled <= Higher(watchers.settled, waking[x].through)
  BY <1>2, <1>5, <1>6
<1> QED  BY <1>2, <1>5, <1>6, <1>7, <1>8, <1>9, <1>10

\* An attempt in no turn goes on, and is in none.
LEMMA QuietStep ==
  ASSUME AInv, NEW x \in Stream, NEW b \in Attempted, Step(x, b), Known(b),
         (Quiet(waking[x]) /\ Quiet(b)) \/ SameTurn(waking[x], b),
         row' \in Row, row'.holder = row.holder, row'.decided = row.decided,
         judged' = judged, notices' = notices, watchers' \in Entry, watchers'.read <= notices,
         watchers'.settled <= watchers.settled
  PROVE  AInv'
<1>1. notices \in Nat /\ judged \in Nat  BY TypesHere
<1>2. Typed' /\ waking'[x] = b /\ \A y \in Stream \ {x} : waking'[y] = waking[y]
  BY <1>1, Typing
<1>3. ASSUME NEW y \in Stream PROVE Along(y) /\ Known(waking[y])'
  <2>1. CASE y = x  BY <1>2, <2>1 DEF Along, Known
  <2>2. CASE y # x
    <3>1. waking'[y] = waking[y]  BY <1>2, <2>2
    <3> QED  BY <3>1 DEF Along, SameTurn, AInv, AllKnown, Known
  <2> QED  BY <2>1, <2>2
<1> QED  BY <1>1, <1>2, <1>3, QuietHolds

\* The same of a step that leaves the attempts where they are.
LEMMA NoStep ==
  ASSUME AInv, UNCHANGED <<waking, judged>>, row' \in Row, row'.holder = row.holder,
         row'.decided = row.decided, notices' \in Nat, notices' >= notices, watchers' \in Entry,
         watchers'.read <= notices', watchers'.settled <= watchers.settled
  PROVE  AInv'
<1>1. Typed'  BY DEF AInv, Typed
<1>2. ASSUME NEW y \in Stream PROVE Along(y) /\ Known(waking[y])'
  <2>1. waking[y] \in Attempted /\ Known(waking[y]) /\ notices \in Nat  BY TypesHere
  <2>2. Known(waking[y])'  BY <2>1 DEF Known, Attempted
  <2> QED  BY <2>2 DEF Along, SameTurn
<1> QED  BY <1>1, <1>2, QuietHolds

\* The row goes to no stream's attempt, and has no less decided.
LEMMA ToAnother ==
  ASSUME AInv, UNCHANGED <<waking, judged, notices, watchers>>, row' \in Row,
         row'.holder \notin Stream, row'.decided >= row.decided, row'.decided <= notices
  PROVE  AInv'
<1>1. Typed'  BY DEF AInv, Typed
<1>2. Floor \in Nat /\ Floor <= row.decided /\ row.decided \in Nat /\ row'.decided \in Nat
      /\ judged \in Nat
  BY FloorIs DEF AInv, Typed, Row
<1>3. Floor' = row'.decided  BY DEF Floor
<1>4. Floor' >= Floor /\ Floor' >= row.decided /\ judged' >= judged  BY <1>2, <1>3
<1>5. watchers.settled \in Int  BY DEF AInv, Typed, Entry
<1>6. watchers'.settled <= Higher(Floor', judged')  BY <1>1, <1>4, <1>5, SettledStays
<1>7. ASSUME NEW y \in Stream PROVE Stands(y)'
  <2>1. Along(y)  BY DEF Along, SameTurn
  <2> QED  BY <1>1, <1>4, <2>1, AlongStands
<1>8. AllKnown'  BY DEF AInv, AllKnown, Known
<1> QED  BY <1>1, <1>6, <1>7, <1>8 DEF AInv, Stands

-----------------------------------------------------------------------------
(* The steps                                                               *)

LEMMA OpenKeeps ==
  ASSUME AInv, NEW x \in Stream, NEW from \in 0 .. notices, Open(x, from)
  PROVE  AInv'
<1>1. /\ row \in Row /\ watchers \in Entry /\ notices \in Nat /\ watchers.read <= notices
  BY TypesHere
<1>2. watchers' \in Entry /\ watchers'.read = watchers.read /\ watchers'.settled = watchers.settled
  BY <1>1 DEF Open, Entry
<1>3. watchers.settled \in Int  BY <1>1 DEF Entry
<1> QED  BY <1>1, <1>2, <1>3, NoStep DEF Open

LEMMA ReadOneKeeps ==
  ASSUME AInv, NEW x \in Stream, ReadOne(x), stream[x].after \in Nat
  PROVE  AInv'
<1>1. /\ row \in Row /\ watchers \in Entry /\ notices \in Nat /\ watchers.read <= notices
  BY TypesHere
<1>2. PICK n \in Nat : n <= notices /\ watchers' = [watchers EXCEPT !.read = Higher(@, n)]
  BY <1>1 DEF ReadOne
<1>3. /\ watchers' \in Entry /\ watchers'.read <= notices
      /\ watchers'.settled = watchers.settled
  BY <1>1, <1>2 DEF Higher, Entry
<1>4. watchers.settled \in Int  BY <1>1 DEF Entry
<1> QED  BY <1>1, <1>3, <1>4, NoStep DEF ReadOne

LEMMA AskedIs ==
  ASSUME AInv, NEW x \in Stream, NEW a \in Attempted, Known(a)
  PROVE  LET b == Asked(x, a)
         IN  b \in Attempted /\ Known(b) /\ ((Quiet(a) /\ Quiet(b)) \/ SameTurn(a, b))
<1>1. watchers \in Entry /\ watchers.read <= notices /\ notices \in Nat  BY TypesHere
<1>2. watchers.read \in Nat  BY <1>1 DEF Entry
<1>3. PICK b : b = Asked(x, a)  OBVIOUS
<1>4. CASE b = a  BY <1>3, <1>4 DEF SameTurn
<1>5. CASE b = Starting(a, watchers.read) /\ a.pc = "off"
  <2>1. b \in Attempted /\ Quiet(b) /\ b.through = watchers.read /\ b.decided = 0 /\ b.before = 0
    BY <1>2, <1>5, StartingIs
  <2>2. Quiet(a)  BY <1>5 DEF Quiet
  <2>3. Known(b)  BY <1>1, <2>1 DEF Known
  <2> QED  BY <1>3, <2>1, <2>2, <2>3
<1>6. CASE b = [a EXCEPT !.again = TRUE]
  <2>1. b \in Attempted /\ SameTurn(a, b)  BY <1>6 DEF Attempted, SameTurn
  <2>2. Known(b)  BY <2>1 DEF Known, SameTurn
  <2> QED  BY <1>3, <2>1, <2>2
<1> QED  BY <1>3, <1>4, <1>5, <1>6 DEF Asked

LEMMA CaughtUpKeeps ==
  ASSUME AInv, NEW x \in Stream, CaughtUp(x)
  PROVE  AInv'
<1>1. /\ waking[x] \in Attempted /\ Known(waking[x]) /\ row \in Row /\ watchers \in Entry
      /\ notices \in Nat /\ watchers.read <= notices
  BY TypesHere
<1>2. PICK a, b : a = waking[x] /\ b = Asked(x, a)  OBVIOUS
<1>3. b \in Attempted /\ Known(b) /\ ((Quiet(a) /\ Quiet(b)) \/ SameTurn(a, b))
  BY <1>1, <1>2, AskedIs
<1>4. watchers.settled \in Int  BY <1>1 DEF Entry
<1> QED  BY <1>1, <1>2, <1>3, <1>4, QuietStep DEF CaughtUp

LEMMA CloseKeeps ==
  ASSUME AInv, NEW x \in Stream, Close(x)
  PROVE  AInv'
<1>1. /\ waking[x] \in Attempted /\ Known(waking[x]) /\ row \in Row /\ watchers \in Entry
      /\ notices \in Nat /\ watchers.read <= notices
  BY TypesHere
<1>2. PICK b : b = [waking[x] EXCEPT !.again = FALSE, !.failed = 0]  OBVIOUS
<1>3. b \in Attempted /\ SameTurn(waking[x], b)  BY <1>1, <1>2 DEF Attempted, SameTurn
<1>4. Known(b)  BY <1>1, <1>3 DEF Known, SameTurn
<1>5. watchers.settled \in Int  BY <1>1 DEF Entry
<1> QED  BY <1>1, <1>2, <1>3, <1>4, <1>5, QuietStep DEF Close

LEMMA ForgetKeeps ==
  ASSUME AInv, Forget
  PROVE  AInv'
<1>1. NoEntry \in Entry /\ NoEntry.read = 0 /\ NoEntry.settled = -1  BY DEF NoEntry, Entry
<1>2. watchers' = NoEntry /\ UNCHANGED <<row, notices, judged>>  BY DEF Forget
<1>3. Typed /\ row \in Row /\ watchers \in Entry /\ notices \in Nat  BY DEF AInv, Typed
<1>4. ASSUME NEW y \in Stream
      PROVE  waking'[y] \in Attempted /\ SameTurn(waking[y], waking'[y])
  <2>1. waking[y] \in Attempted  BY TypesHere
  <2>2. waking'[y] = waking[y] \/ waking'[y] = [waking[y] EXCEPT !.own = FALSE]  BY DEF Forget
  <2> QED  BY <2>1, <2>2 DEF SameTurn, Attempted
<1>5. waking' \in [Stream -> Attempted]
  <2>1. waking' = [y \in Stream |-> waking'[y]]  BY DEF Forget
  <2> QED  BY <1>4, <2>1
<1>6. Typed'  BY <1>1, <1>2, <1>3, <1>5 DEF Typed
<1>7. ASSUME NEW y \in Stream PROVE Along(y) /\ Known(waking[y])'
  <2>1. Known(waking[y])  BY TypesHere
  <2> QED  BY <1>2, <1>4, <2>1 DEF Along, Known, SameTurn
<1>8. watchers'.settled <= watchers.settled /\ watchers'.read <= notices' /\ notices' >= notices
  BY <1>1, <1>2, <1>3 DEF Entry
<1> QED  BY <1>2, <1>6, <1>7, <1>8, QuietHolds

LEMMA NotifyKeeps ==
  ASSUME AInv, Notify
  PROVE  AInv'
<1>1. row \in Row /\ watchers \in Entry /\ notices \in Nat /\ watchers.read <= notices
  BY DEF AInv, Typed, AllKnown
<1>2. watchers.settled \in Int /\ watchers.read \in Nat  BY <1>1 DEF Entry
<1>3. notices' = notices + 1 /\ UNCHANGED <<row, watchers, waking, judged>>  BY DEF Notify
<1>4. notices' \in Nat /\ notices' >= notices /\ watchers'.read <= notices'
  BY <1>1, <1>2, <1>3
<1> QED  BY <1>1, <1>2, <1>3, <1>4, NoStep

LEMMA BusyKeeps ==
  ASSUME AInv, NEW x \in Stream, Busy(x) \/ Retry(x)
  PROVE  AInv'
<1>1. /\ waking[x] \in Attempted /\ Known(waking[x]) /\ row \in Row /\ watchers \in Entry
      /\ notices \in Nat /\ watchers.read <= notices
  BY TypesHere
<1>2. PICK b, s : b = [waking[x] EXCEPT !.pc = s] /\ s \in {"paused", "trying"} /\ Step(x, b)
  BY DEF Busy, Retry
<1>3. b \in Attempted /\ Quiet(b) /\ Known(b)
  BY <1>1, <1>2 DEF Attempted, Quiet, Stages, Known
<1>4. Quiet(waking[x])  BY DEF Busy, Retry, At, Quiet
<1>5. watchers.settled \in Int  BY <1>1 DEF Entry
<1>6. UNCHANGED <<row, watchers, judged, notices>>  BY DEF Busy, Retry
<1> QED  BY <1>1, <1>2, <1>3, <1>4, <1>5, <1>6, QuietStep

LEMMA GivesUpKeeps ==
  ASSUME AInv, NEW x \in Stream, GivesUp(x)
  PROVE  AInv'
<1>1. /\ row \in Row /\ watchers \in Entry /\ notices \in Nat /\ watchers.read <= notices
  BY TypesHere
<1>2. Follow(x, "busy") /\ UNCHANGED <<row, notices, judged>>  BY DEF GivesUp
<1>3. ~Settles("busy")  BY DEF Settles
<1>4. PICK b \in Attempted :
        /\ Step(x, b) /\ Quiet(b) /\ Known(b)
        /\ watchers' \in Entry /\ watchers'.read = watchers.read
        /\ watchers'.settled = watchers.settled
  BY <1>2, <1>3, FollowFacts
<1>5. Quiet(waking[x])  BY DEF GivesUp, At, Quiet
<1>6. watchers.settled \in Int  BY <1>1 DEF Entry
<1> QED  BY <1>1, <1>2, <1>4, <1>5, <1>6, QuietStep

LEMMA FinallyKeeps ==
  ASSUME AInv, NEW x \in Stream, Finally(x)
  PROVE  AInv'
<1>1. /\ waking[x] \in Attempted /\ row \in Row /\ watchers \in Entry
      /\ notices \in Nat /\ watchers.read <= notices
  BY TypesHere
<1>2. PICK a : a = Off(waking[x].failed)  OBVIOUS
<1>3. a \in Attempted /\ Quiet(a) /\ Known(a)
  <2>1. waking[x].failed \in Nat  BY <1>1 DEF Attempted
  <2>2. a.through = 0 /\ a.decided = 0 /\ a.before = 0  BY <1>2 DEF Off
  <2> QED  BY <1>1, <1>2, <2>1, <2>2, OffIs DEF Known
<1>4. PICK b : b = Asked(x, a)  OBVIOUS
<1>5. b \in Attempted /\ Known(b) /\ Quiet(b)
  <2>1. b \in Attempted /\ Known(b) /\ ((Quiet(a) /\ Quiet(b)) \/ SameTurn(a, b))
    BY <1>3, <1>4, AskedIs
  <2>2. SameTurn(a, b) => Quiet(b)  BY <1>3 DEF SameTurn, Quiet
  <2> QED  BY <2>1, <2>2
<1>6. PICK c \in {a, b} : Step(x, c)  BY <1>2, <1>4 DEF Finally
<1>7. c \in Attempted /\ Known(c) /\ Quiet(c)  BY <1>3, <1>5, <1>6
<1>8. Quiet(waking[x])  BY DEF Finally, At, Quiet
<1>9. watchers.settled \in Int  BY <1>1 DEF Entry
<1>10. UNCHANGED <<row, watchers, judged, notices>>  BY DEF Finally
<1> QED  BY <1>1, <1>6, <1>7, <1>8, <1>9, <1>10, QuietStep

LEMMA LapseKeeps ==
  ASSUME AInv, Lapse
  PROVE  AInv'
<1>1. row \in Row /\ watchers \in Entry /\ notices \in Nat /\ watchers.read <= notices
  BY DEF AInv, Typed, AllKnown
<1>2. watchers.settled \in Int /\ watchers.read \in Nat  BY <1>1 DEF Entry
<1>3. row' \in Row /\ row'.holder = row.holder /\ row'.decided = row.decided
  BY <1>1 DEF Lapse, Row
<1> QED  BY <1>1, <1>2, <1>3, NoStep DEF Lapse

LEMMA OtherKeeps ==
  ASSUME AInv, OtherStarts \/ OtherEnds
  PROVE  AInv'
<1>1. row \in Row /\ notices \in Nat /\ row.decided <= notices /\ row.decided \in Nat
  BY DEF AInv, Typed, AllKnown, Row
<1>2. UNCHANGED <<waking, judged, notices, watchers>>  BY DEF OtherStarts, OtherEnds
<1>3. /\ row' \in Row /\ row'.holder \in {Other, None} /\ row'.decided >= row.decided
      /\ row'.decided <= notices
  <2>1. CASE OtherStarts
    <3>1. row' = [row EXCEPT !.holder = Other, !.held = TRUE]  BY <2>1 DEF OtherStarts
    <3>2. row'.holder = Other /\ row'.decided = row.decided /\ row' \in Row
      BY <1>1, <3>1 DEF Row
    <3> QED  BY <1>1, <3>2
  <2>2. CASE OtherEnds
    <3>1. PICK d \in {row.decided, notices} : row' = [holder |-> None, held |-> FALSE, decided |-> d]
      BY <2>2 DEF OtherEnds
    <3>2. d \in Nat /\ d >= row.decided /\ d <= notices  BY <1>1, <3>1
    <3>3. row'.holder = None /\ row'.decided = d /\ row' \in Row  BY <3>1, <3>2 DEF Row
    <3> QED  BY <3>2, <3>3
  <2> QED  BY <2>1, <2>2
<1>4. row'.holder \notin Stream  BY <1>3, StreamsAssumption
<1> QED  BY <1>2, <1>3, <1>4, ToAnother

\* A step of an attempt's turn: where it goes, and what it may then lower.
LEMMA TurnStep ==
  ASSUME AInv, NEW x \in Stream, NEW b \in Attempted, Step(x, b), Known(b),
         row' \in Row, row'.decided <= notices, notices' = notices,
         judged' \in {judged, notices}, UNCHANGED watchers,
         row'.holder = row.holder, row.holder # x => row'.decided = row.decided,
         row.holder = x => Standing(row'.decided, b) >= Standing(row.decided, waking[x]),
         Floor' >= Floor => Stands(x)'
  PROVE  AInv'
<1>1. /\ watchers \in Entry /\ notices \in Nat /\ judged \in Nat /\ judged <= notices
      /\ watchers.read <= notices
  BY TypesHere
<1>2. Typed' /\ waking'[x] = b /\ \A y \in Stream \ {x} : waking'[y] = waking[y]
  BY <1>1, Typing
<1>3. Floor' >= Floor  BY <1>2, FloorRises
<1>4. judged' >= judged /\ judged' <= notices  BY <1>1
<1>5. watchers.settled \in Int  BY <1>1 DEF Entry
<1>6. watchers'.settled <= Higher(Floor', judged')  BY <1>2, <1>3, <1>4, <1>5, SettledStays
<1>7. Known(waking[x])'  BY <1>2 DEF Known
<1>8. Stands(x)'  BY <1>3
<1> QED  BY <1>1, <1>2, <1>3, <1>4, <1>6, <1>7, <1>8, TurnHolds

\* An attempt takes the lease, or tries to: what is decided now is all the row has.
LEMMA TakesLease ==
  ASSUME AInv, NEW x \in Stream, At(x, "trying"), NEW b \in Attempted, Step(x, b), Known(b),
         (b.pc = "lease" /\ b.decided = row.decided) \/ Quiet(b),
         row' = [row EXCEPT !.holder = x, !.held = TRUE],
         UNCHANGED <<notices, watchers, judged>>
  PROVE  AInv'
<1>1. /\ watchers \in Entry /\ notices \in Nat /\ judged \in Nat /\ judged <= notices
      /\ watchers.read <= notices /\ row \in Row /\ row.decided <= notices
  BY TypesHere
<1>2. row' \in Row /\ row'.holder = x /\ row'.decided = row.decided  BY <1>1 DEF Row
<1>3. Typed' /\ waking'[x] = b /\ \A y \in Stream \ {x} : waking'[y] = waking[y]
  BY <1>1, <1>2, Typing
<1>4. Floor \in Nat /\ Floor <= row.decided /\ row.decided \in Nat
  BY FloorIs DEF AInv, Typed, Row
<1>5. Floor' = row.decided
  <2>1. ~Ending(b)  BY DEF Ending, Quiet
  <2>2. Floor' = Standing(row.decided, b)  BY <1>2, <1>3 DEF Floor
  <2> QED  BY <2>1, <2>2 DEF Standing
<1>6. Floor' >= Floor /\ Floor' >= row.decided /\ judged' >= judged  BY <1>1, <1>4, <1>5
<1>7. watchers.settled \in Int  BY <1>1 DEF Entry
<1>8. watchers'.settled <= Higher(Floor', judged')  BY <1>3, <1>6, <1>7, SettledStays
<1>9. Known(waking[x])'  BY <1>3 DEF Known
<1>10. Stands(x)'
  <2>1. CASE Quiet(b)  BY <1>3, <2>1, QuietStands
  <2>2. CASE b.pc = "lease" /\ b.decided = row.decided
    <3>1. TakesIn(b) /\ Settling(x)' /\ Committing(x)'
      BY <1>3, <2>2 DEF TakesIn, Settling, Committing, At
    <3>2. FoundSo(x)'  BY <1>2, <1>3, <1>4, <1>5, <2>2 DEF FoundSo, At, Fence
    <3> QED  BY <1>3, <3>1, <3>2 DEF Stands
  <2> QED  BY <2>1, <2>2
<1> QED  BY <1>1, <1>2, <1>3, <1>6, <1>8, <1>9, <1>10, TurnHolds

LEMMA LoadKeeps ==
  ASSUME AInv, NEW x \in Stream, Load(x)
  PROVE  AInv'
<1>1. waking[x] \in Attempted /\ Known(waking[x]) /\ row \in Row /\ row.decided <= notices
  BY TypesHere
<1>2. PICK b : b = [waking[x] EXCEPT !.pc = "lease", !.decided = row.decided]  OBVIOUS
<1>3. b \in Attempted /\ Known(b) /\ b.pc = "lease" /\ b.decided = row.decided
  BY <1>1, <1>2 DEF Attempted, Known, Stages, Row
<1> QED  BY <1>2, <1>3, TakesLease DEF Load

LEMMA ThrownIs ==
  ASSUME AInv, NEW x \in Stream, Thrown(x)
  PROVE  \E b \in Attempted : Step(x, b) /\ Quiet(b) /\ Known(b)
<1>1. notices \in Nat /\ Failed(x) \in Attempted  BY TypesHere, FailedIs
<1>2. PICK b : b = Done(Failed(x))  OBVIOUS
<1>3. b \in Attempted /\ Quiet(b) /\ b.through = 0 /\ b.decided = 0 /\ b.before = 0
  BY <1>1, <1>2, DoneIs
<1>4. Known(b)  BY <1>1, <1>3 DEF Known
<1> QED  BY <1>2, <1>3, <1>4 DEF Thrown

LEMMA LoadThrowsKeeps ==
  ASSUME AInv, NEW x \in Stream, LoadThrows(x)
  PROVE  AInv'
<1>1. /\ waking[x] \in Attempted /\ row \in Row /\ watchers \in Entry
      /\ notices \in Nat /\ watchers.read <= notices
  BY TypesHere
<1>2. Thrown(x) /\ At(x, "trying") /\ UNCHANGED <<notices, judged>> /\ UNCHANGED watchers
  BY DEF LoadThrows, Thrown
<1>3. PICK b \in Attempted : Step(x, b) /\ Quiet(b) /\ Known(b)  BY <1>2, ThrownIs
<1>4. CASE UNCHANGED row
  <2>1. Quiet(waking[x])  BY <1>2 DEF At, Quiet
  <2>2. watchers.settled \in Int  BY <1>1 DEF Entry
  <2> QED  BY <1>1, <1>2, <1>3, <1>4, <2>1, <2>2, QuietStep
<1>5. CASE row' = [row EXCEPT !.holder = x, !.held = TRUE]
  BY <1>2, <1>3, <1>5, TakesLease
<1> QED  BY <1>4, <1>5 DEF LoadThrows

\* What an attempt with the lease found is all the row has, if the fence is its own.
LEMMA AtLease ==
  ASSUME AInv, NEW x \in Stream, At(x, "lease")
  PROVE  /\ waking[x].decided <= Floor /\ waking[x].decided \in Nat /\ Floor \in Nat
         /\ row.decided \in Nat
         /\ Standing(row.decided, waking[x]) = row.decided
         /\ row.holder = x => waking[x].decided = row.decided
<1>1. waking[x] \in Attempted /\ row \in Row  BY TypesHere
<1>2. waking[x].decided \in Nat /\ row.decided \in Nat  BY <1>1 DEF Attempted, Row
<1>3. ~Ending(waking[x])  BY DEF At, Ending
<1>4. FoundSo(x)  BY DEF AInv
<1> QED  BY <1>2, <1>3, <1>4, FloorIs DEF AInv, Standing, FoundSo, Fence

LEMMA IdleKeeps ==
  ASSUME AInv, NEW x \in Stream, Idle(x)
  PROVE  AInv'
<1>1. /\ waking[x] \in Attempted /\ Known(waking[x]) /\ row \in Row /\ row.decided <= notices
      /\ notices \in Nat /\ judged \in Nat
  BY TypesHere
<1>2. PICK a, b : a = waking[x] /\ b = [a EXCEPT !.pc = "save", !.outcome = "idle"]  OBVIOUS
<1>3. /\ b \in Attempted /\ Known(b) /\ b.pc = "save" /\ b.outcome = "idle"
      /\ b.decided = a.decided /\ b.through = a.through
  BY <1>1, <1>2 DEF Attempted, Known, Stages, Outcomes
<1>4. /\ At(x, "lease") /\ Step(x, b) /\ UNCHANGED <<row, notices, watchers>>
      /\ (notices <= a.decided /\ judged' = judged) \/ judged' = notices
  BY <1>2 DEF Idle, Resolved
<1>5. /\ a.decided <= Floor /\ a.decided \in Nat /\ Floor \in Nat /\ row.decided \in Nat
      /\ Standing(row.decided, a) = row.decided /\ (row.holder = x => a.decided = row.decided)
  BY <1>2, <1>4, AtLease
<1>6. row.holder = x => Standing(row.decided, b) >= Standing(row.decided, a)
  BY <1>3, <1>5 DEF Standing, Ending, Least, Lesser
<1>7. b.through <= notices /\ b.through \in Nat  BY <1>3 DEF Known, Attempted
<1>8. waking'[x] = b  BY <1>1, <1>4 DEF Step, AInv, Typed
<1>9. Typed'  BY <1>1, <1>3, <1>4, Typing DEF AInv, Typed
<1>10. ASSUME Floor' >= Floor PROVE Stands(x)'
  <2>1. TakesIn(b) /\ FoundSo(x)' /\ Committing(x)'
    BY <1>3, <1>8 DEF TakesIn, FoundSo, Committing, At
  <2>2. Floor' \in Nat  BY <1>9, FloorIsNext
  <2>3. b.through <= Higher(Floor', judged')
    BY <1>1, <1>4, <1>5, <1>7, <1>10, <2>2 DEF Higher
  <2>4. Settling(x)'  BY <1>3, <1>8, <2>3 DEF Settling, At
  <2> QED  BY <1>8, <2>1, <2>4 DEF Stands
<1>11. judged' \in {judged, notices}  BY <1>4
<1> QED  BY <1>1, <1>2, <1>3, <1>4, <1>6, <1>10, <1>11, TurnStep

LEMMA LimitedKeeps ==
  ASSUME AInv, NEW x \in Stream, Limited(x)
  PROVE  AInv'
<1>1. /\ waking[x] \in Attempted /\ Known(waking[x]) /\ row \in Row /\ row.decided <= notices
      /\ notices \in Nat /\ judged \in Nat
  BY TypesHere
<1>2. PICK a, b : a = waking[x]
             /\ b = [a EXCEPT !.pc = "save", !.outcome = "limited", !.decided = notices]
  OBVIOUS
<1>3. /\ b \in Attempted /\ Known(b) /\ b.pc = "save" /\ b.outcome = "limited"
      /\ b.decided = notices /\ b.through = a.through
  <2>1. /\ b \in Attempted /\ b.pc = "save" /\ b.outcome = "limited"
        /\ b.decided = notices /\ b.through = a.through /\ b.before = a.before
    BY <1>1, <1>2 DEF Attempted, Stages, Outcomes
  <2> QED  BY <1>1, <1>2, <2>1 DEF Known
<1>4. /\ At(x, "lease") /\ Step(x, b) /\ UNCHANGED <<row, notices, watchers>>
      /\ judged' = notices
  BY <1>2 DEF Limited
<1>5. row.decided \in Nat /\ Standing(row.decided, a) = row.decided
  BY <1>2, <1>4, AtLease
<1>6. Standing(row.decided, b) >= Standing(row.decided, a)
  BY <1>1, <1>3, <1>5 DEF Standing, Ending, Least, Lesser
<1>7. b.through <= notices /\ b.through \in Nat  BY <1>3 DEF Known, Attempted
<1>8. waking'[x] = b  BY <1>1, <1>4 DEF Step, AInv, Typed
<1>9. Typed'  BY <1>1, <1>3, <1>4, Typing DEF AInv, Typed
<1>10. Stands(x)'
  <2>1. TakesIn(b) /\ FoundSo(x)' /\ Committing(x)'
    BY <1>3, <1>8 DEF TakesIn, FoundSo, Committing, At
  <2>2. Floor' \in Nat  BY <1>9, FloorIsNext
  <2>3. b.through <= Higher(Floor', judged')
    BY <1>1, <1>4, <1>7, <2>2 DEF Higher
  <2>4. Settling(x)'  BY <1>3, <1>8, <2>3 DEF Settling, At
  <2> QED  BY <1>8, <2>1, <2>4 DEF Stands
<1> QED  BY <1>1, <1>2, <1>3, <1>4, <1>6, <1>10, TurnStep

LEMMA FailsEarlyKeeps ==
  ASSUME AInv, NEW x \in Stream, FailsEarly(x)
  PROVE  AInv'
<1>1. /\ waking[x] \in Attempted /\ Known(waking[x]) /\ row \in Row /\ row.decided <= notices
      /\ notices \in Nat /\ judged \in Nat
  BY TypesHere
<1>2. PICK a, b : a = waking[x] /\ b = [a EXCEPT !.pc = "save", !.outcome = "failed"]  OBVIOUS
<1>3. /\ b \in Attempted /\ Known(b) /\ b.pc = "save" /\ b.outcome = "failed"
      /\ b.decided = a.decided
  BY <1>1, <1>2 DEF Attempted, Known, Stages, Outcomes
<1>4. At(x, "lease") /\ Step(x, b) /\ UNCHANGED <<row, notices, watchers, judged>>
  BY <1>2 DEF FailsEarly, Resolved
<1>5. /\ row.decided \in Nat /\ Standing(row.decided, a) = row.decided
      /\ row.holder = x => a.decided = row.decided
  BY <1>2, <1>4, AtLease
<1>6. row.holder = x => Standing(row.decided, b) >= Standing(row.decided, a)
  BY <1>3, <1>5 DEF Standing, Ending, Least, Lesser
<1>7. waking'[x] = b  BY <1>1, <1>4 DEF Step, AInv, Typed
<1>8. Stands(x)'  BY <1>3, <1>7 DEF Stands, TakesIn, FoundSo, Settling, Committing, At
<1> QED  BY <1>1, <1>2, <1>3, <1>4, <1>6, <1>8, TurnStep

LEMMA StartKeeps ==
  ASSUME AInv, NEW x \in Stream, Start(x)
  PROVE  AInv'
<1>1. /\ waking[x] \in Attempted /\ Known(waking[x]) /\ row \in Row /\ row.decided <= notices
      /\ notices \in Nat /\ judged \in Nat
  BY TypesHere
<1>2. PICK a, b : a = waking[x]
             /\ b = [a EXCEPT !.pc = "commit", !.decided = notices, !.before = a.decided]
  OBVIOUS
<1>3. /\ b \in Attempted /\ Known(b) /\ b.pc = "commit"
      /\ b.decided = notices /\ b.before = a.decided /\ b.through = a.through
  <2>1. /\ b \in Attempted /\ b.pc = "commit"
        /\ b.decided = notices /\ b.before = a.decided /\ b.through = a.through
    BY <1>1, <1>2 DEF Attempted, Stages
  <2> QED  BY <1>1, <1>2, <2>1 DEF Known
<1>4. At(x, "lease") /\ Step(x, b) /\ UNCHANGED <<row, notices, watchers, judged>>
  BY <1>2 DEF Start
<1>5. /\ row.decided \in Nat /\ Standing(row.decided, a) = row.decided
      /\ row.holder = x => a.decided = row.decided
  BY <1>2, <1>4, AtLease
<1>6. row.holder = x => Standing(row.decided, b) >= Standing(row.decided, a)
  BY <1>3, <1>5 DEF Standing, Ending, Least, Lesser
<1>7. waking'[x] = b  BY <1>1, <1>4 DEF Step, AInv, Typed
<1>8. b.through <= b.decided /\ b.before <= b.decided  BY <1>3 DEF Known
<1>9. Stands(x)'  BY <1>3, <1>7, <1>8 DEF Stands, TakesIn, FoundSo, Settling, Committing, At
<1> QED  BY <1>1, <1>2, <1>3, <1>4, <1>6, <1>9, TurnStep

LEMMA CommitLandsKeeps ==
  ASSUME AInv, NEW x \in Stream, CommitLands(x)
  PROVE  AInv'
<1>1. /\ waking[x] \in Attempted /\ Known(waking[x]) /\ row \in Row /\ row.decided <= notices
      /\ notices \in Nat /\ judged \in Nat
  BY TypesHere
<1>2. PICK a, b : a = waking[x] /\ b = [a EXCEPT !.pc = "save", !.outcome = "woke"]  OBVIOUS
<1>3. /\ b \in Attempted /\ Known(b) /\ b.pc = "save" /\ b.outcome = "woke"
      /\ b.decided = a.decided /\ b.before = a.before /\ b.through = a.through
  BY <1>1, <1>2 DEF Attempted, Known, Stages, Outcomes
<1>4. /\ a.pc = "commit" /\ row.holder = x /\ Step(x, b)
      /\ row' = Saved(a.decided, row.held) /\ UNCHANGED <<notices, watchers, judged>>
  BY <1>2 DEF CommitLands, Resolved, At, Fence
<1>5. row' \in Row /\ row'.holder = x /\ row'.decided = a.decided
  BY <1>1, <1>2, <1>4 DEF Saved, Row, Attempted
<1>6. /\ a.before <= a.decided /\ a.through <= a.decided /\ a.before \in Nat
      /\ a.decided \in Nat /\ a.decided <= notices /\ row.decided \in Nat
  BY <1>1, <1>2, <1>4 DEF AInv, TakesIn, Committing, At, Attempted, Known, Row
<1>7. Standing(row'.decided, b) >= Standing(row.decided, a)
  BY <1>3, <1>4, <1>5, <1>6 DEF Standing, Ending, Least, Lesser
<1>8. waking'[x] = b  BY <1>1, <1>4 DEF Step, AInv, Typed
<1>9. Stands(x)'
  BY <1>3, <1>5, <1>6, <1>8 DEF Stands, TakesIn, FoundSo, Settling, Committing, At, Fence
<1> QED  BY <1>1, <1>2, <1>3, <1>4, <1>5, <1>6, <1>7, <1>9, TurnStep

LEMMA CommitFailsKeeps ==
  ASSUME AInv, NEW x \in Stream, CommitFails(x)
  PROVE  AInv'
<1>1. /\ waking[x] \in Attempted /\ Known(waking[x]) /\ row \in Row /\ row.decided <= notices
      /\ notices \in Nat /\ judged \in Nat
  BY TypesHere
<1>2. PICK a, b : a = waking[x]
             /\ b = [a EXCEPT !.pc = "save", !.outcome = "failed", !.decided = a.before]
  OBVIOUS
<1>3. /\ b \in Attempted /\ Known(b) /\ b.pc = "save" /\ b.outcome = "failed"
      /\ b.decided = a.before
  BY <1>1, <1>2 DEF Attempted, Known, Stages, Outcomes
<1>4. /\ a.pc = "commit" /\ Step(x, b) /\ UNCHANGED <<notices, watchers, judged>>
      /\ row' = row \/ (row.holder = x /\ row' = Saved(a.decided, row.held))
  BY <1>2 DEF CommitFails, At, Fence
<1>5. /\ a.before <= a.decided /\ a.before \in Nat /\ a.decided \in Nat /\ a.decided <= notices
      /\ row.decided \in Nat
  BY <1>1, <1>2, <1>4 DEF AInv, TakesIn, Attempted, Known, Row
<1>6. /\ row' \in Row /\ row'.holder = row.holder /\ row'.decided \in {row.decided, a.decided}
      /\ row.holder # x => row'.decided = row.decided
  BY <1>1, <1>4, <1>5 DEF Saved, Row
<1>7. Standing(row'.decided, b) >= Standing(row.decided, a)
  BY <1>3, <1>4, <1>5, <1>6 DEF Standing, Ending, Least, Lesser
<1>8. waking'[x] = b  BY <1>1, <1>4 DEF Step, AInv, Typed
<1>9. Stands(x)'  BY <1>3, <1>8 DEF Stands, TakesIn, FoundSo, Settling, Committing, At
<1>10. row'.decided <= notices  BY <1>1, <1>5, <1>6
<1> QED  BY <1>1, <1>2, <1>3, <1>4, <1>6, <1>7, <1>9, <1>10, TurnStep

\* What the last save of a turn has decided is no less than the floor.
LEMMA EndIs ==
  ASSUME AInv, NEW x \in Stream, At(x, "save"), NEW ending \in Ends(waking[x])
  PROVE  /\ ending.decided \in Nat /\ ending.decided <= notices
         /\ row.holder = x => ending.decided >= Floor
         /\ \/ ending.outcome = "failed"
            \/ ending.outcome = waking[x].outcome /\ ending.decided = waking[x].decided
<1> PICK a : a = waking[x]  OBVIOUS
<1>1. /\ a \in Attempted /\ Known(a) /\ row \in Row /\ a.pc = "save"
      /\ a.outcome = "woke" => a.before <= a.decided
  BY TypesHere DEF At, AInv, TakesIn
<1>2. /\ a.before \in Nat /\ a.decided \in Nat /\ row.decided \in Nat
      /\ a.before <= notices /\ a.decided <= notices
  BY <1>1 DEF Attempted, Row, Known
<1>3. /\ ending.decided \in {a.decided, a.before} /\ (a.outcome # "woke" => ending.decided = a.decided)
      /\ \/ ending.outcome = "failed"
         \/ ending.outcome = a.outcome /\ ending.decided = a.decided
  BY DEF Ends
<1>4. row.holder = x => ending.decided >= Floor
  <2> SUFFICES ASSUME row.holder = x PROVE ending.decided >= Floor  OBVIOUS
  <2>1. Floor = Standing(row.decided, a)  BY DEF Floor
  <2> QED  BY <1>1, <1>2, <1>3, <2>1 DEF Standing, Ending, Least, Lesser
<1> QED  BY <1>2, <1>3, <1>4

\* The end of a turn: the row's floor is what it has decided.
LEMMA EndOfTurn ==
  ASSUME AInv, NEW x \in Stream, NEW b \in Attempted, Step(x, b), Known(b), Quiet(b),
         UNCHANGED <<notices, judged>>, row' \in Row, row'.decided <= notices,
         row'.holder = row.holder, row.holder # x => row'.decided = row.decided,
         row.holder = x => row'.decided >= Floor,
         watchers' \in Entry, watchers'.read <= notices,
         Floor' >= Floor => watchers'.settled <= Higher(Floor', judged)
  PROVE  AInv'
<1>1. notices \in Nat /\ judged \in Nat /\ judged <= notices  BY TypesHere
<1>2. Typed' /\ waking'[x] = b /\ \A y \in Stream \ {x} : waking'[y] = waking[y]
  BY <1>1, Typing
<1>3. Floor' >= Floor
  <2>1. Floor \in Nat  BY FloorIs DEF AInv
  <2>2. CASE row.holder = x
    <3>1. Floor' = Standing(row'.decided, b)  BY <1>2, <2>2 DEF Floor
    <3>2. Floor' = row'.decided  BY <3>1 DEF Standing, Ending, Quiet
    <3> QED  BY <2>2, <3>2
  <2>3. CASE row.holder # x
    <3>1. row.holder \in Stream => Along(row.holder)  BY <1>2, <2>3 DEF Along, SameTurn
    <3>2. Floor' = Floor  BY <2>3, <3>1, FloorKept
    <3> QED  BY <2>1, <3>2
  <2> QED  BY <2>2, <2>3
<1>4. Known(waking[x])' /\ Stands(x)'  BY <1>2, QuietStands DEF Known
<1>5. watchers'.settled <= Higher(Floor', judged')  BY <1>3
<1>6. judged' >= judged /\ judged' <= notices  BY <1>1
<1> QED  BY <1>2, <1>3, <1>4, <1>5, <1>6, TurnHolds

LEMMA SaveKeeps ==
  ASSUME AInv, NEW x \in Stream, Save(x)
  PROVE  AInv'
<1> PICK a : a = waking[x]  OBVIOUS
<1>1. /\ a \in Attempted /\ row \in Row /\ row.decided <= notices /\ watchers \in Entry
      /\ notices \in Nat /\ judged \in Nat /\ watchers.read <= notices
  BY TypesHere
<1>2. PICK ending \in Ends(a) :
        /\ row' = IF Fence(x) THEN Saved(ending.decided, FALSE) ELSE row
        /\ Follow(x, ending.outcome)
  BY DEF Save
<1>3. a.pc = "save" /\ At(x, "save") /\ UNCHANGED <<notices, judged>>  BY DEF Save, At
<1>4. /\ ending.decided \in Nat /\ ending.decided <= notices
      /\ row.holder = x => ending.decided >= Floor
      /\ \/ ending.outcome = "failed"
         \/ ending.outcome = a.outcome /\ ending.decided = a.decided
  BY <1>2, <1>3, EndIs
<1>5. PICK b \in Attempted :
           /\ Step(x, b) /\ Quiet(b) /\ Known(b)
           /\ watchers' \in Entry /\ watchers'.read = watchers.read
           /\ \/ watchers'.settled = watchers.settled
              \/ Settles(ending.outcome) /\ watchers'.settled <= Higher(watchers.settled, a.through)
  BY <1>2, FollowFacts
<1>6. /\ row' \in Row /\ row'.holder = row.holder /\ row'.decided <= notices
      /\ row.holder = x => row'.decided = ending.decided
      /\ row.holder # x => row'.decided = row.decided
  BY <1>1, <1>2, <1>4 DEF Saved, Row, Fence
<1>7. ASSUME Floor' >= Floor PROVE watchers'.settled <= Higher(Floor', judged)
  <2>1. /\ Floor \in Nat /\ watchers.settled \in Int /\ watchers'.settled \in Int
        /\ watchers.settled <= Higher(Floor, judged) /\ a.through \in Nat /\ a.decided \in Nat
    BY <1>1, <1>5, FloorIs DEF AInv, Entry, Attempted
  <2>2. Typed' /\ waking'[x] = b  BY <1>1, <1>3, <1>5, <1>6, Typing
  <2>3. Floor' \in Nat  BY <2>2, FloorIsNext
  <2>4. Higher(Floor, judged) <= Higher(Floor', judged)  BY <1>1, <1>7, <2>1, <2>3 DEF Higher
  <2>5. CASE watchers'.settled = watchers.settled
    BY <1>1, <2>1, <2>3, <2>4, <2>5 DEF Higher
  <2>6. CASE Settles(ending.outcome) /\ watchers'.settled <= Higher(watchers.settled, a.through)
    <3>1. /\ ending.outcome = a.outcome /\ ending.decided = a.decided
          /\ a.outcome \in {"idle", "limited", "woke"}
      BY <1>1, <1>4, <2>6 DEF Settles, Attempted, Outcomes
    <3>2. IF a.outcome = "woke" /\ row.holder = x
          THEN a.through <= a.decided /\ a.decided = row.decided
          ELSE a.through <= Higher(Floor, judged)
      BY <1>3, <3>1 DEF AInv, Settling, Fence
    <3>3. a.through <= Higher(Floor', judged)
      <4>1. CASE a.outcome = "woke" /\ row.holder = x
        <5>1. Floor' = Standing(row'.decided, b)  BY <1>6, <2>2, <4>1 DEF Floor
        <5>2. Floor' = a.decided  BY <1>5, <1>6, <3>1, <4>1, <5>1 DEF Standing, Ending, Quiet
        <5> QED  BY <1>1, <2>1, <2>3, <3>2, <4>1, <5>2 DEF Higher
      <4>2. CASE ~(a.outcome = "woke" /\ row.holder = x)
        BY <1>1, <2>1, <2>3, <2>4, <3>2, <4>2 DEF Higher
      <4> QED  BY <4>1, <4>2
    <3> QED  BY <1>1, <2>1, <2>3, <2>4, <2>6, <3>3 DEF Higher
  <2> QED  BY <1>5, <2>5, <2>6
<1>8. row.holder = x => row'.decided >= Floor  BY <1>4, <1>6
<1>9. watchers'.read <= notices  BY <1>1, <1>5
<1> QED  BY <1>3, <1>5, <1>6, <1>7, <1>8, <1>9, EndOfTurn

LEMMA SaveThrowsKeeps ==
  ASSUME AInv, NEW x \in Stream, SaveThrows(x)
  PROVE  AInv'
<1> PICK a : a = waking[x]  OBVIOUS
<1>1. /\ a \in Attempted /\ row \in Row /\ row.decided <= notices /\ watchers \in Entry
      /\ notices \in Nat /\ judged \in Nat /\ watchers.read <= notices
  BY TypesHere
<1>2. /\ At(x, "save") /\ row.holder = x /\ Thrown(x)
      /\ UNCHANGED <<notices, judged>> /\ UNCHANGED watchers
  BY DEF SaveThrows, Thrown, Fence
<1>3. PICK b \in Attempted : Step(x, b) /\ Quiet(b) /\ Known(b)  BY <1>2, ThrownIs
<1>4. Floor \in Nat /\ Floor <= row.decided /\ row.decided \in Nat
  BY FloorIs DEF AInv, Typed, Row
<1>5. /\ row' \in Row /\ row'.holder = row.holder /\ row'.decided <= notices
      /\ row'.decided >= Floor
  <2>1. CASE UNCHANGED row  BY <1>1, <1>4, <2>1
  <2>2. CASE \E end \in Ends(a) : row' = Saved(end.decided, FALSE)
    <3>1. PICK ending \in Ends(a) : row' = Saved(ending.decided, FALSE)  BY <2>2
    <3>2. ending.decided \in Nat /\ ending.decided <= notices /\ ending.decided >= Floor
      BY <1>2, <3>1, EndIs
    <3> QED  BY <1>1, <3>1, <3>2 DEF Saved, Row
  <2> QED  BY <2>1, <2>2 DEF SaveThrows
<1>6. ASSUME Floor' >= Floor PROVE watchers'.settled <= Higher(Floor', judged)
  <2>1. Typed'  BY <1>1, <1>2, <1>3, <1>5, Typing
  <2>2. Floor' \in Nat  BY <2>1, FloorIsNext
  <2>3. watchers.settled \in Int /\ watchers.settled <= Higher(Floor, judged)
    BY <1>1 DEF Entry, AInv
  <2> QED  BY <1>1, <1>2, <1>4, <1>6, <2>2, <2>3 DEF Higher
<1> QED  BY <1>1, <1>2, <1>3, <1>5, <1>6, EndOfTurn

-----------------------------------------------------------------------------
(* The theorem                                                             *)

\* Where streams have read to.
Reader ==
  [at : {"unopened", "open", "closed"}, after : Nat, toAsk : BOOLEAN,
   owes : SUBSET (1 .. MaxNotice)]
StreamsTyped == stream \in [Stream -> Reader]

LEMMA AttemptsInitially == Init => AInv /\ StreamsTyped
<1> SUFFICES ASSUME Init PROVE AInv /\ StreamsTyped  OBVIOUS
<1>1. Off(0) \in Attempted /\ Quiet(Off(0))  BY OffIs
<1>2. Typed  BY <1>1 DEF Init, Typed, Row, Entry, NoEntry
<1>3. row.holder \notin Stream /\ Floor = 0
  BY StreamsAssumption DEF Init, Floor
<1>4. AllKnown  BY DEF Init, AllKnown, NoEntry, Known, Off
<1>5. ASSUME NEW x \in Stream
      PROVE  TakesIn(waking[x]) /\ FoundSo(x) /\ Settling(x) /\ Committing(x)
  <2>1. waking[x] = Off(0)  BY DEF Init
  <2> QED  BY <1>1, <2>1 DEF Quiet, TakesIn, FoundSo, Settling, Committing, At
<1>6. watchers.settled <= Higher(Floor, judged)  BY <1>3 DEF Init, NoEntry, Higher
<1>7. StreamsTyped  BY DEF Init, StreamsTyped, Reader, Fresh
<1> QED  BY <1>2, <1>4, <1>5, <1>6, <1>7 DEF AInv

LEMMA StreamsStep ==
  ASSUME AInv, StreamsTyped, [Next]_vars
  PROVE  StreamsTyped'
<1>1. notices \in Nat  BY DEF AInv, Typed
<1>2. CASE UNCHANGED stream  BY <1>2 DEF StreamsTyped, Reader
<1>3. ASSUME NEW x \in Stream, NEW from \in 0 .. notices, Open(x, from) PROVE StreamsTyped'
  BY <1>1, <1>3 DEF Open, StreamsTyped, Reader
<1>4. ASSUME NEW x \in Stream, ReadOne(x) \/ CaughtUp(x) PROVE StreamsTyped'
  <2>1. PICK s : s = stream[x]  OBVIOUS
  <2>2. s \in Reader
    BY <2>1 DEF StreamsTyped, Reader
  <2>3. PICK t : /\ stream' = [stream EXCEPT ![x] = t]
                 /\ \/ t = [s EXCEPT !.after = s.after + 1, !.toAsk = TRUE]
                    \/ t = [s EXCEPT !.toAsk = FALSE]
    BY <1>4, <2>1 DEF ReadOne, CaughtUp, StreamsTyped, Reader
  <2>4. t \in Reader
    <3>1. CASE t = [s EXCEPT !.after = s.after + 1, !.toAsk = TRUE]
      <4>1. PICK n : n = s.after + 1  OBVIOUS
      <4>2. n \in Nat  BY <2>2, <4>1 DEF Reader
      <4>3. t = [s EXCEPT !.after = n, !.toAsk = TRUE]  BY <3>1, <4>1
      <4> QED  BY ONLY <2>2, <4>2, <4>3 DEF Reader
    <3>2. CASE t = [s EXCEPT !.toAsk = FALSE]  BY ONLY <2>2, <3>2 DEF Reader
    <3> QED  BY <2>3, <3>1, <3>2
  <2> QED  BY <2>3, <2>4 DEF StreamsTyped, Reader
<1>5. ASSUME NEW x \in Stream, Close(x) PROVE StreamsTyped'
  BY <1>5 DEF Close, Closed, Fresh, StreamsTyped, Reader
<1>6. ASSUME NEW x \in Stream, Attempt(x) PROVE UNCHANGED stream
  BY <1>6 DEF Attempt, Busy, Retry, GivesUp, Load, LoadThrows, Idle, Limited, FailsEarly,
       Start, CommitLands, CommitFails, Save, SaveThrows, Finally
<1>7. Forget \/ Notify \/ OtherStarts \/ OtherEnds \/ Lapse \/ UNCHANGED vars => UNCHANGED stream
  BY DEF Forget, Notify, OtherStarts, OtherEnds, Lapse, vars
<1> QED  BY <1>2, <1>3, <1>4, <1>5, <1>6, <1>7 DEF Next, Reads

LEMMA AttemptsStep ==
  ASSUME AInv, StreamsTyped, [Next]_vars
  PROVE  AInv'
<1>1. ASSUME NEW x \in Stream, NEW from \in 0 .. notices, Open(x, from) PROVE AInv'
  BY <1>1, OpenKeeps
<1>2. ASSUME NEW x \in Stream, ReadOne(x) PROVE AInv'
  <2>1. stream[x].after \in Nat  BY DEF StreamsTyped, Reader
  <2> QED  BY <1>2, <2>1, ReadOneKeeps
<1>3. ASSUME NEW x \in Stream, CaughtUp(x) \/ Close(x) PROVE AInv'
  BY <1>3, CaughtUpKeeps, CloseKeeps
<1>4. ASSUME NEW x \in Stream, Busy(x) \/ Retry(x) \/ GivesUp(x) \/ Finally(x) PROVE AInv'
  BY <1>4, BusyKeeps, GivesUpKeeps, FinallyKeeps
<1>5. ASSUME NEW x \in Stream, Load(x) \/ LoadThrows(x) PROVE AInv'
  BY <1>5, LoadKeeps, LoadThrowsKeeps
<1>6. ASSUME NEW x \in Stream, Idle(x) \/ Limited(x) \/ FailsEarly(x) \/ Start(x) PROVE AInv'
  BY <1>6, IdleKeeps, LimitedKeeps, FailsEarlyKeeps, StartKeeps
<1>7. ASSUME NEW x \in Stream, CommitLands(x) \/ CommitFails(x) PROVE AInv'
  BY <1>7, CommitLandsKeeps, CommitFailsKeeps
<1>8. ASSUME NEW x \in Stream, Save(x) \/ SaveThrows(x) PROVE AInv'
  BY <1>8, SaveKeeps, SaveThrowsKeeps
<1>9. Forget \/ Notify \/ OtherStarts \/ OtherEnds \/ Lapse => AInv'
  BY ForgetKeeps, NotifyKeeps, OtherKeeps, LapseKeeps
<1>10. CASE UNCHANGED vars
  <2>1. /\ row \in Row /\ watchers \in Entry /\ notices \in Nat /\ watchers.read <= notices
    BY DEF AInv, Typed, AllKnown
  <2>2. watchers.settled \in Int  BY <2>1 DEF Entry
  <2> QED  BY <1>10, <2>1, <2>2, NoStep DEF vars
<1> QED
  BY <1>1, <1>2, <1>3, <1>4, <1>5, <1>6, <1>7, <1>8, <1>9, <1>10 DEF Next, Reads, Attempt

\* What a server has settled, and makes no more attempts for, is on record as taken in
\* or was found to be no reason to wake the model, for any number of streams, notices
\* and other requests. (startWaking, wake, attempt; Hai.wake)
THEOREM NothingSettledUntold == Spec => []SettledDecided
<1>1. AInv => SettledDecided
  <2> SUFFICES ASSUME AInv PROVE SettledDecided  OBVIOUS
  <2>1. /\ watchers.settled <= Higher(Floor, judged) /\ Floor \in Nat /\ Floor <= row.decided
        /\ judged \in Nat /\ row.decided \in Nat /\ watchers.settled \in Int
    BY FloorIs DEF AInv, Typed, Row, Entry
  <2> QED  BY <2>1 DEF SettledDecided, Higher
<1>2. AInv /\ StreamsTyped /\ [Next]_vars => (AInv /\ StreamsTyped)'
  BY AttemptsStep, StreamsStep
<1> QED  BY <1>1, <1>2, AttemptsInitially, PTL DEF Spec
=============================================================================
