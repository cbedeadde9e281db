---------------------------- MODULE Client_proofs ----------------------------
(***************************************************************************)
(* What Client says of any number of requests, wake turns, resets and      *)
(* faults: what send() promises is true, no request leaves its             *)
(* conversation, and nothing is shown or waited for that nothing will end. *)
(* Three invariants hold one on top of the other.                          *)
(*   CInv  the chain and what shows of it. A request is Sound by where it  *)
(*         is: what it resolved to, where it went, and, once the server    *)
(*         took it up, what of its answer is on the way (Replies: a refusal*)
(*         is said before the end, and after a `streaming` an `idle` or    *)
(*         `error` is said, or the turn still runs). The requests are out  *)
(*         one at a time (InTurn), in the page's conversation (AllHere,    *)
(*         OfNow), and the page shows as out the one that is (Showing).    *)
(*   LInv  the frames of wake turns on their way, up to the next of which  *)
(*         each promises something: what is said to run runs, or did, and  *)
(*         has not been seen to end (AllKnown); a later turn has a higher  *)
(*         number (Numbered), so that what a `released` counts as seen is  *)
(*         over (Behind, Passed); and each `streaming` has its `idle`      *)
(*         (Idled) and its `released` (Held) behind it, or the turn still  *)
(*         runs and the page still listens, or it polls.                   *)
(*   SInv  what `streaming` comes of. If the server said it, a wake turn's *)
(*         `idle` is to come, or a request's, or that was lost (ToldBusy); *)
(*         if the page supposes it, a request is out, and what it will put *)
(*         back is no `streaming` that nothing ends (GuessedBusy).         *)
(*                                                                         *)
(* What a poll is sent joins the turns its browser has missed, which       *)
(* FlattenSeq does with a recursive function. That there is one for every  *)
(* length follows from the least length at which there is none             *)
(* (JoinsExist); the frames it joins are then followed one turn at a time  *)
(* (TurnedOn, TurnedAll).                                                  *)
(***************************************************************************)
EXTENDS Client, SequenceTheorems, WellFoundedInduction, TLAPS

Says0 == {"idle", "streaming"}
Outgoing == [req : Nat, was : Says0, said : BOOLEAN]
View == [status : Says0, expired : BOOLEAN, begun : BOOLEAN,
         outgoing : Outgoing \union {None}, pending : SUBSET Nat, shown : SUBSET Nat]

Typed ==
  /\ gen \in Nat /\ shut \in BOOLEAN
  /\ reqs \in Seq(Request)
  /\ view \in View
  /\ convs \in Seq(Nat)
  /\ conv # None => conv \in 1 .. Len(convs)
  /\ resp \in Seq(Frames)

Unsaved == {"refused", "unrecorded"}

\* What says that a turn is no longer running.
ClosedAfter(rs, i) == \E j \in 1 .. Len(rs) : j > i /\ rs[j] \in {"idle", "error"}

\* What is on its way in answer to a request whose turn the server has begun, or
\* refused: the end is last, and a refusal is said, until it has been read.
Replies(q, rs) ==
  /\ \A i \in 1 .. Len(rs) : rs[i] = "end" => i = Len(rs) /\ q.turn \in {"none", "recorded", "unrecorded"}
  /\ \A i \in 1 .. Len(rs) : rs[i] = "expired" => q.turn \in Unsaved
  /\ q.at = "reading" /\ ~q.sent => q.turn \in Unsaved
  /\ q.turn \in Unsaved /\ (q.at # "reading" \/ q.sent) => \E i \in 1 .. Len(rs) : rs[i] = "expired"
  /\ \A i \in 1 .. Len(rs) : rs[i] = "streaming" => q.turn = "running" \/ ClosedAfter(rs, i)
  /\ \A i \in 1 .. Len(rs) : rs[i] = "hello" => q.turn # "none"

Truthful(q) ==
  /\ q.res = "false" => q.turn \in {"none", "refused", "unrecorded"}
  /\ q.res = "true" => q.ans \in {"ok", "error"} /\ q.turn \notin Unsaved

\* A request of the generation it was made in.
Sound(q, g, closed, cs, rs) ==
  /\ q.gen <= g /\ (closed => q.gen < g)
  /\ q.on = q.gen
  /\ q.to # None => q.to \in 1 .. Len(cs) /\ cs[q.to] = q.gen
  /\ q.at # "done" => q.res = "open"
  /\ q.ans # "ok" => q.turn = "none"
  /\ q.turn # "none" => q.to # None
  /\ q.at \in {"queued", "held", "retry", "heldAgain", "backoff"} => q.ans # "ok"
  /\ q.at = "reading" => q.ans = "ok"
  /\ q.at \in InFlight \union {"reading"} /\ q.ans = "ok" => Replies(q, rs)
  /\ q.gen = g => Truthful(q)

AllSound == \A r \in 1 .. Len(reqs) : Sound(reqs[r], gen, shut, convs, resp)

\* The requests go out one at a time, in the order they were made.
InTurn ==
  \A r \in 1 .. Len(reqs) : reqs[r].at # "queued" => \A q \in 1 .. r - 1 : reqs[q].at = "done"

OfNow == conv # None /\ ~shut => convs[conv] = gen

\* What is out, or answered, is so in the conversation of now, once there is one.
Here(q, g, c) == q.at \in InFlight \union {"reading"} /\ q.gen = g /\ c # None => q.to = c
AllHere == \A r \in 1 .. Len(reqs) : Here(reqs[r], gen, conv)

\* The page shows one message as out, that of the request that is.
Showing(v, rs, g, closed) ==
  /\ \A r \in v.pending : v.outgoing # None /\ v.outgoing.req = r
  /\ v.pending \intersect v.shown = {}
  /\ v.outgoing # None =>
       /\ ~closed /\ v.outgoing.req \in 1 .. Len(rs)
       /\ rs[v.outgoing.req].at \notin {"queued", "held", "done"}
       /\ rs[v.outgoing.req].gen = g
  /\ \A r \in v.shown : r \in 1 .. Len(rs) /\ rs[r].at \in {"reading", "done"}

CInv == Typed /\ AllSound /\ InTurn /\ OfNow /\ AllHere /\ Showing(view, reqs, gen, shut)

-----------------------------------------------------------------------------
(* What the page shows as out                                              *)

\* w shows no more of what is out than v, and nothing else as out.
Keeps(v, w) ==
  /\ w \in View /\ w.pending \subseteq v.pending /\ w.shown = v.shown
  /\ w.outgoing = None <=> v.outgoing = None
  /\ v.outgoing # None => w.outgoing.req = v.outgoing.req

LEMMA WithdrawKeeps ==
  ASSUME NEW v \in View
  PROVE  /\ Keeps(v, Withdraw(v))
         /\ v.outgoing = None \/ v.outgoing.req \notin Withdraw(v).pending
<1> PICK w : w = Withdraw(v)  OBVIOUS
<1>1. CASE v.outgoing = None
  <2>1. w = v  BY <1>1 DEF Withdraw
  <2> QED  BY <1>1, <2>1 DEF Keeps
<1>2. CASE v.outgoing # None
  <2>1. w = [v EXCEPT !.pending = @ \ {v.outgoing.req}]  BY <1>2 DEF Withdraw
  <2> QED  BY <1>2, <2>1 DEF Keeps, View
<1> QED  BY <1>1, <1>2

LEMMA SaidKeeps ==
  ASSUME NEW v \in View
  PROVE  Keeps(v, Said(v)) /\ Said(v).status = v.status /\ Said(v).pending = v.pending
<1> PICK w : w = Said(v)  OBVIOUS
<1>1. CASE v.outgoing = None
  <2>1. w = v  BY <1>1 DEF Said
  <2> QED  BY <1>1, <2>1 DEF Keeps
<1>2. CASE v.outgoing # None
  <2>1. v.outgoing \in Outgoing  BY <1>2 DEF View
  <2>2. PICK o : o = [v.outgoing EXCEPT !.said = TRUE]  OBVIOUS
  <2>3. o \in Outgoing /\ o.req = v.outgoing.req  BY <2>1, <2>2 DEF Outgoing
  <2>4. o # None  BY <2>3, ClientNames DEF Outgoing, Says0
  <2>5. w = [v EXCEPT !.outgoing = o]  BY <1>2, <2>2 DEF Said, View
  <2> QED  BY <1>2, <2>3, <2>4, <2>5 DEF Keeps, View
<1> QED  BY <1>1, <1>2

LEMMA KeepsOn ==
  ASSUME NEW u, NEW v, NEW w, Keeps(u, v), Keeps(v, w)
  PROVE  Keeps(u, w)
BY DEF Keeps

\* A status that is set.
LEMMA SetKeeps ==
  ASSUME NEW v \in View, NEW s \in Says0
  PROVE  Keeps(v, [v EXCEPT !.status = s]) /\ [v EXCEPT !.status = s].status = s
<1> PICK w : w = [v EXCEPT !.status = s]  OBVIOUS
<1>1. /\ w \in View /\ w.pending = v.pending /\ w.shown = v.shown /\ w.outgoing = v.outgoing
      /\ w.status = s
  BY DEF View
<1> QED  BY <1>1 DEF Keeps

LEMMA StatusKeeps ==
  ASSUME NEW v \in View, NEW s \in Says0
  PROVE  Keeps(v, Status(v, s)) /\ Status(v, s).status = s
<1> PICK u, w : u = Said(v) /\ w = Status(v, s)  OBVIOUS
<1>1. Keeps(v, u)  BY SaidKeeps
<1>2. u \in View  BY <1>1 DEF Keeps
<1>3. w = [u EXCEPT !.status = s]  BY DEF Status
<1>4. Keeps(u, w) /\ w.status = s  BY <1>2, <1>3, SetKeeps
<1> QED  BY <1>1, <1>4, KeepsOn

LEMMA FailedKeeps ==
  ASSUME NEW v \in View
  PROVE  Keeps(v, Failed(v)) /\ Failed(v).status = "idle"
<1> PICK t, u, w : t = Withdraw(v) /\ u = Said(t) /\ w = Failed(v)  OBVIOUS
<1>1. Keeps(v, t) /\ t \in View  BY WithdrawKeeps DEF Keeps
<1>2. Keeps(t, u)  BY <1>1, SaidKeeps
<1>3. u \in View  BY <1>2 DEF Keeps
<1>4. w = [u EXCEPT !.status = "idle"]  BY DEF Failed
<1>5. "idle" \in Says0  BY DEF Says0
<1>6. Keeps(u, w) /\ w.status = "idle"  BY <1>3, <1>4, <1>5, SetKeeps
<1>7. Keeps(v, u)  BY <1>1, <1>2, KeepsOn
<1> QED  BY <1>6, <1>7, KeepsOn

LEMMA OutOfDateKeeps ==
  ASSUME NEW v \in View
  PROVE  /\ Keeps(v, OutOfDate(v)) /\ OutOfDate(v).expired
         /\ OutOfDate(v).status = IF v.expired THEN v.status ELSE "idle"
<1>1. CASE v.expired
  <2>1. OutOfDate(v) = v  BY <1>1 DEF OutOfDate
  <2> QED  BY <1>1, <2>1 DEF Keeps
<1>2. CASE ~v.expired
  <2> PICK t, u, w : t = Withdraw(v) /\ u = Said(t) /\ w = OutOfDate(v)  OBVIOUS
  <2>1. Keeps(v, t) /\ t \in View  BY WithdrawKeeps DEF Keeps
  <2>2. Keeps(t, u)  BY <2>1, SaidKeeps
  <2>3. u \in View  BY <2>2 DEF Keeps
  <2>4. w = [u EXCEPT !.status = "idle", !.expired = TRUE]  BY <1>2 DEF OutOfDate
  <2>5. /\ w \in View /\ w.pending = u.pending /\ w.shown = u.shown /\ w.outgoing = u.outgoing
        /\ w.status = "idle" /\ w.expired
    BY <2>3, <2>4 DEF View, Says0
  <2>6. Keeps(u, w)  BY <2>5 DEF Keeps
  <2>7. Keeps(v, u)  BY <2>1, <2>2, KeepsOn
  <2>8. Keeps(v, w)  BY <2>6, <2>7, KeepsOn
  <2> QED  BY <1>2, <2>5, <2>8
<1> QED  BY <1>1, <1>2

LEMMA StillOutKeeps ==
  ASSUME NEW v \in View
  PROVE  Keeps(v, StillOut(v)) /\ (v.outgoing # None => StillOut(v).status = "streaming")
<1> PICK w : w = StillOut(v)  OBVIOUS
<1>1. CASE v.outgoing = None \/ v.status = "streaming"
  <2>1. w = v  BY <1>1 DEF StillOut
  <2> QED  BY <1>1, <2>1 DEF Keeps
<1>2. CASE ~(v.outgoing = None \/ v.status = "streaming")
  <2>1. v.outgoing \in Outgoing /\ v.status \in Says0  BY <1>2 DEF View
  <2>2. PICK o : o = [v.outgoing EXCEPT !.was = v.status, !.said = FALSE]  OBVIOUS
  <2>3. o \in Outgoing /\ o.req = v.outgoing.req  BY <2>1, <2>2 DEF Outgoing
  <2>4. o # None  BY <2>3, ClientNames DEF Outgoing, Says0
  <2>5. w = [v EXCEPT !.outgoing = o, !.status = "streaming"]
    <3>1. w = [v EXCEPT !.outgoing.was = v.status, !.outgoing.said = FALSE, !.status = "streaming"]
      BY <1>2 DEF StillOut
    <3> QED  BY <2>2, <3>1 DEF View
  <2>6. "streaming" \in Says0  BY DEF Says0
  <2> QED  BY <1>2, <2>3, <2>4, <2>5, <2>6 DEF Keeps, View
<1> QED  BY <1>1, <1>2

\* What is let go leaves nothing out, and of what is shown all.
LEMMA LetGoLeaves ==
  ASSUME NEW v \in View
  PROVE  /\ LetGo(v) \in View /\ LetGo(v).outgoing = None
         /\ LetGo(v).shown = v.shown
         /\ LetGo(v).pending \subseteq v.pending
         /\ v.outgoing # None => v.outgoing.req \notin LetGo(v).pending
<1>1. CASE v.outgoing = None
  <2>1. LetGo(v) = v  BY <1>1 DEF LetGo
  <2> QED  BY <1>1, <2>1
<1>2. CASE v.outgoing # None
  <2> PICK t, w, s : t = Withdraw(v) /\ w = LetGo(v)
                     /\ s = IF ~v.outgoing.said /\ v.status = "streaming" THEN v.outgoing.was ELSE t.status
    OBVIOUS
  <2>1. Keeps(v, t) /\ t \in View /\ v.outgoing.req \notin t.pending
    BY <1>2, WithdrawKeeps DEF Keeps
  <2>2. w = [t EXCEPT !.outgoing = None, !.status =
               IF ~v.outgoing.said /\ v.status = "streaming" THEN v.outgoing.was ELSE @]
    BY <1>2 DEF LetGo
  <2>3. s \in Says0
    <3>1. t.status \in Says0 /\ v.outgoing.was \in Says0  BY <1>2, <2>1 DEF View, Outgoing
    <3> QED  BY <3>1
  <2>4. w = [t EXCEPT !.outgoing = None, !.status = s]  BY <2>1, <2>2 DEF View
  <2>5. /\ w \in View /\ w.pending = t.pending /\ w.shown = t.shown /\ w.outgoing = None
    BY <2>1, <2>3, <2>4 DEF View
  <2> QED  BY <1>2, <2>1, <2>5 DEF Keeps
<1> QED  BY <1>1, <1>2

LEMMA GoesOut ==
  ASSUME NEW v \in View, NEW r \in Nat, v.outgoing = None, v.pending = {}
  PROVE  /\ GoOut(v, r) \in View
         /\ GoOut(v, r).shown = v.shown /\ GoOut(v, r).pending \subseteq {r}
         /\ GoOut(v, r).outgoing # None => GoOut(v, r).outgoing.req = r
         /\ GoOut(v, r).pending # {} => GoOut(v, r).outgoing # None
<1>1. CASE reqs[r].path = "start"
  <2>1. GoOut(v, r) = v  BY <1>1 DEF GoOut
  <2> QED  BY <2>1
<1>2. CASE reqs[r].path # "start"
  <2> PICK w, o, p : /\ w = GoOut(v, r)
                     /\ o = [req |-> r, was |-> v.status, said |-> FALSE]
                     /\ p = v.pending \union (IF reqs[r].path = "chat" THEN {r} ELSE {})
    OBVIOUS
  <2>1. w = [v EXCEPT !.outgoing = o, !.status = "streaming", !.pending = p]
    BY <1>2 DEF GoOut, View
  <2>2. o \in Outgoing /\ o.req = r /\ p \subseteq {r}  BY DEF View, Outgoing
  <2>3. o # None  BY <2>2, ClientNames DEF Outgoing, Says0
  <2>4. /\ w \in View /\ w.shown = v.shown /\ w.pending = p /\ w.outgoing = o
    <3>1. "streaming" \in Says0 /\ p \subseteq Nat  BY <2>2 DEF Says0
    <3> QED  BY ZenonT(20), <2>1, <2>2, <3>1 DEF View
  <2> QED  BY <2>2, <2>3, <2>4
<1> QED  BY <1>1, <1>2

LEMMA ShowingKept ==
  ASSUME NEW v, NEW w, NEW rs, NEW g, NEW closed, Showing(v, rs, g, closed), Keeps(v, w)
  PROVE  Showing(w, rs, g, closed)
BY DEF Showing, Keeps

LEMMA NothingOut ==
  ASSUME NEW v, NEW rs, NEW g, NEW closed, Showing(v, rs, g, closed), v.outgoing = None
  PROVE  v.pending = {}
BY DEF Showing

\* Once it is let go nothing is pending.
LEMMA LetGoShows ==
  ASSUME NEW v \in View, NEW rs, NEW g, NEW closed, Showing(v, rs, g, closed), NEW g2, NEW closed2
  PROVE  Showing(LetGo(v), rs, g2, closed2)
<1> PICK w : w = LetGo(v)  OBVIOUS
<1>1. /\ w.outgoing = None /\ w.shown = v.shown /\ w.pending \subseteq v.pending
      /\ v.outgoing # None => v.outgoing.req \notin w.pending
  BY LetGoLeaves
<1>2. w.pending = {}  BY <1>1 DEF Showing
<1> QED  BY <1>1, <1>2 DEF Showing

\* Requests that go on as what shows of them allows.
LEMMA ShowingOn ==
  ASSUME NEW v, NEW rs, NEW g, NEW closed, Showing(v, rs, g, closed), NEW rs2, Len(rs) \in Nat,
         Len(rs2) \in Nat, Len(rs) <= Len(rs2),
         \A q \in 1 .. Len(rs) :
           /\ rs2[q].gen = rs[q].gen
           /\ rs[q].at \in {"reading", "done"} => rs2[q].at \in {"reading", "done"}
           /\ v.outgoing # None /\ rs[q].at \notin {"queued", "held", "done"} =>
                rs2[q].at \notin {"queued", "held", "done"}
  PROVE  Showing(v, rs2, g, closed)
BY DEF Showing

LEMMA AppliedShows ==
  ASSUME NEW v \in View, NEW f \in Frames \ {"end"}, NEW r \in Nat, NEW rs, NEW g, NEW closed,
         Showing(v, rs, g, closed), r \in 1 .. Len(rs), rs[r].at = "reading"
  PROVE  Applied(v, f, r) \in View /\ Showing(Applied(v, f, r), rs, g, closed)
<1> PICK w : w = Applied(v, f, r)  OBVIOUS
<1>1. CASE f = "hello"
  <2>1. w = v  BY <1>1 DEF Applied
  <2> QED  BY <2>1
<1>2. CASE f = "streaming"
  <2>1. w = Status(v, "streaming")  BY <1>2 DEF Applied
  <2>2. "streaming" \in Says0  BY DEF Says0
  <2>3. Keeps(v, w)  BY <2>1, <2>2, StatusKeeps
  <2> QED  BY <2>3, ShowingKept DEF Keeps
<1>3. CASE f = "user"
  <2>1. PICK t : t = Withdraw(v)  OBVIOUS
  <2>2. w = [t EXCEPT !.shown = @ \union {r}]  BY <1>3, <2>1 DEF Applied
  <2>3. Keeps(v, t) /\ (v.outgoing = None \/ v.outgoing.req \notin t.pending)  BY <2>1, WithdrawKeeps
  <2>4. t.pending = {}  BY <2>3 DEF Keeps, Showing
  <2>5. /\ w \in View /\ w.pending = {} /\ w.outgoing = t.outgoing /\ w.shown = v.shown \union {r}
    BY <2>2, <2>3, <2>4 DEF Keeps, View
  <2>6. Showing(t, rs, g, closed)  BY <2>3, ShowingKept
  <2> QED  BY <2>3, <2>5, <2>6 DEF Showing, Keeps
<1>4. CASE f = "idle"
  <2>1. PICK t : t = Status(v, "idle")  OBVIOUS
  <2>2. w = [t EXCEPT !.begun = TRUE]  BY <1>4, <2>1 DEF Applied
  <2>3. "idle" \in Says0  BY DEF Says0
  <2>4. Keeps(v, t)  BY <2>1, <2>3, StatusKeeps
  <2>5. w \in View /\ w.pending = t.pending /\ w.outgoing = t.outgoing /\ w.shown = t.shown
    BY <2>2, <2>4 DEF Keeps, View
  <2>6. Showing(t, rs, g, closed)  BY <2>4, ShowingKept
  <2> QED  BY <2>5, <2>6 DEF Showing
<1>5. CASE f = "error"
  <2>1. w = Failed(v)  BY <1>5 DEF Applied
  <2>2. Keeps(v, w)  BY <2>1, FailedKeeps
  <2> QED  BY <2>2, ShowingKept DEF Keeps
<1>6. CASE f = "expired"
  <2>1. w = OutOfDate(v)  BY <1>6 DEF Applied
  <2>2. Keeps(v, w)  BY <2>1, OutOfDateKeeps
  <2> QED  BY <2>2, ShowingKept DEF Keeps
<1> QED  BY <1>1, <1>2, <1>3, <1>4, <1>5, <1>6 DEF Frames

-----------------------------------------------------------------------------
(* The chain of requests                                                   *)

LEMMA OneOut ==
  ASSUME Typed, InTurn, NEW r, Out(r), NEW q \in 1 .. Len(reqs), reqs[q].at \notin {"queued", "done"}
  PROVE  q = r
<1>1. Len(reqs) \in Nat /\ DOMAIN reqs = 1 .. Len(reqs)  BY LenProperties DEF Typed
<1>2. r \in 1 .. Len(reqs) /\ reqs[r].at # "done" /\ \A p \in 1 .. r - 1 : reqs[p].at = "done"
  BY <1>1 DEF Out
<1>3. ~(q < r)  BY <1>1, <1>2
<1>4. ~(r < q)
  <2>1. \A p \in 1 .. q - 1 : reqs[p].at = "done"  BY DEF InTurn
  <2> QED  BY <1>1, <1>2, <2>1
<1> QED  BY <1>1, <1>2, <1>3, <1>4

\* Only what is on its way to the one that is out matters.
LEMMA SoundOn ==
  ASSUME NEW q, NEW g, NEW closed, NEW cs, NEW rs, Sound(q, g, closed, cs, rs),
         NEW cs2, Len(cs) \in Nat, Len(cs2) \in Nat, Len(cs) <= Len(cs2),
         \A i \in 1 .. Len(cs) : cs2[i] = cs[i],
         NEW rs2, rs2 = rs \/ q.at \notin InFlight \union {"reading"}
  PROVE  Sound(q, g, closed, cs2, rs2)
<1>1. q.to # None => q.to \in 1 .. Len(cs2) /\ cs2[q.to] = q.gen  BY DEF Sound
<1>2. q.at \in InFlight \union {"reading"} /\ q.ans = "ok" => Replies(q, rs2)  BY DEF Sound
<1> QED  BY <1>1, <1>2 DEF Sound

\* The request that is out is now q2.
LEMMA RequestStep ==
  ASSUME Typed, AllSound, InTurn, NEW r, Out(r), NEW q2 \in Request, q2.at # "queued",
         reqs' = [reqs EXCEPT ![r] = q2], gen' = gen, shut' = shut,
         convs' \in Seq(Nat), Len(convs) <= Len(convs'),
         \A i \in 1 .. Len(convs) : convs'[i] = convs[i],
         Sound(q2, gen, shut, convs', resp')
  PROVE  /\ reqs' \in Seq(Request) /\ Len(reqs') = Len(reqs) /\ Len(reqs) \in Nat
         /\ r \in 1 .. Len(reqs)
         /\ reqs'[r] = q2 /\ \A q \in 1 .. Len(reqs) : q # r => reqs'[q] = reqs[q]
         /\ AllSound' /\ InTurn'
<1>1. Len(reqs) \in Nat /\ DOMAIN reqs = 1 .. Len(reqs) /\ Len(convs) \in Nat /\ Len(convs') \in Nat
  BY LenProperties DEF Typed
<1>2. r \in 1 .. Len(reqs) /\ reqs[r].at # "done" /\ \A p \in 1 .. r - 1 : reqs[p].at = "done"
  BY <1>1 DEF Out
<1>3. /\ reqs' \in Seq(Request) /\ Len(reqs') = Len(reqs)
      /\ reqs'[r] = q2 /\ \A q \in 1 .. Len(reqs) : q # r => reqs'[q] = reqs[q]
  BY <1>1, <1>2, ExceptSeq DEF Typed
<1>4. ASSUME NEW q \in 1 .. Len(reqs) PROVE Sound(reqs'[q], gen, shut, convs', resp')
  <2>1. CASE q = r  BY <1>3, <2>1
  <2>2. CASE q # r
    <3>1. reqs[q].at \in {"queued", "done"}  BY <2>2, OneOut
    <3>2. reqs[q].at \notin InFlight \union {"reading"}  BY <3>1 DEF InFlight
    <3>3. Sound(reqs[q], gen, shut, convs, resp)  BY DEF AllSound
    <3>4. Sound(reqs[q], gen, shut, convs', resp')  BY <1>1, <3>2, <3>3, SoundOn
    <3> QED  BY <1>3, <2>2, <3>4
  <2> QED  BY <2>1, <2>2
<1>5. AllSound'  BY <1>3, <1>4 DEF AllSound
<1>6. ASSUME NEW q \in 1 .. Len(reqs), reqs'[q].at # "queued", NEW p \in 1 .. q - 1
      PROVE  reqs'[p].at = "done"
  <2>0. p \in 1 .. Len(reqs) /\ p < q  BY <1>1
  <2>1. CASE q = r
    <3>1. p # r /\ reqs[p].at = "done"  BY <1>1, <1>2, <2>0, <2>1
    <3> QED  BY <1>3, <2>0, <3>1
  <2>2. CASE q # r
    <3>1. reqs[q].at # "queued"  BY <1>3, <1>6, <2>2
    <3>2. reqs[p].at = "done"  BY <3>1 DEF InTurn
    <3>3. p # r  BY <1>2, <3>2
    <3> QED  BY <1>3, <2>0, <3>2, <3>3
  <2> QED  BY <2>1, <2>2
<1>7. InTurn'  BY <1>3, <1>6 DEF InTurn
<1> QED  BY <1>1, <1>2, <1>3, <1>5, <1>7

\* One request goes on and, for the rest, what it was.
LEMMA ChainStep ==
  ASSUME CInv, NEW r, Out(r), NEW q2 \in Request, q2.at # "queued",
         reqs' = [reqs EXCEPT ![r] = q2], gen' = gen, shut' = shut,
         convs' \in Seq(Nat), Len(convs) <= Len(convs'),
         \A i \in 1 .. Len(convs) : convs'[i] = convs[i],
         conv' = conv \/ (conv' = reqs[r].to /\ reqs[r].gen = gen),
         resp' \in Seq(Frames),
         Sound(q2, gen, shut, convs', resp'), Here(q2, gen, conv'),
         view' \in View, Showing(view', reqs', gen, shut)
  PROVE  CInv'
<1>1. Typed /\ AllSound /\ InTurn /\ OfNow  BY DEF CInv
<1>2. /\ reqs' \in Seq(Request) /\ r \in 1 .. Len(reqs) /\ AllSound' /\ InTurn'
  BY <1>1, RequestStep
<1>3. Len(convs) \in Nat /\ Len(convs') \in Nat  BY <1>1, LenProperties DEF Typed
<1>4. reqs[r].to # None => reqs[r].to \in 1 .. Len(convs) /\ convs[reqs[r].to] = reqs[r].gen
  BY <1>1, <1>2 DEF AllSound, Sound
<1>5. conv' # None => conv' \in 1 .. Len(convs)  BY <1>1, <1>4 DEF Typed
<1>6. Typed'  BY <1>1, <1>2, <1>3, <1>5 DEF Typed
<1>7. OfNow'
  <2>1. CASE conv' = conv
    <3> QED  BY <1>1, <1>5, <2>1 DEF OfNow
  <2>2. CASE conv' = reqs[r].to /\ reqs[r].gen = gen
    <3> QED  BY <1>4, <2>2 DEF OfNow
  <2> QED  BY <2>1, <2>2
<1>8. Showing(view', reqs', gen', shut')  OBVIOUS
<1>9. AllHere'
  <2>1. /\ Len(reqs') = Len(reqs)
        /\ reqs'[r] = q2 /\ \A q \in 1 .. Len(reqs) : q # r => reqs'[q] = reqs[q]
    BY <1>1, RequestStep
  <2>2. ASSUME NEW q \in 1 .. Len(reqs) PROVE Here(reqs'[q], gen, conv')
    <3>1. CASE q = r  BY <2>1, <3>1
    <3>2. CASE q # r
      <4>1. reqs[q].at \in {"queued", "done"}  BY <1>1, <3>2, OneOut
      <4> QED  BY <2>1, <3>2, <4>1 DEF Here, InFlight
    <3> QED  BY <3>1, <3>2
  <2> QED  BY <2>1, <2>2 DEF AllHere
<1> QED  BY <1>2, <1>6, <1>7, <1>8, <1>9 DEF CInv

\* What the request that is out shows, as it goes on.
LEMMA ShowsOn ==
  ASSUME CInv, NEW r, Out(r), NEW q2 \in Request, q2.at \notin {"queued", "held", "done"},
         q2.gen = reqs[r].gen, reqs[r].at = "reading" => q2.at = "reading",
         reqs' = [reqs EXCEPT ![r] = q2],
         NEW v, Showing(v, reqs, gen, shut)
  PROVE  Showing(v, reqs', gen, shut)
<1>1. Len(reqs) \in Nat /\ DOMAIN reqs = 1 .. Len(reqs)  BY LenProperties DEF CInv, Typed
<1>2. r \in 1 .. Len(reqs) /\ reqs[r].at # "done"  BY <1>1 DEF Out
<1>3. /\ Len(reqs') = Len(reqs)
      /\ reqs'[r] = q2 /\ \A q \in 1 .. Len(reqs) : q # r => reqs'[q] = reqs[q]
  BY <1>1, <1>2, ExceptSeq DEF CInv, Typed
<1> HIDE DEF CInv
<1>4. \A q \in 1 .. Len(reqs) :
        /\ reqs'[q].gen = reqs[q].gen
        /\ reqs[q].at \in {"reading", "done"} => reqs'[q].at \in {"reading", "done"}
        /\ v.outgoing # None /\ reqs[q].at \notin {"queued", "held", "done"} =>
             reqs'[q].at \notin {"queued", "held", "done"}
  BY <1>2, <1>3
<1>5. PICK rs2 : rs2 = reqs'  OBVIOUS
<1>6. Len(rs2) \in Nat /\ Len(reqs) <= Len(rs2)  BY <1>1, <1>3, <1>5
<1> QED  BY ONLY <1>1, <1>4, <1>5, <1>6, ShowingOn, Showing(v, reqs, gen, shut)

\* The request that is out is the only one that shows as out.
LEMMA OutgoingIsOut ==
  ASSUME CInv, NEW r, Out(r), NEW v, Showing(v, reqs, gen, shut), v.outgoing # None
  PROVE  /\ v.outgoing.req = r /\ ~shut /\ reqs[r].gen = gen
         /\ reqs[r].at \notin {"queued", "held", "done"}
<1>1. PICK q : q = v.outgoing.req  OBVIOUS
<1>2. /\ ~shut /\ q \in 1 .. Len(reqs)
      /\ reqs[q].at \notin {"queued", "held", "done"} /\ reqs[q].gen = gen
  BY <1>1 DEF Showing
<1>3. q = r  BY <1>2, OneOut DEF CInv
<1> QED  BY <1>1, <1>2, <1>3

LEMMA FinishHolds ==
  ASSUME CInv, NEW r, Out(r), NEW v \in View, NEW res \in {"true", "false", "failed"},
         Showing(v, reqs, gen, shut), Finish(r, res, v),
         gen' = gen, shut' = shut, conv' = conv, convs' = convs,
         reqs[r].gen = gen => /\ res = "false" => reqs[r].turn \in {"none", "refused", "unrecorded"}
                              /\ res = "true" => /\ reqs[r].ans \in {"ok", "error"}
                                                 /\ reqs[r].turn \notin Unsaved
  PROVE  CInv'
<1>1. Len(reqs) \in Nat /\ DOMAIN reqs = 1 .. Len(reqs) /\ Len(convs) \in Nat
  BY LenProperties DEF CInv, Typed
<1>2. r \in 1 .. Len(reqs) /\ reqs[r] \in Request
  BY <1>1, ElementOfSeq DEF CInv, Typed, Out
<1>3. PICK q2 : q2 = [reqs[r] EXCEPT !.at = "done", !.res = res, !.sent = FALSE, !.tries = 0]
  OBVIOUS
<1>4. /\ q2 \in Request /\ q2.at = "done" /\ q2.res = res /\ q2.gen = reqs[r].gen
      /\ q2.on = reqs[r].on /\ q2.to = reqs[r].to /\ q2.ans = reqs[r].ans
      /\ q2.turn = reqs[r].turn
  <2>1. 0 \in 0 .. MaxTries  BY ClientBounds
  <2> QED  BY <1>2, <1>3, <2>1 DEF Request, Places
<1>5. reqs' = [reqs EXCEPT ![r] = q2] /\ resp' = <<>>  BY <1>3 DEF Finish
<1>6. Sound(q2, gen, shut, convs', resp')
  <2>1. Sound(reqs[r], gen, shut, convs, resp)  BY <1>2 DEF CInv, AllSound
  <2>2. q2.gen = gen => Truthful(q2)  BY <1>4 DEF Truthful
  <2> QED  BY <1>4, <2>1, <2>2 DEF Sound, InFlight
<1>7. /\ Len(reqs') = Len(reqs)
      /\ reqs'[r] = q2 /\ \A q \in 1 .. Len(reqs) : q # r => reqs'[q] = reqs[q]
  BY <1>1, <1>2, <1>4, <1>5, ExceptSeq DEF CInv, Typed
<1>8. \A q \in 1 .. Len(reqs) :
        /\ reqs'[q].gen = reqs[q].gen
        /\ reqs[q].at \in {"reading", "done"} => reqs'[q].at \in {"reading", "done"}
  BY <1>4, <1>7
<1>9. view' \in View /\ Showing(view', reqs', gen, shut)
  <2>1. CASE Stale(r) \/ shut
    <3>1. view' = v  BY <2>1 DEF Finish
    <3>2. v.outgoing = None  BY <2>1, OutgoingIsOut DEF Stale
    <3> QED  BY <1>1, <1>7, <1>8, <3>1, <3>2, ShowingOn
  <2>2. CASE ~(Stale(r) \/ shut)
    <3>1. view' = LetGo(v)  BY <2>2 DEF Finish
    <3>2. view' \in View /\ view'.outgoing = None  BY <3>1, LetGoLeaves
    <3>3. Showing(view', reqs, gen, shut)  BY <3>1, LetGoShows
    <3> QED  BY <1>1, <1>7, <1>8, <3>2, <3>3, ShowingOn
  <2> QED  BY <2>1, <2>2
<1>10. resp' \in Seq(Frames) /\ convs' \in Seq(Nat)  BY <1>5, EmptySeq DEF CInv, Typed
<1>11. Len(convs) <= Len(convs') /\ \A i \in 1 .. Len(convs) : convs'[i] = convs[i]
  BY <1>1
<1>12. q2 \in Request /\ q2.at # "queued" /\ Here(q2, gen, conv')  BY <1>4 DEF Here, InFlight
<1> QED  BY ONLY <1>5, <1>6, <1>9, <1>10, <1>11, <1>12, ChainStep, CInv, Out(r), gen' = gen,
            shut' = shut, conv' = conv

\* The request that is out goes on, and is not over.
LEMMA GoesOnHolds ==
  ASSUME CInv, NEW r, Out(r), NEW q2 \in Request, q2.at \notin {"queued", "held", "done"},
         q2.gen = reqs[r].gen, reqs[r].at = "reading" => q2.at = "reading",
         reqs' = [reqs EXCEPT ![r] = q2], gen' = gen, shut' = shut,
         convs' \in Seq(Nat), Len(convs) <= Len(convs'),
         \A i \in 1 .. Len(convs) : convs'[i] = convs[i],
         conv' = conv \/ (conv' = reqs[r].to /\ reqs[r].gen = gen),
         resp' \in Seq(Frames),
         Sound(q2, gen, shut, convs', resp'), Here(q2, gen, conv'),
         view' \in View, Showing(view', reqs, gen, shut)
  PROVE  CInv'
<1>1. PICK w : w = view'  OBVIOUS
<1>2. Showing(w, reqs, gen, shut)  BY <1>1
<1>3. Showing(w, reqs', gen, shut)  BY <1>2, ShowsOn
<1>4. Showing(view', reqs', gen, shut)  BY <1>1, <1>3
<1>5. q2.at # "queued"  OBVIOUS
<1> QED  BY <1>4, <1>5, ChainStep

\* What is known of the request that is out.
LEMMA OutFacts ==
  ASSUME CInv, NEW r, Out(r)
  PROVE  /\ r \in 1 .. Len(reqs) /\ r \in Nat /\ reqs[r] \in Request
         /\ Sound(reqs[r], gen, shut, convs, resp)
         /\ Len(reqs) \in Nat /\ Len(convs) \in Nat /\ convs \in Seq(Nat)
         /\ Len(convs) <= Len(convs)
         /\ \A i \in 1 .. Len(convs) : convs[i] = convs[i]
         /\ resp \in Seq(Frames) /\ view \in View /\ Showing(view, reqs, gen, shut) /\ gen \in Nat
         /\ conv # None => conv \in 1 .. Len(convs)
         /\ Here(reqs[r], gen, conv)
<1>1. Len(reqs) \in Nat /\ DOMAIN reqs = 1 .. Len(reqs) /\ Len(convs) \in Nat
  BY LenProperties DEF CInv, Typed
<1>2. r \in 1 .. Len(reqs)  BY <1>1 DEF Out
<1>3. reqs[r] \in Request  BY <1>2, ElementOfSeq DEF CInv, Typed
<1>4. Sound(reqs[r], gen, shut, convs, resp)  BY <1>2 DEF CInv, AllSound
<1>5. r \in Nat  BY <1>1, <1>2
<1>6. Here(reqs[r], gen, conv)  BY <1>2 DEF CInv, AllHere
<1> QED  BY <1>1, <1>2, <1>3, <1>4, <1>5, <1>6 DEF CInv, Typed

\* It goes out, to the conversation of now.
LEMMA PostHolds ==
  ASSUME CInv, NEW r, Out(r), ~Stale(r), NEW at \in InFlight, NEW v \in View,
         reqs[r].at \in {"queued", "held", "retry", "heldAgain", "backoff"},
         Post(r, at, v), gen' = gen, shut' = shut, conv' = conv, convs' = convs,
         Showing(v, [reqs EXCEPT ![r].at = at, ![r].on = gen, ![r].to = conv, ![r].ans = "none"], gen, shut)
  PROVE  CInv'
<1>1. /\ r \in 1 .. Len(reqs) /\ reqs[r] \in Request
      /\ Sound(reqs[r], gen, shut, convs, resp) /\ gen \in Nat
      /\ Len(convs) \in Nat /\ convs \in Seq(Nat)
      /\ conv # None => conv \in 1 .. Len(convs)
  BY OutFacts
<1>2. PICK q2 : q2 = [reqs[r] EXCEPT !.at = at, !.on = gen, !.to = conv, !.ans = "none"]
  OBVIOUS
<1>3. at \in Places /\ at \notin {"queued", "held", "done", "reading", "retry", "heldAgain", "backoff"}
  BY DEF InFlight, Places
<1>4. conv \in {None} \union Nat  BY <1>1
<1>5. /\ q2 \in Request /\ q2.at = at /\ q2.gen = reqs[r].gen /\ q2.on = gen /\ q2.to = conv
      /\ q2.ans = "none" /\ q2.turn = reqs[r].turn /\ q2.res = reqs[r].res
  BY <1>1, <1>2, <1>3, <1>4 DEF Request
<1>6. reqs' = [reqs EXCEPT ![r] = q2] /\ resp' = <<>> /\ view' = v  BY <1>2 DEF Post
<1>7. Sound(q2, gen, shut, convs, <<>>)
  <2>1. reqs[r].gen = gen /\ ~shut
    <3>1. reqs[r].gen = gen  BY DEF Stale
    <3>2. shut => reqs[r].gen < gen  BY <1>1 DEF Sound
    <3> QED  BY <1>1, <3>1, <3>2
  <2>2. reqs[r].turn = "none" /\ reqs[r].res = "open"
    <3>1. reqs[r].at \in {"queued", "held", "retry", "heldAgain", "backoff"}
            => reqs[r].ans # "ok" /\ reqs[r].at # "done"
      BY <1>1 DEF Sound
    <3> QED  BY <1>1, <3>1 DEF Sound
  <2>3. conv # None => conv \in 1 .. Len(convs) /\ convs[conv] = gen
    BY <1>1, <2>1 DEF CInv, OfNow
  <2>4. Truthful(q2)  BY <1>5, <2>2 DEF Truthful
  <2> QED  BY <1>1, <1>3, <1>5, <2>1, <2>2, <2>3, <2>4 DEF Sound
<1>8. [reqs EXCEPT ![r].at = at, ![r].on = gen, ![r].to = conv, ![r].ans = "none"]
        = [reqs EXCEPT ![r] = q2]
  BY <1>2
<1>9. view' \in View /\ Showing(view', reqs', gen, shut)  BY <1>6, <1>8
<1>10. resp' \in Seq(Frames) /\ convs' \in Seq(Nat)  BY <1>1, <1>6, EmptySeq
<1>11. Len(convs) <= Len(convs') /\ \A i \in 1 .. Len(convs) : convs'[i] = convs[i]
  BY <1>1
<1>12. q2 \in Request /\ q2.at # "queued" /\ Here(q2, gen, conv')  BY <1>3, <1>5 DEF Here
<1>13. Sound(q2, gen, shut, convs', resp')  BY <1>6, <1>7
<1> QED  BY ONLY <1>6, <1>9, <1>10, <1>11, <1>12, <1>13, ChainStep, CInv, Out(r), gen' = gen,
            shut' = shut, conv' = conv

\* It waits: nothing else of it changes but its place, and how often it tried.
LEMMA WaitHolds ==
  ASSUME CInv, NEW r, Out(r), NEW q2 \in Request, q2.at \in {"held", "retry", "heldAgain", "backoff"},
         q2.gen = reqs[r].gen, q2.on = reqs[r].on, q2.to = reqs[r].to, q2.ans = reqs[r].ans,
         q2.turn = reqs[r].turn, q2.res = reqs[r].res,
         reqs[r].at \notin {"done", "reading"}, reqs[r].ans # "ok",
         q2.at = "held" => reqs[r].at \in {"queued", "held"},
         reqs' = [reqs EXCEPT ![r] = q2],
         gen' = gen, shut' = shut, conv' = conv, convs' = convs, view' = view, resp' = resp
  PROVE  CInv'
<1>1. /\ r \in 1 .. Len(reqs) /\ reqs[r] \in Request
      /\ Sound(reqs[r], gen, shut, convs, resp) /\ Len(reqs) \in Nat
      /\ Len(convs) \in Nat /\ convs \in Seq(Nat) /\ resp \in Seq(Frames)
      /\ view \in View /\ Showing(view, reqs, gen, shut)
  BY OutFacts
<1>4. /\ q2 \in Request /\ q2.gen = reqs[r].gen /\ q2.on = reqs[r].on
      /\ q2.to = reqs[r].to /\ q2.ans = reqs[r].ans /\ q2.turn = reqs[r].turn
      /\ q2.res = reqs[r].res /\ q2.at \in {"held", "retry", "heldAgain", "backoff"}
      /\ q2.at = "held" => reqs[r].at \in {"queued", "held"}
  OBVIOUS
<1>5. reqs' = [reqs EXCEPT ![r] = q2]  OBVIOUS
<1>6. Sound(q2, gen, shut, convs, resp)
  <2>1. q2.gen = gen => Truthful(q2)  BY <1>1, <1>4 DEF Sound, Truthful
  <2> QED  BY <1>1, <1>4, <2>1 DEF Sound, InFlight
<1>7. /\ Len(reqs') = Len(reqs)
      /\ reqs'[r] = q2 /\ \A q \in 1 .. Len(reqs) : q # r => reqs'[q] = reqs[q]
  BY <1>1, <1>4, <1>5, ExceptSeq DEF CInv, Typed
<1>8. Showing(view, reqs', gen, shut)
  <2>1. \A q \in 1 .. Len(reqs) :
          /\ reqs'[q].gen = reqs[q].gen
          /\ reqs[q].at \in {"reading", "done"} => reqs'[q].at \in {"reading", "done"}
    BY <1>4, <1>7
  <2>2. view.outgoing # None => reqs[r].at \notin {"queued", "held"}
    BY <1>1, OutgoingIsOut
  <2>3. \A q \in 1 .. Len(reqs) :
          view.outgoing # None /\ reqs[q].at \notin {"queued", "held", "done"} =>
            reqs'[q].at \notin {"queued", "held", "done"}
    BY <1>4, <1>7, <2>2
  <2>4. PICK rs2, u : rs2 = reqs' /\ u = view  OBVIOUS
  <2>5. \A q \in 1 .. Len(reqs) :
          /\ rs2[q].gen = reqs[q].gen
          /\ reqs[q].at \in {"reading", "done"} => rs2[q].at \in {"reading", "done"}
          /\ u.outgoing # None /\ reqs[q].at \notin {"queued", "held", "done"} =>
               rs2[q].at \notin {"queued", "held", "done"}
    BY <2>1, <2>3, <2>4
  <2>6. Len(rs2) \in Nat /\ Len(reqs) <= Len(rs2) /\ Showing(u, reqs, gen, shut)
    BY <1>1, <1>7, <2>4
  <2>7. Showing(u, rs2, gen, shut)  BY ONLY <1>1, <2>5, <2>6, ShowingOn
  <2> QED  BY <2>4, <2>7
<1>9. view' \in View /\ Showing(view', reqs', gen, shut)  BY <1>1, <1>8
<1>10. resp' \in Seq(Frames) /\ convs' \in Seq(Nat)  BY <1>1
<1>11. Len(convs) <= Len(convs') /\ \A i \in 1 .. Len(convs) : convs'[i] = convs[i]
  BY <1>1
<1>12. q2 \in Request /\ q2.at # "queued" /\ Here(q2, gen, conv')  BY <1>4 DEF Here, InFlight
<1>13. Sound(q2, gen, shut, convs', resp')  BY <1>6
<1> QED  BY ONLY <1>5, <1>9, <1>10, <1>11, <1>12, <1>13, ChainStep, CInv, Out(r), gen' = gen,
            shut' = shut, conv' = conv

\* The place a request waits at, without a count of its tries.
LEMMA WaitsForHolds ==
  ASSUME CInv, NEW r, Out(r), NEW at \in {"held", "retry", "heldAgain"},
         reqs[r].at \notin {"done", "reading"}, reqs[r].ans # "ok",
         at = "held" => reqs[r].at \in {"queued", "held"},
         WaitsFor(r, at), gen' = gen, shut' = shut, conv' = conv, convs' = convs
  PROVE  CInv'
<1>1. r \in 1 .. Len(reqs) /\ reqs[r] \in Request  BY OutFacts
<1>2. PICK q2 : q2 = [reqs[r] EXCEPT !.at = at]  OBVIOUS
<1>3. at \in Places  BY DEF Places
<1>4. /\ q2 \in Request /\ q2.at = at /\ q2.gen = reqs[r].gen /\ q2.on = reqs[r].on
      /\ q2.to = reqs[r].to /\ q2.ans = reqs[r].ans /\ q2.turn = reqs[r].turn
      /\ q2.res = reqs[r].res
  BY <1>1, <1>2, <1>3 DEF Request
<1>5. reqs' = [reqs EXCEPT ![r] = q2] /\ view' = view /\ resp' = resp  BY <1>2 DEF WaitsFor
<1>6. q2.at \in {"held", "retry", "heldAgain", "backoff"}  BY <1>4
<1> QED  BY <1>4, <1>5, <1>6, WaitHolds

\* Nothing of a request that has not been taken up is recorded.
LEMMA NotTaken ==
  ASSUME CInv, NEW r, Out(r), reqs[r].at \in {"queued", "held", "retry", "heldAgain", "backoff"}
  PROVE  reqs[r].ans # "ok" /\ reqs[r].turn = "none"
<1>1. Sound(reqs[r], gen, shut, convs, resp)  BY OutFacts
<1> QED  BY <1>1 DEF Sound

LEMMA PumpHolds == ASSUME CInv, NEW r, Pump(r) PROVE CInv'
<1>1. /\ Out(r) /\ reqs[r].at \in {"queued", "held"}
      /\ gen' = gen /\ shut' = shut /\ conv' = conv /\ convs' = convs
  BY DEF Pump, server
<1>2. /\ r \in 1 .. Len(reqs) /\ r \in Nat /\ view \in View /\ Showing(view, reqs, gen, shut)
      /\ reqs[r] \in Request /\ Len(reqs) \in Nat
  BY <1>1, OutFacts
<1>3. reqs[r].ans # "ok" /\ reqs[r].turn = "none"  BY <1>1, NotTaken
<1>4. CASE Dropped(r) /\ Finish(r, "false", view)
  BY <1>1, <1>2, <1>3, <1>4, FinishHolds
<1>5. CASE WaitsFor(r, "held")
  BY <1>1, <1>3, <1>5, WaitsForHolds
<1>6. CASE ~Dropped(r) /\ Post(r, "posted", GoOut(view, r))
  <2>1. view.outgoing = None  BY <1>1, <1>2, OutgoingIsOut
  <2>2. view.pending = {}  BY <1>2, <2>1, NothingOut
  <2>3. PICK v : v = GoOut(view, r)  OBVIOUS
  <2>4. /\ v \in View /\ v.shown = view.shown /\ v.pending \subseteq {r}
        /\ v.outgoing # None => v.outgoing.req = r
        /\ v.pending # {} => v.outgoing # None
    BY <1>2, <2>1, <2>2, <2>3, GoesOut
  <2>5. ~Stale(r) /\ reqs[r].gen = gen /\ ~shut
    <3>1. Sound(reqs[r], gen, shut, convs, resp) /\ gen \in Nat  BY <1>1, OutFacts
    <3>2. reqs[r].gen = gen  BY <1>6 DEF Dropped, Stale
    <3>3. shut => reqs[r].gen < gen  BY <3>1 DEF Sound
    <3> QED  BY <3>1, <3>2, <3>3 DEF Stale
  <2>6. PICK rs : rs = [reqs EXCEPT ![r].at = "posted", ![r].on = gen, ![r].to = conv, ![r].ans = "none"]
    OBVIOUS
  <2>7. PICK q2 : q2 = [reqs[r] EXCEPT !.at = "posted", !.on = gen, !.to = conv, !.ans = "none"]
    OBVIOUS
  <2>8. rs = [reqs EXCEPT ![r] = q2]  BY <2>6, <2>7
  <2>9. q2.at = "posted" /\ q2.gen = reqs[r].gen  BY <1>2, <2>7 DEF Request
  <2>10. DOMAIN reqs = 1 .. Len(reqs) /\ Len(rs) = Len(reqs)
         /\ rs[r] = q2 /\ \A q \in 1 .. Len(reqs) : q # r => rs[q] = reqs[q]
    <3>1. DOMAIN reqs = 1 .. Len(reqs)  BY LenProperties DEF CInv, Typed
    <3>2. DOMAIN rs = DOMAIN reqs  BY <2>8
    <3>3. Len(rs) = Len(reqs)
      <4>1. q2 \in Request
        <5>1. "posted" \in Places /\ gen \in Nat /\ conv \in {None} \union Nat
          BY <1>1, OutFacts DEF Places
        <5> QED  BY <1>2, <2>7, <5>1 DEF Request
      <4> QED  BY <1>2, <2>8, <4>1, ExceptSeq DEF CInv, Typed
    <3> QED  BY <1>2, <2>8, <3>1, <3>3
  <2>11. Showing(v, rs, gen, shut)
    <3>1. \A q \in v.pending : v.outgoing # None /\ v.outgoing.req = q  BY <2>4
    <3>2. \A q \in v.shown : q \in 1 .. Len(reqs) /\ reqs[q].at \in {"reading", "done"} /\ q # r
      BY <1>1, <1>2, <2>4 DEF Showing
    <3>3. v.pending \intersect v.shown = {}  BY <2>4, <3>2
    <3>4. \A q \in v.shown : q \in 1 .. Len(rs) /\ rs[q].at \in {"reading", "done"}
      BY <2>10, <3>2
    <3>5. v.outgoing # None =>
            /\ ~shut /\ v.outgoing.req \in 1 .. Len(rs)
            /\ rs[v.outgoing.req].at \notin {"queued", "held", "done"}
            /\ rs[v.outgoing.req].gen = gen
      BY <1>2, <2>4, <2>5, <2>9, <2>10
    <3> QED  BY <3>1, <3>3, <3>4, <3>5 DEF Showing
  <2>12. "posted" \in InFlight  BY DEF InFlight
  <2>13. Post(r, "posted", v)  BY <1>6, <2>3
  <2>14. Showing(v, [reqs EXCEPT ![r].at = "posted", ![r].on = gen, ![r].to = conv,
                                 ![r].ans = "none"], gen, shut)
    BY <2>6, <2>11
  <2>15. reqs[r].at \in {"queued", "held", "retry", "heldAgain", "backoff"}  BY <1>1
  <2> QED  BY ONLY CInv, <1>1, <2>4, <2>5, <2>12, <2>13, <2>14, <2>15, PostHolds
<1> QED  BY <1>4, <1>5, <1>6 DEF Pump

\* What was out before goes out again.
LEMMA PostAgainHolds ==
  ASSUME CInv, NEW r, Out(r), ~Stale(r), NEW at \in InFlight,
         reqs[r].at \in {"retry", "heldAgain", "backoff"},
         Post(r, at, StillOut(view)), gen' = gen, shut' = shut, conv' = conv, convs' = convs
  PROVE  CInv'
<1>1. /\ r \in 1 .. Len(reqs) /\ reqs[r] \in Request /\ view \in View
      /\ Showing(view, reqs, gen, shut) /\ gen \in Nat /\ conv \in {None} \union Nat
  <2>1. conv # None => conv \in Nat  BY OutFacts
  <2> QED  BY <2>1, OutFacts
<1>2. PICK v : v = StillOut(view)  OBVIOUS
<1>3. Keeps(view, v)  BY <1>1, <1>2, StillOutKeeps
<1>4. v \in View /\ Showing(v, reqs, gen, shut)  BY <1>1, <1>3, ShowingKept DEF Keeps
<1>5. PICK q2 : q2 = [reqs[r] EXCEPT !.at = at, !.on = gen, !.to = conv, !.ans = "none"]
  OBVIOUS
<1>6. at \in Places /\ at \notin {"queued", "held", "done"}  BY DEF InFlight, Places
<1>7. q2 \in Request /\ q2.at = at /\ q2.gen = reqs[r].gen  BY <1>1, <1>5, <1>6 DEF Request
<1>8. /\ reqs' = [reqs EXCEPT ![r].at = at, ![r].on = gen, ![r].to = conv, ![r].ans = "none"]
      /\ reqs' = [reqs EXCEPT ![r] = q2]
  BY <1>5 DEF Post
<1>9. q2.at \notin {"queued", "held", "done"} /\ (reqs[r].at = "reading" => q2.at = "reading")
  BY <1>6, <1>7
<1>10. Showing(v, reqs', gen, shut)  BY ZenonT(20), <1>4, <1>7, <1>8, <1>9, ShowsOn
<1>11. Showing(v, [reqs EXCEPT ![r].at = at, ![r].on = gen, ![r].to = conv, ![r].ans = "none"],
               gen, shut)
  BY <1>8, <1>10
<1>12. Post(r, at, v)  BY <1>2
<1>13. reqs[r].at \in {"queued", "held", "retry", "heldAgain", "backoff"}  OBVIOUS
<1> QED  BY <1>4, <1>11, <1>12, <1>13, PostHolds

\* A request nothing of which was taken up is given up.
LEMMA DroppedHolds ==
  ASSUME CInv, NEW r, Out(r), reqs[r].at \in {"queued", "held", "retry", "heldAgain", "backoff"},
         Finish(r, "false", view), gen' = gen, shut' = shut, conv' = conv, convs' = convs
  PROVE  CInv'
<1>1. view \in View /\ Showing(view, reqs, gen, shut)  BY OutFacts
<1>2. reqs[r].turn = "none"  BY NotTaken
<1> QED  BY <1>1, <1>2, FinishHolds

LEMMA RetryHolds == ASSUME CInv, NEW r, Retry(r) PROVE CInv'
<1>1. /\ Out(r) /\ reqs[r].at \in {"retry", "heldAgain"}
      /\ gen' = gen /\ shut' = shut /\ conv' = conv /\ convs' = convs
  BY DEF Retry, server
<1>2. reqs[r].ans # "ok"  BY <1>1, NotTaken
<1>3. CASE Finish(r, "false", view)  BY <1>1, <1>3, DroppedHolds
<1>4. CASE WaitsFor(r, "heldAgain")  BY <1>1, <1>2, <1>4, WaitsForHolds
<1>5. CASE ~Dropped(r) /\ Post(r, "reposted", StillOut(view))
  <2>1. ~Stale(r) /\ "reposted" \in InFlight  BY <1>5 DEF Dropped, InFlight
  <2> QED  BY <1>1, <1>5, <2>1, PostAgainHolds
<1> QED  BY <1>3, <1>4, <1>5 DEF Retry

LEMMA TryOnHolds == ASSUME CInv, NEW r, TryOn(r) PROVE CInv'
<1>1. /\ Out(r) /\ reqs[r].at = "backoff"
      /\ gen' = gen /\ shut' = shut /\ conv' = conv /\ convs' = convs
  BY DEF TryOn, server
<1>2. CASE Finish(r, "false", view)  BY <1>1, <1>2, DroppedHolds
<1>3. CASE ~Dropped(r) /\ Post(r, "trying", StillOut(view))
  <2>1. ~Stale(r) /\ "trying" \in InFlight  BY <1>3 DEF Dropped, InFlight
  <2> QED  BY <1>1, <1>3, <2>1, PostAgainHolds
<1> QED  BY <1>2, <1>3 DEF TryOn

\* What a failure shows of what is out.
LEMMA FailedShows ==
  ASSUME CInv, NEW r, Out(r)
  PROVE  Failed(view) \in View /\ Showing(Failed(view), reqs, gen, shut)
<1>1. view \in View /\ Showing(view, reqs, gen, shut)  BY OutFacts
<1>2. PICK v : v = Failed(view)  OBVIOUS
<1>3. Keeps(view, v)  BY <1>1, <1>2, FailedKeeps
<1>4. v \in View /\ Showing(v, reqs, gen, shut)  BY <1>1, <1>3, ShowingKept DEF Keeps
<1> QED  BY <1>2, <1>4

LEMMA BusyHolds == ASSUME CInv, NEW r, Busy(r) PROVE CInv'
<1>1. /\ Out(r) /\ reqs[r].at \in InFlight /\ reqs[r].ans = "busy"
      /\ gen' = gen /\ shut' = shut /\ conv' = conv /\ convs' = convs
  BY DEF Busy, Answered, Reads, server
<1>2. /\ r \in 1 .. Len(reqs) /\ reqs[r] \in Request
      /\ Sound(reqs[r], gen, shut, convs, resp)
  BY <1>1, OutFacts
<1>3. reqs[r].turn = "none"  BY <1>1, <1>2 DEF Sound
<1>4. reqs[r].at \notin {"done", "reading"} /\ reqs[r].ans # "ok"  BY <1>1 DEF InFlight
<1>5. CASE WaitsFor(r, "retry")  BY <1>1, <1>4, <1>5, WaitsForHolds
<1>6. CASE /\ TriesOn(r)
           /\ reqs' = [reqs EXCEPT ![r].at = "backoff", ![r].tries = @ + 1]
           /\ UNCHANGED <<view, resp, lost>>
  <2>1. PICK n : n = reqs[r].tries + 1  OBVIOUS
  <2>2. reqs[r].tries \in 0 .. MaxTries /\ MaxTries \in Nat  BY <1>2, ClientBounds DEF Request
  <2>3. n \in 0 .. MaxTries  BY <1>6, <2>1, <2>2 DEF TriesOn
  <2>4. PICK q2 : q2 = [reqs[r] EXCEPT !.at = "backoff", !.tries = n]  OBVIOUS
  <2>5. reqs' = [reqs EXCEPT ![r] = q2]  BY <1>6, <2>1, <2>4
  <2>6. /\ q2 \in Request /\ q2.at = "backoff" /\ q2.gen = reqs[r].gen /\ q2.on = reqs[r].on
        /\ q2.to = reqs[r].to /\ q2.ans = reqs[r].ans /\ q2.turn = reqs[r].turn
        /\ q2.res = reqs[r].res
    BY <1>2, <2>3, <2>4 DEF Request, Places
  <2>7. view' = view /\ resp' = resp  BY <1>6
  <2>8. q2.at \in {"held", "retry", "heldAgain", "backoff"} /\ q2.at # "held"  BY <2>6
  <2> QED  BY <1>1, <1>4, <2>5, <2>6, <2>7, <2>8, WaitHolds
<1>7. CASE Finish(r, "false", Failed(view))
  <2>1. PICK v : v = Failed(view)  OBVIOUS
  <2>2. v \in View /\ Showing(v, reqs, gen, shut)  BY <1>1, <2>1, FailedShows
  <2>3. Finish(r, "false", v)  BY <1>7, <2>1
  <2> QED  BY <1>1, <1>3, <2>2, <2>3, FinishHolds
<1> QED  BY <1>5, <1>6, <1>7 DEF Busy

LEMMA DeniedHolds == ASSUME CInv, NEW r, Denied(r) PROVE CInv'
<1>1. /\ Out(r) /\ reqs[r].at \in InFlight /\ reqs[r].ans = "denied"
      /\ gen' = gen /\ shut' = shut /\ conv' = conv /\ convs' = convs
      /\ Finish(r, "false", Failed(view))
  BY DEF Denied, Answered, Reads, server
<1>2. Sound(reqs[r], gen, shut, convs, resp)  BY <1>1, OutFacts
<1>3. reqs[r].turn = "none"  BY <1>1, <1>2 DEF Sound
<1>4. PICK v : v = Failed(view)  OBVIOUS
<1>5. v \in View /\ Showing(v, reqs, gen, shut)  BY <1>1, <1>4, FailedShows
<1>6. Finish(r, "false", v)  BY <1>1, <1>4
<1> QED  BY <1>1, <1>3, <1>5, <1>6, FinishHolds

LEMMA ErrsHolds == ASSUME CInv, NEW r, Errs(r) PROVE CInv'
<1>1. /\ Out(r) /\ reqs[r].at \in InFlight /\ reqs[r].ans = "error"
      /\ gen' = gen /\ shut' = shut /\ conv' = conv /\ convs' = convs
      /\ Finish(r, "true", Failed(view))
  BY DEF Errs, Answered, Reads, server
<1>2. Sound(reqs[r], gen, shut, convs, resp)  BY <1>1, OutFacts
<1>3. reqs[r].turn = "none"  BY <1>1, <1>2 DEF Sound
<1>4. PICK v : v = Failed(view)  OBVIOUS
<1>5. v \in View /\ Showing(v, reqs, gen, shut)  BY <1>1, <1>4, FailedShows
<1>6. Finish(r, "true", v)  BY <1>1, <1>4
<1>7. reqs[r].turn \notin Unsaved  BY <1>3 DEF Unsaved
<1> QED  BY <1>1, <1>5, <1>6, <1>7, FinishHolds

LEMMA TakenUpHolds == ASSUME CInv, NEW r, TakenUp(r) PROVE CInv'
<1>1. /\ Out(r) /\ reqs[r].at \in InFlight /\ reqs[r].ans = "ok"
      /\ gen' = gen /\ shut' = shut /\ conv' = conv /\ convs' = convs /\ view' = view /\ resp' = resp
      /\ reqs' = [reqs EXCEPT ![r].at = "reading", ![r].sent = TRUE]
  BY DEF TakenUp, Answered, Reads, server
<1>2. /\ r \in 1 .. Len(reqs) /\ reqs[r] \in Request
      /\ Sound(reqs[r], gen, shut, convs, resp) /\ Len(convs) \in Nat /\ convs \in Seq(Nat)
      /\ resp \in Seq(Frames) /\ view \in View /\ Showing(view, reqs, gen, shut)
      /\ Len(convs) <= Len(convs)
  BY <1>1, OutFacts
<1>3. PICK q2 : q2 = [reqs[r] EXCEPT !.at = "reading", !.sent = TRUE]  OBVIOUS
<1>4. /\ q2 \in Request /\ q2.at = "reading" /\ q2.gen = reqs[r].gen /\ q2.on = reqs[r].on
      /\ q2.to = reqs[r].to /\ q2.ans = "ok" /\ q2.turn = reqs[r].turn
      /\ q2.res = reqs[r].res /\ q2.sent
  BY <1>1, <1>2, <1>3 DEF Request, Places
<1>5. reqs' = [reqs EXCEPT ![r] = q2]  BY <1>1, <1>3
<1>6. reqs[r].at \notin {"reading", "queued", "held", "done"}  BY <1>1 DEF InFlight
<1>7. Sound(q2, gen, shut, convs, resp)
  <2>1. q2.gen = gen => Truthful(q2)  BY <1>1, <1>2, <1>4 DEF Sound, Truthful
  <2>2. Replies(reqs[r], resp)  BY <1>1, <1>2 DEF Sound
  <2>3. Replies(q2, resp)  BY <1>4, <1>6, <2>2 DEF Replies
  <2> QED  BY <1>1, <1>2, <1>4, <1>6, <2>1, <2>3 DEF Sound
<1>8. /\ convs' \in Seq(Nat) /\ Len(convs) <= Len(convs')
      /\ \A i \in 1 .. Len(convs) : convs'[i] = convs[i]
  BY <1>1, <1>2
<1>9. /\ resp' \in Seq(Frames) /\ view' \in View /\ Showing(view', reqs, gen, shut)
      /\ Sound(q2, gen, shut, convs', resp')
  BY <1>1, <1>2, <1>7
<1>10. Here(q2, gen, conv')
  <2>1. Here(reqs[r], gen, conv)  BY <1>1, OutFacts
  <2> QED  BY <1>1, <1>4, <2>1 DEF Here
<1> QED  BY <1>1, <1>4, <1>5, <1>8, <1>9, <1>10, GoesOnHolds

\* What is left to read of what is on its way.
LEMMA RepliesRead ==
  ASSUME NEW q, NEW q2, NEW rs \in Seq(Frames), rs # <<>>, Replies(q, rs), Head(rs) # "end",
         q.at = "reading", q2.at = "reading", q2.turn = q.turn,
         q2.sent = (q.sent /\ Head(rs) # "expired")
  PROVE  Tail(rs) \in Seq(Frames) /\ Replies(q2, Tail(rs))
<1>1. /\ Len(rs) \in Nat /\ Len(rs) >= 1 /\ Head(rs) = rs[1]
      /\ Tail(rs) \in Seq(Frames) /\ Len(Tail(rs)) = Len(rs) - 1
      /\ \A i \in 1 .. Len(Tail(rs)) : Tail(rs)[i] = rs[i + 1]
  BY HeadTailProperties, LenProperties, EmptySeq
<1> PICK t : t = Tail(rs)  OBVIOUS
<1>2. /\ Len(t) = Len(rs) - 1 /\ Len(rs) \in Nat /\ 1 \in 1 .. Len(rs)
      /\ \A i \in 1 .. Len(t) : i + 1 \in 1 .. Len(rs) /\ t[i] = rs[i + 1]
  BY <1>1
<1>3. \A i \in 1 .. Len(t) : t[i] = "end" => i = Len(t) /\ q.turn \in {"none", "recorded", "unrecorded"}
  <2> TAKE i \in 1 .. Len(t)
  <2>1. i + 1 \in 1 .. Len(rs) /\ t[i] = rs[i + 1] /\ i \in Nat  BY <1>2
  <2>2. rs[i + 1] = "end" => i + 1 = Len(rs) /\ q.turn \in {"none", "recorded", "unrecorded"}
    BY <2>1 DEF Replies
  <2>3. i + 1 = Len(rs) => i = Len(t)
    <3>1. PICK m, n : m = Len(rs) /\ n = Len(t)  OBVIOUS
    <3>2. n = m - 1 /\ m \in Nat /\ i \in Nat  BY <1>2, <2>1, <3>1
    <3>3. i + 1 = m => i = n  BY ONLY <3>2
    <3> QED  BY <3>1, <3>3
  <2> QED  BY <2>1, <2>2, <2>3
<1>4. \A i \in 1 .. Len(t) : t[i] = "expired" => q.turn \in Unsaved
  BY <1>2 DEF Replies
<1>5. ~q2.sent => q.turn \in Unsaved
  <2>1. rs[1] = "expired" => q.turn \in Unsaved  BY <1>2 DEF Replies
  <2>2. ~q.sent => q.turn \in Unsaved  BY DEF Replies
  <2>3. CASE Head(rs) = "expired"  BY <1>1, <2>1, <2>3
  <2>4. CASE Head(rs) # "expired"
    <3>1. q2.sent = (q.sent /\ TRUE)  BY <2>4
    <3>2. q.sent => q2.sent  BY <3>1
    <3> QED  BY <2>2, <3>2
  <2> QED  BY <2>3, <2>4
<1>6. ASSUME q.turn \in Unsaved, q2.sent PROVE \E i \in 1 .. Len(t) : t[i] = "expired"
  <2>1. PICK i \in 1 .. Len(rs) : rs[i] = "expired"  BY <1>6 DEF Replies
  <2>2. i # 1  BY <1>1, <1>6, <2>1
  <2>3. i - 1 \in 1 .. Len(t) /\ (i - 1) + 1 = i  BY <1>1, <2>1, <2>2
  <2>4. t[i - 1] = rs[i]  BY <1>2, <2>3
  <2> QED  BY <2>1, <2>3, <2>4
<1>7. ASSUME NEW i \in 1 .. Len(t), t[i] = "streaming"
      PROVE  q.turn = "running" \/ ClosedAfter(t, i)
  <2>1. i + 1 \in 1 .. Len(rs) /\ rs[i + 1] = "streaming" /\ i \in Nat  BY <1>2, <1>7
  <2>2. q.turn = "running" \/ ClosedAfter(rs, i + 1)  BY <2>1 DEF Replies
  <2>3. CASE ClosedAfter(rs, i + 1)
    <3>1. PICK j \in 1 .. Len(rs) : j > i + 1 /\ rs[j] \in {"idle", "error"}
      BY <2>3 DEF ClosedAfter
    <3>2. j - 1 \in 1 .. Len(t) /\ j - 1 > i /\ (j - 1) + 1 = j  BY <1>2, <2>1, <3>1
    <3>3. t[j - 1] = rs[j]  BY <1>2, <3>2
    <3> QED  BY <3>1, <3>2, <3>3 DEF ClosedAfter
  <2> QED  BY <2>2, <2>3
<1>8. \A i \in 1 .. Len(t) : t[i] = "hello" => q.turn # "none"
  BY <1>2 DEF Replies
<1>9. Replies(q2, t)  BY <1>3, <1>4, <1>5, <1>6, <1>7, <1>8 DEF Replies
<1> QED  BY <1>1, <1>9

LEMMA ReadHolds == ASSUME CInv, NEW r, Read(r) PROVE CInv'
<1>1. /\ Out(r) /\ ~Stale(r) /\ reqs[r].at = "reading" /\ resp # <<>>
      /\ gen' = gen /\ shut' = shut /\ convs' = convs
  BY DEF Read, Reads, server
<1>2. /\ r \in 1 .. Len(reqs) /\ reqs[r] \in Request
      /\ Sound(reqs[r], gen, shut, convs, resp) /\ Len(convs) \in Nat /\ convs \in Seq(Nat)
      /\ resp \in Seq(Frames) /\ view \in View /\ Showing(view, reqs, gen, shut)
      /\ Len(convs) <= Len(convs) /\ r \in Nat
  BY <1>1, OutFacts
<1>3. reqs[r].ans = "ok" /\ reqs[r].gen = gen /\ reqs[r].res = "open"
  BY <1>1, <1>2 DEF Sound, Stale
<1>4. Replies(reqs[r], resp)  BY <1>1, <1>2, <1>3 DEF Sound
<1>5. /\ Len(resp) \in Nat /\ Len(resp) >= 1 /\ Head(resp) = resp[1] /\ Head(resp) \in Frames
  BY <1>1, <1>2, HeadTailProperties, LenProperties, EmptySeq
<1>6. CASE Head(resp) = "end"
  <2>1. /\ Finish(r, IF reqs[r].sent THEN "true" ELSE "false", view) /\ conv' = conv
    BY <1>6 DEF Read
  <2>2. PICK res : res = IF reqs[r].sent THEN "true" ELSE "false"  OBVIOUS
  <2>3. 1 \in 1 .. Len(resp) /\ resp[1] = "end"  BY <1>5, <1>6
  <2>4. Len(resp) = 1 /\ reqs[r].turn \in {"none", "recorded", "unrecorded"}
    BY <1>4, <2>3 DEF Replies
  <2>5. \A i \in 1 .. Len(resp) : resp[i] # "expired"  BY <2>3, <2>4
  <2>6. reqs[r].sent => reqs[r].turn \notin Unsaved  BY <1>4, <2>5 DEF Replies
  <2>7. ~reqs[r].sent => reqs[r].turn \in Unsaved  BY <1>1, <1>4 DEF Replies
  <2>8. /\ res = "false" => reqs[r].turn \in {"none", "refused", "unrecorded"}
        /\ res = "true" => reqs[r].ans \in {"ok", "error"} /\ reqs[r].turn \notin Unsaved
    BY <1>3, <2>2, <2>6, <2>7 DEF Unsaved
  <2>9. Finish(r, res, view) /\ res \in {"true", "false", "failed"}  BY <2>1, <2>2
  <2> QED  BY <1>1, <1>2, <2>1, <2>8, <2>9, FinishHolds
<1>7. CASE Head(resp) # "end"
  <2>1. PICK f : f = Head(resp)  OBVIOUS
  <2>2. /\ resp' = Tail(resp) /\ view' = Applied(view, f, r)
        /\ reqs' = [reqs EXCEPT ![r].sent = SentAfter(r, f)]
        /\ conv' = conv \/ conv' = reqs[r].to
    BY <1>7, <2>1 DEF Read
  <2>3. PICK q2 : q2 = [reqs[r] EXCEPT !.sent = SentAfter(r, f)]  OBVIOUS
  <2>4. reqs' = [reqs EXCEPT ![r] = q2]  BY <2>2, <2>3
  <2>5. /\ q2 \in Request /\ q2.at = "reading" /\ q2.gen = reqs[r].gen /\ q2.on = reqs[r].on
        /\ q2.to = reqs[r].to /\ q2.ans = "ok" /\ q2.turn = reqs[r].turn
        /\ q2.res = reqs[r].res /\ q2.sent = SentAfter(r, f)
    <3>1. SentAfter(r, f) \in BOOLEAN  BY DEF SentAfter
    <3> QED  BY <1>1, <1>2, <1>3, <2>3, <3>1 DEF Request
  <2>6. resp' \in Seq(Frames) /\ Replies(q2, resp')
    <3>1. q2.sent = (reqs[r].sent /\ Head(resp) # "expired")  BY <2>1, <2>5 DEF SentAfter
    <3> QED  BY <1>1, <1>2, <1>4, <1>7, <2>2, <2>5, <3>1, RepliesRead
  <2>7. Sound(q2, gen, shut, convs, resp')
    <3>1. q2.gen = gen => Truthful(q2)  BY <1>3, <2>5 DEF Truthful
    <3> QED  BY <1>1, <1>2, <2>5, <2>6, <3>1 DEF Sound
  <2>8. view' \in View /\ Showing(view', reqs, gen, shut)
    <3>1. f \in Frames \ {"end"}  BY <1>5, <1>7, <2>1
    <3> QED  BY <1>1, <1>2, <2>2, <3>1, AppliedShows
  <2>9. /\ convs' \in Seq(Nat) /\ Len(convs) <= Len(convs')
        /\ \A i \in 1 .. Len(convs) : convs'[i] = convs[i]
        /\ Sound(q2, gen, shut, convs', resp')
        /\ conv' = conv \/ (conv' = reqs[r].to /\ reqs[r].gen = gen)
        /\ q2.at \notin {"queued", "held", "done"}
    BY <1>1, <1>2, <1>3, <2>2, <2>5, <2>7
  <2>10. (reqs[r].at = "reading" => q2.at = "reading") /\ Here(q2, gen, conv')
    <3>1. Here(reqs[r], gen, conv)  BY <1>1, OutFacts
    <3> QED  BY <1>1, <2>2, <2>5, <3>1 DEF Here
  <2> QED  BY ONLY CInv, <1>1, <2>4, <2>5, <2>6, <2>8, <2>9, <2>10, GoesOnHolds
<1> QED  BY <1>6, <1>7

LEMMA AbortedHolds == ASSUME CInv, NEW r, Aborted(r) PROVE CInv'
<1>1. /\ Out(r) /\ reqs[r].gen # gen
      /\ gen' = gen /\ shut' = shut /\ conv' = conv /\ convs' = convs
  BY DEF Aborted, Stale, server
<1>2. PICK res \in {"true", "false"} : Finish(r, res, view)  BY DEF Aborted
<1>3. view \in View /\ Showing(view, reqs, gen, shut)  BY <1>1, OutFacts
<1> QED  BY <1>1, <1>2, <1>3, FinishHolds

LEMMA CutHolds == ASSUME CInv, NEW r, Cut(r) PROVE CInv'
<1>1. /\ Out(r) /\ Finish(r, "failed", view)
      /\ gen' = gen /\ shut' = shut /\ conv' = conv /\ convs' = convs
  BY DEF Cut, Reads, server
<1>2. view \in View /\ Showing(view, reqs, gen, shut)  BY <1>1, OutFacts
<1> QED  BY <1>1, <1>2, FinishHolds

-----------------------------------------------------------------------------
(* The page and the events stream                                          *)

\* What the page shows changes, and no request does.
LEMMA ViewHolds ==
  ASSUME CInv, UNCHANGED <<gen, shut, reqs, conv, convs, resp>>,
         NEW v \in View, view' = v, Showing(v, reqs, gen, shut)
  PROVE  CInv'
<1>1. Typed'  BY DEF CInv, Typed
<1>2. AllSound' /\ InTurn' /\ OfNow' /\ AllHere'  BY DEF CInv, AllSound, InTurn, OfNow, AllHere
<1>3. Showing(view', reqs', gen', shut')  OBVIOUS
<1> QED  BY <1>1, <1>2, <1>3 DEF CInv

LEMMA NothingShown ==
  ASSUME CInv, UNCHANGED <<gen, shut, reqs, conv, convs, resp, view>>
  PROVE  CInv'
BY ViewHolds DEF CInv, Typed

LEMMA KeepingHolds ==
  ASSUME CInv, UNCHANGED <<gen, shut, reqs, conv, convs, resp>>,
         NEW v, view' = v, Keeps(view, v)
  PROVE  CInv'
BY ShowingKept, ViewHolds DEF CInv, Typed, Keeps

LEMMA EnqueueHolds == ASSUME CInv, NEW path \in Paths, Enqueue(path) PROVE CInv'
<1>1. /\ reqs' = Append(reqs, NewRequest(path, gen)) /\ ~shut
      /\ UNCHANGED <<gen, shut, view, conv, convs, resp>>
  BY DEF Enqueue, chat, server
<1>2. gen \in Nat /\ reqs \in Seq(Request) /\ Len(reqs) \in Nat  BY LenProperties DEF CInv, Typed
<1>3. PICK q2 : q2 = NewRequest(path, gen)  OBVIOUS
<1>4. /\ q2 \in Request /\ q2.gen = gen /\ q2.on = gen /\ q2.to = None /\ q2.at = "queued"
      /\ q2.ans = "none" /\ q2.turn = "none" /\ q2.res = "open"
  <2>1. 0 \in 0 .. MaxTries  BY ClientBounds
  <2> QED  BY <1>2, <1>3, <2>1 DEF NewRequest, Request, Places
<1>5. /\ reqs' \in Seq(Request) /\ Len(reqs') = Len(reqs) + 1 /\ reqs'[Len(reqs) + 1] = q2
      /\ \A q \in 1 .. Len(reqs) : reqs'[q] = reqs[q]
  BY <1>1, <1>2, <1>3, <1>4, AppendProperties
<1>6. Typed'  BY <1>1, <1>5 DEF CInv, Typed
<1>7. AllSound'
  <2>1. Sound(q2, gen, shut, convs, resp)
    <3>1. q2.gen <= gen /\ (shut => q2.gen < gen)  BY <1>1, <1>2, <1>4
    <3>2. Truthful(q2)  BY <1>4 DEF Truthful
    <3> QED  BY <1>4, <3>1, <3>2 DEF Sound, InFlight
  <2>2. \A q \in 1 .. Len(reqs) : Sound(reqs'[q], gen, shut, convs, resp)
    BY <1>5 DEF CInv, AllSound
  <2>3. \A q \in 1 .. Len(reqs') : q \in 1 .. Len(reqs) \/ q = Len(reqs) + 1
    BY <1>2, <1>5
  <2>4. \A q \in 1 .. Len(reqs') : Sound(reqs'[q], gen, shut, convs, resp)
    BY <1>5, <2>1, <2>2, <2>3
  <2> QED  BY <1>1, <2>4 DEF AllSound
<1>8. InTurn'
  <2> SUFFICES ASSUME NEW q \in 1 .. Len(reqs'), reqs'[q].at # "queued", NEW p \in 1 .. q - 1
               PROVE  reqs'[p].at = "done"
    BY DEF InTurn
  <2>1. q \in 1 .. Len(reqs)
    <3>1. q # Len(reqs) + 1  BY <1>4, <1>5
    <3> QED  BY <1>2, <1>5, <3>1
  <2>2. reqs[q].at # "queued"  BY <1>5, <2>1
  <2>3. reqs[p].at = "done"  BY <2>1, <2>2 DEF CInv, InTurn
  <2>4. p \in 1 .. Len(reqs)  BY <1>2, <2>1
  <2> QED  BY <1>5, <2>3, <2>4
<1>9. OfNow'  BY <1>1 DEF CInv, OfNow
<1>10. Showing(view', reqs', gen', shut')
  <2>1. PICK rs2, v : rs2 = reqs' /\ v = view  OBVIOUS
  <2>2. /\ Len(rs2) \in Nat /\ Len(reqs) <= Len(rs2) /\ Showing(v, reqs, gen, shut)
        /\ \A q \in 1 .. Len(reqs) : rs2[q] = reqs[q]
    BY <1>2, <1>5, <2>1 DEF CInv
  <2>3. Showing(v, rs2, gen, shut)  BY ONLY <1>2, <2>2, ShowingOn
  <2> QED  BY <1>1, <2>1, <2>3
<1>11. AllHere'
  <2>1. Here(q2, gen, conv)  BY <1>4 DEF Here, InFlight
  <2>2. \A q \in 1 .. Len(reqs) : Here(reqs'[q], gen, conv)  BY <1>5 DEF CInv, AllHere
  <2>3. \A q \in 1 .. Len(reqs') : q \in 1 .. Len(reqs) \/ q = Len(reqs) + 1
    BY <1>2, <1>5
  <2>4. \A q \in 1 .. Len(reqs') : Here(reqs'[q], gen, conv)  BY <1>5, <2>1, <2>2, <2>3
  <2> QED  BY <1>1, <2>4 DEF AllHere
<1> QED  BY <1>6, <1>7, <1>8, <1>9, <1>10, <1>11 DEF CInv

\* A generation that is over leaves nothing open.
LEMMA GenerationOver ==
  ASSUME CInv, gen' = gen + 1, reqs' = reqs, convs' = convs, resp' = resp,
         conv' = conv \/ conv' = None, shut' \in BOOLEAN, conv' = None \/ shut',
         NEW v \in View, view' = v, v.outgoing = None, v.pending = {}, v.shown \subseteq view.shown
  PROVE  CInv'
<1>1. gen \in Nat /\ gen' \in Nat  BY DEF CInv, Typed
<1>2. Typed'  BY <1>1 DEF CInv, Typed
<1>3. AllSound'
  <2>1. ASSUME NEW q \in 1 .. Len(reqs) PROVE Sound(reqs[q], gen', shut', convs, resp)
    <3>1. Sound(reqs[q], gen, shut, convs, resp)  BY DEF CInv, AllSound
    <3>2. reqs[q].gen \in Nat
      <4>1. Len(reqs) \in Nat /\ reqs[q] \in Request  BY ElementOfSeq, LenProperties DEF CInv, Typed
      <4> QED  BY <4>1 DEF Request
    <3>3. reqs[q].gen <= gen' /\ reqs[q].gen < gen' /\ reqs[q].gen # gen'
      BY <1>1, <3>1, <3>2 DEF Sound
    <3> QED  BY <3>1, <3>3 DEF Sound
  <2> QED  BY <2>1 DEF AllSound
<1>7. AllHere'
  <2>1. ASSUME NEW q \in 1 .. Len(reqs) PROVE Here(reqs[q], gen', conv')
    <3>1. Sound(reqs[q], gen, shut, convs, resp)  BY DEF CInv, AllSound
    <3>2. reqs[q].gen \in Nat
      <4>1. Len(reqs) \in Nat /\ reqs[q] \in Request  BY ElementOfSeq, LenProperties DEF CInv, Typed
      <4> QED  BY <4>1 DEF Request
    <3>3. reqs[q].gen # gen'  BY <1>1, <3>1, <3>2 DEF Sound
    <3> QED  BY <3>3 DEF Here
  <2> QED  BY <2>1 DEF AllHere
<1>4. InTurn'  BY DEF CInv, InTurn
<1>5. OfNow'  BY DEF OfNow
<1>6. Showing(view', reqs', gen', shut')
  <2>1. \A q \in v.shown : q \in 1 .. Len(reqs) /\ reqs[q].at \in {"reading", "done"}
    BY DEF CInv, Showing
  <2> QED  BY <2>1 DEF Showing
<1> QED  BY <1>2, <1>3, <1>4, <1>5, <1>6, <1>7 DEF CInv

LEMMA ResetHolds == ASSUME CInv, Reset PROVE CInv'
<1>1. /\ gen' = gen + 1 /\ view' = NoView /\ conv' = None
      /\ UNCHANGED <<shut, reqs, convs, resp>>
  BY DEF Reset, server
<1>2. PICK v : v = NoView  OBVIOUS
<1>3. v \in View /\ v.outgoing = None /\ v.pending = {} /\ v.shown = {}
  BY <1>2 DEF NoView, View, Says0
<1>4. shut' \in BOOLEAN  BY <1>1 DEF CInv, Typed
<1> QED  BY <1>1, <1>2, <1>3, <1>4, GenerationOver

LEMMA CloseHolds == ASSUME CInv, Close PROVE CInv'
<1>1. /\ gen' = gen + 1 /\ view' = LetGo(view) /\ shut'
      /\ UNCHANGED <<conv, reqs, convs, resp>> /\ shut' = TRUE
  BY DEF Close, server
<1>2. view \in View /\ Showing(view, reqs, gen, shut)  BY DEF CInv, Typed
<1>3. PICK v : v = LetGo(view)  OBVIOUS
<1>4. v \in View /\ v.outgoing = None /\ v.shown = view.shown  BY <1>2, <1>3, LetGoLeaves
<1>5. Showing(v, reqs, gen, shut)  BY <1>2, <1>3, LetGoShows
<1>6. v.pending = {}  BY <1>4, <1>5, NothingOut
<1> QED  BY <1>1, <1>3, <1>4, <1>6, GenerationOver

LEMMA ExpireHolds == ASSUME CInv, Expire PROVE CInv'
<1>1. view' = OutOfDate(view) /\ UNCHANGED <<gen, shut, reqs, conv, convs, resp>>
  BY DEF Expire, server
<1>2. PICK v : v = OutOfDate(view)  OBVIOUS
<1>3. Keeps(view, v)  BY <1>2, OutOfDateKeeps DEF CInv, Typed
<1> QED  BY <1>1, <1>2, <1>3, KeepingHolds

\* A wake turn given up is shown no more.
LEMMA RefusedHolds == ASSUME CInv, Refused PROVE CInv'
<1>1. /\ view' = [view EXCEPT !.status = IF view.outgoing = None /\ view.status = "streaming"
                                         THEN "idle" ELSE view.status]
      /\ UNCHANGED <<gen, shut, reqs, conv, convs, resp>>
  <2>1. view \in View  BY DEF CInv, Typed
  <2> QED  BY <2>1 DEF Refused, TurnedAway, server
<1>2. PICK s : s = IF view.outgoing = None /\ view.status = "streaming" THEN "idle" ELSE view.status
  OBVIOUS
<1>3. s \in Says0  BY <1>2 DEF CInv, Typed, View, Says0
<1>4. PICK v : v = [view EXCEPT !.status = s]  OBVIOUS
<1>5. Keeps(view, v)  BY <1>3, <1>4, SetKeeps DEF CInv, Typed
<1> QED  BY <1>1, <1>2, <1>4, <1>5, KeepingHolds

LEMMA HearHolds == ASSUME CInv, Hear PROVE CInv'
<1>1. UNCHANGED <<gen, shut, reqs, conv, convs, resp>>  BY DEF Hear, server
<1>2. PICK k : view' = IF k \in {"streaming", "idle"} THEN Status(view, k) ELSE view
  BY DEF Hear
<1>3. CASE k \in {"streaming", "idle"}
  <2>1. PICK v : v = Status(view, k)  OBVIOUS
  <2>2. Keeps(view, v)  BY <1>3, <2>1, StatusKeeps DEF CInv, Typed, Says0
  <2> QED  BY <1>1, <1>2, <1>3, <2>1, <2>2, KeepingHolds
<1>4. CASE k \notin {"streaming", "idle"}
  BY <1>1, <1>2, <1>4, NothingShown
<1> QED  BY <1>3, <1>4

-----------------------------------------------------------------------------
(* The server                                                              *)

\* It answers a request without taking it up.
LEMMA AnswerHolds ==
  ASSUME CInv, NEW r, Waiting(r), NEW ans \in {"busy", "denied", "error"}, Answer(r, ans),
         UNCHANGED <<gen, shut, view, conv, convs, resp>>
  PROVE  CInv'
<1>1. /\ Out(r) /\ reqs[r].at \in InFlight /\ reqs[r].ans = "none"
      /\ reqs' = [reqs EXCEPT ![r].ans = ans]
  BY DEF Waiting, Answer
<1>2. /\ r \in 1 .. Len(reqs) /\ reqs[r] \in Request
      /\ Sound(reqs[r], gen, shut, convs, resp) /\ Len(convs) \in Nat /\ convs \in Seq(Nat)
      /\ resp \in Seq(Frames) /\ view \in View /\ Showing(view, reqs, gen, shut)
      /\ Len(convs) <= Len(convs)
  BY <1>1, OutFacts
<1>3. PICK q2 : q2 = [reqs[r] EXCEPT !.ans = ans]  OBVIOUS
<1>4. /\ q2 \in Request /\ q2.at = reqs[r].at /\ q2.gen = reqs[r].gen /\ q2.on = reqs[r].on
      /\ q2.to = reqs[r].to /\ q2.ans = ans /\ q2.turn = reqs[r].turn /\ q2.res = reqs[r].res
  BY <1>2, <1>3 DEF Request
<1>5. reqs' = [reqs EXCEPT ![r] = q2]  BY <1>1, <1>3
<1>6. reqs[r].at \notin {"reading", "queued", "held", "done"}  BY <1>1 DEF InFlight
<1>7. Sound(q2, gen, shut, convs, resp)
  <2>1. reqs[r].turn = "none" /\ reqs[r].res = "open"  BY <1>1, <1>2, <1>6 DEF Sound
  <2>2. Truthful(q2)  BY <1>4, <2>1 DEF Truthful
  <2> QED  BY <1>2, <1>4, <1>6, <2>1, <2>2 DEF Sound
<1>8. /\ convs' \in Seq(Nat) /\ Len(convs) <= Len(convs')
      /\ \A i \in 1 .. Len(convs) : convs'[i] = convs[i]
  BY <1>2
<1>9. /\ resp' \in Seq(Frames) /\ view' \in View /\ Showing(view', reqs, gen, shut)
      /\ Sound(q2, gen, shut, convs', resp')
  BY <1>2, <1>7
<1>10. /\ q2.at \notin {"queued", "held", "done"} /\ (reqs[r].at = "reading" => q2.at = "reading")
       /\ q2.gen = reqs[r].gen /\ q2 \in Request /\ Here(q2, gen, conv')
  <2>1. Here(reqs[r], gen, conv)  BY <1>1, OutFacts
  <2> QED  BY <1>1, <1>4, <1>6, <2>1 DEF Here
<1>11. gen' = gen /\ shut' = shut /\ conv' = conv  OBVIOUS
<1> QED  BY ONLY CInv, <1>1, <1>5, <1>8, <1>9, <1>10, <1>11, GoesOnHolds

LEMMA TurnsAwayHolds == ASSUME CInv, NEW r, TurnsAway(r) PROVE CInv'
BY AnswerHolds DEF TurnsAway, chat, server

LEMMA NotSignedInHolds == ASSUME CInv, NEW r, NotSignedIn(r) PROVE CInv'
BY AnswerHolds DEF NotSignedIn, chat, server

LEMMA ServerErrorHolds == ASSUME CInv, NEW r, ServerError(r) PROVE CInv'
BY AnswerHolds DEF ServerError, chat, server

\* The server begins to answer the request that is out, in a conversation.
LEMMA TakenHolds ==
  ASSUME CInv, NEW r, Waiting(r), NEW q2 \in Request, reqs' = [reqs EXCEPT ![r] = q2],
         q2.at = reqs[r].at, q2.gen = reqs[r].gen, q2.on = reqs[r].on,
         q2.ans = "ok", q2.turn \in {"none", "running", "refused"}, q2.res = reqs[r].res,
         UNCHANGED <<gen, shut, view, conv>>,
         convs' \in Seq(Nat), Len(convs) <= Len(convs'),
         \A i \in 1 .. Len(convs) : convs'[i] = convs[i],
         q2.to # None => q2.to \in 1 .. Len(convs') /\ convs'[q2.to] = reqs[r].gen,
         reqs[r].to # None => q2.to = reqs[r].to,
         resp' \in Seq(Frames),
         \A i \in 1 .. Len(resp') : resp'[i] = "end" => i = Len(resp') /\ q2.turn = "none",
         \A i \in 1 .. Len(resp') : resp'[i] = "expired" => q2.turn = "refused",
         q2.turn = "refused" => \E i \in 1 .. Len(resp') : resp'[i] = "expired",
         q2.turn # "running" => \A i \in 1 .. Len(resp') : resp'[i] # "streaming",
         q2.turn = "none" => \A i \in 1 .. Len(resp') : resp'[i] # "hello",
         q2.turn # "none" => q2.to # None
  PROVE  CInv'
<1>1. Out(r) /\ reqs[r].at \in InFlight /\ reqs[r].ans = "none"  BY DEF Waiting
<1>2. /\ r \in 1 .. Len(reqs) /\ reqs[r] \in Request
      /\ Sound(reqs[r], gen, shut, convs, resp)
      /\ view \in View /\ Showing(view, reqs, gen, shut)
  BY <1>1, OutFacts
<1>3. reqs[r].at \notin {"reading", "queued", "held", "done", "retry", "heldAgain", "backoff"}
  BY <1>1 DEF InFlight
<1>4. Replies(q2, resp')
  <2>1. \A i \in 1 .. Len(resp') :
          resp'[i] = "end" => i = Len(resp') /\ q2.turn \in {"none", "recorded", "unrecorded"}
    OBVIOUS
  <2>2. \A i \in 1 .. Len(resp') : resp'[i] = "expired" => q2.turn \in Unsaved  BY DEF Unsaved
  <2>3. q2.at # "reading"  BY <1>3
  <2>4. q2.turn \in Unsaved => \E i \in 1 .. Len(resp') : resp'[i] = "expired"  BY DEF Unsaved
  <2> QED  BY <2>1, <2>2, <2>3, <2>4 DEF Replies
<1>5. Sound(q2, gen, shut, convs', resp')
  <2>1. reqs[r].res = "open"  BY <1>2, <1>3 DEF Sound
  <2>2. Truthful(q2)  BY <2>1 DEF Truthful
  <2> QED  BY <1>2, <1>3, <1>4, <2>1, <2>2 DEF Sound
<1>6. view' \in View /\ Showing(view', reqs, gen, shut)  BY <1>2
<1>7. /\ q2.at \notin {"queued", "held", "done"} /\ (reqs[r].at = "reading" => q2.at = "reading")
      /\ Here(q2, gen, conv')
  <2>1. Here(reqs[r], gen, conv)  BY <1>1, OutFacts
  <2>2. reqs[r].at \in InFlight \union {"reading"}  BY <1>1
  <2>3. reqs[r].gen = gen /\ conv # None => reqs[r].to = conv  BY <2>1, <2>2 DEF Here
  <2> QED  BY <1>3, <2>3 DEF Here
<1> QED  BY <1>1, <1>5, <1>6, <1>7, GoesOnHolds

\* Frames that neither end a response nor refuse its request.
Plain == Frames \ {"end", "expired"}

LEMMA PlainFrames ==
  ASSUME NEW w \in Seq(Plain)
  PROVE  w \in Seq(Frames) /\ \A i \in 1 .. Len(w) : w[i] # "end" /\ w[i] # "expired"
<1>1. \A i \in 1 .. Len(w) : w[i] \in Plain  BY ElementOfSeq
<1>2. w \in Seq(Frames)
  <2>1. \A i \in 1 .. Len(w) : w[i] \in Frames  BY <1>1 DEF Plain
  <2>2. w \in Seq(Plain) /\ Plain \subseteq Frames  BY DEF Plain
  <2> QED  BY <2>1, <2>2, SeqDef
<1> QED  BY <1>1, <1>2 DEF Plain

\* What a request is sent first never ends it, and says a refusal if there is one.
LEMMA FirstSays ==
  ASSUME NEW r, NEW turn \in {"running", "refused"}
  PROVE  /\ First(r, turn) \in Seq(Frames)
         /\ \A i \in 1 .. Len(First(r, turn)) : First(r, turn)[i] # "end"
         /\ (\E i \in 1 .. Len(First(r, turn)) : First(r, turn)[i] = "expired") <=> turn = "refused"
         /\ turn = "refused" => \A i \in 1 .. Len(First(r, turn)) : First(r, turn)[i] # "streaming"
<1>0. <<>> \in Seq(Plain) /\ \A f \in Plain : <<f>> \in Seq(Plain)  OBVIOUS
<1> PICK a : a = IF reqs[r].path = "interact" THEN <<>> ELSE <<"hello">>  OBVIOUS
<1>1. a \in Seq(Plain)
  <2>1. "hello" \in Plain  BY DEF Plain, Frames
  <2> QED  BY <1>0, <2>1
<1>2. CASE turn = "refused"
  <2>1. First(r, turn) = a \o <<"expired">>  BY <1>2 DEF First
  <2>2. /\ a \in Seq(Frames) /\ Len(a) \in Nat
        /\ \A i \in 1 .. Len(a) : a[i] # "end" /\ a[i] # "streaming"
    <3>1. \A i \in 1 .. Len(a) : a[i] = "hello"
      <4>1. a = <<>> \/ a = <<"hello">>  OBVIOUS
      <4>2. CASE a = <<>>
        <5>1. Len(a) = 0  BY <4>2
        <5> QED  BY <5>1
      <4>3. CASE a = <<"hello">>
        <5>1. Len(a) = 1 /\ a[1] = "hello"  BY <4>3
        <5> QED  BY <5>1
      <4> QED  BY <4>1, <4>2, <4>3
    <3> QED  BY <1>1, <3>1, PlainFrames, LenProperties
  <2>3. PICK w, b : b = <<"expired">> /\ w = a \o b  OBVIOUS
  <2>4. b \in Seq(Frames) /\ Len(b) = 1 /\ b[1] = "expired"  BY <2>3 DEF Frames
  <2>5. /\ w \in Seq(Frames) /\ Len(w) = Len(a) + 1
        /\ \A i \in 1 .. Len(w) : w[i] = IF i <= Len(a) THEN a[i] ELSE b[i - Len(a)]
    BY <2>2, <2>3, <2>4, ConcatProperties
  <2>6. Len(a) + 1 \in 1 .. Len(w) /\ w[Len(a) + 1] = "expired"
    <3>1. PICK n : n = Len(a)  OBVIOUS
    <3>2. n \in Nat /\ n + 1 \in 1 .. Len(w) /\ ~(n + 1 <= n) /\ (n + 1) - n = 1
      BY <2>2, <2>5, <3>1
    <3>3. w[n + 1] = b[(n + 1) - n]  BY <2>5, <3>1, <3>2
    <3> QED  BY <2>4, <3>1, <3>2, <3>3
  <2>7. ASSUME NEW i \in 1 .. Len(w) PROVE w[i] # "end" /\ w[i] # "streaming"
    <3>1. CASE i <= Len(a)
      <4>1. i \in 1 .. Len(a) /\ w[i] = a[i]  BY <2>2, <2>5, <3>1
      <4> QED  BY <2>2, <4>1
    <3>2. CASE ~(i <= Len(a))
      <4>1. i = Len(a) + 1  BY <2>2, <2>5, <3>2
      <4> QED  BY <2>6, <4>1
    <3> QED  BY <3>1, <3>2
  <2> QED  BY <1>2, <2>1, <2>3, <2>5, <2>6, <2>7
<1>3. CASE turn = "running"
  <2>1. PICK b : b = IF reqs[r].path = "chat" THEN <<"user">> ELSE <<>>  OBVIOUS
  <2>2. First(r, turn) = a \o (b \o <<"streaming">>)  BY <1>3, <2>1 DEF First
  <2>3. "user" \in Plain /\ "streaming" \in Plain  BY DEF Plain, Frames
  <2>4. b \in Seq(Plain) /\ <<"streaming">> \in Seq(Plain)  BY <1>0, <2>1, <2>3
  <2>5. b \o <<"streaming">> \in Seq(Plain)  BY <2>4, ConcatProperties
  <2>6. PICK w : w = a \o (b \o <<"streaming">>)  OBVIOUS
  <2>7. w \in Seq(Plain)  BY <1>1, <2>5, <2>6, ConcatProperties
  <2> QED  BY <1>3, <2>2, <2>6, <2>7, PlainFrames
<1> QED  BY <1>2, <1>3

LEMMA TakesHolds == ASSUME CInv, NEW r, Takes(r) PROVE CInv'
<1>1. /\ Waiting(r) /\ UNCHANGED <<gen, shut, view, conv>>
  BY DEF Takes, chat
<1>2. PICK turn \in {"running", "refused"} :
        /\ IF reqs[r].to = None
           THEN /\ convs' = Append(convs, reqs[r].on)
                /\ reqs' = [reqs EXCEPT ![r].ans = "ok", ![r].to = Len(convs) + 1, ![r].turn = turn]
           ELSE /\ convs' = convs
                /\ reqs' = [reqs EXCEPT ![r].ans = "ok", ![r].turn = turn]
        /\ resp' = First(r, turn)
  BY DEF Takes
<1>3. Out(r)  BY <1>1 DEF Waiting
<1>4. /\ r \in 1 .. Len(reqs) /\ reqs[r] \in Request
      /\ Sound(reqs[r], gen, shut, convs, resp) /\ Len(convs) \in Nat /\ convs \in Seq(Nat)
      /\ Len(convs) <= Len(convs)
  BY <1>3, OutFacts
<1>5. PICK rs : rs = First(r, turn)  OBVIOUS
<1>6. /\ resp' \in Seq(Frames) /\ resp' = rs
      /\ \A i \in 1 .. Len(resp') : resp'[i] # "end"
      /\ (\E i \in 1 .. Len(resp') : resp'[i] = "expired") <=> turn = "refused"
      /\ turn = "refused" => \A i \in 1 .. Len(resp') : resp'[i] # "streaming"
  BY <1>2, <1>5, FirstSays
<1>7. PICK q2 : /\ q2 \in Request /\ reqs' = [reqs EXCEPT ![r] = q2]
                /\ q2.at = reqs[r].at /\ q2.gen = reqs[r].gen /\ q2.on = reqs[r].on
                /\ q2.ans = "ok" /\ q2.turn = turn /\ q2.res = reqs[r].res
                /\ convs' \in Seq(Nat) /\ Len(convs) <= Len(convs')
                /\ \A i \in 1 .. Len(convs) : convs'[i] = convs[i]
                /\ q2.to # None => q2.to \in 1 .. Len(convs') /\ convs'[q2.to] = reqs[r].gen
                /\ reqs[r].to # None => q2.to = reqs[r].to
                /\ q2.to # None
  <2>1. CASE reqs[r].to = None
    <3>1. PICK to : to = Len(convs) + 1  OBVIOUS
    <3>2. reqs[r].on \in Nat /\ reqs[r].on = reqs[r].gen  BY <1>4 DEF Request, Sound
    <3>3. convs' = Append(convs, reqs[r].on)  BY <1>2, <2>1
    <3>4. /\ convs' \in Seq(Nat) /\ Len(convs') = Len(convs) + 1 /\ convs'[to] = reqs[r].gen
          /\ \A i \in 1 .. Len(convs) : convs'[i] = convs[i]
      BY <1>4, <3>1, <3>2, <3>3, AppendProperties
    <3>5. Len(convs) <= Len(convs') /\ to \in Nat /\ to \in 1 .. Len(convs') /\ to # None
      BY <1>4, <3>1, <3>4, ClientNames
    <3>6. PICK q2 : q2 = [reqs[r] EXCEPT !.ans = "ok", !.to = to, !.turn = turn]  OBVIOUS
    <3>7. /\ q2 \in Request /\ q2.at = reqs[r].at /\ q2.gen = reqs[r].gen /\ q2.on = reqs[r].on
          /\ q2.to = to /\ q2.ans = "ok" /\ q2.turn = turn /\ q2.res = reqs[r].res
      BY <1>4, <3>5, <3>6 DEF Request
    <3>8. reqs' = [reqs EXCEPT ![r] = q2]  BY <1>2, <2>1, <3>1, <3>6
    <3> QED  BY <2>1, <3>4, <3>5, <3>7, <3>8
  <2>2. CASE reqs[r].to # None
    <3>1. PICK q2 : q2 = [reqs[r] EXCEPT !.ans = "ok", !.turn = turn]  OBVIOUS
    <3>2. /\ q2 \in Request /\ q2.at = reqs[r].at /\ q2.gen = reqs[r].gen /\ q2.on = reqs[r].on
          /\ q2.to = reqs[r].to /\ q2.ans = "ok" /\ q2.turn = turn /\ q2.res = reqs[r].res
      BY <1>4, <3>1 DEF Request
    <3>3. reqs' = [reqs EXCEPT ![r] = q2] /\ convs' = convs  BY <1>2, <2>2, <3>1
    <3>4. q2.to \in 1 .. Len(convs') /\ convs'[q2.to] = reqs[r].gen
      BY <1>4, <2>2, <3>2, <3>3 DEF Sound
    <3> QED  BY <1>4, <2>2, <3>2, <3>3, <3>4
  <2> QED  BY <2>1, <2>2
<1>8. /\ q2.turn \in {"none", "running", "refused"}
      /\ \A i \in 1 .. Len(resp') : resp'[i] = "end" => i = Len(resp') /\ q2.turn = "none"
      /\ \A i \in 1 .. Len(resp') : resp'[i] = "expired" => q2.turn = "refused"
      /\ q2.turn = "refused" => \E i \in 1 .. Len(resp') : resp'[i] = "expired"
      /\ q2.turn # "running" => \A i \in 1 .. Len(resp') : resp'[i] # "streaming"
      /\ q2.turn # "none"
  BY <1>6, <1>7
<1> QED  BY ONLY CInv, <1>1, <1>6, <1>7, <1>8, TakenHolds

LEMMA TakesNothingHolds == ASSUME CInv, NEW r, TakesNothing(r) PROVE CInv'
<1>1. /\ Waiting(r) /\ UNCHANGED <<gen, shut, view, conv>> /\ convs' = convs /\ resp' = <<"end">>
      /\ reqs' = [reqs EXCEPT ![r].ans = "ok"]
  BY DEF TakesNothing, Answer, chat, server
<1>2. Out(r) /\ reqs[r].at \in InFlight /\ reqs[r].ans = "none"  BY <1>1 DEF Waiting
<1>3. /\ r \in 1 .. Len(reqs) /\ reqs[r] \in Request
      /\ Sound(reqs[r], gen, shut, convs, resp) /\ Len(convs) \in Nat /\ convs \in Seq(Nat)
      /\ Len(convs) <= Len(convs)
  BY <1>2, OutFacts
<1>4. PICK q2 : q2 = [reqs[r] EXCEPT !.ans = "ok"]  OBVIOUS
<1>5. reqs[r].turn = "none"  BY <1>2, <1>3 DEF Sound
<1>6. /\ q2 \in Request /\ q2.at = reqs[r].at /\ q2.gen = reqs[r].gen /\ q2.on = reqs[r].on
      /\ q2.to = reqs[r].to /\ q2.ans = "ok" /\ q2.turn = "none" /\ q2.res = reqs[r].res
  BY <1>3, <1>4, <1>5 DEF Request
<1>7. /\ q2.to # None => q2.to \in 1 .. Len(convs') /\ convs'[q2.to] = reqs[r].gen
      /\ reqs[r].to # None => q2.to = reqs[r].to
  BY <1>1, <1>3, <1>6 DEF Sound
<1>8. PICK rs : rs = <<"end">>  OBVIOUS
<1>9. rs \in Seq(Frames) /\ Len(rs) = 1 /\ \A i \in 1 .. Len(rs) : rs[i] = "end"
  BY <1>8 DEF Frames
<1>10. /\ resp' \in Seq(Frames)
       /\ \A i \in 1 .. Len(resp') : resp'[i] = "end" => i = Len(resp') /\ q2.turn = "none"
       /\ \A i \in 1 .. Len(resp') : resp'[i] = "expired" => q2.turn = "refused"
       /\ q2.turn = "refused" => \E i \in 1 .. Len(resp') : resp'[i] = "expired"
       /\ q2.turn # "running" => \A i \in 1 .. Len(resp') : resp'[i] # "streaming"
       /\ q2.turn = "none" => \A i \in 1 .. Len(resp') : resp'[i] # "hello"
       /\ q2.turn # "none" => q2.to # None
  BY <1>1, <1>6, <1>8, <1>9
<1>11. reqs' = [reqs EXCEPT ![r] = q2]  BY <1>1, <1>4
<1>12. /\ convs' \in Seq(Nat) /\ Len(convs) <= Len(convs')
       /\ \A i \in 1 .. Len(convs) : convs'[i] = convs[i]
       /\ q2.turn \in {"none", "running", "refused"}
  BY <1>1, <1>3, <1>6
<1> QED  BY ONLY CInv, <1>1, <1>6, <1>7, <1>10, <1>11, <1>12, TakenHolds

\* One more frame on its way.
LEMMA OneMore ==
  ASSUME NEW rs \in Seq(Frames), NEW f \in Frames
  PROVE  /\ rs \o <<f>> \in Seq(Frames) /\ Len(rs) \in Nat /\ Len(rs \o <<f>>) = Len(rs) + 1
         /\ (rs \o <<f>>)[Len(rs) + 1] = f
         /\ \A i \in 1 .. Len(rs) : (rs \o <<f>>)[i] = rs[i]
<1> PICK b, w : b = <<f>> /\ w = rs \o b  OBVIOUS
<1>1. b \in Seq(Frames) /\ Len(b) = 1 /\ b[1] = f  OBVIOUS
<1>2. /\ w \in Seq(Frames) /\ Len(w) = Len(rs) + 1 /\ Len(rs) \in Nat
      /\ \A i \in 1 .. Len(w) : w[i] = IF i <= Len(rs) THEN rs[i] ELSE b[i - Len(rs)]
  BY <1>1, ConcatProperties, LenProperties
<1>3. w[Len(rs) + 1] = f
  <2>1. PICK n : n = Len(rs)  OBVIOUS
  <2>2. n \in Nat /\ n + 1 \in 1 .. Len(w) /\ ~(n + 1 <= n) /\ (n + 1) - n = 1
    BY <1>2, <2>1
  <2>3. w[n + 1] = b[(n + 1) - n]  BY <1>2, <2>1, <2>2
  <2> QED  BY <1>1, <2>1, <2>2, <2>3
<1>4. \A i \in 1 .. Len(rs) : w[i] = rs[i]
  <2> TAKE i \in 1 .. Len(rs)
  <2>1. i \in 1 .. Len(w) /\ i <= Len(rs)  BY <1>2
  <2> QED  BY <1>2, <2>1
<1> QED  BY <1>2, <1>3, <1>4

\* The turn of a request goes on, and what it says of that is its last word, if
\* the turn is over then.
LEMMA RepliesMore ==
  ASSUME NEW q, NEW q2, NEW rs \in Seq(Frames), NEW f \in Frames, Replies(q, rs),
         q2.at = q.at, q2.sent = q.sent, q.turn \in {"running", "told", "refused"},
         q2.turn \in Unsaved <=> q.turn \in Unsaved, f \in {"idle", "error", "end"},
         f = "end" => q2.turn \in {"recorded", "unrecorded"}, q2.turn # "none",
         q.turn = "running" => f \in {"idle", "error"}
  PROVE  Replies(q2, rs \o <<f>>)
<1> PICK w : w = rs \o <<f>>  OBVIOUS
<1>1. /\ Len(rs) \in Nat /\ Len(w) = Len(rs) + 1 /\ w[Len(rs) + 1] = f
      /\ \A i \in 1 .. Len(rs) : w[i] = rs[i]
  BY OneMore
<1>2. \A i \in 1 .. Len(rs) : rs[i] # "end"  BY DEF Replies
<1>3. \A i \in 1 .. Len(w) : i \in 1 .. Len(rs) \/ (i = Len(w) /\ w[i] = f)  BY <1>1
<1>4. \A i \in 1 .. Len(w) : w[i] = "end" => i = Len(w) /\ q2.turn \in {"none", "recorded", "unrecorded"}
  BY <1>1, <1>2, <1>3
<1>5. \A i \in 1 .. Len(w) : w[i] = "expired" => q2.turn \in Unsaved
  BY <1>1, <1>3 DEF Replies
<1>6. q2.at = "reading" /\ ~q2.sent => q2.turn \in Unsaved  BY DEF Replies
<1>7. q2.turn \in Unsaved /\ (q2.at # "reading" \/ q2.sent) => \E i \in 1 .. Len(w) : w[i] = "expired"
  <2> HAVE q2.turn \in Unsaved /\ (q2.at # "reading" \/ q2.sent)
  <2>1. PICK i \in 1 .. Len(rs) : rs[i] = "expired"  BY DEF Replies
  <2>2. i \in 1 .. Len(w) /\ w[i] = "expired"  BY <1>1, <2>1
  <2> QED  BY <2>2
<1>8. ASSUME NEW i \in 1 .. Len(w), w[i] = "streaming" PROVE ClosedAfter(w, i)
  <2>1. i \in 1 .. Len(rs) /\ rs[i] = "streaming"  BY <1>1, <1>3, <1>8
  <2>2. CASE q.turn = "running"
    <3>1. Len(rs) + 1 \in 1 .. Len(w) /\ Len(rs) + 1 > i  BY <1>1, <2>1
    <3> QED  BY <1>1, <2>2, <3>1 DEF ClosedAfter
  <2>3. CASE q.turn # "running"
    <3>1. PICK j \in 1 .. Len(rs) : j > i /\ rs[j] \in {"idle", "error"}
      BY <2>1, <2>3 DEF Replies, ClosedAfter
    <3>2. j \in 1 .. Len(w) /\ w[j] = rs[j]  BY <1>1, <3>1
    <3> QED  BY <3>1, <3>2 DEF ClosedAfter
  <2> QED  BY <2>2, <2>3
<1> QED  BY <1>4, <1>5, <1>6, <1>7, <1>8 DEF Replies

\* The turn of a request goes on, whoever still reads it.
LEMMA TurnHolds ==
  ASSUME CInv, NEW r, NEW from \in {"running", "told", "refused"},
         NEW to \in {"told", "recorded", "unrecorded"}, Turn(r, from, to),
         to \in Unsaved <=> from \in Unsaved,
         NEW f \in Frames, f \in {"idle", "error", "end"},
         f = "end" => to \in {"recorded", "unrecorded"},
         from = "running" => f \in {"idle", "error"},
         Emits(r, <<f>>), UNCHANGED <<gen, shut, view, conv, convs>>
  PROVE  CInv'
<1>1. Len(reqs) \in Nat /\ DOMAIN reqs = 1 .. Len(reqs) /\ reqs \in Seq(Request)
      /\ Len(convs) \in Nat /\ convs \in Seq(Nat) /\ resp \in Seq(Frames)
      /\ view \in View /\ Showing(view, reqs, gen, shut)
  BY LenProperties DEF CInv, Typed
<1>2. /\ r \in 1 .. Len(reqs) /\ reqs[r].turn = from
      /\ reqs' = [reqs EXCEPT ![r].turn = to] /\ r \in DOMAIN reqs
  BY <1>1 DEF Turn
<1>3. reqs[r] \in Request  BY <1>1, <1>2, ElementOfSeq
<1>4. PICK q2 : q2 = [reqs[r] EXCEPT !.turn = to]  OBVIOUS
<1>5. /\ q2 \in Request /\ q2.at = reqs[r].at /\ q2.gen = reqs[r].gen /\ q2.on = reqs[r].on
      /\ q2.to = reqs[r].to /\ q2.ans = reqs[r].ans /\ q2.turn = to /\ q2.res = reqs[r].res
      /\ q2.sent = reqs[r].sent
  BY <1>3, <1>4 DEF Request
<1>6. reqs' = [reqs EXCEPT ![r] = q2]  BY <1>2, <1>4
<1>7. Sound(reqs[r], gen, shut, convs, resp)  BY <1>2 DEF CInv, AllSound
<1>8. reqs[r].ans = "ok" /\ reqs[r].at \in InFlight \union {"reading", "done"}
  <2>1. reqs[r].turn # "none"  BY <1>2
  <2>2. reqs[r].ans = "ok"  BY <1>7, <2>1 DEF Sound
  <2>3. reqs[r].at \notin {"queued", "held", "retry", "heldAgain", "backoff"}
    BY <1>7, <2>2 DEF Sound
  <2>4. reqs[r].at \in Places  BY <1>3 DEF Request
  <2> QED  BY <2>2, <2>3, <2>4 DEF Places, InFlight
<1>9. q2.gen = gen => Truthful(q2)
  <2>1. reqs[r].gen = gen => Truthful(reqs[r])  BY <1>7 DEF Sound
  <2> QED  BY <1>2, <1>5, <1>8, <2>1 DEF Truthful, Unsaved
<1>10. CASE reqs[r].at = "done"
  <2>1. resp' = resp  BY <1>10 DEF Emits
  <2>2. Sound(q2, gen, shut, convs, resp)
    <3>1. q2.to # None  BY <1>2, <1>5, <1>7 DEF Sound
    <3> QED  BY <1>5, <1>7, <1>8, <1>9, <1>10, <3>1 DEF Sound, InFlight
  <2>3. /\ reqs' \in Seq(Request) /\ Len(reqs') = Len(reqs)
        /\ reqs'[r] = q2 /\ \A q \in 1 .. Len(reqs) : q # r => reqs'[q] = reqs[q]
    <3>1. q2 \in Request  BY <1>5
    <3>2. reqs \in Seq(Request) /\ r \in 1 .. Len(reqs)  BY <1>1, <1>2
    <3> QED  BY ONLY <1>6, <3>1, <3>2, ExceptSeq
  <2>4. Typed'  BY <2>1, <2>3 DEF CInv, Typed
  <2>5. \A q \in 1 .. Len(reqs) : reqs'[q].at = reqs[q].at /\ reqs'[q].gen = reqs[q].gen
    BY <1>5, <2>3
  <2>6. AllSound'
    <3>1. \A q \in 1 .. Len(reqs) : Sound(reqs'[q], gen, shut, convs, resp)
      BY <2>2, <2>3 DEF CInv, AllSound
    <3> QED  BY <2>1, <2>3, <3>1 DEF AllSound
  <2>7. InTurn'
    <3> SUFFICES ASSUME NEW q \in 1 .. Len(reqs'), reqs'[q].at # "queued", NEW p \in 1 .. q - 1
                 PROVE  reqs'[p].at = "done"
      BY DEF InTurn
    <3>1. q \in 1 .. Len(reqs) /\ p \in 1 .. Len(reqs)  BY <1>1, <2>3
    <3>2. reqs[q].at # "queued"  BY <2>5, <3>1
    <3>3. reqs[p].at = "done"  BY <3>1, <3>2 DEF CInv, InTurn
    <3> QED  BY <2>5, <3>1, <3>3
  <2>8. OfNow'  BY DEF CInv, OfNow
  <2>9. Showing(view', reqs', gen', shut')
    <3>1. PICK rs2, v : rs2 = reqs' /\ v = view  OBVIOUS
    <3>2. /\ Len(rs2) \in Nat /\ Len(reqs) <= Len(rs2) /\ Showing(v, reqs, gen, shut)
          /\ \A q \in 1 .. Len(reqs) : rs2[q].at = reqs[q].at /\ rs2[q].gen = reqs[q].gen
      BY <1>1, <2>3, <2>5, <3>1
    <3>3. Showing(v, rs2, gen, shut)  BY ONLY <1>1, <3>2, ShowingOn
    <3> QED  BY <3>1, <3>3
  <2>10. AllHere'
    <3>1. \A q \in 1 .. Len(reqs) :
            reqs[q].at \in {"queued", "done"} \/ reqs'[q].to = reqs[q].to
      BY <1>10, <2>3
    <3>2. \A q \in 1 .. Len(reqs) : Here(reqs'[q], gen, conv)
      BY <2>5, <3>1 DEF CInv, AllHere, Here, InFlight
    <3> QED  BY <2>3, <3>2 DEF AllHere
  <2> QED  BY <2>4, <2>6, <2>7, <2>8, <2>9, <2>10 DEF CInv
<1>11. CASE reqs[r].at # "done"
  <2>1. Out(r)
    <3>1. reqs[r].at # "queued"  BY <1>8 DEF InFlight
    <3>2. \A q \in 1 .. r - 1 : reqs[q].at = "done"  BY <1>2, <3>1 DEF CInv, InTurn
    <3> QED  BY <1>2, <1>11, <3>2 DEF Out
  <2>2. resp' = resp \o <<f>>  BY <1>11 DEF Emits
  <2>3. resp' \in Seq(Frames)  BY <1>1, <2>2, OneMore
  <2>4. Replies(reqs[r], resp)  BY <1>7, <1>8, <1>11 DEF Sound
  <2>5. Replies(q2, resp')  BY <1>1, <1>2, <1>5, <2>2, <2>4, RepliesMore
  <2>6. Sound(q2, gen, shut, convs, resp')
    <3>1. q2.to # None  BY <1>2, <1>5, <1>7 DEF Sound
    <3> QED  BY <1>5, <1>7, <1>8, <1>9, <2>5, <3>1 DEF Sound
  <2>7. /\ convs' \in Seq(Nat) /\ Len(convs) <= Len(convs')
        /\ \A i \in 1 .. Len(convs) : convs'[i] = convs[i]
        /\ view' \in View /\ Showing(view', reqs, gen, shut)
        /\ Sound(q2, gen, shut, convs', resp')
    BY <1>1, <2>6
  <2>8. /\ q2.at \notin {"queued", "held", "done"} /\ (reqs[r].at = "reading" => q2.at = "reading")
        /\ q2.gen = reqs[r].gen /\ q2 \in Request /\ Here(q2, gen, conv')
    <3>1. Here(reqs[r], gen, conv)  BY <2>1, OutFacts
    <3>2. Here(q2, gen, conv')  BY <1>5, <3>1 DEF Here
    <3> QED  BY <1>5, <1>8, <1>11, <3>2 DEF InFlight
  <2>9. gen' = gen /\ shut' = shut /\ conv' = conv  OBVIOUS
  <2> QED  BY ONLY CInv, <1>6, <2>1, <2>3, <2>7, <2>8, <2>9, GoesOnHolds
<1> QED  BY <1>10, <1>11

LEMMA SaysHolds == ASSUME CInv, NEW r, Says(r) PROVE CInv'
<1>1. Turn(r, "running", "told") /\ UNCHANGED <<gen, shut, view, conv, convs>>
  BY DEF Says, chat, server
<1>2. PICK f \in {"idle", "error"} : Emits(r, <<f>>)  BY DEF Says
<1>3. f \in Frames /\ f \in {"idle", "error", "end"} /\ f # "end" /\ f \in {"idle", "error"}
  BY DEF Frames
<1>4. "told" \notin Unsaved /\ "running" \notin Unsaved  BY DEF Unsaved
<1>5. "running" \in {"running", "told", "refused"} /\ "told" \in {"told", "recorded", "unrecorded"}
  OBVIOUS
<1> QED  BY ONLY CInv, <1>1, <1>2, <1>3, <1>4, <1>5, TurnHolds

LEMMA EndsHolds == ASSUME CInv, NEW r, Ends(r) PROVE CInv'
<1>1. Emits(r, <<"end">>) /\ UNCHANGED <<gen, shut, view, conv, convs>>
  BY DEF Ends, chat
<1>2. "end" \in Frames /\ "end" \in {"idle", "error", "end"}  BY DEF Frames
<1>3. CASE Turn(r, "told", "recorded")
  <2>1. "told" \notin Unsaved /\ "recorded" \notin Unsaved  BY DEF Unsaved
  <2>2. "told" \in {"running", "told", "refused"} /\ "told" # "running" /\ "recorded" \in {"told", "recorded", "unrecorded"}
        /\ "recorded" \in {"recorded", "unrecorded"}
    OBVIOUS
  <2> QED  BY ONLY CInv, <1>1, <1>2, <1>3, <2>1, <2>2, TurnHolds
<1>4. CASE Turn(r, "refused", "unrecorded")
  <2>1. "refused" \in Unsaved /\ "unrecorded" \in Unsaved  BY DEF Unsaved
  <2>2. "refused" \in {"running", "told", "refused"} /\ "refused" # "running" /\ "unrecorded" \in {"told", "recorded", "unrecorded"}
        /\ "unrecorded" \in {"recorded", "unrecorded"}
    OBVIOUS
  <2> QED  BY ONLY CInv, <1>1, <1>2, <1>4, <2>1, <2>2, TurnHolds
<1> QED  BY <1>3, <1>4 DEF Ends

-----------------------------------------------------------------------------
(* Every step                                                              *)

LEMMA CInvInit == ASSUME Init PROVE CInv
<1>1. /\ gen = 0 /\ shut = FALSE /\ reqs = <<>> /\ view = NoView /\ conv = None
      /\ convs = <<>> /\ resp = <<>>
  BY DEF Init
<1>2. /\ reqs \in Seq(Request) /\ Len(reqs) = 0 /\ convs \in Seq(Nat) /\ resp \in Seq(Frames)
  BY <1>1
<1>3. view \in View /\ view.outgoing = None /\ view.pending = {} /\ view.shown = {}
  BY <1>1 DEF NoView, View, Says0
<1>4. Typed  BY <1>1, <1>2, <1>3 DEF Typed
<1>5. AllSound /\ InTurn /\ AllHere  BY <1>2 DEF AllSound, InTurn, AllHere
<1>6. OfNow /\ Showing(view, reqs, gen, shut)  BY <1>1, <1>3 DEF OfNow, Showing
<1> QED  BY <1>4, <1>5, <1>6 DEF CInv

LEMMA ProgressHolds == ASSUME CInv, NEW r, Progress(r) PROVE CInv'
BY PumpHolds, RetryHolds, TryOnHolds, BusyHolds, DeniedHolds, ErrsHolds, TakenUpHolds, ReadHolds,
   AbortedHolds DEF Progress

LEMMA ServiceHolds == ASSUME CInv, NEW r, Service(r) PROVE CInv'
BY TakesHolds, TakesNothingHolds, TurnsAwayHolds, NotSignedInHolds, ServerErrorHolds, SaysHolds,
   EndsHolds DEF Service

LEMMA CInvStep == ASSUME CInv, [Next]_vars PROVE CInv'
<1>1. CASE UNCHANGED vars
  <2>1. UNCHANGED <<gen, shut, reqs, conv, convs, resp, view>>  BY <1>1 DEF vars
  <2> QED  BY <2>1, NothingShown
<1>2. CASE \E path \in Paths : Enqueue(path)  BY <1>2, EnqueueHolds
<1>3. CASE Reset  BY <1>3, ResetHolds
<1>4. CASE Close  BY <1>4, CloseHolds
<1>5. CASE Expire  BY <1>5, ExpireHolds
<1>6. CASE Resume
  <2>1. UNCHANGED <<gen, shut, reqs, conv, convs, resp, view>>  BY <1>6 DEF Resume, server
  <2> QED  BY <2>1, NothingShown
<1>7. CASE \E r \in DOMAIN reqs : Progress(r) \/ Cut(r) \/ Service(r)
  BY <1>7, ProgressHolds, CutHolds, ServiceHolds
<1>8. CASE Connect \/ FallBack \/ Drop \/ PollEnds
  <2>1. UNCHANGED <<gen, shut, reqs, conv, convs, resp, view>>
    BY <1>8 DEF Connect, FallBack, Drop, PollEnds, chat, server
  <2> QED  BY <2>1, NothingShown
<1>9. CASE Refused  BY <1>9, RefusedHolds
<1>10. CASE Hear  BY <1>10, HearHolds
<1>11. CASE \E c \in DOMAIN convs : WakeStarts(c)
  <2>1. UNCHANGED <<gen, shut, reqs, conv, convs, resp, view>>  BY <1>11 DEF WakeStarts, chat
  <2> QED  BY <2>1, NothingShown
<1>12. CASE WakeGoesOn
  <2>1. UNCHANGED <<gen, shut, reqs, conv, convs, resp, view>>
    BY <1>12 DEF WakeGoesOn, WakeTells, WakeEnds, chat
  <2> QED  BY <2>1, NothingShown
<1> QED
  BY <1>1, <1>2, <1>3, <1>4, <1>5, <1>6, <1>7, <1>8, <1>9, <1>10, <1>11, <1>12 DEF Next

LEMMA CInvHolds == Spec => []CInv
<1>1. Init => CInv  BY CInvInit
<1>2. CInv /\ [Next]_vars => CInv'  BY CInvStep
<1> QED  BY <1>1, <1>2, PTL DEF Spec

-----------------------------------------------------------------------------
(* The events stream                                                       *)

Words == {"streaming", "idle", "released"}
Word == [k : Words, n : Nat]

\* The frames of wake turns on their way to the page.
OnTheWay == line.frames

\* A wake turn runs in the page's conversation.
Running == wake.n # 0 /\ wake.conv = conv

\* A wake turn of the page's conversation that its polls have not seen end.
Known(n) == n > seen /\ n <= wakes /\ ([n |-> n, conv |-> conv] \in ended \/ (Running /\ wake.n = n))

LineTyped ==
  /\ line \in [at : {"off", "dial", "open"}, frames : Seq(Word), done : BOOLEAN]
  /\ wakes \in Nat /\ showing \in 0 .. wakes /\ seen \in 0 .. wakes
  /\ wake.n \in 0 .. wakes /\ (wake.n # 0 => wake.conv \in 1 .. Len(convs))
  /\ line.at # "open" => OnTheWay = <<>> /\ ~line.done
  /\ line.done => polling
  /\ conv = None => line.at = "off" /\ seen = 0 /\ showing = 0
  /\ remote => line.at # "off"

\* No frame that starts a wake turn comes before the j-th.
Fresh(j) == \A h \in 1 .. Len(OnTheWay) : h < j => OnTheWay[h].k # "streaming"

\* What is said to run runs, or did, and has not been seen to end.
AllKnown ==
  /\ remote => Known(showing)
  /\ \A i \in 1 .. Len(OnTheWay) : OnTheWay[i].k = "streaming" => Known(OnTheWay[i].n)

Numbered ==
  \A i, j \in 1 .. Len(OnTheWay) :
    j < i /\ OnTheWay[i].k = "streaming" /\ OnTheWay[j].k = "streaming" =>
      OnTheWay[j].n < OnTheWay[i].n

\* What a `released` counts as seen is over, and before what starts after it.
Behind ==
  \A i, j \in 1 .. Len(OnTheWay) :
    j < i /\ OnTheWay[i].k = "streaming" /\ OnTheWay[j].k = "released" /\ Fresh(j) =>
      showing < OnTheWay[i].n

Passed ==
  Running =>
    /\ seen < wake.n
    /\ \A j \in 1 .. Len(OnTheWay) : OnTheWay[j].k = "released" =>
         /\ \A h \in 1 .. Len(OnTheWay) :
              h < j /\ OnTheWay[h].k = "streaming" => OnTheWay[h].n < wake.n
         /\ Fresh(j) => showing < wake.n

\* The end of a wake turn is on its way, or will be.
Over(i) == \E j \in 1 .. Len(OnTheWay) : j > i /\ OnTheWay[j].k = "released"
Later ==
  \/ line.at = "open" /\ ~line.done /\ Running
  \/ polling /\ (line.at = "dial" \/ line.done)
Held ==
  /\ remote => Over(0) \/ Later
  /\ \A i \in 1 .. Len(OnTheWay) : OnTheWay[i].k = "streaming" => Over(i) \/ Later

\* That a wake turn is idle is on its way, before its end, or will be.
Idle(i) ==
  \E j \in 1 .. Len(OnTheWay) :
    /\ j > i /\ OnTheWay[j].k = "idle"
    /\ \A h \in 1 .. Len(OnTheWay) : i < h /\ h < j => OnTheWay[h].k # "released"
Unended(i) == \A j \in 1 .. Len(OnTheWay) : j > i => OnTheWay[j].k # "released"
WillTell ==
  \/ line.at = "open" /\ ~line.done /\ Running /\ ~wake.told
  \/ polling /\ (line.at = "dial" \/ line.done)
Idles(i) == Idle(i) \/ (Unended(i) /\ WillTell)
Idled == \A i \in 1 .. Len(OnTheWay) : OnTheWay[i].k = "streaming" => Idles(i)

LInv == LineTyped /\ AllKnown /\ Numbered /\ Behind /\ Passed /\ Held /\ Idled

\* A wake turn shows, and that it is idle is to come.
WakeShows == remote /\ Idles(0)

\* The frames are what they were.
LEMMA SameFrames ==
  ASSUME LInv, LineTyped', OnTheWay' = OnTheWay, remote' = remote, showing' = showing,
         \A n \in Nat : Known(n) => Known(n)', Passed',
         Later => Later', WillTell => WillTell'
  PROVE  LInv' /\ (WakeShows => WakeShows')
<1>0. /\ Len(OnTheWay) \in Nat /\ \A i \in 1 .. Len(OnTheWay) : OnTheWay[i].n \in Nat
      /\ showing \in Nat
  <2>1. OnTheWay \in Seq(Word)  BY DEF LInv, LineTyped, OnTheWay
  <2>2. \A i \in 1 .. Len(OnTheWay) : OnTheWay[i] \in Word  BY <2>1, ElementOfSeq
  <2> QED  BY <2>1, <2>2, LenProperties DEF LInv, LineTyped, Word
<1>1. AllKnown'  BY <1>0 DEF LInv, AllKnown
<1>2. Numbered'  BY DEF LInv, Numbered
<1>3. Behind'  BY DEF LInv, Behind, Fresh
<1>4. Held'  BY DEF LInv, Held, Over
<1>5. \A i \in 0 .. Len(OnTheWay) : Idles(i) => Idles(i)'  BY DEF Idles, Idle, Unended
<1>6. Idled'  BY <1>0, <1>5 DEF LInv, Idled
<1>7. WakeShows => WakeShows'  BY <1>0, <1>5 DEF WakeShows
<1> QED  BY <1>1, <1>2, <1>3, <1>4, <1>6, <1>7 DEF LInv

LEMMA FrameFacts ==
  ASSUME LInv
  PROVE  /\ Len(OnTheWay) \in Nat /\ OnTheWay \in Seq(Word)
         /\ \A i \in 1 .. Len(OnTheWay) :
              OnTheWay[i] \in Word /\ OnTheWay[i].n \in Nat /\ OnTheWay[i].k \in Words
         /\ showing \in Nat /\ seen \in Nat /\ wakes \in Nat /\ wake.n \in Nat
<1>1. OnTheWay \in Seq(Word)  BY DEF LInv, LineTyped, OnTheWay
<1>2. \A i \in 1 .. Len(OnTheWay) : OnTheWay[i] \in Word  BY <1>1, ElementOfSeq
<1> QED  BY <1>1, <1>2, LenProperties DEF LInv, LineTyped, Word

\* What the page does that is nothing to the stream.
LEMMA LineKept ==
  ASSUME LInv, line' = line, remote' = remote, showing' = showing, seen' = seen, wake' = wake,
         wakes' = wakes, ended' = ended, conv' = conv, polling => polling',
         Len(convs) \in Nat, Len(convs') \in Nat, Len(convs) <= Len(convs')
  PROVE  LInv' /\ (WakeShows => WakeShows')
<1>1. LineTyped'  BY DEF LInv, LineTyped, OnTheWay
<1>2. OnTheWay' = OnTheWay  BY DEF OnTheWay
<1>3. \A n \in Nat : Known(n) => Known(n)'  BY DEF Known, Running
<1>4. Passed'  BY <1>2 DEF LInv, Passed, Fresh, Running
<1>5. (Later => Later') /\ (WillTell => WillTell')  BY DEF Later, WillTell, Running
<1> QED  BY <1>1, <1>2, <1>3, <1>4, <1>5, SameFrames

\* Nothing is on its way, and no wake turn shows.
LEMMA NothingOnTheWay ==
  ASSUME LineTyped', OnTheWay' = <<>>, Passed', ~remote'
  PROVE  LInv'
<1>1. \A i \in 1 .. Len(OnTheWay') : FALSE
  <2>1. Len(OnTheWay') = 0  BY EmptySeq
  <2> QED  BY <2>1
<1> QED  BY <1>1 DEF LInv, AllKnown, Numbered, Behind, Held, Idled

LEMMA PassedNothing ==
  ASSUME OnTheWay' = <<>>, Running' => seen' < wake'.n
  PROVE  Passed'
<1>1. \A i \in 1 .. Len(OnTheWay') : FALSE
  <2>1. Len(OnTheWay') = 0  BY EmptySeq
  <2> QED  BY <2>1
<1> QED  BY <1>1 DEF Passed

\* The stream is let go, or has to be had again; the conversation is what it was, or none.
LEMMA LineDropped ==
  ASSUME LInv, wake' = wake, wakes' = wakes, convs' = convs, remote' = FALSE,
         \/ line' = NoLine
         \/ line' = Dialing /\ line.at # "off",
         \/ conv' = conv /\ seen' = seen /\ showing' = showing
         \/ conv' = None /\ seen' = 0 /\ showing' = 0 /\ line' = NoLine
  PROVE  LInv'
<1>1. /\ line' \in [at : {"off", "dial", "open"}, frames : Seq(Word), done : BOOLEAN]
      /\ line'.at # "open" /\ line'.frames = <<>> /\ ~line'.done
      /\ line.at = "off" \/ line' = NoLine => line'.at = "off"
  <2>1. <<>> \in Seq(Word)  BY EmptySeq
  <2>2. CASE line' = NoLine  BY <2>1, <2>2 DEF NoLine
  <2>3. CASE line' = Dialing /\ line.at # "off" /\ line' # NoLine
    <3>1. line'.at = "dial" /\ line'.frames = <<>> /\ line'.done = FALSE
          /\ line' \in [at : {"off", "dial", "open"}, frames : Seq(Word), done : BOOLEAN]
      BY <2>1, <2>3 DEF Dialing, NoLine
    <3> QED  BY <2>3, <3>1
  <2> QED  BY <2>2, <2>3
<1>2. OnTheWay' = <<>>  BY <1>1 DEF OnTheWay
<1>3. LineTyped'
  BY <1>1, <1>2, FrameFacts DEF LInv, LineTyped
<1>4. Running' => seen' < wake'.n
  <2>1. CASE conv' = conv /\ seen' = seen  BY <2>1 DEF LInv, Passed, Running
  <2>2. CASE conv' = None /\ seen' = 0
    <3>1. Running' => wake.n # 0 /\ wake.n \in Nat  BY FrameFacts DEF Running
    <3> QED  BY <2>2, <3>1
  <2> QED  BY <2>1, <2>2
<1>5. Passed'  BY <1>2, <1>4, PassedNothing
<1> QED  BY <1>2, <1>3, <1>5, NothingOnTheWay

\* The page begins to listen, maybe as its conversation begins.
LEMMA LineListens ==
  ASSUME LInv, wake' = wake, wakes' = wakes, ended' = ended, remote' = remote, polling' = polling,
         showing' = showing, seen' = seen,
         Len(convs) \in Nat, convs' = convs,
         conv' = conv \/ (conv = None /\ conv' # None),
         line' = line \/ (line.at = "off" /\ conv' # None /\ line' = Dialing)
  PROVE  LInv' /\ (WakeShows => WakeShows')
<1>1. CASE line.at # "off"
  <2>1. conv' = conv /\ line' = line  BY <1>1 DEF LInv, LineTyped
  <2> QED  BY <2>1, LineKept
<1>2. CASE line.at = "off"
  <2>1. ~remote /\ OnTheWay = <<>> /\ ~line.done  BY <1>2 DEF LInv, LineTyped
  <2>2. /\ line' \in [at : {"off", "dial", "open"}, frames : Seq(Word), done : BOOLEAN]
        /\ line'.at # "open" /\ line'.frames = <<>> /\ ~line'.done
        /\ conv' = None => line'.at = "off"
    <3>1. <<>> \in Seq(Word)  BY EmptySeq
    <3>2. CASE line' = Dialing /\ conv' # None  BY <3>1, <3>2 DEF NoLine, Dialing
    <3>3. CASE line' = line  BY <1>2, <2>1, <3>3 DEF LInv, LineTyped, OnTheWay
    <3> QED  BY <3>2, <3>3
  <2>3. OnTheWay' = <<>>  BY <2>2 DEF OnTheWay
  <2>4. LineTyped'
    <3>1. conv' = None => conv = None  OBVIOUS
    <3> QED  BY <2>1, <2>2, <2>3, <3>1 DEF LInv, LineTyped
  <2>5. Running' => seen' < wake'.n
    <3>1. CASE conv' = conv  BY <3>1 DEF LInv, Passed, Running
    <3>2. CASE conv = None
      <4>1. seen = 0  BY <3>2 DEF LInv, LineTyped
      <4>2. Running' => wake.n # 0 /\ wake.n \in Nat  BY FrameFacts DEF Running
      <4> QED  BY <4>1, <4>2
    <3> QED  BY <3>1, <3>2
  <2>6. Passed'  BY <2>3, <2>5, PassedNothing
  <2>7. LInv'  BY <2>1, <2>3, <2>4, <2>6, NothingOnTheWay
  <2> QED  BY <2>1, <2>7 DEF WakeShows
<1> QED  BY <1>1, <1>2

LEMMA PollEndsKeeps == ASSUME LInv, PollEnds, UNCHANGED convs PROVE LInv' /\ (WakeShows => WakeShows')
<1>1. /\ polling /\ line.at = "open" /\ ~line.done /\ polling' /\ remote' = remote
      /\ showing' = showing /\ seen' = seen /\ wake' = wake /\ wakes' = wakes /\ ended' = ended
      /\ conv' = conv
  BY DEF PollEnds, server, chat
<1>2. /\ line' \in [at : {"off", "dial", "open"}, frames : Seq(Word), done : BOOLEAN]
      /\ line'.frames = line.frames
      /\ \/ line'.at = "dial" /\ line'.frames = <<>> /\ ~line'.done
         \/ line'.at = "open" /\ line'.done
  <2>1. CASE line.frames = <<>>
    <3>1. line' = Dialing  BY <2>1 DEF PollEnds
    <3>2. <<>> \in Seq(Word)  BY EmptySeq
    <3> QED  BY <2>1, <3>1, <3>2 DEF Dialing, NoLine
  <2>2. CASE line.frames # <<>>
    <3>1. line' = [line EXCEPT !.done = TRUE]  BY <2>2 DEF PollEnds
    <3> QED  BY <1>1, <3>1 DEF LInv, LineTyped
  <2> QED  BY <2>1, <2>2
<1>3. OnTheWay' = OnTheWay  BY <1>2 DEF OnTheWay
<1>4. LineTyped'
  BY <1>1, <1>2 DEF LInv, LineTyped, OnTheWay
<1>5. \A n \in Nat : Known(n) => Known(n)'  BY <1>1 DEF Known, Running
<1>6. Passed'  BY <1>1, <1>3 DEF LInv, Passed, Fresh, Running
<1>7. Later' /\ WillTell'  BY <1>1, <1>2 DEF Later, WillTell
<1> QED  BY <1>1, <1>3, <1>4, <1>5, <1>6, <1>7, SameFrames

\* One more frame is on its way.
LEMMA OneMoreFrame ==
  ASSUME LInv, LineTyped', NEW w \in Word, OnTheWay' = Append(OnTheWay, w),
         remote' = remote, showing' = showing,
         \A n \in Nat : Known(n) => Known(n)', Passed',
         w.k = "streaming" => Known(w.n)' /\ w.n > wakes /\ WillTell',
         w.k = "released" \/ Later',
         \A i \in 0 .. Len(OnTheWay) : Idles(i) => Idles(i)'
  PROVE  LInv' /\ (WakeShows => WakeShows')
<1>1. /\ Len(OnTheWay) \in Nat /\ OnTheWay \in Seq(Word)
      /\ \A i \in 1 .. Len(OnTheWay) :
           OnTheWay[i] \in Word /\ OnTheWay[i].n \in Nat /\ OnTheWay[i].k \in Words
      /\ showing \in Nat /\ seen \in Nat /\ wakes \in Nat
  BY FrameFacts
<1>2. PICK m : m = Len(OnTheWay)  OBVIOUS
<1>3. /\ m \in Nat /\ Len(OnTheWay') = m + 1 /\ OnTheWay'[m + 1] = w
      /\ \A i \in 1 .. m : OnTheWay'[i] = OnTheWay[i]
  BY <1>1, <1>2, AppendProperties
<1>4. \A i \in 1 .. m + 1 : i \in 1 .. m \/ i = m + 1  BY <1>3
<1>5. w.n \in Nat /\ w.k \in Words  BY DEF Word
<1>6. AllKnown'
  <2>1. remote' => Known(showing)'
    <3>1. remote => Known(showing)  BY DEF LInv, AllKnown
    <3>2. Known(showing) => Known(showing)'  BY <1>1
    <3> QED  BY <3>1, <3>2
  <2>2. ASSUME NEW i \in 1 .. m + 1, OnTheWay'[i].k = "streaming"
        PROVE  \E n \in Nat : n = OnTheWay'[i].n /\ Known(n)'
    <3>1. CASE i \in 1 .. m
      <4>1. PICK n \in Nat : n = OnTheWay[i].n  BY <1>1, <1>2, <3>1
      <4>2. Known(n)  BY <1>2, <1>3, <2>2, <3>1, <4>1 DEF LInv, AllKnown
      <4> QED  BY <1>3, <3>1, <4>1, <4>2
    <3>2. CASE i = m + 1
      <4>1. PICK n \in Nat : n = w.n  BY <1>5
      <4>2. Known(n)'  BY <1>3, <2>2, <3>2, <4>1
      <4> QED  BY <1>3, <3>2, <4>1, <4>2
    <3> QED  BY <1>4, <3>1, <3>2
  <2> QED  BY <1>3, <2>1, <2>2 DEF AllKnown
<1>7. \A i \in 1 .. m : OnTheWay[i].k = "streaming" => OnTheWay[i].n <= wakes
  BY <1>2 DEF LInv, AllKnown, Known
<1>8. Numbered'
  <2>1. ASSUME NEW i \in 1 .. m + 1, NEW j \in 1 .. m + 1, j < i,
               OnTheWay'[i].k = "streaming", OnTheWay'[j].k = "streaming"
        PROVE  OnTheWay'[j].n < OnTheWay'[i].n
    <3>1. j \in 1 .. m  BY <1>3, <2>1
    <3>2. CASE i \in 1 .. m
      <4>1. OnTheWay[i].k = "streaming" /\ OnTheWay[j].k = "streaming"  BY <1>3, <2>1, <3>1, <3>2
      <4>2. OnTheWay[j].n < OnTheWay[i].n  BY <1>2, <2>1, <3>1, <3>2, <4>1 DEF LInv, Numbered
      <4> QED  BY <1>3, <3>1, <3>2, <4>2
    <3>3. CASE i = m + 1
      <4>1. OnTheWay'[j].n <= wakes /\ OnTheWay'[j].n \in Nat  BY <1>1, <1>2, <1>3, <1>7, <2>1, <3>1
      <4>2. OnTheWay'[i].n = w.n /\ w.n > wakes  BY <1>3, <2>1, <3>3
      <4>3. PICK a, b : a = OnTheWay'[j].n /\ b = OnTheWay'[i].n  OBVIOUS
      <4>4. a \in Nat /\ b \in Nat /\ a <= wakes /\ wakes < b  BY <1>5, <4>1, <4>2, <4>3
      <4>5. a < b  BY <1>1, <4>4
      <4> QED  BY <4>3, <4>5
    <3> QED  BY <1>4, <3>2, <3>3
  <2> QED  BY <1>3, <2>1 DEF Numbered
<1>9. Behind'
  <2>1. ASSUME NEW i \in 1 .. m + 1, NEW j \in 1 .. m + 1, j < i,
               OnTheWay'[i].k = "streaming", OnTheWay'[j].k = "released", Fresh(j)'
        PROVE  showing' < OnTheWay'[i].n
    <3>1. j \in 1 .. m  BY <1>3, <2>1
    <3>2. CASE i \in 1 .. m
      <4>1. Fresh(j)
        <5>1. \A h \in 1 .. m : h < j => OnTheWay'[h].k # "streaming"
          BY <1>3, <2>1 DEF Fresh
        <5> QED  BY <1>2, <1>3, <5>1 DEF Fresh
      <4> QED  BY <1>2, <1>3, <2>1, <3>1, <3>2, <4>1 DEF LInv, Behind
    <3>3. CASE i = m + 1
      <4>1. showing <= wakes  BY DEF LInv, LineTyped
      <4> QED  BY <1>1, <1>3, <1>5, <2>1, <3>3, <4>1
    <3> QED  BY <1>4, <3>2, <3>3
  <2> QED  BY <1>3, <2>1 DEF Behind
<1>10. \A i \in 0 .. m : Over(i) => Over(i)'
  <2>1. ASSUME NEW i \in 0 .. m, NEW j \in 1 .. m, j > i, OnTheWay[j].k = "released" PROVE Over(i)'
    <3>1. j \in 1 .. m + 1 /\ OnTheWay'[j].k = "released"  BY <1>3, <2>1
    <3> QED  BY <1>3, <2>1, <3>1 DEF Over
  <2> QED  BY <1>2, <2>1 DEF Over
<1>11. w.k = "released" => \A i \in 0 .. m : Over(i)'
  <2>1. \A i \in 0 .. m : m + 1 \in 1 .. m + 1 /\ m + 1 > i  BY <1>3
  <2> QED  BY <1>3, <2>1 DEF Over
<1>12. Held'
  <2>1. remote' => Over(0)' \/ Later'
    <3>1. 0 \in 0 .. m  BY <1>3
    <3> QED  BY <1>11, <3>1
  <2>2. ASSUME NEW i \in 1 .. m + 1, OnTheWay'[i].k = "streaming" PROVE Over(i)' \/ Later'
    <3>1. CASE w.k = "released"
      <4>1. i \in 0 .. m  BY <1>3, <1>4, <2>2, <3>1
      <4> QED  BY <1>11, <3>1, <4>1
    <3> QED  BY <3>1
  <2> QED  BY <1>3, <2>1, <2>2 DEF Held
<1>13. Idled'
  <2>1. ASSUME NEW i \in 1 .. m + 1, OnTheWay'[i].k = "streaming" PROVE Idles(i)'
    <3>1. CASE i \in 1 .. m
      <4>1. Idles(i)  BY <1>2, <1>3, <2>1, <3>1 DEF LInv, Idled
      <4>2. i \in 0 .. Len(OnTheWay)  BY <1>2, <3>1
      <4> QED  BY <4>1, <4>2
    <3>2. CASE i = m + 1
      <4>1. Unended(i)'  BY <1>3, <3>2 DEF Unended
      <4>2. WillTell'  BY <1>3, <2>1, <3>2
      <4> QED  BY <4>1, <4>2 DEF Idles
    <3> QED  BY <1>4, <3>1, <3>2
  <2> QED  BY <1>3, <2>1 DEF Idled
<1>14. WakeShows => WakeShows'
  <2>1. 0 \in 0 .. Len(OnTheWay)  BY <1>1
  <2> QED  BY <2>1 DEF WakeShows
<1> QED  BY <1>6, <1>8, <1>9, <1>12, <1>13, <1>14 DEF LInv

\* The page is connected, and is sent what the turns of its conversation say.
Connected == line.at = "open" /\ ~line.done

LEMMA DeliveredTyped ==
  ASSUME LInv, NEW c, NEW w \in Word, Delivered(c, w)
  PROVE  /\ line' \in [at : {"off", "dial", "open"}, frames : Seq(Word), done : BOOLEAN]
         /\ line'.at = line.at /\ line'.done = line.done
         /\ IF c = conv /\ Connected THEN OnTheWay' = Append(OnTheWay, w) ELSE line' = line
<1>1. line \in [at : {"off", "dial", "open"}, frames : Seq(Word), done : BOOLEAN]
  BY DEF LInv, LineTyped
<1>2. CASE c = conv /\ Connected
  <2>1. line' = [line EXCEPT !.frames = Append(@, w)]  BY <1>2 DEF Delivered, Sent, Connected
  <2>2. Append(line.frames, w) \in Seq(Word)  BY <1>1, AppendProperties
  <2> QED  BY <1>1, <1>2, <2>1, <2>2 DEF OnTheWay
<1>3. CASE ~(c = conv /\ Connected)
  <2>1. line' = line  BY <1>3 DEF Delivered, Sent, Connected
  <2> QED  BY <1>1, <1>3, <2>1
<1> QED  BY <1>2, <1>3

\* What is to come before a frame more still is.
LEMMA IdleKept ==
  ASSUME LInv, NEW w \in Word, OnTheWay' = Append(OnTheWay, w), NEW i \in 0 .. Len(OnTheWay)
  PROVE  (Idle(i) => Idle(i)') /\ (w.k # "released" /\ Unended(i) => Unended(i)')
<1>1. Len(OnTheWay) \in Nat /\ OnTheWay \in Seq(Word)  BY FrameFacts
<1>2. PICK m : m = Len(OnTheWay)  OBVIOUS
<1>3. /\ m \in Nat /\ Len(OnTheWay') = m + 1 /\ OnTheWay'[m + 1] = w
      /\ \A j \in 1 .. m : OnTheWay'[j] = OnTheWay[j]
  BY <1>1, <1>2, AppendProperties
<1>4. ASSUME Idle(i) PROVE Idle(i)'
  <2>1. PICK j \in 1 .. m : /\ j > i /\ OnTheWay[j].k = "idle"
                            /\ \A h \in 1 .. m : i < h /\ h < j => OnTheWay[h].k # "released"
    BY <1>2, <1>4 DEF Idle
  <2>2. j \in 1 .. m + 1 /\ \A h \in 1 .. m + 1 : h < j => h \in 1 .. m  BY <1>3
  <2> QED  BY <1>3, <2>1, <2>2 DEF Idle
<1>5. ASSUME w.k # "released", Unended(i) PROVE Unended(i)'
  <2>1. \A j \in 1 .. m + 1 : j \in 1 .. m \/ j = m + 1  BY <1>3
  <2>2. \A j \in 1 .. m + 1 : j > i => OnTheWay'[j].k # "released"
    BY <1>2, <1>3, <1>5, <2>1 DEF Unended
  <2> QED  BY <1>3, <2>2 DEF Unended
<1> QED  BY <1>4, <1>5

LEMMA WakeStartsKeeps ==
  ASSUME CInv, LInv, NEW c \in DOMAIN convs, WakeStarts(c)
  PROVE  LInv' /\ (WakeShows => WakeShows')
<1>1. /\ wake.n = 0 /\ wakes' = wakes + 1 /\ wake'.n = wakes + 1 /\ wake'.conv = c
      /\ wake'.told = FALSE /\ conv' = conv /\ seen' = seen /\ showing' = showing
      /\ remote' = remote /\ polling' = polling /\ convs' = convs /\ ended' = ended
  BY DEF WakeStarts, chat
<1>2. PICK w : w = [k |-> "streaming", n |-> wakes + 1]  OBVIOUS
<1>3. /\ w \in Word /\ w.k = "streaming" /\ w.n = wakes + 1 /\ w.n > wakes
      /\ wakes \in Nat /\ showing \in Nat /\ seen \in Nat
      /\ showing <= wakes /\ seen <= wakes
  BY <1>2, FrameFacts DEF Word, Words, LInv, LineTyped
<1>4. Delivered(c, w)  BY <1>2 DEF WakeStarts
<1>5. /\ line' \in [at : {"off", "dial", "open"}, frames : Seq(Word), done : BOOLEAN]
      /\ line'.at = line.at /\ line'.done = line.done
      /\ IF c = conv /\ Connected THEN OnTheWay' = Append(OnTheWay, w) ELSE line' = line
  BY <1>3, <1>4, DeliveredTyped
<1>6. LineTyped'
  <2>1. c \in 1 .. Len(convs)  BY LenProperties DEF CInv, Typed
  <2>2. line'.at # "open" => OnTheWay' = <<>> /\ ~line'.done
    BY <1>5 DEF Connected, LInv, LineTyped, OnTheWay
  <2> QED  BY <1>1, <1>3, <1>5, <2>1, <2>2 DEF LInv, LineTyped
<1>7. \A n \in Nat : Known(n) => Known(n)'  BY <1>1, <1>3 DEF Known, Running
<1>8. /\ Len(OnTheWay) \in Nat /\ OnTheWay \in Seq(Word)
      /\ \A i \in 1 .. Len(OnTheWay) : OnTheWay[i].n \in Nat
  BY FrameFacts
<1>9. \A i \in 1 .. Len(OnTheWay) : OnTheWay[i].k = "streaming" => OnTheWay[i].n <= wakes
  BY DEF LInv, AllKnown, Known
<1>10. CASE c = conv /\ Connected
  <2>1. OnTheWay' = Append(OnTheWay, w)  BY <1>5, <1>10
  <2>2. PICK m : m = Len(OnTheWay)  OBVIOUS
  <2>3. /\ m \in Nat /\ Len(OnTheWay') = m + 1 /\ OnTheWay'[m + 1] = w
        /\ \A i \in 1 .. m : OnTheWay'[i] = OnTheWay[i]
    BY <1>8, <2>1, <2>2, AppendProperties
  <2>4. Passed'
    <3>1. ASSUME NEW j \in 1 .. m + 1, OnTheWay'[j].k = "released",
                 NEW h \in 1 .. m + 1, h < j, OnTheWay'[h].k = "streaming"
          PROVE  OnTheWay'[h].n < wakes + 1
      <4>1. h \in 1 .. m  BY <2>3, <3>1
      <4>2. OnTheWay[h].k = "streaming" /\ OnTheWay'[h].n = OnTheWay[h].n  BY <2>3, <3>1, <4>1
      <4>3. OnTheWay[h].n <= wakes /\ OnTheWay[h].n \in Nat  BY <1>8, <1>9, <2>2, <4>1, <4>2
      <4> QED  BY <1>3, <4>2, <4>3
    <3>2. seen < wakes + 1 /\ showing < wakes + 1  BY <1>3
    <3> QED  BY <1>1, <2>3, <3>1, <3>2 DEF Passed
  <2>5. Running' /\ Later' /\ WillTell'
    BY <1>1, <1>3, <1>5, <1>10 DEF Running, Later, WillTell, Connected
  <2>6. Known(w.n)'
    <3>1. wakes + 1 > seen  BY <1>3
    <3> QED  BY <1>1, <1>3, <2>5, <3>1 DEF Known
  <2>7. ASSUME NEW i \in 0 .. m, Idles(i) PROVE Idles(i)'
    <3>1. i \in 0 .. Len(OnTheWay)  BY <2>2
    <3>2. (Idle(i) => Idle(i)') /\ (Unended(i) => Unended(i)')  BY <1>3, <2>1, <3>1, IdleKept
    <3> QED  BY <2>5, <2>7, <3>2 DEF Idles
  <2>8. \A i \in 0 .. Len(OnTheWay) : Idles(i) => Idles(i)'  BY <2>2, <2>7
  <2> QED  BY <1>1, <1>3, <1>6, <1>7, <2>1, <2>4, <2>5, <2>6, <2>8, OneMoreFrame
<1>11. CASE ~(c = conv /\ Connected)
  <2>1. line' = line /\ OnTheWay' = OnTheWay  BY <1>5, <1>11 DEF OnTheWay
  <2>2. Passed'
    <3>1. ASSUME NEW j \in 1 .. Len(OnTheWay), OnTheWay'[j].k = "released",
                 NEW h \in 1 .. Len(OnTheWay), h < j, OnTheWay'[h].k = "streaming"
          PROVE  OnTheWay'[h].n < wakes + 1
      <4>1. OnTheWay[h].n <= wakes /\ OnTheWay[h].n \in Nat  BY <1>8, <1>9, <2>1, <3>1
      <4> QED  BY <1>3, <2>1, <4>1
    <3>2. seen < wakes + 1 /\ showing < wakes + 1  BY <1>3
    <3> QED  BY <1>1, <2>1, <3>1, <3>2 DEF Passed
  <2>3. (Later => Later') /\ (WillTell => WillTell')
    BY <1>1, <2>1 DEF Later, WillTell, Running
  <2> QED  BY <1>1, <1>6, <1>7, <2>1, <2>2, <2>3, SameFrames
<1> QED  BY <1>10, <1>11

LEMMA WakeTellsKeeps ==
  ASSUME CInv, LInv, WakeTells
  PROVE  LInv' /\ (WakeShows => WakeShows')
<1>1. /\ wake.n # 0 /\ ~wake.told /\ wakes' = wakes
      /\ wake'.n = wake.n /\ wake'.conv = wake.conv
      /\ conv' = conv /\ seen' = seen /\ showing' = showing
      /\ remote' = remote /\ polling' = polling /\ convs' = convs /\ ended' = ended
  BY DEF WakeTells, chat
<1>2. PICK w : w = [k |-> "idle", n |-> wake.n]  OBVIOUS
<1>3. w \in Word /\ w.k = "idle"  BY <1>2, FrameFacts DEF Word, Words
<1>4. Delivered(wake.conv, w)  BY <1>2 DEF WakeTells
<1>5. /\ line' \in [at : {"off", "dial", "open"}, frames : Seq(Word), done : BOOLEAN]
      /\ line'.at = line.at /\ line'.done = line.done
      /\ IF wake.conv = conv /\ Connected THEN OnTheWay' = Append(OnTheWay, w) ELSE line' = line
  BY <1>3, <1>4, DeliveredTyped
<1>6. LineTyped'
  <2>1. line'.at # "open" => OnTheWay' = <<>> /\ ~line'.done
    BY <1>5 DEF Connected, LInv, LineTyped, OnTheWay
  <2> QED  BY <1>1, <1>5, <2>1 DEF LInv, LineTyped
<1>7. \A n \in Nat : Known(n) => Known(n)'  BY <1>1 DEF Known, Running
<1>8. Len(OnTheWay) \in Nat /\ OnTheWay \in Seq(Word)  BY FrameFacts
<1>9. CASE wake.conv = conv /\ Connected
  <2>1. OnTheWay' = Append(OnTheWay, w)  BY <1>5, <1>9
  <2>2. PICK m : m = Len(OnTheWay)  OBVIOUS
  <2>3. /\ m \in Nat /\ Len(OnTheWay') = m + 1 /\ OnTheWay'[m + 1] = w
        /\ \A i \in 1 .. m : OnTheWay'[i] = OnTheWay[i]
    BY <1>8, <2>1, <2>2, AppendProperties
  <2>4. Running /\ Running' /\ Later'
    BY <1>1, <1>5, <1>9 DEF Running, Later, Connected
  <2>5. Passed'
    <3>1. ASSUME NEW j \in 1 .. m + 1, OnTheWay'[j].k = "released"
          PROVE  /\ j \in 1 .. m /\ OnTheWay[j].k = "released"
                 /\ \A h \in 1 .. m + 1 : h < j => h \in 1 .. m
      <4>1. j \in 1 .. m \/ j = m + 1  BY <2>3
      <4>2. j \in 1 .. m  BY <1>3, <2>3, <3>1, <4>1
      <4>3. \A h \in 1 .. m + 1 : h < j => h \in 1 .. m  BY <2>3, <4>2
      <4> QED  BY <2>3, <3>1, <4>2, <4>3
    <3>2. ASSUME NEW j \in 1 .. m + 1, OnTheWay'[j].k = "released",
                 NEW h \in 1 .. m + 1, h < j, OnTheWay'[h].k = "streaming"
          PROVE  OnTheWay'[h].n < wake.n
      <4>1. j \in 1 .. m /\ OnTheWay[j].k = "released" /\ h \in 1 .. m  BY <3>1, <3>2
      <4>2. OnTheWay'[h] = OnTheWay[h]  BY <2>3, <4>1
      <4> QED  BY <2>2, <2>4, <3>2, <4>1, <4>2 DEF LInv, Passed
    <3>3. ASSUME NEW j \in 1 .. m + 1, OnTheWay'[j].k = "released", Fresh(j)'
          PROVE  showing < wake.n
      <4>1. j \in 1 .. m /\ OnTheWay[j].k = "released"  BY <3>1, <3>3
      <4>2. \A h \in 1 .. m : h < j => OnTheWay[h].k # "streaming"
        <5>1. \A h \in 1 .. m : h \in 1 .. m + 1  BY <2>3
        <5> QED  BY <2>3, <3>3, <5>1 DEF Fresh
      <4> QED  BY <2>2, <2>4, <4>1, <4>2 DEF LInv, Passed, Fresh
    <3>4. seen < wake.n  BY <2>4 DEF LInv, Passed
    <3> QED  BY <1>1, <2>3, <3>2, <3>3, <3>4 DEF Passed
  <2>6. ASSUME NEW i \in 0 .. Len(OnTheWay), Idles(i) PROVE Idles(i)'
    <3>1. CASE Idle(i)  BY <1>3, <2>1, <3>1, IdleKept DEF Idles
    <3>2. CASE Unended(i)
      <4>1. m + 1 \in 1 .. m + 1 /\ m + 1 > i  BY <2>2, <2>3
      <4>2. \A h \in 1 .. m + 1 : i < h /\ h < m + 1 => OnTheWay'[h].k # "released"
        <5>1. \A h \in 1 .. m + 1 : h < m + 1 => h \in 1 .. m  BY <2>3
        <5> QED  BY <2>2, <2>3, <3>2, <5>1 DEF Unended
      <4>3. Idle(i)'  BY <1>3, <2>3, <4>1, <4>2 DEF Idle
      <4> QED  BY <4>3 DEF Idles
    <3> QED  BY <2>6, <3>1, <3>2 DEF Idles
  <2> QED  BY <1>1, <1>3, <1>6, <1>7, <2>1, <2>4, <2>5, <2>6, OneMoreFrame
<1>10. CASE ~(wake.conv = conv /\ Connected)
  <2>1. line' = line /\ OnTheWay' = OnTheWay  BY <1>5, <1>10 DEF OnTheWay
  <2>2. Passed'  BY <1>1, <2>1 DEF LInv, Passed, Fresh, Running
  <2>3. (Later => Later') /\ (WillTell => WillTell')
    BY <1>1, <1>10, <2>1 DEF Later, WillTell, Running, Connected
  <2> QED  BY <1>1, <1>6, <1>7, <2>1, <2>2, <2>3, SameFrames
<1> QED  BY <1>9, <1>10

LEMMA WakeEndsKeeps ==
  ASSUME CInv, LInv, WakeEnds
  PROVE  LInv' /\ (WakeShows => WakeShows')
<1>1. /\ wake.n # 0 /\ wake.told /\ wakes' = wakes /\ wake'.n = 0
      /\ conv' = conv /\ seen' = seen /\ showing' = showing
      /\ remote' = remote /\ polling' = polling /\ convs' = convs
      /\ ended' = ended \union {[n |-> wake.n, conv |-> wake.conv]}
  BY DEF WakeEnds, chat, NoWake
<1>2. PICK w : w = Released(wake.n)  OBVIOUS
<1>3. w \in Word /\ w.k = "released"  BY <1>2, FrameFacts DEF Word, Words, Released
<1>4. Delivered(wake.conv, w)  BY <1>2 DEF WakeEnds
<1>5. /\ line' \in [at : {"off", "dial", "open"}, frames : Seq(Word), done : BOOLEAN]
      /\ line'.at = line.at /\ line'.done = line.done
      /\ IF wake.conv = conv /\ Connected THEN OnTheWay' = Append(OnTheWay, w) ELSE line' = line
  BY <1>3, <1>4, DeliveredTyped
<1>6. LineTyped'
  <2>1. line'.at # "open" => OnTheWay' = <<>> /\ ~line'.done
    BY <1>5 DEF Connected, LInv, LineTyped, OnTheWay
  <2>2. wake'.n \in 0 .. wakes'  BY <1>1, FrameFacts
  <2> QED  BY <1>1, <1>5, <2>1, <2>2 DEF LInv, LineTyped
<1>7. \A n \in Nat : Known(n) => Known(n)'  BY <1>1 DEF Known, Running
<1>8. ~Running'  BY <1>1 DEF Running
<1>9. Passed'  BY <1>8 DEF Passed
<1>10. CASE wake.conv = conv /\ Connected
  <2>1. OnTheWay' = Append(OnTheWay, w)  BY <1>5, <1>10
  <2>2. ~WillTell  BY <1>1, <1>10 DEF WillTell, Connected
  <2>3. \A i \in 0 .. Len(OnTheWay) : Idles(i) => Idles(i)'
    BY <1>3, <2>1, <2>2, IdleKept DEF Idles
  <2> QED  BY <1>1, <1>3, <1>6, <1>7, <1>9, <2>1, <2>3, OneMoreFrame
<1>11. CASE ~(wake.conv = conv /\ Connected)
  <2>1. line' = line /\ OnTheWay' = OnTheWay  BY <1>5, <1>11 DEF OnTheWay
  <2>2. (Later => Later') /\ (WillTell => WillTell')
    BY <1>1, <1>11, <2>1 DEF Later, WillTell, Running, Connected
  <2> QED  BY <1>1, <1>6, <1>7, <1>9, <2>1, <2>2, SameFrames
<1> QED  BY <1>10, <1>11

\* A frame is heard: the rest stay on their way.
LEMMA FrameHeard ==
  ASSUME LInv, Hear
  PROVE  /\ line' \in [at : {"off", "dial", "open"}, frames : Seq(Word), done : BOOLEAN]
         /\ line'.at # "off" /\ (line'.at # "open" => line'.frames = <<>> /\ ~line'.done)
         /\ (line'.done => polling)
         /\ \E m \in Nat : /\ Len(OnTheWay) = m + 1 /\ Len(OnTheWay') = m
                           /\ \A i \in 1 .. m : OnTheWay'[i] = OnTheWay[i + 1]
         /\ (Later => Later') /\ (WillTell => WillTell')
         /\ Running' = Running
<1>1. /\ line \in [at : {"off", "dial", "open"}, frames : Seq(Word), done : BOOLEAN]
      /\ OnTheWay \in Seq(Word) /\ OnTheWay # <<>> /\ line.at = "open"
      /\ (line.done => polling) /\ polling' = polling /\ wake' = wake /\ conv' = conv
  BY DEF LInv, LineTyped, OnTheWay, Hear, server
<1>2. /\ Tail(OnTheWay) \in Seq(Word) /\ Len(OnTheWay) \in Nat
      /\ Len(Tail(OnTheWay)) = Len(OnTheWay) - 1
      /\ \A i \in 1 .. Len(Tail(OnTheWay)) : Tail(OnTheWay)[i] = OnTheWay[i + 1]
  BY <1>1, HeadTailProperties, LenProperties
<1>3. PICK m \in Nat : Len(OnTheWay) = m + 1
  <2>1. Len(OnTheWay) # 0  BY <1>1, EmptySeq
  <2>2. Len(OnTheWay) - 1 \in Nat /\ Len(OnTheWay) = Len(OnTheWay) - 1 + 1  BY <1>2, <2>1
  <2> QED  BY <2>2
<1>4. Running' = Running  BY <1>1 DEF Running
<1>5. CASE line.done /\ Len(line.frames) = 1
  <2>1. line' = Dialing  BY <1>5 DEF Hear
  <2>2. m = 0
    <3>1. Len(OnTheWay) = 1  BY <1>5 DEF OnTheWay
    <3>2. m + 1 = 1  BY <1>3, <3>1
    <3> QED  BY <3>2
  <2>3. /\ line'.at = "dial" /\ line'.frames = <<>> /\ line'.done = FALSE
        /\ line' \in [at : {"off", "dial", "open"}, frames : Seq(Word), done : BOOLEAN]
    <3>1. <<>> \in Seq(Word)  BY EmptySeq
    <3> QED  BY <2>1, <3>1 DEF Dialing, NoLine
  <2>4. Len(OnTheWay') = 0 /\ \A i \in 1 .. 0 : OnTheWay'[i] = OnTheWay[i + 1]
    BY <2>3, EmptySeq DEF OnTheWay
  <2>5. Later' /\ WillTell'  BY <1>1, <1>5, <2>3 DEF Later, WillTell
  <2> QED  BY <1>3, <1>4, <2>2, <2>3, <2>4, <2>5
<1>6. CASE ~(line.done /\ Len(line.frames) = 1)
  <2>1. line' = [line EXCEPT !.frames = Tail(@)]  BY <1>6 DEF Hear
  <2>2. /\ line' \in [at : {"off", "dial", "open"}, frames : Seq(Word), done : BOOLEAN]
        /\ line'.at = "open" /\ line'.done = line.done /\ OnTheWay' = Tail(OnTheWay)
    BY <1>1, <1>2, <2>1 DEF OnTheWay
  <2>3. Len(OnTheWay') = m /\ \A i \in 1 .. m : OnTheWay'[i] = OnTheWay[i + 1]
    BY <1>2, <1>3, <2>2
  <2>4. (Later => Later') /\ (WillTell => WillTell')
    BY <1>1, <1>4, <2>2 DEF Later, WillTell
  <2> QED  BY <1>1, <1>3, <1>4, <2>2, <2>3, <2>4
<1> QED  BY <1>5, <1>6

LEMMA HearKeeps ==
  ASSUME CInv, LInv, Hear
  PROVE  /\ LInv'
         /\ Head(OnTheWay).k = "streaming" => WakeShows'
         /\ Head(OnTheWay).k = "released" => ~WakeShows
<1>1. /\ line' \in [at : {"off", "dial", "open"}, frames : Seq(Word), done : BOOLEAN]
      /\ line'.at # "off" /\ (line'.at # "open" => line'.frames = <<>> /\ ~line'.done)
      /\ (line'.done => polling)
      /\ (Later => Later') /\ (WillTell => WillTell')
      /\ Running' = Running
  BY FrameHeard
<1>2. PICK m \in Nat : /\ Len(OnTheWay) = m + 1 /\ Len(OnTheWay') = m
                       /\ \A i \in 1 .. m : OnTheWay'[i] = OnTheWay[i + 1]
  BY FrameHeard
<1>3. PICK f : f = OnTheWay[1]  OBVIOUS
<1>4. /\ 1 \in 1 .. m + 1 /\ f = Head(OnTheWay) /\ f = Head(line.frames)
      /\ f.n \in Nat /\ f.k \in Words
      /\ showing \in Nat /\ seen \in Nat /\ wakes \in Nat
  <2>1. OnTheWay \in Seq(Word) /\ OnTheWay # <<>>  BY FrameFacts DEF Hear, OnTheWay
  <2>2. 1 \in 1 .. m + 1  OBVIOUS
  <2>3. f = Head(OnTheWay)  BY <1>3, <2>1, HeadTailProperties
  <2> QED  BY <1>2, <1>3, <2>2, <2>3, FrameFacts DEF OnTheWay
<1>5. /\ remote' = ((remote \/ f.k = "streaming") /\ f.k # "released")
      /\ showing' = IF f.k = "streaming" THEN f.n ELSE showing
      /\ seen' = IF f.k = "released" /\ showing > seen THEN showing ELSE seen
      /\ polling' = polling /\ wake' = wake /\ wakes' = wakes /\ ended' = ended /\ conv' = conv
      /\ convs' = convs /\ line.at = "open"
  BY <1>4 DEF Hear, server
<1>6. \A i \in 1 .. m : i + 1 \in 1 .. m + 1 /\ i + 1 > 1  OBVIOUS
<1>7. \A i \in 1 .. m + 1 : OnTheWay[i].k = "streaming" => Known(OnTheWay[i].n)
  BY <1>2 DEF LInv, AllKnown
<1>8. f.k = "streaming" => Known(f.n) /\ f.n <= wakes  BY <1>3, <1>4, <1>7 DEF Known
<1>9. LineTyped'
  <2>1. showing' \in 0 .. wakes /\ seen' \in 0 .. wakes
    <3>1. showing \in 0 .. wakes /\ seen \in 0 .. wakes  BY DEF LInv, LineTyped
    <3>2. f.k = "streaming" => f.n \in 0 .. wakes  BY <1>4, <1>8
    <3> QED  BY <1>5, <3>1, <3>2
  <2>2. conv # None  BY <1>5 DEF LInv, LineTyped
  <2> QED  BY <1>1, <1>5, <2>1, <2>2 DEF LInv, LineTyped, OnTheWay
<1>10. \A j \in 1 .. m : Fresh(j)' /\ f.k # "streaming" => Fresh(j + 1)
  <2>1. ASSUME NEW j \in 1 .. m, Fresh(j)', f.k # "streaming", NEW h \in 1 .. m + 1, h < j + 1
        PROVE  OnTheWay[h].k # "streaming"
    <3>1. CASE h = 1  BY <1>3, <2>1, <3>1
    <3>2. CASE h # 1
      <4>1. PICK g \in 1 .. m : h = g + 1
        <5>1. h - 1 \in 1 .. m /\ h = h - 1 + 1  BY <3>2
        <5> QED  BY <5>1
      <4>2. g < j  BY <2>1, <4>1
      <4> QED  BY <1>2, <2>1, <4>1, <4>2 DEF Fresh
    <3> QED  BY <3>1, <3>2
  <2> QED  BY <1>2, <2>1 DEF Fresh
<1>11. Fresh(1)
  <2>1. \A h \in 1 .. m + 1 : ~(h < 1)  OBVIOUS
  <2> QED  BY <1>2, <2>1 DEF Fresh
<1>12. AllKnown'
  <2>1. \A n \in Nat : Known(n) /\ (n > seen => n > seen') => Known(n)'
    BY <1>1, <1>5 DEF Known
  <2>2. ASSUME remote' PROVE Known(showing)'
    <3>1. seen' = seen /\ f.k # "released"  BY <1>5, <2>2
    <3>2. CASE f.k = "streaming"
      <4>1. PICK n \in Nat : n = f.n  BY <1>4
      <4>2. Known(n)'  BY <1>8, <2>1, <3>1, <3>2, <4>1
      <4>3. showing' = n  BY <1>5, <3>2, <4>1
      <4> QED  BY <4>2, <4>3 DEF Known
    <3>3. CASE f.k # "streaming"
      <4>1. remote /\ showing' = showing  BY <1>5, <2>2, <3>3
      <4>2. Known(showing)  BY <4>1 DEF LInv, AllKnown
      <4>3. PICK n \in Nat : n = showing  BY <1>4
      <4>4. Known(n)'  BY <2>1, <3>1, <4>2, <4>3
      <4>5. showing' = n  BY <4>1, <4>3
      <4> QED  BY <4>4, <4>5 DEF Known
    <3> QED  BY <3>2, <3>3
  <2>3. ASSUME NEW i \in 1 .. m, OnTheWay'[i].k = "streaming"
        PROVE  \E n \in Nat : n = OnTheWay'[i].n /\ Known(n)'
    <3>1. i + 1 \in 1 .. m + 1 /\ OnTheWay[i + 1].k = "streaming"  BY <1>2, <1>6, <2>3
    <3>2. PICK n \in Nat : n = OnTheWay[i + 1].n  BY <1>2, <3>1, FrameFacts
    <3>3. Known(n)  BY <1>7, <3>1, <3>2
    <3>4. n > seen'
      <4>1. n > seen  BY <3>3 DEF Known
      <4>2. CASE f.k = "released"
        <5>1. showing < n  BY <1>2, <1>3, <1>4, <1>6, <1>11, <3>1, <3>2, <4>2 DEF LInv, Behind
        <5> QED  BY <1>4, <1>5, <4>1, <5>1
      <4>3. CASE f.k # "released"  BY <1>5, <4>1, <4>3
      <4> QED  BY <4>2, <4>3
    <3>5. Known(n)'  BY <2>1, <3>3, <3>4
    <3> QED  BY <1>2, <3>2, <3>5
  <2> QED  BY <1>2, <2>2, <2>3 DEF AllKnown
<1>13. Numbered'
  <2>1. ASSUME NEW i \in 1 .. m, NEW j \in 1 .. m, j < i,
               OnTheWay'[i].k = "streaming", OnTheWay'[j].k = "streaming"
        PROVE  OnTheWay'[j].n < OnTheWay'[i].n
    <3>1. /\ i + 1 \in 1 .. m + 1 /\ j + 1 \in 1 .. m + 1 /\ j + 1 < i + 1
          /\ OnTheWay[i + 1].k = "streaming" /\ OnTheWay[j + 1].k = "streaming"
      BY <1>2, <1>6, <2>1
    <3>2. OnTheWay[j + 1].n < OnTheWay[i + 1].n  BY <1>2, <3>1 DEF LInv, Numbered
    <3>3. OnTheWay'[i] = OnTheWay[i + 1] /\ OnTheWay'[j] = OnTheWay[j + 1]  BY <1>2
    <3> QED  BY <3>2, <3>3
  <2> QED  BY <1>2, <2>1 DEF Numbered
<1>14. Behind'
  <2>1. ASSUME NEW i \in 1 .. m, NEW j \in 1 .. m, j < i,
               OnTheWay'[i].k = "streaming", OnTheWay'[j].k = "released", Fresh(j)'
        PROVE  showing' < OnTheWay'[i].n
    <3>1. /\ i + 1 \in 1 .. m + 1 /\ j + 1 \in 1 .. m + 1 /\ j + 1 < i + 1 /\ 1 < i + 1
          /\ OnTheWay[i + 1].k = "streaming" /\ OnTheWay[j + 1].k = "released"
          /\ OnTheWay'[i] = OnTheWay[i + 1]
      BY <1>2, <1>6, <2>1
    <3>2. CASE f.k = "streaming"
      <4>1. OnTheWay[1].n < OnTheWay[i + 1].n
        BY <1>2, <1>3, <1>4, <3>1, <3>2 DEF LInv, Numbered
      <4> QED  BY <1>3, <1>5, <3>1, <3>2, <4>1
    <3>3. CASE f.k # "streaming"
      <4>1. Fresh(j + 1)  BY <1>10, <2>1, <3>3
      <4>2. showing < OnTheWay[i + 1].n  BY <1>2, <3>1, <4>1 DEF LInv, Behind
      <4> QED  BY <1>5, <3>1, <3>3, <4>2
    <3> QED  BY <3>2, <3>3
  <2> QED  BY <1>2, <2>1 DEF Behind
<1>15. Passed'
  <2>1. SUFFICES ASSUME Running PROVE Passed'  BY <1>1 DEF Passed
  <2>2. /\ seen < wake.n
        /\ \A j \in 1 .. m + 1 : OnTheWay[j].k = "released" =>
             /\ \A h \in 1 .. m + 1 :
                  h < j /\ OnTheWay[h].k = "streaming" => OnTheWay[h].n < wake.n
             /\ Fresh(j) => showing < wake.n
    BY <1>2, <2>1 DEF LInv, Passed
  <2>3. seen' < wake'.n
    <3>1. f.k = "released" => showing < wake.n  BY <1>3, <1>4, <1>11, <2>2
    <3> QED  BY <1>5, <2>2, <3>1
  <2>4. ASSUME NEW j \in 1 .. m, OnTheWay'[j].k = "released",
               NEW h \in 1 .. m, h < j, OnTheWay'[h].k = "streaming"
        PROVE  OnTheWay'[h].n < wake.n
    <3>1. /\ j + 1 \in 1 .. m + 1 /\ h + 1 \in 1 .. m + 1 /\ h + 1 < j + 1
          /\ OnTheWay'[j] = OnTheWay[j + 1] /\ OnTheWay'[h] = OnTheWay[h + 1]
      BY <1>2, <1>6, <2>4
    <3> QED  BY <2>2, <2>4, <3>1
  <2>5. ASSUME NEW j \in 1 .. m, OnTheWay'[j].k = "released", Fresh(j)'
        PROVE  showing' < wake.n
    <3>1. j + 1 \in 1 .. m + 1 /\ OnTheWay'[j] = OnTheWay[j + 1] /\ 1 < j + 1
      BY <1>2, <1>6
    <3>2. CASE f.k = "streaming"
      <4>1. f.n < wake.n  BY <1>3, <1>4, <2>2, <2>5, <3>1, <3>2
      <4> QED  BY <1>5, <3>2, <4>1
    <3>3. CASE f.k # "streaming"
      <4>1. Fresh(j + 1)  BY <1>10, <2>5, <3>3
      <4>2. showing < wake.n  BY <2>2, <2>5, <3>1, <4>1
      <4> QED  BY <1>5, <3>3, <4>2
    <3> QED  BY <3>2, <3>3
  <2> QED  BY <1>2, <1>5, <2>3, <2>4, <2>5 DEF Passed
<1>16. \A i \in 0 .. m : Over(i + 1) => Over(i)'
  <2>1. ASSUME NEW i \in 0 .. m, NEW j \in 1 .. m + 1, j > i + 1, OnTheWay[j].k = "released"
        PROVE  Over(i)'
    <3>1. PICK g \in 1 .. m : j = g + 1
      <4>1. j - 1 \in 1 .. m /\ j = j - 1 + 1  BY <2>1
      <4> QED  BY <4>1
    <3>2. g > i /\ OnTheWay'[g].k = "released"  BY <1>2, <2>1, <3>1
    <3> QED  BY <1>2, <3>2 DEF Over
  <2> QED  BY <1>2, <2>1 DEF Over
<1>17. Held'
  <2>1. ASSUME remote' PROVE Over(0)' \/ Later'
    <3>1. f.k # "released"  BY <1>5, <2>1
    <3>2. CASE f.k = "streaming"
      <4>1. Over(1) \/ Later  BY <1>2, <1>3, <1>4, <3>2 DEF LInv, Held
      <4>2. 0 \in 0 .. m /\ 0 + 1 = 1  OBVIOUS
      <4> QED  BY <1>1, <1>16, <4>1, <4>2
    <3>3. CASE f.k # "streaming"
      <4>1. Over(0) \/ Later  BY <1>5, <2>1, <3>3 DEF LInv, Held
      <4>2. Over(0) => Over(1)
        <5>1. \A j \in 1 .. m + 1 : j > 1 \/ j = 1  OBVIOUS
        <5> QED  BY <1>2, <1>3, <3>1, <5>1 DEF Over
      <4>3. 0 \in 0 .. m /\ 0 + 1 = 1  OBVIOUS
      <4> QED  BY <1>1, <1>16, <4>1, <4>2, <4>3
    <3> QED  BY <3>2, <3>3
  <2>2. ASSUME NEW i \in 1 .. m, OnTheWay'[i].k = "streaming" PROVE Over(i)' \/ Later'
    <3>1. i + 1 \in 1 .. m + 1 /\ OnTheWay[i + 1].k = "streaming" /\ i \in 0 .. m
      BY <1>2, <1>6, <2>2
    <3>2. Over(i + 1) \/ Later  BY <1>2, <3>1 DEF LInv, Held
    <3> QED  BY <1>1, <1>16, <3>1, <3>2
  <2> QED  BY <1>2, <2>1, <2>2 DEF Held
<1>18. \A i \in 0 .. m : Idles(i + 1) => Idles(i)'
  <2>1. ASSUME NEW i \in 0 .. m, Idle(i + 1) PROVE Idle(i)'
    <3>1. PICK j \in 1 .. m + 1 :
            /\ j > i + 1 /\ OnTheWay[j].k = "idle"
            /\ \A h \in 1 .. m + 1 : i + 1 < h /\ h < j => OnTheWay[h].k # "released"
      BY <1>2, <2>1 DEF Idle
    <3>2. PICK g \in 1 .. m : j = g + 1
      <4>1. j - 1 \in 1 .. m /\ j = j - 1 + 1  BY <3>1
      <4> QED  BY <4>1
    <3>3. g > i /\ OnTheWay'[g].k = "idle"  BY <1>2, <3>1, <3>2
    <3>4. ASSUME NEW h \in 1 .. m, i < h, h < g PROVE OnTheWay'[h].k # "released"
      <4>1. h + 1 \in 1 .. m + 1 /\ i + 1 < h + 1 /\ h + 1 < j  BY <3>2, <3>4
      <4> QED  BY <1>2, <3>1, <4>1
    <3> QED  BY <1>2, <3>3, <3>4 DEF Idle
  <2>2. ASSUME NEW i \in 0 .. m, Unended(i + 1) PROVE Unended(i)'
    <3>1. ASSUME NEW j \in 1 .. m, j > i PROVE OnTheWay'[j].k # "released"
      <4>1. j + 1 \in 1 .. m + 1 /\ j + 1 > i + 1  BY <3>1
      <4> QED  BY <1>2, <2>2, <4>1 DEF Unended
    <3> QED  BY <1>2, <3>1 DEF Unended
  <2> QED  BY <1>1, <2>1, <2>2 DEF Idles
<1>19. Idled'
  <2>1. ASSUME NEW i \in 1 .. m, OnTheWay'[i].k = "streaming" PROVE Idles(i)'
    <3>1. i + 1 \in 1 .. m + 1 /\ OnTheWay[i + 1].k = "streaming" /\ i \in 0 .. m
      BY <1>2, <1>6, <2>1
    <3>2. Idles(i + 1)  BY <1>2, <3>1 DEF LInv, Idled
    <3> QED  BY <1>18, <3>1, <3>2
  <2> QED  BY <1>2, <2>1 DEF Idled
<1>20. ASSUME f.k = "streaming" PROVE WakeShows'
  <2>1. Idles(1)  BY <1>2, <1>3, <1>4, <1>20 DEF LInv, Idled
  <2>2. 0 \in 0 .. m /\ 0 + 1 = 1  OBVIOUS
  <2>3. Idles(0)'  BY <1>18, <2>1, <2>2
  <2> QED  BY <1>5, <1>20, <2>3 DEF WakeShows
<1>21. ASSUME f.k = "released" PROVE ~WakeShows
  <2>1. ~Unended(0)
    <3>1. 1 > 0  OBVIOUS
    <3> QED  BY <1>2, <1>3, <1>4, <1>21, <3>1 DEF Unended
  <2>2. ASSUME Idle(0) PROVE FALSE
    <3>1. PICK j \in 1 .. m + 1 :
            /\ OnTheWay[j].k = "idle"
            /\ \A h \in 1 .. m + 1 : 0 < h /\ h < j => OnTheWay[h].k # "released"
      BY <1>2, <2>2 DEF Idle
    <3>2. j # 1  BY <1>3, <1>21, <3>1
    <3>3. 0 < 1 /\ 1 < j  BY <3>2
    <3> QED  BY <1>3, <1>4, <1>21, <3>1, <3>3
  <2> QED  BY <2>1, <2>2 DEF WakeShows, Idles
<1>22. LInv'  BY <1>9, <1>12, <1>13, <1>14, <1>15, <1>17, <1>19 DEF LInv
<1> QED  BY <1>4, <1>20, <1>21, <1>22

\* Blocks of frames are sent one after the other.
Less == {ss \in Nat \X Nat : ss[1] < ss[2]}

LEMMA LeastOfAll ==
  ASSUME NEW S \in SUBSET Nat, S # {}
  PROVE  \E m \in S : \A k \in S : m <= k
<1>1. IsWellFoundedOn(Less, Nat)
  BY NatLessThanWellFounded DEF OpToRel, Less
<1>2. PICK m \in S : \A k \in S : <<k, m>> \notin Less
  BY <1>1, WFMin
<1>3. ASSUME NEW k \in S PROVE m <= k
  <2>1. m \in Nat /\ k \in Nat /\ <<k, m>> \notin Less  BY <1>2
  <2>2. ~(k < m)  BY <2>1 DEF Less
  <2> QED  BY <2>1, <2>2
<1> QED  BY <1>3

\* f joins up the first k of s, as FlattenSeq does.
Joins(f, k, s) == f = [i \in 1 .. k |-> IF i = 1 THEN s[i] ELSE f[i - 1] \o s[i]]

LEMMA JoinsAre ==
  ASSUME NEW f, NEW k, NEW s
  PROVE  Joins(f, k, s) <=> /\ f = [i \in 1 .. k |-> f[i]]
                            /\ \A i \in 1 .. k : f[i] = IF i = 1 THEN s[i] ELSE f[i - 1] \o s[i]
<1>1. ASSUME Joins(f, k, s)
      PROVE  /\ f = [i \in 1 .. k |-> f[i]]
             /\ \A i \in 1 .. k : f[i] = IF i = 1 THEN s[i] ELSE f[i - 1] \o s[i]
  <2>1. f = [i \in 1 .. k |-> IF i = 1 THEN s[i] ELSE f[i - 1] \o s[i]]  BY <1>1 DEF Joins
  <2>2. \A i \in 1 .. k : f[i] = IF i = 1 THEN s[i] ELSE f[i - 1] \o s[i]  BY <2>1
  <2> QED  BY <2>1, <2>2
<1>2. ASSUME /\ f = [i \in 1 .. k |-> f[i]]
             /\ \A i \in 1 .. k : f[i] = IF i = 1 THEN s[i] ELSE f[i - 1] \o s[i]
      PROVE  Joins(f, k, s)
  <2>1. [i \in 1 .. k |-> f[i]] = [i \in 1 .. k |-> IF i = 1 THEN s[i] ELSE f[i - 1] \o s[i]]
    BY <1>2
  <2> QED  BY <1>2, <2>1 DEF Joins
<1> QED  BY <1>1, <1>2

LEMMA JoinsExist ==
  ASSUME NEW s, NEW n \in Nat
  PROVE  \E f : Joins(f, n, s)
<1> DEFINE Without == {k \in Nat : ~ \E f : Joins(f, k, s)}
<1>1. SUFFICES ASSUME Without # {} PROVE FALSE
  OBVIOUS
<1>2. PICK k \in Without : \A j \in Without : k <= j
  <2> HIDE DEF Without
  <2>1. Without \in SUBSET Nat  BY DEF Without
  <2> QED  BY <1>1, <2>1, LeastOfAll
<1>3. CASE k = 0
  <2> DEFINE f == [i \in 1 .. 0 |-> 0]
  <2>1. Joins(f, 0, s)
    <3>1. f = [i \in 1 .. 0 |-> f[i]] /\ \A i \in 1 .. 0 : FALSE  OBVIOUS
    <3> HIDE DEF f
    <3> QED  BY <3>1, JoinsAre
  <2> QED  BY <1>3, <2>1
<1>4. CASE k # 0
  <2>1. k - 1 \in Nat /\ k - 1 \notin Without  BY <1>2, <1>4
  <2>2. PICK f : Joins(f, k - 1, s)  BY <2>1
  <2> DEFINE last == IF k = 1 THEN s[k] ELSE f[k - 1] \o s[k]
             g == [i \in 1 .. k |-> IF i = k THEN last ELSE f[i]]
  <2>3. \A i \in 1 .. k - 1 : f[i] = IF i = 1 THEN s[i] ELSE f[i - 1] \o s[i]
    BY <2>2, JoinsAre
  <2> HIDE DEF last
  <2>4. g = [i \in 1 .. k |-> g[i]] /\ g[k] = last /\ \A i \in 1 .. k - 1 : g[i] = f[i]
    BY <2>1
  <2> HIDE DEF g
  <2>5. ASSUME NEW i \in 1 .. k PROVE g[i] = IF i = 1 THEN s[i] ELSE g[i - 1] \o s[i]
    <3>1. CASE i = k
      <4>1. k # 1 => g[k - 1] = f[k - 1]
        <5>1. k # 1 => k - 1 \in 1 .. k - 1  BY <2>1, <1>4
        <5> QED  BY <2>4, <5>1
      <4> QED  BY <2>4, <3>1, <4>1 DEF last
    <3>2. CASE i # k
      <4>1. i \in 1 .. k - 1 /\ (i # 1 => i - 1 \in 1 .. k - 1)  BY <3>2
      <4> QED  BY <2>3, <2>4, <4>1
    <3> QED  BY <3>1, <3>2
  <2>6. Joins(g, k, s)  BY <2>4, <2>5, JoinsAre
  <2> QED  BY <2>6
<1> QED  BY <1>3, <1>4

LEMMA FlattenJoins ==
  ASSUME NEW s, Len(s) \in Nat, Len(s) # 0
  PROVE  \E f : Joins(f, Len(s), s) /\ FlattenSeq(s) = f[Len(s)]
<1> DEFINE flat == CHOOSE f : f = [i \in 1 .. Len(s) |-> IF i = 1 THEN s[i] ELSE f[i - 1] \o s[i]]
<1>1. FlattenSeq(s) = flat[Len(s)]  BY DEF FlattenSeq
<1>2. Joins(flat, Len(s), s)
  <2>1. PICK f : Joins(f, Len(s), s)  BY JoinsExist
  <2>2. f = [i \in 1 .. Len(s) |-> IF i = 1 THEN s[i] ELSE f[i - 1] \o s[i]]  BY <2>1 DEF Joins
  <2>3. flat = [i \in 1 .. Len(s) |-> IF i = 1 THEN s[i] ELSE flat[i - 1] \o s[i]]  BY <2>2
  <2> HIDE DEF flat
  <2> QED  BY <2>3 DEF Joins
<1> HIDE DEF flat
<1> QED  BY <1>1, <1>2

\* What a poll is sent of a turn that its browser has not seen end.
Block(n) == IF Missed(n) THEN WakeFrames(n, TRUE) \o <<Released(n)>> ELSE <<>>

LEMMA BlockIs ==
  ASSUME NEW n \in Nat
  PROVE  /\ Block(n) \in Seq(Word)
         /\ ~Missed(n) => Block(n) = <<>> /\ Len(Block(n)) = 0
         /\ Missed(n) =>
              /\ Len(Block(n)) = 3
              /\ Block(n)[1] = [k |-> "streaming", n |-> n]
              /\ Block(n)[2] = [k |-> "idle", n |-> n]
              /\ Block(n)[3] = [k |-> "released", n |-> n]
<1>1. PICK s, i, r : /\ s = [k |-> "streaming", n |-> n] /\ i = [k |-> "idle", n |-> n]
                     /\ r = [k |-> "released", n |-> n]
  OBVIOUS
<1>2. s \in Word /\ i \in Word /\ r \in Word  BY <1>1 DEF Word, Words
<1>3. WakeFrames(n, TRUE) \o <<Released(n)>> = (<<s>> \o <<i>>) \o <<r>>
  BY <1>1 DEF WakeFrames, Released
<1>4. PICK b : b = (<<s>> \o <<i>>) \o <<r>>  OBVIOUS
<1>5. b \in Seq(Word) /\ Len(b) = 3 /\ b[1] = s /\ b[2] = i /\ b[3] = r
  <2>1. /\ <<s>> \in Seq(Word) /\ Len(<<s>>) = 1 /\ <<s>>[1] = s
        /\ <<i>> \in Seq(Word) /\ Len(<<i>>) = 1 /\ <<i>>[1] = i
        /\ <<r>> \in Seq(Word) /\ Len(<<r>>) = 1 /\ <<r>>[1] = r
    BY <1>2
  <2>2. PICK x, y, z : x = <<s>> /\ y = <<i>> /\ z = <<r>>  OBVIOUS
  <2>3. PICK t : t = x \o y  OBVIOUS
  <2>4. t \in Seq(Word) /\ Len(t) = 2 /\ t[1] = s /\ t[2] = i
    <3>1. t \in Seq(Word) /\ Len(t) = 1 + 1
          /\ \A h \in 1 .. 1 + 1 : t[h] = IF h <= 1 THEN x[h] ELSE y[h - 1]
      BY <2>1, <2>2, <2>3, ConcatProperties
    <3>2. 1 \in 1 .. 1 + 1 /\ 2 \in 1 .. 1 + 1 /\ 2 - 1 = 1 /\ 1 <= 1 /\ ~(2 <= 1)  OBVIOUS
    <3>3. t[1] = x[1] /\ t[2] = y[1]  BY <3>1, <3>2
    <3> QED  BY <2>1, <2>2, <3>1, <3>3
  <2>5. b \in Seq(Word) /\ Len(b) = 2 + 1
        /\ \A h \in 1 .. 2 + 1 : b[h] = IF h <= 2 THEN t[h] ELSE z[h - 2]
    BY <1>4, <2>1, <2>2, <2>3, <2>4, ConcatProperties
  <2>6. /\ 1 \in 1 .. 2 + 1 /\ 2 \in 1 .. 2 + 1 /\ 3 \in 1 .. 2 + 1 /\ 3 - 2 = 1
        /\ 1 <= 2 /\ 2 <= 2 /\ ~(3 <= 2)
    OBVIOUS
  <2>7. b[1] = t[1] /\ b[2] = t[2] /\ b[3] = z[1]  BY <2>5, <2>6
  <2> QED  BY <2>1, <2>2, <2>4, <2>5, <2>7
<1>6. <<>> \in Seq(Word) /\ Len(<<>>) = 0  BY EmptySeq
<1>7. CASE Missed(n)
  <2>1. Block(n) = b  BY <1>3, <1>4, <1>7 DEF Block
  <2> QED  BY <1>1, <1>5, <1>7, <2>1
<1>8. CASE ~Missed(n)
  <2>1. Block(n) = <<>>  BY <1>8 DEF Block
  <2> QED  BY <1>6, <1>8, <2>1
<1> QED  BY <1>7, <1>8

\* The frames of the turns up to the k-th that it has not seen end.
Turned(fl, k) ==
  /\ fl \in Seq(Word)
  /\ \A i \in 1 .. Len(fl) : fl[i].k = "streaming" =>
       /\ fl[i].n \in 1 .. k /\ Missed(fl[i].n)
       /\ i + 1 \in 1 .. Len(fl) /\ fl[i + 1].k = "idle"
  /\ \A i, j \in 1 .. Len(fl) :
       j < i /\ fl[i].k = "streaming" /\ fl[j].k = "streaming" => fl[j].n < fl[i].n
  /\ Len(fl) # 0 => fl[1].k = "streaming"
  /\ \A n \in 1 .. k : Missed(n) => Len(fl) # 0

LEMMA TurnedOne == Turned(Block(1), 1)
<1>1. 1 \in Nat /\ 1 .. 1 = {1}  OBVIOUS
<1>2. CASE ~Missed(1)
  <2>1. Block(1) \in Seq(Word) /\ Len(Block(1)) = 0  BY <1>2, BlockIs
  <2>2. \A n \in 1 .. 1 : ~Missed(n)  BY <1>1, <1>2
  <2> QED  BY <2>1, <2>2 DEF Turned
<1>3. CASE Missed(1)
  <2>1. PICK b : b = Block(1)  OBVIOUS
  <2>2. /\ b \in Seq(Word) /\ Len(b) = 3 /\ b[1].k = "streaming" /\ b[1].n = 1
        /\ b[2].k = "idle" /\ b[3].k = "released"
    <3>1. /\ b \in Seq(Word) /\ Len(b) = 3
          /\ b[1] = [k |-> "streaming", n |-> 1]
          /\ b[2] = [k |-> "idle", n |-> 1]
          /\ b[3] = [k |-> "released", n |-> 1]
      BY <1>1, <1>3, <2>1, BlockIs
    <3> QED  BY <3>1
  <2>3. \A i \in 1 .. 3 : b[i].k = "streaming" => i = 1
    <3>1. \A i \in 1 .. 3 : i = 1 \/ i = 2 \/ i = 3  OBVIOUS
    <3> QED  BY <2>2, <3>1
  <2>4. 1 \in 1 .. 1 /\ 1 + 1 \in 1 .. 3 /\ 1 + 1 = 2  OBVIOUS
  <2>5. \A i \in 1 .. 3 : b[i].k = "streaming" =>
          /\ b[i].n \in 1 .. 1 /\ Missed(b[i].n)
          /\ i + 1 \in 1 .. 3 /\ b[i + 1].k = "idle"
    <3>1. ASSUME NEW i \in 1 .. 3, b[i].k = "streaming"
          PROVE  /\ b[i].n \in 1 .. 1 /\ Missed(b[i].n)
                 /\ i + 1 \in 1 .. 3 /\ b[i + 1].k = "idle"
      <4>1. i = 1  BY <2>3, <3>1
      <4> QED  BY <1>3, <2>2, <2>4, <4>1
    <3> QED  BY <3>1
  <2>6. Turned(b, 1)  BY <2>2, <2>3, <2>5 DEF Turned
  <2> QED  BY <2>1, <2>6
<1> QED  BY <1>2, <1>3

LEMMA TurnedOn ==
  ASSUME NEW fl, NEW k \in Nat, Turned(fl, k)
  PROVE  Turned(fl \o Block(k + 1), k + 1)
<1>1. PICK b, l, m, w : /\ b = Block(k + 1) /\ l = Len(fl) /\ m = Len(b)
                        /\ w = fl \o b
  OBVIOUS
<1>2. k + 1 \in Nat /\ \A n \in 1 .. k + 1 : n \in 1 .. k \/ n = k + 1  OBVIOUS
<1>3. /\ fl \in Seq(Word) /\ b \in Seq(Word) /\ l \in Nat /\ m \in Nat
      /\ \A i \in 1 .. l : fl[i].k = "streaming" =>
           /\ fl[i].n \in 1 .. k /\ Missed(fl[i].n)
           /\ i + 1 \in 1 .. l /\ fl[i + 1].k = "idle"
      /\ \A i, j \in 1 .. l :
           j < i /\ fl[i].k = "streaming" /\ fl[j].k = "streaming" => fl[j].n < fl[i].n
      /\ l # 0 => fl[1].k = "streaming"
      /\ \A n \in 1 .. k : Missed(n) => l # 0
  BY <1>1, <1>2, BlockIs, LenProperties DEF Turned
<1>4. /\ w \in Seq(Word) /\ Len(w) = l + m
      /\ \A i \in 1 .. l + m : w[i] = IF i <= l THEN fl[i] ELSE b[i - l]
  BY <1>1, <1>3, ConcatProperties
<1>5. CASE ~Missed(k + 1)
  <2>1. m = 0  BY <1>1, <1>2, <1>5, BlockIs
  <2>2. Len(w) = l /\ \A i \in 1 .. l : w[i] = fl[i]
    <3>1. l + m = l /\ \A i \in 1 .. l : i <= l  BY <1>3, <2>1
    <3> QED  BY <1>4, <3>1
  <2>3. \A i \in 1 .. l : w[i].k = "streaming" =>
          /\ w[i].n \in 1 .. k + 1 /\ Missed(w[i].n)
          /\ i + 1 \in 1 .. l /\ w[i + 1].k = "idle"
    <3>1. \A n \in 1 .. k : n \in 1 .. k + 1  OBVIOUS
    <3> QED  BY <1>3, <2>2, <3>1
  <2>4. l # 0 => w[1].k = "streaming"
    <3>1. l # 0 => 1 \in 1 .. l  BY <1>3
    <3> QED  BY <1>3, <2>2, <3>1
  <2>5. \A n \in 1 .. k + 1 : Missed(n) => l # 0  BY <1>2, <1>3, <1>5
  <2>6. \A i, j \in 1 .. l :
          j < i /\ w[i].k = "streaming" /\ w[j].k = "streaming" => w[j].n < w[i].n
    BY <1>3, <2>2
  <2>7. Turned(w, k + 1)  BY <1>4, <2>2, <2>3, <2>4, <2>5, <2>6 DEF Turned
  <2> QED  BY <1>1, <2>7
<1>6. CASE Missed(k + 1)
  <2>1. /\ m = 3 /\ b[1].k = "streaming" /\ b[1].n = k + 1
        /\ b[2].k = "idle" /\ b[3].k = "released"
    <3>1. PICK n \in Nat : n = k + 1  BY <1>2
    <3>2. /\ Len(b) = 3
          /\ b[1] = [k |-> "streaming", n |-> n]
          /\ b[2] = [k |-> "idle", n |-> n]
          /\ b[3] = [k |-> "released", n |-> n]
      BY <1>1, <1>6, <3>1, BlockIs
    <3> QED  BY <1>1, <3>1, <3>2
  <2>2. Len(w) = l + 3 /\ \A i \in 1 .. l : i \in 1 .. l + 3 /\ w[i] = fl[i]
    <3>1. \A i \in 1 .. l : i <= l /\ i \in 1 .. l + 3  BY <1>3
    <3> QED  BY <1>4, <2>1, <3>1
  <2>3. /\ l + 1 \in 1 .. l + 3 /\ w[l + 1].k = "streaming" /\ w[l + 1].n = k + 1
        /\ l + 1 + 1 \in 1 .. l + 3 /\ w[l + 1 + 1].k = "idle" /\ w[l + 3].k = "released"
    <3>1. /\ l + 1 \in 1 .. l + 3 /\ l + 1 + 1 \in 1 .. l + 3 /\ l + 3 \in 1 .. l + 3
          /\ l + 1 - l = 1 /\ l + 1 + 1 - l = 2 /\ l + 3 - l = 3
          /\ ~(l + 1 <= l) /\ ~(l + 1 + 1 <= l) /\ ~(l + 3 <= l)
      BY <1>3
    <3>2. \A i \in 1 .. l + 3 : ~(i <= l) => w[i] = b[i - l]  BY <1>4, <2>1
    <3>3. PICK x, y, z : x = l + 1 /\ y = l + 1 + 1 /\ z = l + 3  OBVIOUS
    <3>4. /\ x \in 1 .. l + 3 /\ y \in 1 .. l + 3 /\ z \in 1 .. l + 3
          /\ x - l = 1 /\ y - l = 2 /\ z - l = 3
          /\ ~(x <= l) /\ ~(y <= l) /\ ~(z <= l)
      <4>1. l \in Nat  BY <1>3
      <4> QED  BY ONLY <3>3, <4>1
    <3>5. w[x] = b[1] /\ w[y] = b[2] /\ w[z] = b[3]
      BY ONLY <3>2, <3>4
    <3>6. w[l + 1] = b[1] /\ w[l + 1 + 1] = b[2] /\ w[l + 3] = b[3]  BY <3>3, <3>5
    <3> QED  BY <2>1, <3>1, <3>6
  <2>4. ASSUME NEW i \in 1 .. l + 3, w[i].k = "streaming" PROVE i \in 1 .. l \/ i = l + 1
    <3>1. i \in 1 .. l \/ i = l + 1 \/ i = l + 1 + 1 \/ i = l + 3  BY <1>3
    <3> QED  BY <2>3, <2>4, <3>1
  <2>5. ASSUME NEW i \in 1 .. l + 3, w[i].k = "streaming"
        PROVE  /\ w[i].n \in 1 .. k + 1 /\ Missed(w[i].n)
               /\ i + 1 \in 1 .. l + 3 /\ w[i + 1].k = "idle"
    <3>1. CASE i \in 1 .. l
      <4>1. fl[i].k = "streaming"  BY <2>2, <2>5, <3>1
      <4>2. fl[i].n \in 1 .. k /\ Missed(fl[i].n) /\ i + 1 \in 1 .. l /\ fl[i + 1].k = "idle"
        BY <1>3, <3>1, <4>1
      <4>3. \A n \in 1 .. k : n \in 1 .. k + 1  OBVIOUS
      <4> QED  BY <2>2, <3>1, <4>2, <4>3
    <3>2. CASE i = l + 1
      <4>1. k + 1 \in 1 .. k + 1  OBVIOUS
      <4> QED  BY <1>6, <2>3, <3>2, <4>1
    <3> QED  BY <2>4, <2>5, <3>1, <3>2
  <2>6. ASSUME NEW i \in 1 .. l + 3, NEW j \in 1 .. l + 3, j < i,
               w[i].k = "streaming", w[j].k = "streaming"
        PROVE  w[j].n < w[i].n
    <3>1. j \in 1 .. l
      <4>1. i \in 1 .. l \/ i = l + 1  BY <2>4, <2>6
      <4> QED  BY <1>3, <2>6, <4>1
    <3>2. CASE i \in 1 .. l  BY <1>3, <2>2, <2>6, <3>1, <3>2
    <3>3. CASE i = l + 1
      <4>1. w[j].n \in 1 .. k  BY <1>3, <2>2, <2>6, <3>1
      <4>2. w[i].n = k + 1  BY <2>3, <3>3
      <4>3. \A n \in 1 .. k : n < k + 1  OBVIOUS
      <4> QED  BY <4>1, <4>2, <4>3
    <3> QED  BY <2>4, <2>6, <3>2, <3>3
  <2>7. w[1].k = "streaming"
    <3>1. CASE l = 0
      <4>1. l + 1 = 1  BY <3>1
      <4> QED  BY <2>3, <4>1
    <3>2. CASE l # 0
      <4>1. 1 \in 1 .. l  BY <1>3, <3>2
      <4> QED  BY <1>3, <2>2, <3>2, <4>1
    <3> QED  BY <3>1, <3>2
  <2>8. l + 3 # 0  BY <1>3
  <2>9. Turned(w, k + 1)
    <3>1. PICK n \in Nat : n = l + 3  BY <1>3
    <3>2. Len(w) = n /\ n # 0  BY <2>2, <2>8, <3>1
    <3> HIDE <2>2
    <3>3. \A i \in 1 .. n : w[i].k = "streaming" =>
            /\ w[i].n \in 1 .. k + 1 /\ Missed(w[i].n)
            /\ i + 1 \in 1 .. n /\ w[i + 1].k = "idle"
      BY <2>5, <3>1
    <3>4. \A i, j \in 1 .. n :
            j < i /\ w[i].k = "streaming" /\ w[j].k = "streaming" => w[j].n < w[i].n
      BY <2>6, <3>1
    <3> QED  BY <1>4, <2>7, <3>2, <3>3, <3>4 DEF Turned
  <2> QED  BY <1>1, <2>9
<1> QED  BY <1>5, <1>6

LEMMA TurnedAll ==
  ASSUME NEW k \in Nat
  PROVE  Turned(FlattenSeq([n \in 1 .. k |-> Block(n)]), k)
<1>1. PICK s : s = [n \in 1 .. k |-> Block(n)]  OBVIOUS
<1>2. Len(s) = k
  <2>1. \A n \in 1 .. k : Block(n) \in Seq(Word)
    <3>1. \A n \in 1 .. k : n \in Nat  OBVIOUS
    <3> QED  BY <3>1, BlockIs
  <2>2. s \in [1 .. k -> Seq(Word)]  BY <1>1, <2>1
  <2>3. DOMAIN s = 1 .. k /\ s \in Seq(Seq(Word))  BY <2>2, SeqDef
  <2> QED  BY <2>3, LenProperties
<1>3. CASE k = 0
  <2>1. FlattenSeq(s) = s  BY <1>2, <1>3 DEF FlattenSeq
  <2>2. s = <<>>  BY <1>1, <1>2, <1>3
  <2>3. <<>> \in Seq(Word) /\ Len(<<>>) = 0 /\ \A i \in 1 .. 0 : FALSE  BY EmptySeq
  <2>4. Turned(<<>>, 0)  BY <2>3 DEF Turned
  <2> QED  BY <1>1, <1>3, <2>1, <2>2, <2>4
<1>4. CASE k # 0
  <2>1. PICK f : Joins(f, k, s) /\ FlattenSeq(s) = f[k]  BY <1>2, <1>4, FlattenJoins
  <2>2. \A i \in 1 .. k : f[i] = IF i = 1 THEN s[i] ELSE f[i - 1] \o s[i]  BY <2>1, JoinsAre
  <2> DEFINE Wrong == {i \in 1 .. k : ~Turned(f[i], i)}
  <2>3. Wrong = {}
    <3>1. SUFFICES ASSUME Wrong # {} PROVE FALSE
      OBVIOUS
    <3>2. PICK i \in Wrong : \A j \in Wrong : i <= j
      <4> HIDE DEF Wrong
      <4>1. Wrong \in SUBSET Nat  BY DEF Wrong
      <4> QED  BY <3>1, <4>1, LeastOfAll
    <3>3. i \in 1 .. k /\ ~Turned(f[i], i)  OBVIOUS
    <3>4. s[i] = Block(i)  BY <1>1, <3>3
    <3>5. CASE i = 1
      <4>1. f[1] = Block(1)  BY <2>2, <3>3, <3>4, <3>5
      <4> QED  BY <3>3, <3>5, <4>1, TurnedOne
    <3>6. CASE i # 1
      <4>1. PICK j \in 1 .. k : i = j + 1
        <5>1. i - 1 \in 1 .. k /\ i = i - 1 + 1  BY <3>3, <3>6
        <5> QED  BY <5>1
      <4>2. ~(i <= j)  BY <4>1
      <4>3. j \notin Wrong  BY <3>2, <4>2
      <4>4. Turned(f[j], j)  BY <4>3
      <4>5. i - 1 = j /\ j \in Nat  BY <4>1
      <4>6. f[i] = f[j] \o Block(j + 1)  BY <2>2, <3>3, <3>4, <3>6, <4>1, <4>5
      <4>7. Turned(f[j] \o Block(j + 1), j + 1)  BY <4>4, <4>5, TurnedOn
      <4> QED  BY <3>3, <4>1, <4>6, <4>7
    <3> QED  BY <3>5, <3>6
  <2>4. k \in 1 .. k /\ k \notin Wrong  BY <1>4, <2>3
  <2>5. Turned(f[k], k)  BY <2>4
  <2> QED  BY <1>1, <2>1, <2>5
<1> QED  BY <1>3, <1>4

\* A poll is sent the turns missed, and then that none is running.
PollSaid(fs, m) ==
  /\ fs \in Seq(Word)
  /\ \A i \in 1 .. m : fs[i].k = "streaming" =>
       /\ Missed(fs[i].n) /\ fs[i].n <= wakes
       /\ \E j \in 1 .. m : j > i /\ fs[j].k = "released"
       /\ \E j \in 1 .. m :
            /\ j > i /\ fs[j].k = "idle"
            /\ \A h \in 1 .. m : i < h /\ h < j => fs[h].k # "released"
  /\ \A i, j \in 1 .. m :
       j < i /\ fs[i].k = "streaming" /\ fs[j].k = "streaming" => fs[j].n < fs[i].n
  /\ \A i, j \in 1 .. m :
       j < i /\ fs[i].k = "streaming" /\ fs[j].k = "released" =>
         \E h \in 1 .. m : h < j /\ fs[h].k = "streaming"
  /\ \E j \in 1 .. m : j > 0 /\ fs[j].k = "released"
  /\ \A n \in 1 .. wakes : Missed(n) =>
       \E j \in 1 .. m :
         /\ j > 0 /\ fs[j].k = "idle"
         /\ \A h \in 1 .. m : 0 < h /\ h < j => fs[h].k # "released"

LEMMA PollSent ==
  ASSUME LInv, NEW fl, Turned(fl, wakes), NEW fs, fs = fl \o <<Released(0)>>,
         NEW n, n = Len(fs)
  PROVE  PollSaid(fs, n)
<1>1. PICK l : l = Len(fl)  OBVIOUS
<1>2. /\ fl \in Seq(Word) /\ l \in Nat /\ wakes \in Nat
      /\ \A i \in 1 .. l : fl[i].k = "streaming" =>
           /\ fl[i].n \in 1 .. wakes /\ Missed(fl[i].n)
           /\ i + 1 \in 1 .. l /\ fl[i + 1].k = "idle"
      /\ \A i, j \in 1 .. l :
           j < i /\ fl[i].k = "streaming" /\ fl[j].k = "streaming" => fl[j].n < fl[i].n
      /\ l # 0 => fl[1].k = "streaming"
      /\ \A k \in 1 .. wakes : Missed(k) => l # 0
  BY <1>1, LenProperties, FrameFacts DEF Turned
<1>3. PICK r, t : r = Released(0) /\ t = <<r>>  OBVIOUS
<1>4. r \in Word /\ r.k = "released"  BY <1>3 DEF Released, Word, Words
<1>5. t \in Seq(Word) /\ Len(t) = 1 /\ t[1] = r  BY <1>3, <1>4
<1>6. /\ fs \in Seq(Word) /\ Len(fs) = l + 1
      /\ \A i \in 1 .. l + 1 : fs[i] = IF i <= l THEN fl[i] ELSE t[i - l]
  BY <1>1, <1>2, <1>3, <1>5, ConcatProperties
<1>7. \A i \in 1 .. l : i \in 1 .. l + 1 /\ i < l + 1 /\ fs[i] = fl[i]
  <2>1. \A i \in 1 .. l : i \in 1 .. l + 1 /\ i < l + 1 /\ i <= l  BY <1>2
  <2> QED  BY <1>6, <2>1
<1>8. l + 1 \in 1 .. l + 1 /\ fs[l + 1].k = "released"
  <2>1. PICK q : q = l + 1  OBVIOUS
  <2>2. q \in 1 .. l + 1 /\ ~(q <= l) /\ q - l = 1  BY <1>2, <2>1
  <2>3. fs[q] = t[1]
    <3>1. fs[q] = t[q - l]  BY <1>6, <2>2
    <3> QED  BY <2>2, <3>1
  <2> QED  BY <1>4, <1>5, <2>1, <2>2, <2>3
<1>9. n = l + 1 /\ n \in Nat  BY <1>2, <1>6
<1>10. /\ Len(fs) = n /\ n \in 1 .. n /\ fs[n].k = "released"
       /\ \A i \in 1 .. l : i \in 1 .. n /\ i < n /\ fs[i] = fl[i]
       /\ \A i \in 1 .. n : i \in 1 .. l \/ i = n
  <2>1. \A i \in 1 .. l + 1 : i \in 1 .. l \/ i = l + 1  BY <1>2
  <2> QED  BY <1>6, <1>7, <1>8, <1>9, <2>1
<1>11. ASSUME NEW i \in 1 .. n, fs[i].k = "streaming"
       PROVE  i \in 1 .. l /\ fl[i].k = "streaming" /\ fs[i] = fl[i]
  BY <1>10, <1>11
<1>12. ASSUME NEW i \in 1 .. n, fs[i].k = "streaming"
       PROVE  /\ Missed(fs[i].n) /\ fs[i].n <= wakes
              /\ \E j \in 1 .. n : j > i /\ fs[j].k = "released"
              /\ \E j \in 1 .. n :
                   /\ j > i /\ fs[j].k = "idle"
                   /\ \A h \in 1 .. n : i < h /\ h < j => fs[h].k # "released"
  <2>1. i \in 1 .. l /\ fl[i].k = "streaming" /\ fs[i] = fl[i]  BY <1>11, <1>12
  <2>2. fl[i].n \in 1 .. wakes /\ Missed(fl[i].n) /\ i + 1 \in 1 .. l /\ fl[i + 1].k = "idle"
    BY <1>2, <2>1
  <2>3. i < n  BY <1>10, <2>1
  <2>4. n > i  BY <1>9, <2>3
  <2>5. i + 1 > i /\ \A h \in 1 .. n : ~(i < h /\ h < i + 1)  OBVIOUS
  <2>6. i + 1 \in 1 .. n /\ fs[i + 1].k = "idle"  BY <1>10, <2>2
  <2>7. fs[i].n <= wakes
    <3>1. \A q \in 1 .. wakes : q <= wakes  BY <1>2
    <3> QED  BY <2>1, <2>2, <3>1
  <2> QED  BY <1>10, <2>1, <2>2, <2>4, <2>5, <2>6, <2>7
<1>13. ASSUME NEW i \in 1 .. n, NEW j \in 1 .. n, j < i,
              fs[i].k = "streaming", fs[j].k = "streaming"
       PROVE  fs[j].n < fs[i].n
  <2>1. /\ i \in 1 .. l /\ fl[i].k = "streaming" /\ fs[i] = fl[i]
        /\ j \in 1 .. l /\ fl[j].k = "streaming" /\ fs[j] = fl[j]
    BY <1>11, <1>13
  <2> QED  BY <1>2, <1>13, <2>1
<1>14. ASSUME NEW i \in 1 .. n, NEW j \in 1 .. n, j < i,
              fs[i].k = "streaming", fs[j].k = "released"
       PROVE  \E h \in 1 .. n : h < j /\ fs[h].k = "streaming"
  <2>1. i \in 1 .. l  BY <1>11, <1>14
  <2>2. l # 0 /\ 1 \in 1 .. l  BY <1>2, <2>1
  <2>3. fs[1].k = "streaming" /\ 1 \in 1 .. n  BY <1>2, <1>10, <2>2
  <2>4. j # 1  BY <1>14, <2>3
  <2>5. 1 < j  BY <2>4
  <2> QED  BY <2>3, <2>5
<1>15. \E j \in 1 .. n : j > 0 /\ fs[j].k = "released"
  <2>1. n > 0  BY <1>2, <1>9
  <2> QED  BY <1>10, <2>1
<1>16. ASSUME NEW k \in 1 .. wakes, Missed(k)
       PROVE  \E j \in 1 .. n :
                /\ j > 0 /\ fs[j].k = "idle"
                /\ \A h \in 1 .. n : 0 < h /\ h < j => fs[h].k # "released"
  <2>1. l # 0  BY <1>2, <1>16
  <2>2. 1 \in 1 .. l /\ fl[1].k = "streaming"  BY <1>2, <2>1
  <2>3. 1 + 1 \in 1 .. l /\ fl[1 + 1].k = "idle"  BY <1>2, <2>2
  <2>4. /\ 1 + 1 \in 1 .. n /\ fs[1 + 1].k = "idle" /\ fs[1].k = "streaming"
    BY <1>10, <2>2, <2>3
  <2>5. \A h \in 1 .. n : 0 < h /\ h < 1 + 1 => h = 1  OBVIOUS
  <2>6. 1 + 1 > 0  OBVIOUS
  <2> QED  BY <2>4, <2>5, <2>6
<1>17. \A i \in 1 .. n : fs[i].k = "streaming" =>
         /\ Missed(fs[i].n) /\ fs[i].n <= wakes
         /\ \E j \in 1 .. n : j > i /\ fs[j].k = "released"
         /\ \E j \in 1 .. n :
              /\ j > i /\ fs[j].k = "idle"
              /\ \A h \in 1 .. n : i < h /\ h < j => fs[h].k # "released"
  BY <1>12
<1>18. \A i, j \in 1 .. n :
         j < i /\ fs[i].k = "streaming" /\ fs[j].k = "streaming" => fs[j].n < fs[i].n
  BY <1>13
<1>19. \A i, j \in 1 .. n :
         j < i /\ fs[i].k = "streaming" /\ fs[j].k = "released" =>
           \E h \in 1 .. n : h < j /\ fs[h].k = "streaming"
  BY SMTT(20), <1>14
<1>20. \A k \in 1 .. wakes : Missed(k) =>
         \E j \in 1 .. n :
           /\ j > 0 /\ fs[j].k = "idle"
           /\ \A h \in 1 .. n : 0 < h /\ h < j => fs[h].k # "released"
  BY <1>16
<1> QED  BY ONLY <1>6, <1>15, <1>17, <1>18, <1>19, <1>20 DEF PollSaid

LEMMA ConnectKeeps ==
  ASSUME CInv, LInv, Connect, UNCHANGED convs
  PROVE  LInv' /\ (WakeShows => WakeShows')
<1>1. /\ line.at = "dial" /\ remote' = remote /\ polling' = polling /\ showing' = showing
      /\ seen' = seen /\ wake' = wake /\ wakes' = wakes /\ ended' = ended /\ conv' = conv
      /\ convs' = convs
      /\ line' = [at |-> "open", frames |-> Replay, done |-> FALSE]
  BY DEF Connect, chat, server
<1>2. PICK fs : fs = Replay  OBVIOUS
<1>3. /\ line'.at = "open" /\ line'.done = FALSE /\ OnTheWay' = fs
      /\ fs \in Seq(Word) =>
           line' \in [at : {"off", "dial", "open"}, frames : Seq(Word), done : BOOLEAN]
  BY <1>1, <1>2 DEF OnTheWay
<1>4. OnTheWay = <<>> /\ ~line.done /\ conv # None  BY <1>1 DEF LInv, LineTyped
<1>5. /\ wake.n \in Nat /\ seen \in Nat /\ showing \in Nat /\ wakes \in Nat /\ wake.n <= wakes
      /\ showing <= wakes
  BY FrameFacts DEF LInv, LineTyped
<1>6. fs \in Seq(Word) => LineTyped'
  BY <1>1, <1>3, <1>4 DEF LInv, LineTyped
<1>7. Running' = Running /\ \A n \in Nat : Known(n) => Known(n)'
  BY <1>1 DEF Running, Known
<1>8. remote' => Known(showing)'
  <2>1. remote => Known(showing)  BY DEF LInv, AllKnown
  <2>2. Known(showing)' <=> Known(showing)  BY <1>1 DEF Known, Running
  <2> QED  BY <1>1, <2>1, <2>2
<1>9. \A j \in 1 .. Len(OnTheWay) : FALSE
  <2>1. Len(OnTheWay) = 0  BY <1>4, EmptySeq
  <2> QED  BY <2>1
<1>10. ~Over(0) /\ ~Idle(0) /\ (Later <=> polling) /\ (WillTell <=> polling)
  BY <1>1, <1>4, <1>9 DEF Over, Idle, Later, WillTell
<1>11. CASE Running
  <2>1. PICK n, s, i : /\ n = wake.n /\ s = [k |-> "streaming", n |-> n]
                       /\ i = [k |-> "idle", n |-> n]
    OBVIOUS
  <2>2. n \in Nat /\ s \in Word /\ i \in Word  BY <1>5, <2>1 DEF Word, Words
  <2>3. /\ fs \in Seq(Word) /\ Len(fs) = IF wake.told THEN 2 ELSE 1
        /\ fs[1] = s /\ (wake.told => fs[2] = i)
    <3>1. fs = <<s>> \o (IF wake.told THEN <<i>> ELSE <<>>)
      BY <1>2, <1>11, <2>1 DEF Replay, Running, WakeFrames
    <3>2. PICK x, y, e : x = <<s>> /\ y = <<i>> /\ e = <<>>  OBVIOUS
    <3>3. /\ x \in Seq(Word) /\ Len(x) = 1 /\ x[1] = s
          /\ y \in Seq(Word) /\ Len(y) = 1 /\ y[1] = i
      BY <2>2, <3>2
    <3>4. CASE wake.told
      <4>1. fs = x \o y  BY <3>1, <3>2, <3>4
      <4>2. fs \in Seq(Word) /\ Len(fs) = 1 + 1
            /\ \A h \in 1 .. 1 + 1 : fs[h] = IF h <= 1 THEN x[h] ELSE y[h - 1]
        <5>1. /\ fs \in Seq(Word) /\ Len(fs) = Len(x) + Len(y)
              /\ \A h \in 1 .. Len(x) + Len(y) : fs[h] = IF h <= Len(x) THEN x[h] ELSE y[h - Len(x)]
          BY ONLY <3>3, <4>1, ConcatProperties
        <5> QED  BY ONLY <3>3, <5>1
      <4>3. 1 \in 1 .. 1 + 1 /\ 2 \in 1 .. 1 + 1 /\ 2 - 1 = 1 /\ 1 <= 1 /\ ~(2 <= 1)  OBVIOUS
      <4>4. fs[1] = x[1] /\ fs[2] = y[1]  BY <4>2, <4>3
      <4> QED  BY <3>3, <3>4, <4>2, <4>4
    <3>5. CASE ~wake.told
      <4>1. fs = x \o e  BY <3>1, <3>2, <3>5
      <4>2. fs = x  BY <3>2, <3>3, <4>1, ConcatEmptySeq
      <4> QED  BY <3>3, <3>5, <4>2
    <3> QED  BY <3>4, <3>5
  <2>4. PICK m : m = Len(fs)  OBVIOUS
  <2>5. /\ m \in {1, 2} /\ fs[1].k = "streaming" /\ fs[1].n = n
        /\ (wake.told => m = 2 /\ fs[2].k = "idle") /\ (~wake.told => m = 1)
        /\ \A h \in 1 .. m : fs[h].k # "released"
        /\ \A h \in 1 .. m : fs[h].k = "streaming" => h = 1
    <3>1. \A h \in 1 .. m : h = 1 \/ (wake.told /\ h = 2)  BY <2>3, <2>4
    <3>2. /\ m \in {1, 2} /\ fs[1].k = "streaming" /\ fs[1].n = n
          /\ (wake.told => m = 2 /\ fs[2].k = "idle") /\ (~wake.told => m = 1)
      BY <2>1, <2>3, <2>4
    <3> QED  BY <3>1, <3>2
  <2>6. OnTheWay' = fs /\ Len(OnTheWay') = m  BY <1>3, <2>4
  <2>7. Later'  BY <1>3, <1>7, <1>11 DEF Later
  <2>8. \A j \in 0 .. 1 : Idles(j)'
    <3>1. CASE wake.told
      <4>1. 2 \in 1 .. m /\ \A j \in 0 .. 1 : 2 > j  BY <2>5, <3>1
      <4>2. \A j \in 0 .. 1 : Idle(j)'  BY <2>5, <2>6, <3>1, <4>1 DEF Idle
      <4> QED  BY <4>2 DEF Idles
    <3>2. CASE ~wake.told
      <4>1. WillTell'  BY <1>1, <1>3, <1>7, <1>11, <3>2 DEF WillTell
      <4>2. \A j \in 0 .. 1 : Unended(j)'  BY <2>5, <2>6 DEF Unended
      <4> QED  BY <4>1, <4>2 DEF Idles
    <3> QED  BY <3>1, <3>2
  <2>9. AllKnown'
    <3>1. n > seen  BY <1>5, <1>11, <2>1 DEF LInv, Passed
    <3>2. Known(n)'  BY <1>1, <1>5, <1>7, <1>11, <2>1, <3>1 DEF Known
    <3>3. \A h \in 1 .. m : fs[h].k = "streaming" => fs[h].n = n  BY <2>5
    <3>4. \A h \in 1 .. m : OnTheWay'[h].k = "streaming" => OnTheWay'[h].n = n  BY <2>6, <3>3
    <3> QED  BY <1>8, <2>6, <3>2, <3>4 DEF AllKnown
  <2>10. Numbered' /\ Behind'
    <3>1. \A h, j \in 1 .. m :
            ~(j < h /\ fs[h].k = "streaming" /\ fs[j].k = "streaming")
      BY <2>5
    <3> QED  BY <2>5, <2>6, <3>1 DEF Numbered, Behind
  <2>11. Passed'
    <3>1. Running => seen < wake.n  BY DEF LInv, Passed
    <3> QED  BY <1>1, <1>7, <2>5, <2>6, <3>1 DEF Passed
  <2>12. Held'  BY <2>7 DEF Held
  <2>13. Idled'
    <3>1. \A h \in 1 .. m : fs[h].k = "streaming" => h \in 0 .. 1  BY <2>5
    <3> QED  BY <2>6, <2>8, <3>1 DEF Idled
  <2>14. WakeShows => WakeShows'
    <3>1. 0 \in 0 .. 1  OBVIOUS
    <3> QED  BY <1>1, <2>8, <3>1 DEF WakeShows
  <2> QED  BY <1>6, <2>3, <2>9, <2>10, <2>11, <2>12, <2>13, <2>14 DEF LInv
<1>12. CASE ~Running /\ polling
  <2>1. PICK fl : fl = FlattenSeq([n \in 1 .. wakes |-> Block(n)])  OBVIOUS
  <2>2. fs = fl \o <<Released(0)>>
    BY <1>2, <1>12, <2>1 DEF Replay, Running, Block
  <2>3. Turned(fl, wakes)  BY <1>5, <2>1, TurnedAll
  <2>4. PICK m : m = Len(fs)  OBVIOUS
  <2>5. PollSaid(fs, m)  BY <2>2, <2>3, <2>4, PollSent
  <2>6. OnTheWay' = fs /\ Len(OnTheWay') = m  BY <1>3, <2>4
  <2>7. AllKnown'
    <3>1. ASSUME NEW h \in 1 .. m, fs[h].k = "streaming"
          PROVE  \E n \in Nat : n = fs[h].n /\ Known(n)'
      <4>1. PICK n \in Nat : n = fs[h].n
        <5>1. fs[h] \in Word  BY <2>4, <2>5, ElementOfSeq DEF PollSaid
        <5> QED  BY <5>1 DEF Word
      <4>2. Missed(n) /\ n <= wakes  BY <2>5, <3>1, <4>1 DEF PollSaid
      <4>3. Known(n)'  BY <1>1, <4>2 DEF Known, Missed
      <4> QED  BY <4>1, <4>3
    <3>2. \A h \in 1 .. m : OnTheWay'[h].k = "streaming" => \E n \in Nat : n = OnTheWay'[h].n /\ Known(n)'
      BY <2>6, <3>1
    <3> QED  BY <1>8, <2>6, <3>2 DEF AllKnown
  <2>8. Numbered'  BY <2>5, <2>6 DEF PollSaid, Numbered
  <2>9. Behind'  BY <2>5, <2>6 DEF PollSaid, Behind, Fresh
  <2>10. Passed'  BY <1>7, <1>12 DEF Passed
  <2>11. Held'  BY <2>5, <2>6 DEF PollSaid, Held, Over
  <2>12. Idled'  BY <2>5, <2>6 DEF PollSaid, Idled, Idles, Idle
  <2>13. WakeShows => WakeShows'
    <3>1. SUFFICES ASSUME remote PROVE WakeShows'  BY DEF WakeShows
    <3>2. Known(showing)  BY <3>1 DEF LInv, AllKnown
    <3>3. Missed(showing)  BY <1>12, <3>2 DEF Known, Missed
    <3>4. showing \in 1 .. wakes
      <4>1. showing > seen  BY <3>3 DEF Missed
      <4> QED  BY <1>5, <4>1
    <3>5. Idle(0)'  BY <2>5, <2>6, <3>3, <3>4 DEF PollSaid, Idle
    <3> QED  BY <1>1, <3>1, <3>5 DEF WakeShows, Idles
  <2>14. LineTyped'  BY <1>6, <2>5 DEF PollSaid
  <2> QED  BY <2>7, <2>8, <2>9, <2>10, <2>11, <2>12, <2>13, <2>14 DEF LInv
<1>13. CASE ~Running /\ ~polling
  <2>1. fs = <<>>  BY <1>2, <1>13 DEF Replay, Running
  <2>2. ~remote  BY <1>10, <1>13 DEF LInv, Held
  <2>3. fs \in Seq(Word)  BY <2>1, EmptySeq
  <2>4. Passed'  BY <1>7, <1>13 DEF Passed
  <2>5. LInv'  BY <1>1, <1>3, <1>6, <2>1, <2>2, <2>3, <2>4, NothingOnTheWay
  <2> QED  BY <2>2, <2>5 DEF WakeShows
<1> QED  BY <1>11, <1>12, <1>13

-----------------------------------------------------------------------------
(* No wake turn holds requests back without word of its end                *)

StreamIsAsItWas ==
  /\ line' = line /\ remote' = remote /\ showing' = showing /\ seen' = seen
  /\ polling' = polling /\ wake' = wake /\ wakes' = wakes /\ ended' = ended /\ conv' = conv

LEMMA StreamKept ==
  ASSUME CInv, CInv', LInv, StreamIsAsItWas, Len(convs) <= Len(convs')
  PROVE  LInv' /\ (WakeShows => WakeShows')
<1>1. Len(convs) \in Nat /\ Len(convs') \in Nat
  <2>1. convs \in Seq(Nat) /\ convs' \in Seq(Nat)  BY DEF CInv, Typed
  <2> QED  BY <2>1, LenProperties
<1>2. /\ line' = line /\ remote' = remote /\ showing' = showing /\ seen' = seen
      /\ wake' = wake /\ wakes' = wakes /\ ended' = ended /\ conv' = conv /\ (polling => polling')
  BY DEF StreamIsAsItWas
<1> QED  BY <1>1, <1>2, LineKept

\* What a request goes through that is nothing to the stream.
Aside(r) ==
  \/ Pump(r) \/ Retry(r) \/ TryOn(r) \/ Busy(r) \/ Errs(r) \/ Aborted(r) \/ Cut(r)
  \/ TakesNothing(r) \/ TurnsAway(r) \/ NotSignedIn(r) \/ ServerError(r) \/ Says(r) \/ Ends(r)

LEMMA AsideKeeps ==
  ASSUME CInv, CInv', LInv, NEW r, Aside(r)
  PROVE  LInv' /\ (WakeShows => WakeShows')
<1>1. StreamIsAsItWas /\ convs' = convs
  <2>1. CASE Pump(r)  BY <2>1 DEF Pump, StreamIsAsItWas, events, server
  <2>2. CASE Retry(r)  BY <2>2 DEF Retry, StreamIsAsItWas, events, server
  <2>3. CASE TryOn(r)  BY <2>3 DEF TryOn, StreamIsAsItWas, events, server
  <2>4. CASE Busy(r)  BY <2>4 DEF Busy, StreamIsAsItWas, events, server
  <2>5. CASE Errs(r)  BY <2>5 DEF Errs, StreamIsAsItWas, server
  <2>6. CASE Aborted(r)  BY <2>6 DEF Aborted, StreamIsAsItWas, events, server
  <2>7. CASE Cut(r)  BY <2>7 DEF Cut, StreamIsAsItWas, events, server
  <2>8. CASE TakesNothing(r)  BY <2>8 DEF TakesNothing, StreamIsAsItWas, chat, events, server
  <2>9. CASE TurnsAway(r)  BY <2>9 DEF TurnsAway, StreamIsAsItWas, chat, events, server
  <2>10. CASE NotSignedIn(r)  BY <2>10 DEF NotSignedIn, StreamIsAsItWas, chat, events, server
  <2>11. CASE ServerError(r)  BY <2>11 DEF ServerError, StreamIsAsItWas, chat, events, server
  <2>12. CASE Says(r)  BY <2>12 DEF Says, StreamIsAsItWas, chat, events, server
  <2>13. CASE Ends(r)  BY <2>13 DEF Ends, StreamIsAsItWas, chat, events
  <2> QED
    BY <2>1, <2>2, <2>3, <2>4, <2>5, <2>6, <2>7, <2>8, <2>9, <2>10, <2>11, <2>12, <2>13 DEF Aside
<1>2. Len(convs) <= Len(convs')
  <2>1. Len(convs) \in Nat  BY LenProperties DEF CInv, Typed
  <2> QED  BY <1>1, <2>1
<1> QED  BY <1>1, <1>2, StreamKept

LEMMA TakesKeeps ==
  ASSUME CInv, CInv', LInv, NEW r, Takes(r)
  PROVE  LInv' /\ (WakeShows => WakeShows')
<1>1. StreamIsAsItWas  BY DEF Takes, StreamIsAsItWas, chat, events
<1>2. convs \in Seq(Nat) /\ Len(convs) \in Nat  BY LenProperties DEF CInv, Typed
<1>3. convs' = convs \/ \E g : convs' = Append(convs, g)  BY DEF Takes
<1>4. Len(convs) <= Len(convs')
  <2>1. CASE convs' = convs  BY <1>2, <2>1
  <2>2. ASSUME NEW g, convs' = Append(convs, g) PROVE Len(convs) <= Len(convs')
    <3>1. g \in Nat
      <4>1. convs' \in Seq(Nat)  BY DEF CInv, Typed
      <4>2. convs' = Append(convs, g)  BY <2>2
      <4>3. Len(convs') = Len(convs) + 1 /\ convs'[Len(convs) + 1] = g
        BY <1>2, <4>2
      <4>4. Len(convs) + 1 \in 1 .. Len(convs')  BY <1>2, <4>3
      <4> QED  BY <4>1, <4>3, <4>4, ElementOfSeq
    <3>2. Len(convs') = Len(convs) + 1  BY <1>2, <2>2, <3>1, AppendProperties
    <3> QED  BY <1>2, <3>2
  <2> QED  BY <1>3, <2>1, <2>2
<1> QED  BY <1>1, <1>4, StreamKept

LEMMA AlongKeeps ==
  ASSUME CInv, CInv', LInv, (\E path \in Paths : Enqueue(path)) \/ Expire \/ UNCHANGED vars
  PROVE  LInv' /\ (WakeShows => WakeShows')
<1>1. StreamIsAsItWas /\ convs' = convs
  BY DEF Enqueue, Expire, vars, StreamIsAsItWas, chat, events, server
<1>2. Len(convs) <= Len(convs')
  <2>1. Len(convs) \in Nat  BY LenProperties DEF CInv, Typed
  <2> QED  BY <1>1, <2>1
<1> QED  BY <1>1, <1>2, StreamKept

LEMMA FallBackKeeps ==
  ASSUME CInv, LInv, FallBack
  PROVE  LInv' /\ (WakeShows => WakeShows')
<1>1. Len(convs) \in Nat /\ convs' = convs  BY LenProperties DEF CInv, Typed, FallBack, server
<1>2. /\ line' = line /\ remote' = remote /\ showing' = showing /\ seen' = seen
      /\ wake' = wake /\ wakes' = wakes /\ ended' = ended /\ conv' = conv /\ (polling => polling')
  BY DEF FallBack, chat, server
<1>3. Len(convs') \in Nat /\ Len(convs) <= Len(convs')  BY <1>1
<1> QED  BY <1>1, <1>2, <1>3, LineKept

LEMMA LetGoOfKeeps ==
  ASSUME LInv, Reset \/ Close \/ Refused \/ Drop \/ \E r : Denied(r)
  PROVE  LInv'
<1>1. /\ wake' = wake /\ wakes' = wakes /\ convs' = convs /\ remote' = FALSE
      /\ \/ line' = NoLine
         \/ line' = Dialing /\ line.at # "off"
      /\ \/ conv' = conv /\ seen' = seen /\ showing' = showing
         \/ conv' = None /\ seen' = 0 /\ showing' = 0 /\ line' = NoLine
  <2>1. CASE Reset  BY <2>1 DEF Reset, server
  <2>2. CASE Close  BY <2>2 DEF Close, StopListening, server
  <2>3. CASE Refused  BY <2>3 DEF Refused, TurnedAway, StopListening, server
  <2>4. CASE Drop  BY <2>4 DEF Drop, chat, server
  <2>5. CASE \E r : Denied(r)  BY <2>5 DEF Denied, server
  <2> QED  BY <2>1, <2>2, <2>3, <2>4, <2>5
<1> QED  BY <1>1, LineDropped

LEMMA ListensKeeps ==
  ASSUME CInv, LInv, Resume \/ \E r : TakenUp(r) \/ Read(r)
  PROVE  LInv' /\ (WakeShows => WakeShows')
<1>1. Len(convs) \in Nat  BY LenProperties DEF CInv, Typed
<1>2. Listen = line \/ (line.at = "off" /\ Listen = Dialing)  BY DEF Listen
<1>3. /\ wake' = wake /\ wakes' = wakes /\ ended' = ended /\ remote' = remote
      /\ polling' = polling /\ showing' = showing /\ seen' = seen /\ convs' = convs
      /\ conv' = conv \/ (conv = None /\ conv' # None)
      /\ line' = line \/ (line.at = "off" /\ conv' # None /\ line' = Dialing)
  <2>1. CASE Resume  BY <1>2, <2>1 DEF Resume, server
  <2>2. ASSUME NEW r, TakenUp(r)
        PROVE  /\ wake' = wake /\ wakes' = wakes /\ ended' = ended /\ remote' = remote
               /\ polling' = polling /\ showing' = showing /\ seen' = seen /\ convs' = convs
               /\ conv' = conv
               /\ line' = line \/ (line.at = "off" /\ conv' # None /\ line' = Dialing)
    BY <1>2, <2>2 DEF TakenUp, server
  <2>3. ASSUME NEW r, Read(r)
        PROVE  /\ wake' = wake /\ wakes' = wakes /\ ended' = ended /\ remote' = remote
               /\ polling' = polling /\ showing' = showing /\ seen' = seen /\ convs' = convs
               /\ conv' = conv \/ (conv = None /\ conv' # None)
               /\ line' = line \/ (line.at = "off" /\ conv' # None /\ line' = Dialing)
    <3>1. /\ wake' = wake /\ wakes' = wakes /\ ended' = ended /\ remote' = remote
          /\ polling' = polling /\ showing' = showing /\ seen' = seen /\ convs' = convs
      BY <2>3 DEF Read, server
    <3>2. CASE Head(resp) # "hello"  BY <2>3, <3>1, <3>2 DEF Read
    <3>3. CASE Head(resp) = "hello"
      <4>1. conv' = reqs[r].to /\ (line' = line \/ line' = Listen)  BY <2>3, <3>3 DEF Read
      <4>2. /\ Out(r) /\ reqs[r].at = "reading" /\ reqs[r].gen = gen /\ resp # <<>>
        BY <2>3 DEF Read, Reads, Stale
      <4>3. /\ Sound(reqs[r], gen, shut, convs, resp) /\ Here(reqs[r], gen, conv)
            /\ resp \in Seq(Frames)
        BY <4>2, OutFacts
      <4>4. reqs[r].turn # "none"
        <5>1. Replies(reqs[r], resp)  BY <4>2, <4>3 DEF Sound
        <5>2. 1 \in 1 .. Len(resp) /\ resp[1] = "hello"
          <6>1. Head(resp) = resp[1] /\ Len(resp) \in Nat /\ Len(resp) # 0
            BY <4>2, <4>3, HeadTailProperties, LenProperties, EmptySeq
          <6> QED  BY <3>3, <6>1
        <5> QED  BY <5>1, <5>2 DEF Replies
      <4>5. conv' # None  BY <4>1, <4>3, <4>4 DEF Sound
      <4>6. conv # None => conv' = conv  BY <4>1, <4>2, <4>3 DEF Here
      <4> QED  BY <1>2, <3>1, <4>1, <4>5, <4>6
    <3> QED  BY <3>2, <3>3
  <2> QED  BY <2>1, <2>2, <2>3
<1> QED  BY <1>1, <1>3, LineListens

LEMMA LInvInit == ASSUME Init PROVE LInv
<1>1. /\ line = NoLine /\ remote = FALSE /\ showing = 0 /\ seen = 0 /\ wake = NoWake /\ wakes = 0
      /\ conv = None
  BY DEF Init
<1>2. <<>> \in Seq(Word) /\ Len(<<>>) = 0  BY EmptySeq
<1>3. OnTheWay = <<>>  BY <1>1 DEF OnTheWay, NoLine
<1>4. LineTyped  BY <1>1, <1>2, <1>3 DEF LineTyped, NoLine, NoWake
<1>5. ~Running  BY <1>1 DEF Running, NoWake
<1>6. \A i \in 1 .. Len(OnTheWay) : FALSE  BY <1>2, <1>3
<1> QED
  BY <1>1, <1>4, <1>5, <1>6 DEF LInv, AllKnown, Numbered, Behind, Passed, Held, Idled

LEMMA LInvStep == ASSUME CInv, LInv, [Next]_vars PROVE LInv'
<1>1. CInv'  BY CInvStep
<1>2. CASE (\E path \in Paths : Enqueue(path)) \/ Expire \/ UNCHANGED vars
  BY <1>1, <1>2, AlongKeeps
<1>3. CASE Reset \/ Close \/ Refused \/ Drop  BY <1>3, LetGoOfKeeps
<1>4. CASE Resume  BY <1>4, ListensKeeps
<1>5. ASSUME NEW r \in DOMAIN reqs, Progress(r) \/ Cut(r) \/ Service(r) PROVE LInv'
  <2>1. CASE Denied(r)  BY <2>1, LetGoOfKeeps
  <2>2. CASE TakenUp(r) \/ Read(r)  BY <2>2, ListensKeeps
  <2>3. CASE Takes(r)  BY <1>1, <2>3, TakesKeeps
  <2>4. CASE Aside(r)  BY <1>1, <2>4, AsideKeeps
  <2> QED  BY <1>5, <2>1, <2>2, <2>3, <2>4 DEF Progress, Service, Aside
<1>6. CASE Connect
  <2>1. UNCHANGED convs  BY <1>6 DEF Connect, server
  <2> QED  BY <1>6, <2>1, ConnectKeeps
<1>7. CASE PollEnds
  <2>1. UNCHANGED convs  BY <1>7 DEF PollEnds, server
  <2> QED  BY <1>7, <2>1, PollEndsKeeps
<1>8. CASE FallBack  BY <1>8, FallBackKeeps
<1>9. CASE Hear  BY <1>9, HearKeeps
<1>10. CASE \E c \in DOMAIN convs : WakeStarts(c)  BY <1>10, WakeStartsKeeps
<1>11. CASE WakeGoesOn  BY <1>11, WakeTellsKeeps, WakeEndsKeeps DEF WakeGoesOn
<1> QED  BY <1>2, <1>3, <1>4, <1>5, <1>6, <1>7, <1>8, <1>9, <1>10, <1>11 DEF Next

LEMMA LInvHolds == Spec => [](CInv /\ LInv)
<1>1. Init => CInv /\ LInv  BY CInvInit, LInvInit
<1>2. CInv /\ LInv /\ [Next]_vars => (CInv /\ LInv)'  BY CInvStep, LInvStep
<1> QED  BY <1>1, <1>2, PTL DEF Spec

-----------------------------------------------------------------------------
(* `streaming` shows only while something is under way                     *)

\* What the page shows is what it supposes of a request that went out, and
\* nothing the server said of it since.
Unsaid(v) == v.outgoing # None /\ ~v.outgoing.said

\* The server is to say, of the request that it took up, that it no longer runs.
Live(q) == q.at \in InFlight \union {"reading"} /\ q.gen = gen /\ q.ans = "ok"
Saying(q, rs) == q.turn = "running" \/ \E i \in 1 .. Len(rs) : rs[i] \in {"idle", "error"}
Answering == \E r \in 1 .. Len(reqs) : Live(reqs[r]) /\ Saying(reqs[r], resp)

ToldBusy == ~shut /\ view.status = "streaming" /\ ~Unsaid(view) => WakeShows \/ lost \/ Answering
GuessedBusy ==
  Unsaid(view) => view.status = "streaming" /\ (view.outgoing.was = "streaming" => lost)
SInv == ToldBusy /\ GuessedBusy

LEMMA SaidTells == ASSUME NEW v \in View PROVE ~Unsaid(Said(v))
<1> PICK w : w = Said(v)  OBVIOUS
<1>1. CASE v.outgoing = None
  <2>1. w = v  BY <1>1 DEF Said
  <2> QED  BY <1>1, <2>1 DEF Unsaid
<1>2. CASE v.outgoing # None
  <2>1. v.outgoing \in Outgoing  BY <1>2 DEF View
  <2>2. PICK o : o = [v.outgoing EXCEPT !.said = TRUE]  OBVIOUS
  <2>3. o.said = TRUE  BY <2>1, <2>2 DEF Outgoing
  <2>4. w = [v EXCEPT !.outgoing = o]  BY <1>2, <2>2 DEF Said, View
  <2>5. w.outgoing = o  BY <2>4 DEF View
  <2> QED  BY <2>3, <2>5 DEF Unsaid
<1> QED  BY <1>1, <1>2

LEMMA StatusTells == ASSUME NEW v \in View, NEW s PROVE ~Unsaid(Status(v, s))
<1> PICK u, w : u = Said(v) /\ w = Status(v, s)  OBVIOUS
<1>1. u \in View  BY SaidKeeps DEF Keeps
<1>2. w = [u EXCEPT !.status = s]  BY DEF Status
<1>3. w.outgoing = u.outgoing  BY <1>1, <1>2 DEF View
<1> QED  BY <1>3, SaidTells DEF Unsaid

LEMMA FailedTells == ASSUME NEW v \in View PROVE ~Unsaid(Failed(v))
<1> PICK t, u, w : t = Withdraw(v) /\ u = Said(t) /\ w = Failed(v)  OBVIOUS
<1>1. t \in View  BY WithdrawKeeps DEF Keeps
<1>2. u \in View  BY <1>1, SaidKeeps DEF Keeps
<1>3. w = [u EXCEPT !.status = "idle"]  BY DEF Failed
<1>4. w.outgoing = u.outgoing  BY <1>2, <1>3 DEF View
<1> QED  BY <1>1, <1>4, SaidTells DEF Unsaid

LEMMA OutOfDateTells ==
  ASSUME NEW v \in View, ~v.expired
  PROVE  OutOfDate(v).status = "idle" /\ ~Unsaid(OutOfDate(v))
<1> PICK t, u, w : t = Withdraw(v) /\ u = Said(t) /\ w = OutOfDate(v)  OBVIOUS
<1>1. t \in View  BY WithdrawKeeps DEF Keeps
<1>2. u \in View  BY <1>1, SaidKeeps DEF Keeps
<1>3. w = [u EXCEPT !.status = "idle", !.expired = TRUE]  BY DEF OutOfDate
<1>4. w.outgoing = u.outgoing /\ w.status = "idle"  BY <1>2, <1>3 DEF View
<1> QED  BY <1>1, <1>4, SaidTells DEF Unsaid

LEMMA LetGoTells ==
  ASSUME NEW v \in View
  PROVE  LetGo(v).status = IF Unsaid(v) /\ v.status = "streaming" THEN v.outgoing.was ELSE v.status
<1>1. CASE v.outgoing = None  BY <1>1 DEF LetGo, Unsaid
<1>2. CASE v.outgoing # None
  <2>1. PICK t, w : t = Withdraw(v) /\ w = LetGo(v)  OBVIOUS
  <2>2. t = [v EXCEPT !.pending = @ \ {v.outgoing.req}]  BY <1>2, <2>1 DEF Withdraw
  <2>3. t \in View /\ t.status = v.status
    <3>1. t \in View  BY <2>1, WithdrawKeeps DEF Keeps
    <3> QED  BY <2>2, <3>1 DEF View
  <2>4. w = [t EXCEPT !.outgoing = None, !.status =
               IF ~v.outgoing.said /\ v.status = "streaming" THEN v.outgoing.was ELSE @]
    BY <1>2, <2>1 DEF LetGo
  <2>5. w.status = IF ~v.outgoing.said /\ v.status = "streaming" THEN v.outgoing.was ELSE t.status
    BY <2>3, <2>4 DEF View
  <2> QED  BY <1>2, <2>1, <2>3, <2>5 DEF Unsaid
<1> QED  BY <1>1, <1>2

LEMMA GoOutTells ==
  ASSUME NEW v \in View, NEW r \in Nat
  PROVE  \/ GoOut(v, r) = v
         \/ /\ GoOut(v, r).status = "streaming"
            /\ GoOut(v, r).outgoing.was = v.status
<1>1. CASE reqs[r].path = "start"  BY <1>1 DEF GoOut
<1>2. CASE reqs[r].path # "start"
  <2> PICK w, o, p : /\ w = GoOut(v, r)
                     /\ o = [req |-> r, was |-> v.status, said |-> FALSE]
                     /\ p = v.pending \union (IF reqs[r].path = "chat" THEN {r} ELSE {})
    OBVIOUS
  <2>1. w = [v EXCEPT !.outgoing = o, !.status = "streaming", !.pending = p]
    BY <1>2 DEF GoOut, View
  <2>2. w.outgoing = o /\ w.status = "streaming"  BY <2>1 DEF View
  <2> QED  BY <2>2
<1> QED  BY <1>1, <1>2

LEMMA StillOutTells ==
  ASSUME NEW v \in View
  PROVE  \/ StillOut(v) = v
         \/ /\ StillOut(v).status = "streaming" /\ StillOut(v).outgoing.was = "idle"
            /\ Unsaid(StillOut(v))
<1> PICK w : w = StillOut(v)  OBVIOUS
<1>1. CASE v.outgoing = None \/ v.status = "streaming"  BY <1>1 DEF StillOut
<1>2. CASE ~(v.outgoing = None \/ v.status = "streaming")
  <2>1. v.outgoing \in Outgoing /\ v.status = "idle"  BY <1>2 DEF View, Says0
  <2>2. PICK o : o = [v.outgoing EXCEPT !.was = v.status, !.said = FALSE]  OBVIOUS
  <2>3. o.was = "idle" /\ o.said = FALSE /\ o \in Outgoing
    BY <2>1, <2>2 DEF Outgoing, Says0
  <2>4. o # None  BY <2>3, ClientNames DEF Outgoing, Says0
  <2>5. w = [v EXCEPT !.outgoing.was = v.status, !.outgoing.said = FALSE, !.status = "streaming"]
    BY <1>2 DEF StillOut
  <2>6. w.outgoing = o /\ w.status = "streaming"  BY <2>2, <2>5 DEF View
  <2> QED  BY <2>3, <2>4, <2>6 DEF Unsaid
<1> QED  BY <1>1, <1>2

LEMMA AppliedTells ==
  ASSUME NEW v \in View, NEW f \in Frames \ {"end"}, NEW r
  PROVE  \/ /\ f \notin {"streaming", "idle", "error"}
            /\ Applied(v, f, r).status = v.status /\ Applied(v, f, r).outgoing = v.outgoing
         \/ f = "streaming" /\ ~Unsaid(Applied(v, f, r))
         \/ Applied(v, f, r).status = "idle" /\ ~Unsaid(Applied(v, f, r))
<1> PICK w : w = Applied(v, f, r)  OBVIOUS
<1>1. CASE f = "hello"  BY <1>1 DEF Applied
<1>2. CASE f = "streaming"
  <2>1. w = Status(v, "streaming")  BY <1>2 DEF Applied
  <2> QED  BY <1>2, <2>1, StatusTells
<1>3. CASE f = "user"
  <2>1. PICK t : t = Withdraw(v)  OBVIOUS
  <2>2. w = [t EXCEPT !.shown = @ \union {r}]  BY <1>3, <2>1 DEF Applied
  <2>3. t \in View  BY <2>1, WithdrawKeeps DEF Keeps
  <2>4. t.status = v.status /\ t.outgoing = v.outgoing  BY <2>1 DEF Withdraw, View
  <2>5. w.status = t.status /\ w.outgoing = t.outgoing  BY <2>2, <2>3 DEF View
  <2> QED  BY <1>3, <2>4, <2>5
<1>4. CASE f = "idle"
  <2>1. PICK t : t = Status(v, "idle")  OBVIOUS
  <2>2. w = [t EXCEPT !.begun = TRUE]  BY <1>4, <2>1 DEF Applied
  <2>3. "idle" \in Says0  BY DEF Says0
  <2>4. t \in View /\ t.status = "idle" /\ ~Unsaid(t)
    BY <2>1, <2>3, StatusKeeps, StatusTells DEF Keeps
  <2>5. w.status = "idle" /\ w.outgoing = t.outgoing  BY <2>2, <2>4 DEF View
  <2> QED  BY <2>4, <2>5 DEF Unsaid
<1>5. CASE f = "error"
  <2>1. w = Failed(v)  BY <1>5 DEF Applied
  <2> QED  BY <2>1, FailedKeeps, FailedTells
<1>6. CASE f = "expired"
  <2>1. w = OutOfDate(v)  BY <1>6 DEF Applied
  <2>2. CASE v.expired
    <3>1. w = v  BY <2>1, <2>2 DEF OutOfDate
    <3> QED  BY <1>6, <3>1
  <2>3. CASE ~v.expired  BY <2>1, <2>3, OutOfDateTells
  <2> QED  BY <2>2, <2>3
<1> QED  BY <1>1, <1>2, <1>3, <1>4, <1>5, <1>6 DEF Frames

\* Only the request that is out is answered.
LEMMA AnsweringIsOut ==
  ASSUME CInv, NEW r, Out(r), Answering
  PROVE  Live(reqs[r]) /\ Saying(reqs[r], resp)
<1>1. PICK q \in 1 .. Len(reqs) : Live(reqs[q]) /\ Saying(reqs[q], resp)  BY DEF Answering
<1>2. reqs[q].at \notin {"queued", "done"}  BY <1>1 DEF Live, InFlight
<1>3. q = r  BY <1>2, OneOut DEF CInv
<1> QED  BY <1>1, <1>3

\* The request that is out goes on as q2: whether it is answering is whether q2 is.
LEMMA AnsweringOn ==
  ASSUME CInv, NEW r, Out(r), NEW q2 \in Request, reqs' = [reqs EXCEPT ![r] = q2], gen' = gen,
         q2.at \in InFlight \union {"reading"}, q2.gen = gen, q2.ans = "ok", Saying(q2, resp')
  PROVE  Answering'
<1>1. r \in 1 .. Len(reqs)  BY OutFacts
<1>2. Len(reqs') = Len(reqs) /\ reqs'[r] = q2  BY <1>1, ExceptSeq DEF CInv, Typed
<1>3. Live(q2)'  BY DEF Live
<1> QED  BY <1>1, <1>2, <1>3 DEF Answering, Live

LEMMA QuietTells ==
  ASSUME view'.status = "idle", ~Unsaid(view')
  PROVE  SInv'
BY DEF SInv, ToldBusy, GuessedBusy, Unsaid

\* What the page shows stays, and so does what tells of it.
LEMMA ShownTells ==
  ASSUME SInv, view'.status = view.status, view'.outgoing = view.outgoing, shut' = shut,
         view.status = "streaming" /\ lost => lost',
         view.status = "streaming" /\ WakeShows => WakeShows' \/ lost',
         Answering => Answering'
  PROVE  SInv'
<1>1. Unsaid(view') <=> Unsaid(view)  BY DEF Unsaid
<1>2. ToldBusy'
  <2>1. ~shut /\ view.status = "streaming" /\ ~Unsaid(view) => WakeShows' \/ lost' \/ Answering'
    BY DEF SInv, ToldBusy
  <2> QED  BY <1>1, <2>1 DEF ToldBusy, Unsaid
<1>3. GuessedBusy'  BY <1>1 DEF SInv, GuessedBusy, Unsaid
<1> QED  BY <1>2, <1>3 DEF SInv

\* A request that the server says nothing more of is over, or let be.
LEMMA FinishTells ==
  ASSUME CInv, SInv, NEW r, Out(r), NEW res, Finish(r, res, view),
         ~(Live(reqs[r]) /\ Saying(reqs[r], resp)),
         shut' = shut, lost' = lost, WakeShows => WakeShows'
  PROVE  SInv'
<1>1. ~Answering  BY AnsweringIsOut
<1>2. CASE Stale(r) \/ shut
  <2>1. view' = view  BY <1>2 DEF Finish
  <2> QED  BY <1>1, <2>1, ShownTells
<1>3. CASE ~(Stale(r) \/ shut)
  <2>1. view' = LetGo(view) /\ view \in View  BY <1>3 DEF Finish, CInv, Typed
  <2>2. PICK v : v = view  OBVIOUS
  <2>3. /\ view'.outgoing = None
        /\ view'.status = IF Unsaid(v) /\ v.status = "streaming" THEN v.outgoing.was ELSE v.status
    BY <2>1, <2>2, LetGoLeaves, LetGoTells
  <2>4. GuessedBusy'  BY <2>3 DEF GuessedBusy, Unsaid
  <2>5. view'.status = "streaming" => WakeShows \/ lost
    <3>1. CASE Unsaid(v)  BY <2>2, <2>3, <3>1 DEF SInv, GuessedBusy
    <3>2. CASE ~Unsaid(v)  BY <1>1, <1>3, <2>2, <2>3, <3>2 DEF SInv, ToldBusy
    <3> QED  BY <3>1, <3>2
  <2>6. ToldBusy'  BY <2>5 DEF ToldBusy
  <2> QED  BY <2>4, <2>6 DEF SInv
<1> QED  BY <1>2, <1>3

LEMMA WaitsTells ==
  ASSUME CInv, SInv, NEW r, Out(r), ~(Live(reqs[r]) /\ Saying(reqs[r], resp)),
         view' = view, shut' = shut, lost' = lost, WakeShows => WakeShows'
  PROVE  SInv'
<1>1. ~Answering  BY AnsweringIsOut
<1> QED  BY <1>1, ShownTells

\* It goes out, or again.
LEMMA PostTells ==
  ASSUME CInv, SInv, NEW r, Out(r), ~Stale(r), ~(Live(reqs[r]) /\ Saying(reqs[r], resp)),
         view' = StillOut(view) \/ (~remote /\ view.outgoing = None /\ view' = GoOut(view, r)),
         shut' = shut, lost' = lost, WakeShows => WakeShows'
  PROVE  SInv'
<1>1. ~Answering  BY AnsweringIsOut
<1>2. view \in View /\ r \in Nat /\ ~shut
  <2>1. Sound(reqs[r], gen, shut, convs, resp) /\ gen \in Nat /\ r \in Nat /\ view \in View
    BY OutFacts
  <2>2. reqs[r].gen = gen /\ (shut => reqs[r].gen < gen)  BY <2>1 DEF Sound, Stale
  <2> QED  BY <2>1, <2>2
<1>3. CASE view' = view  BY <1>1, <1>3, ShownTells
<1>4. CASE view' = StillOut(view) /\ view' # view
  <2>1. PICK w : w = StillOut(view)  OBVIOUS
  <2>2. w.status = "streaming" /\ w.outgoing.was = "idle" /\ Unsaid(w)
    BY <1>2, <1>4, <2>1, StillOutTells
  <2>3. view' = w  BY <1>4, <2>1
  <2> QED  BY <2>2, <2>3 DEF SInv, ToldBusy, GuessedBusy, Unsaid
<1>5. CASE ~remote /\ view.outgoing = None /\ view' = GoOut(view, r) /\ view' # view
  <2>1. PICK w : w = GoOut(view, r)  OBVIOUS
  <2>2. w.status = "streaming" /\ w.outgoing.was = view.status
    BY <1>2, <1>5, <2>1, GoOutTells
  <2>3. view.status = "streaming" => lost
    BY <1>1, <1>2, <1>5 DEF SInv, ToldBusy, Unsaid, WakeShows
  <2>4. reqs[r].path # "start"  BY <1>5 DEF GoOut
  <2>5. Unsaid(w)
    <3>1. PICK o, p : /\ o = [req |-> r, was |-> view.status, said |-> FALSE]
                      /\ p = view.pending \union (IF reqs[r].path = "chat" THEN {r} ELSE {})
      OBVIOUS
    <3>2. w = [view EXCEPT !.outgoing = o, !.status = "streaming", !.pending = p]
      BY <1>2, <2>1, <2>4, <3>1 DEF GoOut, View
    <3>3. w.outgoing = o /\ ~o.said  BY <1>2, <3>1, <3>2 DEF View
    <3>4. o \in Outgoing  BY <1>2, <3>1 DEF View, Outgoing
    <3>5. o # None  BY <3>4, ClientNames DEF Outgoing, Says0
    <3> QED  BY <3>3, <3>5 DEF Unsaid
  <2>6. view' = w  BY <1>5, <2>1
  <2> QED  BY <2>2, <2>3, <2>5, <2>6 DEF SInv, ToldBusy, GuessedBusy, Unsaid
<1> QED  BY <1>3, <1>4, <1>5

LEMMA PumpTells == ASSUME CInv, SInv, NEW r, Pump(r), WakeShows => WakeShows' PROVE SInv'
<1>1. /\ Out(r) /\ reqs[r].at \in {"queued", "held"} /\ shut' = shut /\ lost' = lost
  BY DEF Pump
<1>2. ~Live(reqs[r])  BY <1>1 DEF Live, InFlight
<1>3. CASE Finish(r, "false", view)  BY <1>1, <1>2, <1>3, FinishTells
<1>4. CASE WaitsFor(r, "held")
  <2>1. view' = view  BY <1>4 DEF WaitsFor
  <2> QED  BY <1>1, <1>2, <2>1, WaitsTells
<1>5. CASE ~Dropped(r) /\ ~remote /\ Post(r, "posted", GoOut(view, r))
  <2>1. view' = GoOut(view, r) /\ ~Stale(r)  BY <1>5 DEF Post, Dropped
  <2>2. view.outgoing = None
    <3>1. view \in View /\ Showing(view, reqs, gen, shut)  BY <1>1, OutFacts
    <3> QED  BY <1>1, <3>1, OutgoingIsOut
  <2> QED  BY <1>1, <1>2, <1>5, <2>1, <2>2, PostTells
<1> QED  BY <1>3, <1>4, <1>5 DEF Pump

LEMMA RetryTells == ASSUME CInv, SInv, NEW r, Retry(r), WakeShows => WakeShows' PROVE SInv'
<1>1. /\ Out(r) /\ reqs[r].at \in {"retry", "heldAgain"} /\ shut' = shut /\ lost' = lost
  BY DEF Retry
<1>2. ~Live(reqs[r])  BY <1>1 DEF Live, InFlight
<1>3. CASE Finish(r, "false", view)  BY <1>1, <1>2, <1>3, FinishTells
<1>4. CASE WaitsFor(r, "heldAgain")
  <2>1. view' = view  BY <1>4 DEF WaitsFor
  <2> QED  BY <1>1, <1>2, <2>1, WaitsTells
<1>5. CASE ~Dropped(r) /\ Post(r, "reposted", StillOut(view))
  <2>1. view' = StillOut(view) /\ ~Stale(r)  BY <1>5 DEF Post, Dropped
  <2> QED  BY <1>1, <1>2, <2>1, PostTells
<1> QED  BY <1>3, <1>4, <1>5 DEF Retry

LEMMA TryOnTells == ASSUME CInv, SInv, NEW r, TryOn(r), WakeShows => WakeShows' PROVE SInv'
<1>1. /\ Out(r) /\ reqs[r].at = "backoff" /\ shut' = shut /\ lost' = lost
  BY DEF TryOn
<1>2. ~Live(reqs[r])  BY <1>1 DEF Live, InFlight
<1>3. CASE Finish(r, "false", view)  BY <1>1, <1>2, <1>3, FinishTells
<1>4. CASE ~Dropped(r) /\ Post(r, "trying", StillOut(view))
  <2>1. view' = StillOut(view) /\ ~Stale(r)  BY <1>4 DEF Post, Dropped
  <2> QED  BY <1>1, <1>2, <2>1, PostTells
<1> QED  BY <1>3, <1>4 DEF TryOn

\* What failed is over: nothing shows of it.
LEMMA FailedOver ==
  ASSUME CInv, NEW r, NEW res, Finish(r, res, Failed(view))
  PROVE  SInv'
<1>1. view \in View  BY DEF CInv, Typed
<1>2. PICK v : v = Failed(view)  OBVIOUS
<1>3. v \in View /\ v.status = "idle" /\ ~Unsaid(v)
  BY <1>1, <1>2, FailedKeeps, FailedTells DEF Keeps
<1>4. CASE view' = v  BY <1>3, <1>4, QuietTells
<1>5. CASE view' = LetGo(v)
  <2>1. view'.status = "idle" /\ view'.outgoing = None
    BY <1>3, <1>5, LetGoLeaves, LetGoTells
  <2> QED  BY <2>1, QuietTells DEF Unsaid
<1> QED  BY <1>2, <1>4, <1>5 DEF Finish

LEMMA BusyTells == ASSUME CInv, SInv, NEW r, Busy(r), WakeShows => WakeShows' PROVE SInv'
<1>1. Out(r) /\ reqs[r].ans = "busy" /\ shut' = shut  BY DEF Busy, Answered, Reads
<1>2. ~Live(reqs[r])  BY <1>1 DEF Live
<1>3. CASE view' = view /\ lost' = lost  BY <1>1, <1>2, <1>3, WaitsTells
<1>4. CASE Finish(r, "false", Failed(view))  BY <1>4, FailedOver
<1> QED  BY <1>3, <1>4 DEF Busy, WaitsFor

LEMMA FailsTells == ASSUME CInv, NEW r, Denied(r) \/ Errs(r) PROVE SInv'
<1>1. Finish(r, "false", Failed(view)) \/ Finish(r, "true", Failed(view))  BY DEF Denied, Errs
<1> QED  BY <1>1, FailedOver

LEMMA AbortedTells == ASSUME CInv, SInv, NEW r, Aborted(r), WakeShows => WakeShows' PROVE SInv'
<1>1. Out(r) /\ Stale(r) /\ shut' = shut /\ lost' = lost  BY DEF Aborted
<1>2. ~Live(reqs[r])  BY <1>1 DEF Live, Stale
<1>3. PICK res : Finish(r, res, view)  BY DEF Aborted
<1> QED  BY <1>1, <1>2, <1>3, FinishTells

LEMMA CutTells == ASSUME CInv, SInv, NEW r, Cut(r) PROVE SInv'
<1>1. /\ Out(r) /\ ~Stale(r) /\ shut' = shut /\ Finish(r, "failed", view)
      /\ lost' = (view'.status = "streaming"
                  /\ (lost \/ view.outgoing = None \/ view.outgoing.said))
  BY DEF Cut, Reads
<1>2. view \in View /\ Showing(view, reqs, gen, shut)  BY <1>1, OutFacts
<1>3. CASE shut
  <2>1. view' = view /\ view.outgoing = None  BY <1>1, <1>2, <1>3 DEF Finish, Showing
  <2> QED  BY <1>1, <1>3, <2>1 DEF SInv, ToldBusy, GuessedBusy, Unsaid
<1>4. CASE ~shut
  <2>1. view' = LetGo(view)  BY <1>1, <1>4 DEF Finish
  <2>2. PICK v : v = view  OBVIOUS
  <2>3. /\ view'.outgoing = None
        /\ view'.status = IF Unsaid(v) /\ v.status = "streaming" THEN v.outgoing.was ELSE v.status
    BY <1>2, <2>1, <2>2, LetGoLeaves, LetGoTells
  <2>4. GuessedBusy'  BY <2>3 DEF GuessedBusy, Unsaid
  <2>5. view'.status = "streaming" => lost \/ view.outgoing = None \/ view.outgoing.said
    <3>1. CASE Unsaid(v)  BY <2>2, <2>3, <3>1 DEF SInv, GuessedBusy
    <3>2. CASE ~Unsaid(v)  BY <2>2, <3>2 DEF Unsaid
    <3> QED  BY <3>1, <3>2
  <2>6. ToldBusy'  BY <1>1, <2>5 DEF ToldBusy
  <2> QED  BY <2>4, <2>6 DEF SInv
<1> QED  BY <1>3, <1>4

LEMMA TakenUpTells == ASSUME CInv, SInv, NEW r, TakenUp(r), WakeShows => WakeShows' PROVE SInv'
<1>1. /\ Out(r) /\ shut' = shut /\ lost' = lost /\ view' = view /\ resp' = resp /\ gen' = gen
      /\ reqs' = [reqs EXCEPT ![r].at = "reading", ![r].sent = TRUE]
  BY DEF TakenUp, Answered, Reads
<1>2. ASSUME Answering PROVE Answering'
  <2>1. Live(reqs[r]) /\ Saying(reqs[r], resp)  BY <1>1, <1>2, AnsweringIsOut
  <2>2. r \in 1 .. Len(reqs) /\ reqs[r] \in Request  BY <1>1, OutFacts
  <2>3. PICK q2 : q2 = [reqs[r] EXCEPT !.at = "reading", !.sent = TRUE]  OBVIOUS
  <2>4. reqs' = [reqs EXCEPT ![r] = q2]  BY <1>1, <2>3
  <2>5. /\ q2 \in Request /\ q2.at = "reading" /\ q2.gen = reqs[r].gen /\ q2.ans = reqs[r].ans
        /\ q2.turn = reqs[r].turn
    <3>1. "reading" \in Places  BY DEF Places
    <3> QED  BY <2>2, <2>3, <3>1 DEF Request
  <2>6. q2.at \in InFlight \union {"reading"} /\ q2.gen = gen /\ q2.ans = "ok"
    BY <2>1, <2>5 DEF Live
  <2>7. Saying(q2, resp')  BY <1>1, <2>1, <2>5 DEF Saying
  <2> QED  BY <1>1, <2>4, <2>5, <2>6, <2>7, AnsweringOn
<1> QED  BY <1>1, <1>2, ShownTells

LEMMA ReadTells == ASSUME CInv, SInv, NEW r, Read(r), WakeShows => WakeShows' PROVE SInv'
<1>1. /\ Out(r) /\ ~Stale(r) /\ reqs[r].at = "reading" /\ resp # <<>>
      /\ gen' = gen /\ shut' = shut
  BY DEF Read, Reads
<1>2. /\ r \in 1 .. Len(reqs) /\ reqs[r] \in Request
      /\ Sound(reqs[r], gen, shut, convs, resp)
      /\ resp \in Seq(Frames) /\ view \in View
  BY <1>1, OutFacts
<1>3. reqs[r].ans = "ok" /\ reqs[r].gen = gen  BY <1>1, <1>2 DEF Sound, Stale
<1>4. Replies(reqs[r], resp)  BY <1>1, <1>2, <1>3 DEF Sound
<1>5. /\ Len(resp) \in Nat /\ Len(resp) >= 1 /\ Head(resp) = resp[1] /\ Head(resp) \in Frames
      /\ Len(Tail(resp)) = Len(resp) - 1
      /\ \A i \in 1 .. Len(Tail(resp)) : Tail(resp)[i] = resp[i + 1]
  BY <1>1, <1>2, HeadTailProperties, LenProperties, EmptySeq
<1>6. CASE Head(resp) = "end"
  <2>1. Finish(r, IF reqs[r].sent THEN "true" ELSE "false", view) /\ lost' = lost
    BY <1>6 DEF Read
  <2>2. 1 \in 1 .. Len(resp) /\ resp[1] = "end"  BY <1>5, <1>6
  <2>3. Len(resp) = 1 /\ reqs[r].turn \in {"none", "recorded", "unrecorded"}
    BY <1>4, <2>2 DEF Replies
  <2>4. ~Saying(reqs[r], resp)
    <3>1. \A i \in 1 .. Len(resp) : resp[i] = "end"  BY <2>2, <2>3
    <3> QED  BY <2>3, <3>1 DEF Saying
  <2> QED  BY <1>1, <2>1, <2>4, FinishTells
<1>7. CASE Head(resp) # "end"
  <2>1. PICK f, t : f = Head(resp) /\ t = Tail(resp)  OBVIOUS
  <2>2. /\ resp' = t /\ view' = Applied(view, f, r)
        /\ reqs' = [reqs EXCEPT ![r].sent = SentAfter(r, f)]
        /\ lost' = (lost /\ view'.status = "streaming")
    BY <1>7, <2>1 DEF Read
  <2>3. PICK q2 : q2 = [reqs[r] EXCEPT !.sent = SentAfter(r, f)]  OBVIOUS
  <2>4. reqs' = [reqs EXCEPT ![r] = q2]  BY <2>2, <2>3
  <2>5. /\ q2 \in Request /\ q2.at = "reading" /\ q2.gen = gen /\ q2.ans = "ok"
        /\ q2.turn = reqs[r].turn
    <3>1. SentAfter(r, f) \in BOOLEAN  BY DEF SentAfter
    <3> QED  BY <1>1, <1>2, <1>3, <2>3, <3>1 DEF Request
  <2>6. q2.at \in InFlight \union {"reading"}  BY <2>5
  <2>7. ASSUME NEW i \in 1 .. Len(resp), i # 1, resp[i] \in {"idle", "error"}
        PROVE  \E j \in 1 .. Len(t) : t[j] \in {"idle", "error"}
    <3>1. i - 1 \in 1 .. Len(t) /\ i - 1 + 1 = i  BY <1>5, <2>1, <2>7
    <3>2. t[i - 1] = resp[i]  BY <1>5, <2>1, <3>1
    <3> QED  BY <2>7, <3>1, <3>2
  <2>8. PICK w : w = view'  OBVIOUS
  <2>9. f \in Frames \ {"end"}  BY <1>5, <1>7, <2>1
  <2>10. CASE /\ f \notin {"streaming", "idle", "error"}
              /\ w.status = view.status /\ w.outgoing = view.outgoing
    <3>1. ASSUME Answering PROVE Answering'
      <4>1. Saying(reqs[r], resp)  BY <1>1, <3>1, AnsweringIsOut
      <4>2. Saying(q2, t)
        <5>1. CASE reqs[r].turn = "running"  BY <2>5, <5>1 DEF Saying
        <5>2. CASE reqs[r].turn # "running"
          <6>1. PICK i \in 1 .. Len(resp) : resp[i] \in {"idle", "error"}
            BY <4>1, <5>2 DEF Saying
          <6>2. i # 1  BY <1>5, <2>1, <2>10, <6>1
          <6> QED  BY <2>7, <6>1, <6>2 DEF Saying
        <5> QED  BY <5>1, <5>2
      <4>3. Saying(q2, resp')  BY <2>2, <4>2
      <4> QED  BY <1>1, <2>4, <2>5, <2>6, <4>3, AnsweringOn
    <3>2. view.status = "streaming" /\ lost => lost'  BY <2>2, <2>8, <2>10
    <3> QED  BY <1>1, <2>8, <2>10, <3>1, <3>2, ShownTells
  <2>11. CASE f = "streaming" /\ ~Unsaid(w)
    <3>1. 1 \in 1 .. Len(resp) /\ resp[1] = "streaming"  BY <1>5, <2>1, <2>11
    <3>2. reqs[r].turn = "running" \/ ClosedAfter(resp, 1)  BY <1>4, <3>1 DEF Replies
    <3>3. Saying(q2, t)
      <4>1. CASE reqs[r].turn = "running"  BY <2>5, <4>1 DEF Saying
      <4>2. CASE ClosedAfter(resp, 1)
        <5>1. PICK i \in 1 .. Len(resp) : i > 1 /\ resp[i] \in {"idle", "error"}
          BY <4>2 DEF ClosedAfter
        <5>2. i # 1  BY <5>1
        <5> QED  BY <2>7, <5>1, <5>2 DEF Saying
      <4> QED  BY <3>2, <4>1, <4>2
    <3>4. Saying(q2, resp')  BY <2>2, <3>3
    <3>5. Answering'  BY <1>1, <2>4, <2>5, <2>6, <3>4, AnsweringOn
    <3> QED  BY <2>8, <2>11, <3>5 DEF SInv, ToldBusy, GuessedBusy, Unsaid
  <2>12. CASE w.status = "idle" /\ ~Unsaid(w)  BY <2>8, <2>12, QuietTells
  <2>13. w = Applied(view, f, r)  BY <2>2, <2>8
  <2> QED  BY <1>2, <2>9, <2>10, <2>11, <2>12, <2>13, AppliedTells
<1> QED  BY <1>6, <1>7

\* Before the server answers, nothing is to come of the request.
LEMMA AnswersTells ==
  ASSUME CInv, SInv, NEW r, WakeShows => WakeShows',
         Takes(r) \/ TakesNothing(r) \/ TurnsAway(r) \/ NotSignedIn(r) \/ ServerError(r)
  PROVE  SInv'
<1>1. Waiting(r) /\ view' = view /\ shut' = shut /\ lost' = lost
  BY DEF Takes, TakesNothing, TurnsAway, NotSignedIn, ServerError, chat
<1>2. Out(r) /\ ~Live(reqs[r])  BY <1>1 DEF Waiting, Live
<1> QED  BY <1>1, <1>2, WaitsTells

\* A turn of a request says that it is idle, or ends.
LEMMA TurnTells ==
  ASSUME CInv, SInv, NEW r, NEW from, NEW to \in {"told", "recorded", "unrecorded"},
         Turn(r, from, to),
         NEW f \in Frames, Emits(r, <<f>>), f \in {"idle", "error"} \/ from # "running",
         view' = view, shut' = shut, lost' = lost, gen' = gen, WakeShows => WakeShows'
  PROVE  SInv'
<1>1. /\ reqs \in Seq(Request) /\ resp \in Seq(Frames) /\ Len(resp) \in Nat
      /\ DOMAIN reqs = 1 .. Len(reqs)
  BY LenProperties DEF CInv, Typed
<1>2. /\ r \in 1 .. Len(reqs) /\ reqs[r].turn = from /\ reqs' = [reqs EXCEPT ![r].turn = to]
  BY <1>1 DEF Turn
<1>3. PICK q2 : q2 = [reqs[r] EXCEPT !.turn = to]  OBVIOUS
<1>4. /\ q2 \in Request /\ q2.at = reqs[r].at /\ q2.gen = reqs[r].gen /\ q2.ans = reqs[r].ans
      /\ q2.turn = to
  <2>1. reqs[r] \in Request  BY <1>1, <1>2, ElementOfSeq
  <2> QED  BY <1>3, <2>1 DEF Request
<1>5. /\ Len(reqs') = Len(reqs) /\ reqs'[r] = q2
      /\ \A q \in 1 .. Len(reqs) : q # r => reqs'[q] = reqs[q]
  <2>1. reqs' = [reqs EXCEPT ![r] = q2]  BY <1>2, <1>3
  <2> QED  BY <1>1, <1>2, <1>4, <2>1, ExceptSeq
<1>6. PICK t, u : t = <<f>> /\ u = resp \o t  OBVIOUS
<1>7. t \in Seq(Frames) /\ Len(t) = 1 /\ t[1] = f  BY <1>6
<1>8. /\ Len(u) = Len(resp) + 1
      /\ \A i \in 1 .. Len(resp) + 1 : u[i] = IF i <= Len(resp) THEN resp[i] ELSE t[i - Len(resp)]
  <2>1. /\ Len(u) = Len(resp) + Len(t)
        /\ \A i \in 1 .. Len(resp) + Len(t) :
             u[i] = IF i <= Len(resp) THEN resp[i] ELSE t[i - Len(resp)]
    BY <1>1, <1>6, <1>7, ConcatProperties
  <2> QED  BY <1>7, <2>1
<1>9. ASSUME NEW i \in 1 .. Len(resp), resp[i] \in {"idle", "error"}
      PROVE  \E j \in 1 .. Len(u) : u[j] \in {"idle", "error"}
  <2>1. i \in 1 .. Len(resp) + 1 /\ i <= Len(resp)  BY <1>1
  <2> QED  BY <1>8, <1>9, <2>1
<1>10. f \in {"idle", "error"} => \E i \in 1 .. Len(u) : u[i] \in {"idle", "error"}
  <2>1. PICK n : n = Len(resp) + 1  OBVIOUS
  <2>2. n \in 1 .. Len(resp) + 1 /\ ~(n <= Len(resp)) /\ n - Len(resp) = 1  BY <1>1, <2>1
  <2>3. u[n] = t[n - Len(resp)] /\ n \in 1 .. Len(u)  BY <1>8, <2>2
  <2>4. u[n] = f  BY <1>7, <2>2, <2>3
  <2> QED  BY <2>3, <2>4
<1>11. ASSUME Answering PROVE Answering'
  <2>1. PICK q \in 1 .. Len(reqs) : Live(reqs[q]) /\ Saying(reqs[q], resp)  BY <1>11 DEF Answering
  <2>2. PICK p : p = reqs'[q]  OBVIOUS
  <2>3. q \in 1 .. Len(reqs')  BY <1>5
  <2>4. p.at = reqs[q].at /\ p.gen = reqs[q].gen /\ p.ans = reqs[q].ans
    BY <1>4, <1>5, <2>2
  <2>5. p.at \in InFlight \union {"reading"} /\ p.gen = gen /\ p.ans = "ok"
    BY <2>1, <2>4 DEF Live
  <2>6. Live(p)'  BY <2>5 DEF Live
  <2>7. Saying(p, resp')
    <3>1. CASE q = r
      <4>1. reqs[r].at # "done"  BY <2>1, <3>1 DEF Live, InFlight
      <4>2. resp' = u  BY <1>6, <4>1 DEF Emits
      <4>3. \E i \in 1 .. Len(u) : u[i] \in {"idle", "error"}
        <5>1. CASE f \in {"idle", "error"}  BY <1>10, <5>1
        <5>2. CASE from # "running"
          <6>1. PICK i \in 1 .. Len(resp) : resp[i] \in {"idle", "error"}
            BY <1>2, <2>1, <3>1, <5>2 DEF Saying
          <6> QED  BY <1>9, <6>1
        <5> QED  BY <5>1, <5>2
      <4> QED  BY <4>2, <4>3 DEF Saying
    <3>2. CASE q # r
      <4>1. p = reqs[q]  BY <1>5, <2>2, <3>2
      <4>2. resp' = resp \/ resp' = u  BY <1>6 DEF Emits
      <4>3. CASE resp' = resp  BY <2>1, <4>1, <4>3 DEF Saying
      <4>4. CASE resp' = u
        <5>1. CASE p.turn = "running"  BY <5>1 DEF Saying
        <5>2. CASE p.turn # "running"
          <6>1. PICK i \in 1 .. Len(resp) : resp[i] \in {"idle", "error"}
            BY <2>1, <4>1, <5>2 DEF Saying
          <6>2. \E j \in 1 .. Len(u) : u[j] \in {"idle", "error"}  BY <1>9, <6>1
          <6> QED  BY <4>4, <6>2 DEF Saying
        <5> QED  BY <5>1, <5>2
      <4> QED  BY <4>2, <4>3, <4>4
    <3> QED  BY <3>1, <3>2
  <2> QED  BY <2>2, <2>3, <2>5, <2>7 DEF Answering, Live
<1> QED  BY <1>11, ShownTells

LEMMA SaysTells == ASSUME CInv, SInv, NEW r, Says(r), WakeShows => WakeShows' PROVE SInv'
<1>1. /\ Turn(r, "running", "told") /\ view' = view /\ shut' = shut /\ lost' = lost /\ gen' = gen
  BY DEF Says, chat
<1>2. PICK f \in {"idle", "error"} : Emits(r, <<f>>)  BY DEF Says
<1>3. f \in Frames  BY DEF Frames
<1> QED  BY <1>1, <1>2, <1>3, TurnTells

LEMMA EndsTells == ASSUME CInv, SInv, NEW r, Ends(r), WakeShows => WakeShows' PROVE SInv'
<1>1. view' = view /\ shut' = shut /\ lost' = lost /\ gen' = gen /\ Emits(r, <<"end">>)
  BY DEF Ends, chat
<1>2. "end" \in Frames  BY DEF Frames
<1>3. CASE Turn(r, "told", "recorded")  BY <1>1, <1>2, <1>3, TurnTells
<1>4. CASE Turn(r, "refused", "unrecorded")  BY <1>1, <1>2, <1>4, TurnTells
<1> QED  BY <1>3, <1>4 DEF Ends

\* What the page and the clock do.
LEMMA EnqueueTells ==
  ASSUME CInv, SInv, NEW path \in Paths, Enqueue(path), WakeShows => WakeShows'
  PROVE  SInv'
<1>1. /\ view' = view /\ shut' = shut /\ lost' = lost /\ gen' = gen /\ resp' = resp
      /\ reqs' = Append(reqs, NewRequest(path, gen))
  BY DEF Enqueue, chat
<1>2. PICK q0 : q0 = NewRequest(path, gen)  OBVIOUS
<1>3. reqs \in Seq(Request) /\ Len(reqs) \in Nat /\ gen \in Nat
  BY LenProperties DEF CInv, Typed
<1>4. q0 \in Request
  <2>1. MaxTries \in Nat  BY ClientBounds
  <2> QED  BY <1>2, <1>3, <2>1 DEF NewRequest, Request, Places
<1>5. Len(reqs') = Len(reqs) + 1 /\ \A q \in 1 .. Len(reqs) : reqs'[q] = reqs[q]
  BY <1>1, <1>2, <1>3, <1>4, AppendProperties
<1>6. ASSUME Answering PROVE Answering'
  <2>1. PICK q \in 1 .. Len(reqs) : Live(reqs[q]) /\ Saying(reqs[q], resp)  BY <1>6 DEF Answering
  <2>2. PICK p : p = reqs'[q]  OBVIOUS
  <2>3. p = reqs[q] /\ q \in 1 .. Len(reqs')  BY <1>3, <1>5, <2>2
  <2>4. Saying(p, resp')  BY <1>1, <2>1, <2>3
  <2> QED  BY <1>1, <2>1, <2>2, <2>3, <2>4 DEF Answering, Live
<1> QED  BY <1>1, <1>6, ShownTells

LEMMA UserTells ==
  ASSUME CInv, SInv, Reset \/ Close \/ Expire \/ Resume, Resume => (WakeShows => WakeShows')
  PROVE  SInv'
<1>1. view \in View  BY DEF CInv, Typed
<1>2. CASE Reset
  <2>1. view'.status = "idle" /\ view'.outgoing = None  BY <1>2 DEF Reset, NoView
  <2> QED  BY <2>1, QuietTells DEF Unsaid
<1>3. CASE Close
  <2>1. view'.outgoing = None  BY <1>1, <1>3, LetGoLeaves DEF Close
  <2>2. shut'  BY <1>3 DEF Close
  <2> QED  BY <2>1, <2>2 DEF SInv, ToldBusy, GuessedBusy, Unsaid
<1>4. CASE Expire
  <2>1. view' = OutOfDate(view) /\ ~view.expired  BY <1>4 DEF Expire
  <2>2. PICK w : w = view'  OBVIOUS
  <2>3. w.status = "idle" /\ ~Unsaid(w)  BY <1>1, <2>1, <2>2, OutOfDateTells
  <2> QED  BY <2>2, <2>3, QuietTells
<1>5. CASE Resume
  <2>1. UNCHANGED <<view, shut, lost, reqs, resp, gen>>  BY <1>5 DEF Resume
  <2>2. Answering => Answering'  BY <2>1 DEF Answering, Live
  <2> QED  BY <1>5, <2>1, <2>2, ShownTells
<1> QED  BY <1>2, <1>3, <1>4, <1>5

\* A step of the stream that says nothing of what the page shows.
LEMMA StreamTells ==
  ASSUME SInv, UNCHANGED <<view, shut, lost, reqs, resp, gen>>, WakeShows => WakeShows'
  PROVE  SInv'
<1>1. Answering => Answering'  BY DEF Answering, Live
<1> QED  BY <1>1, ShownTells

LEMMA DropTells == ASSUME CInv, SInv, Drop PROVE SInv'
<1>1. UNCHANGED <<view, shut, reqs, resp, gen>> /\ lost' = (lost \/ (remote /\ view.status = "streaming"))
  BY DEF Drop, chat
<1>2. Answering => Answering'  BY <1>1 DEF Answering, Live
<1> QED  BY <1>1, <1>2, ShownTells DEF WakeShows

LEMMA RefusedTells == ASSUME CInv, SInv, Refused PROVE SInv'
<1>1. /\ UNCHANGED <<shut, reqs, resp, gen>>
      /\ view' = [view EXCEPT !.status = IF view.outgoing = None /\ @ = "streaming" THEN "idle" ELSE @]
      /\ lost' = ((lost \/ (remote /\ view.outgoing # None)) /\ view'.status = "streaming")
  BY DEF Refused, TurnedAway
<1>2. view \in View  BY DEF CInv, Typed
<1>3. /\ view'.outgoing = view.outgoing
      /\ view'.status = IF view.outgoing = None /\ view.status = "streaming" THEN "idle" ELSE view.status
  BY <1>1, <1>2 DEF View
<1>4. CASE view.outgoing = None
  <2>1. view'.status = "idle"  BY <1>2, <1>3, <1>4 DEF View, Says0
  <2> QED  BY <1>3, <1>4, <2>1, QuietTells DEF Unsaid
<1>5. CASE view.outgoing # None
  <2>1. Answering => Answering'  BY <1>1 DEF Answering, Live
  <2>2. view'.status = view.status  BY <1>3, <1>5
  <2>3. view.status = "streaming" /\ (lost \/ remote) => lost'  BY <1>1, <1>5, <2>2
  <2> QED  BY <1>1, <1>3, <2>1, <2>2, <2>3, ShownTells DEF WakeShows
<1> QED  BY <1>4, <1>5

LEMMA HearTells == ASSUME CInv, LInv, SInv, Hear PROVE SInv'
<1>1. PICK f : f = Head(OnTheWay)  OBVIOUS
<1>2. /\ UNCHANGED <<shut, reqs, resp, gen>>
      /\ view' = IF f.k \in {"streaming", "idle"} THEN Status(view, f.k) ELSE view
      /\ lost' = (lost /\ f.k \notin {"streaming", "idle"})
  BY <1>1 DEF Hear, OnTheWay, server
<1>3. view \in View  BY DEF CInv, Typed
<1>4. f.k \in Words
  <2>1. OnTheWay \in Seq(Word) /\ OnTheWay # <<>>  BY FrameFacts DEF Hear, OnTheWay
  <2>2. f \in Word  BY <1>1, <2>1, HeadTailProperties
  <2> QED  BY <2>2 DEF Word
<1>5. CASE f.k = "streaming"
  <2>1. WakeShows'  BY <1>1, <1>5, HearKeeps
  <2>2. PICK w : w = view'  OBVIOUS
  <2>3. w = Status(view, "streaming")  BY <1>2, <1>5, <2>2
  <2>4. ~Unsaid(w)  BY <1>3, <2>3, StatusTells
  <2> QED  BY <2>1, <2>2, <2>4 DEF SInv, ToldBusy, GuessedBusy, Unsaid
<1>6. CASE f.k = "idle"
  <2>1. PICK w : w = view'  OBVIOUS
  <2>2. w = Status(view, "idle") /\ "idle" \in Says0  BY <1>2, <1>6, <2>1 DEF Says0
  <2>3. w.status = "idle" /\ ~Unsaid(w)  BY <1>3, <2>2, StatusKeeps, StatusTells
  <2> QED  BY <2>1, <2>3, QuietTells
<1>7. CASE f.k = "released"
  <2>1. ~WakeShows  BY <1>1, <1>7, HearKeeps
  <2>2. view' = view /\ (lost => lost')  BY <1>2, <1>7
  <2>3. Answering => Answering'  BY <1>2 DEF Answering, Live
  <2> QED  BY <1>2, <2>1, <2>2, <2>3, ShownTells
<1> QED  BY <1>4, <1>5, <1>6, <1>7 DEF Words

LEMMA SInvInit == ASSUME Init PROVE SInv
<1>1. view.status = "idle" /\ view.outgoing = None  BY DEF Init, NoView
<1> QED  BY <1>1 DEF SInv, ToldBusy, GuessedBusy, Unsaid

LEMMA ChainTells ==
  ASSUME CInv, CInv', LInv, SInv, NEW r, Progress(r) \/ Cut(r) \/ Service(r)
  PROVE  SInv'
<1>1. CASE Aside(r)
  <2>1. WakeShows => WakeShows'  BY <1>1, AsideKeeps
  <2>2. CASE Pump(r)  BY <2>1, <2>2, PumpTells
  <2>3. CASE Retry(r)  BY <2>1, <2>3, RetryTells
  <2>4. CASE TryOn(r)  BY <2>1, <2>4, TryOnTells
  <2>5. CASE Busy(r)  BY <2>1, <2>5, BusyTells
  <2>6. CASE Errs(r)  BY <2>6, FailsTells
  <2>7. CASE Aborted(r)  BY <2>1, <2>7, AbortedTells
  <2>8. CASE Cut(r)  BY <2>8, CutTells
  <2>9. CASE TakesNothing(r) \/ TurnsAway(r) \/ NotSignedIn(r) \/ ServerError(r)
    BY <2>1, <2>9, AnswersTells
  <2>10. CASE Says(r)  BY <2>1, <2>10, SaysTells
  <2>11. CASE Ends(r)  BY <2>1, <2>11, EndsTells
  <2> QED
    BY <1>1, <2>2, <2>3, <2>4, <2>5, <2>6, <2>7, <2>8, <2>9, <2>10, <2>11 DEF Aside
<1>2. CASE Denied(r)  BY <1>2, FailsTells
<1>3. CASE TakenUp(r)  BY <1>3, ListensKeeps, TakenUpTells
<1>4. CASE Read(r)  BY <1>4, ListensKeeps, ReadTells
<1>5. CASE Takes(r)  BY <1>5, TakesKeeps, AnswersTells
<1> QED  BY <1>1, <1>2, <1>3, <1>4, <1>5 DEF Progress, Service, Aside

LEMMA SInvStep == ASSUME CInv, LInv, SInv, [Next]_vars PROVE SInv'
<1>1. CInv'  BY CInvStep
<1>2. CASE UNCHANGED vars
  <2>1. WakeShows => WakeShows'  BY <1>1, <1>2, AlongKeeps
  <2> QED  BY <1>2, <2>1, StreamTells DEF vars
<1>3. ASSUME NEW path \in Paths, Enqueue(path) PROVE SInv'
  <2>1. WakeShows => WakeShows'  BY <1>1, <1>3, AlongKeeps
  <2> QED  BY <1>3, <2>1, EnqueueTells
<1>4. CASE Reset \/ Close \/ Expire \/ Resume
  <2>1. Resume => (WakeShows => WakeShows')  BY ListensKeeps
  <2> QED  BY <1>4, <2>1, UserTells
<1>5. ASSUME NEW r \in DOMAIN reqs, Progress(r) \/ Cut(r) \/ Service(r) PROVE SInv'
  BY <1>1, <1>5, ChainTells
<1>6. CASE Connect \/ FallBack \/ PollEnds
  <2>1. UNCHANGED <<view, shut, lost, reqs, resp, gen, convs>>
    BY <1>6 DEF Connect, FallBack, PollEnds, chat, server
  <2>2. WakeShows => WakeShows'  BY <1>6, <2>1, ConnectKeeps, FallBackKeeps, PollEndsKeeps
  <2> QED  BY <2>1, <2>2, StreamTells
<1>7. CASE Refused  BY <1>7, RefusedTells
<1>8. CASE Drop  BY <1>8, DropTells
<1>9. CASE Hear  BY <1>9, HearTells
<1>10. ASSUME NEW c \in DOMAIN convs, WakeStarts(c) PROVE SInv'
  <2>1. UNCHANGED <<view, shut, lost, reqs, resp, gen>>  BY <1>10 DEF WakeStarts, chat
  <2> QED  BY <1>10, <2>1, WakeStartsKeeps, StreamTells
<1>11. CASE WakeGoesOn
  <2>1. UNCHANGED <<view, shut, lost, reqs, resp, gen>>
    BY <1>11 DEF WakeGoesOn, WakeTells, WakeEnds, chat
  <2>2. WakeShows => WakeShows'  BY <1>11, WakeTellsKeeps, WakeEndsKeeps DEF WakeGoesOn
  <2> QED  BY <2>1, <2>2, StreamTells
<1> QED
  BY <1>2, <1>3, <1>4, <1>5, <1>6, <1>7, <1>8, <1>9, <1>10, <1>11 DEF Next

LEMMA SInvHolds == Spec => [](CInv /\ LInv /\ SInv)
<1>1. Init => CInv /\ LInv /\ SInv  BY CInvInit, LInvInit, SInvInit
<1>2. CInv /\ LInv /\ SInv /\ [Next]_vars => (CInv /\ LInv /\ SInv)'
  BY CInvStep, LInvStep, SInvStep
<1> QED  BY <1>1, <1>2, PTL DEF Spec

-----------------------------------------------------------------------------
(* The theorems                                                            *)

\* The promise of `send` tells the truth: "not sent" only of a message the server
\* recorded nothing of, "sent" only of one it took up and did not refuse; so
\* that giving a text back to its writer never doubles it, and not giving it back
\* never loses it. (pump's and exchange's `outcome.sent`)
THEOREM PromisesAreKept == Spec => []SendTellsTruth
<1>1. ASSUME CInv PROVE SendTellsTruth
  <2>1. DOMAIN reqs = 1 .. Len(reqs)  BY <1>1, LenProperties DEF CInv, Typed
  <2>2. ASSUME NEW r \in DOMAIN reqs, reqs[r].gen = gen
        PROVE  /\ reqs[r].res = "false" => reqs[r].turn \in {"none", "refused", "unrecorded"}
               /\ reqs[r].res = "true" =>
                    reqs[r].ans \in {"ok", "error"} /\ reqs[r].turn \notin {"refused", "unrecorded"}
    <3>1. Sound(reqs[r], gen, shut, convs, resp)  BY <1>1, <2>1 DEF CInv, AllSound
    <3> QED  BY <2>2, <3>1 DEF Sound, Truthful, Unsaved
  <2> QED  BY <2>2 DEF SendTellsTruth
<1> QED  BY <1>1, CInvHolds, PTL

\* A request goes to the conversation it was made in, whatever it waited for
\* while reset() or close() came, and the page's conversation is one it began.
\* (pump's and exchange's looks at the generation)
THEOREM RequestsStayInTheirConversation == Spec => []ReachesItsConversation
<1>1. ASSUME CInv PROVE ReachesItsConversation
  <2>1. DOMAIN reqs = 1 .. Len(reqs)  BY <1>1, LenProperties DEF CInv, Typed
  <2>2. ASSUME NEW r \in DOMAIN reqs
        PROVE  /\ reqs[r].on = reqs[r].gen
               /\ reqs[r].to # None => convs[reqs[r].to] = reqs[r].gen
    <3>1. Sound(reqs[r], gen, shut, convs, resp)  BY <1>1, <2>1 DEF CInv, AllSound
    <3> QED  BY <3>1 DEF Sound
  <2>3. conv # None /\ ~shut => convs[conv] = gen  BY <1>1 DEF CInv, OfNow
  <2> QED  BY <2>2, <2>3 DEF ReachesItsConversation
<1> QED  BY <1>1, CInvHolds, PTL

\* A message shows as pending only while its own request is out, and never
\* beside the server's copy of it. (goOut, withdraw, settle, reset, close)
THEOREM OnlyWhatIsOutIsPending == Spec => []PendingIsOut
<1>1. ASSUME CInv PROVE PendingIsOut
  BY <1>1 DEF CInv, Showing, PendingIsOut
<1> QED  BY <1>1, CInvHolds, PTL

\* Requests wait for a wake turn only while word of its end is on its way, or
\* will be: no lost connection, refusal or poll leaves them waiting for ever.
\* (follow's drops, refusals and polls; finishRemote)
THEOREM HeldOnlyWithWordToCome == Spec => []HeldOnlyWhileTold
<1>1. ASSUME LInv PROVE HeldOnlyWhileTold
  <2>1. DOMAIN OnTheWay = 1 .. Len(OnTheWay)  BY <1>1, FrameFacts, LenProperties
  <2>2. SUFFICES ASSUME remote PROVE HeldOnlyWhileTold  BY DEF HeldOnlyWhileTold
  <2>3. Over(0) \/ Later  BY <1>1, <2>2 DEF LInv, Held
  <2>4. CASE Over(0)
    <3>1. PICK j \in DOMAIN line.frames : line.frames[j].k = "released"
      BY <2>1, <2>4 DEF Over, OnTheWay
    <3>2. line.at = "open"
      <4>1. CASE line.at # "open"
        <5>1. line.frames = <<>>  BY <1>1, <4>1 DEF LInv, LineTyped, OnTheWay
        <5> QED  BY <3>1, <5>1
      <4> QED  BY <4>1
    <3> QED  BY <3>1, <3>2 DEF HeldOnlyWhileTold
  <2>5. CASE Later  BY <2>5 DEF Later, Running, HeldOnlyWhileTold
  <2> QED  BY <2>3, <2>4, <2>5
<1> QED  BY <1>1, LInvHolds, PTL

\* `streaming` shows only while something is under way that will end it: a wake
\* turn, or a request of this conversation that is out; or else the end of the
\* turn that showed it was lost with its connection. So no order of answers,
\* failures, wake turns and what the user does leaves the page waiting for
\* nothing. (settle, the statuses of a response and of the events stream)
THEOREM StreamingShowsWhatIsUnderWay == Spec => []StreamingMeansBusy
<1>1. ASSUME CInv, SInv PROVE StreamingMeansBusy
  <2>1. reqs \in Seq(Request) /\ DOMAIN reqs = 1 .. Len(reqs)
    BY <1>1, LenProperties DEF CInv, Typed
  <2>2. SUFFICES ASSUME view.status = "streaming", ~shut, ~remote, ~lost
                 PROVE  \E r \in DOMAIN reqs :
                          /\ reqs[r].gen = gen
                          /\ reqs[r].at \in InFlight \union {"held", "retry", "heldAgain", "backoff", "reading"}
    BY DEF StreamingMeansBusy
  <2>3. CASE Unsaid(view)
    <3>1. PICK r : r = view.outgoing.req  OBVIOUS
    <3>2. r \in 1 .. Len(reqs) /\ reqs[r].at \notin {"queued", "held", "done"} /\ reqs[r].gen = gen
      BY <1>1, <2>3, <3>1 DEF CInv, Showing, Unsaid
    <3>3. reqs[r].at \in Places
      <4>1. reqs[r] \in Request  BY <2>1, <3>2, ElementOfSeq
      <4> QED  BY <4>1 DEF Request
    <3> QED  BY <2>1, <3>2, <3>3 DEF Places, InFlight
  <2>4. CASE ~Unsaid(view)
    <3>1. Answering  BY <1>1, <2>2, <2>4 DEF SInv, ToldBusy, WakeShows
    <3> QED  BY <2>1, <3>1 DEF Answering, Live
  <2> QED  BY <2>3, <2>4
<1> QED  BY <1>1, SInvHolds, PTL

=============================================================================
