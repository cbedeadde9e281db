---------------------------- MODULE Turns_proofs ----------------------------
(***************************************************************************)
(* What Turns says of any number of requests, wakes and revisions,         *)
(* whatever lapses, is killed or fails to save: no notice sets tools       *)
(* running twice, no revision of hai.update and its notice come apart, and *)
(* a model runs on no revision it has not heard of.                        *)
(*                                                                         *)
(* An invariant has to hold of the copies as well as of the row: the one a *)
(* request works on, and the one a wake turn keeps to put back (`before`). *)
(* It has four parts, which hold together.                                 *)
(*   Typed    the types, and for every copy that its chains of revisions   *)
(*            end, so that currentHandle has a value (Good).               *)
(*   Leased   running requests have tokens of their own, none newer than   *)
(*            the row's; so one request at most can still save.            *)
(*   Woken    a notice that may run is one the row has been woken for, and *)
(*            may run under one token. The request that can still save has *)
(*            been woken for all that may run under other tokens, in its   *)
(*            copy and in the one it may put back: putting back            *)
(*            wokeThrough frees no notice but those of its own turn, in    *)
(*            which no tool ran.                                           *)
(*   Telling  in every copy a revision is told of or its notice owed, no   *)
(*            notice tells of one the row has not, and a turn that has     *)
(*            begun owes nothing and has noticed what tells of each.       *)
(*            Whoever can save has every revision on the row, so what it   *)
(*            owes is all there is to owe.                                 *)
(*                                                                         *)
(* An overtaken request works on with an old copy. Of it the parts say     *)
(* what others' saves leave true: its token is older, and notices are only *)
(* added.                                                                  *)
(***************************************************************************)
EXTENDS Turns, SequenceTheorems, WellFoundedInduction, TLAPS

\* The types: a message, a notice, a revision, the conversation and a request's work.
Numbers == Nat \X Nat

Message ==
  [role : {"user"}, results : SUBSET Numbers, quoted : Seq(Nat)]
    \union [role : {"assistant"}, calls : SUBSET Nat]

Question == [call : Nat, results : SUBSET Numbers, handle : Nat]
Note     == [wake : BOOLEAN, handle : Nat, replaces : Nat]
Revision == [old : Nat, new : Nat, outside : BOOLEAN]
Asking   == [call : Nat, handle : Nat]

Conversation ==
  [status : Status, msgs : Seq(Message), handles : SUBSET Nat, frozen : SUBSET Nat,
   superseded : SUBSET Revision, pending : Question \union {None}, noticed : Nat,
   woke : Nat, wakeTurns : Nat, announcing : Note \union {None}]

Stages == {"off", "announce", "append", "begin", "commit", "tell", "model",
           "tool", "context", "end"}

Work ==
  [pc : Stages, kind : AllKinds \union {"none"}, token : Nat, c : Conversation,
   before : Conversation \union {None}, hop : Nat, call : Nat, calls : Nat,
   results : SUBSET Numbers, asking : Nat, asked : Nat, parked : Asking \union {None},
   init : Seq(Nat) \union {None}, ran : BOOLEAN, wakes : SUBSET Nat]

-----------------------------------------------------------------------------
(* Chains of revisions                                                      *)

\* A surface's revision, among those given.
NextIn(revisions, h) == (CHOOSE s \in revisions : s.old = h).new
Olds(revisions) == {s.old : s \in revisions}

\* No surface has two revisions, and all are between surfaces 1 .. seq.
Single(revisions, seq) ==
  /\ revisions \in SUBSET Revision
  /\ \A s \in revisions : s.old \in 1 .. seq /\ s.new \in 1 .. seq
  /\ \A s, t \in revisions : s.old = t.old => s = t

\* e takes each of n handles to the end of its chain, as currentHandle does.
Ends(e, n, revisions) ==
  e = [x \in 1 .. n |-> IF x \in Olds(revisions) THEN e[NextIn(revisions, x)] ELSE x]

\* e alone does, and to ends that nothing has revised; handles not given out
\* yet, those past seq, are in no chain.
TheEnds(e, n, seq, revisions) ==
  /\ e \in [1 .. n -> (1 .. n) \ Olds(revisions)]
  /\ Ends(e, n, revisions)
  /\ \A f : Ends(f, n, revisions) => f = e
  /\ \A x \in 1 .. n : (x <= seq => e[x] <= seq) /\ (x > seq => e[x] = x)

LEMMA NextIsTheOne ==
  ASSUME NEW revisions, NEW seq \in Nat, Single(revisions, seq)
  PROVE  /\ \A s \in revisions : NextIn(revisions, s.old) = s.new
         /\ \A h \in Olds(revisions) : h \in 1 .. seq /\ NextIn(revisions, h) \in 1 .. seq
<1>1. ASSUME NEW s \in revisions
      PROVE  NextIn(revisions, s.old) = s.new
  <2> DEFINE t == CHOOSE t \in revisions : t.old = s.old
  <2>1. t \in revisions /\ t.old = s.old  OBVIOUS
  <2>2. t = s  BY <2>1 DEF Single
  <2> QED  BY <2>2 DEF NextIn
<1>2. ASSUME NEW h \in Olds(revisions)
      PROVE  h \in 1 .. seq /\ NextIn(revisions, h) \in 1 .. seq
  <2>1. PICK s \in revisions : s.old = h  BY DEF Olds
  <2>2. NextIn(revisions, h) = s.new  BY <1>1, <2>1
  <2> QED  BY <2>1, <2>2 DEF Single
<1> QED  BY <1>1, <1>2

\* A revision takes the chains that ended at the surface it revises on to its
\* own, and leaves the others.
LEMMA ChainGrows ==
  ASSUME NEW revisions, NEW n \in Nat, NEW seq \in Nat, seq < n, Single(revisions, seq),
         NEW e, TheEnds(e, n, seq, revisions),
         NEW rec \in Revision, NEW old \in 1 .. seq, old \notin Olds(revisions),
         rec.old = old, rec.new = seq + 1,
         NEW all, all = revisions \union {rec}
  PROVE  /\ Single(all, seq + 1)
         /\ Olds(all) = Olds(revisions) \union {old}
         /\ \E g :
              /\ TheEnds(g, n, seq + 1, all)
              /\ \A x \in 1 .. seq : (e[x] = old => g[x] = seq + 1) /\ (e[x] # old => g[x] = e[x])
<1> DEFINE new == seq + 1
           more == 1 .. n
           g == [x \in more |-> IF e[x] = old THEN new ELSE e[x]]
<1>1. /\ \A s \in revisions : NextIn(revisions, s.old) = s.new
      /\ \A h \in Olds(revisions) : h \in 1 .. seq /\ NextIn(revisions, h) \in 1 .. seq
  BY NextIsTheOne
<1>2. /\ e \in [more -> more \ Olds(revisions)]
      /\ \A x \in more : e[x] = IF x \in Olds(revisions) THEN e[NextIn(revisions, x)] ELSE x
      /\ \A x \in more : (x <= seq => e[x] <= seq) /\ (x > seq => e[x] = x)
  BY DEF TheEnds, Ends
<1>3. all = revisions \union {rec} /\ rec \in Revision /\ rec.old = old /\ rec.new = new
  OBVIOUS
<1>4. Olds(all) = Olds(revisions) \union {old}
  BY <1>3 DEF Olds
<1>0. /\ new \in more /\ new \notin 1 .. seq /\ \A x \in 1 .. seq : x \in more
      /\ old \in 1 .. seq /\ old \notin Olds(revisions) /\ old # new /\ old \in more
      /\ new > seq
  OBVIOUS
<1>5. Single(all, new)
  <2>1. \A s \in revisions : s.old # old  BY DEF Olds
  <2>2. all \in SUBSET Revision  BY <1>3 DEF Single
  <2>3. \A s \in all : s.old \in 1 .. new /\ s.new \in 1 .. new
    BY <1>3, <1>0 DEF Single
  <2>4. \A s, t \in all : s.old = t.old => s = t
    BY <1>3, <2>1 DEF Single
  <2> QED  BY <2>2, <2>3, <2>4 DEF Single
<1>6. \A s \in all : NextIn(all, s.old) = s.new
  BY <1>5, NextIsTheOne
<1>7. NextIn(all, old) = new
  BY <1>6, <1>3
<1>8. \A h \in Olds(revisions) : NextIn(all, h) = NextIn(revisions, h)
  <2> TAKE h \in Olds(revisions)
  <2>1. PICK s \in revisions : s.old = h  BY DEF Olds
  <2> QED  BY <1>1, <1>6, <1>3, <2>1
<1>9. new \notin Olds(all) /\ new \notin Olds(revisions)
  BY <1>0, <1>1, <1>4
<1>10. g \in [more -> more \ Olds(all)]
  BY <1>0, <1>2, <1>4, <1>9
<1>11. \A x \in more : g[x] = IF x \in Olds(all) THEN g[NextIn(all, x)] ELSE x
  <2> TAKE x \in more
  <2>1. CASE x = old
    <3>1. e[x] = old  BY <1>0, <1>2, <2>1
    <3>2. e[new] = new  BY <1>0, <1>2
    <3> QED  BY <3>1, <3>2, <1>0, <1>4, <1>7, <2>1
  <2>2. CASE x \in Olds(revisions)
    <3>1. NextIn(all, x) = NextIn(revisions, x) /\ NextIn(all, x) \in more
      BY <1>0, <1>1, <1>8, <2>2
    <3>2. e[x] = e[NextIn(all, x)] /\ x \in Olds(all)  BY <1>2, <1>4, <2>2, <3>1
    <3> QED  BY <3>1, <3>2
  <2>3. CASE x \notin Olds(revisions) /\ x # old
    <3>1. e[x] = x /\ x \notin Olds(all)  BY <1>2, <1>4, <2>3
    <3> QED  BY <2>3, <3>1
  <2> QED  BY <2>1, <2>2, <2>3
<1>12. Ends(g, n, all)
  <2> HIDE DEF g
  <2> QED  BY <1>10, <1>11 DEF Ends
<1>13. ASSUME NEW f, Ends(f, n, all)
       PROVE  f = g
  \* Taken back to the chains before it, f is the one there was; so it ends
  \* none of them at old.
  <2> DEFINE back == [x \in more |-> IF x = new THEN new ELSE IF f[x] = new THEN old
                                     ELSE IF f[x] = old THEN 0 ELSE f[x]]
  <2>1. \A x \in more : f[x] = IF x \in Olds(all) THEN f[NextIn(all, x)] ELSE x
    BY <1>13 DEF Ends
  <2>2. f[new] = new  BY <1>0, <1>9, <2>1
  <2>3. \A x \in more : back[x] = IF x \in Olds(revisions) THEN back[NextIn(revisions, x)] ELSE x
    <3> TAKE x \in more
    <3>0. CASE x = new  BY <1>9, <3>0
    <3>1. CASE x = old
      <4>1. f[x] = f[new]  BY <1>0, <1>4, <1>7, <2>1, <3>1
      <4> QED  BY <1>0, <2>2, <3>1, <4>1
    <3>2. CASE x \in Olds(revisions)
      <4>1. f[x] = f[NextIn(revisions, x)] /\ NextIn(revisions, x) \in more /\ x # new
            /\ NextIn(revisions, x) # new
        BY <1>0, <1>1, <1>4, <1>8, <1>9, <2>1, <3>2
      <4> QED  BY <3>2, <4>1
    <3>3. CASE x \notin Olds(revisions) /\ x # old /\ x # new
      <4>1. f[x] = x  BY <1>0, <1>4, <2>1, <3>3
      <4> QED  BY <3>3, <4>1
    <3> QED  BY <3>0, <3>1, <3>2, <3>3
  <2>4. back = e
    <3>1. back = [x \in more |-> back[x]]  OBVIOUS
    <3>2. Ends(back, n, revisions)
      <4> HIDE DEF back
      <4> QED  BY <2>3, <3>1 DEF Ends
    <3> QED  BY <3>2 DEF TheEnds
  <2>5. \A x \in more : f[x] = g[x]
    <3> TAKE x \in more
    <3>1. CASE x = new
      <4>1. e[x] = new  BY <1>0, <1>2, <3>1
      <4> QED  BY <1>0, <2>2, <3>1, <4>1
    <3>2. CASE x # new
      <4>1. e[x] = IF f[x] = new THEN old ELSE IF f[x] = old THEN 0 ELSE f[x]
        BY <2>4, <3>2
      <4>2. e[x] \in 1 .. n  BY <1>2
      <4>3. e[x] # 0  BY <4>2
      <4> QED  BY <1>0, <4>1, <4>3
    <3> QED  BY <3>1, <3>2
  <2>6. f = [x \in more |-> f[x]]
    <3>1. f = [x \in more |-> IF x \in Olds(all) THEN f[NextIn(all, x)] ELSE x]
      BY <1>13 DEF Ends
    <3> QED  BY <2>1, <3>1
  <2> QED  BY <2>5, <2>6
<1>14. \A x \in 1 .. seq : (e[x] = old => g[x] = new) /\ (e[x] # old => g[x] = e[x])
  BY <1>0
<1>15. \A x \in more : (x <= new => g[x] <= new) /\ (x > new => g[x] = x)
  <2> TAKE x \in more
  <2>1. CASE x <= seq  BY <2>1, <1>2, <1>0
  <2>2. CASE x > seq  BY <2>2, <1>2, <1>0
  <2> QED  BY <2>1, <2>2
<1> HIDE DEF g
<1>16. TheEnds(g, n, new, all)  BY <1>10, <1>12, <1>13, <1>15 DEF TheEnds
<1> QED  BY <1>4, <1>5, <1>14, <1>16

\* currentHandle finds the end of a surface's chain.
LEMMA CurrentIsTheEnd ==
  ASSUME NEW c, NEW seq, NEW e, TheEnds(e, MaxHandle, seq, c.superseded), NEW h
  PROVE  CurrentHandle(c, h) = e[h]
<1> DEFINE at == CHOOSE f : f = [x \in Handle |->
                   IF x \in Superseded(c)
                   THEN f[(CHOOSE s \in c.superseded : s.old = x).new] ELSE x]
<1>1. CurrentHandle(c, h) = at[h]  BY DEF CurrentHandle
<1>2. Ends(at, MaxHandle, c.superseded)
  <2>1. e = [x \in Handle |-> IF x \in Superseded(c)
                              THEN e[(CHOOSE s \in c.superseded : s.old = x).new] ELSE x]
    BY DEF TheEnds, Handle, Ends, NextIn, Olds, Superseded
  <2>2. at = [x \in Handle |-> IF x \in Superseded(c)
                              THEN at[(CHOOSE s \in c.superseded : s.old = x).new] ELSE x]
    BY <2>1
  <2> QED  BY <2>2 DEF Ends, NextIn, Olds, Superseded, Handle
<1>3. at = e  BY <1>2 DEF TheEnds
<1> QED  BY <1>1, <1>3

\* A set of numbers that has a bound has a greatest member.
Less == {ss \in Nat \X Nat : ss[1] < ss[2]}

LEMMA GreatestOfBounded ==
  ASSUME NEW S \in SUBSET Nat, S # {}, NEW n \in Nat, \A x \in S : x <= n
  PROVE  \E m \in S : \A x \in S : x <= m
<1> DEFINE Above == {m \in Nat : \A x \in S : x <= m}
<1>1. IsWellFoundedOn(Less, Nat)
  BY NatLessThanWellFounded DEF OpToRel, Less
<1>2. PICK m \in Above : \A k \in Above : <<k, m>> \notin Less
  <2>1. Above \subseteq Nat /\ n \in Above
    OBVIOUS
  <2> HIDE DEF Above
  <2> QED
    BY <1>1, <2>1, WFMin
<1>3. m \in S
  <2> SUFFICES ASSUME m \notin S PROVE FALSE
    OBVIOUS
  <2>1. PICK x \in S : TRUE
    OBVIOUS
  <2>2. x < m /\ m \in Nat /\ x \in Nat
    BY <2>1
  <2>3. m - 1 \in Above
    BY <2>2
  <2>4. <<m - 1, m>> \in Less
    BY <2>2 DEF Less
  <2> QED
    BY <1>2, <2>3, <2>4
<1> QED
  BY <1>3

\* The newest unread wake notice is one, and the newest.
LEMMA NewestIsNewest ==
  ASSUME NEW c \in Conversation, notices \in Seq(Note)
  PROVE  /\ NewestWake(c) \in Nat
         /\ NewestWake(c) <= Len(notices)
         /\ \A n \in UnreadWakes(c) : n \in Nat /\ n <= NewestWake(c)
         /\ UnreadWakes(c) \subseteq Nat
<1>1. Len(notices) \in Nat /\ c.noticed \in Nat
  BY LenProperties DEF Conversation
<1>2. UnreadWakes(c) \in SUBSET Nat /\ \A n \in UnreadWakes(c) : n <= Len(notices)
  BY <1>1 DEF UnreadWakes
<1>3. CASE UnreadWakes(c) = {}
  BY <1>1, <1>2, <1>3 DEF NewestWake
<1>4. CASE UnreadWakes(c) # {}
  <2>1. \E n \in UnreadWakes(c) : \A m \in UnreadWakes(c) : m <= n
    BY <1>1, <1>2, <1>4, GreatestOfBounded
  <2>2. /\ NewestWake(c) \in UnreadWakes(c)
        /\ \A m \in UnreadWakes(c) : m <= NewestWake(c)
    BY <1>4, <2>1 DEF NewestWake
  <2> QED  BY <1>1, <1>2, <2>2
<1> QED  BY <1>3, <1>4

-----------------------------------------------------------------------------
(* A copy of the conversation                                               *)

\* What a copy says of surfaces is of surfaces given out, 1 .. seq of n, and
\* each chain of revisions in it has one end.
Good(c, n, seq) ==
  /\ c \in Conversation
  /\ c.handles \subseteq 1 .. seq /\ c.frozen \subseteq 1 .. seq
  /\ c.pending # None => c.pending.handle \in 1 .. seq
  /\ Single(c.superseded, seq)
  /\ \E e : TheEnds(e, n, seq, c.superseded)

LEMMA GoodAtFirst ==
  ASSUME NEW n \in Nat
  PROVE  Good(NewConversation, n, 0)
<1> DEFINE e == [x \in 1 .. n |-> x]
<1>1. NewConversation \in Conversation
  BY DEF NewConversation, Conversation, Status
<1>2. Olds({}) = {}  BY DEF Olds
<1>3. TheEnds(e, n, 0, {})
  <2>1. Ends(e, n, {})  BY <1>2 DEF Ends
  <2>2. ASSUME NEW f, Ends(f, n, {})
        PROVE  f = e
    <3>1. f = [x \in 1 .. n |-> IF x \in {} THEN f[NextIn({}, x)] ELSE x]
      BY <2>2, <1>2 DEF Ends
    <3> QED  BY <3>1
  <2> QED  BY <1>2, <2>1, <2>2 DEF TheEnds
<1>4. Single({}, 0)  BY DEF Single
<1> HIDE DEF e
<1> QED  BY <1>1, <1>3, <1>4 DEF Good, NewConversation

\* Surfaces are given out, none taken back.
LEMMA GoodLater ==
  ASSUME NEW n \in Nat, NEW seq \in Nat, NEW c, Good(c, n, seq)
  PROVE  Good(c, n, seq + 1)
<1>1. PICK e : TheEnds(e, n, seq, c.superseded)  BY DEF Good
<1>2. TheEnds(e, n, seq + 1, c.superseded)
  <2>1. \A x \in 1 .. n : e[x] \in 1 .. n  BY <1>1 DEF TheEnds
  <2>2. \A x \in 1 .. n : (x <= seq => e[x] <= seq) /\ (x > seq => e[x] = x)
    BY <1>1 DEF TheEnds
  <2>3. \A x \in 1 .. n : (x <= seq + 1 => e[x] <= seq + 1) /\ (x > seq + 1 => e[x] = x)
    <3> TAKE x \in 1 .. n
    <3>1. CASE x <= seq  BY <2>1, <2>2, <3>1
    <3>2. CASE x > seq  BY <2>1, <2>2, <3>2
    <3> QED  BY <3>1, <3>2
  <2> QED  BY <1>1, <2>3 DEF TheEnds
<1>3. Single(c.superseded, seq + 1)  BY DEF Good, Single
<1>4. /\ c.handles \subseteq 1 .. seq + 1 /\ c.frozen \subseteq 1 .. seq + 1
      /\ c.pending # None => c.pending.handle \in 1 .. seq + 1
  BY DEF Good
<1> QED  BY <1>2, <1>3, <1>4 DEF Good

\* A copy with the same surfaces, whatever else became of it.
LEMMA GoodSame ==
  ASSUME NEW n, NEW seq, NEW c, Good(c, n, seq), NEW d \in Conversation,
         d.handles \subseteq c.handles, d.frozen \subseteq 1 .. seq,
         d.superseded = c.superseded,
         d.pending = c.pending \/ d.pending = None \/ d.pending.handle \in 1 .. seq
  PROVE  Good(d, n, seq)
BY DEF Good

LEMMA MessagesTyped ==
  ASSUME NEW results \in SUBSET Numbers, NEW quoted \in Seq(Nat), NEW calls \in SUBSET Nat
  PROVE  User(results, quoted) \in Message /\ Assistant(calls) \in Message
BY DEF User, Assistant, Message

LEMMA Pushed ==
  ASSUME NEW n, NEW seq, NEW c, Good(c, n, seq), NEW m \in Message
  PROVE  /\ Good(Push(c, m), n, seq)
         /\ Push(c, m) = [c EXCEPT !.msgs = Append(c.msgs, m)]
         /\ Append(c.msgs, m) \in Seq(Message)
<1>1. Append(c.msgs, m) \in Seq(Message)  BY DEF Good, Conversation
<1>2. Push(c, m) \in Conversation  BY <1>1 DEF Good, Conversation, Push
<1>3. Push(c, m) = [c EXCEPT !.msgs = Append(c.msgs, m)]  BY DEF Push
<1>4. /\ Push(c, m).handles = c.handles /\ Push(c, m).frozen = c.frozen
      /\ Push(c, m).superseded = c.superseded /\ Push(c, m).pending = c.pending
  BY DEF Good, Conversation, Push
<1>5. Good(Push(c, m), n, seq)  BY <1>2, <1>4 DEF Good
<1> QED  BY <1>1, <1>3, <1>5

\* The same with what it has noticed: a user message is recorded.
LEMMA TakenInGood ==
  ASSUME NEW n, NEW seq, NEW c, Good(c, n, seq), NEW through \in Nat
  PROVE  Good(TakenIn(c, through), n, seq)
<1>1. TakenIn(c, through) \in Conversation  BY DEF Good, Conversation, TakenIn
<1>4. /\ TakenIn(c, through).handles = c.handles /\ TakenIn(c, through).frozen = c.frozen
      /\ TakenIn(c, through).superseded = c.superseded /\ TakenIn(c, through).pending = c.pending
  BY DEF Good, Conversation, TakenIn
<1> QED  BY <1>1, <1>4 DEF Good

LEMMA StatusGood ==
  ASSUME NEW n, NEW seq, NEW c, Good(c, n, seq), NEW s \in Status
  PROVE  Good([c EXCEPT !.status = s], n, seq)
<1> DEFINE d == [c EXCEPT !.status = s]
<1>1. d \in Conversation  BY DEF Good, Conversation
<1>4. /\ d.handles = c.handles /\ d.frozen = c.frozen
      /\ d.superseded = c.superseded /\ d.pending = c.pending
  BY DEF Good, Conversation
<1> QED  BY <1>1, <1>4 DEF Good

LEMMA AnsweredGood ==
  ASSUME NEW n, NEW seq, NEW c, Good(c, n, seq), c.pending # None, NEW quoted \in Seq(Nat)
  PROVE  /\ Good(Answered(c, quoted), n, seq)
         /\ Answered(c, quoted) = [c EXCEPT
              !.msgs = Append(c.msgs, User(c.pending.results
                                \union {<<c.pending.call, c.pending.handle>>}, quoted)),
              !.frozen = c.frozen \union {c.pending.handle}, !.pending = None]
<1> DEFINE p == c.pending
           m == User(p.results \union {<<p.call, p.handle>>}, quoted)
           d == [c EXCEPT !.msgs = Append(c.msgs, m),
                          !.frozen = c.frozen \union {p.handle}, !.pending = None]
<1>1. p \in Question /\ p.handle \in 1 .. seq  BY DEF Good, Conversation
<1>2. m \in Message
  <2>1. p.results \union {<<p.call, p.handle>>} \in SUBSET Numbers
    BY <1>1 DEF Question, Numbers
  <2> QED  BY <2>1, MessagesTyped
<1>3. Append(c.msgs, m) \in Seq(Message)  BY <1>2 DEF Good, Conversation
<1>4. Answered(c, quoted) = d
  <2> HIDE DEF m
  <2>1. Answered(c, quoted) = [Push(c, m) EXCEPT !.frozen = @ \union {p.handle}, !.pending = None]
    BY DEF Answered, m
  <2> QED  BY <2>1 DEF Push, Good, Conversation
<1> HIDE DEF m
<1>5. d \in Conversation  BY <1>1, <1>3 DEF Good, Conversation, Question
<1>6. /\ d.handles = c.handles /\ d.frozen = c.frozen \union {p.handle}
      /\ d.superseded = c.superseded /\ d.pending = None
  BY DEF Good, Conversation
<1> HIDE DEF d
<1>7. Good(d, n, seq)  BY <1>1, <1>5, <1>6 DEF Good
<1> QED  BY <1>4, <1>7 DEF d, m

LEMMA ShownGood ==
  ASSUME NEW n \in Nat, NEW seq \in Nat, NEW c, Good(c, n, seq)
  PROVE  Good(Shown(c, seq + 1), n, seq + 1)
<1> DEFINE d == Shown(c, seq + 1)
<1>1. Good(c, n, seq + 1)  BY GoodLater
<1>2. d \in Conversation
  <2>1. c \in Conversation /\ d = [c EXCEPT !.handles = c.handles \union {seq + 1}]
    BY DEF Good, Conversation, Shown
  <2>2. c.handles \union {seq + 1} \in SUBSET Nat  BY <2>1 DEF Conversation
  <2> HIDE DEF d
  <2> QED  BY <2>1, <2>2 DEF Conversation
<1>3. /\ d.handles = c.handles \union {seq + 1} /\ d.frozen = c.frozen
      /\ d.superseded = c.superseded /\ d.pending = c.pending
  BY DEF Good, Conversation, Shown
<1>4. seq + 1 \in 1 .. seq + 1  OBVIOUS
<1> HIDE DEF d
<1>5. Good(d, n, seq + 1)  BY <1>1, <1>2, <1>3, <1>4 DEF Good
<1> QED  BY <1>5 DEF d

LEMMA RevisedGood ==
  ASSUME NEW n \in Nat, NEW seq \in Nat, seq < n, NEW c, Good(c, n, seq),
         NEW old \in (1 .. seq) \ Superseded(c), NEW outside \in BOOLEAN,
         NEW d, d = Revised(c, old, seq + 1, outside)
  PROVE  /\ Good(d, n, seq + 1)
         /\ d = [c EXCEPT !.handles = c.handles \union {seq + 1},
                          !.superseded = c.superseded
                            \union {[old |-> old, new |-> seq + 1, outside |-> outside]}]
         /\ Superseded(d) = Superseded(c) \union {old}
         /\ Good(QuestionMoved(d, old, seq + 1), n, seq + 1)
<1> DEFINE rec == [old |-> old, new |-> seq + 1, outside |-> outside]
           all == c.superseded \union {rec}
<1>1. /\ Single(all, seq + 1) /\ Olds(all) = Olds(c.superseded) \union {old}
      /\ \E g : TheEnds(g, n, seq + 1, all)
  <2>1. Single(c.superseded, seq)  BY DEF Good
  <2>2. PICK e : TheEnds(e, n, seq, c.superseded)  BY DEF Good
  <2> DEFINE revisions == c.superseded
  <2>3. old \in 1 .. seq /\ old \notin Olds(revisions)  BY DEF Olds, Superseded
  <2>4. /\ all = revisions \union {rec}
        /\ rec \in Revision /\ rec.old = old /\ rec.new = seq + 1
    BY DEF Revision
  <2> HIDE DEF all, revisions, rec
  <2>5. Single(revisions, seq) /\ TheEnds(e, n, seq, revisions)  BY <2>1, <2>2 DEF revisions
  <2>6. /\ Single(all, seq + 1) /\ Olds(all) = Olds(revisions) \union {old}
        /\ \E g : TheEnds(g, n, seq + 1, all)
    <3>1. seq < n /\ n \in Nat /\ seq \in Nat  OBVIOUS
    <3>2. Single(all, seq + 1)  BY <2>3, <2>4, <2>5, <3>1, ChainGrows
    <3>3. Olds(all) = Olds(revisions) \union {old}  BY <2>3, <2>4, <2>5, <3>1, ChainGrows
    <3>4. \E g : /\ TheEnds(g, n, seq + 1, all)
                 /\ \A x \in 1 .. seq : (e[x] = old => g[x] = seq + 1) /\ (e[x] # old => g[x] = e[x])
      BY ONLY <2>3, <2>4, <2>5, <3>1, ChainGrows, SMTT(20)
    <3> QED  BY ONLY <3>2, <3>3, <3>4
  <2> QED  BY <2>6 DEF revisions
<1> HIDE DEF all
<1>2. d = [c EXCEPT !.handles = c.handles \union {seq + 1}, !.superseded = all]
  BY DEF Revised, Shown, Good, Conversation, all
<1>3. all \in SUBSET Revision  BY <1>1 DEF Single
<1>0. seq + 1 \in Nat  OBVIOUS
<1>4. d \in Conversation
  <2>1. c.handles \union {seq + 1} \in SUBSET Nat  BY <1>0 DEF Good, Conversation
  <2> QED  BY <1>2, <1>3, <2>1 DEF Good, Conversation
<1>5. /\ d.handles = c.handles \union {seq + 1} /\ d.frozen = c.frozen
      /\ d.superseded = all /\ d.pending = c.pending
  BY <1>2 DEF Good, Conversation
<1>6. Good(c, n, seq + 1)  BY GoodLater
<1>7. Good(d, n, seq + 1)  BY <1>1, <1>4, <1>5, <1>6 DEF Good
<1>8. Superseded(d) = Superseded(c) \union {old}  BY <1>1, <1>5 DEF Superseded, Olds
<1>9. Good(QuestionMoved(d, old, seq + 1), n, seq + 1)
  <2>1. CASE d.pending # None /\ d.pending.handle = old
    <3> DEFINE f == [d EXCEPT !.pending.handle = seq + 1]
    <3>0. [d.pending EXCEPT !.handle = seq + 1] \in Question
      BY <1>0, <1>4, <2>1 DEF Conversation, Question
    <3>1. f \in Conversation
      <4>1. f = [d EXCEPT !.pending = [d.pending EXCEPT !.handle = seq + 1]]  OBVIOUS
      <4> QED  BY <1>4, <3>0, <4>1 DEF Conversation
    <3>2. /\ f.handles = d.handles /\ f.frozen = d.frozen /\ f.superseded = d.superseded
          /\ f.pending.handle \in 1 .. seq + 1
      BY <1>4, <2>1 DEF Conversation, Question
    <3> HIDE DEF f
    <3>3. Good(f, n, seq + 1)  BY <1>7, <3>1, <3>2 DEF Good
    <3> QED  BY <2>1, <3>3 DEF QuestionMoved, f
  <2>2. CASE ~(d.pending # None /\ d.pending.handle = old)
    BY <1>7, <2>2 DEF QuestionMoved
  <2> QED  BY <2>1, <2>2
<1> QED  BY <1>2, <1>7, <1>8, <1>9 DEF all

\* The latest revision of a surface is a surface, and has none itself.
LEMMA CurrentIsLatest ==
  ASSUME NEW seq \in Nat, MaxHandle \in Nat, seq <= MaxHandle,
         NEW c, Good(c, MaxHandle, seq), NEW h \in 1 .. seq
  PROVE  CurrentHandle(c, h) \in (1 .. seq) \ Superseded(c)
<1>1. PICK e : TheEnds(e, MaxHandle, seq, c.superseded)  BY DEF Good
<1>2. CurrentHandle(c, h) = e[h]  BY <1>1, CurrentIsTheEnd
<1>3. h \in 1 .. MaxHandle  OBVIOUS
<1>4. e[h] \in (1 .. MaxHandle) \ Superseded(c) /\ e[h] <= seq
  BY <1>1, <1>3 DEF TheEnds, Superseded, Olds
<1> QED  BY <1>2, <1>4

-----------------------------------------------------------------------------
(* A request's work                                                         *)

\* What a failure puts back is still to be had.
Keeping(q) ==
  \/ q.pc = "commit" /\ q.kind = "click"
  \/ q.pc \in {"commit", "model", "tool", "context"} /\ q.kind = "wake"
  \/ q.pc = "tool" /\ q.init # None

\* A notice is owed by whoever is about to append it.
Owing(q) ==
  \/ q.pc \in {"announce", "append", "tell"}
  \/ q.pc = "commit" /\ q.kind = "update"

\* A request's copies are good, and its own surfaces are ones given out.
GoodWork(q, n, seq) ==
  /\ q \in Work
  /\ Good(q.c, n, seq)
  /\ Keeping(q) => Good(q.before, n, seq)
  /\ Owing(q) => q.c.announcing # None
  /\ q.asking <= seq /\ q.asked <= seq
  /\ q.parked # None => q.parked.handle \in 1 .. seq
  /\ q.init # None => q.kind \in {"chat", "start"} /\ q.pc \in {"tool", "commit", "context"}

Row == [c : Conversation, token : Nat, held : BOOLEAN]

\* The types, and every copy is good.
Typed ==
  /\ setup \in Setup
  /\ row \in Row /\ Good(row.c, MaxHandle, handleSeq)
  /\ notices \in Seq(Note)
  /\ handleSeq \in 0 .. MaxHandle
  /\ req \in [Request -> Work]
  /\ \A r \in Request : GoodWork(req[r], MaxHandle, handleSeq)
  /\ wakeRuns \in SUBSET Numbers

LEMMA WorkLater ==
  ASSUME NEW n \in Nat, NEW seq \in Nat, NEW q, GoodWork(q, n, seq)
  PROVE  GoodWork(q, n, seq + 1)
<1>1. Good(q.c, n, seq + 1)  BY GoodLater DEF GoodWork
<1>2. Keeping(q) => Good(q.before, n, seq + 1)  BY GoodLater DEF GoodWork
<1>3. /\ q.asking <= seq + 1 /\ q.asked <= seq + 1
      /\ q.parked # None => q.parked.handle \in 1 .. seq + 1
  BY DEF GoodWork, Work
<1> QED  BY <1>1, <1>2, <1>3 DEF GoodWork

LEMMA FreshIsGood ==
  ASSUME NEW n \in Nat, NEW seq \in Nat
  PROVE  GoodWork(Fresh, n, seq) /\ Good(NewConversation, n, seq)
<1>1. Fresh \in Work
  <2>1. NewConversation \in Conversation  BY GoodAtFirst DEF Good
  <2> QED  BY <2>1 DEF Fresh, Work, Stages
<1>2. Good(NewConversation, n, seq)
  <2>1. Good(NewConversation, n, 0)  BY GoodAtFirst
  <2>2. PICK e : TheEnds(e, n, 0, NewConversation.superseded)  BY <2>1 DEF Good
  <2>3. TheEnds(e, n, seq, NewConversation.superseded)
    <3>1. \A x \in 1 .. n : e[x] = x  BY <2>2 DEF TheEnds
    <3> QED  BY <2>2, <3>1 DEF TheEnds
  <2>4. Single(NewConversation.superseded, seq)  BY DEF Single, NewConversation
  <2> QED  BY <2>1, <2>3, <2>4 DEF Good, NewConversation
<1> QED  BY <1>1, <1>2 DEF GoodWork, Fresh, Keeping, Owing

LEMMA Bounds ==
  ASSUME Typed
  PROVE  /\ MaxHandle \in Nat /\ handleSeq \in Nat /\ handleSeq <= MaxHandle
         /\ MaxNotice \in Nat /\ MaxToken \in Nat /\ MaxCalls \in Nat /\ MaxHops \in Nat
         /\ Len(notices) \in Nat
<1>1. Len(notices) \in Nat  BY LenProperties DEF Typed
<1> QED  BY <1>1 DEF Typed, Setup, MaxHandle, MaxNotice, MaxToken, MaxCalls, MaxHops

\* One request has changed, to q.
LEMMA Becomes ==
  ASSUME req \in [Request -> Work], NEW r \in Request, NEW q, Become(r, q)
  PROVE  /\ req'[r] = q
         /\ \A s \in Request : s # r => req'[s] = req[s]
         /\ q \in Work => req' \in [Request -> Work]
BY DEF Become

LEMMA Moves ==
  ASSUME Typed, NEW r \in Request, NEW q, Become(r, q)
  PROVE  req'[r] = q /\ \A s \in Request : s # r => req'[s] = req[s]
BY Becomes DEF Typed

LEMMA RowTyped ==
  ASSUME Typed
  PROVE  row.token \in Nat /\ row.c \in Conversation /\ row.c.woke \in Nat
<1>1. row \in Row  BY DEF Typed
<1>2. row.token \in Nat /\ row.c \in Conversation  BY <1>1 DEF Row
<1> QED  BY <1>2 DEF Conversation

LEMMA StepTyped ==
  ASSUME Typed, NEW r \in Request, NEW q, Become(r, q),
         handleSeq' = handleSeq \/ (handleSeq' = handleSeq + 1 /\ handleSeq < MaxHandle),
         GoodWork(q, MaxHandle, handleSeq'),
         row' \in Row, row'.c = row.c \/ Good(row'.c, MaxHandle, handleSeq'),
         notices' \in Seq(Note), setup' = setup,
         wakeRuns' \in SUBSET Numbers
  PROVE  Typed'
<1>1. MaxHandle' = MaxHandle  BY DEF MaxHandle
<1>2. handleSeq' \in 0 .. MaxHandle /\ handleSeq' \in Nat  BY Bounds
<1>3. \A s \in Request : GoodWork(req[s], MaxHandle, handleSeq')
  BY WorkLater, Bounds DEF Typed
<1>4. Good(row.c, MaxHandle, handleSeq')
  BY GoodLater, Bounds DEF Typed
<1>5. \A s \in Request : GoodWork(req'[s], MaxHandle, handleSeq')
  BY <1>3, Becomes DEF Typed
<1>6. req' \in [Request -> Work]  BY Becomes DEF Typed, GoodWork
<1> QED  BY <1>1, <1>2, <1>4, <1>5, <1>6 DEF Typed

\* What each kind of step makes of the work.
LEMMA FinishGood ==
  ASSUME NEW n \in Nat, NEW seq \in Nat, NEW r \in Request, req[r] \in Work,
         NEW c, Good(c, n, seq),
         NEW q, q = [Fresh EXCEPT !.pc = "end", !.kind = req[r].kind,
                                  !.token = req[r].token, !.c = c]
  PROVE  GoodWork(q, n, seq)
<1>1. q \in Work
  <2>1. Fresh \in Work  BY FreshIsGood DEF GoodWork
  <2>2. c \in Conversation  BY DEF Good
  <2>3. req[r].kind \in AllKinds \union {"none"} /\ req[r].token \in Nat  BY DEF Work
  <2>4. "end" \in Stages  BY DEF Stages
  <2> HIDE DEF Fresh
  <2> QED  BY <2>1, <2>2, <2>3, <2>4 DEF Work
<1>2. /\ q.pc = "end" /\ q.c = c /\ q.asking = 0 /\ q.asked = 0 /\ q.parked = None
      /\ q.init = None
  BY DEF Fresh
<1> QED  BY <1>1, <1>2 DEF GoodWork, Keeping, Owing

LEMMA CopyGood ==
  ASSUME NEW n \in Nat, NEW seq \in Nat, NEW p, GoodWork(p, n, seq),
         NEW c, Good(c, n, seq), NEW pc \in Stages,
         NEW q, q = [p EXCEPT !.pc = pc, !.c = c],
         Keeping(q) => Keeping(p) \/ Good(p.before, n, seq),
         Owing(q) => c.announcing # None,
         p.init = None \/ pc \in {"tool", "commit", "context"}
  PROVE  GoodWork(q, n, seq)
<1>1. q \in Work
  BY DEF GoodWork, Work, Good
<1>2. /\ q.c = c /\ q.asking = p.asking /\ q.asked = p.asked /\ q.parked = p.parked
      /\ q.before = p.before /\ q.init = p.init /\ q.kind = p.kind
      /\ q.pc = pc
  BY DEF GoodWork, Work
<1> QED  BY <1>1, <1>2 DEF GoodWork

LEMMA UnreadTyped ==
  ASSUME Typed, NEW c \in Conversation
  PROVE  Unread(c) \in Seq(Nat)
<1> DEFINE k == Len(notices) - c.noticed
<1>1. Len(notices) \in Nat /\ c.noticed \in Nat  BY Bounds DEF Conversation
<1>2. CASE k \in Nat
  <2>1. Unread(c) \in [1 .. k -> Nat]  BY <1>1 DEF Unread
  <2> QED  BY <1>2, <2>1, SeqDef
<1>3. CASE k \notin Nat
  <2>1. 1 .. k = 1 .. 0 /\ 0 \in Nat  BY <1>1, <1>3
  <2>2. Unread(c) \in [1 .. 0 -> Nat]  BY <2>1 DEF Unread
  <2> QED  BY <2>2, SeqDef
<1> QED  BY <1>2, <1>3

\* Steps of a request that leave the row, the notices and the surfaces alone.
LEMMA Quiet ==
  ASSUME Typed, NEW r \in Request, NEW q, Become(r, q),
         GoodWork(q, MaxHandle, handleSeq),
         UNCHANGED <<setup, row, notices, handleSeq>>, wakeRuns' \in SUBSET Numbers
  PROVE  Typed'
BY StepTyped DEF Typed

LEMMA QuietFinish ==
  ASSUME Typed, NEW r \in Request, NEW c, Good(c, MaxHandle, handleSeq), Finish(r, c),
         UNCHANGED <<setup, row, notices, handleSeq, wakeRuns>>
  PROVE  Typed'
<1> DEFINE q == [Fresh EXCEPT !.pc = "end", !.kind = req[r].kind,
                              !.token = req[r].token, !.c = c]
<1>1. GoodWork(q, MaxHandle, handleSeq)
  BY FinishGood, Bounds DEF Typed
<1>2. Become(r, q)  BY DEF Finish
<1> HIDE DEF q
<1> QED  BY <1>1, <1>2, Quiet DEF Typed

LEMMA QuietCopy ==
  ASSUME Typed, NEW r \in Request, NEW pc \in Stages,
         NEW c, Good(c, MaxHandle, handleSeq), Copy(r, pc, c),
         LET q == [req[r] EXCEPT !.pc = pc, !.c = c]
         IN  ~Keeping(q) \/ Keeping(req[r]),
         LET q == [req[r] EXCEPT !.pc = pc, !.c = c]
         IN  Owing(q) => c.announcing # None,
         req[r].init = None \/ pc \in {"tool", "commit", "context"},
         UNCHANGED <<setup, row, notices, handleSeq, wakeRuns>>
  PROVE  Typed'
<1> DEFINE q == [req[r] EXCEPT !.pc = pc, !.c = c]
<1>1. GoodWork(q, MaxHandle, handleSeq)
  <2>1. GoodWork(req[r], MaxHandle, handleSeq)  BY DEF Typed
  <2> QED  BY <2>1, CopyGood, Bounds
<1>2. Become(r, q)  BY DEF Copy
<1> HIDE DEF q
<1> QED  BY <1>1, <1>2, Quiet DEF Typed

-----------------------------------------------------------------------------
(* Typed is kept                                                            *)

LEMMA LoadTyped ==
  ASSUME Typed, NEW r \in Request, NEW kind \in AllKinds, Load(r, kind) PROVE Typed'
<1> DEFINE pc == CASE kind = "start" /\ row.c.msgs # <<>> -> "end"
                   [] row.c.announcing # None             -> "announce"
                   [] OTHER                               -> "begin"
           q == [Fresh EXCEPT !.kind = kind, !.token = row.token + 1, !.c = row.c, !.pc = pc]
<1>1. Good(row.c, MaxHandle, handleSeq) /\ row \in Row  BY DEF Typed
<1>2. Fresh \in Work  BY FreshIsGood, Bounds DEF GoodWork
<1>0. row.token + 1 \in Nat /\ row.c \in Conversation  BY <1>1 DEF Row
<1>5. Become(r, q)  BY DEF Load
<1>9. pc \in {"end", "announce", "begin"} /\ (pc = "announce" => row.c.announcing # None)
  OBVIOUS
<1> HIDE DEF pc
<1>3. q \in Work
  BY <1>0, <1>2, <1>9 DEF Work, Stages
<1>4. /\ q.c = row.c /\ q.asking = 0 /\ q.asked = 0 /\ q.parked = None /\ q.pc = pc
      /\ q.init = None
  BY DEF Fresh
<1> HIDE DEF q
<1>6. GoodWork(q, MaxHandle, handleSeq)
  <2>1. q.pc # "commit" /\ q.pc # "tool" /\ q.pc \notin {"model", "context", "append", "tell"}
    BY <1>4, <1>9
  <2> QED  BY <1>1, <1>3, <1>4, <1>9, <2>1, Bounds DEF GoodWork, Keeping, Owing
<1>7. row' \in Row /\ row'.c = row.c
  <2>1. row' = [row EXCEPT !.token = row.token + 1, !.held = TRUE]  BY DEF Load
  <2> QED  BY <1>0, <1>1, <2>1 DEF Row
<1>8. UNCHANGED <<setup, notices, handleSeq, wakeRuns>>  BY DEF Load
<1> QED  BY <1>5, <1>6, <1>7, <1>8, StepTyped DEF Typed

LEMMA AnnounceTyped ==
  ASSUME Typed, NEW r \in Request, Announce(r) PROVE Typed'
<1> DEFINE c == req[r].c
           d == [c EXCEPT !.announcing = None]
<1>1. Good(c, MaxHandle, handleSeq) /\ GoodWork(req[r], MaxHandle, handleSeq)
      /\ req[r] \in Work /\ req[r].pc = "announce"
  BY DEF Typed, GoodWork, Announce
<1>2. Good(d, MaxHandle, handleSeq)
  <2>1. d \in Conversation  BY <1>1 DEF Good, Conversation
  <2>2. /\ d.handles = c.handles /\ d.frozen = c.frozen
        /\ d.superseded = c.superseded /\ d.pending = c.pending
    BY <1>1 DEF Good, Conversation
  <2> QED  BY <1>1, <2>1, <2>2 DEF Good
<1>3. c.announcing # None /\ req[r].init = None  BY <1>1 DEF GoodWork, Owing
<1>4. UNCHANGED <<setup, row, notices, handleSeq, wakeRuns>>  BY DEF Announce
<1>5. Copy(r, "begin", d) \/ Copy(r, "append", c)  BY DEF Announce
<1>6. CASE Copy(r, "begin", d)
  <2> DEFINE q == [req[r] EXCEPT !.pc = "begin", !.c = d]
  <2>1. q.pc = "begin"  BY <1>1 DEF Work
  <2>2. ~Keeping(q) /\ ~Owing(q)  BY <2>1 DEF Keeping, Owing
  <2> HIDE DEF d
  <2> QED  BY <1>2, <1>3, <1>4, <1>6, <2>2, QuietCopy DEF Stages
<1>7. CASE Copy(r, "append", c)
  <2> DEFINE q == [req[r] EXCEPT !.pc = "append", !.c = c]
  <2>1. q.pc = "append"  BY <1>1 DEF Work
  <2>2. ~Keeping(q)  BY <2>1 DEF Keeping
  <2> QED  BY <1>1, <1>3, <1>4, <1>7, <2>2, QuietCopy DEF Stages
<1> QED  BY <1>5, <1>6, <1>7

\* The debt is discharged, or the copy is as it was.
LEMMA PaidGood ==
  ASSUME NEW n, NEW seq, NEW c, Good(c, n, seq)
  PROVE  Good([c EXCEPT !.announcing = None], n, seq)
<1> DEFINE d == [c EXCEPT !.announcing = None]
<1>1. d \in Conversation  BY DEF Good, Conversation
<1>2. /\ d.handles = c.handles /\ d.frozen = c.frozen
      /\ d.superseded = c.superseded /\ d.pending = c.pending
  BY DEF Good, Conversation
<1> QED  BY <1>1, <1>2 DEF Good

LEMMA NoteAppended ==
  ASSUME Typed, NEW note \in Note
  PROVE  /\ Append(notices, note) \in Seq(Note)
         /\ Len(Append(notices, note)) = Len(notices) + 1
         /\ Append(notices, note)[Len(notices) + 1] = note
         /\ \A n \in 1 .. Len(notices) : Append(notices, note)[n] = notices[n]
BY AppendProperties DEF Typed

LEMMA AppendOwedTyped ==
  ASSUME Typed, NEW r \in Request, AppendOwed(r) PROVE Typed'
<1> DEFINE c == req[r].c
           d == [c EXCEPT !.announcing = None]
<1>1. Good(c, MaxHandle, handleSeq) /\ GoodWork(req[r], MaxHandle, handleSeq)
      /\ req[r] \in Work /\ req[r].pc = "append"
  BY DEF Typed, GoodWork, AppendOwed
<1>2. Good(d, MaxHandle, handleSeq)  BY <1>1, PaidGood
<1>3. c.announcing \in Note /\ req[r].init = None
  BY <1>1 DEF GoodWork, Owing, Good, Conversation
<1>4. UNCHANGED <<setup, row, handleSeq, wakeRuns>>  BY DEF AppendOwed
<1>5. CASE notices' = Append(notices, c.announcing) /\ Copy(r, "begin", d)
  <2> DEFINE q == [req[r] EXCEPT !.pc = "begin", !.c = d]
  <2>1. q.pc = "begin"  BY <1>1 DEF Work
  <2>2. ~Keeping(q) /\ ~Owing(q)  BY <2>1 DEF Keeping, Owing
  <2>3. GoodWork(q, MaxHandle, handleSeq)
    <3> HIDE DEF d
    <3> QED  BY <1>1, <1>2, <1>3, <2>2, CopyGood, Bounds DEF Stages
  <2>4. Become(r, q)  BY <1>5 DEF Copy
  <2>5. notices' \in Seq(Note)  BY <1>3, <1>5, NoteAppended
  <2> HIDE DEF q
  <2> QED  BY <1>4, <2>3, <2>4, <2>5, StepTyped DEF Typed
<1>6. CASE Finish(r, c) /\ UNCHANGED notices
  BY <1>1, <1>4, <1>6, QuietFinish
<1> QED  BY <1>5, <1>6 DEF AppendOwed

LEMMA RefuseTyped ==
  ASSUME Typed, NEW r \in Request, Refuse(r) PROVE Typed'
<1>1. Good(req[r].c, MaxHandle, handleSeq)  BY DEF Typed, GoodWork
<1> QED  BY <1>1, QuietFinish DEF Refuse

LEMMA SendMessageTyped ==
  ASSUME Typed, NEW r \in Request, SendMessage(r) PROVE Typed'
<1> DEFINE c == req[r].c
           closed == IF c.status = "awaiting" /\ c.pending # None
                     THEN Answered(c, <<>>) ELSE c
           pushed == Push(closed, User({}, Unread(c)))
           taken == TakenIn(pushed, Len(notices))
           d == [taken EXCEPT !.status = "streaming"]
           q == [req[r] EXCEPT !.pc = "model", !.hop = 1, !.c = d]
<1>1. Good(c, MaxHandle, handleSeq) /\ GoodWork(req[r], MaxHandle, handleSeq)
      /\ req[r] \in Work /\ req[r].kind = "chat" /\ c \in Conversation
      /\ req[r].pc = "begin"
  BY DEF Typed, GoodWork, Good, SendMessage
<1>2. Good(closed, MaxHandle, handleSeq)
  <2>1. <<>> \in Seq(Nat)  BY EmptySeq
  <2> QED  BY <1>1, <2>1, AnsweredGood
<1>3. Unread(c) \in Seq(Nat)  BY <1>1, UnreadTyped
<1>4. User({}, Unread(c)) \in Message  BY <1>3, MessagesTyped
<1>5. Good(pushed, MaxHandle, handleSeq)
  <2> HIDE DEF closed
  <2> QED  BY <1>2, <1>4, Pushed
<1>6. Good(taken, MaxHandle, handleSeq)
  <2> HIDE DEF pushed
  <2> QED  BY <1>5, Bounds, TakenInGood
<1>7. Good(d, MaxHandle, handleSeq)
  <2> HIDE DEF taken
  <2> QED  BY <1>6, StatusGood DEF Status
<1>8. Become(r, q)
  BY DEF SendMessage
<1> HIDE DEF d
<1>9. GoodWork(q, MaxHandle, handleSeq)
  <2>1. q \in Work  BY <1>1, <1>7 DEF Work, Stages, Good
  <2>2. /\ q.pc = "model" /\ q.kind = "chat" /\ q.c = d /\ q.asking = req[r].asking
        /\ q.asked = req[r].asked /\ q.parked = req[r].parked /\ q.init = req[r].init
    BY <1>1 DEF Work
  <2> QED  BY <1>1, <1>7, <2>1, <2>2 DEF GoodWork, Keeping, Owing
<1> HIDE DEF q
<1> QED  BY <1>8, <1>9, Quiet DEF SendMessage, Typed

LEMMA CallInitTyped ==
  ASSUME Typed, NEW r \in Request, CallInit(r) PROVE Typed'
<1> DEFINE c == req[r].c
           d == [c EXCEPT !.status = "streaming"]
           q == [req[r] EXCEPT !.pc = "tool", !.call = 1, !.calls = 1, !.before = c,
                               !.init = Unread(c), !.ran = TRUE, !.c = d]
<1>1. Good(c, MaxHandle, handleSeq) /\ GoodWork(req[r], MaxHandle, handleSeq)
      /\ req[r] \in Work /\ c \in Conversation
  BY DEF Typed, GoodWork, Good
<1>2. Unread(c) \in Seq(Nat)  BY <1>1, UnreadTyped
<1>3. Good(d, MaxHandle, handleSeq)  BY <1>1, StatusGood DEF Status
<1>4. Become(r, q)
  <2>1. q = [req[r] EXCEPT
       !.pc = "tool", !.call = 1, !.calls = 1, !.before = c,
       !.init = Unread(c), !.ran = TRUE, !.c.status = "streaming"]
    BY <1>1 DEF Work
  <2> QED  BY <2>1 DEF CallInit
<1> HIDE DEF d
<1>5. q \in Work  BY <1>1, <1>2, <1>3 DEF Work, Stages, Good
<1>6. /\ q.pc = "tool" /\ q.c = d /\ q.before = c /\ q.asking = req[r].asking
      /\ q.asked = req[r].asked /\ q.parked = req[r].parked /\ q.kind \in {"chat", "start"}
  BY <1>1 DEF Work, CallInit
<1> HIDE DEF q
<1>7. GoodWork(q, MaxHandle, handleSeq)
  BY <1>1, <1>3, <1>5, <1>6 DEF GoodWork, Owing
<1> QED  BY <1>4, <1>7, Quiet DEF CallInit, Typed

LEMMA InitFailsTyped ==
  ASSUME Typed, NEW r \in Request, InitFails(r) PROVE Typed'
<1> DEFINE c == req[r].c
           b == req[r].before
           d == [c EXCEPT !.handles = b.handles, !.status = b.status]
<1>1. Good(c, MaxHandle, handleSeq) /\ Good(b, MaxHandle, handleSeq)
  BY DEF Typed, GoodWork, InitFails, Keeping
<1>2. Good(d, MaxHandle, handleSeq)
  <2>1. d \in Conversation  BY <1>1 DEF Good, Conversation
  <2>2. /\ d.handles = b.handles /\ d.frozen = c.frozen
        /\ d.superseded = c.superseded /\ d.pending = c.pending
    BY <1>1 DEF Good, Conversation
  <2> QED  BY <1>1, <2>1, <2>2 DEF Good
<1>3. Finish(r, d)  BY DEF InitFails
<1> HIDE DEF d
<1> QED  BY <1>2, <1>3, QuietFinish DEF InitFails

\* The turn waits on the question asked on surface h.
Parked(c, call, results, h) ==
  [c EXCEPT !.status = "awaiting",
            !.pending = [call |-> call, results |-> results, handle |-> h]]

LEMMA ParkedGood ==
  ASSUME NEW n, NEW seq \in Nat, NEW c, Good(c, n, seq), NEW call \in Nat,
         NEW results \in SUBSET Numbers, NEW h \in 1 .. seq
  PROVE  Good(Parked(c, call, results, h), n, seq)
<1> DEFINE p == [call |-> call, results |-> results, handle |-> h]
           d == [c EXCEPT !.status = "awaiting", !.pending = p]
<1>1. p \in Question /\ p.handle = h  BY DEF Question
<1> HIDE DEF p
<1>2. d \in Conversation  BY <1>1 DEF Good, Conversation, Status
<1>3. /\ d.handles = c.handles /\ d.frozen = c.frozen
      /\ d.superseded = c.superseded /\ d.pending = p
  BY DEF Good, Conversation
<1> HIDE DEF d
<1>4. Good(d, n, seq)  BY <1>1, <1>2, <1>3 DEF Good
<1> QED  BY <1>4 DEF Parked, d, p

LEMMA InitReturnsTyped ==
  ASSUME Typed, NEW r \in Request, InitReturns(r) PROVE Typed'
<1> DEFINE q == req[r]
           c == q.c
           said == Push(c, User({}, q.init))
           heard == TakenIn(said, c.noticed + Len(q.init))
           begun == Push(heard, Assistant({1}))
           asks == Parked(begun, 1, {}, CurrentHandle(c, q.asked))
           goes == Push(begun, User({<<1, 0>>}, <<>>))
<1>1. /\ Good(c, MaxHandle, handleSeq) /\ GoodWork(q, MaxHandle, handleSeq)
      /\ q \in Work /\ q.pc = "tool" /\ q.init \in Seq(Nat) /\ c \in Conversation
      /\ q.init # None
  BY DEF Typed, GoodWork, Work, Good, InitReturns
<1>2. /\ User({}, q.init) \in Message /\ Assistant({1}) \in Message
      /\ User({<<1, 0>>}, <<>>) \in Message
  <2>1. {<<1, 0>>} \in SUBSET Numbers /\ {} \in SUBSET Numbers /\ {1} \in SUBSET Nat
    BY DEF Numbers
  <2>2. <<>> \in Seq(Nat)  BY EmptySeq
  <2> QED  BY <1>1, <2>1, <2>2, MessagesTyped
<1>3. Good(said, MaxHandle, handleSeq)  BY <1>1, <1>2, Pushed
<1>4. Good(heard, MaxHandle, handleSeq)
  <2>1. c.noticed + Len(q.init) \in Nat  BY <1>1, LenProperties, SMTT(20) DEF Conversation
  <2> HIDE DEF said
  <2> QED  BY <1>3, <2>1, TakenInGood
<1>5. Good(begun, MaxHandle, handleSeq)
  <2> HIDE DEF heard
  <2> QED  BY <1>2, <1>4, Pushed
<1>6. CASE q.asked # 0
  <2>1. q.asked \in 1 .. handleSeq  BY <1>1, <1>6, Bounds, SMTT(20) DEF GoodWork, Work
  <2>2. CurrentHandle(c, q.asked) \in 1 .. handleSeq
    <3>1. handleSeq \in Nat /\ MaxHandle \in Nat /\ handleSeq <= MaxHandle  BY <1>1, Bounds
    <3>2. Good(c, MaxHandle, handleSeq)  BY <1>1
    <3> QED  BY ONLY <2>1, <3>1, <3>2, CurrentIsLatest
  <2>3. Good(asks, MaxHandle, handleSeq)
    <3> HIDE DEF begun
    <3> QED  BY <1>5, <2>2, Bounds, ParkedGood
  <2>4. Copy(r, "context", asks)
    BY <1>6 DEF InitReturns, Parked
  <2> DEFINE p == [req[r] EXCEPT !.pc = "context", !.c = asks]
  <2>5. p.pc = "context" /\ p.kind = q.kind  BY <1>1 DEF Work
  <2>6. ~Owing(p) /\ (~Keeping(p) \/ Keeping(req[r]))
    BY <1>1, <2>5 DEF Owing, Keeping
  <2> HIDE DEF asks
  <2> QED  BY <2>3, <2>4, <2>6, QuietCopy DEF InitReturns, Stages
<1>7. CASE q.asked = 0
  <2>3. Good(goes, MaxHandle, handleSeq)
    <3> HIDE DEF begun
    <3> QED  BY <1>2, <1>5, Pushed
  <2>4. Copy(r, "commit", goes)
    BY <1>7 DEF InitReturns
  <2> DEFINE p == [req[r] EXCEPT !.pc = "commit", !.c = goes]
  <2>5. p.pc = "commit" /\ p.kind = q.kind  BY <1>1 DEF Work
  <2>6. q.init # None  BY DEF InitReturns
  <2>7. ~Keeping(p) \/ Keeping(req[r])
    BY <1>1, <2>5, <2>6 DEF Keeping
  <2>8. Owing(p) => goes.announcing # None
    <3>1. q.kind # "update"  BY <1>1, <2>6 DEF GoodWork
    <3> QED  BY <2>5, <3>1 DEF Owing
  <2> HIDE DEF goes
  <2> QED  BY <2>3, <2>4, <2>7, <2>8, QuietCopy DEF InitReturns, Stages
<1> QED  BY <1>6, <1>7

LEMMA ClickTyped ==
  ASSUME Typed, NEW r \in Request, NEW h \in Handle, Click(r, h) PROVE Typed'
<1> DEFINE c == req[r].c
           resolve == Answered(c, Unread(c))
           inform == Push(c, User({}, Unread(c)))
<1>1. /\ Good(c, MaxHandle, handleSeq) /\ GoodWork(req[r], MaxHandle, handleSeq)
      /\ req[r] \in Work /\ c \in Conversation /\ req[r].kind = "click"
  BY DEF Typed, GoodWork, Good, Click
<1>2. Unread(c) \in Seq(Nat)  BY <1>1, UnreadTyped
<1>3. ASSUME NEW d, Good(d, MaxHandle, handleSeq),
             Become(r, [req[r] EXCEPT !.pc = "commit", !.before = c, !.c = d])
      PROVE  Typed'
  <2> DEFINE q == [req[r] EXCEPT !.pc = "commit", !.before = c, !.c = d]
  <2>1. q \in Work  BY <1>1, <1>3 DEF Work, Stages, Good
  <2>2. /\ q.pc = "commit" /\ q.kind = "click" /\ q.before = c /\ q.c = d
        /\ q.asking = req[r].asking /\ q.asked = req[r].asked /\ q.parked = req[r].parked
        /\ q.init = req[r].init
    BY <1>1 DEF Work
  <2> HIDE DEF q
  <2>3. GoodWork(q, MaxHandle, handleSeq)
    BY <1>1, <1>3, <2>1, <2>2 DEF GoodWork, Owing
  <2> QED  BY <1>3, <2>3, Quiet DEF Click, Typed, q
<1>4. CASE c.pending # None
  <2>1. Good(resolve, MaxHandle, handleSeq)  BY <1>1, <1>2, <1>4, AnsweredGood
  <2> DEFINE taken == TakenIn(resolve, Len(notices))
             d == [taken EXCEPT !.status = "idle"]
  <2>2. Good(taken, MaxHandle, handleSeq)
    <3> HIDE DEF resolve
    <3> QED  BY <2>1, Bounds, TakenInGood
  <2>3. Good(d, MaxHandle, handleSeq)
    <3> HIDE DEF taken
    <3> QED  BY <2>2, StatusGood DEF Status
  <2>4. Become(r, [req[r] EXCEPT !.pc = "commit", !.before = c, !.c = d])
    BY <1>4 DEF Click
  <2> HIDE DEF d
  <2> QED  BY <1>3, <2>3, <2>4
<1>5. CASE c.pending = None
  <2>0. User({}, Unread(c)) \in Message  BY <1>2, MessagesTyped
  <2>1. Good(inform, MaxHandle, handleSeq)  BY <1>1, <2>0, Pushed
  <2> DEFINE d == TakenIn(inform, Len(notices))
  <2>2. Good(d, MaxHandle, handleSeq)
    <3> HIDE DEF inform
    <3> QED  BY <2>1, Bounds, TakenInGood
  <2>4. Become(r, [req[r] EXCEPT !.pc = "commit", !.before = c, !.c = d])
    BY <1>5 DEF Click
  <2> HIDE DEF d
  <2> QED  BY <1>3, <2>2, <2>4
<1> QED  BY <1>4, <1>5

LEMMA ReviseTyped ==
  ASSUME Typed, NEW r \in Request, NEW h \in Handle, NEW wake \in BOOLEAN, Revise(r, h, wake)
  PROVE  Typed'
<1> DEFINE c == req[r].c
           old == CurrentHandle(c, h)
           new == handleSeq + 1
           revised == QuestionMoved(Revised(c, old, new, TRUE), old, new)
           note == UpdateNotice(old, new, wake)
           d == [revised EXCEPT !.announcing = note]
           q == [req[r] EXCEPT !.pc = "commit", !.c = d]
<1>1. /\ Good(c, MaxHandle, handleSeq) /\ GoodWork(req[r], MaxHandle, handleSeq)
      /\ req[r] \in Work /\ req[r].kind = "update" /\ h \in c.handles
      /\ req[r].init = None
  BY DEF Typed, GoodWork, Revise
<1>2. handleSeq' = handleSeq + 1 /\ handleSeq < MaxHandle /\ Become(r, q)
  BY DEF Revise, Copy
<1>3. h \in 1 .. handleSeq  BY <1>1 DEF Good
<1>4. old \in (1 .. handleSeq) \ Superseded(c)  BY <1>1, <1>3, Bounds, CurrentIsLatest
<1>5. note \in Note /\ note # None
  <2>1. note \in Note  BY <1>4, Bounds DEF UpdateNotice, Note
  <2> QED  BY <2>1, TurnsAssumption DEF Note
<1>6. Good(revised, MaxHandle, new)
  <2> HIDE DEF old
  <2> QED  BY <1>1, <1>2, <1>4, Bounds, RevisedGood
<1>7. Good(d, MaxHandle, new) /\ d.announcing = note
  <2> HIDE DEF revised, note
  <2>1. d \in Conversation  BY <1>5, <1>6 DEF Good, Conversation
  <2>2. /\ d.handles = revised.handles /\ d.frozen = revised.frozen
        /\ d.superseded = revised.superseded /\ d.pending = revised.pending
        /\ d.announcing = note
    BY <1>6 DEF Good, Conversation
  <2> QED  BY <1>6, <2>1, <2>2 DEF Good
<1> HIDE DEF d, note
<1>8. GoodWork(q, MaxHandle, new)
  <2>1. GoodWork(req[r], MaxHandle, new)  BY <1>1, Bounds, WorkLater
  <2>2. q.pc = "commit" /\ q.kind = "update"  BY <1>1 DEF Work
  <2>3. ~Keeping(q)  BY <2>2 DEF Keeping
  <2>4. new \in Nat  BY Bounds
  <2> HIDE DEF new
  <2> QED  BY <1>5, <1>7, <2>1, <2>3, <2>4, Bounds, CopyGood DEF Stages
<1> HIDE DEF q, new
<1>9. handleSeq' = new  BY <1>2 DEF new
<1>10. GoodWork(q, MaxHandle, handleSeq')  BY <1>8, <1>9
<1>11. UNCHANGED <<setup, row, notices, wakeRuns>>  BY DEF Revise
<1> QED  BY <1>2, <1>10, <1>11, StepTyped DEF Typed

LEMMA TellTyped ==
  ASSUME Typed, NEW r \in Request, Tell(r) PROVE Typed'
<1> DEFINE c == req[r].c
           d == [c EXCEPT !.announcing = None]
           q == [Fresh EXCEPT !.pc = "end", !.kind = req[r].kind,
                              !.token = req[r].token, !.c = d]
<1>1. Good(c, MaxHandle, handleSeq) /\ GoodWork(req[r], MaxHandle, handleSeq)
      /\ req[r] \in Work /\ req[r].pc = "tell"
  BY DEF Typed, GoodWork, Tell
<1>2. Good(d, MaxHandle, handleSeq)  BY <1>1, PaidGood
<1>3. c.announcing \in Note
  BY <1>1 DEF GoodWork, Owing, Good, Conversation
<1>4. UNCHANGED <<setup, row, handleSeq, wakeRuns>>  BY DEF Tell
<1>5. CASE notices' = Append(notices, c.announcing) /\ Finish(r, d)
  <2>1. Become(r, q)  BY <1>5 DEF Finish
  <2> HIDE DEF d
  <2>2. GoodWork(q, MaxHandle, handleSeq)
    BY <1>1, <1>2, FinishGood, Bounds
  <2>3. notices' \in Seq(Note)  BY <1>3, <1>5, NoteAppended
  <2> HIDE DEF q
  <2> QED  BY <1>4, <2>1, <2>2, <2>3, StepTyped DEF Typed
<1>6. CASE Finish(r, c) /\ UNCHANGED notices
  BY <1>1, <1>4, <1>6, QuietFinish
<1> QED  BY <1>5, <1>6 DEF Tell

LEMMA WakeTyped ==
  ASSUME Typed, NEW r \in Request, Wake(r) PROVE Typed'
<1> DEFINE c == req[r].c
           woken == [c EXCEPT !.woke = NewestWake(c), !.wakeTurns = c.wakeTurns + 1]
           pushed == Push(woken, User({}, Unread(c)))
           d == TakenIn(pushed, Len(notices))
           wakes == {n \in UnreadWakes(c) : n > c.woke}
           q == [req[r] EXCEPT !.pc = "commit", !.before = c, !.wakes = wakes, !.c = d]
<1>1. /\ Good(c, MaxHandle, handleSeq) /\ GoodWork(req[r], MaxHandle, handleSeq)
      /\ req[r] \in Work /\ c \in Conversation /\ req[r].kind = "wake"
  BY DEF Typed, GoodWork, Good, Wake
<1>2. NewestWake(c) \in Nat /\ wakes \in SUBSET Nat  BY <1>1, NewestIsNewest DEF Typed
<1>3. Good(woken, MaxHandle, handleSeq)
  <2>1. woken \in Conversation
    <3>1. c.wakeTurns + 1 \in Nat  BY <1>1 DEF Conversation
    <3> QED  BY <1>1, <1>2, <3>1 DEF Conversation
  <2>2. /\ woken.handles = c.handles /\ woken.frozen = c.frozen
        /\ woken.superseded = c.superseded /\ woken.pending = c.pending
    BY <1>1 DEF Conversation
  <2> QED  BY <1>1, <2>1, <2>2 DEF Good
<1>4. User({}, Unread(c)) \in Message
  BY <1>1, UnreadTyped, MessagesTyped
<1>5. Good(pushed, MaxHandle, handleSeq)
  <2> HIDE DEF woken
  <2> QED  BY <1>3, <1>4, Pushed
<1>6. Good(d, MaxHandle, handleSeq)
  <2> HIDE DEF pushed
  <2> QED  BY <1>5, Bounds, TakenInGood
<1>7. Become(r, q)  BY DEF Wake
<1> HIDE DEF d, wakes
<1>8. q \in Work  BY <1>1, <1>2, <1>6 DEF Work, Stages, Good
<1>9. /\ q.pc = "commit" /\ q.kind = "wake" /\ q.before = c /\ q.c = d
      /\ q.asking = req[r].asking /\ q.asked = req[r].asked /\ q.parked = req[r].parked
      /\ q.init = req[r].init
  BY <1>1 DEF Work
<1> HIDE DEF q
<1>10. GoodWork(q, MaxHandle, handleSeq)
  BY <1>1, <1>6, <1>8, <1>9 DEF GoodWork, Owing
<1> QED  BY <1>7, <1>10, Quiet DEF Wake, Typed

LEMMA WakeLimitedTyped ==
  ASSUME Typed, NEW r \in Request, WakeLimited(r) PROVE Typed'
<1> DEFINE c == req[r].c
           d == [c EXCEPT !.woke = NewestWake(c)]
<1>1. Good(c, MaxHandle, handleSeq) /\ c \in Conversation  BY DEF Typed, GoodWork, Good
<1>2. NewestWake(c) \in Nat  BY <1>1, NewestIsNewest DEF Typed
<1>3. Good(d, MaxHandle, handleSeq)
  <2>1. d \in Conversation  BY <1>1, <1>2 DEF Conversation
  <2>2. /\ d.handles = c.handles /\ d.frozen = c.frozen
        /\ d.superseded = c.superseded /\ d.pending = c.pending
    BY <1>1 DEF Conversation
  <2> QED  BY <1>1, <2>1, <2>2 DEF Good
<1>4. Finish(r, d)  BY DEF WakeLimited
<1> HIDE DEF d
<1> QED  BY <1>3, <1>4, QuietFinish DEF WakeLimited

\* What is put back, or closed, of a wake turn that failed.
LEMMA WakeFailedGood ==
  ASSUME NEW n, NEW seq, NEW q, GoodWork(q, n, seq), Keeping(q)
  PROVE  Good(WakeFailed(q), n, seq)
<1>1. Good(q.c, n, seq) /\ Good(q.before, n, seq)  BY DEF GoodWork
<1>2. CASE q.ran
  <2>1. Good([q.c EXCEPT !.status = "idle"], n, seq)  BY <1>1, StatusGood DEF Status
  <2> QED  BY <1>2, <2>1 DEF WakeFailed
<1>3. CASE ~q.ran
  <2> DEFINE d == [q.before EXCEPT !.wakeTurns = q.c.wakeTurns, !.pending = None]
  <2>1. d \in Conversation  BY <1>1 DEF Good, Conversation
  <2>2. /\ d.handles = q.before.handles /\ d.frozen = q.before.frozen
        /\ d.superseded = q.before.superseded /\ d.pending = None
    BY <1>1 DEF Good, Conversation
  <2> HIDE DEF d
  <2>3. Good(d, n, seq)  BY <1>1, <2>1, <2>2 DEF Good
  <2> QED  BY <1>3, <2>3 DEF WakeFailed, d
<1> QED  BY <1>2, <1>3

LEMMA SavedTyped ==
  ASSUME Typed, NEW r \in Request, NEW held \in BOOLEAN
  PROVE  Saved(req[r], held) \in Row /\ Good(Saved(req[r], held).c, MaxHandle, handleSeq)
BY DEF Typed, GoodWork, Work, Saved, Row

LEMMA CommitLandsTyped ==
  ASSUME Typed, NEW r \in Request, CommitLands(r) PROVE Typed'
<1> DEFINE q == req[r]
           idle == [q.c EXCEPT !.status = "idle"]
           busy == [q.c EXCEPT !.status = "streaming"]
           p == [q EXCEPT !.pc = "model", !.hop = 1, !.init = None, !.c = busy]
<1>1. /\ Good(q.c, MaxHandle, handleSeq) /\ GoodWork(q, MaxHandle, handleSeq)
      /\ q \in Work /\ q.pc = "commit"
  BY DEF Typed, GoodWork, CommitLands
<1>2. row' = Saved(q, row.held) /\ row.held \in BOOLEAN  BY DEF CommitLands, Typed, Row
<1>3. row' \in Row /\ Good(row'.c, MaxHandle, handleSeq)
  BY <1>2, SavedTyped
<1>4. Good(idle, MaxHandle, handleSeq) /\ Good(busy, MaxHandle, handleSeq)
  BY <1>1, StatusGood DEF Status
<1>5. UNCHANGED <<setup, notices, handleSeq, wakeRuns>>  BY DEF CommitLands
<1>6. ASSUME NEW x, GoodWork(x, MaxHandle, handleSeq), Become(r, x)
      PROVE  Typed'
  BY <1>3, <1>5, <1>6, StepTyped DEF Typed
<1>7. CASE q.kind = "update"
  <2> DEFINE x == [q EXCEPT !.pc = "tell", !.c = q.c]
  <2>1. Become(r, x)  BY <1>7 DEF CommitLands, Copy
  <2>2. x.pc = "tell" /\ x.kind = "update"  BY <1>1, <1>7 DEF Work
  <2>3. ~Keeping(x) /\ q.c.announcing # None /\ q.init = None  BY <1>1, <1>7, <2>2 DEF Keeping, GoodWork, Owing
  <2>4. GoodWork(x, MaxHandle, handleSeq)  BY <1>1, <2>3, Bounds, CopyGood DEF Stages
  <2> HIDE DEF x
  <2> QED  BY <1>6, <2>1, <2>4
<1>8. CASE q.kind = "start"
  <2> DEFINE x == [q EXCEPT !.pc = "context", !.c = idle]
  <2>1. Become(r, x)  BY <1>8 DEF CommitLands, Copy
  <2>2. x.pc = "context" /\ x.kind = "start"  BY <1>1, <1>8 DEF Work
  <2>3. ~Keeping(x) /\ ~Owing(x)  BY <2>2 DEF Keeping, Owing
  <2> HIDE DEF idle
  <2>4. GoodWork(x, MaxHandle, handleSeq)  BY <1>1, <1>4, <2>3, Bounds, CopyGood DEF Stages
  <2> HIDE DEF x
  <2> QED  BY <1>6, <2>1, <2>4
<1>9. CASE q.kind \notin {"update", "start"}
  <2>1. Become(r, p)
    <3>1. p = [q EXCEPT !.pc = "model", !.hop = 1, !.init = None, !.c.status = "streaming"]
      BY <1>1 DEF Work
    <3> QED  BY <1>9, <3>1 DEF CommitLands
  <2> HIDE DEF busy
  <2>2. p \in Work  BY <1>1, <1>4 DEF Work, Stages, Good
  <2>3. /\ p.pc = "model" /\ p.kind = q.kind /\ p.before = q.before /\ p.c = busy
        /\ p.asking = q.asking /\ p.asked = q.asked /\ p.parked = q.parked /\ p.init = None
    BY <1>1 DEF Work
  <2> HIDE DEF p
  <2>4. GoodWork(p, MaxHandle, handleSeq)
    BY <1>1, <1>4, <2>2, <2>3 DEF GoodWork, Keeping, Owing
  <2> QED  BY <1>6, <2>1, <2>4
<1> QED  BY <1>7, <1>8, <1>9

LEMMA CommitFailsTyped ==
  ASSUME Typed, NEW r \in Request, CommitFails(r) PROVE Typed'
<1> DEFINE c == Undone(req[r])
           q == [Fresh EXCEPT !.pc = "end", !.kind = req[r].kind,
                              !.token = req[r].token, !.c = c]
<1>1. /\ Good(req[r].c, MaxHandle, handleSeq) /\ GoodWork(req[r], MaxHandle, handleSeq)
      /\ req[r] \in Work /\ req[r].pc = "commit" /\ row \in Row
      /\ Good(row.c, MaxHandle, handleSeq)
  BY DEF Typed, GoodWork, CommitFails
<1>2. Good(c, MaxHandle, handleSeq)
  <2>1. CASE req[r].kind = "click"
    BY <1>1, <2>1 DEF Undone, GoodWork, Keeping
  <2>2. CASE req[r].kind = "wake"
    <3>1. Keeping(req[r])  BY <1>1, <2>2 DEF Keeping
    <3> QED  BY <1>1, <2>2, <3>1, WakeFailedGood DEF Undone
  <2>3. CASE req[r].kind \notin {"click", "wake"}
    BY <1>1, <2>3 DEF Undone
  <2> QED  BY <2>1, <2>2, <2>3
<1> HIDE DEF c
<1>3. GoodWork(q, MaxHandle, handleSeq)  BY <1>1, <1>2, Bounds, FinishGood
<1>4. Become(r, q)  BY DEF CommitFails, Finish, c
<1>5. row' \in Row /\ Good(row'.c, MaxHandle, handleSeq)
  <2>1. row' = Saved(req[r], row.held) \/ row' = row  BY DEF CommitFails
  <2>2. row.held \in BOOLEAN  BY <1>1 DEF Row
  <2> QED  BY <1>1, <2>1, <2>2, SavedTyped
<1> HIDE DEF q
<1> QED  BY <1>3, <1>4, <1>5, StepTyped DEF CommitFails, Typed

LEMMA ModelFailsTyped ==
  ASSUME Typed, NEW r \in Request, ModelFails(r) PROVE Typed'
<1> DEFINE c == IF req[r].kind = "wake" THEN WakeFailed(req[r]) ELSE req[r].c
<1>1. GoodWork(req[r], MaxHandle, handleSeq) /\ req[r].pc = "model"
  BY DEF Typed, ModelFails
<1>2. req[r].kind = "wake" => Keeping(req[r])  BY <1>1 DEF Keeping
<1>3. Good(c, MaxHandle, handleSeq)
  BY <1>1, <1>2, WakeFailedGood DEF GoodWork
<1>4. Finish(r, c)  BY DEF ModelFails
<1> HIDE DEF c
<1> QED  BY <1>3, <1>4, QuietFinish DEF ModelFails

LEMMA ContextFailsTyped ==
  ASSUME Typed, NEW r \in Request, ContextFails(r) PROVE Typed'
<1> DEFINE c == IF req[r].kind = "wake" THEN WakeFailed(req[r]) ELSE req[r].c
<1>1. GoodWork(req[r], MaxHandle, handleSeq) /\ req[r].pc = "context"
  BY DEF Typed, ContextFails
<1>2. req[r].kind = "wake" => Keeping(req[r])  BY <1>1 DEF Keeping
<1>3. Good(c, MaxHandle, handleSeq)
  BY <1>1, <1>2, WakeFailedGood DEF GoodWork
<1>4. Finish(r, c)  BY DEF ContextFails
<1> HIDE DEF c
<1> QED  BY <1>3, <1>4, QuietFinish DEF ContextFails

LEMMA ReadContextTyped ==
  ASSUME Typed, NEW r \in Request, ReadContext(r) PROVE Typed'
<1>1. Good(req[r].c, MaxHandle, handleSeq)  BY DEF Typed, GoodWork
<1> QED  BY <1>1, QuietFinish DEF ReadContext

\* The work of a turn at its next reply is work of the model.
LEMMA HopTyped ==
  ASSUME NEW q \in Work, NEW c \in Conversation
  PROVE  [q EXCEPT !.pc = "model", !.hop = q.hop + 1, !.c = c, !.call = 0, !.calls = 0,
                   !.results = {}, !.asking = 0, !.parked = None] \in Work
<1> DEFINE half == [q EXCEPT !.pc = "model", !.hop = q.hop + 1, !.c = c, !.call = 0]
<1>1. half \in Work
  <2>1. q.hop + 1 \in Nat /\ "model" \in Stages  BY DEF Work, Stages
  <2> QED  BY <2>1 DEF Work
<1> HIDE DEF half
<1>2. [half EXCEPT !.calls = 0, !.results = {}, !.asking = 0, !.parked = None] \in Work
  BY <1>1 DEF Work
<1> QED  BY <1>2 DEF half

\* The turn goes on, or stops at maxHops.
LEMMA NextHopGood ==
  ASSUME Typed, NEW n \in Nat, NEW seq \in Nat, NEW q, GoodWork(q, n, seq), NEW c, Good(c, n, seq),
         q.pc \in {"model", "tool"}, q.init = None
  PROVE  GoodWork(NextHop(q, c), n, seq)
<1> DEFINE d == [c EXCEPT !.status = "idle"]
           go == [q EXCEPT !.pc = "model", !.hop = q.hop + 1, !.c = c,
                           !.call = 0, !.calls = 0, !.results = {}, !.asking = 0, !.parked = None]
           stop == [q EXCEPT !.pc = "context", !.c = d]
<1>1. NextHop(q, c) = go \/ NextHop(q, c) = stop  BY DEF NextHop
<1>2. Good(d, n, seq)  BY StatusGood DEF Status
<1>3. GoodWork(go, n, seq)
  <2>2. go \in Work
    <3>1. q \in Work /\ c \in Conversation  BY DEF GoodWork, Good
    <3> QED  BY <3>1, HopTyped
  <2>3. /\ go.pc = "model" /\ go.c = c /\ go.kind = q.kind /\ go.before = q.before
        /\ go.asking = 0 /\ go.asked = q.asked /\ go.parked = None /\ go.init = q.init
    BY DEF GoodWork, Work
  <2> HIDE DEF go
  <2> QED  BY <2>2, <2>3 DEF GoodWork, Keeping, Owing
<1>4. GoodWork(stop, n, seq)
  <2>1. /\ stop.pc = "context" /\ stop.kind = q.kind
    BY DEF GoodWork, Work
  <2>2. ~Owing(stop) /\ (Keeping(stop) => Keeping(q))  BY <2>1 DEF Owing, Keeping
  <2> HIDE DEF d
  <2> QED  BY <1>2, <2>2, CopyGood DEF Stages
<1> QED  BY <1>1, <1>3, <1>4

LEMMA CallsTyped ==
  ASSUME Typed, NEW n \in Call
  PROVE  1 .. n \in SUBSET Nat /\ (1 .. n) \X {0} \in SUBSET Numbers /\ n \in Nat
BY Bounds DEF Call, Numbers

\* The next call of the reply, or what comes after its last.
LEMMA CallDoneGood ==
  ASSUME Typed, NEW seq \in Nat, seq <= MaxHandle, NEW q, GoodWork(q, MaxHandle, seq),
         q.pc = "tool", q.init = None
  PROVE  GoodWork(CallDone(q), MaxHandle, seq)
<1> DEFINE next == [q EXCEPT !.call = q.call + 1, !.asked = 0]
           parks == [q EXCEPT !.pc = "context", !.asked = 0,
                      !.c = Parked(q.c, q.parked.call, q.results, CurrentHandle(q.c, q.parked.handle))]
           none == [q EXCEPT !.asked = 0]
           told == Push(q.c, User(q.results, <<>>))
<1>0. q \in Work /\ Good(q.c, MaxHandle, seq) /\ MaxHandle \in Nat  BY Bounds DEF GoodWork
<1>1. CASE q.call < q.calls
  <2>1. CallDone(q) = next  BY <1>1 DEF CallDone
  <2>2. next \in Work
    <3>1. q.call + 1 \in Nat  BY <1>0 DEF Work
    <3> QED  BY <1>0, <3>1 DEF Work
  <2>3. /\ next.pc = q.pc /\ next.kind = q.kind /\ next.c = q.c /\ next.before = q.before
        /\ next.asking = q.asking /\ next.asked = 0 /\ next.parked = q.parked
        /\ next.init = q.init
    BY <1>0 DEF Work
  <2> HIDE DEF next
  <2>4. GoodWork(next, MaxHandle, seq)  BY <2>2, <2>3 DEF GoodWork, Keeping, Owing
  <2> QED  BY <2>1, <2>4
<1>2. CASE ~(q.call < q.calls) /\ q.parked # None
  <2> DEFINE h == CurrentHandle(q.c, q.parked.handle)
             d == Parked(q.c, q.parked.call, q.results, h)
  <2>1. CallDone(q) = parks
    <3>1. CallDone(q) = [q EXCEPT !.pc = "context", !.asked = 0,
          !.c.status = "awaiting",
          !.c.pending = [call |-> q.parked.call, results |-> q.results, handle |-> h]]
      BY <1>2 DEF CallDone
    <3>2. q.c \in Conversation  BY <1>0 DEF Good
    <3> HIDE DEF h
    <3> QED  BY <1>0, <3>1, <3>2 DEF Parked, Work, Conversation, h
  <2>2. q.parked \in Asking /\ q.results \in SUBSET Numbers /\ q.parked.handle \in 1 .. seq
    BY <1>0, <1>2 DEF GoodWork, Work
  <2>3. h \in 1 .. seq  BY <1>0, <2>2, CurrentIsLatest
  <2>4. Good(d, MaxHandle, seq)
    <3>1. q.parked.call \in Nat  BY <2>2 DEF Asking
    <3> HIDE DEF h
    <3> QED  BY <1>0, <2>2, <2>3, <3>1, ParkedGood
  <2> HIDE DEF d
  <2>5. parks = [q EXCEPT !.pc = "context", !.asked = 0, !.c = d]  BY DEF d
  <2> HIDE DEF parks
  <2>6. parks \in Work
    <3>1. d \in Conversation /\ "context" \in Stages  BY <2>4 DEF Good, Stages
    <3> QED  BY <1>0, <2>5, <3>1 DEF Work
  <2>7. /\ parks.pc = "context" /\ parks.kind = q.kind /\ parks.c = d /\ parks.before = q.before
        /\ parks.asking = q.asking /\ parks.asked = 0 /\ parks.parked = q.parked
        /\ parks.init = q.init
    BY <1>0, <2>5 DEF Work
  <2>8. GoodWork(parks, MaxHandle, seq)
    BY <2>4, <2>6, <2>7 DEF GoodWork, Keeping, Owing
  <2> QED  BY <2>1, <2>8
<1>3. CASE ~(q.call < q.calls) /\ q.parked = None
  <2>1. CallDone(q) = NextHop(none, told)  BY <1>3 DEF CallDone
  <2>2. User(q.results, <<>>) \in Message
    <3>1. q.results \in SUBSET Numbers /\ <<>> \in Seq(Nat)  BY <1>0, EmptySeq DEF Work
    <3> QED  BY <3>1, MessagesTyped
  <2>3. Good(told, MaxHandle, seq)  BY <1>0, <2>2, Pushed
  <2>4. none \in Work  BY <1>0 DEF Work
  <2>5. /\ none.pc = q.pc /\ none.kind = q.kind /\ none.c = q.c /\ none.before = q.before
        /\ none.asking = q.asking /\ none.asked = 0 /\ none.parked = q.parked
        /\ none.init = q.init
    BY <1>0 DEF Work
  <2> HIDE DEF none, told
  <2>6. GoodWork(none, MaxHandle, seq)  BY <2>4, <2>5 DEF GoodWork, Keeping, Owing
  <2>7. GoodWork(NextHop(none, told), MaxHandle, seq)
    BY <1>0, <2>3, <2>5, <2>6, NextHopGood
  <2> QED  BY <2>1, <2>7
<1> QED  BY <1>1, <1>2, <1>3

LEMMA RunsTyped ==
  ASSUME Typed, NEW r \in Request, NoteRun(r) PROVE wakeRuns' \in SUBSET Numbers
<1>1. req[r].wakes \in SUBSET Nat /\ req[r].token \in Nat  BY DEF Typed, Work
<1> QED  BY <1>1 DEF NoteRun, Typed, Numbers

LEMMA RanGood ==
  ASSUME NEW n, NEW seq, NEW r \in Request, GoodWork(req[r], n, seq)
  PROVE  /\ GoodWork(Ran(r), n, seq)
         /\ Ran(r).pc = req[r].pc /\ Ran(r).kind = req[r].kind /\ Ran(r).token = req[r].token
         /\ Ran(r).c = req[r].c /\ Ran(r).before = req[r].before /\ Ran(r).call = req[r].call
         /\ Ran(r).calls = req[r].calls /\ Ran(r).results = req[r].results
         /\ Ran(r).asking = req[r].asking /\ Ran(r).asked = req[r].asked
         /\ Ran(r).parked = req[r].parked /\ Ran(r).init = req[r].init
         /\ Ran(r).ran = TRUE /\ Ran(r).wakes = req[r].wakes
<1>1. Ran(r) \in Work  BY DEF Ran, GoodWork, Work
<1>2. /\ Ran(r).pc = req[r].pc /\ Ran(r).kind = req[r].kind /\ Ran(r).token = req[r].token
      /\ Ran(r).c = req[r].c /\ Ran(r).before = req[r].before /\ Ran(r).call = req[r].call
      /\ Ran(r).calls = req[r].calls /\ Ran(r).results = req[r].results
      /\ Ran(r).asking = req[r].asking /\ Ran(r).asked = req[r].asked
      /\ Ran(r).parked = req[r].parked /\ Ran(r).init = req[r].init
      /\ Ran(r).ran = TRUE /\ Ran(r).wakes = req[r].wakes
  BY DEF Ran, GoodWork, Work
<1>3. GoodWork(Ran(r), n, seq)  BY <1>1, <1>2 DEF GoodWork, Keeping, Owing
<1> QED  BY <1>2, <1>3

-----------------------------------------------------------------------------
(* What a turn's work leaves alone                                          *)

\* The revisions hai.update made, by this copy.
Outside(c) == {s \in c.superseded : s.outside}

\* Two copies differ in the history, the surfaces and the question only.
SamePast(c, d) ==
  /\ d.woke = c.woke /\ d.noticed = c.noticed /\ d.announcing = c.announcing
  /\ Outside(d) = Outside(c)

\* The work goes on under the same token, for the same notices.
Goes(p, q) ==
  /\ q \in Work
  /\ q.token = p.token /\ q.kind = p.kind /\ q.wakes = p.wakes /\ q.before = p.before
  /\ SamePast(p.c, q.c)
  /\ p.ran => q.ran
  /\ p.pc \in {"model", "tool"} /\ q.pc \in {"model", "tool", "context"}
  /\ q.init = p.init /\ (p.init # None => p.pc = "tool" /\ q.pc = "tool")

LEMMA PastKept ==
  ASSUME NEW c \in Conversation
  PROVE  /\ \A m \in Message : SamePast(c, Push(c, m))
         /\ \A s \in Status : SamePast(c, [c EXCEPT !.status = s])
         /\ \A call, results, h : SamePast(c, Parked(c, call, results, h))
         /\ \A h : SamePast(c, Shown(c, h))
         /\ \A f : SamePast(c, [c EXCEPT !.frozen = f])
<1> USE DEF SamePast, Outside, Conversation
<1>1. \A m \in Message : SamePast(c, Push(c, m))  BY DEF Push
<1>2. \A s \in Status : SamePast(c, [c EXCEPT !.status = s])  OBVIOUS
<1>3. \A call, results, h : SamePast(c, Parked(c, call, results, h))  BY DEF Parked
<1>4. \A h : SamePast(c, Shown(c, h))  BY DEF Shown
<1>5. \A f : SamePast(c, [c EXCEPT !.frozen = f])  OBVIOUS
<1> QED  BY <1>1, <1>2, <1>3, <1>4, <1>5

LEMMA PastOfAnswered ==
  ASSUME NEW n, NEW seq, NEW c, Good(c, n, seq), c.pending # None, NEW quoted \in Seq(Nat)
  PROVE  SamePast(c, Answered(c, quoted))
<1> DEFINE d == Answered(c, quoted)
           m == User(c.pending.results \union {<<c.pending.call, c.pending.handle>>}, quoted)
<1>1. d = [Push(c, m) EXCEPT !.frozen = @ \union {c.pending.handle}, !.pending = None]
  BY DEF Answered
<1> HIDE DEF d, m
<1>2. SamePast(c, d)  BY <1>1 DEF Push, SamePast, Outside, Good, Conversation
<1> QED  BY <1>2 DEF d

LEMMA PastOfRevised ==
  ASSUME NEW n \in Nat, NEW seq \in Nat, seq < n, NEW c, Good(c, n, seq),
         NEW old \in (1 .. seq) \ Superseded(c)
  PROVE  SamePast(c, Revised(c, old, seq + 1, FALSE))
<1> DEFINE d == Revised(c, old, seq + 1, FALSE)
           rec == [old |-> old, new |-> seq + 1, outside |-> FALSE]
<1>1. d = [c EXCEPT !.handles = c.handles \union {seq + 1},
                    !.superseded = c.superseded \union {rec}]
  <2> HIDE DEF rec
  <2>1. d = [Shown(c, seq + 1) EXCEPT !.superseded = @ \union {rec}]  BY DEF Revised, rec
  <2> QED  BY <2>1 DEF Shown, Good, Conversation
<1>2. ~rec.outside  OBVIOUS
<1> HIDE DEF rec
<1>3. Outside(d) = Outside(c)
  <2>1. d.superseded = c.superseded \union {rec}  BY <1>1 DEF Good, Conversation
  <2> QED  BY <1>2, <2>1 DEF Outside
<1>4. d.woke = c.woke /\ d.noticed = c.noticed /\ d.announcing = c.announcing
  BY <1>1 DEF Good, Conversation
<1> QED  BY <1>3, <1>4 DEF SamePast

LEMMA PastGoesOn ==
  ASSUME NEW b, NEW c, NEW d, SamePast(b, c), SamePast(c, d)
  PROVE  SamePast(b, d)
BY DEF SamePast

LEMMA NextHopGoes ==
  ASSUME NEW n, NEW seq, NEW q, GoodWork(q, n, seq), NEW c, Good(c, n, seq),
         SamePast(q.c, c), q.pc \in {"model", "tool"}, q.init = None
  PROVE  Goes(q, NextHop(q, c))
<1> DEFINE d == [c EXCEPT !.status = "idle"]
           go == [q EXCEPT !.pc = "model", !.hop = q.hop + 1, !.c = c,
                           !.call = 0, !.calls = 0, !.results = {}, !.asking = 0, !.parked = None]
           stop == [q EXCEPT !.pc = "context", !.c = d]
<1>1. NextHop(q, c) = go \/ NextHop(q, c) = stop  BY DEF NextHop
<1>2. q \in Work /\ c \in Conversation  BY DEF GoodWork, Good
<1>3. SamePast(q.c, d) /\ d \in Conversation
  <2>1. SamePast(c, d)  BY <1>2, PastKept DEF Status
  <2>2. d \in Conversation  BY <1>2 DEF Conversation, Status
  <2> QED  BY <2>1, <2>2, PastGoesOn
<1> HIDE DEF d
<1>4. Goes(q, go)
  <2>1. go \in Work  BY <1>2, HopTyped
  <2>2. /\ go.pc = "model" /\ go.c = c /\ go.kind = q.kind /\ go.before = q.before
        /\ go.token = q.token /\ go.wakes = q.wakes /\ go.ran = q.ran /\ go.init = q.init
    BY <1>2 DEF Work
  <2> HIDE DEF go
  <2> QED  BY <2>1, <2>2 DEF Goes
<1>5. Goes(q, stop)
  <2>1. stop \in Work
    <3>1. "context" \in Stages  BY DEF Stages
    <3> QED  BY <1>2, <1>3, <3>1 DEF Work
  <2>2. /\ stop.pc = "context" /\ stop.c = d /\ stop.kind = q.kind /\ stop.before = q.before
        /\ stop.token = q.token /\ stop.wakes = q.wakes /\ stop.ran = q.ran
        /\ stop.init = q.init
    BY <1>2 DEF Work
  <2> HIDE DEF stop
  <2> QED  BY <1>3, <2>1, <2>2 DEF Goes
<1> QED  BY <1>1, <1>4, <1>5

LEMMA GoesOn ==
  ASSUME NEW o, NEW p, NEW q, Goes(o, p), Goes(p, q)
  PROVE  Goes(o, q)
BY PastGoesOn DEF Goes

LEMMA CallDoneGoes ==
  ASSUME Typed, NEW seq \in Nat, seq <= MaxHandle, NEW q, GoodWork(q, MaxHandle, seq),
         q.pc = "tool", q.init = None
  PROVE  Goes(q, CallDone(q))
<1> DEFINE next == [q EXCEPT !.call = q.call + 1, !.asked = 0]
           h == CurrentHandle(q.c, q.parked.handle)
           d == Parked(q.c, q.parked.call, q.results, h)
           parks == [q EXCEPT !.pc = "context", !.asked = 0, !.c = d]
           none == [q EXCEPT !.asked = 0]
           told == Push(q.c, User(q.results, <<>>))
<1>0. q \in Work /\ q.c \in Conversation /\ Good(q.c, MaxHandle, seq)  BY DEF GoodWork, Good
<1>s. SamePast(q.c, q.c)  BY DEF SamePast
<1>1. CASE q.call < q.calls
  <2>1. CallDone(q) = next  BY <1>1 DEF CallDone
  <2>2. q.call + 1 \in Nat  BY <1>0 DEF Work
  <2>3. next \in Work  BY <1>0, <2>2 DEF Work
  <2>4. /\ next.pc = q.pc /\ next.kind = q.kind /\ next.c = q.c /\ next.before = q.before
        /\ next.token = q.token /\ next.wakes = q.wakes /\ next.ran = q.ran
        /\ next.init = q.init
    BY <1>0 DEF Work
  <2> HIDE DEF next
  <2> QED  BY <1>s, <2>1, <2>3, <2>4 DEF Goes
<1>2. CASE ~(q.call < q.calls) /\ q.parked # None
  <2>1. CallDone(q) = [q EXCEPT !.pc = "context", !.asked = 0,
          !.c.status = "awaiting",
          !.c.pending = [call |-> q.parked.call, results |-> q.results, handle |-> h]]
    BY <1>2 DEF CallDone
  <2>2. /\ CallDone(q).pc = "context" /\ CallDone(q).kind = q.kind
        /\ CallDone(q).before = q.before /\ CallDone(q).token = q.token
        /\ CallDone(q).wakes = q.wakes /\ CallDone(q).ran = q.ran /\ CallDone(q).init = q.init
        /\ CallDone(q).c = d
    <3> HIDE DEF h
    <3> QED  BY <1>0, <2>1 DEF Work, Conversation, Parked
  <2>3. SamePast(q.c, d)  BY <1>0, PastKept
  <2> HIDE DEF d
  <2> DEFINE x == CallDone(q)
  <2>4. x \in Work  BY CallDoneGood DEF GoodWork
  <2> HIDE DEF x
  <2> QED  BY <2>2, <2>3, <2>4 DEF Goes, x
<1>3. CASE ~(q.call < q.calls) /\ q.parked = None
  <2>1. CallDone(q) = NextHop(none, told)  BY <1>3 DEF CallDone
  <2>2. User(q.results, <<>>) \in Message
    <3>1. q.results \in SUBSET Numbers /\ <<>> \in Seq(Nat)  BY <1>0, EmptySeq DEF Work
    <3> QED  BY <3>1, MessagesTyped
  <2>3. Good(told, MaxHandle, seq) /\ SamePast(q.c, told)  BY <1>0, <2>2, Pushed, PastKept
  <2>4. none \in Work  BY <1>0 DEF Work
  <2>5. /\ none.pc = q.pc /\ none.kind = q.kind /\ none.c = q.c /\ none.before = q.before
        /\ none.token = q.token /\ none.wakes = q.wakes /\ none.ran = q.ran
        /\ none.asking = q.asking /\ none.asked = 0 /\ none.parked = q.parked
        /\ none.init = q.init
    BY <1>0 DEF Work
  <2> HIDE DEF none, told
  <2>6. GoodWork(none, MaxHandle, seq)  BY <2>4, <2>5 DEF GoodWork, Keeping, Owing
  <2>7. Goes(none, NextHop(none, told))
    <3>1. none.pc \in {"model", "tool"} /\ none.init = None /\ SamePast(none.c, told)
      BY <2>3, <2>5
    <3> QED  BY <2>3, <2>6, <3>1, NextHopGoes
  <2>8. Goes(q, none)  BY <1>s, <2>4, <2>5 DEF Goes
  <2> QED  BY <2>1, <2>7, <2>8, GoesOn
<1> QED  BY <1>1, <1>2, <1>3

\* A step of the turn, between its commit and the last read.
Working(r) ==
  \/ ModelAnswers(r) \/ (\E n \in Call : ModelCutShort(r, n) \/ ModelCalls(r, n))
  \/ (\E asks \in BOOLEAN : ToolShows(r, asks)) \/ (\E h \in Handle : ToolRevises(r, h))
  \/ ToolSkipped(r) \/ ToolReturns(r) \/ ToolFails(r)

\* What a working request becomes, and the runs its tools made.
Worked(r, q) ==
  /\ Become(r, q) /\ Goes(req[r], q)
  /\ UNCHANGED <<setup, row, notices>>
  /\ wakeRuns' = wakeRuns \/ (NoteRun(r) /\ q.ran /\ req[r].pc = "tool")
  /\ GoodWork(q, MaxHandle, handleSeq')
  /\ handleSeq' = handleSeq \/ (handleSeq' = handleSeq + 1 /\ handleSeq < MaxHandle)

LEMMA WorkingGoes ==
  ASSUME Typed, NEW r \in Request, Working(r)
  PROVE  \E q : Worked(r, q)
<1> DEFINE p == req[r]
<1>0. /\ GoodWork(p, MaxHandle, handleSeq) /\ p \in Work /\ p.c \in Conversation
      /\ Good(p.c, MaxHandle, handleSeq) /\ SamePast(p.c, p.c)
  BY DEF Typed, GoodWork, Good, SamePast
<1>b. handleSeq \in Nat /\ handleSeq <= MaxHandle /\ MaxHandle \in Nat  BY Bounds
<1>e. <<>> \in Seq(Nat)  BY EmptySeq
<1>i. p.pc = "model" => p.init = None  BY <1>0 DEF GoodWork
<1>g. r \in Request /\ GoodWork(req[r], MaxHandle, handleSeq)  BY <1>0
<1>a. /\ GoodWork(Ran(r), MaxHandle, handleSeq)
      /\ Ran(r).pc = p.pc /\ Ran(r).kind = p.kind /\ Ran(r).token = p.token
      /\ Ran(r).c = p.c /\ Ran(r).before = p.before /\ Ran(r).call = p.call
      /\ Ran(r).calls = p.calls /\ Ran(r).results = p.results
      /\ Ran(r).asking = p.asking /\ Ran(r).asked = p.asked
      /\ Ran(r).parked = p.parked /\ Ran(r).init = p.init
      /\ Ran(r).ran = TRUE /\ Ran(r).wakes = p.wakes
  BY ONLY <1>g, RanGood
<1>r. /\ GoodWork(Ran(r), MaxHandle, handleSeq) /\ Ran(r) \in Work
      /\ p.pc = "tool" => Goes(p, Ran(r))
  <2>1. GoodWork(Ran(r), MaxHandle, handleSeq)  BY <1>0, RanGood
  <2>2. /\ Ran(r).pc = p.pc /\ Ran(r).kind = p.kind /\ Ran(r).token = p.token
        /\ Ran(r).c = p.c /\ Ran(r).before = p.before /\ Ran(r).wakes = p.wakes
        /\ Ran(r).init = p.init /\ Ran(r).ran = TRUE
    BY <1>a
  <2>3. Ran(r) \in Work  BY <2>1 DEF GoodWork
  <2>4. p.pc = "tool" => Goes(p, Ran(r))  BY <1>0, <2>2, <2>3 DEF Goes
  <2> QED  BY <2>1, <2>3, <2>4
<1>1. CASE ModelAnswers(r)
  <2> DEFINE c == Push(p.c, Assistant({}))
             d == [c EXCEPT !.status = "idle"]
             q == [p EXCEPT !.pc = "context", !.c = d]
  <2>1. Assistant({}) \in Message  BY <1>e, MessagesTyped
  <2>2. Good(c, MaxHandle, handleSeq) /\ SamePast(p.c, c)  BY <1>0, <2>1, Pushed, PastKept
  <2> HIDE DEF c
  <2>3. SamePast(c, d) /\ d \in Conversation /\ Good(d, MaxHandle, handleSeq)
    BY <2>2, PastKept, StatusGood DEF Good, Status
  <2>4. Become(r, q)  BY <1>1 DEF ModelAnswers, Copy, c
  <2> HIDE DEF d
  <2>5. q \in Work  BY <1>0, <2>3 DEF Work, Stages
  <2>6. /\ q.pc = "context" /\ q.c = d /\ q.kind = p.kind /\ q.before = p.before
        /\ q.token = p.token /\ q.wakes = p.wakes /\ q.ran = p.ran /\ q.init = p.init
        /\ q.asking = p.asking /\ q.asked = p.asked /\ q.parked = p.parked
    BY <1>0 DEF Work
  <2>7. SamePast(p.c, d)  BY <2>2, <2>3, PastGoesOn
  <2>8. p.pc = "model"  BY <1>1 DEF ModelAnswers
  <2> HIDE DEF q
  <2>9. Goes(p, q)  BY <1>i, <2>5, <2>6, <2>7, <2>8 DEF Goes
  <2>10. GoodWork(q, MaxHandle, handleSeq)
    BY <1>0, <1>i, <2>3, <2>5, <2>6, <2>8 DEF GoodWork, Keeping, Owing
  <2> QED  BY <1>1, <2>4, <2>9, <2>10 DEF Worked, ModelAnswers
<1>2. ASSUME NEW n \in Call, ModelCutShort(r, n)
      PROVE  \E q : Worked(r, q)
  <2> DEFINE c == Push(p.c, Assistant(1 .. n))
             d == Push(c, User((1 .. n) \X {0}, <<>>))
  <2>1. Assistant(1 .. n) \in Message /\ User((1 .. n) \X {0}, <<>>) \in Message
    BY <1>e, CallsTyped, MessagesTyped
  <2>2. Good(c, MaxHandle, handleSeq) /\ SamePast(p.c, c)  BY <1>0, <2>1, Pushed, PastKept
  <2> HIDE DEF c
  <2>3. Good(d, MaxHandle, handleSeq) /\ SamePast(c, d)
    BY <2>1, <2>2, Pushed, PastKept DEF Good
  <2>4. SamePast(p.c, d)  BY <2>2, <2>3, PastGoesOn
  <2>5. Become(r, NextHop(p, d)) /\ p.pc = "model"  BY <1>2 DEF ModelCutShort, c
  <2> HIDE DEF d
  <2>6. Goes(p, NextHop(p, d)) /\ GoodWork(NextHop(p, d), MaxHandle, handleSeq)
    BY <1>0, <1>b, <1>i, <2>3, <2>4, <2>5, NextHopGoes, NextHopGood
  <2> QED  BY <1>2, <2>5, <2>6 DEF Worked, ModelCutShort
<1>3. ASSUME NEW n \in Call, ModelCalls(r, n)
      PROVE  \E q : Worked(r, q)
  <2> DEFINE c == Push(p.c, Assistant(1 .. n))
             q == [p EXCEPT !.pc = "tool", !.call = 1, !.calls = n, !.c = c]
  <2>1. Assistant(1 .. n) \in Message /\ n \in Nat  BY <1>e, CallsTyped, MessagesTyped
  <2>2. c \in Conversation /\ SamePast(p.c, c) /\ Good(c, MaxHandle, handleSeq)
    BY <1>0, <2>1, Pushed, PastKept DEF Good
  <2>3. Become(r, q) /\ p.pc = "model"
    <3>1. q = [p EXCEPT !.pc = "tool", !.call = 1, !.calls = n, !.c = Push(@, Assistant(1 .. n))]
      BY <1>0 DEF Work
    <3> QED  BY <1>3, <3>1 DEF ModelCalls
  <2> HIDE DEF c
  <2>4. q \in Work  BY <1>0, <2>1, <2>2 DEF Work, Stages
  <2>5. /\ q.pc = "tool" /\ q.c = c /\ q.kind = p.kind /\ q.before = p.before
        /\ q.token = p.token /\ q.wakes = p.wakes /\ q.ran = p.ran /\ q.init = p.init
        /\ q.asking = p.asking /\ q.asked = p.asked /\ q.parked = p.parked
    BY <1>0 DEF Work
  <2> HIDE DEF q
  <2>6. Goes(p, q)  BY <1>i, <2>2, <2>3, <2>4, <2>5 DEF Goes
  <2>7. GoodWork(q, MaxHandle, handleSeq)
    BY <1>0, <1>i, <2>2, <2>3, <2>4, <2>5 DEF GoodWork, Keeping, Owing
  <2> QED  BY <1>3, <2>3, <2>6, <2>7 DEF Worked, ModelCalls
<1>4. ASSUME NEW asks \in BOOLEAN, ToolShows(r, asks)
      PROVE  \E q : Worked(r, q)
  <2> DEFINE h == handleSeq + 1
             d == Shown(p.c, h)
             shown == [Ran(r) EXCEPT !.c = d]
             asked == [shown EXCEPT !.asking = h, !.asked = h]
  <2>1. Good(d, MaxHandle, h)  BY <1>0, <1>b, ShownGood
  <2>2. SamePast(p.c, d)  BY <1>0, PastKept
  <2>3. Become(r, shown) \/ Become(r, asked)
    <3>1. shown = [Ran(r) EXCEPT !.c = Shown(@, h)]  BY <1>r, RanGood, <1>0 DEF Work
    <3> QED  BY <1>4, <3>1 DEF ToolShows
  <2>4. d \in Conversation /\ h \in Nat  BY <1>b, <2>1 DEF Good
  <2>r. /\ Ran(r).kind = p.kind /\ Ran(r).before = p.before /\ Ran(r).token = p.token
        /\ Ran(r).wakes = p.wakes /\ Ran(r).init = p.init /\ Ran(r).pc = p.pc
        /\ Ran(r).ran = TRUE /\ Ran(r).parked = p.parked /\ Ran(r).asking = p.asking
        /\ Ran(r).asked = p.asked
    BY <1>a
  <2>w. GoodWork(p, MaxHandle, h)  BY <1>0, <1>b, WorkLater
  <2>h. handleSeq' = h /\ h = handleSeq + 1 /\ handleSeq < MaxHandle  BY <1>4 DEF ToolShows
  <2> HIDE DEF d, h
  <2>5. shown \in Work
    <3>1. Ran(r) \in Work  BY <1>r
    <3> QED  BY ONLY <2>4, <3>1 DEF Work
  <2>6. /\ shown.pc = p.pc /\ shown.c = d /\ shown.kind = p.kind /\ shown.before = p.before
        /\ shown.token = p.token /\ shown.wakes = p.wakes /\ shown.ran = TRUE
        /\ shown.init = p.init /\ shown.parked = p.parked /\ shown.asking = p.asking
        /\ shown.asked = p.asked
    BY <1>r, <2>r DEF Work
  <2> HIDE DEF shown
  <2>7. asked \in Work  BY <2>4, <2>5 DEF Work
  <2>8. /\ asked.pc = p.pc /\ asked.c = d /\ asked.kind = p.kind /\ asked.before = p.before
        /\ asked.token = p.token /\ asked.wakes = p.wakes /\ asked.ran = TRUE
        /\ asked.init = p.init /\ asked.parked = p.parked /\ asked.asking = h
        /\ asked.asked = h
    BY <2>4, <2>5, <2>6 DEF Work
  <2> HIDE DEF asked
  <2>9. p.pc = "tool"  BY <1>4 DEF ToolShows
  <2>10. Goes(p, shown) /\ Goes(p, asked)
    BY <2>2, <2>5, <2>6, <2>7, <2>8, <2>9 DEF Goes
  <2>11. h <= h  BY <2>4
  <2>12. GoodWork(shown, MaxHandle, h) /\ GoodWork(asked, MaxHandle, h)
    <3>1. ASSUME NEW x \in Work, x.pc = p.pc, x.c = d, x.kind = p.kind, x.before = p.before,
                 x.init = p.init, x.parked = p.parked, x.asking <= h, x.asked <= h
          PROVE  GoodWork(x, MaxHandle, h)
      <4>1. ~Owing(x)  BY <2>9, <3>1 DEF Owing
      <4>2. Keeping(x) => Good(x.before, MaxHandle, h)  BY <2>w, <3>1 DEF GoodWork, Keeping
      <4> QED  BY <2>1, <2>w, <3>1, <4>1, <4>2 DEF GoodWork
    <3>2. p.asking <= h /\ p.asked <= h  BY <2>w DEF GoodWork
    <3>3. GoodWork(shown, MaxHandle, h)  BY <2>5, <2>6, <3>1, <3>2
    <3>4. GoodWork(asked, MaxHandle, h)  BY <2>7, <2>8, <2>11, <3>1
    <3> QED  BY <3>3, <3>4
  <2>13. GoodWork(shown, MaxHandle, handleSeq') /\ GoodWork(asked, MaxHandle, handleSeq')
    BY <2>12, <2>h
  <2> QED  BY <1>4, <2>3, <2>6, <2>8, <2>10, <2>13, <2>h DEF Worked, ToolShows
<1>5. ASSUME NEW old \in Handle, ToolRevises(r, old)
      PROVE  \E q : Worked(r, q)
  <2> DEFINE new == handleSeq + 1
             moved(h) == IF h = old THEN new ELSE h
             d == Revised(p.c, old, new, FALSE)
             q == [Ran(r) EXCEPT !.c = d, !.asking = moved(Ran(r).asking),
                                 !.asked = moved(Ran(r).asked)]
  <2>r. /\ Ran(r).kind = p.kind /\ Ran(r).before = p.before /\ Ran(r).token = p.token
        /\ Ran(r).wakes = p.wakes /\ Ran(r).init = p.init /\ Ran(r).pc = p.pc
        /\ Ran(r).ran = TRUE /\ Ran(r).c = p.c /\ Ran(r).parked = p.parked
    BY <1>a
  <2>1. old \in (1 .. handleSeq) \ Superseded(p.c) /\ handleSeq < MaxHandle
    BY <1>0, <1>5, <2>r DEF Revisable, Good, ToolRevises
  <2>2. Good(d, MaxHandle, new) /\ SamePast(p.c, d)
    BY <1>0, <1>b, <2>1, RevisedGood, PastOfRevised
  <2>3. Become(r, q)
    <3>1. q = [Ran(r) EXCEPT !.c = Revised(@, old, new, FALSE), !.asking = moved(@),
                             !.asked = moved(@)]
      BY <1>r, <2>r DEF Work
    <3> QED  BY <1>5, <3>1 DEF ToolRevises
  <2>n. new \in Nat  BY <1>b
  <2>w. GoodWork(Ran(r), MaxHandle, new)  BY <1>b, <1>r, WorkLater
  <2>h. handleSeq' = new /\ new = handleSeq + 1  BY <1>5 DEF ToolRevises
  <2> HIDE DEF d, new
  <2>4. d \in Conversation /\ new \in Nat  BY <2>n, <2>2 DEF Good
  <2>5. /\ moved(Ran(r).asking) \in Nat /\ moved(Ran(r).asked) \in Nat
        /\ moved(Ran(r).asking) <= new /\ moved(Ran(r).asked) <= new
    BY <1>r, <2>4, <2>w DEF Work, GoodWork
  <2> HIDE DEF moved
  <2>6. q \in Work  BY <1>r, <2>4, <2>5 DEF Work
  <2>7. /\ q.pc = p.pc /\ q.c = d /\ q.kind = p.kind /\ q.before = p.before
        /\ q.token = p.token /\ q.wakes = p.wakes /\ q.ran = TRUE
        /\ q.init = p.init /\ q.parked = p.parked /\ q.asking = moved(Ran(r).asking)
        /\ q.asked = moved(Ran(r).asked)
    BY <1>r, <2>r DEF Work
  <2> HIDE DEF q
  <2>9. p.pc = "tool"  BY <1>5, <2>r DEF ToolRevises
  <2>10. Goes(p, q)  BY <2>2, <2>6, <2>7, <2>9 DEF Goes
  <2>11. GoodWork(q, MaxHandle, new)
    <3>1. ~Owing(q)  BY <2>7, <2>9 DEF Owing
    <3>2. Keeping(q) => Good(q.before, MaxHandle, new)
      BY <2>7, <2>r, <2>w DEF GoodWork, Keeping
    <3>3. q.parked # None => q.parked.handle \in 1 .. new  BY <2>7, <2>r, <2>w DEF GoodWork
    <3>4. q.init # None => q.kind \in {"chat", "start"} /\ q.pc \in {"tool", "commit", "context"}
      BY <2>7, <2>r, <2>w DEF GoodWork
    <3> QED  BY <2>2, <2>5, <2>6, <2>7, <3>1, <3>2, <3>3, <3>4 DEF GoodWork
  <2>12. GoodWork(q, MaxHandle, handleSeq')  BY <2>11, <2>h
  <2> QED  BY <1>5, <2>1, <2>3, <2>7, <2>9, <2>10, <2>12, <2>h DEF Worked, ToolRevises
<1>6. CASE ToolSkipped(r)
  <2> DEFINE results == p.results \union {<<p.call, 0>>}
             q == [p EXCEPT !.results = results]
  <2>1. results \in SUBSET Numbers  BY <1>0 DEF Work, Numbers
  <2>2. Become(r, CallDone(q)) /\ p.pc = "tool" /\ p.init = None  BY <1>6 DEF ToolSkipped
  <2> HIDE DEF results
  <2>3. q \in Work  BY <1>0, <2>1 DEF Work
  <2>4. /\ q.pc = p.pc /\ q.c = p.c /\ q.kind = p.kind /\ q.before = p.before
        /\ q.token = p.token /\ q.wakes = p.wakes /\ q.ran = p.ran
        /\ q.init = p.init /\ q.asking = p.asking /\ q.asked = p.asked /\ q.parked = p.parked
    BY <1>0 DEF Work
  <2> HIDE DEF q
  <2>5. GoodWork(q, MaxHandle, handleSeq)  BY <1>0, <2>3, <2>4 DEF GoodWork, Keeping, Owing
  <2>6. Goes(p, q)  BY <1>0, <2>2, <2>3, <2>4 DEF Goes
  <2>7. Goes(q, CallDone(q))  BY <1>b, <2>2, <2>4, <2>5, CallDoneGoes
  <2>8. Goes(p, CallDone(q))  BY <2>6, <2>7, GoesOn
  <2>9. GoodWork(CallDone(q), MaxHandle, handleSeq)  BY <1>b, <2>2, <2>4, <2>5, CallDoneGood
  <2> QED  BY <1>6, <2>2, <2>8, <2>9 DEF Worked, ToolSkipped
<1>7. CASE ToolReturns(r)
  <2> DEFINE q == Ran(r)
             results == q.results \union {<<q.call, 0>>}
             parked == [call |-> q.call, handle |-> q.asked]
             park == [q EXCEPT !.parked = parked]
             result == [q EXCEPT !.results = results]
  <2>0. p.pc = "tool" /\ p.init = None /\ q.pc = "tool" /\ q.init = None /\ q.ran = TRUE
    BY <1>0, <1>7, RanGood DEF ToolReturns
  <2>1. \/ q.asked # 0 /\ Become(r, CallDone(park))
        \/ q.asked = 0 /\ Become(r, CallDone(result))
    BY <1>7 DEF ToolReturns
  <2> HIDE DEF q
  <2>q. GoodWork(q, MaxHandle, handleSeq) /\ q \in Work /\ Goes(p, q) /\ SamePast(q.c, q.c)
    BY <1>r, <2>0 DEF q, SamePast
  <2>3. ASSUME NEW x \in Work, GoodWork(x, MaxHandle, handleSeq), Become(r, CallDone(x)),
               x.pc = q.pc, x.c = q.c, x.kind = q.kind, x.before = q.before,
               x.token = q.token, x.wakes = q.wakes, x.ran = q.ran, x.init = q.init
        PROVE  \E y : Worked(r, y)
    <3>1. Goes(q, x)  BY <2>0, <2>q, <2>3 DEF Goes
    <3>2. Goes(x, CallDone(x))  BY <1>b, <2>0, <2>3, CallDoneGoes
    <3>3. Goes(p, CallDone(x))  BY <2>q, <3>1, <3>2, GoesOn
    <3>4. CallDone(x).ran  BY <2>0, <2>3, <3>2 DEF Goes
    <3>5. GoodWork(CallDone(x), MaxHandle, handleSeq)  BY <1>b, <2>0, <2>3, CallDoneGood
    <3> QED  BY <1>7, <2>0, <2>3, <3>3, <3>4, <3>5 DEF Worked, ToolReturns
  <2>4. CASE q.asked # 0 /\ Become(r, CallDone(park))
    <3>1. parked \in Asking /\ parked.handle \in 1 .. handleSeq
      BY <1>b, <2>q, <2>4 DEF Asking, Work, GoodWork
    <3> HIDE DEF parked
    <3>2. park \in Work  BY <2>q, <3>1 DEF Work
    <3>3. /\ park.pc = q.pc /\ park.kind = q.kind /\ park.c = q.c /\ park.before = q.before
          /\ park.asking = q.asking /\ park.asked = q.asked /\ park.parked = parked
          /\ park.init = q.init /\ park.token = q.token /\ park.wakes = q.wakes
          /\ park.ran = q.ran
      BY <2>q DEF Work
    <3> HIDE DEF park
    <3>4. GoodWork(park, MaxHandle, handleSeq)
      BY <2>0, <2>q, <3>1, <3>2, <3>3 DEF GoodWork, Keeping, Owing
    <3> QED  BY <2>3, <2>4, <3>2, <3>3, <3>4
  <2>5. CASE q.asked = 0 /\ Become(r, CallDone(result))
    <3>1. results \in SUBSET Numbers  BY <2>q DEF Work, Numbers
    <3> HIDE DEF results
    <3>2. result \in Work  BY <2>q, <3>1 DEF Work
    <3>3. /\ result.pc = q.pc /\ result.kind = q.kind /\ result.c = q.c
          /\ result.before = q.before /\ result.asking = q.asking /\ result.asked = q.asked
          /\ result.parked = q.parked /\ result.init = q.init /\ result.token = q.token
          /\ result.wakes = q.wakes /\ result.ran = q.ran
      BY <2>q DEF Work
    <3> HIDE DEF result
    <3>4. GoodWork(result, MaxHandle, handleSeq)
      BY <2>0, <2>q, <3>1, <3>2, <3>3 DEF GoodWork, Keeping, Owing
    <3> QED  BY <2>3, <2>5, <3>2, <3>3, <3>4
  <2> QED  BY <2>1, <2>4, <2>5
<1>8. CASE ToolFails(r)
  <2> DEFINE q == Ran(r)
             results == q.results \union {<<q.call, q.asked>>}
             d == [q.c EXCEPT !.frozen = q.c.frozen \union {q.asked}]
             x == [q EXCEPT !.results = results, !.c = d, !.asking = 0]
  <2>0. /\ p.pc = "tool" /\ p.init = None /\ q.pc = "tool" /\ q.init = None /\ q.ran = TRUE
        /\ q.asked # 0 /\ q.c = p.c
    BY <1>0, <1>8, RanGood DEF ToolFails
  <2>1. Become(r, CallDone(x))
    <3>1. [q EXCEPT !.results = @ \union {<<q.call, q.asked>>}] = [q EXCEPT !.results = results]
      OBVIOUS
    <3>2. x = [[q EXCEPT !.results = results]
                  EXCEPT !.c.frozen = @ \union {q.asked}, !.asking = 0]
      <4> HIDE DEF q, results
      <4> QED  BY <1>0, <1>r, <2>0 DEF Work, Conversation, q
    <3> QED  BY <1>8, <3>1, <3>2 DEF ToolFails
  <2> HIDE DEF q
  <2>q. /\ GoodWork(q, MaxHandle, handleSeq) /\ q \in Work /\ Goes(p, q)
        /\ Good(q.c, MaxHandle, handleSeq) /\ q.c \in Conversation
    BY <1>r, <2>0 DEF q, GoodWork, Good
  <2>2. SamePast(q.c, d)  BY <2>q, PastKept
  <2>3. results \in SUBSET Numbers  BY <2>q DEF Work, Numbers
  <2>4. q.asked \in 1 .. handleSeq  BY <1>b, <2>0, <2>q DEF GoodWork, Work
  <2>5. Good(d, MaxHandle, handleSeq)
    <3>0. q.c.frozen \union {q.asked} \in SUBSET Nat  BY <2>q DEF Conversation, Work
    <3>1. d \in Conversation  BY <2>q, <3>0 DEF Conversation
    <3>2. /\ d.handles = q.c.handles /\ d.frozen = q.c.frozen \union {q.asked}
          /\ d.superseded = q.c.superseded /\ d.pending = q.c.pending
      BY <2>q DEF Conversation
    <3> HIDE DEF d
    <3> QED  BY <2>q, <2>4, <3>1, <3>2 DEF Good
  <2> HIDE DEF results, d
  <2>6. x \in Work  BY <2>q, <2>3, <2>5 DEF Work, Good
  <2>7. /\ x.pc = q.pc /\ x.kind = q.kind /\ x.c = d /\ x.before = q.before
        /\ x.asking = 0 /\ x.asked = q.asked /\ x.parked = q.parked
        /\ x.init = q.init /\ x.token = q.token /\ x.wakes = q.wakes /\ x.ran = q.ran
    BY <2>q DEF Work
  <2> HIDE DEF x
  <2>8. GoodWork(x, MaxHandle, handleSeq)
    BY <1>b, <2>0, <2>q, <2>5, <2>6, <2>7 DEF GoodWork, Keeping, Owing
  <2>9. Goes(q, x)  BY <2>0, <2>2, <2>6, <2>7 DEF Goes
  <2>10. Goes(x, CallDone(x))  BY <1>b, <2>0, <2>7, <2>8, CallDoneGoes
  <2>11. Goes(p, CallDone(x))  BY <2>q, <2>9, <2>10, GoesOn
  <2>12. CallDone(x).ran  BY <2>0, <2>7, <2>10 DEF Goes
  <2>13. GoodWork(CallDone(x), MaxHandle, handleSeq)  BY <1>b, <2>0, <2>7, <2>8, CallDoneGood
  <2> QED  BY <1>8, <2>0, <2>1, <2>11, <2>12, <2>13 DEF Worked, ToolFails
<1> QED  BY <1>1, <1>2, <1>3, <1>4, <1>5, <1>6, <1>7, <1>8 DEF Working
LEMMA WorkedTyped ==
  ASSUME Typed, NEW r \in Request, NEW q, Worked(r, q) PROVE Typed'
BY StepTyped, RunsTyped DEF Worked, Typed

LEMMA StopTyped ==
  ASSUME Typed, NEW r \in Request, Stop(r), UNCHANGED <<setup, notices, handleSeq>>,
         row' \in Row, row'.c = row.c \/ Good(row'.c, MaxHandle, handleSeq),
         wakeRuns' \in SUBSET Numbers
  PROVE  Typed'
<1>1. GoodWork(Fresh, MaxHandle, handleSeq)  BY FreshIsGood, Bounds
<1>2. Become(r, Fresh)  BY DEF Stop
<1> QED  BY <1>1, <1>2, StepTyped DEF Typed

LEMMA ReleaseTyped ==
  ASSUME Typed, NEW r \in Request, Release(r) PROVE Typed'
<1>1. row' \in Row /\ Good(row'.c, MaxHandle, handleSeq)  BY SavedTyped DEF Release
<1> QED  BY <1>1, StopTyped DEF Release, Typed

LEMMA TypedStep == ASSUME Typed, [Next]_vars PROVE Typed'
<1>1. ASSUME NEW r \in Request, ToolOvertaken(r) \/ Overtaken(r) \/ Crash(r) PROVE Typed'
  <2>1. UNCHANGED <<setup, row, notices, handleSeq>> /\ Stop(r)
        /\ (NoteRun(r) \/ UNCHANGED wakeRuns)
    BY <1>1 DEF ToolOvertaken, Overtaken, Crash
  <2> QED  BY <2>1, StopTyped, RunsTyped DEF Typed
<1>2. CASE Lapse
  <2>1. row' = [row EXCEPT !.held = FALSE]  BY <1>2 DEF Lapse
  <2>2. row' \in Row /\ row'.c = row.c  BY <2>1 DEF Typed, Row
  <2>3. UNCHANGED <<setup, notices, handleSeq, req, wakeRuns>>  BY <1>2 DEF Lapse
  <2> QED  BY <2>2, <2>3 DEF Typed, MaxHandle
<1>3. ASSUME NEW wake \in BOOLEAN, Notify(wake) PROVE Typed'
  <2>1. AppNotice(wake) \in Note  BY DEF AppNotice, Note
  <2>2. notices' \in Seq(Note)  BY <1>3, <2>1, NoteAppended DEF Notify
  <2>3. UNCHANGED <<setup, row, handleSeq, req, wakeRuns>>  BY <1>3 DEF Notify
  <2> QED  BY <2>2, <2>3 DEF Typed, MaxHandle
<1>4. CASE UNCHANGED vars  BY <1>4 DEF vars, Typed, MaxHandle
<1>5. AsksToWake \subseteq BOOLEAN  BY DEF AsksToWake
<1> QED
  BY <1>1, <1>2, <1>3, <1>4, <1>5, LoadTyped, AnnounceTyped, AppendOwedTyped, RefuseTyped,
     SendMessageTyped, CallInitTyped, InitFailsTyped, InitReturnsTyped, ClickTyped, ReviseTyped,
     TellTyped, WakeTyped, WakeLimitedTyped, CommitLandsTyped, CommitFailsTyped,
     ModelFailsTyped, WorkingGoes, WorkedTyped, ReadContextTyped, ContextFailsTyped,
     ReleaseTyped
     DEF Next, Working

LEMMA TypedAtFirst == ASSUME Init PROVE Typed
<1>1. setup \in Setup  BY TurnsAssumption DEF Init
<1>2. MaxHandle \in Nat  BY <1>1 DEF Setup, MaxHandle
<1>3. GoodWork(Fresh, MaxHandle, 0) /\ Good(NewConversation, MaxHandle, 0)
  BY <1>2, FreshIsGood
<1>4. row \in Row /\ row.c = NewConversation
  BY <1>3 DEF Init, Row, Good
<1>5. Fresh \in Work  BY <1>3 DEF GoodWork
<1>6. notices \in Seq(Note)  BY EmptySeq DEF Init
<1> QED  BY <1>1, <1>2, <1>3, <1>4, <1>5, <1>6 DEF Init, Typed

-----------------------------------------------------------------------------
(* What each step does to the past                                          *)

\* Nor do they differ in more than this when one has noticed more.
SameButNoticed(c, d) ==
  d.woke = c.woke /\ d.announcing = c.announcing /\ Outside(d) = Outside(c)

\* A turn begins: its message is taken in, its init tool runs or has run.
Begins(r, q) ==
  LET p == req[r]
  IN  /\ Become(r, q) /\ UNCHANGED <<setup, row, notices, handleSeq, wakeRuns>>
      /\ q.token = p.token /\ q.kind = p.kind /\ q.wakes = p.wakes
      /\ p.kind \in {"chat", "start", "click"}
      /\ SameButNoticed(p.c, q.c)
      /\ Keeping(q) => q.before = p.c /\ p.pc = "begin"
      /\ \/ /\ p.pc = "begin" /\ q.pc \in {"model", "commit"}
            /\ q.c.noticed = Len(notices) /\ q.init = None
         \/ /\ p.pc = "begin" /\ q.pc = "tool"
            /\ q.c.noticed = p.c.noticed /\ q.init = Unread(p.c)
         \/ /\ p.pc = "tool" /\ p.init # None /\ q.pc \in {"context", "commit"}
            /\ q.c.noticed = p.c.noticed + Len(p.init)

LEMMA PastTakenIn ==
  ASSUME NEW c \in Conversation, NEW n
  PROVE  SameButNoticed(c, TakenIn(c, n)) /\ TakenIn(c, n).noticed = n
BY DEF SameButNoticed, Outside, TakenIn, Conversation

LEMMA SameGoesOn ==
  ASSUME NEW b, NEW c, NEW d
  PROVE  /\ SamePast(b, c) => SameButNoticed(b, c) /\ c.noticed = b.noticed
         /\ SameButNoticed(b, c) /\ SameButNoticed(c, d) => SameButNoticed(b, d)
BY DEF SamePast, SameButNoticed

LEMMA SendMessageBegins ==
  ASSUME Typed, NEW r \in Request, SendMessage(r) PROVE \E q : Begins(r, q)
<1> DEFINE p == req[r]
           c == p.c
           closed == IF c.status = "awaiting" /\ c.pending # None
                     THEN Answered(c, <<>>) ELSE c
           m == User({}, Unread(c))
           pushed == Push(closed, m)
           taken == TakenIn(pushed, Len(notices))
           d == [taken EXCEPT !.status = "streaming"]
           q == [req[r] EXCEPT !.pc = "model", !.hop = 1, !.c = d]
<1>1. /\ Good(c, MaxHandle, handleSeq) /\ GoodWork(p, MaxHandle, handleSeq)
      /\ p \in Work /\ p.kind = "chat" /\ c \in Conversation /\ p.pc = "begin"
  BY DEF Typed, GoodWork, Good, SendMessage
<1>2. Good(closed, MaxHandle, handleSeq) /\ SameButNoticed(c, closed)
  <2>1. <<>> \in Seq(Nat)  BY EmptySeq
  <2> QED  BY <1>1, <2>1, AnsweredGood, PastOfAnswered, SameGoesOn DEF SameButNoticed
<1>3. m \in Message  BY <1>1, UnreadTyped, MessagesTyped
<1> HIDE DEF closed, m
<1>4. Good(pushed, MaxHandle, handleSeq) /\ SameButNoticed(closed, pushed)
  BY <1>2, <1>3, Pushed, PastKept, SameGoesOn DEF Good
<1> HIDE DEF pushed
<1>5. /\ Good(taken, MaxHandle, handleSeq) /\ SameButNoticed(pushed, taken)
      /\ taken.noticed = Len(notices)
  BY <1>4, Bounds, TakenInGood, PastTakenIn DEF Good
<1> HIDE DEF taken
<1>6. SameButNoticed(taken, d) /\ d.noticed = Len(notices)
  <2>1. SamePast(taken, d)  BY <1>5, PastKept DEF Good, Status
  <2> QED  BY <1>5, <2>1, SameGoesOn
<1> HIDE DEF d
<1>7. SameButNoticed(c, d)  BY <1>2, <1>4, <1>5, <1>6, SameGoesOn
<1>8. Become(r, q)  BY DEF SendMessage, d, taken, pushed, closed, m
<1>9. /\ q.pc = "model" /\ q.kind = "chat" /\ q.c = d /\ q.token = p.token
      /\ q.wakes = p.wakes /\ q.init = p.init
  BY <1>1 DEF Work
<1> HIDE DEF q
<1>10. q.init = None  BY <1>1, <1>9 DEF GoodWork
<1>11. UNCHANGED <<setup, row, notices, handleSeq, wakeRuns>>  BY DEF SendMessage
<1> QED  BY <1>1, <1>6, <1>7, <1>8, <1>9, <1>10, <1>11 DEF Begins, Keeping

LEMMA CallInitBegins ==
  ASSUME Typed, NEW r \in Request, CallInit(r) PROVE \E q : Begins(r, q)
<1> DEFINE p == req[r]
           c == p.c
           d == [c EXCEPT !.status = "streaming"]
           q == [req[r] EXCEPT !.pc = "tool", !.call = 1, !.calls = 1, !.before = c,
                               !.init = Unread(c), !.ran = TRUE, !.c = d]
<1>1. /\ p \in Work /\ c \in Conversation /\ p.pc = "begin" /\ p.kind \in {"chat", "start"}
  BY DEF Typed, GoodWork, Good, CallInit
<1>2. SameButNoticed(c, d) /\ d.noticed = c.noticed
  <2>1. SamePast(c, d)  BY <1>1, PastKept DEF Status
  <2> HIDE DEF d
  <2> QED  BY <2>1, SameGoesOn
<1>3. Become(r, q)
  <2>1. q = [req[r] EXCEPT
       !.pc = "tool", !.call = 1, !.calls = 1, !.before = c,
       !.init = Unread(c), !.ran = TRUE, !.c.status = "streaming"]
    BY <1>1 DEF Work
  <2> QED  BY <2>1 DEF CallInit
<1> HIDE DEF d
<1>4. /\ q.pc = "tool" /\ q.c = d /\ q.before = c /\ q.token = p.token
      /\ q.wakes = p.wakes /\ q.init = Unread(c) /\ q.kind = p.kind
  BY <1>1 DEF Work
<1> HIDE DEF q
<1>5. UNCHANGED <<setup, row, notices, handleSeq, wakeRuns>>  BY DEF CallInit
<1> QED  BY <1>1, <1>2, <1>3, <1>4, <1>5 DEF Begins

LEMMA InitReturnsBegins ==
  ASSUME Typed, NEW r \in Request, InitReturns(r) PROVE \E q : Begins(r, q)
<1> DEFINE p == req[r]
           c == p.c
           m == User({}, p.init)
           said == Push(c, m)
           heard == TakenIn(said, c.noticed + Len(p.init))
           begun == Push(heard, Assistant({1}))
           h == CurrentHandle(c, p.asked)
           asks == Parked(begun, 1, {}, h)
           m2 == User({<<1, 0>>}, <<>>)
           goes == Push(begun, m2)
<1>1. /\ Good(c, MaxHandle, handleSeq) /\ GoodWork(p, MaxHandle, handleSeq)
      /\ p \in Work /\ p.pc = "tool" /\ p.init \in Seq(Nat) /\ c \in Conversation
      /\ p.init # None
  BY DEF Typed, GoodWork, Work, Good, InitReturns
<1>2. m \in Message /\ Assistant({1}) \in Message /\ m2 \in Message
  <2>1. {<<1, 0>>} \in SUBSET Numbers /\ {} \in SUBSET Numbers /\ {1} \in SUBSET Nat
    BY DEF Numbers
  <2>2. <<>> \in Seq(Nat)  BY EmptySeq
  <2> QED  BY <1>1, <2>1, <2>2, MessagesTyped
<1> HIDE DEF m, m2
<1>3. Good(said, MaxHandle, handleSeq) /\ SameButNoticed(c, said)
  BY <1>1, <1>2, Pushed, PastKept, SameGoesOn, SMTT(20)
<1> HIDE DEF said
<1>4. /\ Good(heard, MaxHandle, handleSeq) /\ SameButNoticed(said, heard)
      /\ heard.noticed = c.noticed + Len(p.init)
  <2>1. c.noticed + Len(p.init) \in Nat  BY <1>1, LenProperties, SMTT(20) DEF Conversation
  <2> QED  BY <1>3, <2>1, TakenInGood, PastTakenIn DEF Good
<1> HIDE DEF heard
<1>5. Good(begun, MaxHandle, handleSeq) /\ SamePast(heard, begun)
  BY <1>2, <1>4, Pushed, PastKept DEF Good
<1> HIDE DEF begun, h
<1>6. SamePast(begun, asks) /\ SamePast(begun, goes)
  BY <1>2, <1>5, PastKept DEF Good
<1> HIDE DEF asks, goes
<1>7. /\ SameButNoticed(c, asks) /\ asks.noticed = c.noticed + Len(p.init)
      /\ SameButNoticed(c, goes) /\ goes.noticed = c.noticed + Len(p.init)
  BY <1>3, <1>4, <1>5, <1>6, SameGoesOn
<1>8. Copy(r, "context", asks) \/ Copy(r, "commit", goes)
  BY DEF InitReturns, Parked, asks, goes, begun, heard, said, m, m2, h
<1>9. ASSUME NEW pc \in {"context", "commit"}, NEW d, Copy(r, pc, d), SameButNoticed(c, d),
             d.noticed = c.noticed + Len(p.init)
      PROVE  \E q : Begins(r, q)
  <2> DEFINE q == [req[r] EXCEPT !.pc = pc, !.c = d]
  <2>1. Become(r, q)  BY <1>9 DEF Copy
  <2>2. /\ q.pc = pc /\ q.c = d /\ q.token = p.token
        /\ q.wakes = p.wakes /\ q.kind = p.kind
    BY <1>1 DEF Work
  <2> HIDE DEF q
  <2>3. UNCHANGED <<setup, row, notices, handleSeq, wakeRuns>>  BY DEF InitReturns
  <2>4. p.kind \in {"chat", "start"}  BY <1>1 DEF GoodWork
  <2>5. ~Keeping(q)  BY <2>2, <2>4, <1>9 DEF Keeping
  <2> QED  BY <1>1, <1>9, <2>1, <2>2, <2>3, <2>4, <2>5 DEF Begins
<1> QED  BY <1>7, <1>8, <1>9

LEMMA ClickBegins ==
  ASSUME Typed, NEW r \in Request, NEW h \in Handle, Click(r, h) PROVE \E q : Begins(r, q)
<1> DEFINE p == req[r]
           c == p.c
           m == User({}, Unread(c))
           resolve == Answered(c, Unread(c))
           inform == Push(c, m)
           resolved == [TakenIn(resolve, Len(notices)) EXCEPT !.status = "idle"]
           informed == TakenIn(inform, Len(notices))
<1>1. /\ Good(c, MaxHandle, handleSeq) /\ GoodWork(p, MaxHandle, handleSeq)
      /\ p \in Work /\ c \in Conversation /\ p.kind = "click" /\ p.pc = "begin"
  BY DEF Typed, GoodWork, Good, Click
<1>2. Unread(c) \in Seq(Nat) /\ m \in Message  BY <1>1, UnreadTyped, MessagesTyped
<1>3. ASSUME NEW d, SameButNoticed(c, d), d.noticed = Len(notices),
             Become(r, [req[r] EXCEPT !.pc = "commit", !.before = c, !.c = d])
      PROVE  \E q : Begins(r, q)
  <2> DEFINE q == [req[r] EXCEPT !.pc = "commit", !.before = c, !.c = d]
  <2>1. /\ q.pc = "commit" /\ q.kind = "click" /\ q.before = c /\ q.c = d
        /\ q.token = p.token /\ q.wakes = p.wakes /\ q.init = p.init
    BY <1>1 DEF Work
  <2> HIDE DEF q
  <2>2. q.init = None  BY <1>1, <2>1 DEF GoodWork
  <2>3. UNCHANGED <<setup, row, notices, handleSeq, wakeRuns>>  BY DEF Click
  <2> QED  BY <1>1, <1>3, <2>1, <2>2, <2>3 DEF Begins, q
<1>4. CASE c.pending # None
  <2>1. Good(resolve, MaxHandle, handleSeq) /\ SameButNoticed(c, resolve)
    <3>1. Good(resolve, MaxHandle, handleSeq)  BY <1>1, <1>2, <1>4, AnsweredGood
    <3>2. SamePast(c, resolve)  BY <1>1, <1>2, <1>4, PastOfAnswered
    <3> HIDE DEF resolve
    <3> QED  BY <3>1, <3>2, SameGoesOn
  <2> HIDE DEF resolve
  <2> DEFINE taken == TakenIn(resolve, Len(notices))
  <2>2. /\ Good(taken, MaxHandle, handleSeq) /\ SameButNoticed(resolve, taken)
        /\ taken.noticed = Len(notices)
    BY <2>1, Bounds, TakenInGood, PastTakenIn DEF Good
  <2>3. SamePast(taken, resolved)
    <3> HIDE DEF taken
    <3>1. resolved = [taken EXCEPT !.status = "idle"]  BY DEF taken
    <3> QED  BY <2>2, <3>1, PastKept DEF Good, Status
  <2> HIDE DEF taken
  <2>4. Become(r, [req[r] EXCEPT !.pc = "commit", !.before = c, !.c = resolved])
    BY <1>4 DEF Click, resolve
  <2> HIDE DEF resolved
  <2>5. SameButNoticed(c, resolved) /\ resolved.noticed = Len(notices)
    BY <2>1, <2>2, <2>3, SameGoesOn
  <2> QED  BY <1>3, <2>4, <2>5
<1>5. CASE c.pending = None
  <2>1. Good(inform, MaxHandle, handleSeq) /\ SameButNoticed(c, inform)
    BY <1>1, <1>2, Pushed, PastKept, SameGoesOn
  <2>2. Become(r, [req[r] EXCEPT !.pc = "commit", !.before = c, !.c = informed])
    BY <1>5 DEF Click
  <2> HIDE DEF inform
  <2>3. SameButNoticed(inform, informed) /\ informed.noticed = Len(notices)
    BY <2>1, PastTakenIn DEF Good
  <2> HIDE DEF informed
  <2>4. SameButNoticed(c, informed)  BY <2>1, <2>3, SameGoesOn
  <2> QED  BY <1>3, <2>2, <2>3, <2>4
<1> QED  BY <1>4, <1>5

\* What was owed is found among the unread, or is appended.
Announces(r, q) ==
  LET p == req[r]
  IN  /\ Become(r, q) /\ UNCHANGED <<setup, row, handleSeq, wakeRuns>>
      /\ q.token = p.token /\ q.kind = p.kind /\ q.wakes = p.wakes
      /\ q.ran = p.ran
      /\ q.c.woke = p.c.woke /\ q.c.noticed = p.c.noticed /\ Outside(q.c) = Outside(p.c)
      /\ \/ /\ p.pc = "announce" /\ q.pc = "append" /\ q.c = p.c
            /\ UNCHANGED notices
         \/ /\ p.pc = "announce" /\ q.pc = "begin" /\ q.c.announcing = None
            /\ \E n \in 1 .. Len(notices) : /\ notices[n].handle = p.c.announcing.handle
                                            /\ notices[n].replaces = p.c.announcing.replaces
            /\ UNCHANGED notices
         \/ /\ p.pc = "append" /\ q.pc = "begin" /\ q.c.announcing = None
            /\ notices' = Append(notices, p.c.announcing)

\* A revision is made, and the notice it owes put on the same copy.
Revises(r, q) ==
  LET p == req[r]
  IN  /\ Become(r, q) /\ UNCHANGED <<setup, row, notices, wakeRuns>>
      /\ q.token = p.token /\ q.kind = p.kind /\ q.wakes = p.wakes
      /\ p.kind = "update" /\ p.pc = "begin" /\ q.pc = "commit"
      /\ q.c.woke = p.c.woke /\ q.c.noticed = p.c.noticed
      /\ q.c.announcing # None
      /\ \E s : Outside(q.c) = Outside(p.c) \union {s} /\ Tells(q.c.announcing, s)

Wakes(r, q) ==
  LET p == req[r]
  IN  /\ Become(r, q) /\ UNCHANGED <<setup, row, notices, handleSeq, wakeRuns>>
      /\ q.token = p.token /\ q.kind = p.kind /\ q.init = None /\ q.ran = p.ran
      /\ p.kind = "wake" /\ p.pc = "begin" /\ q.pc = "commit"
      /\ q.before = p.c
      /\ q.c.woke > p.c.woke
      /\ \A n \in q.wakes : n > p.c.woke /\ n <= q.c.woke
      /\ q.c.noticed = Len(notices)
      /\ q.c.announcing = p.c.announcing /\ Outside(q.c) = Outside(p.c)

\* A commit is saved.
Lands(r, q) ==
  LET p == req[r]
  IN  /\ Become(r, q) /\ UNCHANGED <<setup, notices, handleSeq, wakeRuns>>
      /\ p.pc = "commit" /\ Fence(r) /\ row' = Saved(p, row.held)
      /\ q.token = p.token /\ q.kind = p.kind /\ q.wakes = p.wakes
      /\ q.before = p.before /\ q.ran = p.ran
      /\ SamePast(p.c, q.c)
      /\ \/ p.kind = "update" /\ q.pc = "tell"
         \/ p.kind = "start" /\ q.pc = "context"
         \/ p.kind \notin {"update", "start"} /\ q.pc = "model" /\ q.init = None

\* Only c is left to save: the copy, or what a failure puts back.
Closes(r, c) ==
  LET p == req[r]
  IN  /\ Finish(r, c) /\ UNCHANGED <<setup, handleSeq, wakeRuns>>
      /\ p.pc \notin {"off", "end"}
      /\ \/ SamePast(p.c, c) /\ UNCHANGED notices
         \/ /\ SamePast(p.before, c) /\ UNCHANGED notices
            /\ Keeping(p) /\ (p.kind = "click" \/ (p.kind = "wake" /\ ~p.ran))
         \/ /\ c.woke > p.c.woke /\ UNCHANGED notices
            /\ c.noticed = p.c.noticed /\ c.announcing = p.c.announcing
            /\ Outside(c) = Outside(p.c)
         \/ /\ p.pc = "tell" /\ notices' = Append(notices, p.c.announcing)
            /\ c.announcing = None
            /\ c.woke = p.c.woke /\ c.noticed = p.c.noticed /\ Outside(c) = Outside(p.c)
      /\ row' = row \/ (Fence(r) /\ p.pc = "commit" /\ row' = Saved(p, row.held))

LEMMA PaidPast ==
  ASSUME NEW c \in Conversation, NEW d, d = [c EXCEPT !.announcing = None]
  PROVE  /\ d.announcing = None /\ d.woke = c.woke /\ d.noticed = c.noticed
         /\ Outside(d) = Outside(c)
BY DEF Conversation, Outside

LEMMA AnnounceFields ==
  ASSUME Typed, NEW r \in Request, Announce(r) PROVE \E q : Announces(r, q)
<1> DEFINE p == req[r]
           c == p.c
           told == \E n \in (c.noticed + 1) .. Len(notices) :
                     /\ notices[n].handle = c.announcing.handle
                     /\ notices[n].replaces = c.announcing.replaces
           d == [c EXCEPT !.announcing = None]
           found == [req[r] EXCEPT !.pc = "begin", !.c = d]
           not == [req[r] EXCEPT !.pc = "append", !.c = c]
<1>1. p \in Work /\ c \in Conversation /\ c.noticed \in Nat /\ Len(notices) \in Nat
  BY Bounds DEF Typed, GoodWork, Good, Conversation
<1>2. UNCHANGED <<setup, row, notices, handleSeq, wakeRuns>> /\ p.pc = "announce"
  BY DEF Announce
<1>3. CASE told
  <2>1. Become(r, found)  BY <1>3 DEF Announce, Copy
  <2>2. \E n \in 1 .. Len(notices) : /\ notices[n].handle = c.announcing.handle
                                     /\ notices[n].replaces = c.announcing.replaces
    BY <1>1, <1>3
  <2>3. /\ d.announcing = None /\ d.woke = c.woke /\ d.noticed = c.noticed
        /\ Outside(d) = Outside(c)
    BY <1>1, PaidPast
  <2> HIDE DEF d, told
  <2>4. /\ found.pc = "begin" /\ found.c = d /\ found.token = p.token /\ found.kind = p.kind
        /\ found.wakes = p.wakes /\ found.ran = p.ran
    BY <1>1 DEF Work
  <2> HIDE DEF found
  <2> QED  BY <1>2, <2>1, <2>2, <2>3, <2>4 DEF Announces
<1>4. CASE ~told
  <2>1. Become(r, not)  BY <1>4 DEF Announce, Copy
  <2>2. /\ not.pc = "append" /\ not.c = c /\ not.token = p.token /\ not.kind = p.kind
        /\ not.wakes = p.wakes /\ not.ran = p.ran
    BY <1>1 DEF Work
  <2> HIDE DEF not, told
  <2> QED  BY <1>2, <2>1, <2>2 DEF Announces
<1> QED  BY <1>3, <1>4

LEMMA AppendOwedFields ==
  ASSUME Typed, NEW r \in Request, AppendOwed(r)
  PROVE  (\E q : Announces(r, q)) \/ (\E c : Closes(r, c))
<1> DEFINE p == req[r]
           c == p.c
           d == [c EXCEPT !.announcing = None]
           q == [req[r] EXCEPT !.pc = "begin", !.c = d]
<1>1. p \in Work /\ c \in Conversation
  BY DEF Typed, GoodWork, Good
<1>2. UNCHANGED <<setup, row, handleSeq, wakeRuns>> /\ p.pc = "append"
  BY DEF AppendOwed
<1>3. CASE notices' = Append(notices, c.announcing) /\ Copy(r, "begin", d)
  <2>1. Become(r, q)  BY <1>3 DEF Copy
  <2>2. /\ d.announcing = None /\ d.woke = c.woke /\ d.noticed = c.noticed
        /\ Outside(d) = Outside(c)
    BY <1>1, PaidPast
  <2>3. notices' = Append(notices, c.announcing)  BY <1>3
  <2> HIDE DEF d
  <2>4. /\ q.pc = "begin" /\ q.c = d /\ q.token = p.token /\ q.kind = p.kind
        /\ q.wakes = p.wakes /\ q.ran = p.ran
    BY <1>1 DEF Work
  <2> HIDE DEF q
  <2>5. Announces(r, q)  BY <1>2, <2>1, <2>2, <2>3, <2>4 DEF Announces
  <2> QED  BY <2>5
<1>4. CASE Finish(r, c) /\ UNCHANGED notices
  <2>1. SamePast(c, c)  BY DEF SamePast
  <2>2. Closes(r, c)  BY <1>2, <1>4, <2>1 DEF Closes
  <2> QED  BY <2>2
<1> QED  BY <1>3, <1>4 DEF AppendOwed

LEMMA TellFields ==
  ASSUME Typed, NEW r \in Request, Tell(r) PROVE \E c : Closes(r, c)
<1> DEFINE p == req[r]
           c == p.c
           d == [c EXCEPT !.announcing = None]
<1>1. p \in Work /\ c \in Conversation
  BY DEF Typed, GoodWork, Good
<1>2. UNCHANGED <<setup, row, handleSeq, wakeRuns>> /\ p.pc = "tell"
  BY DEF Tell
<1>3. CASE notices' = Append(notices, c.announcing) /\ Finish(r, d)
  <2>1. /\ d.announcing = None /\ d.woke = c.woke /\ d.noticed = c.noticed
        /\ Outside(d) = Outside(c)
    BY <1>1, PaidPast
  <2>2. notices' = Append(notices, c.announcing) /\ Finish(r, d)  BY <1>3
  <2> HIDE DEF d
  <2>3. Closes(r, d)  BY <1>2, <2>1, <2>2 DEF Closes
  <2> QED  BY <2>3
<1>4. CASE Finish(r, c) /\ UNCHANGED notices
  <2>1. SamePast(c, c)  BY DEF SamePast
  <2>2. Closes(r, c)  BY <1>2, <1>4, <2>1 DEF Closes
  <2> QED  BY <2>2
<1> QED  BY <1>3, <1>4 DEF Tell

LEMMA ReviseFields ==
  ASSUME Typed, NEW r \in Request, NEW h \in Handle, NEW wake \in BOOLEAN, Revise(r, h, wake)
  PROVE  \E q : Revises(r, q)
<1> DEFINE p == req[r]
           c == p.c
           old == CurrentHandle(c, h)
           new == handleSeq + 1
           rec == [old |-> old, new |-> new, outside |-> TRUE]
           shown == Revised(c, old, new, TRUE)
           revised == QuestionMoved(shown, old, new)
           note == UpdateNotice(old, new, wake)
           d == [revised EXCEPT !.announcing = note]
           q == [req[r] EXCEPT !.pc = "commit", !.c = d]
<1>1. /\ Good(c, MaxHandle, handleSeq) /\ p \in Work /\ c \in Conversation
      /\ p.kind = "update" /\ h \in c.handles /\ p.pc = "begin" /\ handleSeq < MaxHandle
  BY DEF Typed, GoodWork, Good, Revise
<1>2. h \in 1 .. handleSeq  BY <1>1 DEF Good
<1>3. old \in 1 .. handleSeq  BY <1>1, <1>2, Bounds, CurrentIsLatest
<1>4. note \in Note /\ note # None
  <2>1. note \in Note  BY <1>3, Bounds DEF UpdateNotice, Note
  <2> QED  BY <2>1, TurnsAssumption DEF Note
<1>5. Tells(note, rec) /\ rec.outside = TRUE  BY DEF Tells, UpdateNotice
<1>6. Become(r, q)  BY DEF Revise, Copy
<1> HIDE DEF old, new, note
<1>7. /\ shown.woke = c.woke /\ shown.noticed = c.noticed
      /\ shown.superseded = c.superseded \union {rec} /\ DOMAIN shown = DOMAIN c
      /\ DOMAIN c = DOMAIN NewConversation
  <2>1. shown = [Shown(c, new) EXCEPT !.superseded = @ \union {rec}]  BY DEF Revised
  <2> HIDE DEF rec
  <2> QED  BY <1>1, <2>1 DEF Shown, Conversation, NewConversation
<1> HIDE DEF shown, rec
<1>8. /\ revised.woke = c.woke /\ revised.noticed = c.noticed
      /\ revised.superseded = c.superseded \union {rec}
      /\ DOMAIN revised = DOMAIN NewConversation
  BY <1>7 DEF QuestionMoved, NewConversation
<1> HIDE DEF revised
<1>9. /\ d.woke = c.woke /\ d.noticed = c.noticed /\ d.announcing = note
      /\ d.superseded = c.superseded \union {rec}
  BY <1>8 DEF NewConversation
<1> HIDE DEF d
<1>10. Outside(d) = Outside(c) \union {rec}  BY <1>5, <1>9 DEF Outside
<1>11. /\ q.pc = "commit" /\ q.c = d /\ q.token = p.token /\ q.kind = p.kind
       /\ q.wakes = p.wakes
  BY <1>1 DEF Work
<1> HIDE DEF q
<1>12. UNCHANGED <<setup, row, notices, wakeRuns>>  BY DEF Revise
<1> QED  BY <1>1, <1>4, <1>5, <1>6, <1>9, <1>10, <1>11, <1>12 DEF Revises

LEMMA WakeFields ==
  ASSUME Typed, NEW r \in Request, Wake(r) PROVE \E q : Wakes(r, q)
<1> DEFINE p == req[r]
           c == p.c
           woken == [c EXCEPT !.woke = NewestWake(c), !.wakeTurns = c.wakeTurns + 1]
           m == User({}, Unread(c))
           pushed == Push(woken, m)
           d == TakenIn(pushed, Len(notices))
           wakes == {n \in UnreadWakes(c) : n > c.woke}
           q == [req[r] EXCEPT !.pc = "commit", !.before = c, !.wakes = wakes, !.c = d]
<1>1. /\ p \in Work /\ c \in Conversation /\ p.kind = "wake" /\ p.pc = "begin"
      /\ GoodWork(p, MaxHandle, handleSeq) /\ NewestWake(c) > c.woke /\ notices \in Seq(Note)
  BY DEF Typed, GoodWork, Good, Wake, MayWake
<1>2. Become(r, q)  BY DEF Wake
<1>3. \A n \in wakes : n > c.woke /\ n <= NewestWake(c)  BY <1>1, NewestIsNewest
<1>4. /\ d.woke = NewestWake(c) /\ d.noticed = Len(notices)
      /\ d.announcing = c.announcing /\ d.superseded = c.superseded
  <2> HIDE DEF m
  <2> QED  BY <1>1 DEF Conversation, TakenIn, Push
<1> HIDE DEF d, wakes
<1>5. /\ q.pc = "commit" /\ q.c = d /\ q.token = p.token /\ q.kind = p.kind
      /\ q.wakes = wakes /\ q.before = c /\ q.init = p.init /\ q.ran = p.ran
  BY <1>1 DEF Work
<1> HIDE DEF q
<1>6. q.init = None  BY <1>1, <1>5 DEF GoodWork
<1>7. Outside(d) = Outside(c)  BY <1>4 DEF Outside
<1>8. UNCHANGED <<setup, row, notices, handleSeq, wakeRuns>>  BY DEF Wake
<1> QED  BY <1>1, <1>2, <1>3, <1>4, <1>5, <1>6, <1>7, <1>8 DEF Wakes

LEMMA CommitLandsFields ==
  ASSUME Typed, NEW r \in Request, CommitLands(r) PROVE \E q : Lands(r, q)
<1> DEFINE p == req[r]
           idle == [p.c EXCEPT !.status = "idle"]
           busy == [p.c EXCEPT !.status = "streaming"]
<1>1. p \in Work /\ p.c \in Conversation /\ p.pc = "commit"
  BY DEF Typed, GoodWork, Good, CommitLands
<1>2. SamePast(p.c, idle) /\ SamePast(p.c, busy) /\ SamePast(p.c, p.c)
  BY <1>1, PastKept DEF Status, SamePast
<1>3. /\ UNCHANGED <<setup, notices, handleSeq, wakeRuns>> /\ Fence(r)
      /\ row' = Saved(p, row.held)
  BY DEF CommitLands
<1>4. CASE p.kind = "update"
  <2> DEFINE q == [req[r] EXCEPT !.pc = "tell", !.c = p.c]
  <2>1. Become(r, q)  BY <1>4 DEF CommitLands, Copy
  <2>2. /\ q.pc = "tell" /\ q.c = p.c /\ q.token = p.token /\ q.kind = p.kind
        /\ q.wakes = p.wakes /\ q.before = p.before /\ q.ran = p.ran
    BY <1>1 DEF Work
  <2> HIDE DEF q
  <2> QED  BY <1>1, <1>2, <1>3, <1>4, <2>1, <2>2 DEF Lands
<1>5. CASE p.kind = "start"
  <2> DEFINE q == [req[r] EXCEPT !.pc = "context", !.c = idle]
  <2>1. Become(r, q)  BY <1>5 DEF CommitLands, Copy
  <2> HIDE DEF idle
  <2>2. /\ q.pc = "context" /\ q.c = idle /\ q.token = p.token /\ q.kind = p.kind
        /\ q.wakes = p.wakes /\ q.before = p.before /\ q.ran = p.ran
    BY <1>1 DEF Work
  <2> HIDE DEF q
  <2> QED  BY <1>1, <1>2, <1>3, <1>5, <2>1, <2>2 DEF Lands
<1>6. CASE p.kind \notin {"update", "start"}
  <2> DEFINE q == [req[r] EXCEPT !.pc = "model", !.hop = 1, !.init = None, !.c = busy]
  <2>1. Become(r, q)
    <3>1. q = [req[r] EXCEPT !.pc = "model", !.hop = 1, !.init = None, !.c.status = "streaming"]
      BY <1>1 DEF Work
    <3> QED  BY <1>6, <3>1 DEF CommitLands
  <2> HIDE DEF busy
  <2>2. /\ q.pc = "model" /\ q.c = busy /\ q.token = p.token /\ q.kind = p.kind
        /\ q.wakes = p.wakes /\ q.before = p.before /\ q.ran = p.ran /\ q.init = None
    BY <1>1 DEF Work
  <2> HIDE DEF q
  <2> QED  BY <1>1, <1>2, <1>3, <1>6, <2>1, <2>2 DEF Lands
<1> QED  BY <1>4, <1>5, <1>6

\* A failed wake turn is closed as it is, or put back.
LEMMA WakeFailedPast ==
  ASSUME NEW n, NEW seq, NEW p, GoodWork(p, n, seq), Keeping(p)
  PROVE  \/ SamePast(p.c, WakeFailed(p))
         \/ ~p.ran /\ SamePast(p.before, WakeFailed(p))
<1>1. p.c \in Conversation /\ p.before \in Conversation  BY DEF GoodWork, Good
<1>2. CASE p.ran
  <2>1. SamePast(p.c, [p.c EXCEPT !.status = "idle"])  BY <1>1, PastKept DEF Status
  <2> QED  BY <1>2, <2>1 DEF WakeFailed
<1>3. CASE ~p.ran
  <2> DEFINE d == [p.before EXCEPT !.wakeTurns = p.c.wakeTurns, !.pending = None]
  <2>1. SamePast(p.before, d)  BY <1>1 DEF SamePast, Outside, Conversation
  <2> QED  BY <1>3, <2>1 DEF WakeFailed
<1> QED  BY <1>2, <1>3

LEMMA CommitFailsFields ==
  ASSUME Typed, NEW r \in Request, CommitFails(r) PROVE \E c : Closes(r, c)
<1> DEFINE p == req[r]
           c == Undone(p)
<1>1. GoodWork(p, MaxHandle, handleSeq) /\ p.pc = "commit"  BY DEF Typed, CommitFails
<1>2. SamePast(p.c, p.c) /\ SamePast(p.before, p.before)  BY DEF SamePast
<1>3. \/ SamePast(p.c, c)
      \/ /\ SamePast(p.before, c) /\ Keeping(p)
         /\ p.kind = "click" \/ (p.kind = "wake" /\ ~p.ran)
  <2>1. p.kind \in {"click", "wake"} => Keeping(p)  BY <1>1 DEF Keeping
  <2> QED  BY <1>1, <1>2, <2>1, WakeFailedPast DEF Undone
<1>4. Finish(r, c) /\ UNCHANGED <<setup, notices, handleSeq, wakeRuns>>
  BY DEF CommitFails
<1>5. row' = row \/ (Fence(r) /\ row' = Saved(p, row.held))  BY DEF CommitFails
<1> HIDE DEF c
<1> QED  BY <1>1, <1>3, <1>4, <1>5 DEF Closes

LEMMA FailsFields ==
  ASSUME Typed, NEW r \in Request, ModelFails(r) \/ ContextFails(r)
  PROVE  \E c : Closes(r, c)
<1> DEFINE p == req[r]
           c == IF p.kind = "wake" THEN WakeFailed(p) ELSE p.c
<1>1. GoodWork(p, MaxHandle, handleSeq) /\ p.pc \in {"model", "context"}
  BY DEF Typed, ModelFails, ContextFails
<1>2. SamePast(p.c, p.c)  BY DEF SamePast
<1>3. \/ SamePast(p.c, c)
      \/ SamePast(p.before, c) /\ Keeping(p) /\ p.kind = "wake" /\ ~p.ran
  <2>1. p.kind = "wake" => Keeping(p)  BY <1>1 DEF Keeping
  <2> QED  BY <1>1, <1>2, <2>1, WakeFailedPast
<1>4. Finish(r, c) /\ UNCHANGED <<setup, row, notices, handleSeq, wakeRuns>>
  BY DEF ModelFails, ContextFails
<1> HIDE DEF c
<1> QED  BY <1>1, <1>3, <1>4 DEF Closes

LEMMA PlainlyCloses ==
  ASSUME Typed, NEW r \in Request,
         Refuse(r) \/ ReadContext(r) \/ InitFails(r) \/ WakeLimited(r)
  PROVE  \E c : Closes(r, c)
<1> DEFINE p == req[r]
           c == p.c
<1>1. c \in Conversation /\ SamePast(c, c) /\ GoodWork(p, MaxHandle, handleSeq)
  BY DEF Typed, GoodWork, Good, SamePast
<1>2. CASE Refuse(r) \/ ReadContext(r)
  <2>1. Closes(r, c)  BY <1>1, <1>2 DEF Refuse, ReadContext, Closes
  <2> QED  BY <2>1
<1>3. CASE InitFails(r)
  <2> DEFINE d == [c EXCEPT !.handles = p.before.handles, !.status = p.before.status]
  <2>1. SamePast(c, d)  BY <1>1 DEF SamePast, Outside, Conversation
  <2>2. /\ Finish(r, d) /\ p.pc = "tool"
        /\ UNCHANGED <<setup, row, notices, handleSeq, wakeRuns>>
    BY <1>3 DEF InitFails
  <2> HIDE DEF d
  <2>3. Closes(r, d)  BY <2>1, <2>2 DEF Closes
  <2> QED  BY <2>3
<1>4. CASE WakeLimited(r)
  <2> DEFINE d == [c EXCEPT !.woke = NewestWake(c)]
  <2>1. /\ d.woke > c.woke /\ d.noticed = c.noticed /\ d.announcing = c.announcing
        /\ Outside(d) = Outside(c)
    BY <1>1, <1>4 DEF Outside, Conversation, WakeLimited, MayWake
  <2>2. /\ Finish(r, d) /\ p.pc = "begin"
        /\ UNCHANGED <<setup, row, notices, handleSeq, wakeRuns>>
    BY <1>4 DEF WakeLimited
  <2> HIDE DEF d
  <2>3. Closes(r, d)  BY <2>1, <2>2 DEF Closes
  <2> QED  BY <2>3
<1> QED  BY <1>2, <1>3, <1>4

\* A request is over: its last save has landed, or it is cut off.
Leaves(r) ==
  /\ Stop(r) /\ Running(r) /\ UNCHANGED <<setup, notices, handleSeq>>
  /\ wakeRuns' = wakeRuns \/ (req[r].pc = "tool" /\ NoteRun(r))
  /\ row' = row \/ (Fence(r) /\ req[r].pc = "end" /\ row' = Saved(req[r], FALSE))

\* No request does anything: the lease lapses, or an app's notice comes in.
Elsewhere ==
  /\ UNCHANGED <<setup, handleSeq, req, wakeRuns>>
  /\ row'.c = row.c /\ row'.token = row.token
  /\ notices' = notices \/ (\E wake \in BOOLEAN : notices' = Append(notices, AppNotice(wake)))

\* Every step is one of these.
LEMMA Steps ==
  ASSUME Typed, [Next]_vars
  PROVE  \/ \E r \in Request :
              \/ \E kind \in AllKinds : Load(r, kind)
              \/ \E q : Begins(r, q) \/ Announces(r, q) \/ Revises(r, q) \/ Wakes(r, q)
                        \/ Lands(r, q) \/ Worked(r, q)
              \/ \E c : Closes(r, c)
              \/ Leaves(r)
         \/ Elsewhere
<1>1. ASSUME NEW r \in Request, ToolOvertaken(r) \/ Overtaken(r) \/ Crash(r) \/ Release(r)
      PROVE  Leaves(r)
  BY <1>1 DEF ToolOvertaken, Overtaken, Crash, Release, Leaves, Running
<1>2. CASE Lapse
  <2>1. row' = [row EXCEPT !.held = FALSE]  BY <1>2 DEF Lapse
  <2>2. row'.c = row.c /\ row'.token = row.token  BY <2>1 DEF Typed, Row
  <2> QED  BY <1>2, <2>2 DEF Lapse, Elsewhere
<1>3. ASSUME NEW wake \in BOOLEAN, Notify(wake) PROVE Elsewhere
  BY <1>3 DEF Notify, Elsewhere
<1>4. CASE UNCHANGED vars  BY <1>4 DEF vars, Elsewhere
<1>5. AsksToWake \subseteq BOOLEAN  BY DEF AsksToWake
<1> QED
  BY <1>1, <1>2, <1>3, <1>4, <1>5, SendMessageBegins, CallInitBegins, InitReturnsBegins,
     ClickBegins, AnnounceFields, AppendOwedFields, TellFields, ReviseFields, WakeFields,
     CommitLandsFields, CommitFailsFields, FailsFields, PlainlyCloses, WorkingGoes
     DEF Next, Working

-----------------------------------------------------------------------------
(* No wake notice sets tools running twice                                  *)

\* No two requests at work have the same token, nor one the row has not had.
Leased ==
  /\ \A r \in Request : Running(r) => req[r].token >= 1 /\ req[r].token <= row.token
  /\ \A r, s \in Request : Running(r) /\ Running(s) /\ req[r].token = req[s].token => r = s

\* Notice n has set tools running under token t, or may without another save.
MayRun(n, t) ==
  \/ <<n, t>> \in wakeRuns
  \/ \E r \in Request : /\ req[r].pc \in {"model", "tool"}
                        /\ n \in req[r].wakes /\ t = req[r].token

\* The notices of a wake turn are those between what its conversation had been
\* woken for and what it is woken for now.
WakesItsOwn(q) ==
  /\ q.kind # "wake" => q.wakes = {}
  /\ q.pc \in {"commit", "model", "tool"} =>
       \A n \in q.wakes : n > q.before.woke /\ n <= q.c.woke

\* The holder has been woken for all that may run, and what it may put back had
\* been for what others did; a tool run of its own is kept.
KnowsRuns(q) ==
  /\ \A n, t : MayRun(n, t) /\ t # q.token =>
       n <= q.c.woke /\ (Keeping(q) => n <= q.before.woke)
  /\ \A n : <<n, q.token>> \in wakeRuns =>
       q.kind = "wake" /\ n <= q.c.woke /\ (q.pc = "end" \/ q.ran)

\* Each notice runs at most once, and whoever can save knows which have.
Woken ==
  /\ \A n, t : MayRun(n, t) => t <= row.token /\ n <= row.c.woke
  /\ \A n, t, u : MayRun(n, t) /\ MayRun(n, u) => t = u
  /\ \A r \in Request : WakesItsOwn(req[r])
  /\ \A r \in Request : Running(r) /\ Fence(r) => KnowsRuns(req[r])

LEMMA MayRunTyped ==
  ASSUME Typed, NEW n, NEW t, MayRun(n, t) PROVE n \in Nat /\ t \in Nat
BY DEF Typed, MayRun, Numbers, Work

LEMMA FinishIs ==
  ASSUME Typed, NEW r \in Request, NEW c, Finish(r, c)
  PROVE  \E q : /\ Become(r, q) /\ q.pc = "end" /\ q.kind = req[r].kind /\ q.c = c
                /\ q.token = req[r].token /\ q.wakes = {} /\ q.init = None
<1> DEFINE q == [Fresh EXCEPT !.pc = "end", !.kind = req[r].kind,
                              !.token = req[r].token, !.c = c]
<1>1. /\ q.pc = "end" /\ q.kind = req[r].kind /\ q.c = c
      /\ q.token = req[r].token /\ q.wakes = {} /\ q.init = None
  BY DEF Fresh
<1>2. Become(r, q)  BY DEF Finish
<1> HIDE DEF q
<1> QED  BY <1>1, <1>2

LEMMA LoadIs ==
  ASSUME Typed, NEW r \in Request, NEW kind \in AllKinds, Load(r, kind)
  PROVE  /\ \E q : /\ Become(r, q) /\ q.pc \in {"end", "announce", "begin"} /\ q.kind = kind
                   /\ q.token = row.token + 1 /\ q.c = row.c /\ q.wakes = {}
                   /\ q.init = None
                   /\ q.pc = "announce" => row.c.announcing # None
                   /\ q.pc = "begin" => row.c.announcing = None
         /\ row'.c = row.c /\ row'.token = row.token + 1 /\ ~Running(r)
         /\ UNCHANGED <<setup, notices, handleSeq, wakeRuns>>
<1> DEFINE pc == CASE kind = "start" /\ row.c.msgs # <<>> -> "end"
                   [] row.c.announcing # None             -> "announce"
                   [] OTHER                               -> "begin"
           q == [Fresh EXCEPT !.kind = kind, !.token = row.token + 1, !.c = row.c, !.pc = pc]
<1>1. /\ pc \in {"end", "announce", "begin"}
      /\ pc = "announce" => row.c.announcing # None
      /\ pc = "begin" => row.c.announcing = None
  OBVIOUS
<1>2. Become(r, q)  BY DEF Load
<1> HIDE DEF pc
<1>3. /\ q.pc = pc /\ q.kind = kind /\ q.c = row.c
      /\ q.token = row.token + 1 /\ q.wakes = {} /\ q.init = None
  BY DEF Fresh
<1> HIDE DEF q
<1>4. row' = [row EXCEPT !.token = row.token + 1, !.held = TRUE]  BY DEF Load
<1>5. row'.c = row.c /\ row'.token = row.token + 1  BY <1>4 DEF Typed, Row
<1> QED  BY <1>1, <1>2, <1>3, <1>5 DEF Load

\* While a request is at work it keeps its token, and the row keeps its own.
LEMMA LeasedMoves ==
  ASSUME Typed, Leased, NEW r \in Request, NEW q, Become(r, q), row'.token = row.token,
         q.pc = "off" \/ (Running(r) /\ q.token = req[r].token)
  PROVE  Leased'
BY Becomes DEF Typed, Leased, Running

LEMMA LeasedLoads ==
  ASSUME Typed, Leased, NEW r \in Request, NEW kind \in AllKinds, Load(r, kind) PROVE Leased'
<1>1. PICK q : Become(r, q) /\ q.token = row.token + 1  BY LoadIs
<1>2. row'.token = row.token + 1 /\ row.token \in Nat /\ ~Running(r)
  BY LoadIs DEF Typed, Row
<1>3. \A s \in Request : s # r => req'[s] = req[s] /\ req[s].token \in Nat
  BY <1>1, Becomes DEF Typed, Work
<1>4. req'[r] = q  BY <1>1, Becomes DEF Typed
<1> QED  BY <1>1, <1>2, <1>3, <1>4 DEF Leased, Running

LEMMA WokenMoves ==
  ASSUME Typed, Typed', Leased, Woken, NEW r \in Request, NEW q, Become(r, q),
         Running(r), req[r].pc # "end", q.token = req[r].token, q.kind = req[r].kind,
         row'.token = row.token,
         row'.c = row.c \/ (Fence(r) /\ row'.c = req[r].c),
         wakeRuns' = wakeRuns \/ (NoteRun(r) /\ q.ran /\ req[r].pc = "tool"),
         \* what may run now
         q.pc \in {"model", "tool"} /\ q.wakes # {} =>
           /\ q.wakes = req[r].wakes
           /\ \/ req[r].pc \in {"model", "tool"}
              \/ req[r].pc = "commit" /\ Fence(r) /\ row'.c = req[r].c,
         WakesItsOwn(q),
         \* what the copy has been woken for
         \/ q.c.woke >= req[r].c.woke
         \/ /\ Keeping(req[r]) /\ q.c.woke = req[r].before.woke
            /\ q.kind # "wake" \/ ~req[r].ran
            /\ wakeRuns' = wakeRuns,
         Keeping(q) => \/ q.before.woke = req[r].c.woke
                       \/ Keeping(req[r]) /\ q.before = req[r].before,
         q.kind # "wake" \/ q.pc = "end" \/ (req[r].ran => q.ran)
  PROVE  Woken'
<1> DEFINE p == req[r]
<1>1. /\ req'[r] = q /\ q \in Work /\ p \in Work /\ row.token \in Nat
      /\ \A s \in Request : s # r => req'[s] = req[s]
      /\ GoodWork(p, MaxHandle, handleSeq) /\ GoodWork(q, MaxHandle, handleSeq)'
      /\ row.c \in Conversation /\ row'.c \in Conversation
  BY Becomes DEF Typed, Row
<1>2. /\ p.c.woke \in Nat /\ q.c.woke \in Nat /\ p.token \in Nat /\ p.wakes \subseteq Nat
      /\ (Keeping(p) => p.before.woke \in Nat) /\ (Keeping(q) => q.before.woke \in Nat)
      /\ row.c.woke \in Nat /\ row'.c.woke \in Nat
  BY <1>1 DEF GoodWork, Good, Work, Conversation
<1>3. Fence(r) => KnowsRuns(p)  BY DEF Woken
<1>4. WakesItsOwn(p)  BY DEF Woken
\* No more may run than might, but for the commit that lands.
<1> DEFINE New(n) == /\ p.pc = "commit" /\ Fence(r) /\ row'.c = p.c
                     /\ n \in p.wakes /\ q.pc \in {"model", "tool"}
<1>5. ASSUME NEW n, NEW t, MayRun(n, t)'
      PROVE  MayRun(n, t) \/ (New(n) /\ t = p.token)
  <2>1. CASE <<n, t>> \in wakeRuns'
    <3>1. <<n, t>> \in wakeRuns \/ (n \in p.wakes /\ t = p.token /\ p.pc = "tool")
      BY <2>1 DEF NoteRun
    <3> QED  BY <3>1 DEF MayRun
  <2>2. ASSUME NEW s \in Request, req'[s].pc \in {"model", "tool"}, n \in req'[s].wakes,
               t = req'[s].token
        PROVE  MayRun(n, t) \/ (New(n) /\ t = p.token)
    <3>1. CASE s = r  BY <1>1, <2>2, <3>1 DEF MayRun
    <3>2. CASE s # r  BY <1>1, <2>2, <3>2 DEF MayRun
    <3> QED  BY <3>1, <3>2
  <2> QED  BY <1>5, <2>1, <2>2 DEF MayRun
<1>6. ASSUME NEW n, New(n)
      PROVE  /\ \A u : MayRun(n, u) => u = p.token
             /\ p.token = row.token /\ n <= p.c.woke /\ n \in Nat /\ p.kind = "wake"
  <2>1. p.kind = "wake" /\ n > p.before.woke /\ n <= p.c.woke /\ Fence(r) /\ n \in Nat
    BY <1>2, <1>4, <1>6 DEF WakesItsOwn
  <2>2. Keeping(p)  BY <1>6, <2>1 DEF Keeping
  <2>3. p.before.woke \in Nat  BY <1>2, <2>2
  <2>4. ASSUME NEW u, MayRun(n, u), u # p.token PROVE FALSE
    <3>1. n <= p.before.woke  BY <1>3, <2>1, <2>2, <2>4 DEF KnowsRuns
    <3> QED  BY <2>1, <2>3, <3>1
  <2> QED  BY <2>1, <2>4 DEF Fence
<1> HIDE DEF New
\* What the holder itself has run or may run, it has been woken for.
<1>7. ASSUME NEW n, Fence(r), MayRun(n, p.token) PROVE n <= p.c.woke
  <2>1. CASE <<n, p.token>> \in wakeRuns  BY <1>3, <1>7, <2>1 DEF KnowsRuns
  <2>2. ASSUME NEW s \in Request, req[s].pc \in {"model", "tool"}, n \in req[s].wakes,
               p.token = req[s].token
        PROVE  n <= p.c.woke
    <3>1. s = r  BY <2>2 DEF Leased, Running
    <3> QED  BY <1>4, <2>2, <3>1 DEF WakesItsOwn
  <2> QED  BY <1>7, <2>1, <2>2 DEF MayRun
<1>8. ASSUME NEW n, NEW t, MayRun(n, t)' PROVE t <= row'.token /\ n <= row'.c.woke
  <2>0. n \in Nat /\ t \in Nat
    <3>1. MayRun(n, t) => n \in Nat /\ t \in Nat  BY MayRunTyped
    <3> QED  BY <1>2, <1>5, <1>6, <1>8, <3>1
  <2>1. CASE MayRun(n, t)
    <3>1. t <= row'.token /\ n <= row.c.woke  BY <2>1 DEF Woken
    <3>2. CASE row'.c = row.c  BY <3>1, <3>2
    <3>3. CASE Fence(r) /\ row'.c = p.c
      <4>1. CASE t = p.token  BY <1>7, <2>1, <3>1, <3>3, <4>1
      <4>2. CASE t # p.token  BY <1>3, <2>1, <3>1, <3>3, <4>2 DEF KnowsRuns
      <4> QED  BY <4>1, <4>2
    <3> QED  BY <3>1, <3>2, <3>3
  <2>2. CASE New(n) /\ t = p.token
    BY <1>1, <1>6, <2>2 DEF New
  <2> QED  BY <1>5, <1>8, <2>1, <2>2
<1>9. ASSUME NEW n, NEW t, NEW u, MayRun(n, t)', MayRun(n, u)' PROVE t = u
  <2>1. MayRun(n, t) /\ MayRun(n, u) => t = u  BY DEF Woken
  <2> QED  BY <1>5, <1>6, <1>9, <2>1
<1>10. ASSUME NEW s \in Request PROVE WakesItsOwn(req[s])'
  <2>1. CASE s = r  BY <1>1, <2>1 DEF WakesItsOwn
  <2>2. CASE s # r  BY <1>1, <2>2 DEF WakesItsOwn, Woken
  <2> QED  BY <2>1, <2>2
<1>11. ASSUME NEW s \in Request, s # r, Running(s)', Fence(s)' PROVE KnowsRuns(req[s])'
  <2>1. Running(s) /\ Fence(s) /\ req'[s] = req[s]  BY <1>1, <1>11 DEF Running, Fence
  <2>2. KnowsRuns(req[s])  BY <2>1 DEF Woken
  <2>3. req[s].token # p.token /\ ~Fence(r)  BY <1>11, <2>1 DEF Leased, Fence
  <2>4. ASSUME NEW n, NEW t, MayRun(n, t)' PROVE MayRun(n, t)
    BY <1>5, <2>3, <2>4 DEF New
  <2>5. ASSUME NEW n, <<n, req[s].token>> \in wakeRuns' PROVE <<n, req[s].token>> \in wakeRuns
    BY <2>3, <2>5 DEF NoteRun
  <2> QED  BY <2>1, <2>2, <2>4, <2>5 DEF KnowsRuns, Keeping
<1>12. ASSUME Running(r)', Fence(r)' PROVE KnowsRuns(req[r])'
  <2>1. Fence(r) /\ KnowsRuns(p)  BY <1>1, <1>3, <1>12 DEF Fence
  <2>2. ASSUME NEW n, NEW t, MayRun(n, t)', t # q.token
        PROVE  n <= q.c.woke /\ (Keeping(q) => n <= q.before.woke)
    <3>1. MayRun(n, t)  BY <1>5, <2>2
    <3>2. n <= p.c.woke /\ (Keeping(p) => n <= p.before.woke)  BY <2>1, <2>2, <3>1 DEF KnowsRuns
    <3>3. n \in Nat  BY <3>1, MayRunTyped
    <3>4. n <= q.c.woke  BY <1>2, <3>2, <3>3
    <3>5. Keeping(q) => n <= q.before.woke  BY <3>2
    <3> QED  BY <3>4, <3>5
  <2>3. ASSUME NEW n, <<n, q.token>> \in wakeRuns'
        PROVE  q.kind = "wake" /\ n <= q.c.woke /\ (q.pc = "end" \/ q.ran)
    <3>0. <<n, q.token>> \in wakeRuns \/ (NoteRun(r) /\ q.ran /\ p.pc = "tool" /\ n \in p.wakes)
      BY <2>3 DEF NoteRun
    <3>1. CASE <<n, q.token>> \in wakeRuns
      <4>1. q.kind = "wake" /\ n <= p.c.woke /\ p.ran  BY <2>1, <3>1 DEF KnowsRuns
      <4>2. n \in Nat  BY <3>1 DEF Typed, Numbers
      <4> QED  BY <1>2, <4>1, <4>2
    <3>2. CASE <<n, q.token>> \notin wakeRuns
      <4>1. q.ran /\ p.pc = "tool" /\ n \in p.wakes /\ wakeRuns' # wakeRuns
        BY <2>3, <3>0, <3>2
      <4>2. q.kind = "wake" /\ n <= p.c.woke  BY <1>4, <4>1 DEF WakesItsOwn
      <4> QED  BY <1>2, <4>1, <4>2
    <3> QED  BY <3>1, <3>2
  <2> QED  BY <1>1, <2>2, <2>3 DEF KnowsRuns, Keeping
<1> QED  BY <1>8, <1>9, <1>10, <1>11, <1>12 DEF Woken

LEMMA WokenLeaves ==
  ASSUME Typed, Typed', Leased, Woken, NEW r \in Request, Leaves(r) PROVE Woken'
<1> DEFINE p == req[r]
<1>1. /\ req'[r] = Fresh /\ row.token \in Nat /\ row'.token = row.token
      /\ \A s \in Request : s # r => req'[s] = req[s]
      /\ row'.c = row.c \/ (Fence(r) /\ p.pc = "end" /\ row'.c = p.c)
      /\ row.c.woke \in Nat
  <2>1. Become(r, Fresh)  BY DEF Leaves, Stop
  <2>2. row'.token = row.token /\ (row'.c = row.c \/ (Fence(r) /\ p.pc = "end" /\ row'.c = p.c))
    BY DEF Leaves, Saved, Fence
  <2> QED  BY <2>1, <2>2, Moves, RowTyped
<1>2. ASSUME NEW n, NEW t, MayRun(n, t)' PROVE MayRun(n, t)
  <2>1. CASE <<n, t>> \in wakeRuns'
    <3>1. <<n, t>> \in wakeRuns \/ (p.pc = "tool" /\ n \in p.wakes /\ t = p.token)
      BY <2>1 DEF Leaves, NoteRun
    <3> QED  BY <3>1 DEF MayRun
  <2>2. ASSUME NEW s \in Request, req'[s].pc \in {"model", "tool"}, n \in req'[s].wakes,
               t = req'[s].token
        PROVE  MayRun(n, t)
    <3>1. s # r  BY <1>1, <2>2 DEF Fresh
    <3> QED  BY <1>1, <2>2, <3>1 DEF MayRun
  <2> QED  BY <1>2, <2>1, <2>2 DEF MayRun
<1>3. ASSUME NEW n, NEW t, MayRun(n, t)' PROVE t <= row'.token /\ n <= row'.c.woke
  <2>1. MayRun(n, t)  BY <1>2, <1>3
  <2>2. t <= row.token /\ n <= row.c.woke  BY <2>1 DEF Woken
  <2>3. CASE row'.c = row.c  BY <1>1, <2>2, <2>3
  <2>4. CASE Fence(r) /\ p.pc = "end" /\ row'.c = p.c
    <3>1. KnowsRuns(p)  BY <2>4 DEF Woken, Running
    <3>2. CASE t # p.token  BY <1>1, <2>1, <2>2, <2>4, <3>1, <3>2 DEF KnowsRuns
    <3>3. CASE t = p.token
      <4>1. <<n, t>> \in wakeRuns
        BY <2>1, <2>4, <3>3 DEF MayRun, Leased, Running
      <4> QED  BY <1>1, <2>2, <2>4, <3>1, <3>3, <4>1 DEF KnowsRuns
    <3> QED  BY <3>2, <3>3
  <2> QED  BY <1>1, <2>3, <2>4
<1>4. ASSUME NEW n, NEW t, NEW u, MayRun(n, t)', MayRun(n, u)' PROVE t = u
  BY <1>2, <1>4 DEF Woken
<1>5. ASSUME NEW s \in Request PROVE WakesItsOwn(req[s])'
  <2>1. CASE s = r  BY <1>1, <2>1 DEF WakesItsOwn, Fresh
  <2>2. CASE s # r  BY <1>1, <2>2 DEF WakesItsOwn, Woken
  <2> QED  BY <2>1, <2>2
<1>6. ASSUME NEW s \in Request, Running(s)', Fence(s)' PROVE KnowsRuns(req[s])'
  <2>0. s # r  BY <1>1, <1>6 DEF Running, Fresh
  <2>1. Running(s) /\ Fence(s) /\ req'[s] = req[s]
    BY <1>1, <1>6, <2>0 DEF Running, Fence
  <2>2. KnowsRuns(req[s])  BY <2>1 DEF Woken
  <2>3. req[s].token # p.token  BY <2>0, <2>1 DEF Leased, Leaves
  <2>4. ASSUME NEW n, <<n, req[s].token>> \in wakeRuns' PROVE <<n, req[s].token>> \in wakeRuns
    BY <2>3, <2>4 DEF NoteRun, Leaves
  <2> QED  BY <1>2, <2>1, <2>2, <2>4 DEF KnowsRuns, Keeping
<1> QED  BY <1>3, <1>4, <1>5, <1>6 DEF Woken

LEMMA WokenLoads ==
  ASSUME Typed, Typed', Leased, Woken, NEW r \in Request, NEW kind \in AllKinds, Load(r, kind)
  PROVE  Woken'
<1>1. PICK q : /\ Become(r, q) /\ q.pc \in {"end", "announce", "begin"} /\ q.kind = kind
               /\ q.token = row.token + 1 /\ q.c = row.c /\ q.wakes = {}
  BY LoadIs
<1>2. /\ req'[r] = q /\ row.token \in Nat /\ row.c.woke \in Nat
      /\ \A s \in Request : s # r => req'[s] = req[s]
      /\ row'.token = row.token + 1 /\ row'.c = row.c /\ wakeRuns' = wakeRuns
  <2>1. row'.token = row.token + 1 /\ row'.c = row.c /\ wakeRuns' = wakeRuns  BY LoadIs
  <2> QED  BY <1>1, <2>1, Moves, RowTyped
<1>3. ASSUME NEW n, NEW t, MayRun(n, t)' PROVE MayRun(n, t)
  BY <1>1, <1>2, <1>3 DEF MayRun
<1>4. ASSUME NEW n, NEW t, MayRun(n, t)'
      PROVE  t <= row.token /\ n <= row.c.woke /\ n \in Nat /\ t \in Nat
  BY <1>3, <1>4, MayRunTyped DEF Woken
<1>5. ASSUME NEW n, NEW t, NEW u, MayRun(n, t)', MayRun(n, u)' PROVE t = u
  BY <1>3, <1>5 DEF Woken
<1>6. ASSUME NEW s \in Request PROVE WakesItsOwn(req[s])'
  <2>1. CASE s = r  BY <1>1, <1>2, <2>1 DEF WakesItsOwn
  <2>2. CASE s # r  BY <1>2, <2>2 DEF WakesItsOwn, Woken
  <2> QED  BY <2>1, <2>2
<1>7. ASSUME NEW s \in Request, Running(s)', Fence(s)' PROVE KnowsRuns(req[s])'
  <2>1. s = r
    <3>1. CASE s # r
      <4>1. req[s].token <= row.token /\ req[s].token = row.token + 1 /\ req[s].token \in Nat
        BY <1>2, <1>7, <3>1 DEF Running, Fence, Leased, Typed, Work
      <4> QED  BY <1>2, <4>1
    <3> QED  BY <3>1
  <2>2. ~Keeping(q)  BY <1>1 DEF Keeping
  <2>3. \A n : <<n, q.token>> \notin wakeRuns'
    <3>1. ASSUME NEW n, <<n, q.token>> \in wakeRuns' PROVE FALSE
      <4>1. MayRun(n, q.token)'  BY <3>1 DEF MayRun
      <4> QED  BY <1>1, <1>2, <1>4, <4>1
    <3> QED  BY <3>1
  <2>4. KnowsRuns(q)'  BY <1>1, <1>4, <2>2, <2>3 DEF KnowsRuns
  <2> QED  BY <1>2, <2>1, <2>4
<1>8. ASSUME NEW n, NEW t, MayRun(n, t)' PROVE t <= row'.token /\ n <= row'.c.woke
  BY <1>2, <1>4, <1>8
<1> QED  BY <1>5, <1>6, <1>7, <1>8 DEF Woken

LEMMA WokenElsewhere ==
  ASSUME Woken, Elsewhere PROVE Woken'
<1>1. \A n, t : MayRun(n, t)' <=> MayRun(n, t)  BY DEF MayRun, Elsewhere
<1>2. ASSUME NEW s \in Request, Running(s)', Fence(s)' PROVE KnowsRuns(req[s])'
  <2>1. KnowsRuns(req[s])  BY <1>2 DEF Running, Fence, Elsewhere, Woken
  <2> QED  BY <1>1, <2>1 DEF KnowsRuns, Keeping, Elsewhere
<1>3. \A s \in Request : WakesItsOwn(req[s])'  BY DEF Woken, WakesItsOwn, Elsewhere
<1> QED  BY <1>1, <1>2, <1>3 DEF Woken, Elsewhere

LEMMA WokenStep ==
  ASSUME Typed, Typed', Leased, Woken, [Next]_vars PROVE Leased' /\ Woken'
<1>p. ASSUME NEW r \in Request
      PROVE  WakesItsOwn(req[r]) /\ req[r].c.woke \in Nat
  BY DEF Woken, Typed, GoodWork, Good, Conversation
<1>1. ASSUME NEW r \in Request, NEW kind \in AllKinds, Load(r, kind)
      PROVE  Leased' /\ Woken'
  BY <1>1, LeasedLoads, WokenLoads
<1>2. ASSUME NEW r \in Request, NEW q, Begins(r, q) PROVE Leased' /\ Woken'
  <2>1. /\ Running(r) /\ req[r].pc # "end" /\ q.wakes = {} /\ q.c.woke >= req[r].c.woke
        /\ q.kind # "wake" /\ q.pc # "off"
    BY <1>2, <1>p DEF Begins, Running, WakesItsOwn, SameButNoticed
  <2>2. WakesItsOwn(q)  BY <2>1 DEF WakesItsOwn
  <2>3. Keeping(q) => q.before.woke = req[r].c.woke  BY <1>2 DEF Begins
  <2>4. Become(r, q) /\ q.token = req[r].token /\ q.kind = req[r].kind
        /\ row' = row /\ wakeRuns' = wakeRuns
    BY <1>2 DEF Begins
  <2> QED  BY <2>1, <2>2, <2>3, <2>4, LeasedMoves, WokenMoves
<1>3. ASSUME NEW r \in Request, NEW q, Announces(r, q) PROVE Leased' /\ Woken'
  <2>1. /\ Running(r) /\ req[r].pc # "end" /\ q.c.woke >= req[r].c.woke
        /\ q.pc \in {"append", "begin"} /\ WakesItsOwn(req[r])
    BY <1>3, <1>p DEF Announces, Running
  <2>2. /\ Become(r, q) /\ q.token = req[r].token /\ q.kind = req[r].kind
        /\ row' = row /\ wakeRuns' = wakeRuns /\ q.wakes = req[r].wakes /\ q.ran = req[r].ran
    BY <1>3 DEF Announces
  <2>3. WakesItsOwn(q) /\ ~Keeping(q)  BY <2>1, <2>2 DEF WakesItsOwn, Keeping
  <2> QED  BY <2>1, <2>2, <2>3, LeasedMoves, WokenMoves
<1>4. ASSUME NEW r \in Request, NEW q, Revises(r, q) PROVE Leased' /\ Woken'
  <2>1. /\ Running(r) /\ req[r].pc # "end" /\ q.c.woke >= req[r].c.woke
        /\ q.pc = "commit" /\ q.kind = "update" /\ WakesItsOwn(req[r])
    BY <1>4, <1>p DEF Revises, Running
  <2>2. /\ Become(r, q) /\ q.token = req[r].token /\ q.kind = req[r].kind
        /\ row' = row /\ wakeRuns' = wakeRuns /\ q.wakes = req[r].wakes
    BY <1>4 DEF Revises
  <2>3. WakesItsOwn(q) /\ ~Keeping(q)  BY <2>1, <2>2 DEF WakesItsOwn, Keeping
  <2> QED  BY <2>1, <2>2, <2>3, LeasedMoves, WokenMoves
<1>5. ASSUME NEW r \in Request, NEW q, Wakes(r, q) PROVE Leased' /\ Woken'
  <2>0. Become(r, q) /\ q \in Work /\ q.c.woke \in Nat
    <3>1. req'[r] = q  BY <1>5, Becomes DEF Wakes, Typed
    <3> QED  BY <1>5, <3>1 DEF Typed, GoodWork, Good, Conversation, Wakes
  <2>1. /\ Running(r) /\ req[r].pc # "end" /\ q.c.woke >= req[r].c.woke
        /\ q.pc = "commit" /\ q.kind = "wake" /\ q.before.woke = req[r].c.woke
    BY <1>5, <1>p, <2>0 DEF Wakes, Running
  <2>2. /\ q.token = req[r].token /\ q.kind = req[r].kind
        /\ row' = row /\ wakeRuns' = wakeRuns /\ q.ran = req[r].ran
    BY <1>5 DEF Wakes
  <2>3. WakesItsOwn(q)  BY <1>5, <2>1 DEF WakesItsOwn, Wakes
  <2> QED  BY <2>0, <2>1, <2>2, <2>3, LeasedMoves, WokenMoves
<1>6. ASSUME NEW r \in Request, NEW q, Lands(r, q) PROVE Leased' /\ Woken'
  <2>1. /\ Running(r) /\ req[r].pc = "commit" /\ q.c.woke = req[r].c.woke
        /\ q.c.woke >= req[r].c.woke
        /\ q.pc \in {"tell", "context", "model"} /\ WakesItsOwn(req[r]) /\ q.before = req[r].before
    BY <1>6, <1>p DEF Lands, Running, SamePast
  <2>2. /\ Become(r, q) /\ q.token = req[r].token /\ q.kind = req[r].kind
        /\ Fence(r) /\ row'.c = req[r].c /\ row'.token = row.token
        /\ wakeRuns' = wakeRuns /\ q.ran = req[r].ran /\ q.wakes = req[r].wakes
    BY <1>6 DEF Lands, Saved, Fence
  <2>3. WakesItsOwn(q)  BY <2>1, <2>2 DEF WakesItsOwn
  <2>4. Keeping(q) => Keeping(req[r]) /\ q.before = req[r].before
    BY <1>6, <2>1, <2>2 DEF Keeping, Lands
  <2> QED  BY <2>1, <2>2, <2>3, <2>4, LeasedMoves, WokenMoves
<1>7. ASSUME NEW r \in Request, NEW q, Worked(r, q) PROVE Leased' /\ Woken'
  <2>1. /\ Running(r) /\ req[r].pc \in {"model", "tool"} /\ q.c.woke = req[r].c.woke
        /\ q.c.woke >= req[r].c.woke
        /\ q.pc \in {"tool", "context", "model"} /\ WakesItsOwn(req[r]) /\ q.before = req[r].before
    BY <1>7, <1>p DEF Worked, Goes, Running, SamePast
  <2>2. /\ Become(r, q) /\ q.token = req[r].token /\ q.kind = req[r].kind
        /\ row' = row /\ q.wakes = req[r].wakes /\ (req[r].ran => q.ran)
        /\ wakeRuns' = wakeRuns \/ (NoteRun(r) /\ q.ran /\ req[r].pc = "tool")
    BY <1>7 DEF Worked, Goes
  <2>3. WakesItsOwn(q)  BY <2>1, <2>2 DEF WakesItsOwn
  <2>4. Keeping(q) => Keeping(req[r]) /\ q.before = req[r].before
    BY <1>7, <2>1, <2>2 DEF Keeping, Worked, Goes
  <2> QED  BY <2>1, <2>2, <2>3, <2>4, LeasedMoves, WokenMoves
<1>8. ASSUME NEW r \in Request, NEW c, Closes(r, c) PROVE Leased' /\ Woken'
  <2>1. PICK q : /\ Become(r, q) /\ q.pc = "end" /\ q.kind = req[r].kind /\ q.c = c
                 /\ q.token = req[r].token /\ q.wakes = {} /\ q.init = None
    BY <1>8, FinishIs DEF Closes
  <2>2. /\ Running(r) /\ req[r].pc # "end" /\ wakeRuns' = wakeRuns
        /\ row'.token = row.token
        /\ row'.c = row.c \/ (Fence(r) /\ row'.c = req[r].c)
    BY <1>8 DEF Closes, Running, Saved, Fence
  <2>3. c.woke \in Nat
    <3>1. req'[r] = q  BY <2>1, Becomes DEF Typed
    <3> QED  BY <2>1, <3>1 DEF Typed, GoodWork, Good, Conversation
  <2>4. \/ c.woke >= req[r].c.woke
        \/ /\ Keeping(req[r]) /\ c.woke = req[r].before.woke
           /\ q.kind # "wake" \/ ~req[r].ran
    BY <1>8, <1>p, <2>1, <2>3 DEF Closes, SamePast
  <2>5. WakesItsOwn(q) /\ ~Keeping(q)  BY <2>1 DEF WakesItsOwn, Keeping
  <2> QED  BY <2>1, <2>2, <2>4, <2>5, LeasedMoves, WokenMoves
<1>9. ASSUME NEW r \in Request, Leaves(r) PROVE Leased' /\ Woken'
  <2>1. Become(r, Fresh) /\ Fresh.pc = "off" /\ row'.token = row.token
    BY <1>9 DEF Leaves, Stop, Fresh, Saved, Fence
  <2> QED  BY <1>9, <2>1, LeasedMoves, WokenLeaves
<1>10. CASE Elsewhere
  <2>1. Leased'  BY <1>10 DEF Leased, Running, Elsewhere
  <2> QED  BY <1>10, <2>1, WokenElsewhere
<1> QED  BY <1>1, <1>2, <1>3, <1>4, <1>5, <1>6, <1>7, <1>8, <1>9, <1>10, Steps

LEMMA WokenAtFirst == ASSUME Init PROVE Leased /\ Woken
<1>1. \A r \in Request : req[r].pc = "off" /\ req[r].wakes = {}
  BY DEF Init, Fresh
<1>2. \A n, t : ~MayRun(n, t)  BY <1>1 DEF MayRun, Init
<1> QED  BY <1>1, <1>2 DEF Leased, Woken, Running, WakesItsOwn

-----------------------------------------------------------------------------
(* A revision and its notice do not come apart                              *)

Told(s) == \E n \in 1 .. Len(notices) : Tells(notices[n], s)

\* The revisions hai.update made are told of, or the copy owes the notice, and
\* it owes none of another's.
ToldOrOwed(c) ==
  /\ c.noticed <= Len(notices)
  /\ \A s \in Outside(c) : Told(s) \/ (c.announcing # None /\ Tells(c.announcing, s))
  /\ c.announcing # None => \E s \in Outside(c) : Tells(c.announcing, s)

\* The model hears of what the copy has noticed; an init's message waits.
Listening(q) == q.pc \in {"model", "tool"} \/ (q.pc = "commit" /\ q.kind # "update")
HeardBy(q) ==
  IF q.pc = "tool" /\ q.init # None THEN q.c.noticed + Len(q.init) ELSE q.c.noticed

\* Nothing is owed by a turn that has begun.
PaidUp(q) == q.pc \in {"begin", "context"} \/ Listening(q)

\* What a request at work has told of, owes and has heard.
TellsRight(q) ==
  /\ ToldOrOwed(q.c)
  /\ Keeping(q) => /\ q.before.announcing = None /\ q.before.noticed <= Len(notices)
                   /\ Outside(q.before) = Outside(q.c)
  /\ PaidUp(q) => q.c.announcing = None
  /\ Listening(q) => /\ HeardBy(q) <= Len(notices)
                     /\ \A s \in Outside(q.c) : \E n \in 1 .. HeardBy(q) : Tells(notices[n], s)
  /\ q.pc \in {"announce", "append", "tell"} =>
       \E s \in Outside(row.c) : Tells(q.c.announcing, s)

\* Each revision is told of or owed, on the row and at work.
Telling ==
  /\ ToldOrOwed(row.c)
  /\ \A n \in 1 .. Len(notices) : notices[n].handle # 0 =>
       \E s \in Outside(row.c) : Tells(notices[n], s)
  /\ \A r \in Request : Running(r) => TellsRight(req[r])
  /\ \A r \in Request : Running(r) /\ Fence(r) => Outside(row.c) \subseteq Outside(req[r].c)

\* A notice is added, telling of a revision on record or of none.
Adds(x) ==
  /\ x \in Note /\ notices' = Append(notices, x)
  /\ x.handle # 0 => \E s \in Outside(row.c) : Tells(x, s)
  /\ row'.c = row.c

LEMMA NoticesStay ==
  ASSUME Typed, notices' = notices \/ (\E x : Adds(x))
  PROVE  /\ Len(notices) \in Nat /\ Len(notices') \in Nat /\ Len(notices) <= Len(notices')
         /\ \A n \in 1 .. Len(notices) : notices'[n] = notices[n] /\ n \in 1 .. Len(notices')
         /\ \A s : Told(s) => Told(s)'
<1>1. Len(notices) \in Nat  BY Bounds
<1>2. /\ Len(notices') \in Nat /\ Len(notices) <= Len(notices')
      /\ \A n \in 1 .. Len(notices) : notices'[n] = notices[n]
  <2>1. CASE notices' = notices  BY <1>1, <2>1
  <2>2. ASSUME NEW x, Adds(x)
        PROVE  /\ Len(notices') = Len(notices) + 1
               /\ \A n \in 1 .. Len(notices) : notices'[n] = notices[n]
    BY <2>2, AppendProperties DEF Adds, Typed
  <2> QED  BY <1>1, <2>1, <2>2
<1>3. \A n \in 1 .. Len(notices) : n \in 1 .. Len(notices')  BY <1>1, <1>2
<1> QED  BY <1>1, <1>2, <1>3 DEF Told

\* What was right of the notices is, once there are more of them and the row
\* has been told of as many revisions.
LEMMA StaysTold ==
  ASSUME Typed, notices' = notices \/ (\E x : Adds(x)), NEW c \in Conversation, ToldOrOwed(c)
  PROVE  ToldOrOwed(c)'
<1>1. c.noticed \in Nat  BY DEF Conversation
<1> QED  BY <1>1, NoticesStay DEF ToldOrOwed

LEMMA StaysHeard ==
  ASSUME Typed, notices' = notices \/ (\E x : Adds(x)), NEW k \in Nat, k <= Len(notices),
         NEW s, \E n \in 1 .. k : Tells(notices[n], s)
  PROVE  /\ k <= Len(notices')
         /\ \E n \in 1 .. k : Tells(notices'[n], s)
<1>1. PICK n \in 1 .. k : Tells(notices[n], s)  OBVIOUS
<1>2. n \in 1 .. Len(notices)  BY NoticesStay
<1>3. Tells(notices'[n], s)  BY <1>1, <1>2, NoticesStay
<1> QED  BY <1>3, NoticesStay

LEMMA HeardByTyped ==
  ASSUME NEW n, NEW seq, NEW q, GoodWork(q, n, seq) PROVE HeardBy(q) \in Nat
<1>1. q.init # None => Len(q.init) \in Nat  BY LenProperties DEF GoodWork, Work
<1>2. q.c.noticed \in Nat  BY DEF GoodWork, Good, Conversation
<1> QED  BY <1>1, <1>2 DEF HeardBy

LEMMA StaysRight ==
  ASSUME Typed, notices' = notices \/ (\E x : Adds(x)), Outside(row.c) \subseteq Outside(row'.c),
         NEW q, GoodWork(q, MaxHandle, handleSeq), TellsRight(q)
  PROVE  TellsRight(q)'
<1>1. ToldOrOwed(q.c)'  BY StaysTold DEF GoodWork, Good, TellsRight
<1>2. Keeping(q) => /\ q.before.announcing = None /\ q.before.noticed <= Len(notices')
                    /\ Outside(q.before) = Outside(q.c)
  <2>1. Keeping(q) => q.before.noticed \in Nat  BY DEF GoodWork, Good, Conversation
  <2> QED  BY <2>1, NoticesStay DEF TellsRight
<1>3. Listening(q) => /\ HeardBy(q) <= Len(notices')
                      /\ \A s \in Outside(q.c) : \E n \in 1 .. HeardBy(q) : Tells(notices'[n], s)
  <2>1. HeardBy(q) \in Nat  BY HeardByTyped
  <2>2. Listening(q) => HeardBy(q) <= Len(notices')  BY <2>1, NoticesStay DEF TellsRight
  <2>3. ASSUME Listening(q), NEW s \in Outside(q.c)
        PROVE  \E n \in 1 .. HeardBy(q) : Tells(notices'[n], s)
    BY <2>1, <2>3, StaysHeard DEF TellsRight
  <2> QED  BY <2>2, <2>3
<1>4. q.pc \in {"announce", "append", "tell"} =>
        \E s \in Outside(row'.c) : Tells(q.c.announcing, s)
  BY DEF TellsRight
<1>5. PaidUp(q) => q.c.announcing = None  BY DEF TellsRight
<1> QED  BY <1>1, <1>2, <1>3, <1>4, <1>5 DEF TellsRight, Keeping, Listening, PaidUp, HeardBy, Outside

LEMMA TellingMoves ==
  ASSUME Typed, Typed', Leased, Telling, NEW r \in Request, NEW q, Become(r, q),
         notices' = notices \/ (\E x : Adds(x)),
         \/ row'.c = row.c
         \/ Running(r) /\ Fence(r) /\ row'.c = req[r].c,
         row'.token = row.token \/ row'.token = row.token + 1,
         \* the request, once it has moved
         q.pc # "off" => TellsRight(q)',
         q.pc # "off" /\ q.token = row'.token => Outside(row'.c) \subseteq Outside(q.c)
  PROVE  Telling'
<1>1. /\ req'[r] = q /\ row.token \in Nat
      /\ \A s \in Request : s # r => req'[s] = req[s]
      /\ row.c \in Conversation
  BY Becomes DEF Typed, Row
<1>2. Outside(row.c) \subseteq Outside(row'.c)
  BY DEF Telling
<1>3. ToldOrOwed(row.c)'
  <2>1. CASE row'.c = row.c
    <3>1. ToldOrOwed(row.c)  BY DEF Telling
    <3> DEFINE c == row.c
    <3>2. ASSUME NEW d \in Conversation, ToldOrOwed(d) PROVE ToldOrOwed(d)'
      BY <3>2, StaysTold
    <3> QED  BY <1>1, <2>1, <3>1, <3>2 DEF ToldOrOwed, Outside, Told
  <2>2. CASE Running(r) /\ Fence(r) /\ row'.c = req[r].c
    <3>1. ToldOrOwed(req[r].c) /\ req[r].c \in Conversation
      BY <2>2 DEF Telling, TellsRight, Typed, GoodWork, Good
    <3>2. ASSUME NEW d \in Conversation, ToldOrOwed(d) PROVE ToldOrOwed(d)'
      BY <3>2, StaysTold
    <3> QED  BY <2>2, <3>1, <3>2 DEF ToldOrOwed, Outside, Told
  <2> QED  BY <2>1, <2>2
<1>4. ASSUME NEW n \in 1 .. Len(notices'), notices'[n].handle # 0
      PROVE  \E s \in Outside(row'.c) : Tells(notices'[n], s)
  <2>1. CASE n \in 1 .. Len(notices)
    BY <1>2, <1>4, <2>1, NoticesStay DEF Telling
  <2>2. CASE n \notin 1 .. Len(notices)
    <3>1. PICK x : Adds(x)  BY <2>2
    <3>2. notices'[n] = x
      <4>1. notices \in Seq(Note) /\ x \in Note /\ notices' = Append(notices, x)
        BY <3>1 DEF Typed, Adds
      <4>2. Len(notices) \in Nat /\ Len(notices') = Len(notices) + 1
            /\ notices'[Len(notices) + 1] = x
        BY <4>1, AppendProperties, Bounds
      <4>3. n = Len(notices) + 1  BY <2>2, <4>2
      <4> QED  BY <4>2, <4>3
    <3> QED  BY <1>2, <1>4, <3>1, <3>2 DEF Adds
  <2> QED  BY <2>1, <2>2
<1>5. ASSUME NEW s \in Request, s # r, Running(s)'
      PROVE  TellsRight(req[s])' /\ (Fence(s)' => Outside(row'.c) \subseteq Outside(req'[s].c))
  <2>1. req'[s] = req[s] /\ Running(s)  BY <1>1, <1>5 DEF Running
  <2>2. GoodWork(req[s], MaxHandle, handleSeq) /\ TellsRight(req[s])
    BY <2>1 DEF Typed, Telling
  <2>3. ASSUME NEW p, GoodWork(p, MaxHandle, handleSeq), TellsRight(p) PROVE TellsRight(p)'
    BY <1>2, <2>3, StaysRight
  <2>4. TellsRight(req[s])'
    <3>1. PICK p : p = req[s]  OBVIOUS
    <3>2. TellsRight(p)'  BY <2>2, <2>3, <3>1
    <3>3. req'[s] = p  BY <2>1, <3>1
    <3> QED
      BY ONLY <3>2, <3>3
      DEF TellsRight, ToldOrOwed, Told, Outside, Keeping, PaidUp, Listening, HeardBy
  <2>5. Fence(s)' => Outside(row'.c) \subseteq Outside(req'[s].c)
    <3>1. req[s].token <= row.token /\ req[s].token \in Nat
      BY <2>1 DEF Leased, Typed, Work
    <3>2. Fence(s)' => Fence(s) /\ row'.token = row.token  BY <1>1, <2>1, <3>1 DEF Fence
    <3>3. Fence(s) => Outside(row.c) \subseteq Outside(req[s].c)  BY <2>1 DEF Telling
    <3>4. Fence(s) /\ Fence(r) /\ Running(r) => s = r  BY <2>1 DEF Leased, Fence
    <3> QED  BY <1>5, <2>1, <3>2, <3>3, <3>4
  <2> QED  BY <2>4, <2>5
<1>6. Running(r)' => TellsRight(req[r])' /\ (Fence(r)' => Outside(row'.c) \subseteq Outside(req'[r].c))
  <2>1. Running(r)' => q.pc # "off"  BY <1>1 DEF Running
  <2>2. TellsRight(q)' => TellsRight(req[r])'
    BY <1>1 DEF TellsRight, ToldOrOwed, Told, Outside, Keeping, PaidUp, Listening, HeardBy
  <2> QED  BY <1>1, <2>1, <2>2 DEF Fence
<1> QED  BY <1>3, <1>4, <1>5, <1>6 DEF Telling, Outside

LEMMA SaysTheSame ==
  ASSUME Typed, notices' = notices \/ (\E x : Adds(x)),
         NEW b \in Conversation, ToldOrOwed(b), NEW c, SameButNoticed(b, c),
         c.noticed = b.noticed \/ c.noticed <= Len(notices')
  PROVE  ToldOrOwed(c)'
<1>1. b.noticed \in Nat  BY DEF Conversation
<1> QED  BY <1>1, NoticesStay DEF ToldOrOwed, SameButNoticed

\* Nothing is owed: each revision has been told of, at the latest by now.
LEMMA NothingOwed ==
  ASSUME NEW c, ToldOrOwed(c), c.announcing = None
  PROVE  \A s \in Outside(c) : Told(s)
BY DEF ToldOrOwed

LEMMA UnreadIsTheRest ==
  ASSUME Typed, NEW c \in Conversation, c.noticed <= Len(notices)
  PROVE  c.noticed + Len(Unread(c)) = Len(notices)
<1> DEFINE k == Len(notices) - c.noticed
<1>1. k \in Nat /\ c.noticed \in Nat /\ Len(notices) \in Nat
  BY Bounds DEF Conversation
<1>2. DOMAIN Unread(c) = 1 .. k  BY DEF Unread
<1>3. Len(Unread(c)) \in Nat /\ DOMAIN Unread(c) = 1 .. Len(Unread(c))
  BY UnreadTyped, LenProperties
<1> HIDE DEF k
<1>4. \A m, n \in Nat : 1 .. m = 1 .. n => m = n
  <2> TAKE m, n \in Nat
  <2> HAVE 1 .. m = 1 .. n
  <2>1. CASE m < n
    <3>1. n \in 1 .. n /\ n \notin 1 .. m  BY <2>1
    <3> QED  BY <3>1
  <2>2. CASE n < m
    <3>1. m \in 1 .. m /\ m \notin 1 .. n  BY <2>2
    <3> QED  BY <3>1
  <2> QED  BY <2>1, <2>2
<1>5. Len(Unread(c)) = k  BY <1>1, <1>2, <1>3, <1>4
<1> QED  BY <1>1, <1>5 DEF k

LEMMA BeginsRight ==
  ASSUME Typed, Typed', Telling, NEW r \in Request, NEW q, Begins(r, q)
  PROVE  TellsRight(q)' /\ Outside(q.c) = Outside(req[r].c)
<1>1. PICK p : p = req[r]  OBVIOUS
<1>2. /\ GoodWork(p, MaxHandle, handleSeq) /\ p.c \in Conversation /\ TellsRight(p)
      /\ p \in Work
  BY <1>1 DEF Typed, GoodWork, Good, Telling, Running, Begins
<1>3. GoodWork(q, MaxHandle, handleSeq)' /\ HeardBy(q) \in Nat /\ q.c.noticed \in Nat
  <2>1. req'[r] = q  BY Becomes DEF Begins, Typed
  <2>2. GoodWork(q, MaxHandle, handleSeq)'  BY <2>1 DEF Typed
  <2> QED  BY <2>2, HeardByTyped DEF GoodWork, Good, Conversation
<1>4. /\ p.pc \in {"begin", "tool"} /\ SameButNoticed(p.c, q.c) /\ notices' = notices
      /\ q.kind # "update" /\ q.kind # "wake" /\ row' = row
      /\ Keeping(q) => q.before = p.c
      /\ q.pc \notin {"announce", "append", "tell"}
  BY <1>1 DEF Begins
<1>5. p.c.announcing = None /\ q.c.announcing = None /\ ToldOrOwed(p.c)
      /\ p.c.noticed <= Len(notices) /\ Outside(q.c) = Outside(p.c)
      /\ p.c.noticed \in Nat /\ Len(notices) \in Nat
  BY <1>2, <1>4, Bounds DEF TellsRight, PaidUp, Listening, SameButNoticed, ToldOrOwed, Conversation
<1>6. \A s \in Outside(q.c) : \E n \in 1 .. Len(notices) : Tells(notices[n], s)
  BY <1>5, NothingOwed DEF Told
<1>7. q.c.noticed <= Len(notices)
      /\ (Listening(q) => /\ HeardBy(q) <= Len(notices)
                          /\ \A s \in Outside(q.c) : \E n \in 1 .. HeardBy(q) : Tells(notices[n], s))
  <2>1. CASE p.pc = "begin" /\ q.pc \in {"model", "commit"} /\ q.c.noticed = Len(notices)
    BY <1>3, <1>5, <1>6, <2>1 DEF HeardBy
  <2>2. CASE p.pc = "begin" /\ q.pc = "tool" /\ q.c.noticed = p.c.noticed /\ q.init = Unread(p.c)
    <3>1. q.init # None
      BY <1>2, <2>2, UnreadTyped, TurnsAssumption
    <3>2. HeardBy(q) = Len(notices)
      BY <1>2, <1>5, <2>2, <3>1, UnreadIsTheRest DEF HeardBy
    <3> QED  BY <1>5, <1>6, <2>2, <3>2
  <2>3. CASE /\ p.pc = "tool" /\ p.init # None /\ q.pc \in {"context", "commit"}
             /\ q.c.noticed = p.c.noticed + Len(p.init)
    <3>1. Listening(p) /\ HeardBy(p) = q.c.noticed /\ HeardBy(q) = q.c.noticed
      BY <2>3 DEF Listening, HeardBy
    <3> QED  BY <1>2, <1>5, <3>1 DEF TellsRight
  <2> QED  BY <1>1, <2>1, <2>2, <2>3 DEF Begins
<1>8. ToldOrOwed(q.c)'  BY <1>2, <1>4, <1>5, <1>7, SaysTheSame
<1>9. Keeping(q) => /\ q.before.announcing = None /\ q.before.noticed <= Len(notices')
                    /\ Outside(q.before) = Outside(q.c)
  BY <1>4, <1>5
<1> QED
  BY <1>1, <1>4, <1>5, <1>7, <1>8, <1>9
  DEF TellsRight, Keeping, Listening, PaidUp, HeardBy, Outside

\* What is appended tells of a revision on record.
LEMMA OwedIsOnRecord ==
  ASSUME Typed, Telling, NEW r \in Request, req[r].pc \in {"append", "tell"},
         notices' = Append(notices, req[r].c.announcing), row' = row
  PROVE  Adds(req[r].c.announcing) /\ \A s : Tells(req[r].c.announcing, s) => Told(s)'
<1> DEFINE x == req[r].c.announcing
<1>1. x \in Note
  BY DEF Typed, GoodWork, Good, Owing, Conversation
<1>2. \E s \in Outside(row.c) : Tells(x, s)  BY DEF Telling, TellsRight, Running
<1> HIDE DEF x
<1>3. Adds(x)  BY <1>1, <1>2 DEF Adds, x
<1>4. Len(notices') \in Nat /\ Len(notices') = Len(notices) + 1 /\ notices'[Len(notices')] = x
      /\ Len(notices) \in Nat
  BY <1>1, AppendProperties, Bounds DEF Typed, x
<1>5. \A s : Tells(x, s) => Told(s)'  BY <1>4 DEF Told
<1> QED  BY <1>3, <1>5 DEF x

LEMMA AnnouncesRight ==
  ASSUME Typed, Typed', Telling, NEW r \in Request, NEW q, Announces(r, q)
  PROVE  /\ TellsRight(q)' /\ Outside(q.c) = Outside(req[r].c)
         /\ notices' = notices \/ \E x : Adds(x)
<1>1. PICK p : p = req[r]  OBVIOUS
<1>2. /\ GoodWork(p, MaxHandle, handleSeq) /\ p.c \in Conversation /\ TellsRight(p)
      /\ p \in Work
  BY <1>1 DEF Typed, GoodWork, Good, Telling, Running, Announces
<1>3. /\ p.pc \in {"announce", "append"} /\ q.pc \in {"append", "begin"} /\ row' = row
      /\ q.c.noticed = p.c.noticed /\ Outside(q.c) = Outside(p.c)
  BY <1>1 DEF Announces
<1>4. ToldOrOwed(p.c) /\ p.c.announcing # None
      /\ \E s \in Outside(row.c) : Tells(p.c.announcing, s)
  BY <1>2, <1>3 DEF TellsRight, GoodWork, Owing
<1>5. notices' = notices \/ \E x : Adds(x)
  BY <1>1, OwedIsOnRecord DEF Announces
<1>6. CASE q.pc = "append" /\ q.c = p.c /\ notices' = notices
  <2>1. ToldOrOwed(q.c)'  BY <1>2, <1>4, <1>6, StaysTold
  <2> QED
    BY <1>1, <1>3, <1>4, <1>6, <2>1
    DEF TellsRight, Keeping, Listening, PaidUp, HeardBy, Outside
<1>7. CASE q.pc = "begin" /\ q.c.announcing = None
  <2>1. \A s : Tells(p.c.announcing, s) => Told(s)'
    <3>1. CASE \E n \in 1 .. Len(notices) : /\ notices[n].handle = p.c.announcing.handle
                                            /\ notices[n].replaces = p.c.announcing.replaces
      <4>1. \A s : Tells(p.c.announcing, s) => Told(s)  BY <3>1 DEF Told, Tells
      <4> QED  BY <1>5, <4>1, NoticesStay
    <3>2. CASE p.pc = "append" /\ notices' = Append(notices, p.c.announcing)
      BY <1>1, <1>3, <3>2, OwedIsOnRecord
    <3> QED  BY <1>1, <1>7, <3>1, <3>2 DEF Announces
  <2>2. \A s \in Outside(q.c) : Told(s)'
    BY <1>3, <1>4, <1>5, <2>1, NoticesStay DEF ToldOrOwed
  <2>3. q.c.noticed <= Len(notices')
    <3>1. p.c.noticed \in Nat  BY <1>2 DEF Conversation
    <3> QED  BY <1>3, <1>4, <1>5, <3>1, NoticesStay DEF ToldOrOwed
  <2>4. ToldOrOwed(q.c)'  BY <1>7, <2>2, <2>3 DEF ToldOrOwed, Outside
  <2> QED
    BY <1>1, <1>3, <1>5, <1>7, <2>4
    DEF TellsRight, Keeping, Listening, PaidUp, HeardBy, Outside
<1> QED  BY <1>1, <1>6, <1>7 DEF Announces

LEMMA RevisesRight ==
  ASSUME Typed, Typed', Telling, NEW r \in Request, NEW q, Revises(r, q)
  PROVE  TellsRight(q)' /\ Outside(req[r].c) \subseteq Outside(q.c)
<1>1. PICK p : p = req[r]  OBVIOUS
<1>2. /\ GoodWork(p, MaxHandle, handleSeq) /\ p.c \in Conversation /\ TellsRight(p)
  BY <1>1 DEF Typed, GoodWork, Good, Telling, Running, Revises
<1>3. /\ p.pc = "begin" /\ q.pc = "commit" /\ q.kind = "update"
      /\ q.c.noticed = p.c.noticed /\ q.c.announcing # None /\ notices' = notices
  BY <1>1 DEF Revises
<1>4. PICK s : Outside(q.c) = Outside(p.c) \union {s} /\ Tells(q.c.announcing, s)
  BY <1>1 DEF Revises
<1>5. ToldOrOwed(p.c) /\ p.c.announcing = None
  BY <1>2, <1>3 DEF TellsRight, PaidUp
<1>6. ToldOrOwed(q.c)'
  <2>1. \A t \in Outside(p.c) : Told(t)  BY <1>5, NothingOwed
  <2> QED  BY <1>3, <1>4, <1>5, <2>1 DEF ToldOrOwed, Told, Outside
<1> QED
  BY <1>1, <1>3, <1>4, <1>6 DEF TellsRight, Keeping, Listening, PaidUp

LEMMA WakesRight ==
  ASSUME Typed, Typed', Telling, NEW r \in Request, NEW q, Wakes(r, q)
  PROVE  TellsRight(q)' /\ Outside(q.c) = Outside(req[r].c)
<1>1. PICK p : p = req[r]  OBVIOUS
<1>2. /\ GoodWork(p, MaxHandle, handleSeq) /\ p.c \in Conversation /\ TellsRight(p)
  BY <1>1 DEF Typed, GoodWork, Good, Telling, Running, Wakes
<1>3. /\ p.pc = "begin" /\ q.pc = "commit" /\ q.kind = "wake" /\ q.before = p.c
      /\ q.c.noticed = Len(notices) /\ notices' = notices
      /\ q.c.announcing = p.c.announcing /\ Outside(q.c) = Outside(p.c)
  BY <1>1 DEF Wakes
<1>4. ToldOrOwed(p.c) /\ p.c.announcing = None
  BY <1>2, <1>3 DEF TellsRight, PaidUp
<1>5. \A s \in Outside(q.c) : Told(s)  BY <1>3, <1>4, NothingOwed
<1>6. Len(notices) \in Nat /\ HeardBy(q) = Len(notices)  BY <1>3, Bounds DEF HeardBy
<1>7. ToldOrOwed(q.c)'  BY <1>3, <1>4, <1>5, <1>6 DEF ToldOrOwed, Told, Outside
<1>8. p.c.noticed <= Len(notices)  BY <1>4 DEF ToldOrOwed
<1> QED
  BY <1>1, <1>3, <1>4, <1>5, <1>6, <1>7, <1>8
  DEF TellsRight, Keeping, Listening, PaidUp, Told, Outside, HeardBy

\* A turn under way: what it has heard and owes is as it was.
LEMMA GoesOnRight ==
  ASSUME Typed, Typed', Telling, NEW r \in Request, NEW q, Become(r, q), NEW p, p = req[r],
         Running(r), UNCHANGED notices,
         SamePast(p.c, q.c), q.kind = p.kind, Keeping(q) => Keeping(p) /\ q.before = p.before,
         PaidUp(q) => PaidUp(p), Listening(q) => Listening(p) /\ HeardBy(q) = HeardBy(p),
         q.pc \in {"announce", "append", "tell"} =>
           \E s \in Outside(row'.c) : Tells(p.c.announcing, s)
  PROVE  TellsRight(q)'
<1>1. GoodWork(p, MaxHandle, handleSeq) /\ p.c \in Conversation /\ TellsRight(p)
  BY DEF Typed, GoodWork, Good, Telling
<1>2. ToldOrOwed(q.c)'  BY <1>1, SaysTheSame, SameGoesOn DEF TellsRight
<1>3. /\ q.c.noticed = p.c.noticed /\ q.c.announcing = p.c.announcing
      /\ Outside(q.c) = Outside(p.c)
  BY DEF SamePast
<1> QED
  BY <1>1, <1>2, <1>3 DEF TellsRight, Keeping, Listening, PaidUp, HeardBy, Outside

LEMMA WorkedRight ==
  ASSUME Typed, Typed', Telling, NEW r \in Request, NEW q, Worked(r, q)
  PROVE  TellsRight(q)' /\ Outside(q.c) = Outside(req[r].c)
<1>1. PICK p : p = req[r]  OBVIOUS
<1>2. /\ Goes(p, q) /\ Become(r, q) /\ UNCHANGED notices /\ GoodWork(p, MaxHandle, handleSeq)
      /\ Running(r)
  BY <1>1 DEF Worked, Typed, Running, Goes
<1>3. /\ Keeping(q) => Keeping(p) /\ q.before = p.before
      /\ PaidUp(q) => PaidUp(p)
      /\ Listening(q) => Listening(p)
      /\ q.pc \notin {"announce", "append", "tell"}
  BY <1>2 DEF Goes, Keeping, PaidUp, Listening
<1>4. HeardBy(q) = HeardBy(p)
  <2>1. q.c.noticed = p.c.noticed /\ q.init = p.init /\ (p.init # None => p.pc = "tool" /\ q.pc = "tool")
    BY <1>2 DEF Goes, SamePast
  <2> QED  BY <2>1 DEF HeardBy
<1>5. SamePast(p.c, q.c) /\ q.kind = p.kind  BY <1>2 DEF Goes
<1>6. TellsRight(q)'  BY <1>1, <1>2, <1>3, <1>4, <1>5, GoesOnRight
<1> QED  BY <1>1, <1>5, <1>6 DEF SamePast

LEMMA LandsRight ==
  ASSUME Typed, Typed', Telling, NEW r \in Request, NEW q, Lands(r, q)
  PROVE  TellsRight(q)' /\ Outside(q.c) = Outside(req[r].c)
<1>1. PICK p : p = req[r]  OBVIOUS
<1>2. /\ Become(r, q) /\ UNCHANGED notices /\ GoodWork(p, MaxHandle, handleSeq)
      /\ Running(r) /\ p.pc = "commit" /\ SamePast(p.c, q.c) /\ q.kind = p.kind
      /\ row'.c = p.c /\ TellsRight(p)
      /\ q.before = p.before
      /\ \/ p.kind = "update" /\ q.pc = "tell"
         \/ p.kind = "start" /\ q.pc = "context"
         \/ p.kind \notin {"update", "start"} /\ q.pc = "model"
  BY <1>1 DEF Lands, Typed, Running, Saved, Telling
<1>3. /\ Keeping(q) => Keeping(p) /\ q.before = p.before
      /\ PaidUp(q) => PaidUp(p)
      /\ Listening(q) => Listening(p)
  BY <1>2 DEF Keeping, PaidUp, Listening
<1>4. HeardBy(q) = HeardBy(p)  BY <1>2 DEF HeardBy, SamePast
<1>5. q.pc = "tell" => \E s \in Outside(row'.c) : Tells(p.c.announcing, s)
  <2>1. q.pc = "tell" => p.c.announcing # None  BY <1>2 DEF GoodWork, Owing
  <2> QED  BY <1>2, <2>1 DEF TellsRight, ToldOrOwed
<1>6. q.pc \in {"announce", "append", "tell"} => q.pc = "tell"  BY <1>2
<1>7. TellsRight(q)'  BY <1>1, <1>2, <1>3, <1>4, <1>5, <1>6, GoesOnRight
<1> QED  BY <1>1, <1>2, <1>7 DEF SamePast

LEMMA ClosesRight ==
  ASSUME Typed, Typed', Telling, NEW r \in Request, NEW c, Closes(r, c), NEW q, Become(r, q),
         q.pc = "end", q.c = c
  PROVE  /\ TellsRight(q)' /\ Outside(q.c) = Outside(req[r].c)
         /\ notices' = notices \/ \E x : Adds(x)
<1>1. PICK p : p = req[r]  OBVIOUS
<1>2. /\ GoodWork(p, MaxHandle, handleSeq) /\ p.c \in Conversation /\ TellsRight(p)
      /\ Running(r) /\ ToldOrOwed(p.c)
  BY <1>1 DEF Typed, GoodWork, Good, Telling, Running, Closes, TellsRight
<1>3. ~Keeping(q) /\ ~PaidUp(q) /\ ~Listening(q)  BY DEF Keeping, PaidUp, Listening
<1>4. ASSUME ToldOrOwed(c)' PROVE TellsRight(q)'
  <2>1. ToldOrOwed(q.c)'  BY <1>4 DEF ToldOrOwed, Told, Outside
  <2> QED  BY <1>3, <2>1 DEF TellsRight, Keeping, PaidUp, Listening
<1>5. CASE SamePast(p.c, c) /\ notices' = notices
  <2>1. ToldOrOwed(c)'  BY <1>2, <1>5, SaysTheSame, SameGoesOn
  <2> QED  BY <1>1, <1>4, <1>5, <2>1 DEF SamePast
<1>6. CASE SamePast(p.before, c) /\ Keeping(p) /\ notices' = notices
  <2>1. /\ p.before.announcing = None /\ p.before.noticed <= Len(notices)
        /\ Outside(p.before) = Outside(p.c)
    BY <1>2, <1>6 DEF TellsRight
  <2>2. p.c.announcing = None  BY <1>2, <1>6 DEF TellsRight, PaidUp, Listening, Keeping
  <2>3. \A s \in Outside(p.before) : Told(s)  BY <1>2, <2>1, <2>2, NothingOwed
  <2>4. c.announcing = None /\ c.noticed = p.before.noticed /\ Outside(c) = Outside(p.before)
    BY <1>6, <2>1 DEF SamePast
  <2>5. ToldOrOwed(c)'  BY <1>6, <2>1, <2>3, <2>4 DEF ToldOrOwed, Told, Outside
  <2> QED  BY <1>1, <1>4, <1>6, <2>1, <2>4, <2>5
<1>7. CASE /\ c.noticed = p.c.noticed /\ c.announcing = p.c.announcing
           /\ Outside(c) = Outside(p.c) /\ notices' = notices
  <2>1. ToldOrOwed(c)'  BY <1>2, <1>7 DEF ToldOrOwed, Told, Outside
  <2> QED  BY <1>1, <1>4, <1>7, <2>1
<1>8. CASE /\ p.pc = "tell" /\ notices' = Append(notices, p.c.announcing)
           /\ c.announcing = None
           /\ c.noticed = p.c.noticed /\ Outside(c) = Outside(p.c)
  <2>1. row' = row  BY <1>1, <1>8 DEF Closes
  <2>2. Adds(p.c.announcing) /\ \A s : Tells(p.c.announcing, s) => Told(s)'
    BY <1>1, <1>8, <2>1, OwedIsOnRecord
  <2>3. \A s \in Outside(c) : Told(s)'  BY <1>2, <1>8, <2>2, NoticesStay DEF ToldOrOwed
  <2>4. c.noticed <= Len(notices')
    <3>1. p.c.noticed \in Nat  BY <1>2 DEF Conversation
    <3> QED  BY <1>2, <1>8, <2>2, <3>1, NoticesStay DEF ToldOrOwed
  <2>5. ToldOrOwed(c)'  BY <1>8, <2>3, <2>4 DEF ToldOrOwed, Outside
  <2> QED  BY <1>1, <1>4, <1>8, <2>2, <2>5
<1> QED  BY <1>1, <1>5, <1>6, <1>7, <1>8 DEF Closes

LEMMA LoadsRight ==
  ASSUME Typed, Typed', Telling, NEW q, notices' = notices, row'.c = row.c, q.c = row.c,
         q.pc \in {"end", "announce", "begin"}, q.init = None,
         q.pc = "announce" => row.c.announcing # None,
         q.pc = "begin" => row.c.announcing = None
  PROVE  TellsRight(q)'
<1>1. PICK c : c = row.c  OBVIOUS
<1>2. ToldOrOwed(c) /\ q.c = c  BY <1>1 DEF Telling
<1>3. ToldOrOwed(q.c)'  BY <1>2 DEF ToldOrOwed, Told, Outside
<1>4. ~Keeping(q) /\ ~Listening(q)  BY DEF Keeping, Listening
<1>5. q.pc \in {"announce", "append", "tell"} =>
        \E s \in Outside(row'.c) : Tells(q.c.announcing, s)
  BY <1>1, <1>2 DEF ToldOrOwed
<1>6. PaidUp(q) => q.c.announcing = None  BY <1>1, <1>2, <1>4 DEF PaidUp
<1> QED  BY <1>3, <1>4, <1>5, <1>6 DEF TellsRight, Keeping, Listening, PaidUp, Outside

LEMMA TellingElsewhere ==
  ASSUME Typed, Typed', Leased, Telling, Elsewhere PROVE Telling'
<1>1. notices' = notices \/ \E x : Adds(x)
  <2>1. ASSUME NEW wake \in BOOLEAN, notices' = Append(notices, AppNotice(wake))
        PROVE  Adds(AppNotice(wake))
    BY <2>1 DEF Adds, AppNotice, Note, Elsewhere
  <2> QED  BY <2>1 DEF Elsewhere
<1>2. req' = req /\ row'.c = row.c /\ row'.token = row.token  BY DEF Elsewhere
<1>3. CASE \E r \in Request : TRUE
  <2>1. PICK r \in Request : TRUE  BY <1>3
  <2>2. PICK q : q = req[r]  OBVIOUS
  <2>3. Become(r, q)  BY <1>2, <2>2 DEF Become, Typed
  <2>4. q.pc # "off" => TellsRight(q)'
    BY <1>1, <1>2, <2>2, StaysRight DEF Typed, Telling, Running
  <2>5. q.pc # "off" /\ q.token = row'.token => Outside(row'.c) \subseteq Outside(q.c)
    BY <1>2, <2>2 DEF Telling, Running, Fence
  <2> QED  BY <1>1, <1>2, <2>3, <2>4, <2>5, TellingMoves
<1>4. CASE ~\E r \in Request : TRUE
  <2>1. PICK c : c = row.c  OBVIOUS
  <2>2. ToldOrOwed(c) /\ c \in Conversation  BY <2>1 DEF Telling, Typed, Row
  <2>3. ToldOrOwed(c)'  BY <1>1, <2>2, StaysTold
  <2>4. ToldOrOwed(row.c)'  BY <1>2, <2>1, <2>3 DEF ToldOrOwed, Told, Outside
  <2>5. ASSUME NEW n \in 1 .. Len(notices'), notices'[n].handle # 0
        PROVE  \E s \in Outside(row'.c) : Tells(notices'[n], s)
    <3>1. CASE n \in 1 .. Len(notices)  BY <1>1, <1>2, <2>5, <3>1, NoticesStay DEF Telling
    <3>2. CASE n \notin 1 .. Len(notices)
      <4>1. PICK x : Adds(x)  BY <1>1, <3>2
      <4>2. Len(notices) \in Nat /\ Len(notices') = Len(notices) + 1
            /\ notices'[Len(notices) + 1] = x
        BY <4>1, AppendProperties, Bounds DEF Adds, Typed
      <4>3. n = Len(notices) + 1  BY <3>2, <4>2
      <4> QED  BY <1>2, <2>5, <4>1, <4>2, <4>3 DEF Adds
    <3> QED  BY <3>1, <3>2
  <2> QED  BY <1>4, <2>4, <2>5 DEF Telling, Outside
<1> QED  BY <1>3, <1>4

LEMMA TellingStep ==
  ASSUME Typed, Typed', Leased, Telling, [Next]_vars PROVE Telling'
<1>1. ASSUME NEW r \in Request, NEW kind \in AllKinds, Load(r, kind) PROVE Telling'
  <2>1. PICK q : /\ Become(r, q) /\ q.pc \in {"end", "announce", "begin"}
                 /\ q.token = row.token + 1 /\ q.c = row.c /\ q.init = None
                 /\ q.pc = "announce" => row.c.announcing # None
                 /\ q.pc = "begin" => row.c.announcing = None
    BY <1>1, LoadIs
  <2>2. row'.c = row.c /\ row'.token = row.token + 1 /\ notices' = notices
    BY <1>1, LoadIs
  <2>3. TellsRight(q)'  BY <2>1, <2>2, LoadsRight
  <2> QED  BY <2>1, <2>2, <2>3, TellingMoves
\* The holder's copy has all the row does.
<1>h. ASSUME NEW r \in Request, Running(r), req[r].token = row.token
      PROVE  Outside(row.c) \subseteq Outside(req[r].c)
  BY <1>h DEF Telling, Fence
<1>2. ASSUME NEW r \in Request, NEW q, Begins(r, q) PROVE Telling'
  <2>1. TellsRight(q)' /\ Outside(q.c) = Outside(req[r].c)  BY <1>2, BeginsRight
  <2>2. /\ Become(r, q) /\ q.token = req[r].token /\ row' = row /\ notices' = notices
        /\ Running(r)
    BY <1>2 DEF Begins, Running
  <2> QED  BY <1>h, <2>1, <2>2, TellingMoves
<1>3. ASSUME NEW r \in Request, NEW q, Announces(r, q) PROVE Telling'
  <2>1. /\ TellsRight(q)' /\ Outside(q.c) = Outside(req[r].c)
        /\ notices' = notices \/ \E x : Adds(x)
    BY <1>3, AnnouncesRight
  <2>2. Become(r, q) /\ q.token = req[r].token /\ row' = row /\ Running(r)
    BY <1>3 DEF Announces, Running
  <2> QED  BY <1>h, <2>1, <2>2, TellingMoves
<1>4. ASSUME NEW r \in Request, NEW q, Revises(r, q) PROVE Telling'
  <2>1. TellsRight(q)' /\ Outside(req[r].c) \subseteq Outside(q.c)  BY <1>4, RevisesRight
  <2>2. /\ Become(r, q) /\ q.token = req[r].token /\ row' = row /\ notices' = notices
        /\ Running(r)
    BY <1>4 DEF Revises, Running
  <2> QED  BY <1>h, <2>1, <2>2, TellingMoves
<1>5. ASSUME NEW r \in Request, NEW q, Wakes(r, q) PROVE Telling'
  <2>1. TellsRight(q)' /\ Outside(q.c) = Outside(req[r].c)  BY <1>5, WakesRight
  <2>2. /\ Become(r, q) /\ q.token = req[r].token /\ row' = row /\ notices' = notices
        /\ Running(r)
    BY <1>5 DEF Wakes, Running
  <2> QED  BY <1>h, <2>1, <2>2, TellingMoves
<1>6. ASSUME NEW r \in Request, NEW q, Lands(r, q) PROVE Telling'
  <2>1. TellsRight(q)' /\ Outside(q.c) = Outside(req[r].c)  BY <1>6, LandsRight
  <2>2. /\ Become(r, q) /\ row'.c = req[r].c /\ row'.token = row.token /\ Fence(r)
        /\ Running(r) /\ notices' = notices
    BY <1>6 DEF Lands, Running, Saved, Fence
  <2> QED  BY <2>1, <2>2, TellingMoves
<1>7. ASSUME NEW r \in Request, NEW q, Worked(r, q) PROVE Telling'
  <2>1. TellsRight(q)' /\ Outside(q.c) = Outside(req[r].c)  BY <1>7, WorkedRight
  <2>2. /\ Become(r, q) /\ q.token = req[r].token /\ row' = row /\ notices' = notices
        /\ Running(r)
    BY <1>7 DEF Worked, Goes, Running
  <2> QED  BY <1>h, <2>1, <2>2, TellingMoves
<1>8. ASSUME NEW r \in Request, NEW c, Closes(r, c) PROVE Telling'
  <2>1. PICK q : /\ Become(r, q) /\ q.pc = "end" /\ q.c = c /\ q.token = req[r].token
    BY <1>8, FinishIs DEF Closes
  <2>2. /\ TellsRight(q)' /\ Outside(q.c) = Outside(req[r].c)
        /\ notices' = notices \/ \E x : Adds(x)
    BY <1>8, <2>1, ClosesRight
  <2>3. Running(r) /\ (row' = row \/ (Fence(r) /\ row'.c = req[r].c /\ row'.token = row.token))
    BY <1>8 DEF Closes, Running, Saved, Fence
  <2> QED  BY <1>h, <2>1, <2>2, <2>3, TellingMoves
<1>9. ASSUME NEW r \in Request, Leaves(r) PROVE Telling'
  <2>1. Become(r, Fresh) /\ Fresh.pc = "off" /\ notices' = notices /\ Running(r)
        /\ (row' = row \/ (Fence(r) /\ row'.c = req[r].c /\ row'.token = row.token))
    BY <1>9 DEF Leaves, Stop, Fresh, Saved, Fence
  <2> QED  BY <2>1, TellingMoves
<1> QED
  BY <1>1, <1>2, <1>3, <1>4, <1>5, <1>6, <1>7, <1>8, <1>9, TellingElsewhere, Steps

LEMMA TellingAtFirst == ASSUME Init PROVE Telling
<1>1. /\ row.c.superseded = {} /\ row.c.announcing = None /\ row.c.noticed = 0
      /\ notices = <<>>
      /\ \A r \in Request : req[r].pc = "off"
  BY DEF Init, NewConversation, Fresh
<1>2. Len(notices) = 0  BY <1>1
<1> QED  BY <1>1, <1>2 DEF Telling, ToldOrOwed, Outside, Running

\* All of it holds together, for every value of the constants.
Sound == Typed /\ Leased /\ Woken /\ Telling

LEMMA SoundAlways == Spec => []Sound
<1>1. Init => Sound  BY TypedAtFirst, WokenAtFirst, TellingAtFirst DEF Sound
<1>2. Sound /\ [Next]_vars => Sound'
  <2>1. Typed /\ [Next]_vars => Typed'  BY TypedStep
  <2> QED  BY <2>1, WokenStep, TellingStep DEF Sound
<1> QED  BY <1>1, <1>2, PTL DEF Spec

-----------------------------------------------------------------------------
(* What a run checks of them                                                *)

\* The tools a wake notice set running are never set running by it again, whatever
\* order wake turns start, fail, are put back, overtaken, killed and retried in, in
\* any number of processes (wakeTurn in runtime.ts: wokeThrough goes back only
\* with a turn no tool ran in, and only while its holder can still save).
THEOREM EachNoticeRunsOnce == Spec => []WakeOnce
<1>1. Sound => WakeOnce  BY DEF Sound, Woken, MayRun, WakeOnce
<1> QED  BY <1>1, SoundAlways, PTL

\* A revision hai.update has saved is told of or its notice is still owed, and no
\* notice tells of one the conversation lost: by however many holders, whichever of
\* them was overtaken between the append and its save (reviseHeld, announce).
THEOREM RevisionsAreTold == Spec => []RevisionTold
<1>1. Sound => RevisionTold
  BY DEF Sound, Telling, ToldOrOwed, Told, Outside, RevisionTold
<1> QED  BY <1>1, SoundAlways, PTL

\* A model never runs on a conversation with a revision it has not heard of: what
\* was owed is announced before anything is read, and read before the model runs.
THEOREM TheModelHears == Spec => []ModelHears
<1>1. Sound => ModelHears
  <2> SUFFICES ASSUME Sound, NEW r \in Request, req[r].pc = "model",
                      NEW s \in req[r].c.superseded, s.outside
               PROVE  \E n \in 1 .. req[r].c.noticed : Tells(notices[n], s)
    BY DEF ModelHears
  <2>1. Running(r) /\ Listening(req[r]) /\ HeardBy(req[r]) = req[r].c.noticed
    BY DEF Running, Listening, HeardBy
  <2>2. s \in Outside(req[r].c)  BY DEF Outside
  <2> QED  BY <2>1, <2>2 DEF Sound, Telling, TellsRight
<1> QED  BY <1>1, SoundAlways, PTL

-----------------------------------------------------------------------------
(***************************************************************************)
(* What Turns says of the history a model is sent and of the question a    *)
(* conversation waits on: whatever is parked, answered, revised, undone or *)
(* put back, by however many requests, with leases that lapse, saves that  *)
(* fail and processes killed at any step.                                  *)
(*                                                                         *)
(* As before the invariant, Orderly, is of every copy: the row's,          *)
(* the one a request works on, and the one it may put back (`before`).     *)
(*   AtRest    of a copy no tool is being run on. Either nothing is pending*)
(*             and each reply with calls is followed at once by its results*)
(*             (Even), or it is awaiting: its question is on a live surface*)
(*             and holds the results of all the last reply's other calls   *)
(*             (Answerable). Either way the surfaces frozen are those the  *)
(*             history settles, once each, and those the question's results*)
(*             will (Accounts).                                            *)
(*   Right     of a request, by where it is. While tools run, the results  *)
(*             in hand are those of the calls already made, less the one   *)
(*             that may have parked, on a surface that is by now the one   *)
(*             the reply asks (Counted); an init tool runs ahead of any    *)
(*             history (InInit).                                           *)
(*   Quoted    the history quotes notices 1 .. noticedThrough.             *)
(*   Kept      of the request that can still save: its copy, and what it   *)
(*             may put back, have the question that is on record, or its   *)
(*             answer. A question moves along a chain of revisions, so what*)
(*             is kept is where the chain leads (LeadsTo).                 *)
(*                                                                         *)
(* NoticesOnce joins what the messages quote in a row, which FlattenSeq    *)
(* does with a recursive function over the messages. That there is one for *)
(* every length, and that two agree as far as their sequences do, follows  *)
(* from the least length or index at which it would not be so (JoinsExist, *)
(* JoinsAgree); a message more is then one step of it (QuotesOn).          *)
(*                                                                         *)
(* Everything here has one hypothesis, WakesRead: without it a wake turn   *)
(* that parks and cannot read its payloads is saved idle with its question,*)
(* as the run turns_wake_read_fails shows, and Orderly does not hold.      *)
(***************************************************************************)

\* The history a copy holds.

\* The calls a set of results answers.
Given(results) == {p[1] : p \in results}

\* Each of the first n messages that calls is answered by the next.
Followed(msgs, n) == \A i \in 1 .. n : CallsAnswered(msgs, i)

\* The last message makes these calls, and is the only one unanswered.
Replied(msgs, calls) ==
  /\ Len(msgs) > 0
  /\ msgs[Len(msgs)].role = "assistant" /\ msgs[Len(msgs)].calls = calls
  /\ Followed(msgs, Len(msgs) - 1)

SettledBy(m) == IF m.role = "user" THEN SettledIn(m.results) ELSE {}

\* The surfaces frozen are those the history settles, each in one message, and
\* those the results in hand will.
Accounts(msgs, frozen, held) ==
  /\ frozen = (UNION {SettledBy(msgs[i]) : i \in 1 .. Len(msgs)}) \union held
  /\ \A i, j \in 1 .. Len(msgs) : i # j => SettledBy(msgs[i]) \cap SettledBy(msgs[j]) = {}
  /\ \A i \in 1 .. Len(msgs) : SettledBy(msgs[i]) \cap held = {}

LEMMA OneMore ==
  ASSUME NEW msgs \in Seq(Message), NEW m \in Message, NEW more, more = Append(msgs, m)
  PROVE  /\ more \in Seq(Message) /\ Len(msgs) \in Nat /\ Len(more) = Len(msgs) + 1
         /\ more[Len(msgs) + 1] = m
         /\ \A i \in 1 .. Len(msgs) : more[i] = msgs[i]
BY AppendProperties, LenProperties

\* A message more leaves the answers there are, and a reply with calls waits.
LEMMA FollowedOn ==
  ASSUME NEW msgs \in Seq(Message), NEW m \in Message, NEW more, more = Append(msgs, m),
         Followed(msgs, Len(msgs))
  PROVE  /\ m.role = "assistant" => Replied(more, m.calls)
         /\ m.role # "assistant" \/ m.calls = {} => Followed(more, Len(more))
<1>1. /\ Len(msgs) \in Nat /\ Len(more) = Len(msgs) + 1 /\ more[Len(msgs) + 1] = m
      /\ \A i \in 1 .. Len(msgs) : more[i] = msgs[i]
  BY OneMore
<1>2. ASSUME NEW i \in 1 .. Len(msgs) PROVE CallsAnswered(more, i)
  <2>1. CallsAnswered(msgs, i)  BY DEF Followed
  <2>2. CASE ~(msgs[i].role = "assistant" /\ msgs[i].calls # {})
    BY <1>1, <2>2 DEF CallsAnswered
  <2>3. CASE msgs[i].role = "assistant" /\ msgs[i].calls # {}
    <3>1. i < Len(msgs)  BY <2>1, <2>3 DEF CallsAnswered
    <3>2. i + 1 \in 1 .. Len(msgs)  BY <1>1, <3>1
    <3>3. more[i] = msgs[i] /\ more[i + 1] = msgs[i + 1] /\ i < Len(more)
      BY <1>1, <3>1, <3>2
    <3> QED  BY <2>1, <3>3 DEF CallsAnswered
  <2> QED  BY <2>2, <2>3
<1>3. m.role = "assistant" => Replied(more, m.calls)
  BY <1>1, <1>2 DEF Replied, Followed
<1>4. ASSUME m.role # "assistant" \/ m.calls = {} PROVE Followed(more, Len(more))
  <2>1. CallsAnswered(more, Len(msgs) + 1)  BY <1>1, <1>4 DEF CallsAnswered
  <2>2. \A i \in 1 .. Len(more) : i \in 1 .. Len(msgs) \/ i = Len(msgs) + 1  BY <1>1
  <2> QED  BY <1>2, <2>1, <2>2 DEF Followed
<1> QED  BY <1>3, <1>4

\* The message that answers every call.
LEMMA AnsweredOn ==
  ASSUME NEW msgs \in Seq(Message), NEW m \in Message, NEW more, more = Append(msgs, m),
         m.role = "user", Replied(msgs, Given(m.results))
  PROVE  Followed(more, Len(more))
<1>1. /\ Len(msgs) \in Nat /\ Len(more) = Len(msgs) + 1 /\ more[Len(msgs) + 1] = m
      /\ \A i \in 1 .. Len(msgs) : more[i] = msgs[i]
  BY OneMore
<1>2. ASSUME NEW i \in 1 .. Len(msgs) - 1 PROVE CallsAnswered(more, i)
  <2>1. CallsAnswered(msgs, i)  BY DEF Replied, Followed
  <2>2. i \in 1 .. Len(msgs) /\ i + 1 \in 1 .. Len(msgs) /\ i < Len(more) /\ i < Len(msgs)  BY <1>1
  <2>3. more[i] = msgs[i] /\ more[i + 1] = msgs[i + 1]  BY <1>1, <2>2
  <2> QED  BY <2>1, <2>2, <2>3 DEF CallsAnswered
<1>3. CallsAnswered(more, Len(msgs))
  BY <1>1 DEF CallsAnswered, Replied, Given
<1>4. CallsAnswered(more, Len(msgs) + 1)  BY <1>1 DEF CallsAnswered
<1>5. \A i \in 1 .. Len(more) : i \in 1 .. Len(msgs) - 1 \/ i = Len(msgs) \/ i = Len(msgs) + 1
  BY <1>1
<1> QED  BY <1>2, <1>3, <1>4, <1>5 DEF Followed

\* What a message settles was in hand, or had not been settled.
LEMMA AccountsOn ==
  ASSUME NEW msgs \in Seq(Message), NEW m \in Message, NEW more, more = Append(msgs, m),
         NEW frozen, NEW held, Accounts(msgs, frozen, held),
         held \subseteq SettledBy(m), SettledBy(m) \cap frozen \subseteq held
  PROVE  Accounts(more, frozen \union SettledBy(m), {})
<1> DEFINE s == SettledBy(m)
<1>1. /\ Len(msgs) \in Nat /\ Len(more) = Len(msgs) + 1 /\ more[Len(msgs) + 1] = m
      /\ \A i \in 1 .. Len(msgs) : more[i] = msgs[i]
  BY OneMore
<1>2. \A i \in 1 .. Len(more) :
         \/ (i \in 1 .. Len(msgs) /\ SettledBy(more[i]) = SettledBy(msgs[i]))
         \/ (i = Len(msgs) + 1 /\ SettledBy(more[i]) = s)
  BY <1>1
<1>3. \A i \in 1 .. Len(msgs) : /\ SettledBy(msgs[i]) \subseteq frozen
                                /\ SettledBy(msgs[i]) \cap held = {}
                                /\ i \in 1 .. Len(more)
  BY <1>1 DEF Accounts
<1>4. \A i \in 1 .. Len(msgs) : SettledBy(msgs[i]) \cap s = {}
  BY <1>3
<1>5. Len(msgs) + 1 \in 1 .. Len(more) /\ SettledBy(more[Len(msgs) + 1]) = s
  BY <1>1
<1>6. frozen \union s = UNION {SettledBy(more[i]) : i \in 1 .. Len(more)}
  <2> HIDE DEF s
  <2>1. held \subseteq s  BY DEF s
  <2>2. frozen = (UNION {SettledBy(msgs[i]) : i \in 1 .. Len(msgs)}) \union held
    BY DEF Accounts
  <2>3. ASSUME NEW x \in frozen \union s
        PROVE  \E i \in 1 .. Len(more) : x \in SettledBy(more[i])
    <3>1. CASE x \in s  BY <1>5, <3>1
    <3>2. CASE x \notin s
      <4>0. x \in UNION {SettledBy(msgs[i]) : i \in 1 .. Len(msgs)}  BY <2>1, <2>2, <3>2
      <4>1. PICK i \in 1 .. Len(msgs) : x \in SettledBy(msgs[i])  BY <4>0
      <4> QED  BY <1>1, <1>3, <4>1
    <3> QED  BY <3>1, <3>2
  <2>4. ASSUME NEW i \in 1 .. Len(more) PROVE SettledBy(more[i]) \subseteq frozen \union s
    BY <1>2, <1>3
  <2> QED  BY <2>3, <2>4
<1>7. \A i, j \in 1 .. Len(more) : i # j => SettledBy(more[i]) \cap SettledBy(more[j]) = {}
  <2> HIDE DEF s
  <2>1. \A i, j \in 1 .. Len(msgs) : i # j => SettledBy(msgs[i]) \cap SettledBy(msgs[j]) = {}
    BY DEF Accounts
  <2> TAKE i, j \in 1 .. Len(more)
  <2> HAVE i # j
  <2>2. CASE i \in 1 .. Len(msgs) /\ j \in 1 .. Len(msgs)
    BY <1>1, <2>1, <2>2
  <2>3. CASE i \in 1 .. Len(msgs) /\ j = Len(msgs) + 1
    BY <1>1, <1>4, <1>5, <2>3
  <2>4. CASE j \in 1 .. Len(msgs) /\ i = Len(msgs) + 1
    BY <1>1, <1>4, <1>5, <2>4
  <2> QED  BY <1>2, <2>2, <2>3, <2>4
<1> QED  BY <1>6, <1>7 DEF Accounts

\* A result more in hand settles what nothing has.
LEMMA AccountsHeld ==
  ASSUME NEW msgs, NEW frozen, NEW held, Accounts(msgs, frozen, held),
         NEW x, x \cap frozen = {}
  PROVE  Accounts(msgs, frozen \union x, held \union x)
<1>1. \A i \in 1 .. Len(msgs) : SettledBy(msgs[i]) \subseteq frozen  BY DEF Accounts
<1>2. \A i \in 1 .. Len(msgs) : SettledBy(msgs[i]) \cap (held \union x) = {}
  BY <1>1 DEF Accounts
<1>3. frozen \union x = (UNION {SettledBy(msgs[i]) : i \in 1 .. Len(msgs)}) \union (held \union x)
  BY DEF Accounts
<1> QED  BY <1>2, <1>3 DEF Accounts

-----------------------------------------------------------------------------
(* A copy no turn is at work on, and the reply a turn is at                 *)

\* No question, every call answered, every frozen surface settled.
Even(c) ==
  /\ c.pending = None
  /\ Followed(c.msgs, Len(c.msgs))
  /\ Accounts(c.msgs, c.frozen, {})

\* The question is of the last reply, on a surface still live, and holds the
\* results of all its other calls.
Answerable(c) ==
  /\ c.pending # None
  /\ Revisable(c, c.pending.handle)
  /\ Replied(c.msgs, {c.pending.call} \union Given(c.pending.results))
  /\ c.pending.call \notin Given(c.pending.results)
  /\ Accounts(c.msgs, c.frozen, SettledIn(c.pending.results))

AtRest(c) == IF c.status = "awaiting" THEN Answerable(c) ELSE Even(c)

\* Surface x is what has become of h, by this copy.
LeadsTo(c, n, h, x) == \E e : Ends(e, n, c.superseded) /\ e[h] = x

\* The first k calls of the reply have results, but for one that may have parked
\* on the surface the reply asks.
Counted(q, n, k) ==
  /\ q.c.pending = None /\ q.c.status # "awaiting"
  /\ Accounts(q.c.msgs, q.c.frozen, SettledIn(q.results))
  /\ Replied(q.c.msgs, 1 .. q.calls) /\ q.call \in 1 .. q.calls
  /\ q.parked = None => Given(q.results) = 1 .. k
  /\ q.parked # None => /\ Given(q.results) \union {q.parked.call} = 1 .. k
                        /\ q.parked.call \notin Given(q.results)
                        /\ q.asking # 0 /\ LeadsTo(q.c, n, q.parked.handle, q.asking)
  /\ q.asking # 0 => Revisable(q.c, q.asking)

\* The call at hand asks on the reply's surface, if it asks.
InReply(q, n) ==
  /\ Counted(q, n, q.call - 1)
  /\ q.asked # 0 => q.asked = q.asking /\ q.parked = None

\* An init tool runs ahead of the history.
InInit(q) ==
  /\ Even(q.c) /\ q.c.status # "awaiting" /\ q.c.msgs = <<>>
  /\ q.results = {} /\ q.parked = None /\ q.asked = q.asking
  /\ q.asking # 0 => Revisable(q.c, q.asking)

Clear(q) == q.results = {} /\ q.asking = 0 /\ q.asked = 0 /\ q.parked = None

\* What a request holds, and what it may put back.
Right(q, n) ==
  /\ q.pc = "tool" => IF q.init = None THEN InReply(q, n) ELSE InInit(q)
  /\ q.pc # "tool" => AtRest(q.c)
  /\ q.pc \in {"announce", "append", "begin", "commit", "model"} => Clear(q)
  /\ q.pc = "model" \/ (q.pc = "commit" /\ q.kind # "update") => q.c.pending = None
  /\ Keeping(q) => AtRest(q.before) /\ (q.kind # "click" => q.before.pending = None)

LEMMA RestSame ==
  ASSUME NEW c, NEW d, d.msgs = c.msgs, d.pending = c.pending, d.frozen = c.frozen,
         d.handles = c.handles, d.superseded = c.superseded
  PROVE  /\ Even(c) => Even(d)
         /\ Answerable(c) => Answerable(d)
         /\ d.status = c.status /\ AtRest(c) => AtRest(d)
BY DEF Even, Answerable, AtRest, Revisable, Superseded

LEMMA RestParts ==
  ASSUME NEW c, AtRest(c)
  PROVE  /\ c.status = "awaiting" <=> c.pending # None
         /\ c.pending = None => Even(c)
         /\ c.pending # None => Answerable(c)
BY DEF AtRest, Even, Answerable

\* A message that answers nothing is said.
LEMMA EvenOn ==
  ASSUME NEW c \in Conversation, Even(c), NEW m \in Message, NEW d,
         d.msgs = Append(c.msgs, m), d.pending = None, d.frozen = c.frozen,
         \/ m.role = "user" /\ m.results = {}
         \/ m.role = "assistant" /\ m.calls = {}
  PROVE  Even(d)
<1>1. c.msgs \in Seq(Message)  BY DEF Conversation
<1>2. SettledBy(m) = {}  BY DEF SettledBy, SettledIn
<1>3. Accounts(d.msgs, c.frozen \union SettledBy(m), {})
  BY <1>1, <1>2, AccountsOn DEF Even
<1>4. Followed(d.msgs, Len(d.msgs))
  BY <1>1, FollowedOn DEF Even
<1>5. c.frozen \union SettledBy(m) = c.frozen  BY <1>2
<1> QED  BY <1>3, <1>4, <1>5 DEF Even

\* One result more: what it answers, and what it settles.
LEMMA OneGiven ==
  ASSUME NEW results \in SUBSET Numbers, NEW call \in Nat, NEW h \in Nat,
         NEW more, more = results \union {<<call, h>>}
  PROVE  Given(more) = Given(results) \union {call}
<1>1. <<call, h>>[1] = call  OBVIOUS
<1>2. \A p : p \in more <=> p \in results \/ p = <<call, h>>  OBVIOUS
<1>3. \A x : x \in Given(more) <=> \E p \in more : x = p[1]  BY DEF Given
<1>4. \A x : x \in Given(results) <=> \E p \in results : x = p[1]  BY DEF Given
<1>5. \A x : x \in Given(more) <=> x \in Given(results) \/ x = call
  BY ONLY <1>1, <1>2, <1>3, <1>4
<1> QED  BY <1>5

LEMMA OneSettled ==
  ASSUME NEW results \in SUBSET Numbers, NEW call \in Nat, NEW h \in Nat,
         NEW more, more = results \union {<<call, h>>}
  PROVE  SettledIn(more) = SettledIn(results) \union ({h} \ {0})
<1>1. <<call, h>>[2] = h  OBVIOUS
<1>2. \A p : p \in more <=> p \in results \/ p = <<call, h>>  OBVIOUS
<1>3. \A x : x \in SettledIn(more) <=> x # 0 /\ \E p \in more : x = p[2]  BY DEF SettledIn
<1>4. \A x : x \in SettledIn(results) <=> x # 0 /\ \E p \in results : x = p[2]  BY DEF SettledIn
<1>5. \A x : x \in SettledIn(more) <=> x \in SettledIn(results) \/ (x = h /\ x # 0)
  BY ONLY <1>1, <1>2, <1>3, <1>4
<1> QED  BY <1>5

\* Each call of a reply cut short is told why, and nothing settled.
LEMMA AllTold ==
  ASSUME NEW n \in Nat
  PROVE  Given((1 .. n) \X {0}) = 1 .. n /\ SettledIn((1 .. n) \X {0}) = {}
<1>1. \A x : x \in (1 .. n) \X {0} => x[1] \in 1 .. n /\ x[2] = 0  OBVIOUS
<1>2. \A i \in 1 .. n : <<i, 0>> \in (1 .. n) \X {0} /\ <<i, 0>>[1] = i  OBVIOUS
<1> QED  BY <1>1, <1>2 DEF Given, SettledIn

LEMMA AnsweredIs ==
  ASSUME NEW c \in Conversation, NEW quoted, NEW a, a = Answered(c, quoted), NEW m,
         m = User(c.pending.results \union {<<c.pending.call, c.pending.handle>>}, quoted)
  PROVE  /\ a.msgs = Append(c.msgs, m) /\ a.frozen = c.frozen \union {c.pending.handle}
         /\ a.pending = None /\ a.noticed = c.noticed
BY DEF Answered, Push, Conversation

\* The question is answered, with the results it held.
LEMMA EvenAnswered ==
  ASSUME NEW n, NEW seq \in Nat, NEW c, Good(c, n, seq), Answerable(c), NEW quoted \in Seq(Nat)
  PROVE  Even(Answered(c, quoted))
<1> DEFINE p == c.pending
           results == p.results \union {<<p.call, p.handle>>}
           m == User(results, quoted)
           d == Answered(c, quoted)
<1>1. /\ c \in Conversation /\ p \in Question /\ c.msgs \in Seq(Message)
      /\ p.handle \in 1 .. seq
  BY DEF Good, Conversation, Answerable
<1>2. results \in SUBSET Numbers  BY <1>1 DEF Question, Numbers
<1>3. /\ d.msgs = Append(c.msgs, m) /\ d.frozen = c.frozen \union {p.handle} /\ d.pending = None
  <2>1. PICK a, u : a = d /\ u = m  OBVIOUS
  <2>a. /\ c \in Conversation /\ a = Answered(c, quoted)
        /\ u = User(c.pending.results \union {<<c.pending.call, c.pending.handle>>}, quoted)
    BY <1>1, <2>1
  <2>2. /\ a.msgs = Append(c.msgs, u) /\ a.frozen = c.frozen \union {c.pending.handle}
        /\ a.pending = None
    BY ONLY <2>a, AnsweredIs
  <2> HIDE DEF d, m
  <2> QED  BY <2>1, <2>2
<1>4. m \in Message /\ m.role = "user" /\ m.results = results
  <2>1. m \in Message  BY <1>2, MessagesTyped
  <2> QED  BY <2>1 DEF User
<1> HIDE DEF d, m
<1>s. /\ Given(results) = Given(p.results) \union {p.call}
      /\ SettledIn(results) = SettledIn(p.results) \union {p.handle}
  <2>1. /\ p.results \in SUBSET Numbers /\ p.call \in Nat /\ p.handle \in Nat /\ p.handle # 0
    BY <1>1 DEF Question
  <2>2. /\ Given(results) = Given(p.results) \union {p.call}
        /\ SettledIn(results) = SettledIn(p.results) \union ({p.handle} \ {0})
    <3>1. PICK old \in SUBSET Numbers, call \in Nat, h \in Nat :
            old = p.results /\ call = p.call /\ h = p.handle
      BY <2>1
    <3>2. PICK all : all = results  OBVIOUS
    <3>3. all = old \union {<<call, h>>}  BY <3>1, <3>2
    <3>4. Given(all) = Given(old) \union {call}  BY ONLY <3>3, OneGiven
    <3>5. SettledIn(all) = SettledIn(old) \union ({h} \ {0})  BY ONLY <3>3, OneSettled
    <3> QED  BY <3>1, <3>2, <3>4, <3>5
  <2> QED  BY <2>1, <2>2
<1> HIDE DEF results
<1>5. SettledBy(m) = SettledIn(p.results) \union {p.handle}
  BY <1>4, <1>s DEF SettledBy
<1>6. Given(m.results) = {p.call} \union Given(p.results)
  BY <1>4, <1>s
<1>7. Followed(d.msgs, Len(d.msgs))
  BY <1>1, <1>3, <1>4, <1>6, AnsweredOn DEF Answerable
<1>8. Accounts(d.msgs, c.frozen \union SettledBy(m), {})
  <2>1. Accounts(c.msgs, c.frozen, SettledIn(p.results)) /\ p.handle \notin c.frozen
    BY DEF Answerable, Revisable
  <2>2. /\ SettledIn(p.results) \subseteq SettledBy(m)
        /\ SettledBy(m) \cap c.frozen \subseteq SettledIn(p.results)
    BY <1>5, <2>1
  <2> QED  BY <1>1, <1>3, <1>4, <2>1, <2>2, AccountsOn
<1>9. c.frozen \union SettledBy(m) = d.frozen
  <2>1. SettledIn(p.results) \subseteq c.frozen  BY DEF Answerable, Accounts
  <2> QED  BY <1>3, <1>5, <2>1
<1>10. Even(d)  BY <1>3, <1>7, <1>8, <1>9 DEF Even
<1> QED  BY <1>10 DEF d

-----------------------------------------------------------------------------
(* What becomes of a surface                                                *)

LEMMA LeadsItself ==
  ASSUME NEW n \in Nat, NEW seq \in Nat, seq <= n, NEW c, Good(c, n, seq),
         NEW h \in 1 .. seq, h \notin Superseded(c)
  PROVE  LeadsTo(c, n, h, h)
<1>1. PICK e : TheEnds(e, n, seq, c.superseded)  BY DEF Good
<1>2. h \in 1 .. n /\ h \notin Olds(c.superseded)  BY DEF Superseded, Olds
<1>3. Ends(e, n, c.superseded)  BY <1>1 DEF TheEnds
<1>4. e[h] = h  BY <1>2, <1>3 DEF Ends
<1> QED  BY <1>3, <1>4 DEF LeadsTo

\* A revision takes over the surfaces that had become the one it revises.
LEMMA LeadsOn ==
  ASSUME NEW n \in Nat, NEW seq \in Nat, seq < n, NEW c, Good(c, n, seq),
         NEW old \in (1 .. seq) \ Superseded(c), NEW outside \in BOOLEAN,
         NEW d, d.superseded = c.superseded
                  \union {[old |-> old, new |-> seq + 1, outside |-> outside]},
         NEW h \in 1 .. seq, NEW x, LeadsTo(c, n, h, x)
  PROVE  /\ x = old => LeadsTo(d, n, h, seq + 1)
         /\ x # old => LeadsTo(d, n, h, x)
<1> DEFINE rec == [old |-> old, new |-> seq + 1, outside |-> outside]
           revisions == c.superseded
           all == d.superseded
<1>1. Single(revisions, seq)  BY DEF Good
<1>2. PICK e : TheEnds(e, n, seq, revisions)  BY DEF Good
<1>3. old \in 1 .. seq /\ old \notin Olds(revisions)  BY DEF Olds, Superseded
<1>4. /\ all = revisions \union {rec}
      /\ rec \in Revision /\ rec.old = old /\ rec.new = seq + 1
  BY DEF Revision
<1>5. e[h] = x
  <2>1. PICK f : Ends(f, n, revisions) /\ f[h] = x  BY DEF LeadsTo
  <2>2. f = e  BY <1>2, <2>1 DEF TheEnds
  <2> QED  BY <2>1, <2>2
<1> HIDE DEF all, revisions, rec
<1>6. \E g : /\ TheEnds(g, n, seq + 1, all)
             /\ \A y \in 1 .. seq : (e[y] = old => g[y] = seq + 1) /\ (e[y] # old => g[y] = e[y])
  <2>1. seq < n /\ n \in Nat /\ seq \in Nat  OBVIOUS
  <2> QED  BY ONLY <1>1, <1>2, <1>3, <1>4, <2>1, ChainGrows, SMTT(20)
<1>7. PICK g : /\ TheEnds(g, n, seq + 1, all)
               /\ \A y \in 1 .. seq : (e[y] = old => g[y] = seq + 1) /\ (e[y] # old => g[y] = e[y])
  BY <1>6
<1>8. Ends(g, n, all) /\ (x = old => g[h] = seq + 1) /\ (x # old => g[h] = x)
  BY <1>5, <1>7 DEF TheEnds
<1> QED  BY <1>8 DEF LeadsTo, all

\* It is what currentHandle finds.
LEMMA LeadsToCurrent ==
  ASSUME NEW seq, NEW c, Good(c, MaxHandle, seq), NEW h, NEW x, LeadsTo(c, MaxHandle, h, x)
  PROVE  CurrentHandle(c, h) = x
<1>1. PICK e : TheEnds(e, MaxHandle, seq, c.superseded)  BY DEF Good
<1>2. PICK f : Ends(f, MaxHandle, c.superseded) /\ f[h] = x  BY DEF LeadsTo
<1>3. f = e  BY <1>1, <1>2 DEF TheEnds
<1> QED  BY <1>1, <1>2, <1>3, CurrentIsTheEnd

-----------------------------------------------------------------------------
(* The question, and the notices quoted                                     *)

\* The question c holds, or what has become of it, is d's, or d has settled it.
Keeps(c, d, n) ==
  c.pending # None =>
    \/ /\ d.pending # None
       /\ d.pending.call = c.pending.call /\ d.pending.results = c.pending.results
       /\ LeadsTo(d, n, c.pending.handle, d.pending.handle)
    \/ c.pending.handle \in d.frozen

\* Whoever can save has the question that is on record, in what it may put back too.
Kept(c, q, n) ==
  /\ q.pc \in {"announce", "append", "begin"} => q.c.pending = c.pending
  /\ Keeps(c, q.c, n)
  /\ Keeping(q) => Keeps(c, q.before, n)

QuotedIn(m) == IF m.role = "user" THEN m.quoted ELSE <<>>
QuotesOf(msgs) == FlattenSeq([i \in 1 .. Len(msgs) |-> QuotedIn(msgs[i])])

\* The numbers from m on, n of them.
From(m, n) == [i \in 1 .. n |-> m + i]

Quotes(c) == QuotesOf(c.msgs) = From(0, c.noticed)

\* The copies quote what they have noticed; an init's message will.
Quoted(q) ==
  /\ Quotes(q.c)
  /\ Keeping(q) => Quotes(q.before)
  /\ q.pc = "tool" /\ q.init # None => q.init = From(q.c.noticed, Len(q.init))

LEMMA KeepsSettled ==
  ASSUME NEW b, NEW c, NEW d, NEW n, Keeps(b, c, n), c.pending = None, c.frozen \subseteq d.frozen
  PROVE  Keeps(b, d, n)
BY DEF Keeps

LEMMA KeepsSame ==
  ASSUME NEW b, NEW c, NEW d, NEW n, Keeps(b, c, n),
         d.pending = c.pending, d.superseded = c.superseded, d.frozen = c.frozen
  PROVE  Keeps(b, d, n)
BY DEF Keeps, LeadsTo

\* A copy at rest keeps its own question.
LEMMA KeepsItself ==
  ASSUME NEW n \in Nat, NEW seq \in Nat, seq <= n, NEW c, Good(c, n, seq), AtRest(c)
  PROVE  Keeps(c, c, n)
<1>1. CASE c.pending = None  BY <1>1 DEF Keeps
<1>2. CASE c.pending # None
  <2>1. Revisable(c, c.pending.handle)  BY <1>2, RestParts DEF Answerable
  <2>2. c.pending.handle \in 1 .. seq /\ c.pending.handle \notin Superseded(c)
    BY <1>2, <2>1 DEF Good, Revisable
  <2>3. LeadsTo(c, n, c.pending.handle, c.pending.handle)  BY <2>2, LeadsItself
  <2> QED  BY <1>2, <2>3 DEF Keeps
<1> QED  BY <1>1, <1>2

-----------------------------------------------------------------------------
(* What a message adds to the notices quoted                                *)

LEMMA LeastOfAll ==
  ASSUME NEW S \in SUBSET Nat, S # {}
  PROVE  \E m \in S : \A k \in S : m <= k
<1>1. IsWellFoundedOn(Less, Nat)
  BY NatLessThanWellFounded DEF OpToRel, Less
<1>2. PICK m \in S : \A k \in S : <<k, m>> \notin Less
  BY <1>1, WFMin
<1>3. ASSUME NEW k \in S PROVE m <= k
  <2>1. m \in Nat /\ k \in Nat /\ <<k, m>> \notin Less  BY <1>2
  <2>2. ~(k < m)  BY <2>1 DEF Less
  <2> QED  BY <2>1, <2>2
<1> QED  BY <1>3

\* f joins up the first k of s, as FlattenSeq does.
Joins(f, k, s) == f = [i \in 1 .. k |-> IF i = 1 THEN s[i] ELSE f[i - 1] \o s[i]]

LEMMA JoinsAre ==
  ASSUME NEW f, NEW k, NEW s
  PROVE  Joins(f, k, s) <=> /\ f = [i \in 1 .. k |-> f[i]]
                            /\ \A i \in 1 .. k : f[i] = IF i = 1 THEN s[i] ELSE f[i - 1] \o s[i]
<1>1. ASSUME Joins(f, k, s)
      PROVE  /\ f = [i \in 1 .. k |-> f[i]]
             /\ \A i \in 1 .. k : f[i] = IF i = 1 THEN s[i] ELSE f[i - 1] \o s[i]
  <2>1. f = [i \in 1 .. k |-> IF i = 1 THEN s[i] ELSE f[i - 1] \o s[i]]  BY <1>1 DEF Joins
  <2>2. \A i \in 1 .. k : f[i] = IF i = 1 THEN s[i] ELSE f[i - 1] \o s[i]  BY <2>1
  <2> QED  BY <2>1, <2>2
<1>2. ASSUME /\ f = [i \in 1 .. k |-> f[i]]
             /\ \A i \in 1 .. k : f[i] = IF i = 1 THEN s[i] ELSE f[i - 1] \o s[i]
      PROVE  Joins(f, k, s)
  <2>1. [i \in 1 .. k |-> f[i]] = [i \in 1 .. k |-> IF i = 1 THEN s[i] ELSE f[i - 1] \o s[i]]
    BY <1>2
  <2> QED  BY <1>2, <2>1 DEF Joins
<1> QED  BY <1>1, <1>2

LEMMA JoinsExist ==
  ASSUME NEW s, NEW n \in Nat
  PROVE  \E f : Joins(f, n, s)
<1> DEFINE Without == {k \in Nat : ~ \E f : Joins(f, k, s)}
<1>1. SUFFICES ASSUME Without # {} PROVE FALSE
  OBVIOUS
<1>2. PICK k \in Without : \A j \in Without : k <= j
  <2> HIDE DEF Without
  <2>1. Without \in SUBSET Nat  BY DEF Without
  <2> QED  BY <1>1, <2>1, LeastOfAll
<1>3. CASE k = 0
  <2> DEFINE f == [i \in 1 .. 0 |-> 0]
  <2>1. Joins(f, 0, s)
    <3>1. f = [i \in 1 .. 0 |-> f[i]] /\ \A i \in 1 .. 0 : FALSE  OBVIOUS
    <3> HIDE DEF f
    <3> QED  BY <3>1, JoinsAre
  <2> QED  BY <1>3, <2>1
<1>4. CASE k # 0
  <2>1. k - 1 \in Nat /\ k - 1 \notin Without  BY <1>2, <1>4
  <2>2. PICK f : Joins(f, k - 1, s)  BY <2>1
  <2> DEFINE last == IF k = 1 THEN s[k] ELSE f[k - 1] \o s[k]
             g == [i \in 1 .. k |-> IF i = k THEN last ELSE f[i]]
  <2>3. \A i \in 1 .. k - 1 : f[i] = IF i = 1 THEN s[i] ELSE f[i - 1] \o s[i]
    BY <2>2, JoinsAre
  <2> HIDE DEF last
  <2>4. g = [i \in 1 .. k |-> g[i]] /\ g[k] = last /\ \A i \in 1 .. k - 1 : g[i] = f[i]
    BY <2>1
  <2> HIDE DEF g
  <2>5. ASSUME NEW i \in 1 .. k PROVE g[i] = IF i = 1 THEN s[i] ELSE g[i - 1] \o s[i]
    <3>1. CASE i = k
      <4>1. k # 1 => g[k - 1] = f[k - 1]
        <5>1. k # 1 => k - 1 \in 1 .. k - 1  BY <2>1, <1>4
        <5> QED  BY <2>4, <5>1
      <4> QED  BY <2>4, <3>1, <4>1 DEF last
    <3>2. CASE i # k
      <4>1. i \in 1 .. k - 1 /\ (i # 1 => i - 1 \in 1 .. k - 1)  BY <3>2
      <4> QED  BY <2>3, <2>4, <4>1
    <3> QED  BY <3>1, <3>2
  <2>6. Joins(g, k, s)  BY <2>4, <2>5, JoinsAre
  <2> QED  BY <2>6
<1> QED  BY <1>3, <1>4

LEMMA JoinsAgree ==
  ASSUME NEW k \in Nat, NEW n \in Nat, k <= n, NEW s, NEW t, \A i \in 1 .. k : s[i] = t[i],
         NEW f, Joins(f, k, s), NEW g, Joins(g, n, t)
  PROVE  \A i \in 1 .. k : f[i] = g[i]
<1> DEFINE Apart == {i \in 1 .. k : f[i] # g[i]}
<1>1. SUFFICES ASSUME Apart # {} PROVE FALSE
  OBVIOUS
<1>2. PICK i \in Apart : \A j \in Apart : i <= j
  <2> HIDE DEF Apart
  <2>1. Apart \in SUBSET Nat  BY DEF Apart
  <2> QED  BY <1>1, <2>1, LeastOfAll
<1>3. /\ f[i] = IF i = 1 THEN s[i] ELSE f[i - 1] \o s[i]
      /\ g[i] = IF i = 1 THEN t[i] ELSE g[i - 1] \o t[i]
      /\ s[i] = t[i]
  <2>1. i \in 1 .. k /\ i \in 1 .. n  OBVIOUS
  <2> QED  BY <2>1, JoinsAre
<1>4. CASE i = 1  BY <1>3, <1>4
<1>5. CASE i # 1
  <2>1. i - 1 \in 1 .. k /\ i - 1 \notin Apart  BY <1>2, <1>5
  <2>2. f[i - 1] = g[i - 1]  BY <2>1
  <2> QED  BY <1>3, <1>5, <2>2
<1> QED  BY <1>4, <1>5

LEMMA FlattenJoins ==
  ASSUME NEW s, Len(s) \in Nat, Len(s) # 0
  PROVE  \E f : Joins(f, Len(s), s) /\ FlattenSeq(s) = f[Len(s)]
<1> DEFINE flat == CHOOSE f : f = [i \in 1 .. Len(s) |-> IF i = 1 THEN s[i] ELSE f[i - 1] \o s[i]]
<1>1. FlattenSeq(s) = flat[Len(s)]  BY DEF FlattenSeq
<1>2. Joins(flat, Len(s), s)
  <2>1. PICK f : Joins(f, Len(s), s)  BY JoinsExist
  <2>2. f = [i \in 1 .. Len(s) |-> IF i = 1 THEN s[i] ELSE f[i - 1] \o s[i]]  BY <2>1 DEF Joins
  <2>3. flat = [i \in 1 .. Len(s) |-> IF i = 1 THEN s[i] ELSE flat[i - 1] \o s[i]]  BY <2>2
  <2> HIDE DEF flat
  <2> QED  BY <2>3 DEF Joins
<1> HIDE DEF flat
<1> QED  BY <1>1, <1>2

\* The last of a sequence of sequences comes last.
LEMMA FlattenOne ==
  ASSUME NEW s, NEW t, NEW n \in Nat, Len(s) = n, Len(t) = n + 1, \A i \in 1 .. n : t[i] = s[i]
  PROVE  FlattenSeq(t) = IF n = 0 THEN t[1] ELSE FlattenSeq(s) \o t[n + 1]
<1>1. PICK g : Joins(g, n + 1, t) /\ FlattenSeq(t) = g[n + 1]  BY FlattenJoins
<1>2. g[n + 1] = IF n + 1 = 1 THEN t[n + 1] ELSE g[n + 1 - 1] \o t[n + 1]
  <2>1. n + 1 \in 1 .. n + 1  OBVIOUS
  <2> QED  BY <1>1, <2>1, JoinsAre
<1>3. CASE n = 0  BY <1>1, <1>2, <1>3
<1>4. CASE n # 0
  <2>1. PICK f : Joins(f, n, s) /\ FlattenSeq(s) = f[n]  BY <1>4, FlattenJoins
  <2>2. \A i \in 1 .. n : f[i] = g[i]
    <3>1. n + 1 \in Nat /\ n <= n + 1  OBVIOUS
    <3>2. \A i \in 1 .. n : s[i] = t[i]  OBVIOUS
    <3>3. Joins(f, n, s) /\ Joins(g, n + 1, t)  BY <1>1, <2>1
    <3> QED  BY ONLY <3>1, <3>2, <3>3, JoinsAgree
  <2>3. n \in 1 .. n /\ n + 1 # 1 /\ n + 1 - 1 = n  BY <1>4
  <2> QED  BY <1>1, <1>2, <1>4, <2>1, <2>2, <2>3
<1> QED  BY <1>3, <1>4

LEMMA FlatLen ==
  ASSUME NEW n \in Nat, NEW S, NEW s \in [1 .. n -> S]
  PROVE  Len(s) = n
<1>1. s \in Seq(S)  BY SeqDef
<1>2. DOMAIN s = 1 .. n /\ DOMAIN s = 1 .. Len(s) /\ Len(s) \in Nat  BY <1>1, LenProperties
<1>3. CASE n < Len(s)
  <2>1. Len(s) \in 1 .. Len(s) /\ Len(s) \notin 1 .. n  BY <1>2, <1>3
  <2> QED  BY <1>2, <2>1
<1>4. CASE Len(s) < n
  <2>1. n \in 1 .. n /\ n \notin 1 .. Len(s)  BY <1>2, <1>4
  <2> QED  BY <1>2, <2>1
<1> QED  BY <1>2, <1>3, <1>4

LEMMA QuotedTyped ==
  ASSUME NEW m \in Message
  PROVE  QuotedIn(m) \in Seq(Nat)
BY EmptySeq DEF QuotedIn, Message

LEMMA QuotesAtFirst ==
  ASSUME NEW c, c.msgs = <<>>, c.noticed = 0
  PROVE  Quotes(c)
<1> DEFINE s == [i \in 1 .. Len(c.msgs) |-> QuotedIn(c.msgs[i])]
<1>1. Len(c.msgs) = 0  OBVIOUS
<1>2. s \in [1 .. 0 -> {0}] /\ From(0, 0) \in [1 .. 0 -> {0}]  BY <1>1 DEF From
<1>3. Len(s) = 0  BY <1>2, FlatLen
<1>4. FlattenSeq(s) = s  BY <1>3 DEF FlattenSeq
<1>5. s = From(0, 0)  BY <1>2
<1> HIDE DEF s
<1>6. FlattenSeq(s) = From(0, c.noticed)  BY <1>4, <1>5
<1> QED  BY <1>6 DEF Quotes, QuotesOf, s

LEMMA FromTyped ==
  ASSUME NEW m \in Nat, NEW n \in Nat
  PROVE  From(m, n) \in Seq(Nat) /\ Len(From(m, n)) = n
<1>1. From(m, n) \in [1 .. n -> Nat]  BY DEF From
<1> QED  BY <1>1, FlatLen, SeqDef

LEMMA FromOn ==
  ASSUME NEW m \in Nat, NEW n \in Nat, NEW k \in Nat
  PROVE  From(m, n) \o From(m + n, k) = From(m, n + k)
<1>0. m + n \in Nat /\ n + k \in Nat  OBVIOUS
<1>a. From(m, n) \in Seq(Nat) /\ Len(From(m, n)) = n  BY FromTyped
<1>b. From(m + n, k) \in Seq(Nat) /\ Len(From(m + n, k)) = k  BY <1>0, FromTyped
<1>c. From(m, n + k) \in Seq(Nat) /\ Len(From(m, n + k)) = n + k  BY <1>0, FromTyped
<1>1. /\ From(m, n) \in Seq(Nat) /\ Len(From(m, n)) = n
      /\ From(m + n, k) \in Seq(Nat) /\ Len(From(m + n, k)) = k
      /\ From(m, n + k) \in Seq(Nat) /\ Len(From(m, n + k)) = n + k
  BY <1>a, <1>b, <1>c
<1> DEFINE s == From(m, n) \o From(m + n, k)
<1>2. /\ s \in Seq(Nat) /\ Len(s) = n + k
      /\ \A i \in 1 .. n + k :
           s[i] = IF i <= n THEN From(m, n)[i] ELSE From(m + n, k)[i - n]
  <2>1. PICK a \in Seq(Nat), b \in Seq(Nat) : a = From(m, n) /\ b = From(m + n, k)  BY <1>1
  <2>2. Len(a) = n /\ Len(b) = k /\ s = a \o b  BY <1>1, <2>1
  <2> HIDE DEF s
  <2>3. a \o b \in Seq(Nat) /\ Len(a \o b) = Len(a) + Len(b)  BY ONLY ConcatProperties
  <2>4. \A i \in 1 .. Len(a) + Len(b) :
          (a \o b)[i] = IF i <= Len(a) THEN a[i] ELSE b[i - Len(a)]
    BY ONLY ConcatProperties
  <2> QED  BY ONLY <2>1, <2>2, <2>3, <2>4
<1>3. ASSUME NEW i \in 1 .. n + k PROVE s[i] = From(m, n + k)[i]
  <2>1. From(m, n + k)[i] = m + i  BY DEF From
  <2>2. CASE i <= n
    <3>1. i \in 1 .. n  BY <2>2
    <3>2. From(m, n)[i] = m + i  BY <3>1 DEF From
    <3> HIDE DEF s
    <3> QED  BY <1>2, <2>1, <2>2, <3>2
  <2>3. CASE ~(i <= n)
    <3>1. i - n \in 1 .. k  BY <2>3
    <3>2. From(m + n, k)[i - n] = m + n + (i - n)  BY <3>1 DEF From
    <3>3. m + n + (i - n) = m + i  OBVIOUS
    <3> HIDE DEF s
    <3> QED  BY <1>2, <2>1, <2>3, <3>2, <3>3
  <2> QED  BY <2>2, <2>3
<1> HIDE DEF s
<1>4. s = From(m, n + k)  BY <1>1, <1>2, <1>3, SeqEqual
<1> QED  BY <1>4 DEF s

\* The notices of a message follow on.
LEMMA QuotesOn ==
  ASSUME NEW msgs \in Seq(Message), NEW m \in Message, NEW n \in Nat, NEW k \in Nat,
         QuotesOf(msgs) = From(0, n), QuotedIn(m) = From(n, k)
  PROVE  QuotesOf(Append(msgs, m)) = From(0, n + k)
<1>0. PICK more : more = Append(msgs, m)  OBVIOUS
<1> DEFINE l == Len(msgs)
           s == [i \in 1 .. Len(msgs) |-> QuotedIn(msgs[i])]
           t == [i \in 1 .. Len(more) |-> QuotedIn(more[i])]
<1>1. /\ more \in Seq(Message) /\ l \in Nat /\ Len(more) = l + 1 /\ more[l + 1] = m
      /\ \A i \in 1 .. l : more[i] = msgs[i]
  BY <1>0, OneMore
<1>2. Len(s) = l
  <2>1. s \in [1 .. l -> Seq(Nat)]
    <3>1. \A i \in 1 .. l : msgs[i] \in Message  BY ElementOfSeq
    <3> QED  BY <3>1, QuotedTyped
  <2> HIDE DEF s, l
  <2> QED  BY <1>1, <2>1, FlatLen
<1>3. Len(t) = l + 1
  <2>1. t \in [1 .. l + 1 -> Seq(Nat)]
    <3>1. \A i \in 1 .. l + 1 : more[i] \in Message  BY <1>1, ElementOfSeq
    <3> QED  BY <1>1, <3>1, QuotedTyped
  <2>2. l + 1 \in Nat  BY <1>1
  <2> HIDE DEF t, l
  <2> QED  BY <2>1, <2>2, FlatLen
<1>4. t[l + 1] = From(n, k) /\ \A i \in 1 .. l : t[i] = s[i]
  <2>1. l + 1 \in 1 .. Len(more) /\ \A i \in 1 .. l : i \in 1 .. Len(more)  BY <1>1
  <2> QED  BY <1>1, <2>1
<1>5. FlattenSeq(s) = From(0, n)  BY DEF QuotesOf
<1>6. FlattenSeq(t) = IF l = 0 THEN t[1] ELSE FlattenSeq(s) \o t[l + 1]
  <2> HIDE DEF s, t, l
  <2>1. l \in Nat /\ Len(s) = l /\ Len(t) = l + 1 /\ \A i \in 1 .. l : t[i] = s[i]
    BY <1>1, <1>2, <1>3, <1>4
  <2> QED  BY ONLY <2>1, FlattenOne
<1>7. FlattenSeq(t) = From(0, n + k)
  <2>1. CASE l # 0
    <3>1. FlattenSeq(t) = From(0, n) \o From(n, k)  BY <1>4, <1>5, <1>6, <2>1
    <3>2. 0 \in Nat /\ 0 + n = n  OBVIOUS
    <3>3. From(0, n) \o From(0 + n, k) = From(0, n + k)  BY ONLY <3>2, FromOn
    <3> QED  BY <3>1, <3>2, <3>3
  <2>2. CASE l = 0
    <3>1. FlattenSeq(s) = s  BY <1>2, <2>2 DEF FlattenSeq
    <3>2. From(0, n) = s  BY <1>5, <3>1
    <3>3. Len(From(0, n)) = n  BY FromTyped
    <3>4. n = 0  BY <1>2, <2>2, <3>2, <3>3
    <3>5. FlattenSeq(t) = From(n, k)
      <4>1. l + 1 = 1  BY <2>2
      <4> HIDE DEF t, s, l
      <4> QED  BY <1>4, <1>6, <2>2, <4>1
    <3> QED  BY <3>4, <3>5
  <2> QED  BY <2>1, <2>2
<1>8. QuotesOf(more) = From(0, n + k)  BY <1>7 DEF QuotesOf
<1> QED  BY <1>0, <1>8

\* What was unread is quoted, and all of it noticed.
LEMMA QuotesRest ==
  ASSUME Typed, NEW c \in Conversation, c.noticed <= Len(notices),
         NEW msgs \in Seq(Message), QuotesOf(msgs) = From(0, c.noticed),
         NEW results \in SUBSET Numbers,
         NEW d, d.msgs = Append(msgs, User(results, Unread(c))), d.noticed = Len(notices)
  PROVE  Quotes(d)
<1> DEFINE m == User(results, Unread(c))
           k == Len(notices) - c.noticed
<1>0. c.noticed \in Nat /\ Len(notices) \in Nat  BY Bounds DEF Conversation
<1>1. c.noticed \in Nat /\ k \in Nat /\ c.noticed + k = Len(notices)
  BY <1>0
<1>2. m \in Message /\ m.role = "user" /\ m.quoted = Unread(c)
  BY UnreadTyped, MessagesTyped DEF User
<1>3. Unread(c) = From(c.noticed, k)  BY DEF Unread, From
<1>4. QuotedIn(m) = From(c.noticed, k)  BY <1>2, <1>3 DEF QuotedIn
<1> HIDE DEF m, k
<1>5. d.msgs = Append(msgs, m)  BY DEF m
<1>6. QuotesOf(d.msgs) = From(0, c.noticed + k)
  <2>1. PICK n \in Nat, h \in Nat, u \in Message : n = c.noticed /\ h = k /\ u = m
    BY <1>1, <1>2
  <2>2. QuotesOf(msgs) = From(0, n) /\ QuotedIn(u) = From(n, h)  BY <1>4, <2>1
  <2>3. msgs \in Seq(Message) /\ u \in Message /\ n \in Nat /\ h \in Nat  OBVIOUS
  <2>4. QuotesOf(Append(msgs, u)) = From(0, n + h)  BY ONLY <2>2, <2>3, QuotesOn
  <2> HIDE DEF m, k
  <2> QED  BY <1>5, <2>1, <2>4
<1> QED  BY <1>1, <1>6 DEF Quotes

\* Nothing was quoted.
LEMMA QuotesNothing ==
  ASSUME NEW c \in Conversation, Quotes(c), NEW m \in Message, QuotedIn(m) = <<>>,
         NEW d, d.msgs = Append(c.msgs, m), d.noticed = c.noticed
  PROVE  Quotes(d)
<1>1. c.msgs \in Seq(Message) /\ c.noticed \in Nat /\ 0 \in Nat  BY DEF Conversation
<1>2. QuotedIn(m) = From(c.noticed, 0)  BY DEF From
<1>3. QuotesOf(c.msgs) = From(0, c.noticed)  BY DEF Quotes
<1>4. PICK msgs \in Seq(Message), n \in Nat : msgs = c.msgs /\ n = c.noticed  BY <1>1
<1>5. /\ QuotesOf(msgs) = From(0, n) /\ QuotedIn(m) = From(n, 0)
      /\ msgs \in Seq(Message) /\ m \in Message /\ n \in Nat /\ 0 \in Nat /\ n + 0 = n
  BY <1>2, <1>3, <1>4
<1>6. QuotesOf(Append(msgs, m)) = From(0, n)  BY ONLY <1>5, QuotesOn
<1> QED  BY <1>4, <1>6 DEF Quotes

LEMMA QuotesSame ==
  ASSUME NEW c, Quotes(c), NEW d, d.msgs = c.msgs, d.noticed = c.noticed
  PROVE  Quotes(d)
BY DEF Quotes

-----------------------------------------------------------------------------
(* The invariant, and what a request's step does for it                     *)

Orderly ==
  /\ setup \in Setups
  /\ AtRest(row.c) /\ Quotes(row.c)
  /\ \A r \in Request : /\ Right(req[r], MaxHandle) /\ Quoted(req[r])
                        /\ req[r].kind = "wake" => "wake" \in Kinds
  /\ \A r \in Request : Running(r) /\ Fence(r) => Kept(row.c, req[r], MaxHandle)

\* A request goes on, and what it holds is right and keeps what it kept.
Does(r, q) ==
  /\ Become(r, q) /\ Running(r) /\ q.pc # "off" /\ UNCHANGED setup
  /\ q.token = req[r].token /\ q.kind = req[r].kind
  /\ Right(q, MaxHandle) /\ Quoted(q)
  /\ \A b : Kept(b, req[r], MaxHandle) => Kept(b, q, MaxHandle)

LEMMA OrderlyDoes ==
  ASSUME Typed, Leased, Orderly, NEW r \in Request, NEW q, Does(r, q),
         row'.token = row.token,
         \/ row'.c = row.c
         \/ Fence(r) /\ AtRest(row'.c) /\ Quotes(row'.c) /\ Kept(row'.c, q, MaxHandle)
  PROVE  Orderly'
<1>1. setup' = setup /\ MaxHandle' = MaxHandle /\ Kinds' = Kinds  BY DEF Does, MaxHandle, Kinds
<1>2. req'[r] = q /\ \A s \in Request : s # r => req'[s] = req[s]  BY Becomes DEF Does, Typed
<1>3. AtRest(row'.c) /\ Quotes(row'.c)  BY DEF Orderly
<1>4. \A s \in Request : /\ Right(req'[s], MaxHandle) /\ Quoted(req'[s])
                         /\ req'[s].kind = "wake" => "wake" \in Kinds
  BY <1>2 DEF Orderly, Does
<1>5. ASSUME NEW s \in Request, req'[s].pc # "off", req'[s].token = row'.token
      PROVE  Kept(row'.c, req'[s], MaxHandle)
  <2>1. CASE s = r
    <3>1. Running(r) /\ Fence(r)  BY <1>2, <1>5, <2>1 DEF Does, Fence
    <3>2. Kept(row.c, req[r], MaxHandle)  BY <3>1 DEF Orderly
    <3> QED  BY <1>2, <2>1, <3>2 DEF Does
  <2>2. CASE s # r
    <3>1. Running(s) /\ Fence(s)  BY <1>2, <1>5, <2>2 DEF Running, Fence
    <3>2. ~Fence(r)
      BY <2>2, <3>1 DEF Leased, Fence, Does
    <3> QED  BY <1>2, <2>2, <3>1, <3>2 DEF Orderly
  <2> QED  BY <2>1, <2>2
<1> QED  BY <1>1, <1>3, <1>4, <1>5 DEF Orderly, Running, Fence

\* All that is left is the last save.
LEMMA ClosingAt ==
  ASSUME Typed, NEW r \in Request, Running(r), NEW c, Finish(r, c), UNCHANGED setup,
         AtRest(c), Quotes(c), \A b : Kept(b, req[r], MaxHandle) => Keeps(b, c, MaxHandle)
  PROVE  \E q : Does(r, q) /\ q.pc = "end" /\ q.c = c
<1>1. PICK q : /\ Become(r, q) /\ q.pc = "end" /\ q.kind = req[r].kind /\ q.c = c
               /\ q.token = req[r].token /\ q.wakes = {} /\ q.init = None
  BY FinishIs
<1>2. ~Keeping(q)  BY <1>1 DEF Keeping
<1>3. Right(q, MaxHandle) /\ Quoted(q)  BY <1>1, <1>2 DEF Right, Quoted
<1>4. \A b : Kept(b, req[r], MaxHandle) => Kept(b, q, MaxHandle)
  BY <1>1, <1>2 DEF Kept
<1> QED  BY <1>1, <1>3, <1>4 DEF Does

LEMMA Closing ==
  ASSUME Typed, NEW r \in Request, Running(r), NEW c, Finish(r, c), UNCHANGED setup,
         AtRest(c), Quotes(c), \A b : Kept(b, req[r], MaxHandle) => Keeps(b, c, MaxHandle)
  PROVE  \E q : Does(r, q)
<1>1. \E q : Does(r, q) /\ q.pc = "end" /\ q.c = c  BY ClosingAt
<1> QED  BY <1>1

-----------------------------------------------------------------------------
(* What the updates of a copy leave alone                                   *)

SameSurfaces(c, d) ==
  d.handles = c.handles /\ d.frozen = c.frozen /\ d.superseded = c.superseded /\ d.pending = c.pending

SameHistory(c, d) == SameSurfaces(c, d) /\ d.msgs = c.msgs /\ d.noticed = c.noticed

LEMMA PushIs ==
  ASSUME NEW c \in Conversation, NEW m, NEW d, d = Push(c, m)
  PROVE  /\ SameSurfaces(c, d) /\ d.msgs = Append(c.msgs, m)
         /\ d.noticed = c.noticed /\ d.status = c.status
BY DEF SameSurfaces, Conversation, Push

LEMMA TakenInIs ==
  ASSUME NEW c \in Conversation, NEW n, NEW d, d = TakenIn(c, n)
  PROVE  SameSurfaces(c, d) /\ d.msgs = c.msgs /\ d.noticed = n /\ d.status = c.status
BY DEF SameSurfaces, Conversation, TakenIn

LEMMA StatusIs ==
  ASSUME NEW c \in Conversation, NEW s, NEW d, d = [c EXCEPT !.status = s]
  PROVE  SameHistory(c, d) /\ d.status = s
BY DEF SameSurfaces, SameHistory, Conversation

LEMMA ParkedIs ==
  ASSUME NEW c \in Conversation, NEW call, NEW results, NEW h,
         NEW d, d = Parked(c, call, results, h)
  PROVE  /\ d.handles = c.handles /\ d.frozen = c.frozen /\ d.superseded = c.superseded
         /\ d.msgs = c.msgs /\ d.noticed = c.noticed /\ d.status = "awaiting"
         /\ d.pending = [call |-> call, results |-> results, handle |-> h]
BY DEF Conversation, Parked

LEMMA SameOn ==
  ASSUME NEW c, NEW d, SameHistory(c, d)
  PROVE  /\ Even(c) => Even(d)
         /\ Answerable(c) => Answerable(d)
         /\ d.status = c.status /\ AtRest(c) => AtRest(d)
         /\ Quotes(c) => Quotes(d)
         /\ \A b, n : Keeps(b, c, n) => Keeps(b, d, n)
<1>1. \A b, n : Keeps(b, c, n) => Keeps(b, d, n)
  BY KeepsSame DEF SameHistory, SameSurfaces
<1> QED  BY <1>1, RestSame, QuotesSame DEF SameHistory, SameSurfaces

\* Of a copy that asks nothing, its status goes for little.
LEMMA RestsEven ==
  ASSUME NEW c, AtRest(c), c.pending = None, NEW d, SameHistory(c, d), d.status # "awaiting"
  PROVE  Even(d) /\ AtRest(d)
<1>1. Even(c)  BY RestParts
<1> QED  BY <1>1, SameOn DEF AtRest

\* What a failed wake turn is closed as, or put back to.
LEMMA WakeFailedRests ==
  ASSUME NEW n, NEW seq, NEW q, GoodWork(q, n, seq), Keeping(q), q.kind = "wake",
         q.pc \in {"commit", "model"}, Right(q, n), Quoted(q)
  PROVE  /\ AtRest(WakeFailed(q)) /\ Quotes(WakeFailed(q))
         /\ \A b : Kept(b, q, n) => Keeps(b, WakeFailed(q), n)
<1>1. /\ q.c \in Conversation /\ q.before \in Conversation
      /\ AtRest(q.c) /\ q.c.pending = None /\ Quotes(q.c)
      /\ AtRest(q.before) /\ q.before.pending = None /\ Quotes(q.before)
  BY DEF GoodWork, Good, Right, Quoted
<1>2. CASE q.ran
  <2> DEFINE d == [q.c EXCEPT !.status = "idle"]
  <2>1. SameHistory(q.c, d) /\ d.status = "idle"  BY <1>1, StatusIs
  <2>2. WakeFailed(q) = d  BY <1>2 DEF WakeFailed
  <2> HIDE DEF d
  <2>3. AtRest(d) /\ Quotes(d) /\ \A b : Keeps(b, q.c, n) => Keeps(b, d, n)
    BY <1>1, <2>1, RestsEven, SameOn
  <2> QED  BY <2>2, <2>3 DEF Kept
<1>3. CASE ~q.ran
  <2> DEFINE d == [q.before EXCEPT !.wakeTurns = q.c.wakeTurns, !.pending = None]
  <2>1. SameHistory(q.before, d) /\ d.status = q.before.status
    BY <1>1 DEF Conversation, SameHistory, SameSurfaces
  <2>2. WakeFailed(q) = d  BY <1>3 DEF WakeFailed
  <2> HIDE DEF d
  <2>3. AtRest(d) /\ Quotes(d) /\ \A b : Keeps(b, q.before, n) => Keeps(b, d, n)
    BY <1>1, <2>1, SameOn
  <2> QED  BY <2>2, <2>3 DEF Kept
<1> QED  BY <1>2, <1>3

-----------------------------------------------------------------------------
(* Each step of a request                                                   *)

LEMMA Holds ==
  ASSUME Typed, Orderly, NEW r \in Request
  PROVE  /\ GoodWork(req[r], MaxHandle, handleSeq) /\ req[r] \in Work
         /\ req[r].c \in Conversation /\ Good(req[r].c, MaxHandle, handleSeq)
         /\ Right(req[r], MaxHandle) /\ Quoted(req[r])
         /\ MaxHandle \in Nat /\ handleSeq \in Nat /\ handleSeq <= MaxHandle
BY Bounds DEF Typed, GoodWork, Good, Orderly

LEMMA ClosingSame ==
  ASSUME Typed, Orderly, NEW r \in Request, Running(r), req[r].pc # "tool",
         NEW c, Finish(r, c), UNCHANGED setup,
         SameHistory(req[r].c, c), c.status = req[r].c.status
  PROVE  \E q : Does(r, q)
<1>1. AtRest(req[r].c) /\ Quotes(req[r].c)  BY Holds DEF Right, Quoted
<1>2. AtRest(c) /\ Quotes(c)  BY <1>1, SameOn
<1>3. \A b : Kept(b, req[r], MaxHandle) => Keeps(b, c, MaxHandle)  BY SameOn DEF Kept
<1> QED  BY <1>2, <1>3, Closing

LEMMA PaidSame ==
  ASSUME NEW c \in Conversation, NEW d, d = [c EXCEPT !.announcing = None]
  PROVE  SameHistory(c, d) /\ d.status = c.status
BY DEF Conversation, SameHistory, SameSurfaces

LEMMA Announcing ==
  ASSUME Typed, Orderly, NEW r \in Request, Running(r), req[r].pc \in {"announce", "append"},
         NEW c, NEW pc \in {"append", "begin"}, Copy(r, pc, c), UNCHANGED setup,
         SameHistory(req[r].c, c), c.status = req[r].c.status
  PROVE  \E q : Does(r, q)
<1> DEFINE p == req[r]
           q == [p EXCEPT !.pc = pc, !.c = c]
<1>1. p \in Work /\ Right(p, MaxHandle) /\ Quoted(p)  BY Holds
<1>2. /\ q.pc = pc /\ q.c = c /\ q.token = p.token /\ q.kind = p.kind
      /\ q.results = p.results /\ q.asking = p.asking /\ q.asked = p.asked
      /\ q.parked = p.parked
  BY <1>1 DEF Work
<1>3. Become(r, q)  BY DEF Copy
<1> HIDE DEF q
<1>4. ~Keeping(q)  BY <1>2 DEF Keeping
<1>5. AtRest(c) /\ Quotes(c)
  <2>1. AtRest(p.c) /\ Quotes(p.c)  BY <1>1 DEF Right, Quoted
  <2> QED  BY <2>1, SameOn
<1>6. Clear(q)
  <2>1. Clear(p)  BY <1>1 DEF Right
  <2> QED  BY <1>2, <2>1 DEF Clear
<1>7. Right(q, MaxHandle)  BY <1>2, <1>4, <1>5, <1>6 DEF Right
<1>8. Quoted(q)  BY <1>2, <1>4, <1>5 DEF Quoted
<1>9. \A b : Kept(b, p, MaxHandle) => Kept(b, q, MaxHandle)
  BY <1>2, <1>4, SameOn DEF Kept, SameHistory, SameSurfaces
<1> QED  BY <1>2, <1>3, <1>7, <1>8, <1>9 DEF Does

LEMMA AnnounceDoes ==
  ASSUME Typed, Orderly, NEW r \in Request, Announce(r)
  PROVE  (\E q : Does(r, q)) /\ row' = row
<1> DEFINE c == req[r].c
           d == [c EXCEPT !.announcing = None]
<1>1. c \in Conversation  BY Holds
<1>2. /\ SameHistory(c, d) /\ d.status = c.status
      /\ SameHistory(c, c)
  BY <1>1, PaidSame DEF SameHistory, SameSurfaces
<1>3. Running(r) /\ req[r].pc = "announce" /\ UNCHANGED <<setup, row>>
  BY DEF Announce, Running
<1>4. Copy(r, "begin", d) \/ Copy(r, "append", c)  BY DEF Announce
<1> HIDE DEF d
<1> QED  BY <1>2, <1>3, <1>4, Announcing

LEMMA AppendOwedDoes ==
  ASSUME Typed, Orderly, NEW r \in Request, AppendOwed(r)
  PROVE  (\E q : Does(r, q)) /\ row' = row
<1> DEFINE c == req[r].c
           d == [c EXCEPT !.announcing = None]
<1>1. c \in Conversation  BY Holds
<1>2. /\ SameHistory(c, d) /\ d.status = c.status
      /\ SameHistory(c, c)
  BY <1>1, PaidSame DEF SameHistory, SameSurfaces
<1>3. Running(r) /\ req[r].pc = "append" /\ UNCHANGED <<setup, row>>
  BY DEF AppendOwed, Running
<1>4. Copy(r, "begin", d) \/ Finish(r, c)  BY DEF AppendOwed
<1> HIDE DEF d
<1> QED  BY <1>2, <1>3, <1>4, Announcing, ClosingSame

\* What ends a request with nothing recorded, or with all it has to record.
LEMMA EndsPlainly ==
  ASSUME Typed, Orderly, NEW r \in Request,
         Refuse(r) \/ Tell(r) \/ WakeLimited(r) \/ ReadContext(r)
  PROVE  (\E q : Does(r, q)) /\ row' = row
<1> DEFINE c == req[r].c
           d == [c EXCEPT !.announcing = None]
           w == [c EXCEPT !.woke = NewestWake(c)]
<1>1. c \in Conversation  BY Holds
<1>2. /\ SameHistory(c, d) /\ d.status = c.status
      /\ SameHistory(c, c)
  BY <1>1, PaidSame DEF SameHistory, SameSurfaces
<1>3. SameHistory(c, w) /\ w.status = c.status
  BY <1>1 DEF Conversation, SameHistory, SameSurfaces
<1>4. Running(r) /\ req[r].pc # "tool" /\ UNCHANGED <<setup, row>>
  BY DEF Refuse, Tell, WakeLimited, ReadContext, Running
<1>5. Finish(r, c) \/ Finish(r, d) \/ Finish(r, w)
  BY DEF Refuse, Tell, WakeLimited, ReadContext
<1> HIDE DEF d, w
<1> QED  BY <1>2, <1>3, <1>4, <1>5, ClosingSame

\* A model's reply that throws, and the commit that does.
LEMMA FailsDoes ==
  ASSUME Typed, Orderly, NEW r \in Request, ModelFails(r) \/ ContextFails(r),
         \A s \in Setups : "wake" \in s.kinds => ~s.readFails
  PROVE  (\E q : Does(r, q)) /\ row' = row
<1> DEFINE p == req[r]
<1>1. GoodWork(p, MaxHandle, handleSeq) /\ Right(p, MaxHandle) /\ Quoted(p)
      /\ p.c \in Conversation
  BY Holds
<1>2. /\ Running(r) /\ p.pc \in {"model", "context"} /\ UNCHANGED <<setup, row>>
      /\ Finish(r, IF p.kind = "wake" THEN WakeFailed(p) ELSE p.c)
  BY DEF ModelFails, ContextFails, Running
<1>3. CASE p.kind = "wake"
  <2>1. p.pc = "model"
    <3>1. "wake" \in Kinds /\ setup \in Setups  BY <1>3 DEF Orderly
    <3>2. ~ReadFails  BY <3>1 DEF ReadFails, Kinds
    <3> QED  BY <3>2 DEF ModelFails, ContextFails
  <2>2. Keeping(p)  BY <1>3, <2>1 DEF Keeping
  <2>3. /\ AtRest(WakeFailed(p)) /\ Quotes(WakeFailed(p))
        /\ \A b : Kept(b, p, MaxHandle) => Keeps(b, WakeFailed(p), MaxHandle)
    BY <1>1, <1>3, <2>1, <2>2, WakeFailedRests
  <2> QED  BY <1>2, <1>3, <2>3, Closing
<1>4. CASE p.kind # "wake"
  <2>1. SameHistory(p.c, p.c)  BY DEF SameHistory, SameSurfaces
  <2>2. p.pc # "tool" /\ Finish(r, p.c)  BY <1>2, <1>4
  <2> QED  BY <1>2, <2>1, <2>2, ClosingSame
<1> QED  BY <1>3, <1>4

\* What a commit leaves on the row, if it lands.
Saves(r, q) ==
  /\ Does(r, q) /\ row'.token = row.token
  /\ \/ row'.c = row.c
     \/ Fence(r) /\ AtRest(row'.c) /\ Quotes(row'.c) /\ Kept(row'.c, q, MaxHandle)

LEMMA CommitFailsDoes ==
  ASSUME Typed, Orderly, NEW r \in Request, CommitFails(r)
  PROVE  \E q : Saves(r, q)
<1> DEFINE p == req[r]
           c == Undone(p)
<1>1. /\ GoodWork(p, MaxHandle, handleSeq) /\ Right(p, MaxHandle) /\ Quoted(p)
      /\ Good(p.c, MaxHandle, handleSeq) /\ AtRest(p.c) /\ Quotes(p.c)
      /\ MaxHandle \in Nat /\ handleSeq \in Nat /\ handleSeq <= MaxHandle
  BY Holds DEF Right, Quoted, CommitFails
<1>2. Running(r) /\ p.pc = "commit" /\ UNCHANGED setup /\ Finish(r, c)
  BY DEF CommitFails, Running
<1>3. /\ AtRest(c) /\ Quotes(c)
      /\ \A b : Kept(b, p, MaxHandle) => Keeps(b, c, MaxHandle)
      /\ Keeps(p.c, c, MaxHandle)
  <2>1. CASE p.kind = "click"
    <3>1. Keeping(p) /\ c = p.before  BY <1>2, <2>1 DEF Keeping, Undone
    <3>2. p.c.pending = None  BY <1>1, <1>2, <2>1 DEF Right
    <3> HIDE DEF c
    <3> QED  BY <1>1, <3>1, <3>2 DEF Right, Quoted, Kept, Keeps
  <2>2. CASE p.kind = "wake"
    <3>1. Keeping(p) /\ c = WakeFailed(p)  BY <1>2, <2>2 DEF Keeping, Undone
    <3>2. p.c.pending = None  BY <1>1, <1>2, <2>2 DEF Right
    <3>3. /\ AtRest(WakeFailed(p)) /\ Quotes(WakeFailed(p))
          /\ \A b : Kept(b, p, MaxHandle) => Keeps(b, WakeFailed(p), MaxHandle)
      BY <1>1, <1>2, <2>2, <3>1, WakeFailedRests
    <3> HIDE DEF c
    <3> QED  BY <3>1, <3>2, <3>3 DEF Keeps
  <2>3. CASE p.kind \notin {"click", "wake"}
    <3>1. c = p.c  BY <2>3 DEF Undone
    <3>2. Keeps(p.c, p.c, MaxHandle)  BY <1>1, KeepsItself
    <3> HIDE DEF c
    <3> QED  BY <1>1, <3>1, <3>2 DEF Kept
  <2> QED  BY <2>1, <2>2, <2>3
<1> HIDE DEF c
<1>4. PICK q : Does(r, q) /\ q.pc = "end" /\ q.c = c
  BY <1>2, <1>3, ClosingAt
<1>5. Kept(p.c, q, MaxHandle)  BY <1>3, <1>4 DEF Kept, Keeping
<1>6. CASE Fence(r) /\ row' = Saved(p, row.held)
  <2>1. row'.c = p.c /\ row'.token = row.token  BY <1>6 DEF Saved, Fence
  <2> QED  BY <1>1, <1>4, <1>5, <1>6, <2>1 DEF Saves
<1>7. CASE row' = row  BY <1>4, <1>7 DEF Saves
<1> QED  BY <1>6, <1>7 DEF CommitFails

LEMMA CommitLandsDoes ==
  ASSUME Typed, Orderly, NEW r \in Request, CommitLands(r)
  PROVE  \E q : Saves(r, q)
<1> DEFINE p == req[r]
           idle == [p.c EXCEPT !.status = "idle"]
           busy == [p.c EXCEPT !.status = "streaming"]
<1>1. /\ GoodWork(p, MaxHandle, handleSeq) /\ Right(p, MaxHandle) /\ Quoted(p)
      /\ Good(p.c, MaxHandle, handleSeq) /\ AtRest(p.c) /\ Quotes(p.c)
      /\ p \in Work /\ p.c \in Conversation
      /\ MaxHandle \in Nat /\ handleSeq \in Nat /\ handleSeq <= MaxHandle
  BY Holds DEF Right, Quoted, CommitLands
<1>2. /\ Running(r) /\ p.pc = "commit" /\ UNCHANGED setup /\ Fence(r)
      /\ row'.c = p.c /\ row'.token = row.token
  BY DEF CommitLands, Running, Saved, Fence
<1>3. Clear(p) /\ (p.kind # "update" => p.c.pending = None)
  BY <1>1, <1>2 DEF Right
<1>4. SameHistory(p.c, idle) /\ idle.status = "idle"  BY <1>1, StatusIs
<1>5. SameHistory(p.c, busy) /\ busy.status = "streaming"  BY <1>1, StatusIs
<1>6. ASSUME NEW q, Does(r, q), Kept(p.c, q, MaxHandle) PROVE Saves(r, q)
  BY <1>1, <1>2, <1>6 DEF Saves
<1>7. CASE p.kind = "update"
  <2> DEFINE q == [p EXCEPT !.pc = "tell", !.c = p.c]
  <2>1. Become(r, q)  BY <1>7 DEF CommitLands, Copy
  <2>2. q.pc = "tell" /\ q.kind = "update" /\ q.token = p.token /\ q.c = p.c
    BY <1>1, <1>7 DEF Work
  <2> HIDE DEF q
  <2>3. ~Keeping(q)  BY <2>2 DEF Keeping
  <2>4. Keeps(p.c, p.c, MaxHandle)  BY <1>1, KeepsItself
  <2>5. /\ Right(q, MaxHandle) /\ Quoted(q) /\ Kept(p.c, q, MaxHandle)
        /\ \A b : Kept(b, p, MaxHandle) => Kept(b, q, MaxHandle)
    BY <1>1, <2>2, <2>3, <2>4 DEF Right, Quoted, Kept
  <2> QED  BY <1>2, <1>6, <1>7, <2>1, <2>2, <2>5 DEF Does
<1>8. CASE p.kind = "start"
  <2> DEFINE q == [p EXCEPT !.pc = "context", !.c = idle]
  <2>1. Become(r, q)  BY <1>8 DEF CommitLands, Copy
  <2>2. q.pc = "context" /\ q.kind = "start" /\ q.token = p.token /\ q.c = idle
    BY <1>1, <1>8 DEF Work
  <2> HIDE DEF q, idle
  <2>3. ~Keeping(q)  BY <2>2 DEF Keeping
  <2>4. AtRest(idle) /\ Quotes(idle) /\ \A b : Keeps(b, p.c, MaxHandle) => Keeps(b, idle, MaxHandle)
    BY <1>1, <1>3, <1>4, <1>8, RestsEven, SameOn
  <2>5. /\ Right(q, MaxHandle) /\ Quoted(q)
        /\ \A b : Kept(b, p, MaxHandle) => Kept(b, q, MaxHandle)
    BY <2>2, <2>3, <2>4 DEF Right, Quoted, Kept
  <2>6. Kept(p.c, q, MaxHandle)  BY <1>3, <1>8, <2>2, <2>3 DEF Kept, Keeps
  <2> QED  BY <1>2, <1>6, <1>8, <2>1, <2>2, <2>5, <2>6 DEF Does
<1>9. CASE p.kind \notin {"update", "start"}
  <2> DEFINE q == [p EXCEPT !.pc = "model", !.hop = 1, !.init = None, !.c = busy]
  <2>1. Become(r, q)
    <3>1. q = [p EXCEPT !.pc = "model", !.hop = 1, !.init = None, !.c.status = "streaming"]
      BY <1>1 DEF Work
    <3> QED  BY <1>9, <3>1 DEF CommitLands
  <2>2. /\ q.pc = "model" /\ q.kind = p.kind /\ q.token = p.token /\ q.c = busy
        /\ q.results = p.results /\ q.asking = p.asking /\ q.asked = p.asked
        /\ q.parked = p.parked /\ q.before = p.before
    BY <1>1 DEF Work
  <2> HIDE DEF q, busy
  <2>3. Keeping(q) => Keeping(p)  BY <1>2, <2>2 DEF Keeping
  <2>4. AtRest(busy) /\ Quotes(busy) /\ \A b : Keeps(b, p.c, MaxHandle) => Keeps(b, busy, MaxHandle)
    BY <1>1, <1>3, <1>5, <1>9, RestsEven, SameOn
  <2>5. Clear(q) /\ q.c.pending = None
    BY <1>3, <1>5, <1>9, <2>2 DEF Clear, SameHistory, SameSurfaces
  <2>6. Right(q, MaxHandle) /\ Quoted(q)
    BY <1>1, <2>2, <2>3, <2>4, <2>5 DEF Right, Quoted
  <2>7. \A b : Kept(b, p, MaxHandle) => Kept(b, q, MaxHandle)
    BY <2>2, <2>3, <2>4 DEF Kept
  <2>8. Kept(p.c, q, MaxHandle)  BY <1>3, <1>9, <2>2 DEF Kept, Keeps
  <2> QED  BY <1>2, <1>6, <2>1, <2>2, <2>6, <2>7, <2>8 DEF Does
<1> QED  BY <1>7, <1>8, <1>9

LEMMA NoticedSoFar ==
  ASSUME Telling, NEW r \in Request, Running(r)
  PROVE  req[r].c.noticed <= Len(notices)
BY DEF Telling, TellsRight, ToldOrOwed

\* A user message is recorded with every unread notice in it.
LEMMA SaysUnread ==
  ASSUME Typed, NEW b \in Conversation, b.noticed <= Len(notices),
         NEW c \in Conversation, Even(c), Quotes(c), c.noticed = b.noticed,
         NEW d, d.msgs = Append(c.msgs, User({}, Unread(b))), d.pending = None,
         d.frozen = c.frozen, d.noticed = Len(notices)
  PROVE  Even(d) /\ Quotes(d)
<1> DEFINE m == User({}, Unread(b))
<1>1. {} \in SUBSET Numbers /\ Unread(b) \in Seq(Nat)  BY UnreadTyped
<1>2. m \in Message /\ m.role = "user" /\ m.results = {}
  BY <1>1, MessagesTyped DEF User
<1>3. Even(d)
  <2> HIDE DEF m
  <2>1. d.msgs = Append(c.msgs, m)  BY DEF m
  <2> QED  BY <1>2, <2>1, EvenOn
<1>4. c.msgs \in Seq(Message) /\ QuotesOf(c.msgs) = From(0, b.noticed)
  BY DEF Quotes, Conversation
<1>5. Quotes(d)  BY <1>1, <1>4, QuotesRest
<1> QED  BY <1>3, <1>5

\* A question is closed out with the results it held.
LEMMA ClosedOut ==
  ASSUME NEW n, NEW seq \in Nat, NEW c, Good(c, n, seq), Answerable(c), Quotes(c)
  PROVE  /\ Even(Answered(c, <<>>)) /\ Quotes(Answered(c, <<>>))
         /\ Good(Answered(c, <<>>), n, seq)
         /\ Answered(c, <<>>).noticed = c.noticed
         /\ c.pending.handle \in Answered(c, <<>>).frozen
<1> DEFINE results == c.pending.results \union {<<c.pending.call, c.pending.handle>>}
           m == User(results, <<>>)
<1>1. c \in Conversation /\ c.pending \in Question /\ c.pending # None
  BY DEF Good, Conversation, Answerable
<1>2. <<>> \in Seq(Nat)  BY EmptySeq
<1>3. PICK a : a = Answered(c, <<>>)  OBVIOUS
<1>4. Even(a) /\ Good(a, n, seq)  BY <1>1, <1>2, <1>3, EvenAnswered, AnsweredGood
<1>5. a.msgs = Append(c.msgs, m) /\ a.noticed = c.noticed /\ c.pending.handle \in a.frozen
  <2>1. PICK u : u = m  OBVIOUS
  <2>2. /\ a.msgs = Append(c.msgs, u) /\ a.frozen = c.frozen \union {c.pending.handle}
        /\ a.noticed = c.noticed
    BY <1>1, <1>3, <2>1, AnsweredIs
  <2> HIDE DEF m
  <2> QED  BY <2>1, <2>2
<1>6. m \in Message /\ QuotedIn(m) = <<>>
  <2>1. results \in SUBSET Numbers  BY <1>1 DEF Question, Numbers
  <2>2. m \in Message  BY <1>2, <2>1, MessagesTyped
  <2> QED  BY <2>2 DEF QuotedIn, User
<1> HIDE DEF m
<1>7. Quotes(a)  BY <1>1, <1>5, <1>6, QuotesNothing
<1> QED  BY <1>3, <1>4, <1>5, <1>7

LEMMA SendMessageDoes ==
  ASSUME Typed, Telling, Orderly, NEW r \in Request, SendMessage(r)
  PROVE  (\E q : Does(r, q)) /\ row' = row
<1> DEFINE p == req[r]
           c == p.c
           closed == IF c.status = "awaiting" /\ c.pending # None
                     THEN Answered(c, <<>>) ELSE c
           m == User({}, Unread(c))
           pushed == Push(closed, m)
           taken == TakenIn(pushed, Len(notices))
           d == [taken EXCEPT !.status = "streaming"]
           q == [p EXCEPT !.pc = "model", !.hop = 1, !.c = d]
<1>1. /\ GoodWork(p, MaxHandle, handleSeq) /\ Right(p, MaxHandle) /\ Quoted(p)
      /\ Good(c, MaxHandle, handleSeq) /\ AtRest(c) /\ Quotes(c)
      /\ p \in Work /\ c \in Conversation /\ handleSeq \in Nat
  BY Holds DEF Right, Quoted, SendMessage
<1>2. /\ Running(r) /\ p.pc = "begin" /\ p.kind = "chat" /\ UNCHANGED <<setup, row>>
      /\ Become(r, q)
  BY DEF SendMessage, Running
<1>e. <<>> \in Seq(Nat)  BY EmptySeq
<1>3. /\ Good(closed, MaxHandle, handleSeq) /\ Even(closed) /\ Quotes(closed)
      /\ closed.noticed = c.noticed
      /\ c.pending # None => c.pending.handle \in closed.frozen
  <2>1. CASE c.pending # None
    <3>1. Answerable(c) /\ c.status = "awaiting"  BY <1>1, <2>1, RestParts
    <3>2. closed = Answered(c, <<>>)  BY <2>1, <3>1
    <3> HIDE DEF closed
    <3>3. /\ Even(Answered(c, <<>>)) /\ Quotes(Answered(c, <<>>))
          /\ Good(Answered(c, <<>>), MaxHandle, handleSeq)
          /\ Answered(c, <<>>).noticed = c.noticed
          /\ c.pending.handle \in Answered(c, <<>>).frozen
      BY <1>1, <3>1, ClosedOut
    <3> QED  BY <3>2, <3>3
  <2>2. CASE c.pending = None
    <3>1. closed = c  BY <2>2
    <3>2. Even(c)  BY <1>1, <2>2, RestParts
    <3> QED  BY <1>1, <2>2, <3>1, <3>2
  <2> QED  BY <2>1, <2>2
<1>4. closed \in Conversation  BY <1>3 DEF Good
<1>5. m \in Message  BY <1>1, UnreadTyped, MessagesTyped
<1> HIDE DEF closed, m
<1>6. /\ pushed.msgs = Append(closed.msgs, m) /\ SameSurfaces(closed, pushed)
      /\ pushed \in Conversation
  <2>1. pushed \in Conversation  BY <1>3, <1>5, Pushed DEF Good
  <2>2. pushed = Push(closed, m)  OBVIOUS
  <2> HIDE DEF pushed
  <2> QED  BY <1>4, <2>1, <2>2, PushIs
<1> HIDE DEF pushed
<1>7. /\ taken.msgs = pushed.msgs /\ SameSurfaces(pushed, taken) /\ taken.noticed = Len(notices)
      /\ taken \in Conversation
  BY <1>6, Bounds, TakenInIs DEF TakenIn, Conversation
<1> HIDE DEF taken
<1>8. SameHistory(taken, d) /\ d.status = "streaming"  BY <1>7, StatusIs
<1> HIDE DEF d
<1>9. /\ d.msgs = Append(closed.msgs, m) /\ d.pending = None /\ d.frozen = closed.frozen
      /\ d.noticed = Len(notices)
  <2>1. closed.pending = None  BY <1>3 DEF Even
  <2> QED  BY <1>6, <1>7, <1>8, <2>1 DEF SameHistory, SameSurfaces
<1>10. c.noticed <= Len(notices)  BY <1>2, NoticedSoFar
<1>11. Even(d) /\ Quotes(d)
  BY <1>1, <1>3, <1>4, <1>9, <1>10, SaysUnread DEF m
<1>12. /\ q.pc = "model" /\ q.kind = "chat" /\ q.token = p.token /\ q.c = d
       /\ q.results = p.results /\ q.asking = p.asking /\ q.asked = p.asked
       /\ q.parked = p.parked
  BY <1>1, <1>2 DEF Work
<1> HIDE DEF q
<1>13. ~Keeping(q) /\ Clear(q)
  <2>1. Clear(p)  BY <1>1, <1>2 DEF Right
  <2> QED  BY <1>12, <2>1 DEF Keeping, Clear
<1>14. Right(q, MaxHandle) /\ Quoted(q)
  BY <1>8, <1>9, <1>11, <1>12, <1>13 DEF Right, Quoted, AtRest
<1>15. \A b : Kept(b, p, MaxHandle) => Kept(b, q, MaxHandle)
  BY <1>2, <1>3, <1>9, <1>12, <1>13 DEF Kept, Keeps
<1> QED  BY <1>2, <1>12, <1>14, <1>15 DEF Does

-----------------------------------------------------------------------------
(* A reply, and the message that answers it                                 *)

\* A reply's calls wait for their results.
LEMMA EvenReplied ==
  ASSUME NEW c \in Conversation, Even(c), NEW calls \in SUBSET Nat,
         NEW d, d.msgs = Append(c.msgs, Assistant(calls)), d.frozen = c.frozen
  PROVE  Replied(d.msgs, calls) /\ Accounts(d.msgs, d.frozen, {})
<1> DEFINE m == Assistant(calls)
<1>1. m \in Message /\ m.role = "assistant" /\ m.calls = calls
  <2>1. m \in Message  BY DEF Assistant, Message
  <2> QED  BY <2>1 DEF Assistant
<1>2. c.msgs \in Seq(Message)  BY DEF Conversation
<1>3. SettledBy(m) = {}  BY <1>1 DEF SettledBy
<1> HIDE DEF m
<1>4. d.msgs = Append(c.msgs, m)  BY DEF m
<1>5. Replied(d.msgs, calls)  BY <1>1, <1>2, <1>4, FollowedOn DEF Even
<1>6. Accounts(d.msgs, c.frozen \union SettledBy(m), {})
  BY <1>1, <1>2, <1>3, <1>4, AccountsOn DEF Even
<1>7. c.frozen \union SettledBy(m) = d.frozen  BY <1>3
<1> QED  BY <1>5, <1>6, <1>7

\* All its results are given in one message.
LEMMA RepliedEven ==
  ASSUME NEW c \in Conversation, NEW results \in SUBSET Numbers,
         Replied(c.msgs, Given(results)), Accounts(c.msgs, c.frozen, SettledIn(results)),
         NEW d, d.msgs = Append(c.msgs, User(results, <<>>)), d.frozen = c.frozen,
         d.pending = None
  PROVE  Even(d)
<1> DEFINE m == User(results, <<>>)
<1>1. m \in Message /\ m.role = "user" /\ m.results = results
  <2>1. <<>> \in Seq(Nat)  BY EmptySeq
  <2>2. m \in Message  BY <2>1, MessagesTyped
  <2> QED  BY <2>2 DEF User
<1>2. c.msgs \in Seq(Message)  BY DEF Conversation
<1>3. SettledBy(m) = SettledIn(results)  BY <1>1 DEF SettledBy
<1>4. SettledIn(results) \subseteq c.frozen  BY DEF Accounts
<1> HIDE DEF m
<1>5. d.msgs = Append(c.msgs, m)  BY DEF m
<1>6. Followed(d.msgs, Len(d.msgs))  BY <1>1, <1>2, <1>5, AnsweredOn
<1>7. Accounts(d.msgs, c.frozen \union SettledBy(m), {})
  BY <1>1, <1>2, <1>3, <1>5, AccountsOn
<1>8. c.frozen \union SettledBy(m) = d.frozen  BY <1>3, <1>4
<1> QED  BY <1>6, <1>7, <1>8 DEF Even

\* Neither message quotes.
LEMMA SaysNothing ==
  ASSUME NEW c \in Conversation, Quotes(c), NEW results \in SUBSET Numbers, NEW calls \in SUBSET Nat,
         NEW d, d.noticed = c.noticed,
         d.msgs = Append(c.msgs, User(results, <<>>)) \/ d.msgs = Append(c.msgs, Assistant(calls))
  PROVE  Quotes(d)
<1> DEFINE u == User(results, <<>>)
           a == Assistant(calls)
<1>1. u \in Message /\ QuotedIn(u) = <<>>
  <2>1. <<>> \in Seq(Nat)  BY EmptySeq
  <2>2. u \in Message  BY <2>1, MessagesTyped
  <2> QED  BY <2>2 DEF QuotedIn, User
<1>2. a \in Message /\ QuotedIn(a) = <<>>
  <2>1. a \in Message  BY DEF Assistant, Message
  <2> QED  BY <2>1 DEF QuotedIn, Assistant
<1>3. d.msgs = Append(c.msgs, u) \/ d.msgs = Append(c.msgs, a)  OBVIOUS
<1> HIDE DEF u, a
<1>4. CASE d.msgs = Append(c.msgs, u)  BY <1>1, <1>4, QuotesNothing
<1>5. CASE d.msgs = Append(c.msgs, a)  BY <1>2, <1>5, QuotesNothing
<1> QED  BY <1>3, <1>4, <1>5

\* A request goes on right, from p to q.
GoesRight(p, q, n) ==
  /\ q.pc # "off" /\ q.token = p.token /\ q.kind = p.kind
  /\ Right(q, n) /\ Quoted(q)
  /\ \A b : Kept(b, p, n) => Kept(b, q, n)

LEMMA RightDoes ==
  ASSUME NEW r \in Request, Running(r), NEW q, Become(r, q), UNCHANGED setup,
         GoesRight(req[r], q, MaxHandle)
  PROVE  Does(r, q)
BY DEF Does, GoesRight

\* A copy past the start keeps the question if its contents do, and what it may
\* put back is what it was, or the copy it was.
LEMMA KeptOn ==
  ASSUME NEW n, NEW p, NEW q, q.pc \notin {"announce", "append", "begin"},
         \A b : Keeps(b, p.c, n) => Keeps(b, q.c, n),
         Keeping(q) => q.before = p.c \/ (Keeping(p) /\ q.before = p.before)
  PROVE  \A b : Kept(b, p, n) => Kept(b, q, n)
BY DEF Kept

\* The turn goes on, or stops at maxHops, with every call answered.
LEMMA NextHopRight ==
  ASSUME Typed, NEW n, NEW seq, NEW q, GoodWork(q, n, seq), q.pc \in {"model", "tool"},
         q.init = None, q.asked = 0,
         NEW c \in Conversation, Even(c), Quotes(c), c.status # "awaiting",
         \A b : Keeps(b, q.c, n) => Keeps(b, c, n),
         Keeping(q) => /\ AtRest(q.before) /\ Quotes(q.before)
                       /\ q.kind # "click" => q.before.pending = None
  PROVE  GoesRight(q, NextHop(q, c), n)
<1> DEFINE d == [c EXCEPT !.status = "idle"]
           go == [q EXCEPT !.pc = "model", !.hop = q.hop + 1, !.c = c,
                           !.call = 0, !.calls = 0, !.results = {}, !.asking = 0, !.parked = None]
           stop == [q EXCEPT !.pc = "context", !.c = d]
<1>1. NextHop(q, c) = go \/ NextHop(q, c) = stop  BY DEF NextHop
<1>2. q \in Work /\ c.pending = None  BY DEF GoodWork, Even
<1>3. SameHistory(c, d) /\ d.status = "idle"  BY StatusIs
<1>4. AtRest(d) /\ Quotes(d) /\ AtRest(c) /\ \A b : Keeps(b, q.c, n) => Keeps(b, d, n)
  <2> HIDE DEF d
  <2>1. AtRest(c)  BY DEF AtRest
  <2> QED  BY <1>2, <1>3, <2>1, RestsEven, SameOn
<1> HIDE DEF d
<1>5. GoesRight(q, go, n)
  <2>1. /\ go.pc = "model" /\ go.c = c /\ go.kind = q.kind /\ go.before = q.before
        /\ go.token = q.token /\ go.results = {}
        /\ go.asking = 0 /\ go.asked = q.asked /\ go.parked = None /\ go.init = q.init
    BY <1>2 DEF Work
  <2> HIDE DEF go
  <2>2. Keeping(go) => Keeping(q)  BY <2>1 DEF Keeping
  <2>3. Clear(go)  BY <2>1 DEF Clear
  <2>4. Right(go, n)  BY <1>2, <1>4, <2>1, <2>2, <2>3 DEF Right
  <2>5. Quoted(go)  BY <2>1, <2>2 DEF Quoted
  <2>6. \A b : Kept(b, q, n) => Kept(b, go, n)  BY <2>1, <2>2, KeptOn
  <2> QED  BY <2>1, <2>4, <2>5, <2>6 DEF GoesRight
<1>6. GoesRight(q, stop, n)
  <2>1. /\ stop.pc = "context" /\ stop.c = d /\ stop.kind = q.kind /\ stop.before = q.before
        /\ stop.token = q.token
    BY <1>2 DEF Work
  <2> HIDE DEF stop
  <2>2. Keeping(stop) => Keeping(q)  BY <2>1 DEF Keeping
  <2>3. Right(stop, n)  BY <1>4, <2>1, <2>2 DEF Right
  <2>4. Quoted(stop)  BY <1>4, <2>1, <2>2 DEF Quoted
  <2>5. \A b : Kept(b, q, n) => Kept(b, stop, n)  BY <1>4, <2>1, <2>2, KeptOn
  <2> QED  BY <2>1, <2>3, <2>4, <2>5 DEF GoesRight
<1> QED  BY <1>1, <1>5, <1>6

-----------------------------------------------------------------------------
(* The steps of an init                                                     *)

LEMMA UnreadIs ==
  ASSUME Typed, NEW c \in Conversation, c.noticed <= Len(notices)
  PROVE  /\ Unread(c) = From(c.noticed, Len(Unread(c)))
         /\ Unread(c) \in Seq(Nat) /\ Unread(c) # None
<1> DEFINE k == Len(notices) - c.noticed
<1>1. c.noticed \in Nat /\ k \in Nat  BY Bounds DEF Conversation
<1>2. Unread(c) = From(c.noticed, k)  BY DEF Unread, From
<1> HIDE DEF k
<1>3. Len(From(c.noticed, k)) = k  BY <1>1, FromTyped
<1>4. Unread(c) \in Seq(Nat) /\ Unread(c) # None  BY UnreadTyped, TurnsAssumption
<1> QED  BY <1>2, <1>3, <1>4

LEMMA CallInitDoes ==
  ASSUME Typed, Telling, Orderly, NEW r \in Request, CallInit(r)
  PROVE  (\E q : Does(r, q)) /\ row' = row
<1> DEFINE p == req[r]
           c == p.c
           d == [c EXCEPT !.status = "streaming"]
           q == [p EXCEPT !.pc = "tool", !.call = 1, !.calls = 1, !.before = c,
                          !.init = Unread(c), !.ran = TRUE, !.c = d]
<1>1. /\ GoodWork(p, MaxHandle, handleSeq) /\ Right(p, MaxHandle) /\ Quoted(p)
      /\ p \in Work /\ c \in Conversation
  BY Holds
<1>2. /\ Running(r) /\ p.pc = "begin" /\ p.kind \in {"chat", "start"}
      /\ c.msgs = <<>> /\ UNCHANGED <<setup, row>>
  BY DEF CallInit, Running
<1>3. Become(r, q)
  <2>1. q = [p EXCEPT
       !.pc = "tool", !.call = 1, !.calls = 1, !.before = c,
       !.init = Unread(c), !.ran = TRUE, !.c.status = "streaming"]
    BY <1>1 DEF Work
  <2> QED  BY <2>1 DEF CallInit
<1>4. AtRest(c) /\ Quotes(c) /\ Clear(p)  BY <1>1, <1>2 DEF Right, Quoted
<1>5. c.pending = None
  <2>1. Len(c.msgs) = 0  BY <1>2
  <2>2. ~Answerable(c)
    <3> HIDE DEF c
    <3> QED  BY <2>1 DEF Answerable, Replied
  <2> HIDE DEF c
  <2> QED  BY <1>4, <2>2, RestParts
<1>6. c.noticed <= Len(notices)  BY <1>2, NoticedSoFar
<1>7. SameHistory(c, d) /\ d.status = "streaming"  BY <1>1, StatusIs
<1> HIDE DEF d
<1>8. Even(d) /\ Quotes(d) /\ \A b, n : Keeps(b, c, n) => Keeps(b, d, n)
  BY <1>4, <1>5, <1>7, RestsEven, SameOn
<1>9. /\ q.pc = "tool" /\ q.c = d /\ q.before = c /\ q.init = Unread(c) /\ q.kind = p.kind
      /\ q.token = p.token /\ q.results = p.results /\ q.asking = p.asking
      /\ q.asked = p.asked /\ q.parked = p.parked
  BY <1>1 DEF Work
<1> HIDE DEF q
<1>10. /\ Unread(c) = From(c.noticed, Len(Unread(c))) /\ Unread(c) # None
  BY <1>1, <1>6, UnreadIs
<1>11. InInit(q)
  BY <1>2, <1>4, <1>7, <1>8, <1>9 DEF InInit, Clear, SameHistory
<1>12. Right(q, MaxHandle)  BY <1>2, <1>4, <1>5, <1>9, <1>10, <1>11 DEF Right
<1>13. Quoted(q)
  BY <1>4, <1>7, <1>8, <1>9, <1>10 DEF Quoted, SameHistory
<1>14. \A b : Kept(b, p, MaxHandle) => Kept(b, q, MaxHandle)
  BY <1>8, <1>9, KeptOn
<1>15. GoesRight(p, q, MaxHandle)  BY <1>9, <1>12, <1>13, <1>14 DEF GoesRight
<1>16. \E x : Does(r, x)  BY <1>2, <1>3, <1>15, RightDoes
<1> QED  BY <1>2, <1>16

\* What is put back when it fails is that it asked nothing.
LEMMA InitFailsDoes ==
  ASSUME Typed, Orderly, NEW r \in Request, InitFails(r)
  PROVE  (\E q : Does(r, q)) /\ row' = row
<1> DEFINE p == req[r]
           c == p.c
           d == [c EXCEPT !.handles = p.before.handles, !.status = p.before.status]
<1>1. /\ GoodWork(p, MaxHandle, handleSeq) /\ Right(p, MaxHandle) /\ Quoted(p)
      /\ p \in Work /\ c \in Conversation
  BY Holds
<1>2. /\ Running(r) /\ p.pc = "tool" /\ p.init # None /\ UNCHANGED <<setup, row>>
      /\ Finish(r, d)
  BY DEF InitFails, Running
<1>3. Keeping(p) /\ p.kind # "click"  BY <1>1, <1>2 DEF Keeping, GoodWork
<1>4. Even(c) /\ AtRest(p.before) /\ p.before.pending = None /\ Quotes(c)
  BY <1>1, <1>2, <1>3 DEF Right, InInit, Quoted
<1>5. p.before.status # "awaiting"  BY <1>4, RestParts
<1>6. /\ d.status = p.before.status /\ d.msgs = c.msgs /\ d.pending = c.pending
      /\ d.frozen = c.frozen /\ d.superseded = c.superseded /\ d.noticed = c.noticed
  BY <1>1 DEF Conversation
<1> HIDE DEF d
<1>7. AtRest(d)  BY <1>4, <1>5, <1>6 DEF AtRest, Even
<1>8. Quotes(d)  BY <1>4, <1>6, QuotesSame
<1>9. \A b : Kept(b, p, MaxHandle) => Keeps(b, d, MaxHandle)
  BY <1>6, KeepsSame DEF Kept
<1> QED  BY <1>2, <1>7, <1>8, <1>9, Closing

\* A surface with no revision is the latest of itself.
LEMMA OwnLatest ==
  ASSUME NEW seq \in Nat, MaxHandle \in Nat, seq <= MaxHandle, NEW c, Good(c, MaxHandle, seq),
         NEW h, Revisable(c, h)
  PROVE  CurrentHandle(c, h) = h
<1>1. h \in 1 .. seq /\ h \notin Superseded(c)  BY DEF Good, Revisable
<1>2. LeadsTo(c, MaxHandle, h, h)  BY <1>1, LeadsItself
<1> QED  BY <1>2, LeadsToCurrent

LEMMA InitReturnsDoes ==
  ASSUME Typed, Orderly, NEW r \in Request, InitReturns(r)
  PROVE  (\E q : Does(r, q)) /\ row' = row
<1> DEFINE p == req[r]
           c == p.c
           said == Push(c, User({}, p.init))
           heard == TakenIn(said, c.noticed + Len(p.init))
           begun == Push(heard, Assistant({1}))
           asks == Parked(begun, 1, {}, CurrentHandle(c, p.asked))
           goes == Push(begun, User({<<1, 0>>}, <<>>))
<1>1. /\ GoodWork(p, MaxHandle, handleSeq) /\ Right(p, MaxHandle) /\ Quoted(p)
      /\ p \in Work /\ c \in Conversation /\ Good(c, MaxHandle, handleSeq)
      /\ MaxHandle \in Nat /\ handleSeq \in Nat /\ handleSeq <= MaxHandle
  BY Holds
<1>2. /\ Running(r) /\ p.pc = "tool" /\ p.init # None /\ UNCHANGED <<setup, row>>
  BY DEF InitReturns, Running
<1>3. p.init \in Seq(Nat) /\ p.kind \in {"chat", "start"}
  BY <1>1, <1>2 DEF Work, GoodWork
<1>4. /\ Even(c) /\ Quotes(c) /\ c.status # "awaiting" /\ c.pending = None
      /\ p.init = From(c.noticed, Len(p.init))
      /\ p.asked = p.asking /\ p.results = {} /\ p.parked = None
      /\ p.asking # 0 => Revisable(c, p.asking)
  BY <1>1, <1>2 DEF Right, InInit, Quoted, Even
<1>5. /\ {<<1, 0>>} \in SUBSET Numbers /\ {} \in SUBSET Numbers /\ {1} \in SUBSET Nat
      /\ Given({<<1, 0>>}) = {1} /\ Given({}) = {} /\ SettledIn({<<1, 0>>}) = {}
      /\ SettledIn({}) = {}
  BY DEF Numbers, Given, SettledIn
<1>6. /\ User({}, p.init) \in Message /\ Assistant({1}) \in Message
      /\ User({<<1, 0>>}, <<>>) \in Message
  <2>1. <<>> \in Seq(Nat)  BY EmptySeq
  <2> QED  BY <1>3, <1>5, <2>1, MessagesTyped
<1>7. /\ said \in Conversation /\ SameSurfaces(c, said)
      /\ said.msgs = Append(c.msgs, User({}, p.init)) /\ said.status = c.status
  <2>1. Good(said, MaxHandle, handleSeq)  BY <1>1, <1>6, Pushed
  <2>2. PICK m \in Message : m = User({}, p.init)  BY <1>6
  <2>3. said = Push(c, m)  BY <2>2
  <2> HIDE DEF said
  <2>4. SameSurfaces(c, said) /\ said.msgs = Append(c.msgs, m) /\ said.status = c.status
    BY <1>1, <2>3, PushIs
  <2> QED  BY <2>1, <2>2, <2>4 DEF Good
<1>8. c.noticed + Len(p.init) \in Nat /\ c.noticed \in Nat /\ Len(p.init) \in Nat
  BY <1>1, <1>3, LenProperties, SMTT(20) DEF Conversation
<1>9. /\ heard \in Conversation /\ SameSurfaces(said, heard) /\ heard.msgs = said.msgs
      /\ heard.noticed = c.noticed + Len(p.init) /\ heard.status = said.status
  <2> HIDE DEF said
  <2>1. heard \in Conversation  BY <1>7, <1>8 DEF TakenIn, Conversation
  <2>2. PICK n : n = c.noticed + Len(p.init)  OBVIOUS
  <2>3. heard = TakenIn(said, n)  BY <2>2
  <2> HIDE DEF heard
  <2> QED  BY <1>7, <2>1, <2>2, <2>3, TakenInIs
<1>10. Even(heard) /\ heard.pending = None /\ heard.frozen = c.frozen
  <2> HIDE DEF heard, said, c
  <2>1. heard.msgs = Append(c.msgs, User({}, p.init)) /\ heard.pending = None
        /\ heard.frozen = c.frozen
    BY <1>4, <1>7, <1>9 DEF SameSurfaces
  <2>2. PICK m \in Message : m = User({}, p.init)  BY <1>6
  <2>3. m.role = "user" /\ m.results = {}  BY <2>2 DEF User
  <2> QED  BY <1>1, <1>4, <2>1, <2>2, <2>3, EvenOn
<1>11. Quotes(heard)
  <2> HIDE DEF heard, said
  <2>1. PICK m \in Message : m = User({}, p.init)  BY <1>6
  <2>2. heard.msgs = Append(c.msgs, m)  BY <1>7, <1>9, <2>1
  <2>3. QuotedIn(m) = From(c.noticed, Len(p.init))  BY <1>4, <2>1 DEF QuotedIn, User
  <2>4. c.msgs \in Seq(Message) /\ QuotesOf(c.msgs) = From(0, c.noticed)
    BY <1>1, <1>4 DEF Conversation, Quotes
  <2>5. QuotesOf(heard.msgs) = From(0, c.noticed + Len(p.init))
    <3>1. PICK n \in Nat, k \in Nat, msgs \in Seq(Message) :
            n = c.noticed /\ k = Len(p.init) /\ msgs = c.msgs
      BY <1>8, <2>4
    <3>2. /\ heard.msgs = Append(msgs, m) /\ QuotedIn(m) = From(n, k)
          /\ QuotesOf(msgs) = From(0, n)
      BY <2>2, <2>3, <2>4, <3>1
    <3>3. m \in Message /\ n \in Nat /\ k \in Nat /\ msgs \in Seq(Message)  OBVIOUS
    <3>4. QuotesOf(Append(msgs, m)) = From(0, n + k)  BY ONLY <3>2, <3>3, QuotesOn
    <3> QED  BY <3>1, <3>2, <3>4
  <2> QED  BY <1>9, <2>5 DEF Quotes
<1>12. /\ begun \in Conversation /\ SameSurfaces(heard, begun) /\ begun.noticed = heard.noticed
       /\ begun.msgs = Append(heard.msgs, Assistant({1})) /\ begun.status = heard.status
  <2> HIDE DEF heard
  <2>1. PICK m \in Message : m = Assistant({1})  BY <1>6
  <2>2. begun = Push(heard, m)  BY <2>1
  <2>3. begun \in Conversation
    <3>1. Append(heard.msgs, m) \in Seq(Message)  BY <1>9 DEF Conversation
    <3> QED  BY <1>9, <2>2, <3>1 DEF Push, Conversation
  <2> HIDE DEF begun
  <2> QED  BY <1>9, <2>1, <2>2, <2>3, PushIs
<1> HIDE DEF said
<1>13. /\ Replied(begun.msgs, {1}) /\ Accounts(begun.msgs, begun.frozen, {})
       /\ Quotes(begun) /\ begun.pending = None /\ begun.frozen = c.frozen
       /\ begun.handles = c.handles /\ begun.superseded = c.superseded
  <2> HIDE DEF heard, begun
  <2>1. /\ begun.pending = None /\ begun.frozen = c.frozen /\ begun.frozen = heard.frozen
        /\ begun.handles = c.handles /\ begun.superseded = c.superseded
    BY <1>4, <1>7, <1>9, <1>12 DEF SameSurfaces
  <2>2. Replied(begun.msgs, {1}) /\ Accounts(begun.msgs, begun.frozen, {})
    BY <1>5, <1>9, <1>10, <1>12, <2>1, EvenReplied
  <2>3. Quotes(begun)  BY <1>5, <1>9, <1>11, <1>12, SaysNothing
  <2> QED  BY <2>1, <2>2, <2>3
<1> HIDE DEF heard
<1>14. CASE p.asked # 0
  <2>1. CurrentHandle(c, p.asked) = p.asked /\ Revisable(c, p.asked)
    <3>1. PICK h : h = p.asked  OBVIOUS
    <3>2. Revisable(c, h)  BY <1>4, <1>14, <3>1
    <3>3. CurrentHandle(c, h) = h  BY ONLY <1>1, <3>2, OwnLatest
    <3> QED  BY <3>1, <3>2, <3>3
  <2> HIDE DEF begun
  <2>2. PICK h : h = p.asked  OBVIOUS
  <2>3. asks = Parked(begun, 1, {}, h)  BY <2>1, <2>2
  <2> DEFINE q == [p EXCEPT !.pc = "context", !.c = asks]
  <2>4. Become(r, q)  BY <1>14 DEF InitReturns, Parked, Copy, begun, heard, said
  <2>5. /\ asks.handles = c.handles /\ asks.frozen = c.frozen /\ asks.superseded = c.superseded
        /\ asks.msgs = begun.msgs /\ asks.noticed = begun.noticed /\ asks.status = "awaiting"
        /\ asks.pending = [call |-> 1, results |-> {}, handle |-> h]
    <3>1. PICK call, results : call = 1 /\ results = {}  OBVIOUS
    <3>2. asks = Parked(begun, call, results, h)  BY <2>3, <3>1
    <3> HIDE DEF asks
    <3>3. /\ asks.handles = begun.handles /\ asks.frozen = begun.frozen
          /\ asks.superseded = begun.superseded
          /\ asks.msgs = begun.msgs /\ asks.noticed = begun.noticed /\ asks.status = "awaiting"
          /\ asks.pending = [call |-> call, results |-> results, handle |-> h]
      BY <1>12, <3>2, ParkedIs
    <3> QED  BY <1>13, <3>1, <3>3
  <2>6. /\ asks.pending # None /\ asks.pending.call = 1 /\ asks.pending.results = {}
        /\ asks.pending.handle = h
    <3>1. h \in Nat  BY <1>1, <2>2 DEF Work
    <3>2. [call |-> 1, results |-> {}, handle |-> h]
            \in [call : Nat, results : SUBSET (Nat \X Nat), handle : Nat]
      BY <3>1
    <3> HIDE DEF asks
    <3> QED  BY <2>5, <3>2, TurnsAssumption
  <2>7. /\ q.pc = "context" /\ q.c = asks /\ q.kind = p.kind /\ q.token = p.token
        /\ q.before = p.before
    BY <1>1 DEF Work
  <2> HIDE DEF asks, q
  <2>8. Answerable(asks)
    <3>1. Revisable(asks, h)  BY <2>1, <2>2, <2>5 DEF Revisable, Superseded
    <3>2. /\ {1} \union Given({}) = {1} /\ 1 \notin Given({}) /\ SettledIn({}) = {}
      BY <1>5
    <3> QED  BY <1>13, <2>5, <2>6, <3>1, <3>2 DEF Answerable
  <2>9. AtRest(asks) /\ Quotes(asks)  BY <1>13, <2>5, <2>8, QuotesSame DEF AtRest
  <2>10. ~Keeping(q)  BY <1>3, <2>7 DEF Keeping
  <2>11. Right(q, MaxHandle) /\ Quoted(q)  BY <2>7, <2>9, <2>10 DEF Right, Quoted
  <2>12. \A b : Keeps(b, c, MaxHandle) => Keeps(b, asks, MaxHandle)
    BY <1>4, <2>5, KeepsSettled
  <2>13. \A b : Kept(b, p, MaxHandle) => Kept(b, q, MaxHandle)
    BY <2>7, <2>10, <2>12, KeptOn
  <2>14. GoesRight(p, q, MaxHandle)  BY <2>7, <2>11, <2>13 DEF GoesRight
  <2>15. \E x : Does(r, x)  BY <1>2, <2>4, <2>14, RightDoes
  <2> QED  BY <1>2, <2>15
<1>15. CASE p.asked = 0
  <2> DEFINE q == [p EXCEPT !.pc = "commit", !.c = goes]
  <2>1. Become(r, q)  BY <1>15 DEF InitReturns, Copy, begun, heard, said
  <2> HIDE DEF begun
  <2>2. /\ SameSurfaces(begun, goes) /\ goes.msgs = Append(begun.msgs, User({<<1, 0>>}, <<>>))
        /\ goes.noticed = begun.noticed /\ goes.status = begun.status
    <3>1. PICK m : m = User({<<1, 0>>}, <<>>)  OBVIOUS
    <3>2. goes = Push(begun, m)  BY <3>1
    <3> HIDE DEF goes
    <3> QED  BY <1>12, <3>1, <3>2, PushIs
  <2>3. /\ q.pc = "commit" /\ q.c = goes /\ q.kind = p.kind /\ q.token = p.token
        /\ q.before = p.before /\ q.results = p.results /\ q.asking = p.asking
        /\ q.asked = p.asked /\ q.parked = p.parked
    BY <1>1 DEF Work
  <2> HIDE DEF goes, q
  <2>4. goes.pending = None /\ goes.frozen = begun.frozen
    BY <1>13, <2>2 DEF SameSurfaces
  <2>5. Even(goes)
    <3>1. PICK results \in SUBSET Numbers : results = {<<1, 0>>}  BY <1>5
    <3>2. /\ Replied(begun.msgs, Given(results)) /\ Accounts(begun.msgs, begun.frozen, SettledIn(results))
          /\ goes.msgs = Append(begun.msgs, User(results, <<>>))
      BY <1>5, <1>13, <2>2, <3>1
    <3>3. begun \in Conversation  BY <1>12
    <3> QED  BY ONLY <2>4, <3>2, <3>3, RepliedEven
  <2>6. goes.status # "awaiting"  BY <1>4, <1>7, <1>9, <1>12, <2>2
  <2>7. AtRest(goes)  BY <2>5, <2>6 DEF AtRest
  <2>8. Quotes(goes)
    <3>1. PICK results \in SUBSET Numbers : results = {<<1, 0>>}  BY <1>5
    <3>2. goes.msgs = Append(begun.msgs, User(results, <<>>)) /\ {} \in SUBSET Nat
      BY <2>2, <3>1
    <3> QED  BY <1>12, <1>13, <2>2, <3>2, SaysNothing
  <2>9. ~Keeping(q) /\ Clear(q)
    <3>1. ~Keeping(q)  BY <1>3, <2>3 DEF Keeping
    <3>2. p.asking = 0  BY <1>4, <1>15
    <3>3. Clear(q)  BY <1>4, <1>15, <2>3, <3>2 DEF Clear
    <3> QED  BY <3>1, <3>3
  <2>10. Right(q, MaxHandle) /\ Quoted(q)
    BY <2>3, <2>4, <2>7, <2>8, <2>9 DEF Right, Quoted
  <2>11. \A b : Keeps(b, c, MaxHandle) => Keeps(b, goes, MaxHandle)
    BY <1>4, <1>13, <2>4, KeepsSettled
  <2>12. \A b : Kept(b, p, MaxHandle) => Kept(b, q, MaxHandle)
    BY <2>3, <2>9, <2>11, KeptOn
  <2>13. GoesRight(p, q, MaxHandle)  BY <2>3, <2>10, <2>12 DEF GoesRight
  <2>14. \E x : Does(r, x)  BY <1>2, <2>1, <2>13, RightDoes
  <2> QED  BY <1>2, <2>14
<1> QED  BY <1>14, <1>15

-----------------------------------------------------------------------------
(* A click, a wake turn and a revision                                      *)

\* What is about to be committed asks nothing, and is kept with what a failure
\* puts back: the copy as it was.
LEMMA Committing ==
  ASSUME Typed, Orderly, NEW r \in Request, Running(r), req[r].pc = "begin",
         UNCHANGED setup, NEW q, Become(r, q), q.pc = "commit", q.kind = req[r].kind,
         q.kind # "update", q.token = req[r].token,
         q.results = req[r].results, q.asking = req[r].asking, q.asked = req[r].asked,
         q.parked = req[r].parked, q.before = req[r].c, q.kind # "click" => q.before.pending = None,
         Even(q.c), q.c.status # "awaiting", Quotes(q.c),
         req[r].c.pending # None => req[r].c.pending.handle \in q.c.frozen,
         req[r].c.frozen \subseteq q.c.frozen
  PROVE  \E x : Does(r, x)
<1> DEFINE p == req[r]
<1>1. Right(p, MaxHandle) /\ Quoted(p)  BY Holds
<1>2. AtRest(p.c) /\ Quotes(p.c) /\ Clear(p)  BY <1>1 DEF Right, Quoted
<1>3. AtRest(q.c) /\ q.c.pending = None  BY DEF AtRest, Even
<1>4. Clear(q)  BY <1>2 DEF Clear
<1>5. Right(q, MaxHandle)  BY <1>2, <1>3, <1>4 DEF Right
<1>6. Quoted(q)  BY <1>2 DEF Quoted
<1>7. \A b : Kept(b, p, MaxHandle) => Kept(b, q, MaxHandle)
  <2> TAKE b
  <2> HAVE Kept(b, p, MaxHandle)
  <2>1. p.c.pending = b.pending /\ Keeps(b, p.c, MaxHandle)  BY DEF Kept
  <2>2. Keeps(b, q.c, MaxHandle)  BY <2>1 DEF Keeps
  <2> QED  BY <2>1, <2>2 DEF Kept
<1>8. GoesRight(p, q, MaxHandle)  BY <1>5, <1>6, <1>7 DEF GoesRight
<1> QED  BY <1>8, RightDoes

LEMMA ClickDoes ==
  ASSUME Typed, Telling, Orderly, NEW r \in Request, NEW h \in Handle, Click(r, h)
  PROVE  (\E q : Does(r, q)) /\ row' = row
<1> DEFINE p == req[r]
           c == p.c
           u == Unread(c)
           resolve == Answered(c, u)
           inform == Push(c, User({}, u))
<1>1. /\ Right(p, MaxHandle) /\ Quoted(p) /\ Good(c, MaxHandle, handleSeq)
      /\ p \in Work /\ c \in Conversation /\ handleSeq \in Nat
  BY Holds
<1>2. /\ Running(r) /\ p.pc = "begin" /\ p.kind = "click" /\ UNCHANGED <<setup, row>>
  BY DEF Click, Running
<1>3. AtRest(c) /\ Quotes(c)  BY <1>1, <1>2 DEF Right, Quoted
<1>4. u \in Seq(Nat) /\ c.noticed <= Len(notices)  BY <1>1, <1>2, UnreadTyped, NoticedSoFar
<1>5. ASSUME NEW d, Become(r, [p EXCEPT !.pc = "commit", !.before = c, !.c = d]),
             Even(d), d.status # "awaiting", Quotes(d),
             c.pending # None => c.pending.handle \in d.frozen,
             c.frozen \subseteq d.frozen
      PROVE  \E x : Does(r, x)
  <2> DEFINE q == [p EXCEPT !.pc = "commit", !.before = c, !.c = d]
  <2>1. /\ q.pc = "commit" /\ q.kind = p.kind /\ q.token = p.token /\ q.results = p.results
        /\ q.asking = p.asking /\ q.asked = p.asked /\ q.parked = p.parked
        /\ q.before = c /\ q.c = d
    BY <1>1 DEF Work
  <2>2. Become(r, q)  BY <1>5
  <2> HIDE DEF q
  <2> QED  BY <1>2, <1>5, <2>1, <2>2, Committing
<1>6. CASE c.pending # None
  <2> DEFINE results == c.pending.results \union {<<c.pending.call, c.pending.handle>>}
             taken == TakenIn(resolve, Len(notices))
             d == [taken EXCEPT !.status = "idle"]
  <2>1. Answerable(c) /\ c.pending \in Question  BY <1>1, <1>3, <1>6, RestParts DEF Conversation
  <2>2. PICK a : a = resolve  OBVIOUS
  <2>3. Even(a) /\ a \in Conversation
    BY <1>1, <1>4, <1>6, <2>1, <2>2, EvenAnswered, AnsweredGood DEF Good
  <2>4. a.msgs = Append(c.msgs, User(results, u)) /\ a.frozen = c.frozen \union {c.pending.handle}
    <3> DEFINE m == User(results, u)
    <3>1. PICK b, v, w : b = c /\ v = u /\ w = m  OBVIOUS
    <3>2. /\ b \in Conversation /\ a = Answered(b, v)
          /\ w = User(b.pending.results \union {<<b.pending.call, b.pending.handle>>}, v)
      BY <1>1, <2>2, <3>1
    <3>3. a.msgs = Append(b.msgs, w) /\ a.frozen = b.frozen \union {b.pending.handle}
      BY ONLY <3>2, AnsweredIs
    <3> QED  BY <3>1, <3>3
  <2>5. d = [TakenIn(a, Len(notices)) EXCEPT !.status = "idle"]  BY <2>2
  <2>6. Become(r, [p EXCEPT !.pc = "commit", !.before = c, !.c = d])  BY <1>6 DEF Click
  <2> DEFINE t == TakenIn(a, Len(notices))
  <2>7. /\ t \in Conversation /\ SameSurfaces(a, t) /\ t.msgs = a.msgs
        /\ t.noticed = Len(notices)
    BY <2>3, Bounds, TakenInIs DEF TakenIn, Conversation
  <2> HIDE DEF t, d
  <2>8. SameHistory(t, d) /\ d.status = "idle"  BY <2>5, <2>7, StatusIs DEF t
  <2>9. Even(d) /\ d.frozen = c.frozen \union {c.pending.handle}
    <3>1. Even(t)  BY <2>3, <2>7 DEF Even, SameSurfaces
    <3> QED  BY <2>4, <2>7, <2>8, <3>1, SameOn DEF SameHistory, SameSurfaces
  <2>10. Quotes(d)
    <3>1. d.noticed = Len(notices) /\ d.msgs = Append(c.msgs, User(results, u))
      BY <2>4, <2>7, <2>8 DEF SameHistory
    <3>2. results \in SUBSET Numbers  BY <2>1 DEF Question, Numbers
    <3>3. c.msgs \in Seq(Message) /\ QuotesOf(c.msgs) = From(0, c.noticed)
      BY <1>1, <1>3 DEF Conversation, Quotes
    <3> HIDE DEF results, c
    <3> QED  BY <1>1, <1>4, <3>1, <3>2, <3>3, QuotesRest
  <2>11. \E x : Does(r, x)  BY <1>5, <2>6, <2>8, <2>9, <2>10
  <2> QED  BY <1>2, <2>11
<1>7. CASE c.pending = None
  <2> DEFINE d == TakenIn(inform, Len(notices))
  <2>1. Become(r, [p EXCEPT !.pc = "commit", !.before = c, !.c = d])
    BY <1>7 DEF Click
  <2>2. Even(c) /\ c.status # "awaiting"  BY <1>3, <1>7, RestParts
  <2>3. /\ inform \in Conversation /\ SameSurfaces(c, inform) /\ inform.status = c.status
        /\ inform.msgs = Append(c.msgs, User({}, u))
    <3>1. PICK m \in Message : m = User({}, u)  BY <1>4, MessagesTyped
    <3>2. inform = Push(c, m)  BY <3>1
    <3> HIDE DEF inform
    <3>3. inform \in Conversation  BY <1>1, <3>2, Pushed DEF Good
    <3>4. /\ SameSurfaces(c, inform) /\ inform.status = c.status
          /\ inform.msgs = Append(c.msgs, m)
      BY ONLY <1>1, <3>2, PushIs
    <3> QED  BY <3>1, <3>3, <3>4
  <2> HIDE DEF inform
  <2>4. /\ SameSurfaces(inform, d) /\ d.msgs = inform.msgs /\ d.noticed = Len(notices)
        /\ d.status = inform.status
    BY <2>3, TakenInIs
  <2> HIDE DEF d
  <2>5. d.msgs = Append(c.msgs, User({}, u)) /\ d.pending = None /\ d.frozen = c.frozen
    BY <1>7, <2>3, <2>4 DEF SameSurfaces
  <2>6. Even(d) /\ Quotes(d)  BY <1>1, <1>3, <1>4, <2>2, <2>4, <2>5, SaysUnread
  <2>7. \E x : Does(r, x)  BY <1>5, <1>7, <2>1, <2>2, <2>3, <2>4, <2>5, <2>6
  <2> QED  BY <1>2, <2>7
<1> QED  BY <1>6, <1>7

LEMMA WakeDoes ==
  ASSUME Typed, Telling, Orderly, NEW r \in Request, Wake(r)
  PROVE  (\E q : Does(r, q)) /\ row' = row
<1> DEFINE p == req[r]
           c == p.c
           woken == [c EXCEPT !.woke = NewestWake(c), !.wakeTurns = c.wakeTurns + 1]
           pushed == Push(woken, User({}, Unread(c)))
           d == TakenIn(pushed, Len(notices))
           wakes == {n \in UnreadWakes(c) : n > c.woke}
           q == [req[r] EXCEPT !.pc = "commit", !.before = c, !.wakes = wakes, !.c = d]
<1>1. /\ Right(p, MaxHandle) /\ Quoted(p) /\ Good(c, MaxHandle, handleSeq)
      /\ p \in Work /\ c \in Conversation
  BY Holds
<1>2. /\ Running(r) /\ p.pc = "begin" /\ p.kind = "wake" /\ UNCHANGED <<setup, row>>
      /\ c.status # "awaiting" /\ Become(r, q)
  BY DEF Wake, MayWake, Running
<1>3. AtRest(c) /\ Quotes(c)  BY <1>1, <1>2 DEF Right, Quoted
<1>4. c.pending = None /\ Even(c)  BY <1>2, <1>3, RestParts
<1>5. Unread(c) \in Seq(Nat) /\ c.noticed <= Len(notices)
  BY <1>1, <1>2, UnreadTyped, NoticedSoFar
<1>6. woken \in Conversation /\ SameHistory(c, woken) /\ woken.status = c.status
  <2>1. NewestWake(c) \in Nat  BY <1>1, NewestIsNewest DEF Typed
  <2>2. c.wakeTurns + 1 \in Nat  BY <1>1 DEF Conversation
  <2> QED  BY <1>1, <2>1, <2>2 DEF Conversation, SameHistory, SameSurfaces
<1> HIDE DEF woken
<1>7. /\ pushed \in Conversation /\ SameSurfaces(woken, pushed) /\ pushed.status = woken.status
      /\ pushed.msgs = Append(woken.msgs, User({}, Unread(c)))
  <2>1. PICK m \in Message : m = User({}, Unread(c))  BY <1>5, MessagesTyped
  <2>2. pushed = Push(woken, m)  BY <2>1
  <2>3. pushed \in Conversation
    <3>1. Append(woken.msgs, m) \in Seq(Message)  BY <1>6 DEF Conversation
    <3> QED  BY <1>6, <2>2, <3>1 DEF Push, Conversation
  <2> HIDE DEF pushed
  <2> QED  BY <1>6, <2>1, <2>2, <2>3, PushIs
<1> HIDE DEF pushed
<1>8. /\ SameSurfaces(pushed, d) /\ d.msgs = pushed.msgs /\ d.noticed = Len(notices)
      /\ d.status = pushed.status
  BY <1>7, TakenInIs
<1> HIDE DEF d
<1>9. /\ q.pc = "commit" /\ q.kind = p.kind /\ q.token = p.token /\ q.results = p.results
      /\ q.asking = p.asking /\ q.asked = p.asked /\ q.parked = p.parked
      /\ q.before = c /\ q.c = d
  BY <1>1 DEF Work
<1> HIDE DEF q
<1>10. d.msgs = Append(c.msgs, User({}, Unread(c))) /\ d.pending = None /\ d.frozen = c.frozen
  BY <1>4, <1>6, <1>7, <1>8 DEF SameHistory, SameSurfaces
<1>11. Even(d) /\ Quotes(d)  BY <1>1, <1>3, <1>4, <1>5, <1>8, <1>10, SaysUnread
<1>12. \E x : Does(r, x)
  <2>1. d.status # "awaiting"  BY <1>2, <1>6, <1>7, <1>8
  <2> QED  BY <1>2, <1>4, <1>9, <1>10, <1>11, <2>1, Committing
<1> QED  BY <1>2, <1>12

\* A surface has been revised, and a question on it moved.
LEMMA RevisedRests ==
  ASSUME NEW n \in Nat, NEW seq \in Nat, seq < n, NEW c, Good(c, n, seq), AtRest(c), Quotes(c),
         NEW old \in (1 .. seq) \ Superseded(c), NEW outside \in BOOLEAN,
         NEW d, d.msgs = c.msgs, d.noticed = c.noticed, d.status = c.status,
         d.frozen = c.frozen, d.handles = c.handles \union {seq + 1},
         d.superseded = c.superseded
           \union {[old |-> old, new |-> seq + 1, outside |-> outside]},
         Superseded(d) = Superseded(c) \union {old},
         \/ d.pending = c.pending /\ ~(c.pending # None /\ c.pending.handle = old)
         \/ /\ c.pending # None /\ c.pending.handle = old
            /\ d.pending # None /\ d.pending.call = c.pending.call
            /\ d.pending.results = c.pending.results /\ d.pending.handle = seq + 1
  PROVE  AtRest(d) /\ Quotes(d) /\ Keeps(c, d, n)
<1>1. Quotes(d)  BY QuotesSame
<1>2. CASE c.pending = None
  <2>1. d.pending = None  BY <1>2
  <2>2. Even(c)  BY <1>2, RestParts
  <2>3. Even(d)  BY <2>1, <2>2 DEF Even
  <2>4. d.status # "awaiting"  BY <1>2, RestParts
  <2>5. Keeps(c, d, n)  BY <1>2 DEF Keeps
  <2> QED  BY <1>1, <2>3, <2>4, <2>5 DEF AtRest
<1>3. CASE c.pending # None
  <2> DEFINE h == c.pending.handle
  <2>1. Answerable(c) /\ c.status = "awaiting"  BY <1>3, RestParts
  <2>2. Revisable(c, h)  BY <2>1 DEF Answerable
  <2>3. h \in 1 .. seq /\ h \notin Superseded(c) /\ h \notin c.frozen /\ h \in c.handles
        /\ c.frozen \subseteq 1 .. seq
    BY <1>3, <2>2 DEF Revisable, Good
  <2>4. \A x \in Superseded(c) : x \in 1 .. seq
    BY DEF Good, Single, Superseded
  <2>5. LeadsTo(c, n, h, h)
    <3> HIDE DEF h
    <3>1. seq <= n  OBVIOUS
    <3> QED  BY <2>3, <3>1, LeadsItself
  <2>6. (h = old => LeadsTo(d, n, h, seq + 1)) /\ (h # old => LeadsTo(d, n, h, h))
    <3> HIDE DEF h
    <3> QED  BY <2>3, <2>5, LeadsOn
  <2>7. /\ d.pending # None /\ d.pending.call = c.pending.call
        /\ d.pending.results = c.pending.results
        /\ h = old => d.pending.handle = seq + 1
        /\ h # old => d.pending.handle = h
    BY <1>3
  <2>8. Revisable(d, d.pending.handle)
    <3>1. seq + 1 \notin 1 .. seq /\ seq + 1 \in Nat  OBVIOUS
    <3>2. CASE h = old
      <4>1. seq + 1 \notin Superseded(d)  BY <2>4, <3>1
      <4> QED  BY <2>3, <2>7, <3>1, <3>2, <4>1 DEF Revisable
    <3>3. CASE h # old
      <4> QED  BY <2>3, <2>7, <3>3 DEF Revisable
    <3> QED  BY <3>2, <3>3
  <2>9. Answerable(d)  BY <2>1, <2>7, <2>8 DEF Answerable
  <2>10. Keeps(c, d, n)  BY <2>6, <2>7 DEF Keeps
  <2> QED  BY <1>1, <2>1, <2>9, <2>10 DEF AtRest
<1> QED  BY <1>2, <1>3

LEMMA RevisedIs ==
  ASSUME NEW c \in Conversation, NEW old \in Nat, NEW new \in Nat, NEW outside \in BOOLEAN,
         NEW d, d = Revised(c, old, new, outside)
  PROVE  /\ d \in Conversation
         /\ d.msgs = c.msgs /\ d.noticed = c.noticed /\ d.status = c.status
         /\ d.frozen = c.frozen /\ d.handles = c.handles \union {new} /\ d.pending = c.pending
         /\ d.superseded = c.superseded \union {[old |-> old, new |-> new, outside |-> outside]}
         /\ Superseded(d) = Superseded(c) \union {old}
<1> DEFINE rec == [old |-> old, new |-> new, outside |-> outside]
<1>1. rec.old = old /\ rec \in Revision  BY DEF Revision
<1> HIDE DEF rec
<1>2. d = [c EXCEPT !.handles = c.handles \union {new}, !.superseded = c.superseded \union {rec}]
  <2>1. d = [Shown(c, new) EXCEPT !.superseded = @ \union {rec}]  BY DEF Revised, rec
  <2> QED  BY <2>1 DEF Shown, Conversation
<1>3. c.handles \union {new} \in SUBSET Nat /\ c.superseded \union {rec} \in SUBSET Revision
  BY <1>1 DEF Conversation
<1>4. d \in Conversation  BY <1>2, <1>3 DEF Conversation
<1>5. /\ d.msgs = c.msgs /\ d.noticed = c.noticed /\ d.status = c.status
      /\ d.frozen = c.frozen /\ d.handles = c.handles \union {new} /\ d.pending = c.pending
      /\ d.superseded = c.superseded \union {rec}
  BY <1>2 DEF Conversation
<1>6. Superseded(d) = Superseded(c) \union {old}  BY <1>1, <1>5 DEF Superseded
<1> QED  BY <1>4, <1>5, <1>6 DEF rec

LEMMA ReviseDoes ==
  ASSUME Typed, Orderly, NEW r \in Request, NEW h \in Handle, NEW wake \in BOOLEAN,
         Revise(r, h, wake)
  PROVE  (\E q : Does(r, q)) /\ row' = row
<1> DEFINE p == req[r]
           c == p.c
           old == CurrentHandle(c, h)
           new == handleSeq + 1
           d == Revised(c, old, new, TRUE)
           moved == QuestionMoved(d, old, new)
           note == UpdateNotice(old, new, wake)
           f == [moved EXCEPT !.announcing = note]
           q == [p EXCEPT !.pc = "commit", !.c = f]
<1>1. /\ Right(p, MaxHandle) /\ Quoted(p) /\ Good(c, MaxHandle, handleSeq)
      /\ p \in Work /\ c \in Conversation
      /\ MaxHandle \in Nat /\ handleSeq \in Nat /\ handleSeq <= MaxHandle
  BY Holds
<1>2. /\ Running(r) /\ p.pc = "begin" /\ p.kind = "update" /\ UNCHANGED <<setup, row>>
      /\ h \in c.handles /\ handleSeq < MaxHandle /\ Become(r, q)
  BY DEF Revise, Running, Copy
<1>3. AtRest(c) /\ Quotes(c) /\ Clear(p)  BY <1>1, <1>2 DEF Right, Quoted
<1>4. h \in 1 .. handleSeq  BY <1>1, <1>2 DEF Good
<1>5. old \in (1 .. handleSeq) \ Superseded(c)  BY <1>1, <1>4, CurrentIsLatest
<1> HIDE DEF old
<1>6. new \in Nat /\ old \in Nat  BY <1>1, <1>5
<1>7. /\ d \in Conversation
      /\ d.msgs = c.msgs /\ d.noticed = c.noticed /\ d.status = c.status
      /\ d.frozen = c.frozen /\ d.handles = c.handles \union {new} /\ d.pending = c.pending
      /\ d.superseded = c.superseded \union {[old |-> old, new |-> new, outside |-> TRUE]}
      /\ Superseded(d) = Superseded(c) \union {old}
  <2>1. PICK outside \in BOOLEAN : outside = TRUE  OBVIOUS
  <2>2. d = Revised(c, old, new, outside)  BY <2>1
  <2> HIDE DEF d, new, c
  <2>3. c \in Conversation /\ outside \in BOOLEAN  BY <1>1
  <2>4. /\ d \in Conversation
        /\ d.msgs = c.msgs /\ d.noticed = c.noticed /\ d.status = c.status
        /\ d.frozen = c.frozen /\ d.handles = c.handles \union {new} /\ d.pending = c.pending
        /\ d.superseded = c.superseded \union {[old |-> old, new |-> new, outside |-> outside]}
        /\ Superseded(d) = Superseded(c) \union {old}
    BY ONLY <1>6, <2>2, <2>3, RevisedIs
  <2> QED  BY <2>1, <2>4
<1> HIDE DEF d
<1>8. /\ moved.msgs = d.msgs /\ moved.noticed = d.noticed /\ moved.status = d.status
      /\ moved.frozen = d.frozen /\ moved.handles = d.handles
      /\ moved.superseded = d.superseded
      /\ \/ moved.pending = d.pending /\ ~(d.pending # None /\ d.pending.handle = old)
         \/ /\ d.pending # None /\ d.pending.handle = old
            /\ moved.pending = [d.pending EXCEPT !.handle = new]
  <2>1. d \in Conversation  BY <1>7
  <2>2. CASE d.pending # None /\ d.pending.handle = old
    <3>1. moved = [d EXCEPT !.pending = [d.pending EXCEPT !.handle = new]]
      BY <2>2 DEF QuestionMoved
    <3> HIDE DEF moved
    <3> QED  BY <2>1, <2>2, <3>1 DEF Conversation
  <2>3. CASE ~(d.pending # None /\ d.pending.handle = old)
    <3>1. moved = d  BY <2>3 DEF QuestionMoved
    <3> HIDE DEF moved
    <3> QED  BY <2>3, <3>1
  <2> QED  BY <2>2, <2>3
<1>9. moved \in Conversation
  <2>1. d.pending # None => [d.pending EXCEPT !.handle = new] \in Question
    BY <1>6, <1>7 DEF Conversation, Question
  <2> HIDE DEF new
  <2> QED  BY <1>7, <2>1 DEF QuestionMoved, Conversation
<1> HIDE DEF moved, note
<1>10. /\ f.msgs = c.msgs /\ f.noticed = c.noticed /\ f.status = c.status
       /\ f.frozen = c.frozen /\ f.handles = c.handles \union {new}
       /\ f.superseded = c.superseded \union {[old |-> old, new |-> new, outside |-> TRUE]}
       /\ f.pending = moved.pending
  BY <1>7, <1>8, <1>9 DEF Conversation
<1>11. Superseded(f) = Superseded(c) \union {old}
  BY <1>7, <1>10 DEF Superseded
<1>12. \/ f.pending = c.pending /\ ~(c.pending # None /\ c.pending.handle = old)
       \/ /\ c.pending # None /\ c.pending.handle = old
          /\ f.pending # None /\ f.pending.call = c.pending.call
          /\ f.pending.results = c.pending.results /\ f.pending.handle = new
  <2>1. CASE c.pending # None /\ c.pending.handle = old
    <3>1. c.pending \in Question  BY <1>1, <2>1 DEF Conversation
    <3>2. f.pending = [c.pending EXCEPT !.handle = new]  BY <1>7, <1>8, <1>10, <2>1
    <3>3. new \in Nat  BY <1>1
    <3> HIDE DEF f, c, new
    <3>4. PICK k \in Question : k = c.pending  BY <3>1
    <3>5. f.pending = [call |-> k.call, results |-> k.results, handle |-> new]
      BY <3>2, <3>4 DEF Question
    <3>6. [call |-> k.call, results |-> k.results, handle |-> new]
             \in [call : Nat, results : SUBSET (Nat \X Nat), handle : Nat]
      BY <3>3 DEF Question, Numbers
    <3>7. f.pending # None  BY <3>5, <3>6, TurnsAssumption
    <3> QED  BY <2>1, <3>4, <3>5, <3>7
  <2>2. CASE ~(c.pending # None /\ c.pending.handle = old)  BY <1>7, <1>8, <1>10, <2>2
  <2> QED  BY <2>1, <2>2
<1> HIDE DEF f
<1>13. AtRest(f) /\ Quotes(f) /\ Keeps(c, f, MaxHandle)
  BY <1>1, <1>2, <1>3, <1>5, <1>10, <1>11, <1>12, RevisedRests
<1>14. /\ q.pc = "commit" /\ q.kind = "update" /\ q.token = p.token /\ q.results = p.results
       /\ q.asking = p.asking /\ q.asked = p.asked /\ q.parked = p.parked /\ q.c = f
  BY <1>1, <1>2 DEF Work
<1> HIDE DEF q
<1>15. ~Keeping(q) /\ Clear(q)  BY <1>3, <1>14 DEF Keeping, Clear
<1>16. Right(q, MaxHandle) /\ Quoted(q)  BY <1>13, <1>14, <1>15 DEF Right, Quoted
<1>17. \A b : Kept(b, p, MaxHandle) => Kept(b, q, MaxHandle)
  <2> TAKE b
  <2> HAVE Kept(b, p, MaxHandle)
  <2>1. c.pending = b.pending  BY <1>2 DEF Kept
  <2>2. Keeps(b, f, MaxHandle)  BY <1>13, <2>1 DEF Keeps
  <2> QED  BY <1>14, <1>15, <2>2 DEF Kept
<1>18. GoesRight(p, q, MaxHandle)  BY <1>2, <1>14, <1>16, <1>17 DEF GoesRight
<1>19. \E x : Does(r, x)  BY <1>2, <1>18, RightDoes
<1> QED  BY <1>2, <1>19

-----------------------------------------------------------------------------
(* The calls of a reply                                                     *)

\* What a turn may put back is right.
BeforeRight(q) ==
  Keeping(q) => /\ AtRest(q.before) /\ Quotes(q.before)
                /\ q.kind # "click" => q.before.pending = None

\* The next call of the reply, or what comes after its last.
LEMMA CallDoneRight ==
  ASSUME Typed, NEW seq \in Nat, seq <= MaxHandle, NEW q, GoodWork(q, MaxHandle, seq),
         q.pc = "tool", q.init = None, Counted(q, MaxHandle, q.call),
         Quotes(q.c), BeforeRight(q)
  PROVE  GoesRight(q, CallDone(q), MaxHandle)
<1> DEFINE next == [q EXCEPT !.call = q.call + 1, !.asked = 0]
           none == [q EXCEPT !.asked = 0]
           told == Push(q.c, User(q.results, <<>>))
<1>0. /\ q \in Work /\ Good(q.c, MaxHandle, seq) /\ MaxHandle \in Nat /\ q.c \in Conversation
      /\ q.call \in Nat /\ q.calls \in Nat /\ q.results \in SUBSET Numbers
  BY Bounds DEF GoodWork, Good, Work
<1>c. /\ q.c.pending = None /\ q.c.status # "awaiting"
      /\ Accounts(q.c.msgs, q.c.frozen, SettledIn(q.results))
      /\ Replied(q.c.msgs, 1 .. q.calls) /\ q.call \in 1 .. q.calls
  BY DEF Counted
<1>1. CASE q.call < q.calls
  <2>1. CallDone(q) = next  BY <1>1 DEF CallDone
  <2>2. /\ next.pc = "tool" /\ next.kind = q.kind /\ next.c = q.c /\ next.before = q.before
        /\ next.asking = q.asking /\ next.asked = 0 /\ next.parked = q.parked
        /\ next.init = None /\ next.token = q.token /\ next.call = q.call + 1
        /\ next.calls = q.calls /\ next.results = q.results
    BY <1>0 DEF Work
  <2> HIDE DEF next
  <2>3. next.call - 1 = q.call /\ next.call \in 1 .. next.calls
    BY <1>0, <1>1, <1>c, <2>2
  <2>4. Counted(next, MaxHandle, q.call)  BY <2>2, <2>3 DEF Counted
  <2>5. InReply(next, MaxHandle)  BY <2>2, <2>3, <2>4 DEF InReply
  <2>6. Keeping(next) => Keeping(q)  BY <2>2 DEF Keeping
  <2>7. Right(next, MaxHandle) /\ Quoted(next)
    BY <2>2, <2>5, <2>6 DEF Right, Quoted, BeforeRight
  <2>8. \A b : Kept(b, q, MaxHandle) => Kept(b, next, MaxHandle)  BY <2>2, <2>6, KeptOn
  <2>9. GoesRight(q, next, MaxHandle)  BY <2>2, <2>7, <2>8 DEF GoesRight
  <2> QED  BY <2>1, <2>9
<1>2. CASE ~(q.call < q.calls) /\ q.parked # None
  <2> DEFINE h == CurrentHandle(q.c, q.parked.handle)
             d == Parked(q.c, q.parked.call, q.results, h)
             x == CallDone(q)
  <2>1. CallDone(q) = [q EXCEPT !.pc = "context", !.asked = 0,
          !.c.status = "awaiting",
          !.c.pending = [call |-> q.parked.call, results |-> q.results, handle |-> h]]
    BY <1>2 DEF CallDone
  <2>2. /\ x.pc = "context" /\ x.kind = q.kind /\ x.before = q.before /\ x.token = q.token
        /\ x.c = d
    <3> HIDE DEF h
    <3> QED  BY <1>0, <2>1 DEF Work, Conversation, Parked
  <2>3. /\ Given(q.results) \union {q.parked.call} = 1 .. q.call
        /\ q.parked.call \notin Given(q.results)
        /\ q.asking # 0 /\ LeadsTo(q.c, MaxHandle, q.parked.handle, q.asking)
        /\ Revisable(q.c, q.asking)
    BY <1>2 DEF Counted
  <2>4. h = q.asking  BY <1>0, <2>3, LeadsToCurrent
  <2>5. q.call = q.calls  BY <1>0, <1>2, <1>c
  <2> HIDE DEF x, h
  <2>6. q.parked.call \in Nat /\ h \in Nat
    <3>1. q.parked \in Asking /\ q.asking \in Nat  BY <1>0, <1>2 DEF Work
    <3> QED  BY <2>4, <3>1 DEF Asking
  <2>7. /\ d.handles = q.c.handles /\ d.frozen = q.c.frozen
        /\ d.superseded = q.c.superseded
        /\ d.msgs = q.c.msgs /\ d.noticed = q.c.noticed /\ d.status = "awaiting"
        /\ d.pending = [call |-> q.parked.call, results |-> q.results, handle |-> h]
    BY <1>0 DEF Conversation, Parked
  <2>8. /\ d.pending # None /\ d.pending.call = q.parked.call
        /\ d.pending.results = q.results /\ d.pending.handle = h
    <3>1. [call |-> q.parked.call, results |-> q.results, handle |-> h]
            \in [call : Nat, results : SUBSET (Nat \X Nat), handle : Nat]
      BY <1>0, <2>6 DEF Numbers
    <3> HIDE DEF d
    <3> QED  BY <2>7, <3>1, TurnsAssumption
  <2> HIDE DEF d
  <2>9. Answerable(d)
    <3>1. Revisable(d, h)  BY <2>3, <2>4, <2>7 DEF Revisable, Superseded
    <3>2. {d.pending.call} \union Given(d.pending.results) = 1 .. q.calls
      BY <2>3, <2>5, <2>8
    <3> QED  BY <1>c, <2>3, <2>7, <2>8, <3>1, <3>2 DEF Answerable
  <2>10. AtRest(d) /\ Quotes(d)  BY <2>7, <2>9, QuotesSame DEF AtRest
  <2>11. Keeping(x) => Keeping(q)  BY <2>2 DEF Keeping
  <2>12. x.pc # "tool" /\ x.pc \notin {"announce", "append", "begin", "commit", "model"}  BY <2>2
  <2>13. Right(x, MaxHandle) /\ Quoted(x)
    BY <2>2, <2>10, <2>11, <2>12 DEF Right, Quoted, BeforeRight
  <2>14. \A b : Keeps(b, q.c, MaxHandle) => Keeps(b, x.c, MaxHandle)
    BY <1>c, <2>2, <2>7, KeepsSettled
  <2>15. \A b : Kept(b, q, MaxHandle) => Kept(b, x, MaxHandle)
    BY <2>2, <2>11, <2>12, <2>14, KeptOn
  <2>16. GoesRight(q, x, MaxHandle)  BY <2>2, <2>13, <2>15 DEF GoesRight
  <2> QED  BY <2>16 DEF x
<1>3. CASE ~(q.call < q.calls) /\ q.parked = None
  <2>1. CallDone(q) = NextHop(none, told)  BY <1>3 DEF CallDone
  <2>2. User(q.results, <<>>) \in Message
    <3>1. <<>> \in Seq(Nat)  BY EmptySeq
    <3> QED  BY <1>0, <3>1, MessagesTyped
  <2>3. Given(q.results) = 1 .. q.calls
    <3>1. q.call = q.calls  BY <1>0, <1>3, <1>c
    <3> QED  BY <1>3, <3>1 DEF Counted
  <2>4. /\ told \in Conversation /\ SameSurfaces(q.c, told) /\ told.status = q.c.status
        /\ told.msgs = Append(q.c.msgs, User(q.results, <<>>)) /\ told.noticed = q.c.noticed
    <3>1. PICK m \in Message : m = User(q.results, <<>>)  BY <2>2
    <3>2. told = Push(q.c, m)  BY <3>1
    <3>3. told \in Conversation  BY <1>0, <2>2, Pushed DEF Good
    <3> HIDE DEF told
    <3>4. /\ SameSurfaces(q.c, told) /\ told.status = q.c.status
          /\ told.msgs = Append(q.c.msgs, m) /\ told.noticed = q.c.noticed
      BY ONLY <1>0, <3>2, PushIs
    <3> QED  BY <3>1, <3>3, <3>4
  <2>5. none \in Work  BY <1>0 DEF Work
  <2>6. /\ none.pc = q.pc /\ none.kind = q.kind /\ none.c = q.c /\ none.before = q.before
        /\ none.asking = q.asking /\ none.asked = 0 /\ none.parked = q.parked
        /\ none.init = q.init /\ none.token = q.token
    BY <1>0 DEF Work
  <2> HIDE DEF none, told
  <2>7. GoodWork(none, MaxHandle, seq)  BY <2>5, <2>6 DEF GoodWork, Keeping, Owing
  <2>8. Keeping(none) => Keeping(q)  BY <2>6 DEF Keeping
  <2>9. told.pending = None /\ told.frozen = q.c.frozen  BY <1>c, <2>4 DEF SameSurfaces
  <2>10. Even(told)
    BY <1>0, <1>c, <2>3, <2>4, <2>9, RepliedEven
  <2>11. Quotes(told)
    <3>1. {} \in SUBSET Nat  OBVIOUS
    <3> QED  BY <1>0, <2>4, <3>1, SaysNothing
  <2>12. \A b : Keeps(b, none.c, MaxHandle) => Keeps(b, told, MaxHandle)
    BY <1>c, <2>6, <2>9, KeepsSettled
  <2>13. GoesRight(none, NextHop(none, told), MaxHandle)
    BY <1>c, <2>4, <2>6, <2>7, <2>8, <2>10, <2>11, <2>12, NextHopRight DEF BeforeRight
  <2>14. \A b : Kept(b, q, MaxHandle) => Kept(b, none, MaxHandle)
    BY <2>6, <2>8, KeptOn
  <2>15. GoesRight(q, NextHop(none, told), MaxHandle)
    BY <2>6, <2>13, <2>14 DEF GoesRight
  <2> QED  BY <2>1, <2>15
<1> QED  BY <1>1, <1>2, <1>3

\* A call's result, that settles nothing.
LEMMA ResultCounted ==
  ASSUME NEW n, NEW p \in Work, InReply(p, n), NEW q, q.c = p.c, q.call = p.call,
         q.calls = p.calls, q.parked = p.parked, q.asking = p.asking,
         q.results = p.results \union {<<p.call, 0>>}
  PROVE  Counted(q, n, q.call)
<1>1. p.results \in SUBSET Numbers /\ p.call \in Nat /\ 0 \in Nat /\ p.call \in 1 .. p.calls
  BY DEF Work, InReply, Counted
<1>2. Given(q.results) = Given(p.results) \union {p.call}
  BY <1>1, OneGiven
<1>3. SettledIn(q.results) = SettledIn(p.results)
  <2>1. SettledIn(q.results) = SettledIn(p.results) \union ({0} \ {0})  BY <1>1, OneSettled
  <2> QED  BY <2>1
<1>4. 1 .. p.call = (1 .. p.call - 1) \union {p.call} /\ p.call \notin 1 .. p.call - 1
  BY <1>1
<1>5. q.parked = None => Given(q.results) = 1 .. q.call
  BY <1>2, <1>4 DEF InReply, Counted
<1>6. q.parked # None => /\ Given(q.results) \union {q.parked.call} = 1 .. q.call
                         /\ q.parked.call \notin Given(q.results)
  BY <1>2, <1>4 DEF InReply, Counted
<1> QED  BY <1>3, <1>5, <1>6 DEF InReply, Counted

\* A call that asked, and waits for the answer.
LEMMA ParkedCounted ==
  ASSUME NEW n \in Nat, NEW seq \in Nat, seq <= n, NEW p \in Work, InReply(p, n), p.asked # 0,
         Good(p.c, n, seq),
         NEW q, q.c = p.c, q.call = p.call,
         q.calls = p.calls, q.parked = [call |-> p.call, handle |-> p.asked],
         q.asking = p.asking, q.results = p.results
  PROVE  Counted(q, n, q.call)
<1>1. p.call \in Nat /\ p.call \in 1 .. p.calls /\ p.asked \in Nat
  BY DEF Work, InReply, Counted
<1>2. 1 .. p.call = (1 .. p.call - 1) \union {p.call} /\ p.call \notin 1 .. p.call - 1
  BY <1>1
<1>3. /\ p.asked = p.asking /\ p.parked = None /\ Given(p.results) = 1 .. p.call - 1
      /\ Revisable(p.c, p.asking)
  BY DEF InReply, Counted
<1>4. LeadsTo(p.c, n, p.asking, p.asking)
  <2>1. p.asking \in 1 .. seq /\ p.asking \notin Superseded(p.c)
    BY <1>3 DEF Revisable, Good
  <2> QED  BY <2>1, LeadsItself
<1>5. q.parked # None
  <2>1. q.parked \in [call : Nat, handle : Nat]  BY <1>1
  <2> QED  BY <2>1, TurnsAssumption
<1>6. q.parked.call = p.call /\ q.parked.handle = p.asking  BY <1>3
<1> QED  BY <1>2, <1>3, <1>4, <1>5, <1>6 DEF InReply, Counted

\* A question withdrawn with the call that asked it: the result settles it.
LEMMA WithdrawnCounted ==
  ASSUME NEW n, NEW p \in Work, InReply(p, n), p.asked # 0,
         NEW q, q.c.pending = p.c.pending, q.c.status = p.c.status, q.c.msgs = p.c.msgs,
         q.c.frozen = p.c.frozen \union {p.asked},
         q.call = p.call, q.calls = p.calls, q.parked = p.parked, q.asking = 0,
         q.results = p.results \union {<<p.call, p.asked>>}
  PROVE  Counted(q, n, q.call)
<1>1. /\ p.results \in SUBSET Numbers /\ p.call \in Nat /\ p.asked \in Nat
      /\ p.call \in 1 .. p.calls
  BY DEF Work, InReply, Counted
<1>2. /\ p.asked = p.asking /\ p.parked = None /\ Given(p.results) = 1 .. p.call - 1
      /\ Revisable(p.c, p.asking) /\ Accounts(p.c.msgs, p.c.frozen, SettledIn(p.results))
  BY DEF InReply, Counted
<1>3. Given(q.results) = Given(p.results) \union {p.call}
  BY <1>1, OneGiven
<1>4. SettledIn(q.results) = SettledIn(p.results) \union {p.asked}
  <2>1. SettledIn(q.results) = SettledIn(p.results) \union ({p.asked} \ {0})
    BY <1>1, OneSettled
  <2> QED  BY <2>1
<1>5. 1 .. p.call = (1 .. p.call - 1) \union {p.call}  BY <1>1
<1>6. Accounts(q.c.msgs, q.c.frozen, SettledIn(q.results))
  <2>1. {p.asked} \cap p.c.frozen = {}  BY <1>2 DEF Revisable
  <2>2. Accounts(p.c.msgs, p.c.frozen \union {p.asked}, SettledIn(p.results) \union {p.asked})
    BY <1>2, <2>1, AccountsHeld
  <2> QED  BY <1>4, <2>2
<1> QED  BY <1>2, <1>3, <1>5, <1>6 DEF InReply, Counted

\* A surface is shown, and the call may ask on it.
LEMMA ShownInReply ==
  ASSUME NEW n, NEW seq \in Nat, NEW p \in Work, Good(p.c, n, seq), InReply(p, n),
         NEW q, q.c.handles = p.c.handles \union {seq + 1}, q.c.frozen = p.c.frozen,
         q.c.superseded = p.c.superseded, q.c.pending = p.c.pending, q.c.status = p.c.status,
         q.c.msgs = p.c.msgs, q.call = p.call, q.calls = p.calls, q.parked = p.parked,
         q.results = p.results,
         \/ q.asking = p.asking /\ q.asked = p.asked
         \/ p.asking = 0 /\ q.asking = seq + 1 /\ q.asked = seq + 1
  PROVE  InReply(q, n)
<1>1. seq + 1 \notin p.c.frozen /\ seq + 1 \notin Superseded(p.c) /\ seq + 1 # 0
  <2>1. \A x \in Superseded(p.c) : x \in 1 .. seq  BY DEF Good, Single, Superseded
  <2>2. seq + 1 \notin 1 .. seq /\ seq + 1 # 0  OBVIOUS
  <2> QED  BY <2>1, <2>2 DEF Good
<1>2. Superseded(q.c) = Superseded(p.c)  BY DEF Superseded
<1>3. q.asking # 0 => Revisable(q.c, q.asking)
  BY <1>1, <1>2 DEF InReply, Counted, Revisable
<1>4. \A h, x : LeadsTo(p.c, n, h, x) => LeadsTo(q.c, n, h, x)  BY DEF LeadsTo
<1>5. p.asking = 0 => p.parked = None  BY DEF InReply, Counted
<1>6. Counted(q, n, q.call - 1)
  <2>1. q.parked # None => q.asking = p.asking  BY <1>5
  <2> QED  BY <1>3, <1>4, <2>1 DEF InReply, Counted
<1>7. q.asked # 0 => q.asked = q.asking /\ q.parked = None
  BY <1>5 DEF InReply
<1> QED  BY <1>6, <1>7 DEF InReply

\* A surface is revised, and the question the reply asks moves with it.
LEMMA RevisedInReply ==
  ASSUME NEW n \in Nat, NEW seq \in Nat, seq < n, NEW p \in Work, GoodWork(p, n, seq),
         InReply(p, n), NEW old \in (1 .. seq) \ Superseded(p.c), NEW outside \in BOOLEAN,
         NEW q, q.c.handles = p.c.handles \union {seq + 1}, q.c.frozen = p.c.frozen,
         q.c.superseded = p.c.superseded
           \union {[old |-> old, new |-> seq + 1, outside |-> outside]},
         Superseded(q.c) = Superseded(p.c) \union {old},
         q.c.pending = p.c.pending, q.c.status = p.c.status,
         q.c.msgs = p.c.msgs, q.call = p.call, q.calls = p.calls, q.parked = p.parked,
         q.results = p.results,
         q.asking = IF p.asking = old THEN seq + 1 ELSE p.asking,
         q.asked = IF p.asked = old THEN seq + 1 ELSE p.asked
  PROVE  InReply(q, n)
<1>0. Good(p.c, n, seq) /\ seq + 1 # 0 /\ old # 0  BY DEF GoodWork
<1>1. seq + 1 \notin p.c.frozen /\ seq + 1 \notin Superseded(q.c)
  <2>1. \A x \in Superseded(p.c) : x \in 1 .. seq  BY <1>0 DEF Good, Single, Superseded
  <2>2. seq + 1 \notin 1 .. seq  OBVIOUS
  <2> QED  BY <1>0, <2>1, <2>2 DEF Good
<1>2. q.asking # 0 => Revisable(q.c, q.asking)
  BY <1>1 DEF InReply, Counted, Revisable
<1>3. p.parked # None => q.asking # 0 /\ LeadsTo(q.c, n, q.parked.handle, q.asking)
  <2> HAVE p.parked # None
  <2>1. p.parked.handle \in 1 .. seq  BY DEF GoodWork
  <2>2. p.asking # 0 /\ LeadsTo(p.c, n, p.parked.handle, p.asking)
    BY DEF InReply, Counted
  <2>3. PICK h, x, d : h \in 1 .. seq /\ h = p.parked.handle /\ x = p.asking /\ d = q.c
    BY <2>1
  <2>4. LeadsTo(p.c, n, h, x) /\ d.superseded = p.c.superseded
           \union {[old |-> old, new |-> seq + 1, outside |-> outside]}
    BY <2>2, <2>3
  <2>5. (x = old => LeadsTo(d, n, h, seq + 1)) /\ (x # old => LeadsTo(d, n, h, x))
    BY <1>0, <2>3, <2>4, LeadsOn
  <2> QED  BY <1>0, <2>2, <2>3, <2>5
<1>4. Counted(q, n, q.call - 1)
  BY <1>2, <1>3 DEF InReply, Counted
<1>5. q.asked # 0 => q.asked = q.asking /\ q.parked = None
  BY <1>0 DEF InReply
<1> QED  BY <1>4, <1>5 DEF InReply

\* In an init, too, a surface may be shown, asked on and revised.
LEMMA ShownInInit ==
  ASSUME NEW n, NEW seq \in Nat, NEW p, Good(p.c, n, seq), InInit(p),
         NEW q, q.c.handles = p.c.handles \union {seq + 1}, q.c.frozen = p.c.frozen,
         q.c.superseded = p.c.superseded, q.c.pending = p.c.pending, q.c.status = p.c.status,
         q.c.msgs = p.c.msgs, q.results = p.results, q.parked = p.parked,
         \/ q.asking = p.asking /\ q.asked = p.asked
         \/ p.asking = 0 /\ q.asking = seq + 1 /\ q.asked = seq + 1
  PROVE  InInit(q)
<1>1. seq + 1 \notin p.c.frozen /\ seq + 1 \notin Superseded(p.c)
  <2>1. \A x \in Superseded(p.c) : x \in 1 .. seq  BY DEF Good, Single, Superseded
  <2>2. seq + 1 \notin 1 .. seq  OBVIOUS
  <2> QED  BY <2>1, <2>2 DEF Good
<1>2. Superseded(q.c) = Superseded(p.c)  BY DEF Superseded
<1>3. q.asking # 0 => Revisable(q.c, q.asking)
  BY <1>1, <1>2 DEF InInit, Revisable
<1>4. Even(q.c)  BY DEF InInit, Even
<1> QED  BY <1>3, <1>4 DEF InInit

LEMMA RevisedInInit ==
  ASSUME NEW n, NEW seq \in Nat, NEW p, Good(p.c, n, seq), InInit(p),
         NEW old \in (1 .. seq) \ Superseded(p.c),
         NEW q, q.c.handles = p.c.handles \union {seq + 1}, q.c.frozen = p.c.frozen,
         Superseded(q.c) = Superseded(p.c) \union {old},
         q.c.pending = p.c.pending, q.c.status = p.c.status,
         q.c.msgs = p.c.msgs, q.results = p.results, q.parked = p.parked,
         q.asking = IF p.asking = old THEN seq + 1 ELSE p.asking,
         q.asked = IF p.asked = old THEN seq + 1 ELSE p.asked
  PROVE  InInit(q)
<1>1. seq + 1 \notin p.c.frozen /\ seq + 1 \notin Superseded(q.c)
  <2>1. \A x \in Superseded(p.c) : x \in 1 .. seq  BY DEF Good, Single, Superseded
  <2>2. seq + 1 \notin 1 .. seq  OBVIOUS
  <2> QED  BY <2>1, <2>2 DEF Good
<1>2. q.asking # 0 => Revisable(q.c, q.asking)
  BY <1>1 DEF InInit, Revisable
<1>3. Even(q.c)  BY DEF InInit, Even
<1> QED  BY <1>2, <1>3 DEF InInit

\* A tool's step says nothing, and drops no question.
LEMMA ToolRight ==
  ASSUME NEW n, NEW p, p.pc = "tool", Right(p, n), Quoted(p),
         NEW q, q.pc = "tool", q.kind = p.kind, q.token = p.token, q.before = p.before,
         q.init = p.init, q.c.msgs = p.c.msgs, q.c.noticed = p.c.noticed,
         q.c.frozen = p.c.frozen,
         InReply(p, n) => InReply(q, n), InInit(p) => InInit(q)
  PROVE  GoesRight(p, q, n)
<1>1. p.c.pending = None  BY DEF Right, InReply, Counted, InInit, Even
<1>2. Keeping(q) => Keeping(p)  BY DEF Keeping
<1>3. Right(q, n)  BY <1>2 DEF Right
<1>4. Quotes(q.c)  BY QuotesSame DEF Quoted
<1>5. Quoted(q)  BY <1>2, <1>4 DEF Quoted
<1>6. \A b : Keeps(b, p.c, n) => Keeps(b, q.c, n)  BY <1>1, KeepsSettled
<1>7. \A b : Kept(b, p, n) => Kept(b, q, n)  BY <1>2, <1>6, KeptOn
<1> QED  BY <1>3, <1>5, <1>7 DEF GoesRight

-----------------------------------------------------------------------------
(* The steps of a turn                                                      *)

LEMMA ModelAnswersDoes ==
  ASSUME Typed, Orderly, NEW r \in Request, ModelAnswers(r)
  PROVE  (\E q : Does(r, q)) /\ row' = row
<1> DEFINE p == req[r]
           m == Assistant({})
           said == Push(p.c, m)
           d == [said EXCEPT !.status = "idle"]
           q == [p EXCEPT !.pc = "context", !.c = d]
<1>1. /\ Right(p, MaxHandle) /\ Quoted(p) /\ Good(p.c, MaxHandle, handleSeq)
      /\ p \in Work /\ p.c \in Conversation
  BY Holds
<1>2. /\ Running(r) /\ p.pc = "model" /\ Become(r, q) /\ UNCHANGED <<setup, row>>
  BY DEF ModelAnswers, Copy, Running
<1>3. m \in Message /\ m.role = "assistant" /\ m.calls = {}
  <2>1. m \in Message  BY DEF Assistant, Message
  <2> QED  BY <2>1 DEF Assistant
<1>4. AtRest(p.c) /\ p.c.pending = None /\ Quotes(p.c)  BY <1>1, <1>2 DEF Right, Quoted
<1>5. Even(p.c)  BY <1>4, RestParts
<1> HIDE DEF m
<1>6. /\ said \in Conversation /\ SameSurfaces(p.c, said) /\ said.msgs = Append(p.c.msgs, m)
      /\ said.noticed = p.c.noticed
  <2>1. said \in Conversation  BY <1>1, <1>3, Pushed DEF Good
  <2>2. said = Push(p.c, m)  OBVIOUS
  <2> HIDE DEF said
  <2> QED  BY <1>1, <2>1, <2>2, PushIs
<1> HIDE DEF said
<1>7. SameHistory(said, d) /\ d.status = "idle"  BY <1>6, StatusIs
<1> HIDE DEF d
<1>8. /\ d.msgs = Append(p.c.msgs, m) /\ d.pending = None /\ d.frozen = p.c.frozen
      /\ d.noticed = p.c.noticed
  BY <1>4, <1>6, <1>7 DEF SameHistory, SameSurfaces
<1>9. Even(d)  BY <1>1, <1>3, <1>5, <1>8, EvenOn
<1>10. Quotes(d)
  <2>1. {} \in SUBSET Nat /\ {} \in SUBSET Numbers  OBVIOUS
  <2> QED  BY <1>1, <1>4, <1>8, <2>1, SaysNothing DEF m
<1>11. AtRest(d)  BY <1>7, <1>9 DEF AtRest
<1>12. /\ q.pc = "context" /\ q.c = d /\ q.kind = p.kind /\ q.token = p.token
       /\ q.before = p.before
  BY <1>1 DEF Work
<1> HIDE DEF q
<1>13. Keeping(q) => Keeping(p)  BY <1>2, <1>12 DEF Keeping
<1>14. Right(q, MaxHandle) /\ Quoted(q)
  BY <1>1, <1>10, <1>11, <1>12, <1>13 DEF Right, Quoted
<1>15. \A b : Keeps(b, p.c, MaxHandle) => Keeps(b, q.c, MaxHandle)
  BY <1>4, <1>8, <1>12, KeepsSettled
<1>16. \A b : Kept(b, p, MaxHandle) => Kept(b, q, MaxHandle)
  BY <1>12, <1>13, <1>15, KeptOn
<1>17. GoesRight(p, q, MaxHandle)  BY <1>12, <1>14, <1>16 DEF GoesRight
<1>18. \E x : Does(r, x)  BY <1>2, <1>17, RightDoes
<1> QED  BY <1>2, <1>18

\* The reply is in the history, and its calls wait for their results.
LEMMA RepliesIs ==
  ASSUME Typed, NEW c \in Conversation, Good(c, MaxHandle, handleSeq), Even(c), Quotes(c),
         NEW calls \in SUBSET Nat, NEW d, d = Push(c, Assistant(calls))
  PROVE  /\ Good(d, MaxHandle, handleSeq) /\ d \in Conversation /\ SameSurfaces(c, d)
         /\ d.status = c.status /\ d.noticed = c.noticed
         /\ Replied(d.msgs, calls) /\ Accounts(d.msgs, d.frozen, {}) /\ Quotes(d)
<1>1. PICK m \in Message : m = Assistant(calls)  BY DEF Assistant, Message
<1>2. d = Push(c, m)  BY <1>1
<1>3. Good(d, MaxHandle, handleSeq)  BY <1>2, Pushed
<1>4. SameSurfaces(c, d) /\ d.msgs = Append(c.msgs, m) /\ d.noticed = c.noticed
      /\ d.status = c.status
  BY ONLY <1>2, c \in Conversation, PushIs
<1>5. d.msgs = Append(c.msgs, Assistant(calls)) /\ d.frozen = c.frozen
  BY <1>1, <1>4 DEF SameSurfaces
<1>6. Replied(d.msgs, calls) /\ Accounts(d.msgs, d.frozen, {})  BY <1>5, EvenReplied
<1>7. Quotes(d)
  <2>1. {} \in SUBSET Numbers  OBVIOUS
  <2> QED  BY <1>4, <1>5, <2>1, SaysNothing
<1>8. d \in Conversation  BY <1>3 DEF Good
<1> QED  BY <1>3, <1>4, <1>6, <1>7, <1>8

LEMMA ModelCutShortDoes ==
  ASSUME Typed, Orderly, NEW r \in Request, NEW k \in Call, ModelCutShort(r, k)
  PROVE  (\E q : Does(r, q)) /\ row' = row
<1> DEFINE p == req[r]
           calls == 1 .. k
           results == (1 .. k) \X {0}
           c == Push(p.c, Assistant(calls))
           d == Push(c, User(results, <<>>))
<1>1. /\ GoodWork(p, MaxHandle, handleSeq) /\ Right(p, MaxHandle) /\ Quoted(p)
      /\ Good(p.c, MaxHandle, handleSeq) /\ p \in Work /\ p.c \in Conversation
  BY Holds
<1>2. /\ Running(r) /\ p.pc = "model" /\ Become(r, NextHop(p, d)) /\ UNCHANGED <<setup, row>>
  BY DEF ModelCutShort, Running
<1>3. /\ AtRest(p.c) /\ p.c.pending = None /\ Quotes(p.c) /\ Clear(p) /\ p.init = None
  BY <1>1, <1>2 DEF Right, Quoted, GoodWork
<1>4. Even(p.c) /\ p.c.status # "awaiting"  BY <1>3, RestParts
<1>5. calls \in SUBSET Nat /\ results \in SUBSET Numbers /\ k \in Nat  BY CallsTyped
<1>6. Given(results) = calls /\ SettledIn(results) = {}  BY <1>5, AllTold
<1> HIDE DEF calls, results
<1>7. /\ Good(c, MaxHandle, handleSeq) /\ c \in Conversation /\ SameSurfaces(p.c, c)
      /\ c.status = p.c.status /\ c.noticed = p.c.noticed
      /\ Replied(c.msgs, calls) /\ Accounts(c.msgs, c.frozen, {}) /\ Quotes(c)
  BY <1>1, <1>3, <1>4, <1>5, RepliesIs
<1> HIDE DEF c
<1>8. PICK m \in Message : m = User(results, <<>>)
  <2>1. <<>> \in Seq(Nat)  BY EmptySeq
  <2> QED  BY <1>5, <2>1, MessagesTyped
<1>9. d \in Conversation  BY <1>7, <1>8, Pushed DEF Good
<1>10. d = Push(c, m)  BY <1>8
<1> HIDE DEF d
<1>11. SameSurfaces(c, d) /\ d.msgs = Append(c.msgs, m) /\ d.noticed = c.noticed
       /\ d.status = c.status
  <2>1. c \in Conversation  BY <1>7
  <2> QED  BY ONLY <1>10, <2>1, PushIs
<1>12. /\ d.msgs = Append(c.msgs, User(results, <<>>)) /\ d.pending = None
       /\ d.frozen = c.frozen /\ d.frozen = p.c.frozen /\ d.status # "awaiting"
  BY <1>3, <1>4, <1>7, <1>8, <1>11 DEF SameSurfaces
<1>13. Even(d)  BY <1>5, <1>6, <1>7, <1>12, RepliedEven
<1>14. Quotes(d)
  <2>1. {} \in SUBSET Nat  OBVIOUS
  <2> QED  BY <1>5, <1>7, <1>11, <1>12, <2>1, SaysNothing
<1>15. \A b : Keeps(b, p.c, MaxHandle) => Keeps(b, d, MaxHandle)
  BY <1>3, <1>12, KeepsSettled
<1>16. p.asked = 0  BY <1>3 DEF Clear
<1>17. BeforeRight(p)  BY <1>1 DEF Right, Quoted, BeforeRight
<1>18. GoesRight(p, NextHop(p, d), MaxHandle)
  BY <1>1, <1>2, <1>3, <1>9, <1>12, <1>13, <1>14, <1>15, <1>16, <1>17, NextHopRight DEF BeforeRight
<1>19. \E x : Does(r, x)  BY <1>2, <1>18, RightDoes
<1> QED  BY <1>2, <1>19

LEMMA ModelCallsDoes ==
  ASSUME Typed, Orderly, NEW r \in Request, NEW k \in Call, ModelCalls(r, k)
  PROVE  (\E q : Does(r, q)) /\ row' = row
<1> DEFINE p == req[r]
           calls == 1 .. k
           c == Push(p.c, Assistant(calls))
           q == [p EXCEPT !.pc = "tool", !.call = 1, !.calls = k, !.c = c]
<1>1. /\ GoodWork(p, MaxHandle, handleSeq) /\ Right(p, MaxHandle) /\ Quoted(p)
      /\ Good(p.c, MaxHandle, handleSeq) /\ p \in Work /\ p.c \in Conversation
  BY Holds
<1>2. /\ Running(r) /\ p.pc = "model" /\ Become(r, q) /\ UNCHANGED <<setup, row>>
  <2>1. q = [p EXCEPT !.pc = "tool", !.call = 1, !.calls = k, !.c = Push(@, Assistant(1 .. k))]
    BY <1>1 DEF Work
  <2> QED  BY <2>1 DEF ModelCalls, Running
<1>3. /\ AtRest(p.c) /\ p.c.pending = None /\ Quotes(p.c) /\ Clear(p) /\ p.init = None
  BY <1>1, <1>2 DEF Right, Quoted, GoodWork
<1>4. Even(p.c) /\ p.c.status # "awaiting"  BY <1>3, RestParts
<1>5. calls \in SUBSET Nat /\ k \in Nat /\ k >= 1  BY CallsTyped, Bounds DEF Call
<1>6. 1 \in 1 .. k /\ 1 - 1 = 0 /\ 1 .. 0 = {}  BY <1>5
<1>k. calls = 1 .. k  OBVIOUS
<1> HIDE DEF calls
<1>7. /\ Good(c, MaxHandle, handleSeq) /\ c \in Conversation /\ SameSurfaces(p.c, c)
      /\ c.status = p.c.status /\ c.noticed = p.c.noticed
      /\ Replied(c.msgs, calls) /\ Accounts(c.msgs, c.frozen, {}) /\ Quotes(c)
  BY <1>1, <1>3, <1>4, <1>5, RepliesIs
<1> HIDE DEF c
<1>8. /\ q.pc = "tool" /\ q.c = c /\ q.kind = p.kind /\ q.token = p.token
      /\ q.before = p.before /\ q.call = 1 /\ q.calls = k /\ q.results = p.results
      /\ q.asking = p.asking /\ q.asked = p.asked /\ q.parked = p.parked /\ q.init = p.init
  BY <1>1 DEF Work
<1> HIDE DEF q
<1>9. /\ q.results = {} /\ q.asking = 0 /\ q.asked = 0 /\ q.parked = None
  BY <1>3, <1>8 DEF Clear
<1>10. Given(q.results) = {} /\ SettledIn(q.results) = {}  BY <1>9 DEF Given, SettledIn
<1>11. q.c.pending = None /\ q.c.status # "awaiting"  BY <1>3, <1>4, <1>7, <1>8 DEF SameSurfaces
<1>12. Counted(q, MaxHandle, q.call - 1)
  BY <1>6, <1>k, <1>7, <1>8, <1>9, <1>10, <1>11 DEF Counted
<1>13. InReply(q, MaxHandle)  BY <1>9, <1>12 DEF InReply
<1>14. Keeping(q) => Keeping(p)  BY <1>2, <1>3, <1>8 DEF Keeping
<1>15. Right(q, MaxHandle)  BY <1>1, <1>3, <1>8, <1>13, <1>14 DEF Right
<1>16. Quoted(q)  BY <1>1, <1>3, <1>7, <1>8, <1>14 DEF Quoted
<1>17. \A b : Keeps(b, p.c, MaxHandle) => Keeps(b, q.c, MaxHandle)
  BY <1>3, <1>7, <1>8, KeepsSettled DEF SameSurfaces
<1>18. \A b : Kept(b, p, MaxHandle) => Kept(b, q, MaxHandle)
  BY <1>8, <1>14, <1>17, KeptOn
<1>19. GoesRight(p, q, MaxHandle)  BY <1>8, <1>15, <1>16, <1>18 DEF GoesRight
<1>20. \E x : Does(r, x)  BY <1>2, <1>19, RightDoes
<1> QED  BY <1>2, <1>20

\* A tool's having run changes nothing else.
LEMMA RanRight ==
  ASSUME Typed, Orderly, NEW r \in Request, NEW x, x = Ran(r)
  PROVE  /\ GoodWork(x, MaxHandle, handleSeq) /\ x \in Work
         /\ x.pc = req[r].pc /\ x.kind = req[r].kind /\ x.token = req[r].token
         /\ x.c = req[r].c /\ x.before = req[r].before /\ x.call = req[r].call
         /\ x.calls = req[r].calls /\ x.results = req[r].results
         /\ x.asking = req[r].asking /\ x.asked = req[r].asked
         /\ x.parked = req[r].parked /\ x.init = req[r].init
         /\ Right(x, MaxHandle) /\ Quoted(x)
         /\ \A b : Kept(b, req[r], MaxHandle) => Kept(b, x, MaxHandle)
<1>0. GoodWork(req[r], MaxHandle, handleSeq) /\ Right(req[r], MaxHandle) /\ Quoted(req[r])
  BY Holds
<1>1. /\ GoodWork(x, MaxHandle, handleSeq)
      /\ x.pc = req[r].pc /\ x.kind = req[r].kind /\ x.token = req[r].token
      /\ x.c = req[r].c /\ x.before = req[r].before /\ x.call = req[r].call
      /\ x.calls = req[r].calls /\ x.results = req[r].results
      /\ x.asking = req[r].asking /\ x.asked = req[r].asked
      /\ x.parked = req[r].parked /\ x.init = req[r].init
  <2>1. PICK n, seq : n = MaxHandle /\ seq = handleSeq  OBVIOUS
  <2>2. r \in Request /\ x = Ran(r) /\ GoodWork(req[r], n, seq)  BY <1>0, <2>1
  <2>3. /\ GoodWork(Ran(r), n, seq)
        /\ Ran(r).pc = req[r].pc /\ Ran(r).kind = req[r].kind /\ Ran(r).token = req[r].token
        /\ Ran(r).c = req[r].c /\ Ran(r).before = req[r].before /\ Ran(r).call = req[r].call
        /\ Ran(r).calls = req[r].calls /\ Ran(r).results = req[r].results
        /\ Ran(r).asking = req[r].asking /\ Ran(r).asked = req[r].asked
        /\ Ran(r).parked = req[r].parked /\ Ran(r).init = req[r].init
    BY ONLY <2>2, RanGood, Zenon
  <2> QED  BY ONLY <2>1, <2>2, <2>3
<1>2. x \in Work  BY <1>1 DEF GoodWork
<1>3. Keeping(x) <=> Keeping(req[r])  BY <1>1 DEF Keeping
<1>4. InReply(req[r], MaxHandle) => InReply(x, MaxHandle)  BY <1>1 DEF InReply, Counted
<1>5. InInit(req[r]) => InInit(x)  BY <1>1 DEF InInit
<1>6. Clear(req[r]) => Clear(x)  BY <1>1 DEF Clear
<1>7. Right(x, MaxHandle)  BY <1>0, <1>1, <1>3, <1>4, <1>5, <1>6 DEF Right
<1>8. Quoted(x)  BY <1>0, <1>1, <1>3 DEF Quoted
<1>9. \A b : Kept(b, req[r], MaxHandle) => Kept(b, x, MaxHandle)  BY <1>1, <1>3 DEF Kept
<1> QED  BY <1>1, <1>2, <1>7, <1>8, <1>9

LEMMA RightOnward ==
  ASSUME NEW n, NEW p, NEW x, NEW q, GoesRight(x, q, n), x.token = p.token, x.kind = p.kind,
         \A b : Kept(b, p, n) => Kept(b, x, n)
  PROVE  GoesRight(p, q, n)
<1>1. q.pc # "off" /\ q.token = p.token /\ q.kind = p.kind /\ Right(q, n) /\ Quoted(q)
  BY DEF GoesRight
<1>2. ASSUME NEW b, Kept(b, p, n) PROVE Kept(b, q, n)
  <2>1. Kept(b, x, n)  BY <1>2
  <2> QED  BY <2>1 DEF GoesRight
<1>3. QED  BY <1>1, <1>2 DEF GoesRight

LEMMA ShownIs ==
  ASSUME NEW c \in Conversation, NEW h \in Nat, NEW d, d = Shown(c, h)
  PROVE  /\ d.handles = c.handles \union {h} /\ d.frozen = c.frozen
         /\ d.superseded = c.superseded /\ d.pending = c.pending /\ d.status = c.status
         /\ d.msgs = c.msgs /\ d.noticed = c.noticed
BY DEF Shown, Conversation

LEMMA ToolShowsDoes ==
  ASSUME Typed, Orderly, NEW r \in Request, NEW asks \in BOOLEAN, ToolShows(r, asks)
  PROVE  (\E q : Does(r, q)) /\ row' = row
<1> DEFINE p == req[r]
           h == handleSeq + 1
           d == Shown(p.c, h)
<1>1. /\ Good(p.c, MaxHandle, handleSeq) /\ p \in Work /\ p.c \in Conversation
      /\ handleSeq \in Nat /\ h \in Nat
  BY Holds
<1>2. /\ Running(r) /\ p.pc = "tool" /\ UNCHANGED <<setup, row>> /\ (asks => p.asking = 0)
  BY DEF ToolShows, Running
<1>3. PICK x : x = Ran(r)  OBVIOUS
<1>4. /\ x \in Work /\ x.pc = "tool" /\ x.kind = p.kind /\ x.token = p.token
      /\ x.c = p.c /\ x.before = p.before /\ x.call = p.call
      /\ x.calls = p.calls /\ x.results = p.results
      /\ x.asking = p.asking /\ x.asked = p.asked
      /\ x.parked = p.parked /\ x.init = p.init
      /\ Right(x, MaxHandle) /\ Quoted(x)
      /\ \A b : Kept(b, p, MaxHandle) => Kept(b, x, MaxHandle)
  BY <1>2, <1>3, RanRight
<1> DEFINE shown == [x EXCEPT !.c = d]
           asked == [shown EXCEPT !.asking = h, !.asked = h]
<1>5. Become(r, IF asks THEN asked ELSE shown)
  <2>1. shown = [Ran(r) EXCEPT !.c = Shown(@, h)]  BY <1>3, <1>4 DEF Work
  <2> QED  BY <2>1 DEF ToolShows
<1>6. /\ d.handles = p.c.handles \union {handleSeq + 1} /\ d.frozen = p.c.frozen
      /\ d.superseded = p.c.superseded /\ d.pending = p.c.pending /\ d.status = p.c.status
      /\ d.msgs = p.c.msgs /\ d.noticed = p.c.noticed
  <2>1. PICK k \in Nat : k = h  BY <1>1
  <2>2. d = Shown(p.c, k)  BY <2>1
  <2>3. p.c \in Conversation /\ k \in Nat  BY <1>1
  <2> HIDE DEF d
  <2>4. /\ d.handles = p.c.handles \union {k} /\ d.frozen = p.c.frozen
        /\ d.superseded = p.c.superseded /\ d.pending = p.c.pending /\ d.status = p.c.status
        /\ d.msgs = p.c.msgs /\ d.noticed = p.c.noticed
    BY ONLY <2>2, <2>3, ShownIs
  <2> QED  BY <2>1, <2>4
<1> HIDE DEF d
<1>7. PICK q : /\ q = IF asks THEN asked ELSE shown
               /\ q.pc = "tool" /\ q.kind = x.kind /\ q.token = x.token /\ q.before = x.before
               /\ q.init = x.init /\ q.call = x.call /\ q.calls = x.calls
               /\ q.parked = x.parked /\ q.results = x.results /\ q.c = d
               /\ \/ q.asking = x.asking /\ q.asked = x.asked
                  \/ x.asking = 0 /\ q.asking = handleSeq + 1 /\ q.asked = handleSeq + 1
  <2> HIDE DEF h
  <2>1. /\ shown.pc = "tool" /\ shown.kind = x.kind /\ shown.token = x.token
        /\ shown.before = x.before /\ shown.init = x.init /\ shown.call = x.call
        /\ shown.calls = x.calls /\ shown.parked = x.parked /\ shown.results = x.results
        /\ shown.c = d /\ shown.asking = x.asking /\ shown.asked = x.asked
    BY <1>4 DEF Work
  <2>2. /\ asked.pc = "tool" /\ asked.kind = x.kind /\ asked.token = x.token
        /\ asked.before = x.before /\ asked.init = x.init /\ asked.call = x.call
        /\ asked.calls = x.calls /\ asked.parked = x.parked /\ asked.results = x.results
        /\ asked.c = d /\ asked.asking = h /\ asked.asked = h
    BY <1>4 DEF Work
  <2> HIDE DEF asked, shown
  <2>3. CASE asks  BY <1>2, <1>4, <2>2, <2>3 DEF h
  <2>4. CASE ~asks  BY <2>1, <2>4
  <2> QED  BY <2>3, <2>4
<1>8. Become(r, q)  BY <1>5, <1>7
<1> HIDE DEF shown, asked, h
<1>9. /\ q.c.handles = x.c.handles \union {handleSeq + 1} /\ q.c.frozen = x.c.frozen
      /\ q.c.superseded = x.c.superseded /\ q.c.pending = x.c.pending
      /\ q.c.status = x.c.status /\ q.c.msgs = x.c.msgs /\ q.c.noticed = x.c.noticed
      /\ Good(x.c, MaxHandle, handleSeq)
  BY <1>1, <1>4, <1>6, <1>7
<1>10. InReply(x, MaxHandle) => InReply(q, MaxHandle)
  BY <1>1, <1>4, <1>7, <1>9, ShownInReply
<1>11. InInit(x) => InInit(q)
  <2>1. /\ q.parked = x.parked /\ q.results = x.results /\ handleSeq \in Nat
        /\ \/ q.asking = x.asking /\ q.asked = x.asked
           \/ x.asking = 0 /\ q.asking = handleSeq + 1 /\ q.asked = handleSeq + 1
    BY <1>1, <1>7
  <2> QED  BY ONLY <1>9, <2>1, ShownInInit
<1>12. GoesRight(x, q, MaxHandle)
  BY <1>4, <1>7, <1>9, <1>10, <1>11, ToolRight
<1>13. GoesRight(p, q, MaxHandle)
  <2>1. /\ x.token = p.token /\ x.kind = p.kind
        /\ \A b : Kept(b, p, MaxHandle) => Kept(b, x, MaxHandle)
    BY <1>4
  <2> QED  BY ONLY <1>12, <2>1, RightOnward
<1>14. \E y : Does(r, y)  BY <1>2, <1>8, <1>13, RightDoes
<1> QED  BY <1>2, <1>14

LEMMA ToolRevisesDoes ==
  ASSUME Typed, Orderly, NEW r \in Request, NEW old \in Handle, ToolRevises(r, old)
  PROVE  (\E q : Does(r, q)) /\ row' = row
<1> DEFINE p == req[r]
           new == handleSeq + 1
           moved(h) == IF h = old THEN new ELSE h
           d == Revised(p.c, old, new, FALSE)
<1>1. /\ Good(p.c, MaxHandle, handleSeq) /\ p \in Work /\ p.c \in Conversation
      /\ handleSeq \in Nat /\ new \in Nat /\ MaxHandle \in Nat
  BY Holds
<1>3. PICK x : x = Ran(r)  OBVIOUS
<1>4. /\ x \in Work /\ x.pc = p.pc /\ x.kind = p.kind /\ x.token = p.token
      /\ x.c = p.c /\ x.before = p.before /\ x.call = p.call
      /\ x.calls = p.calls /\ x.results = p.results
      /\ x.asking = p.asking /\ x.asked = p.asked
      /\ x.parked = p.parked /\ x.init = p.init
      /\ Right(x, MaxHandle) /\ Quoted(x) /\ GoodWork(x, MaxHandle, handleSeq)
      /\ \A b : Kept(b, p, MaxHandle) => Kept(b, x, MaxHandle)
  BY <1>3, RanRight
<1>2. /\ Running(r) /\ p.pc = "tool" /\ UNCHANGED <<setup, row>> /\ Revisable(p.c, old)
      /\ handleSeq < MaxHandle
  BY <1>3, <1>4 DEF ToolRevises, Running
<1> DEFINE q == [x EXCEPT !.c = d, !.asking = moved(x.asking), !.asked = moved(x.asked)]
<1>5. Become(r, q)
  <2>1. q = [Ran(r) EXCEPT !.c = Revised(@, old, new, FALSE), !.asking = moved(@),
                           !.asked = moved(@)]
    BY <1>3, <1>4 DEF Work
  <2> QED  BY <2>1 DEF ToolRevises
<1>6. old \in (1 .. handleSeq) \ Superseded(p.c) /\ old \in Nat
  BY <1>1, <1>2 DEF Revisable, Good
<1>7. /\ d.msgs = p.c.msgs /\ d.noticed = p.c.noticed /\ d.status = p.c.status
      /\ d.frozen = p.c.frozen /\ d.handles = p.c.handles \union {new}
      /\ d.pending = p.c.pending
      /\ d.superseded = p.c.superseded \union {[old |-> old, new |-> new, outside |-> FALSE]}
      /\ Superseded(d) = Superseded(p.c) \union {old}
  <2>1. PICK outside \in BOOLEAN, c \in Conversation, next \in Nat :
          outside = FALSE /\ c = p.c /\ next = new
    BY <1>1
  <2>2. d = Revised(c, old, next, outside)  BY <2>1
  <2> HIDE DEF d, new
  <2>3. c \in Conversation /\ outside \in BOOLEAN /\ next \in Nat /\ old \in Nat  BY <1>6
  <2>4. /\ d.msgs = c.msgs /\ d.noticed = c.noticed /\ d.status = c.status
        /\ d.frozen = c.frozen /\ d.handles = c.handles \union {next} /\ d.pending = c.pending
        /\ d.superseded = c.superseded \union {[old |-> old, new |-> next, outside |-> outside]}
        /\ Superseded(d) = Superseded(c) \union {old}
    BY ONLY <2>2, <2>3, RevisedIs
  <2> QED  BY <2>1, <2>4
<1> HIDE DEF d
<1>8. /\ q.pc = "tool" /\ q.kind = x.kind /\ q.token = x.token /\ q.before = x.before
      /\ q.init = x.init /\ q.call = x.call /\ q.calls = x.calls
      /\ q.parked = x.parked /\ q.results = x.results /\ q.c = d
      /\ q.asking = moved(x.asking) /\ q.asked = moved(x.asked)
  <2> HIDE DEF moved
  <2> QED  BY <1>2, <1>4 DEF Work
<1> HIDE DEF q
<1>9. /\ q.c.handles = x.c.handles \union {handleSeq + 1} /\ q.c.frozen = x.c.frozen
      /\ q.c.superseded = x.c.superseded
           \union {[old |-> old, new |-> handleSeq + 1, outside |-> FALSE]}
      /\ Superseded(q.c) = Superseded(x.c) \union {old}
      /\ q.c.pending = x.c.pending
      /\ q.c.status = x.c.status /\ q.c.msgs = x.c.msgs /\ q.c.noticed = x.c.noticed
      /\ Good(x.c, MaxHandle, handleSeq) /\ old \in (1 .. handleSeq) \ Superseded(x.c)
      /\ q.asking = (IF x.asking = old THEN handleSeq + 1 ELSE x.asking)
      /\ q.asked = (IF x.asked = old THEN handleSeq + 1 ELSE x.asked)
  BY <1>1, <1>4, <1>6, <1>7, <1>8
<1> HIDE DEF new, moved
<1>10. ASSUME InReply(x, MaxHandle) PROVE InReply(q, MaxHandle)
  <2>1. PICK outside \in BOOLEAN : outside = FALSE  OBVIOUS
  <2>2. q.c.superseded = x.c.superseded
           \union {[old |-> old, new |-> handleSeq + 1, outside |-> outside]}
    BY <1>9, <2>1
  <2>3. PICK s \in Nat, n \in Nat : s = handleSeq /\ n = MaxHandle  BY <1>1
  <2>4. /\ q.c.handles = x.c.handles \union {s + 1} /\ q.c.frozen = x.c.frozen
        /\ q.c.superseded = x.c.superseded
             \union {[old |-> old, new |-> s + 1, outside |-> outside]}
        /\ Superseded(q.c) = Superseded(x.c) \union {old}
        /\ q.c.pending = x.c.pending
        /\ q.c.status = x.c.status /\ q.c.msgs = x.c.msgs
        /\ old \in (1 .. s) \ Superseded(x.c)
        /\ q.asking = (IF x.asking = old THEN s + 1 ELSE x.asking)
        /\ q.asked = (IF x.asked = old THEN s + 1 ELSE x.asked)
        /\ s < n /\ GoodWork(x, n, s) /\ InReply(x, n)
    BY <1>2, <1>4, <1>9, <1>10, <2>2, <2>3
  <2>5. /\ q.call = x.call /\ q.calls = x.calls /\ q.parked = x.parked /\ q.results = x.results
        /\ s \in Nat /\ n \in Nat /\ x \in Work /\ outside \in BOOLEAN
    BY <1>4, <1>8
  <2>6. InReply(q, n)  BY ONLY <2>4, <2>5, RevisedInReply
  <2> QED  BY <2>3, <2>6
<1>11. InInit(x) => InInit(q)
  BY <1>1, <1>8, <1>9, RevisedInInit
<1>12. GoesRight(x, q, MaxHandle)
  BY <1>2, <1>4, <1>8, <1>9, <1>10, <1>11, ToolRight
<1>13. GoesRight(p, q, MaxHandle)
  <2>1. /\ x.token = p.token /\ x.kind = p.kind
        /\ \A b : Kept(b, p, MaxHandle) => Kept(b, x, MaxHandle)
    BY <1>4
  <2> QED  BY ONLY <1>12, <2>1, RightOnward
<1>14. \E y : Does(r, y)  BY <1>2, <1>5, <1>13, RightDoes
<1> QED  BY <1>2, <1>14

\* A call is over: x is the request with its result, or what parked it.
LEMMA CallOver ==
  ASSUME Typed, Orderly, NEW r \in Request, NEW p \in Work, req[r].pc = "tool", UNCHANGED setup,
         p.pc = "tool", p.init = None, p.token = req[r].token, p.kind = req[r].kind,
         p.c.pending = None, Quoted(p), Right(p, MaxHandle),
         \A b : Kept(b, req[r], MaxHandle) => Kept(b, p, MaxHandle),
         NEW x, GoodWork(x, MaxHandle, handleSeq), Become(r, CallDone(x)),
         x.pc = p.pc, x.kind = p.kind, x.token = p.token, x.before = p.before, x.init = p.init,
         x.c.msgs = p.c.msgs, x.c.noticed = p.c.noticed, p.c.frozen \subseteq x.c.frozen,
         Counted(x, MaxHandle, x.call)
  PROVE  \E q : Does(r, q)
<1>1. Quotes(x.c)  BY QuotesSame DEF Quoted
<1>2. Keeping(x) => Keeping(p)  BY DEF Keeping
<1>3. BeforeRight(x)  BY <1>2 DEF BeforeRight, Right, Quoted
<1>4. MaxHandle \in Nat /\ handleSeq \in Nat /\ handleSeq <= MaxHandle  BY Bounds
<1>5. GoesRight(x, CallDone(x), MaxHandle)
  BY <1>1, <1>3, <1>4, CallDoneRight
<1>6. \A b : Keeps(b, p.c, MaxHandle) => Keeps(b, x.c, MaxHandle)
  BY KeepsSettled
<1>7. \A b : Kept(b, p, MaxHandle) => Kept(b, x, MaxHandle)
  BY <1>2, <1>6, KeptOn
<1>8. \A b : Kept(b, req[r], MaxHandle) => Kept(b, x, MaxHandle)  BY <1>7
<1>9. x.token = req[r].token /\ x.kind = req[r].kind  OBVIOUS
<1>10. GoesRight(req[r], CallDone(x), MaxHandle)
  BY ONLY <1>5, <1>8, <1>9, RightOnward
<1>11. Running(r)  BY DEF Running
<1> QED  BY <1>10, <1>11, RightDoes

LEMMA ToolSkippedDoes ==
  ASSUME Typed, Orderly, NEW r \in Request, ToolSkipped(r)
  PROVE  (\E q : Does(r, q)) /\ row' = row
<1> DEFINE p == req[r]
           results == p.results \union {<<p.call, 0>>}
           x == [p EXCEPT !.results = results]
<1>1. /\ GoodWork(p, MaxHandle, handleSeq) /\ Right(p, MaxHandle) /\ Quoted(p)
      /\ p \in Work /\ p.c \in Conversation
  BY Holds
<1>2. /\ p.pc = "tool" /\ p.init = None /\ Become(r, CallDone(x)) /\ UNCHANGED <<setup, row>>
  BY DEF ToolSkipped
<1>3. InReply(p, MaxHandle) /\ p.c.pending = None  BY <1>1, <1>2 DEF Right, InReply, Counted
<1>4. results \in SUBSET Numbers  BY <1>1 DEF Work, Numbers
<1>5. x \in Work
  <2> HIDE DEF results
  <2> QED  BY <1>1, <1>4 DEF Work
<1>6. /\ x.pc = p.pc /\ x.c = p.c /\ x.kind = p.kind /\ x.before = p.before
      /\ x.token = p.token /\ x.init = p.init /\ x.asking = p.asking /\ x.asked = p.asked
      /\ x.parked = p.parked /\ x.call = p.call /\ x.calls = p.calls
      /\ x.results = p.results \union {<<p.call, 0>>}
  BY <1>1 DEF Work
<1> HIDE DEF x, results
<1>7. GoodWork(x, MaxHandle, handleSeq)
  BY <1>1, <1>5, <1>6 DEF GoodWork, Keeping, Owing
<1>8. Counted(x, MaxHandle, x.call)  BY <1>1, <1>3, <1>6, ResultCounted
<1>9. \A b : Kept(b, p, MaxHandle) => Kept(b, p, MaxHandle)  OBVIOUS
<1>10. \E q : Does(r, q)
  BY <1>1, <1>2, <1>3, <1>6, <1>7, <1>8, <1>9, CallOver
<1> QED  BY <1>2, <1>10

LEMMA ToolReturnsDoes ==
  ASSUME Typed, Orderly, NEW r \in Request, ToolReturns(r)
  PROVE  (\E q : Does(r, q)) /\ row' = row
<1>1. PICK p : p = Ran(r)  OBVIOUS
<1> DEFINE results == p.results \union {<<p.call, 0>>}
           parked == [call |-> p.call, handle |-> p.asked]
           result == [p EXCEPT !.results = results]
           park == [p EXCEPT !.parked = parked]
<1>2. /\ GoodWork(p, MaxHandle, handleSeq) /\ p \in Work /\ p.pc = req[r].pc
      /\ p.kind = req[r].kind /\ p.token = req[r].token
      /\ p.init = req[r].init /\ Right(p, MaxHandle) /\ Quoted(p)
      /\ \A b : Kept(b, req[r], MaxHandle) => Kept(b, p, MaxHandle)
  BY <1>1, RanRight
<1>3. /\ p.pc = "tool" /\ p.init = None /\ UNCHANGED <<setup, row>>
      /\ Become(r, CallDone(IF p.asked # 0 THEN park ELSE result))
  BY <1>1 DEF ToolReturns
<1>4. InReply(p, MaxHandle) /\ p.c.pending = None  BY <1>2, <1>3 DEF Right, InReply, Counted
<1>5. /\ handleSeq \in Nat /\ MaxHandle \in Nat /\ handleSeq <= MaxHandle
      /\ Good(p.c, MaxHandle, handleSeq)
  BY <1>2, Bounds DEF GoodWork
<1>6. CASE p.asked # 0
  <2>1. parked \in Asking /\ parked.handle \in 1 .. handleSeq
    BY <1>2, <1>5, <1>6 DEF Asking, Work, GoodWork
  <2>2. park \in Work
    <3> HIDE DEF parked
    <3> QED  BY <1>2, <2>1 DEF Work
  <2>3. /\ park.pc = p.pc /\ park.c = p.c /\ park.kind = p.kind /\ park.before = p.before
        /\ park.token = p.token /\ park.init = p.init /\ park.asking = p.asking
        /\ park.asked = p.asked /\ park.call = p.call /\ park.calls = p.calls
        /\ park.results = p.results /\ park.parked = [call |-> p.call, handle |-> p.asked]
    BY <1>2 DEF Work
  <2>4. Become(r, CallDone(park))  BY <1>3, <1>6
  <2>5. park.parked.handle \in 1 .. handleSeq  BY <2>1, <2>3
  <2> HIDE DEF park, parked
  <2>6. GoodWork(park, MaxHandle, handleSeq)
    BY <1>2, <1>3, <2>2, <2>3, <2>5 DEF GoodWork, Keeping, Owing
  <2>7. Counted(park, MaxHandle, park.call)
    <3>1. PICK s \in Nat, n \in Nat : s = handleSeq /\ n = MaxHandle  BY <1>5
    <3>2. /\ s <= n /\ InReply(p, n) /\ p.asked # 0 /\ Good(p.c, n, s)
      BY <1>4, <1>5, <1>6, <3>1
    <3>3. p \in Work /\ s \in Nat /\ n \in Nat  BY <1>2
    <3>4. Counted(park, n, park.call)  BY ONLY <2>3, <3>2, <3>3, ParkedCounted
    <3> QED  BY <3>1, <3>4
  <2>8. \E q : Does(r, q)
    BY <1>2, <1>3, <1>4, <2>3, <2>4, <2>6, <2>7, CallOver
  <2> QED  BY <1>3, <2>8
<1>7. CASE p.asked = 0
  <2>1. results \in SUBSET Numbers  BY <1>2 DEF Work, Numbers
  <2>2. result \in Work
    <3> HIDE DEF results
    <3> QED  BY <1>2, <2>1 DEF Work
  <2>3. /\ result.pc = p.pc /\ result.c = p.c /\ result.kind = p.kind
        /\ result.before = p.before /\ result.token = p.token /\ result.init = p.init
        /\ result.asking = p.asking /\ result.asked = p.asked /\ result.parked = p.parked
        /\ result.call = p.call /\ result.calls = p.calls
        /\ result.results = p.results \union {<<p.call, 0>>}
    BY <1>2 DEF Work
  <2>4. Become(r, CallDone(result))  BY <1>3, <1>7
  <2> HIDE DEF result, results
  <2>5. GoodWork(result, MaxHandle, handleSeq)
    BY <1>2, <1>3, <2>2, <2>3 DEF GoodWork, Keeping, Owing
  <2>6. Counted(result, MaxHandle, result.call)  BY <1>2, <1>4, <2>3, ResultCounted
  <2>7. \E q : Does(r, q)
    BY <1>2, <1>3, <1>4, <2>3, <2>4, <2>5, <2>6, CallOver
  <2> QED  BY <1>3, <2>7
<1> QED  BY <1>6, <1>7

LEMMA ToolFailsDoes ==
  ASSUME Typed, Orderly, NEW r \in Request, ToolFails(r)
  PROVE  (\E q : Does(r, q)) /\ row' = row
<1>1. PICK p : p = Ran(r)  OBVIOUS
<1> DEFINE results == p.results \union {<<p.call, p.asked>>}
           d == [p.c EXCEPT !.frozen = p.c.frozen \union {p.asked}]
           x == [p EXCEPT !.results = results, !.c = d, !.asking = 0]
<1>2. /\ GoodWork(p, MaxHandle, handleSeq) /\ p \in Work /\ p.pc = req[r].pc
      /\ p.kind = req[r].kind /\ p.token = req[r].token
      /\ p.init = req[r].init /\ Right(p, MaxHandle) /\ Quoted(p)
      /\ \A b : Kept(b, req[r], MaxHandle) => Kept(b, p, MaxHandle)
  BY <1>1, RanRight
<1>3. /\ p.pc = "tool" /\ p.init = None /\ UNCHANGED <<setup, row>> /\ p.asked # 0
      /\ Good(p.c, MaxHandle, handleSeq) /\ p.c \in Conversation
  BY <1>1, <1>2 DEF ToolFails, GoodWork, Good
<1>4. Become(r, CallDone(x))
  <2>1. x = [[p EXCEPT !.results = results] EXCEPT !.c.frozen = @ \union {p.asked}, !.asking = 0]
    <3> HIDE DEF results
    <3> QED  BY <1>2, <1>3 DEF Work, Conversation
  <2>2. x = [[p EXCEPT !.results = @ \union {<<p.call, p.asked>>}]
                EXCEPT !.c.frozen = @ \union {p.asked}, !.asking = 0]
    BY <2>1
  <2> HIDE DEF x
  <2> QED  BY <1>1, <2>2 DEF ToolFails
<1>5. InReply(p, MaxHandle) /\ p.c.pending = None  BY <1>2, <1>3 DEF Right, InReply, Counted
<1>6. results \in SUBSET Numbers  BY <1>2 DEF Work, Numbers
<1>7. p.asked \in 1 .. handleSeq  BY <1>2, <1>3, Bounds DEF GoodWork, Work
<1>8. /\ d.pending = p.c.pending /\ d.status = p.c.status /\ d.msgs = p.c.msgs
      /\ d.noticed = p.c.noticed /\ d.frozen = p.c.frozen \union {p.asked}
      /\ d.handles = p.c.handles /\ d.superseded = p.c.superseded
  BY <1>3 DEF Conversation
<1>9. Good(d, MaxHandle, handleSeq)
  <2>1. p.c.frozen \union {p.asked} \in SUBSET Nat  BY <1>2, <1>3 DEF Conversation, Work
  <2>2. d \in Conversation  BY <1>3, <2>1 DEF Conversation
  <2> HIDE DEF d
  <2> QED  BY <1>3, <1>7, <1>8, <2>2 DEF Good
<1>10. /\ x.pc = p.pc /\ x.c = d /\ x.kind = p.kind /\ x.before = p.before
       /\ x.token = p.token /\ x.init = p.init /\ x.asking = 0 /\ x.asked = p.asked
       /\ x.parked = p.parked /\ x.call = p.call /\ x.calls = p.calls
       /\ x.results = p.results \union {<<p.call, p.asked>>}
  <2> HIDE DEF d
  <2> QED  BY <1>2 DEF Work
<1>11. x \in Work
  <2> HIDE DEF d, results
  <2> QED  BY <1>2, <1>6, <1>9 DEF Work, Good
<1> HIDE DEF x, d, results
<1>12. GoodWork(x, MaxHandle, handleSeq)
  BY <1>2, <1>3, <1>9, <1>10, <1>11, Bounds DEF GoodWork, Keeping, Owing
<1>13. Counted(x, MaxHandle, x.call)
  <2>1. /\ x.c.pending = p.c.pending /\ x.c.status = p.c.status /\ x.c.msgs = p.c.msgs
        /\ x.c.frozen = p.c.frozen \union {p.asked} /\ p.asked # 0 /\ p \in Work
    BY <1>2, <1>3, <1>8, <1>10
  <2> QED  BY ONLY <1>5, <1>10, <2>1, WithdrawnCounted
<1>14. \E q : Does(r, q)
  <2>1. x.c.msgs = p.c.msgs /\ x.c.noticed = p.c.noticed /\ p.c.frozen \subseteq x.c.frozen
    BY <1>8, <1>10
  <2> QED  BY <1>2, <1>3, <1>4, <1>5, <1>10, <1>12, <1>13, <2>1, CallOver
<1> QED  BY <1>3, <1>14

-----------------------------------------------------------------------------
(* Taking the conversation, letting go, and what no request does            *)

LEMMA LoadOrderly ==
  ASSUME Typed, Leased, Orderly, NEW r \in Request, NEW kind \in AllKinds, Load(r, kind)
  PROVE  Orderly'
<1> DEFINE pc == CASE kind = "start" /\ row.c.msgs # <<>> -> "end"
                   [] row.c.announcing # None             -> "announce"
                   [] OTHER                               -> "begin"
           q == [Fresh EXCEPT !.kind = kind, !.token = row.token + 1, !.c = row.c, !.pc = pc]
<1>1. /\ row'.c = row.c /\ row'.token = row.token + 1 /\ ~Running(r) /\ setup' = setup
      /\ kind \in Kinds
  BY LoadIs DEF Load
<1>2. /\ req'[r] = q /\ \A s \in Request : s # r => req'[s] = req[s]
  <2>1. Become(r, q)  BY DEF Load
  <2> HIDE DEF q
  <2> QED  BY <2>1, Moves
<1>3. pc \in {"end", "announce", "begin"}  OBVIOUS
<1> HIDE DEF pc
<1>4. /\ q.pc = pc /\ q.kind = kind /\ q.c = row.c /\ q.init = None /\ q.token = row.token + 1
      /\ q.results = {} /\ q.asking = 0 /\ q.asked = 0 /\ q.parked = None
  BY DEF Fresh
<1> HIDE DEF q
<1>5. AtRest(row.c) /\ Quotes(row.c) /\ ~Keeping(q)  BY <1>3, <1>4 DEF Orderly, Keeping
<1>6. Clear(q)  BY <1>4 DEF Clear
<1>7. Right(q, MaxHandle) /\ Quoted(q)
  BY <1>3, <1>4, <1>5, <1>6 DEF Right, Quoted
<1>8. Keeps(row.c, row.c, MaxHandle)  BY <1>5, KeepsItself, Bounds DEF Typed
<1>9. Kept(row.c, q, MaxHandle)  BY <1>4, <1>5, <1>8 DEF Kept
<1>10. row.token \in Nat  BY RowTyped
<1>11. ASSUME NEW s \in Request, req'[s].pc # "off", req'[s].token = row'.token
       PROVE  Kept(row'.c, req'[s], MaxHandle)
  <2>1. CASE s = r  BY <1>1, <1>2, <1>9, <2>1
  <2>2. CASE s # r
    <3>1. req[s].token = row.token + 1 /\ Running(s)  BY <1>1, <1>2, <1>11, <2>2 DEF Running
    <3>2. req[s].token <= row.token  BY <3>1 DEF Leased
    <3> QED  BY <1>10, <3>1, <3>2
  <2> QED  BY <2>1, <2>2
<1>12. \A s \in Request : /\ Right(req'[s], MaxHandle) /\ Quoted(req'[s])
                          /\ req'[s].kind = "wake" => "wake" \in Kinds
  BY <1>1, <1>2, <1>4, <1>7 DEF Orderly
<1>13. MaxHandle' = MaxHandle /\ Kinds' = Kinds  BY <1>1 DEF MaxHandle, Kinds
<1> QED  BY <1>1, <1>5, <1>11, <1>12, <1>13 DEF Orderly, Running, Fence

LEMMA FreshRight ==
  ASSUME NEW n
  PROVE  /\ Right(Fresh, n) /\ Quoted(Fresh)
         /\ AtRest(NewConversation) /\ Quotes(NewConversation)
<1>1. /\ NewConversation.msgs = <<>> /\ NewConversation.noticed = 0
      /\ NewConversation.pending = None /\ NewConversation.status = "idle"
      /\ NewConversation.frozen = {}
  BY DEF NewConversation
<1>2. Len(NewConversation.msgs) = 0 /\ 1 .. 0 = {}  BY <1>1
<1>3. Quotes(NewConversation)  BY <1>1, QuotesAtFirst
<1>4. Even(NewConversation)  BY <1>1, <1>2 DEF Even, Followed, Accounts
<1>5. AtRest(NewConversation)  BY <1>1, <1>4 DEF AtRest
<1>6. /\ Fresh.pc = "off" /\ Fresh.c = NewConversation
  BY DEF Fresh
<1>7. ~Keeping(Fresh)  BY <1>6 DEF Keeping
<1>8. Right(Fresh, n) /\ Quoted(Fresh)  BY <1>3, <1>5, <1>6, <1>7 DEF Right, Quoted
<1> QED  BY <1>3, <1>5, <1>8

LEMMA LeavesOrderly ==
  ASSUME Typed, Leased, Orderly, NEW r \in Request, Leaves(r)
  PROVE  Orderly'
<1>1. /\ Become(r, Fresh) /\ Running(r) /\ setup' = setup
      /\ \/ row' = row
         \/ Fence(r) /\ req[r].pc = "end" /\ row' = Saved(req[r], FALSE)
  BY DEF Leaves, Stop
<1>2. /\ req'[r] = Fresh /\ \A s \in Request : s # r => req'[s] = req[s]  BY <1>1, Moves
<1>3. Right(Fresh, MaxHandle) /\ Quoted(Fresh) /\ Fresh.pc = "off" /\ Fresh.kind = "none"
  BY FreshRight DEF Fresh
<1>4. \A s \in Request : /\ Right(req'[s], MaxHandle) /\ Quoted(req'[s])
                         /\ req'[s].kind = "wake" => "wake" \in Kinds
  BY <1>2, <1>3 DEF Orderly
<1>5. MaxHandle' = MaxHandle /\ Kinds' = Kinds  BY <1>1 DEF MaxHandle, Kinds
<1>6. CASE row' = row
  <2>1. ASSUME NEW s \in Request, req'[s].pc # "off", req'[s].token = row'.token
        PROVE  Kept(row'.c, req'[s], MaxHandle)
    <3>1. s # r  BY <1>2, <1>3, <2>1
    <3>2. Running(s) /\ Fence(s)  BY <1>2, <1>6, <2>1, <3>1 DEF Running, Fence
    <3> QED  BY <1>2, <1>6, <3>1, <3>2 DEF Orderly
  <2> QED  BY <1>1, <1>4, <1>5, <1>6, <2>1 DEF Orderly, Running, Fence
<1>7. CASE Fence(r) /\ req[r].pc = "end" /\ row' = Saved(req[r], FALSE)
  <2>1. row'.c = req[r].c /\ row'.token = row.token  BY <1>7 DEF Saved, Fence
  <2>2. AtRest(row'.c) /\ Quotes(row'.c)  BY <1>7, <2>1, Holds DEF Right, Quoted
  <2>3. ASSUME NEW s \in Request, req'[s].pc # "off", req'[s].token = row'.token
        PROVE  FALSE
    <3>1. s # r  BY <1>2, <1>3, <2>3
    <3>2. Running(s) /\ req[s].token = req[r].token
      BY <1>2, <1>7, <2>1, <2>3, <3>1 DEF Running, Fence
    <3> QED  BY <1>1, <3>1, <3>2 DEF Leased
  <2> QED  BY <1>1, <1>4, <1>5, <2>2, <2>3 DEF Orderly, Running, Fence
<1> QED  BY <1>1, <1>6, <1>7

LEMMA OrderlyElsewhere == ASSUME Orderly, Elsewhere PROVE Orderly'
BY DEF Orderly, Elsewhere, Running, Fence, MaxHandle, Kinds

LEMMA OrderlyAtFirst == ASSUME Init PROVE Orderly
<1>1. /\ setup \in Setups /\ row.c = NewConversation
      /\ \A r \in Request : req[r] = Fresh
  BY DEF Init
<1>2. Fresh.pc = "off" /\ Fresh.kind = "none"  BY DEF Fresh
<1> QED  BY <1>1, <1>2, FreshRight DEF Orderly, Running

-----------------------------------------------------------------------------
(* The invariant holds                                                      *)

\* A wake turn's last read is taken not to fail: see the run turns_wake_read_fails.
WakesRead == \A s \in Setups : "wake" \in s.kinds => ~s.readFails

LEMMA OrderlyStep ==
  ASSUME WakesRead, Typed, Leased, Telling, Orderly, [Next]_vars
  PROVE  Orderly'
<1>0. AsksToWake \subseteq BOOLEAN  BY DEF AsksToWake
<1>1. ASSUME NEW r \in Request, (\E q : Does(r, q)) /\ row' = row PROVE Orderly'
  <2>1. PICK q : Does(r, q)  BY <1>1
  <2> QED  BY <1>1, <2>1, OrderlyDoes
<1>2. ASSUME NEW r \in Request, \E q : Saves(r, q) PROVE Orderly'
  <2>1. PICK q : Saves(r, q)  BY <1>2
  <2> QED  BY <2>1, OrderlyDoes DEF Saves
<1>3. ASSUME NEW r \in Request, NEW kind \in AllKinds, Load(r, kind) PROVE Orderly'
  BY <1>3, LoadOrderly
<1>4. ASSUME NEW r \in Request, ToolOvertaken(r) \/ Overtaken(r) \/ Crash(r) \/ Release(r)
      PROVE  Orderly'
  <2>1. Leaves(r)  BY <1>4 DEF ToolOvertaken, Overtaken, Crash, Release, Leaves, Running
  <2> QED  BY <2>1, LeavesOrderly
<1>5. ASSUME NEW r \in Request,
             Announce(r) \/ AppendOwed(r) \/ SendMessage(r) \/ CallInit(r) \/ InitFails(r)
               \/ InitReturns(r)
      PROVE  Orderly'
  BY <1>1, <1>5, AnnounceDoes, AppendOwedDoes, SendMessageDoes, CallInitDoes, InitFailsDoes,
     InitReturnsDoes
<1>6. ASSUME NEW r \in Request, Refuse(r) \/ Tell(r) \/ WakeLimited(r) \/ ReadContext(r)
      PROVE  Orderly'
  BY <1>1, <1>6, EndsPlainly
<1>7. ASSUME NEW r \in Request, NEW h \in Handle, Click(r, h) PROVE Orderly'
  BY <1>1, <1>7, ClickDoes
<1>8. ASSUME NEW r \in Request, NEW h \in Handle, NEW wake \in AsksToWake, Revise(r, h, wake)
      PROVE  Orderly'
  <2>1. wake \in BOOLEAN  BY <1>0
  <2> QED  BY <1>1, <1>8, <2>1, ReviseDoes
<1>9. ASSUME NEW r \in Request, Wake(r) PROVE Orderly'
  BY <1>1, <1>9, WakeDoes
<1>10. ASSUME NEW r \in Request, CommitLands(r) \/ CommitFails(r) PROVE Orderly'
  BY <1>2, <1>10, CommitLandsDoes, CommitFailsDoes
<1>11. ASSUME NEW r \in Request, ModelFails(r) \/ ContextFails(r) PROVE Orderly'
  BY <1>1, <1>11, FailsDoes DEF WakesRead
<1>12. ASSUME NEW r \in Request, NEW n \in Call, ModelCutShort(r, n) \/ ModelCalls(r, n)
       PROVE  Orderly'
  BY <1>1, <1>12, ModelCutShortDoes, ModelCallsDoes
<1>13. ASSUME NEW r \in Request, NEW asks \in BOOLEAN, ToolShows(r, asks) PROVE Orderly'
  BY <1>1, <1>13, ToolShowsDoes
<1>14. ASSUME NEW r \in Request, NEW h \in Handle, ToolRevises(r, h) PROVE Orderly'
  BY <1>1, <1>14, ToolRevisesDoes
<1>15. ASSUME NEW r \in Request, ModelAnswers(r) \/ ToolSkipped(r) \/ ToolReturns(r) \/ ToolFails(r)
       PROVE  Orderly'
  BY <1>1, <1>15, ModelAnswersDoes, ToolSkippedDoes, ToolReturnsDoes, ToolFailsDoes
<1>16. CASE Lapse \/ (\E wake \in AsksToWake : Notify(wake)) \/ UNCHANGED vars
  <2>1. CASE Lapse
    <3>1. row' = [row EXCEPT !.held = FALSE]  BY <2>1 DEF Lapse
    <3>2. row'.c = row.c /\ row'.token = row.token  BY <3>1 DEF Typed, Row
    <3>3. Elsewhere  BY <2>1, <3>2 DEF Lapse, Elsewhere
    <3> QED  BY <3>3, OrderlyElsewhere
  <2>2. CASE \E wake \in AsksToWake : Notify(wake)
    <3>1. ASSUME NEW wake \in BOOLEAN, Notify(wake) PROVE Elsewhere
      BY <3>1 DEF Notify, Elsewhere
    <3> QED  BY <1>0, <2>2, <3>1, OrderlyElsewhere
  <2>3. CASE UNCHANGED vars
    <3>1. Elsewhere  BY <2>3 DEF vars, Elsewhere
    <3> QED  BY <3>1, OrderlyElsewhere
  <2> QED  BY <1>16, <2>1, <2>2, <2>3
<1> QED
  BY <1>3, <1>4, <1>5, <1>6, <1>7, <1>8, <1>9, <1>10, <1>11, <1>12, <1>13, <1>14, <1>15, <1>16
     DEF Next

LEMMA OrderlyAlways == ASSUME WakesRead PROVE Spec => [](Sound /\ Orderly)
<1>1. Init => Orderly  BY OrderlyAtFirst
<1>2. Sound /\ Orderly /\ [Next]_vars => Orderly'
  BY OrderlyStep DEF Sound
<1> QED  BY <1>1, <1>2, SoundAlways, PTL DEF Spec

\* What a save puts on record keeps the question there was.
LEMMA RowKeeps ==
  ASSUME Typed, Orderly, [Next]_vars
  PROVE  Keeps(row.c, row'.c, MaxHandle) /\ MaxHandle' = MaxHandle
<1>1. ASSUME row'.c = row.c PROVE Keeps(row.c, row'.c, MaxHandle)
  <2>1. AtRest(row.c)  BY DEF Orderly
  <2> QED  BY <1>1, <2>1, KeepsItself, Bounds DEF Typed
<1>2. ASSUME NEW r \in Request, Running(r), Fence(r), row'.c = req[r].c
      PROVE  Keeps(row.c, row'.c, MaxHandle)
  BY <1>2 DEF Orderly, Kept
<1>3. ASSUME NEW r \in Request, NEW kind \in AllKinds, Load(r, kind)
      PROVE  row'.c = row.c /\ setup' = setup
  BY <1>3, LoadIs DEF Load
<1>4. ASSUME NEW r \in Request, NEW q,
             Begins(r, q) \/ Announces(r, q) \/ Revises(r, q) \/ Wakes(r, q) \/ Worked(r, q)
      PROVE  row'.c = row.c /\ setup' = setup
  BY <1>4 DEF Begins, Announces, Revises, Wakes, Worked, Goes
<1>5. ASSUME NEW r \in Request, NEW q, Lands(r, q)
      PROVE  Running(r) /\ Fence(r) /\ row'.c = req[r].c /\ setup' = setup
  BY <1>5 DEF Lands, Running, Saved
<1>6. ASSUME NEW r \in Request, NEW c, Closes(r, c)
      PROVE  /\ row'.c = row.c \/ (Running(r) /\ Fence(r) /\ row'.c = req[r].c)
             /\ setup' = setup
  BY <1>6 DEF Closes, Running, Saved
<1>7. ASSUME NEW r \in Request, Leaves(r)
      PROVE  /\ row'.c = row.c \/ (Running(r) /\ Fence(r) /\ row'.c = req[r].c)
             /\ setup' = setup
  BY <1>7 DEF Leaves, Running, Saved
<1>8. Elsewhere => row'.c = row.c /\ setup' = setup  BY DEF Elsewhere
<1>9. Keeps(row.c, row'.c, MaxHandle) /\ setup' = setup
  BY <1>1, <1>2, <1>3, <1>4, <1>5, <1>6, <1>7, <1>8, Steps
<1> QED  BY <1>9 DEF MaxHandle

-----------------------------------------------------------------------------
(* What a run checks of it                                                  *)

\* What the model is sent it can follow: whatever a turn starts from, and whichever
\* of its tools were skipped, failed, or parked the reply on a question, each reply
\* with calls is followed at once by one message with every result (runTurn, send,
\* and interact in runtime.ts, with what failed turns are closed as or put back to).
THEOREM TheModelCanFollow == ASSUME WakesRead PROVE Spec => []HistoryFollowable
<1>1. Orderly => HistoryFollowable
  <2> SUFFICES ASSUME Orderly, NEW r \in Request, req[r].pc = "model"
               PROVE  \A i \in 1 .. Len(req[r].c.msgs) : CallsAnswered(req[r].c.msgs, i)
    BY DEF HistoryFollowable
  <2>1. AtRest(req[r].c) /\ req[r].c.pending = None  BY DEF Orderly, Right
  <2>2. Even(req[r].c)  BY <2>1, RestParts
  <2> QED  BY <2>2 DEF Even, Followed
<1> QED  BY <1>1, OrderlyAlways, PTL

\* The row says awaiting exactly when it holds a question, and the question can be
\* answered: on a surface live at its latest revision, with every other result of
\* the reply that asked it. No failed, overtaken or killed request leaves another
\* state on record (parking in runTurn, interact's undo, hai.update's move).
THEOREM TheQuestionCanBeAnswered == ASSUME WakesRead PROVE Spec => []PendingAnswerable
<1>1. Orderly => PendingAnswerable
  <2> SUFFICES ASSUME Orderly  PROVE PendingAnswerable
    OBVIOUS
  <2> DEFINE c == row.c
  <2>1. AtRest(c)  BY DEF Orderly
  <2>2. c.status = "awaiting" <=> c.pending # None  BY <2>1, RestParts
  <2>3. ASSUME c.pending # None
        PROVE  /\ Revisable(c, c.pending.handle)
               /\ Last(c.msgs).role = "assistant"
               /\ Last(c.msgs).calls = {c.pending.call} \union Given(c.pending.results)
               /\ c.pending.call \notin Given(c.pending.results)
    BY <2>1, <2>3, RestParts DEF Answerable, Replied, Last
  <2> QED  BY <2>2, <2>3 DEF PendingAnswerable, Given
<1> QED  BY <1>1, OrderlyAlways, PTL

\* A surface is frozen exactly when the history holds, once, the result that
\* settles it, or a question's results will: whatever fails between freezing and
\* saving undoes both or neither (interact and runTurn in runtime.ts).
THEOREM FrozenAsAnswered == ASSUME WakesRead PROVE Spec => []FrozenWithHistory
<1>1. Orderly => FrozenWithHistory
  <2> SUFFICES ASSUME Orderly  PROVE FrozenWithHistory
    OBVIOUS
  <2> DEFINE c == row.c
             held == IF c.pending = None THEN {} ELSE SettledIn(c.pending.results)
  <2>1. AtRest(c)  BY DEF Orderly
  <2>2. Accounts(c.msgs, c.frozen, held)
    BY <2>1, RestParts DEF Even, Answerable
  <2> HIDE DEF held
  <2>3. /\ c.frozen = (UNION {SettledBy(c.msgs[i]) : i \in 1 .. Len(c.msgs)}) \union held
        /\ \A i, j \in 1 .. Len(c.msgs) :
             i # j => SettledBy(c.msgs[i]) \cap SettledBy(c.msgs[j]) = {}
        /\ \A i \in 1 .. Len(c.msgs) : SettledBy(c.msgs[i]) \cap held = {}
    BY <2>2 DEF Accounts
  <2> QED  BY <2>3 DEF FrozenWithHistory, SettledBy, held
<1> QED  BY <1>1, OrderlyAlways, PTL

\* The history quotes each notice it has taken in once, in order and without a gap,
\* however many turns were undone, put back or retried (noticedThrough and the
\* messages unread notices are quoted in, runtime.ts).
THEOREM NoticesQuotedOnce == ASSUME WakesRead PROVE Spec => []NoticesOnce
<1>1. Orderly => NoticesOnce
  <2> SUFFICES ASSUME Orderly  PROVE NoticesOnce
    OBVIOUS
  <2>1. QuotesOf(row.c.msgs) = From(0, row.c.noticed)  BY DEF Orderly, Quotes
  <2>2. From(0, row.c.noticed) = [n \in 1 .. row.c.noticed |-> n]
    BY DEF From
  <2> QED  BY <2>1, <2>2 DEF QuotesOf, QuotedIn, NoticesOnce
<1> QED  BY <1>1, OrderlyAlways, PTL

\* A question on record goes only with its answer, or on to its surface's latest
\* revision with the same call and results: no save by any holder drops or swaps it
\* (interact's undo, a wake turn's, hai.update's move, runtime.ts).
THEOREM NoQuestionIsLost == ASSUME WakesRead PROVE Spec => QuestionKept
<1> DEFINE p == row.c.pending
           Still == \/ /\ row'.c.pending # None
                       /\ row'.c.pending.call = p.call /\ row'.c.pending.results = p.results
                       /\ row'.c.pending.handle = CurrentHandle(row'.c, p.handle)
                    \/ p.handle \in row'.c.frozen
<1>1. Sound /\ Sound' /\ Orderly /\ [Next]_vars => (row.c.pending # None => Still)
  <2> SUFFICES ASSUME Sound, Sound', Orderly, [Next]_vars, row.c.pending # None
               PROVE  Still
    OBVIOUS
  <2>1. Keeps(row.c, row'.c, MaxHandle) /\ MaxHandle' = MaxHandle  BY RowKeeps DEF Sound
  <2>2. Good(row'.c, MaxHandle, handleSeq')  BY <2>1 DEF Sound, Typed
  <2>3. CASE p.handle \in row'.c.frozen  BY <2>3
  <2>4. CASE /\ row'.c.pending # None
             /\ row'.c.pending.call = p.call /\ row'.c.pending.results = p.results
             /\ LeadsTo(row'.c, MaxHandle, p.handle, row'.c.pending.handle)
    <3>1. PICK c, seq, h, x : /\ c = row'.c /\ seq = handleSeq'
                              /\ h = p.handle /\ x = row'.c.pending.handle
      OBVIOUS
    <3>2. Good(c, MaxHandle, seq) /\ LeadsTo(c, MaxHandle, h, x)  BY <2>2, <2>4, <3>1
    <3>3. CurrentHandle(c, h) = x  BY ONLY <3>2, LeadsToCurrent
    <3> QED  BY <2>4, <3>1, <3>3
  <2> QED  BY <2>1, <2>3, <2>4 DEF Keeps
<1>2. Sound /\ Sound' /\ Orderly /\ [Next]_vars
        => [row.c.pending # None => Still]_row
  BY <1>1
<1>3. QuestionKept <=> [][row.c.pending # None => Still]_row
  BY DEF QuestionKept
<1> HIDE DEF Still
<1> QED  BY <1>2, <1>3, OrderlyAlways, PTL DEF Spec
=============================================================================
