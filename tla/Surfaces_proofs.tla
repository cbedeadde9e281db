--------------------------- MODULE Surfaces_proofs ---------------------------
(****************************************************************************)
(* The two ways a surface is shown and revised in one server, as            *)
(* MCSurfaces has them: Questions, by the tools of a reply, and             *)
(* UpdateQueue, by hai.update outside any turn.                             *)
(****************************************************************************)
EXTENDS Questions, UpdateQueue, SequenceTheorems, FiniteSetTheorems, TLAPS

------------------------------------------------------------------------------
(****************************************************************************)
(* What Questions says of any number of calls, renders and revisions: one   *)
(* live question at a time, one chain of revisions, and a turn that parks   *)
(* on the question it shows.                                                *)
(*                                                                          *)
(* The claim is all there is to say of the screen (ClaimIsLive): it has     *)
(* shown the live question, or there is none.  So what a tool has under     *)
(* way must not disturb it: only the op with the claim stores a question    *)
(* (StoringClaims), and a surface under revision is not frozen, revised or  *)
(* revised twice meanwhile (RevisesApart), because no op outlives its call  *)
(* (NoneLeftOver).  The chain of revisions is followed without an induction *)
(* over its length: each step that lengthens it keeps an end for every      *)
(* handle, and one only (ChainEnds).                                        *)
(****************************************************************************)

Kinds == {"display", "ask", "revise"}
Ats   == {"waiting", "storing", "shown", "refused", "failed"}
OpRecord == [call : Nat, kind : Kinds, target : Nat, at : Ats, other : Nat]

Claims == [op : Nat, handle : Nat]
Parks  == [call : Nat, handle : Nat]

Typed ==
  /\ reply \in {"running", "parked", "answered", "lost"}
  /\ call \in 1 .. MaxCalls /\ tool \in {"running", "returned", "threw"}
  /\ ops \in Seq(OpRecord)
  /\ asking \in Claims \union {None} /\ asked \in Nat
  /\ parked \in Parks \union {None}
  /\ handleSeq \in Nat
  /\ questions \subseteq Handle /\ frozen \subseteq Handle
  /\ superseded \subseteq Handle \X Handle

\* The surface the claim has shown.
Claimed == IF asking = None THEN {} ELSE {asking.handle} \ {0}

\* What is live is what the claim has shown.
ClaimIsLive == Live = Claimed

\* The claim is a question's, and one being stored has it; only questions wait.
StoringClaims ==
  /\ \A i \in Op : ops[i].at = "waiting" => ops[i].kind = "ask"
  /\ asking # None => asking.op \in Op /\ ops[asking.op].kind = "ask"
  /\ \A i \in Op : ops[i].kind = "ask" /\ Storing(i) =>
       asking # None /\ asking.op = i /\ asking.handle = 0

\* What is being revised has not been revised, nor withdrawn.
RevisesApart ==
  \A i \in Op : ops[i].kind = "revise" /\ Storing(i) =>
    /\ ops[i].target \in Handle \ (frozen \union Superseded)
    /\ \A j \in Op : ops[j].kind = "revise" /\ Storing(j) /\ ops[j].target = ops[i].target => j = i

\* A call ends once all it started has settled.
NoneLeftOver == \A i \in Op : ops[i].call # call => Settled(i)

\* A call that asked has shown what it asked, and is the only one to have asked;
\* what the claim has shown, this call asked or the turn parks on.
AskedIsClaimed ==
  /\ asked # 0 => asking # None /\ asking.handle = asked
  /\ parked # None => asked = 0 /\ asking # None /\ asking.handle # 0
  /\ asked = 0 /\ parked = None => Claimed = {}

\* Every call before this one has its result, unless the turn parks on it.
EarlierTold ==
  LET before == IF reply \in {"running", "lost"} THEN 1 .. (call - 1) ELSE 1 .. MaxCalls
  IN  /\ told = {c \in before : parked = None \/ c # parked.call}
      /\ parked # None => parked.call \in before
      /\ reply = "parked" => parked # None
      /\ reply = "answered" => parked = None /\ asked = 0

\* A surface's revision, among the pairs given.
NextIn(pairs, h) == (CHOOSE s \in pairs : s[1] = h)[2]
Firsts(pairs) == {s[1] : s \in pairs}

\* e takes every handle to the end of its chain, as currentHandle does.
Ends(e, handles, pairs) ==
  e = [x \in handles |-> IF x \in Firsts(pairs) THEN e[NextIn(pairs, x)] ELSE x]

\* e alone does, of n handles, and to ends that nothing has revised.
TheEnds(e, n, pairs) ==
  /\ e \in [1 .. n -> (1 .. n) \ Firsts(pairs)]
  /\ Ends(e, 1 .. n, pairs)
  /\ \A f : Ends(f, 1 .. n, pairs) => f = e

\* Each chain has one end; that of the turn's question is the claim's.
ChainEnds ==
  \E e :
    /\ TheEnds(e, handleSeq, superseded)
    /\ parked # None => parked.handle \in Handle /\ e[parked.handle] = asking.handle

IInv ==
  /\ Typed
  /\ ClaimIsLive
  /\ StoringClaims
  /\ RevisesApart
  /\ NoneLeftOver
  /\ AskedIsClaimed
  /\ EarlierTold
  /\ OneRevision
  /\ ChainEnds

-----------------------------------------------------------------------------
(* One op of many                                                           *)

LEMMA OpStarts ==
  ASSUME NEW seq \in Seq(OpRecord), NEW c \in Nat, NEW kind \in Kinds, NEW target \in Nat,
         NEW at \in Ats, NEW other \in Nat,
         NEW more, more = Append(seq, [call |-> c, kind |-> kind, target |-> target,
                                       at |-> at, other |-> other])
  PROVE  /\ more \in Seq(OpRecord)
         /\ Len(seq) \in Nat /\ Len(more) = Len(seq) + 1
         /\ more[Len(seq) + 1] = [call |-> c, kind |-> kind, target |-> target,
                                  at |-> at, other |-> other]
         /\ \A j \in 1 .. Len(seq) : more[j] = seq[j]
<1> DEFINE rec == [call |-> c, kind |-> kind, target |-> target, at |-> at, other |-> other]
<1>1. rec \in OpRecord  BY DEF OpRecord
<1>2. more = Append(seq, rec)  OBVIOUS
<1> HIDE DEF rec
<1>3. /\ more \in Seq(OpRecord) /\ Len(more) = Len(seq) + 1
      /\ \A j \in 1 .. Len(seq) : more[j] = seq[j]
      /\ more[Len(seq) + 1] = rec
  BY <1>1, <1>2, AppendProperties
<1>4. Len(seq) \in Nat  BY LenProperties
<1> QED  BY <1>3, <1>4 DEF rec

\* Whatever step of it an op makes, what it is stays the same.
LEMMA OpChanges ==
  ASSUME NEW seq \in Seq(OpRecord), NEW i \in 1 .. Len(seq),
         NEW rec \in OpRecord, NEW other, other = [seq EXCEPT ![i] = rec]
  PROVE  /\ other \in Seq(OpRecord) /\ Len(other) = Len(seq) /\ Len(seq) \in Nat
         /\ \A j \in 1 .. Len(seq) : other[j] = IF j = i THEN rec ELSE seq[j]
<1>1. Len(seq) \in Nat /\ DOMAIN seq = 1 .. Len(seq)  BY LenProperties
<1>2. /\ other \in Seq(OpRecord) /\ Len(other) = Len(seq)
      /\ \A j \in 1 .. Len(seq) : other[j] = IF j = i THEN rec ELSE seq[j]
  BY ExceptSeq
<1> QED  BY <1>1, <1>2

LEMMA AtChanges ==
  ASSUME NEW seq \in Seq(OpRecord), NEW i \in 1 .. Len(seq),
         NEW at \in Ats, NEW new, new = [seq EXCEPT ![i].at = at]
  PROVE  /\ new \in Seq(OpRecord) /\ Len(new) = Len(seq) /\ Len(seq) \in Nat
         /\ \A j \in 1 .. Len(seq) :
              /\ new[j].call = seq[j].call /\ new[j].kind = seq[j].kind
              /\ new[j].target = seq[j].target /\ new[j].other = seq[j].other
              /\ new[j].at = IF j = i THEN at ELSE seq[j].at
<1> DEFINE rec == [seq[i] EXCEPT !.at = at]
<1>1. seq[i] \in OpRecord  BY ElementOfSeq
<1>2. /\ rec \in OpRecord
      /\ rec.call = seq[i].call /\ rec.kind = seq[i].kind
      /\ rec.target = seq[i].target /\ rec.other = seq[i].other /\ rec.at = at
  BY <1>1 DEF OpRecord
<1>3. new = [seq EXCEPT ![i] = rec]  OBVIOUS
<1> HIDE DEF rec
<1>4. /\ new \in Seq(OpRecord) /\ Len(new) = Len(seq) /\ Len(seq) \in Nat
      /\ \A j \in 1 .. Len(seq) : new[j] = IF j = i THEN rec ELSE seq[j]
  <2>1. rec \in OpRecord  BY <1>2
  <2> QED  BY <2>1, <1>3, OpChanges
<1> QED  BY <1>2, <1>4

LEMMA OtherChanges ==
  ASSUME NEW seq \in Seq(OpRecord), NEW i \in 1 .. Len(seq),
         NEW other \in Nat, NEW new, new = [seq EXCEPT ![i].other = other]
  PROVE  /\ new \in Seq(OpRecord) /\ Len(new) = Len(seq) /\ Len(seq) \in Nat
         /\ \A j \in 1 .. Len(seq) :
              /\ new[j].call = seq[j].call /\ new[j].kind = seq[j].kind
              /\ new[j].target = seq[j].target /\ new[j].at = seq[j].at
<1> DEFINE rec == [seq[i] EXCEPT !.other = other]
<1>1. seq[i] \in OpRecord  BY ElementOfSeq
<1>2. /\ rec \in OpRecord
      /\ rec.call = seq[i].call /\ rec.kind = seq[i].kind
      /\ rec.target = seq[i].target /\ rec.at = seq[i].at
  BY <1>1 DEF OpRecord
<1>3. new = [seq EXCEPT ![i] = rec]  OBVIOUS
<1> HIDE DEF rec
<1>4. /\ new \in Seq(OpRecord) /\ Len(new) = Len(seq) /\ Len(seq) \in Nat
      /\ \A j \in 1 .. Len(seq) : new[j] = IF j = i THEN rec ELSE seq[j]
  <2>1. rec \in OpRecord  BY <1>2
  <2> QED  BY <2>1, <1>3, OpChanges
<1> QED  BY <1>2, <1>4

-----------------------------------------------------------------------------
(* Chains of revisions                                                      *)

\* No surface has two revisions.
Single(pairs) == \A s, t \in pairs : s[1] = t[1] => s = t

LEMMA NextIsTheOne ==
  ASSUME NEW pairs, NEW n \in Nat, pairs \subseteq (1 .. n) \X (1 .. n), Single(pairs)
  PROVE  /\ \A s \in pairs : NextIn(pairs, s[1]) = s[2]
         /\ \A h \in Firsts(pairs) : h \in 1 .. n /\ NextIn(pairs, h) \in 1 .. n
<1>1. ASSUME NEW s \in pairs
      PROVE  NextIn(pairs, s[1]) = s[2]
  <2> DEFINE t == CHOOSE t \in pairs : t[1] = s[1]
  <2>1. t \in pairs /\ t[1] = s[1]  OBVIOUS
  <2>2. t = s  BY <2>1 DEF Single
  <2> QED  BY <2>2 DEF NextIn
<1>2. ASSUME NEW h \in Firsts(pairs)
      PROVE  h \in 1 .. n /\ NextIn(pairs, h) \in 1 .. n
  <2>1. PICK s \in pairs : s[1] = h  BY DEF Firsts
  <2>2. NextIn(pairs, h) = s[2]  BY <1>1, <2>1
  <2> QED  BY <2>1, <2>2
<1> QED  BY <1>1, <1>2

\* A surface shown for the first time is the end of its own chain.
LEMMA ChainStarts ==
  ASSUME NEW pairs, NEW n \in Nat, pairs \subseteq (1 .. n) \X (1 .. n), Single(pairs),
         NEW e, TheEnds(e, n, pairs)
  PROVE  \E g :
           /\ TheEnds(g, n + 1, pairs)
           /\ \A x \in 1 .. n : g[x] = e[x]
<1> DEFINE more == 1 .. n + 1
           g == [x \in more |-> IF x = n + 1 THEN x ELSE e[x]]
<1>1. /\ \A h \in Firsts(pairs) : h \in 1 .. n /\ NextIn(pairs, h) \in 1 .. n
  BY NextIsTheOne
<1>2. /\ e \in [1 .. n -> (1 .. n) \ Firsts(pairs)]
      /\ \A x \in 1 .. n : e[x] = IF x \in Firsts(pairs) THEN e[NextIn(pairs, x)] ELSE x
  BY DEF TheEnds, Ends
<1>3. n + 1 \notin Firsts(pairs)  BY <1>1
<1>4. g \in [more -> more \ Firsts(pairs)]
  <2>1. \A x \in 1 .. n : e[x] \in 1 .. n /\ e[x] \notin Firsts(pairs)  BY <1>2
  <2> QED  BY <1>3, <2>1
<1>5. \A x \in more : g[x] = IF x \in Firsts(pairs) THEN g[NextIn(pairs, x)] ELSE x
  BY <1>1, <1>2, <1>3
<1>6. Ends(g, more, pairs)
  <2> HIDE DEF g
  <2> QED  BY <1>4, <1>5 DEF Ends
<1>7. ASSUME NEW f, Ends(f, more, pairs)
      PROVE  f = g
  <2> DEFINE less == [x \in 1 .. n |-> f[x]]
  <2>1. \A x \in more : f[x] = IF x \in Firsts(pairs) THEN f[NextIn(pairs, x)] ELSE x
    BY <1>7 DEF Ends
  <2>2. \A x \in 1 .. n : less[x] = IF x \in Firsts(pairs) THEN less[NextIn(pairs, x)] ELSE x
    BY <1>1, <2>1
  <2>3. Ends(less, 1 .. n, pairs)
    <3>1. less = [x \in 1 .. n |-> less[x]]  OBVIOUS
    <3> HIDE DEF less
    <3> QED  BY <2>2, <3>1 DEF Ends
  <2>4. less = e  BY <2>3 DEF TheEnds
  <2>5. \A x \in more : f[x] = g[x]
    <3>1. \A x \in 1 .. n : f[x] = e[x]  BY <2>4
    <3>2. f[n + 1] = n + 1  BY <1>3, <2>1
    <3> QED  BY <3>1, <3>2
  <2>6. f = [x \in more |-> f[x]]
    <3>1. f = [x \in more |-> IF x \in Firsts(pairs) THEN f[NextIn(pairs, x)] ELSE x]
      BY <1>7 DEF Ends
    <3> QED  BY <2>1, <3>1
  <2> QED  BY <2>5, <2>6
<1>8. \A x \in 1 .. n : g[x] = e[x]  OBVIOUS
<1> HIDE DEF g
<1>9. TheEnds(g, n + 1, pairs)  BY <1>4, <1>6, <1>7 DEF TheEnds
<1> QED  BY <1>8, <1>9

\* The pairs with a revision more.
Revised(pairs, old, new) == pairs \union {<<old, new>>}

\* A revision takes the chains that ended at the surface it revises on to its
\* own, and leaves the others.
LEMMA ChainGrows ==
  ASSUME NEW pairs, NEW n \in Nat, pairs \subseteq (1 .. n) \X (1 .. n), Single(pairs),
         NEW e, TheEnds(e, n, pairs),
         NEW old \in (1 .. n) \ Firsts(pairs),
         NEW all, all = Revised(pairs, old, n + 1)
  PROVE  \E g :
           /\ TheEnds(g, n + 1, all)
           /\ \A x \in 1 .. n : (e[x] = old => g[x] = n + 1) /\ (e[x] # old => g[x] = e[x])
<1> DEFINE more == 1 .. n + 1
           g == [x \in more |-> IF x = n + 1 \/ e[x] = old THEN n + 1 ELSE e[x]]
<1>1. /\ \A s \in pairs : NextIn(pairs, s[1]) = s[2]
      /\ \A h \in Firsts(pairs) : h \in 1 .. n /\ NextIn(pairs, h) \in 1 .. n
  BY NextIsTheOne
<1>2. /\ e \in [1 .. n -> (1 .. n) \ Firsts(pairs)]
      /\ \A x \in 1 .. n : e[x] = IF x \in Firsts(pairs) THEN e[NextIn(pairs, x)] ELSE x
  BY DEF TheEnds, Ends
<1>3. Firsts(all) = Firsts(pairs) \union {old} /\ all = pairs \union {<<old, n + 1>>}
  <2>0. all = pairs \union {<<old, n + 1>>}  BY DEF Revised
  <2>1. \A s \in all : s \in pairs \/ (s = <<old, n + 1>> /\ s[1] = old)  BY <2>0
  <2>2. <<old, n + 1>>[1] = old /\ <<old, n + 1>> \in all  BY <2>0
  <2> QED  BY <2>0, <2>1, <2>2 DEF Firsts
<1>0. /\ n + 1 \in more /\ n + 1 \notin 1 .. n /\ \A x \in 1 .. n : x \in more
      /\ \A x \in more : x = n + 1 \/ x \in 1 .. n
      /\ old \in 1 .. n /\ old \notin Firsts(pairs) /\ old # n + 1
  OBVIOUS
<1>4. n + 1 \notin Firsts(all)
  <2>1. \A h \in Firsts(pairs) : h \in 1 .. n  BY <1>1
  <2> QED  BY <1>0, <1>3, <2>1
<1>5. /\ \A h \in Firsts(pairs) : NextIn(all, h) = NextIn(pairs, h)
      /\ NextIn(all, old) = n + 1
  <2>1. all \subseteq more \X more  BY <1>3
  <2>2. Single(all)
    <3>1. \A s \in pairs : s[1] # old  BY DEF Firsts
    <3>2. \A s \in all : s \in pairs \/ (s = <<old, n + 1>> /\ s[1] = old)  BY <1>3
    <3> QED  BY <3>1, <3>2 DEF Single
  <2>3. \A s \in all : NextIn(all, s[1]) = s[2]
    <3>1. n + 1 \in Nat  OBVIOUS
    <3> QED  BY <2>1, <2>2, <3>1, NextIsTheOne
  <2>4. <<old, n + 1>> \in all /\ <<old, n + 1>>[1] = old /\ <<old, n + 1>>[2] = n + 1
    BY <1>3
  <2>5. NextIn(all, old) = n + 1  BY <2>3, <2>4
  <2>6. ASSUME NEW h \in Firsts(pairs)
        PROVE  NextIn(all, h) = NextIn(pairs, h)
    <3>1. PICK s \in pairs : s[1] = h  BY DEF Firsts
    <3>2. NextIn(pairs, h) = s[2] /\ NextIn(all, h) = s[2]  BY <1>1, <1>3, <2>3, <3>1
    <3> QED  BY <3>2
  <2> QED  BY <2>5, <2>6
<1>6. g \in [more -> more \ Firsts(all)]
  <2>1. \A x \in 1 .. n : e[x] \in 1 .. n /\ e[x] \notin Firsts(pairs)  BY <1>2
  <2> QED  BY <1>0, <1>3, <1>4, <2>1
<1>7. \A x \in more : g[x] = IF x \in Firsts(all) THEN g[NextIn(all, x)] ELSE x
  <2> TAKE x \in more
  <2>1. CASE x = n + 1  BY <1>4, <2>1
  <2>2. CASE x = old
    <3>1. e[x] = old  BY <1>0, <1>2, <2>2
    <3>2. x \in Firsts(all) /\ NextIn(all, x) = n + 1  BY <1>3, <1>5, <2>2
    <3> QED  BY <3>1, <3>2
  <2>3. CASE x \in Firsts(pairs)
    <3>1. NextIn(all, x) = NextIn(pairs, x) /\ NextIn(pairs, x) \in 1 .. n /\ x \in 1 .. n
      BY <1>1, <1>5, <2>3
    <3>2. e[x] = e[NextIn(pairs, x)] /\ x \in Firsts(all)  BY <1>2, <1>3, <2>3, <3>1
    <3> QED  BY <1>0, <3>1, <3>2
  <2>4. CASE x \in 1 .. n /\ x \notin Firsts(pairs) /\ x # old
    <3>1. e[x] = x /\ x \notin Firsts(all)  BY <1>2, <1>3, <2>4
    <3> QED  BY <2>4, <3>1
  <2> QED  BY <1>0, <2>1, <2>2, <2>3, <2>4
<1>8. Ends(g, more, all)
  <2> HIDE DEF g
  <2> QED  BY <1>6, <1>7 DEF Ends
<1>9. ASSUME NEW f, Ends(f, more, all)
      PROVE  f = g
  \* Taken back to the chains before it, f is the one there was; so it ends
  \* none of them at old.
  <2> DEFINE back == [x \in 1 .. n |-> IF f[x] = n + 1 THEN old ELSE IF f[x] = old THEN 0 ELSE f[x]]
  <2>1. \A x \in more : f[x] = IF x \in Firsts(all) THEN f[NextIn(all, x)] ELSE x
    BY <1>9 DEF Ends
  <2>2. f[n + 1] = n + 1  BY <1>0, <1>4, <2>1
  <2>3. \A x \in 1 .. n : back[x] = IF x \in Firsts(pairs) THEN back[NextIn(pairs, x)] ELSE x
    <3> TAKE x \in 1 .. n
    <3>1. CASE x = old
      <4>1. f[x] = f[n + 1]  BY <1>0, <1>3, <1>5, <2>1, <3>1
      <4> QED  BY <2>2, <3>1, <4>1
    <3>2. CASE x \in Firsts(pairs)
      <4>1. f[x] = f[NextIn(pairs, x)] /\ NextIn(pairs, x) \in 1 .. n
        BY <1>0, <1>1, <1>3, <1>5, <2>1, <3>2
      <4> QED  BY <3>2, <4>1
    <3>3. CASE x \notin Firsts(pairs) /\ x # old
      <4>1. f[x] = x  BY <1>0, <1>3, <2>1, <3>3
      <4> QED  BY <3>3, <4>1
    <3> QED  BY <3>1, <3>2, <3>3
  <2>4. back = e
    <3>1. back = [x \in 1 .. n |-> back[x]]  OBVIOUS
    <3>2. Ends(back, 1 .. n, pairs)
      <4> HIDE DEF back
      <4> QED  BY <2>3, <3>1 DEF Ends
    <3> QED  BY <3>2 DEF TheEnds
  <2>5. \A x \in more : f[x] = g[x]
    <3> TAKE x \in more
    <3>1. CASE x = n + 1  BY <2>2, <3>1
    <3>2. CASE x \in 1 .. n
      <4>1. e[x] = IF f[x] = n + 1 THEN old ELSE IF f[x] = old THEN 0 ELSE f[x]
        BY <2>4, <3>2
      <4>2. e[x] \in 1 .. n  BY <1>2, <3>2
      <4> QED  BY <3>2, <4>1, <4>2
    <3> QED  BY <3>1, <3>2
  <2>6. f = [x \in more |-> f[x]]
    <3>1. f = [x \in more |-> IF x \in Firsts(all) THEN f[NextIn(all, x)] ELSE x]
      BY <1>9 DEF Ends
    <3> QED  BY <2>1, <3>1
  <2> QED  BY <2>5, <2>6
<1>10. \A x \in 1 .. n : (e[x] = old => g[x] = n + 1) /\ (e[x] # old => g[x] = e[x])  OBVIOUS
<1> HIDE DEF g
<1>11. TheEnds(g, n + 1, all)  BY <1>6, <1>8, <1>9 DEF TheEnds
<1> QED  BY <1>10, <1>11

\* currentHandle finds the end of a surface's chain.
LEMMA CurrentIsTheEnd ==
  ASSUME NEW e, TheEnds(e, handleSeq, superseded), NEW h
  PROVE  Current(h) = e[h]
<1> DEFINE at == CHOOSE f : f = [x \in Handle |->
                   IF x \in Superseded
                   THEN f[(CHOOSE s \in superseded : s[1] = x)[2]] ELSE x]
<1>1. Current(h) = at[h]  BY DEF Current
<1>2. Ends(at, Handle, superseded)
  <2>1. e = [x \in Handle |-> IF x \in Superseded
                              THEN e[(CHOOSE s \in superseded : s[1] = x)[2]] ELSE x]
    BY DEF TheEnds, Handle, Ends, NextIn, Firsts, Superseded
  <2>2. at = [x \in Handle |-> IF x \in Superseded
                              THEN at[(CHOOSE s \in superseded : s[1] = x)[2]] ELSE x]
    BY <2>1
  <2> QED  BY <2>2 DEF Ends, NextIn, Firsts, Superseded
<1>3. at = e  BY <1>2 DEF TheEnds, Handle
<1> QED  BY <1>1, <1>3

-----------------------------------------------------------------------------
(* The inductive invariant                                                  *)

LEMMA Initially == ASSUME Init PROVE IInv
<1> USE QuestionsAssumption DEF Init
<1>1. Op = {} /\ Handle = {} /\ Superseded = {}  BY DEF Op, Handle, Superseded
<1>2. Typed  BY <1>1, EmptySeq DEF Typed
<1>3. ClaimIsLive  BY <1>1 DEF ClaimIsLive, Live, Claimed
<1>4. StoringClaims /\ RevisesApart /\ NoneLeftOver
  BY <1>1 DEF StoringClaims, RevisesApart, NoneLeftOver
<1>5. AskedIsClaimed  BY DEF AskedIsClaimed, Claimed
<1>6. EarlierTold  BY DEF EarlierTold
<1>7. OneRevision  BY DEF OneRevision
<1>8. ChainEnds
  <2> DEFINE e == [x \in {} |-> x]
  <2>1. \A f : Ends(f, {}, {}) => f = e
    <3> TAKE f
    <3> HAVE Ends(f, {}, {})
    <3>1. f = [x \in {} |-> IF x \in Firsts({}) THEN f[NextIn({}, x)] ELSE x]  BY DEF Ends
    <3> QED  BY <3>1
  <2>2. Ends(e, {}, {})
    <3>1. e = [x \in {} |-> IF x \in Firsts({}) THEN e[NextIn({}, x)] ELSE x]  OBVIOUS
    <3> QED  BY <3>1 DEF Ends
  <2>3. e \in [{} -> {} \ {}]  OBVIOUS
  <2>4. 1 .. 0 = {} /\ Firsts({}) = {}  BY DEF Firsts
  <2> HIDE DEF e
  <2>5. TheEnds(e, 0, {})  BY <2>1, <2>2, <2>3, <2>4 DEF TheEnds
  <2> QED  BY <2>5 DEF ChainEnds
<1> QED  BY <1>2, <1>3, <1>4, <1>5, <1>6, <1>7, <1>8 DEF IInv

LEMMA Started ==
  ASSUME Typed, NEW kind \in Kinds, NEW target \in Nat, NEW at \in Ats, NEW other \in Nat,
         Start(kind, target, at, other)
  PROVE  /\ ops' \in Seq(OpRecord)
         /\ Len(ops) + 1 \in Nat /\ Len(ops) + 1 \notin Op /\ Op' = Op \union {Len(ops) + 1}
         /\ ops'[Len(ops) + 1].call = call /\ ops'[Len(ops) + 1].kind = kind
         /\ ops'[Len(ops) + 1].target = target /\ ops'[Len(ops) + 1].at = at
         /\ \A j \in Op : ops'[j] = ops[j]
<1>1. ops \in Seq(OpRecord) /\ call \in Nat  BY QuestionsAssumption DEF Typed
<1>2. /\ ops' \in Seq(OpRecord)
      /\ Len(ops) \in Nat /\ Len(ops') = Len(ops) + 1
      /\ ops'[Len(ops) + 1] = [call |-> call, kind |-> kind, target |-> target,
                               at |-> at, other |-> other]
      /\ \A j \in 1 .. Len(ops) : ops'[j] = ops[j]
  BY <1>1, OpStarts DEF Start
<1> QED  BY <1>2 DEF Op

LEMMA Moved ==
  ASSUME Typed, NEW i \in Op, NEW at \in Ats, ops' = [ops EXCEPT ![i].at = at]
  PROVE  /\ ops' \in Seq(OpRecord) /\ Op' = Op
         /\ \A j \in Op : /\ ops'[j].call = ops[j].call /\ ops'[j].kind = ops[j].kind
                          /\ ops'[j].target = ops[j].target
                          /\ ops'[j].at = IF j = i THEN at ELSE ops[j].at
<1>1. ops \in Seq(OpRecord) /\ i \in 1 .. Len(ops)  BY DEF Typed, Op
<1> QED  BY <1>1, AtChanges DEF Op

LEMMA Failed ==
  ASSUME Typed, NEW i \in Op, NEW cause \in Nat, Fails(i, cause)
  PROVE  /\ ops' \in Seq(OpRecord) /\ Op' = Op
         /\ \A j \in Op : /\ ops'[j].call = ops[j].call /\ ops'[j].kind = ops[j].kind
                          /\ ops'[j].target = ops[j].target
                          /\ ops'[j].at = IF j = i THEN "failed" ELSE ops[j].at
<1> DEFINE rec == [ops[i] EXCEPT !.at = "failed", !.other = cause]
<1>1. ops \in Seq(OpRecord) /\ i \in 1 .. Len(ops)  BY DEF Typed, Op
<1>2. ops[i] \in OpRecord  BY <1>1, ElementOfSeq
<1>3. rec \in OpRecord  BY <1>2 DEF OpRecord, Ats
<1>4. /\ rec.call = ops[i].call /\ rec.kind = ops[i].kind
      /\ rec.target = ops[i].target /\ rec.at = "failed"
  BY <1>2 DEF OpRecord
<1>5. ops' = [ops EXCEPT ![i] = rec]  BY DEF Fails
<1> HIDE DEF rec
<1>6. /\ ops' \in Seq(OpRecord) /\ Len(ops') = Len(ops)
      /\ \A j \in 1 .. Len(ops) : ops'[j] = IF j = i THEN rec ELSE ops[j]
  BY <1>1, <1>3, <1>5, OpChanges
<1> QED  BY <1>4, <1>6 DEF Op

-----------------------------------------------------------------------------
(* A step of a tool                                                         *)

\* What leaves the screen and the claim alone keeps what is said of them.
LEMMA ScreenKept ==
  ASSUME IInv, UNCHANGED <<reply, call, asking, asked, parked, told, questions, frozen,
                           superseded, handleSeq>>
  PROVE  ClaimIsLive' /\ AskedIsClaimed' /\ EarlierTold' /\ OneRevision' /\ ChainEnds'
<1>1. Handle' = Handle /\ Superseded' = Superseded /\ Live' = Live /\ Claimed' = Claimed
  BY DEF Handle, Superseded, Live, Claimed
<1>2. ClaimIsLive'  BY <1>1 DEF IInv, ClaimIsLive
<1>3. AskedIsClaimed'  BY <1>1 DEF IInv, AskedIsClaimed
<1>4. EarlierTold'  BY DEF IInv, EarlierTold
<1>5. OneRevision'  BY DEF IInv, OneRevision
<1>6. ChainEnds'  BY <1>1 DEF IInv, ChainEnds
<1> QED  BY <1>2, <1>3, <1>4, <1>5, <1>6

LEMMA RenderDisplayKeeps == ASSUME IInv, RenderDisplay PROVE IInv'
<1> DEFINE n == Len(ops) + 1
<1>1. /\ ops' \in Seq(OpRecord)
      /\ n \in Nat /\ n \notin Op /\ Op' = Op \union {n}
      /\ ops'[n].kind = "display" /\ ops'[n].call = call /\ ops'[n].at = "storing"
      /\ \A j \in Op : ops'[j] = ops[j]
  <2>1. Typed /\ Start("display", 0, "storing", 0)  BY DEF IInv, RenderDisplay
  <2>2. "display" \in Kinds /\ "storing" \in Ats /\ 0 \in Nat  BY DEF Kinds, Ats
  <2> QED  BY <2>1, <2>2, Started
<1>2. UNCHANGED <<reply, call, tool, asking, asked, parked, told, questions,
                  frozen, superseded, handleSeq>>
  BY DEF RenderDisplay
<1> HIDE DEF n
<1>3. Typed'  BY <1>1, <1>2 DEF IInv, Typed, Handle
<1>4. StoringClaims'  BY <1>1, <1>2 DEF IInv, StoringClaims, Storing
<1>5. RevisesApart'
  BY <1>1, <1>2 DEF IInv, RevisesApart, Storing, Handle, Superseded
<1>6. NoneLeftOver'  BY <1>1, <1>2 DEF IInv, NoneLeftOver, Settled
<1> QED  BY <1>2, <1>3, <1>4, <1>5, <1>6, ScreenKept DEF IInv

LEMMA StartRevisionKeeps ==
  ASSUME IInv, NEW h \in Handle, StartRevision(h)
  PROVE  IInv'
<1> DEFINE n == Len(ops) + 1
<1>0. h \in Nat  BY DEF IInv, Typed, Handle
<1>1. /\ ops' \in Seq(OpRecord)
      /\ n \in Nat /\ n \notin Op /\ Op' = Op \union {n}
      /\ ops'[n].kind = "revise" /\ ops'[n].call = call /\ ops'[n].target = h
      /\ ops'[n].at = "storing"
      /\ \A j \in Op : ops'[j] = ops[j]
  <2>1. Typed /\ Start("revise", h, "storing", 0)  BY DEF IInv, StartRevision
  <2>2. "revise" \in Kinds /\ "storing" \in Ats /\ 0 \in Nat  BY DEF Kinds, Ats
  <2> QED  BY <1>0, <2>1, <2>2, Started
<1>2. UNCHANGED <<reply, call, tool, asking, asked, parked, told, questions,
                  frozen, superseded, handleSeq>>
  BY DEF StartRevision
<1> HIDE DEF n
<1>3. Typed'  BY <1>1, <1>2 DEF IInv, Typed, Handle
<1>4. StoringClaims'  BY <1>1, <1>2 DEF IInv, StoringClaims, Storing
<1>5. RevisesApart'
  <2>1. h \in Handle \ (frozen \union Superseded)
    BY DEF StartRevision, MayRevise
  <2>2. \A j \in Op : ops[j].kind = "revise" /\ Storing(j) => ops[j].target # h
    BY DEF StartRevision, MayRevise, Revising
  <2> QED  BY <1>1, <1>2, <2>1, <2>2 DEF IInv, RevisesApart, Storing, Handle, Superseded
<1>6. NoneLeftOver'  BY <1>1, <1>2 DEF IInv, NoneLeftOver, Settled
<1> QED  BY <1>2, <1>3, <1>4, <1>5, <1>6, ScreenKept DEF IInv

\* A claim is not None.
LEMMA ClaimIsSome ==
  ASSUME NEW n \in Nat, NEW h \in Nat
  PROVE  /\ [op |-> n, handle |-> h] # None /\ [op |-> n, handle |-> h] \in Claims
         /\ [op |-> n, handle |-> h].op = n /\ [op |-> n, handle |-> h].handle = h
         /\ [call |-> n, handle |-> h] # None /\ [call |-> n, handle |-> h] \in Parks
BY QuestionsAssumption DEF Claims, Parks

\* A claim that has shown nothing leaves nothing live, whoever has it.
LEMMA ClaimMoves ==
  ASSUME IInv, Claimed = {}, Claimed' = {},
         UNCHANGED <<reply, call, asked, parked, told, questions, frozen, superseded, handleSeq>>
  PROVE  ClaimIsLive' /\ AskedIsClaimed' /\ EarlierTold' /\ OneRevision' /\ ChainEnds'
<1>1. Handle' = Handle /\ Superseded' = Superseded /\ Live' = Live
  BY DEF Handle, Superseded, Live
<1>2. asked = 0 /\ parked = None
  BY DEF IInv, AskedIsClaimed, Claimed
<1>3. ClaimIsLive'  BY <1>1 DEF IInv, ClaimIsLive
<1>4. AskedIsClaimed'  BY <1>2 DEF AskedIsClaimed
<1>5. EarlierTold'  BY DEF IInv, EarlierTold
<1>6. OneRevision'  BY DEF IInv, OneRevision
<1>7. ChainEnds'  BY <1>1, <1>2 DEF IInv, ChainEnds
<1> QED  BY <1>3, <1>4, <1>5, <1>6, <1>7

LEMMA RenderQuestionKeeps == ASSUME IInv, RenderQuestion PROVE IInv'
<1> DEFINE n == Len(ops) + 1
<1>1. PICK at \in {"storing", "waiting", "refused"}, other \in Nat :
        /\ Start("ask", 0, at, other)
        /\ \/ asking = None /\ at = "storing" /\ asking' = [op |-> n, handle |-> 0]
           \/ asking # None /\ at # "storing" /\ asking' = asking
  BY DEF IInv, Typed, Claims, RenderQuestion, OpenToAsk, Undecided
<1>2. /\ ops' \in Seq(OpRecord)
      /\ n \in Nat /\ n \notin Op /\ Op' = Op \union {n}
      /\ ops'[n].kind = "ask" /\ ops'[n].call = call /\ ops'[n].at = at
      /\ \A j \in Op : ops'[j] = ops[j]
  <2>1. Typed /\ Start("ask", 0, at, other)  BY <1>1 DEF IInv
  <2>2. "ask" \in Kinds /\ at \in Ats /\ 0 \in Nat  BY DEF Kinds, Ats
  <2> QED  BY <2>1, <2>2, Started
<1>3. UNCHANGED <<reply, call, tool, asked, parked, told, questions, frozen,
                  superseded, handleSeq>>
  BY DEF RenderQuestion
<1>4. \/ asking = None /\ at = "storing" /\ asking' # None /\ asking' \in Claims
         /\ asking'.op = n /\ asking'.handle = 0
      \/ asking # None /\ at # "storing" /\ asking' = asking
  <2>1. /\ [op |-> n, handle |-> 0] # None /\ [op |-> n, handle |-> 0] \in Claims
        /\ [op |-> n, handle |-> 0].op = n /\ [op |-> n, handle |-> 0].handle = 0
    BY <1>2, ClaimIsSome
  <2> QED  BY <1>1, <2>1
<1> HIDE DEF n
<1>5. Typed'  BY <1>2, <1>3, <1>4 DEF IInv, Typed, Handle
<1>6. StoringClaims'
  BY <1>2, <1>3, <1>4 DEF IInv, StoringClaims, Storing
<1>7. RevisesApart'
  BY <1>2, <1>3 DEF IInv, RevisesApart, Storing, Handle, Superseded
<1>8. NoneLeftOver'  BY <1>2, <1>3 DEF IInv, NoneLeftOver, Settled
<1>9. ClaimIsLive' /\ AskedIsClaimed' /\ EarlierTold' /\ OneRevision' /\ ChainEnds'
  <2>1. CASE asking' = asking  BY <1>3, <2>1, ScreenKept
  <2>2. CASE asking = None /\ asking'.handle = 0
    <3>1. Claimed = {} /\ Claimed' = {}  BY <2>2 DEF Claimed
    <3> QED  BY <1>3, <3>1, ClaimMoves
  <2> QED  BY <1>4, <2>1, <2>2
<1> QED  BY <1>5, <1>6, <1>7, <1>8, <1>9 DEF IInv

LEMMA LookAgainKeeps ==
  ASSUME IInv, NEW i \in Op, LookAgain(i)
  PROVE  IInv'
<1> DEFINE left == IF Undecided(asking) /\ asking.op = ops[i].other THEN None ELSE asking
<1>0. i \in Nat /\ Typed  BY DEF IInv, Typed, Op
<1>1. UNCHANGED <<reply, call, tool, asked, parked, told, questions, frozen,
                  superseded, handleSeq>>
  BY DEF LookAgain
<1>2. ops[i].at = "waiting" /\ ops[i].call = call
  BY DEF LookAgain, IInv, NoneLeftOver, Settled
\* The one waited on has settled, so what it claimed is no one's.
<1>3. left = None => \A j \in Op : ~(ops[j].kind = "ask" /\ Storing(j))
  <2>1. ASSUME left = None, NEW j \in Op, ops[j].kind = "ask", Storing(j)
        PROVE  FALSE
    <3>1. asking # None /\ asking.op = j  BY <2>1 DEF IInv, StoringClaims
    <3>2. asking.op = ops[i].other  BY <2>1, <3>1
    <3>3. Settled(j)  BY <3>1, <3>2 DEF LookAgain
    <3> QED  BY <2>1, <3>3 DEF Settled, Storing
  <2> QED  BY <2>1
<1>4. left = None \/ left = asking  OBVIOUS
<1>5. left = None => Claimed = {}  BY DEF Claimed, Undecided
<1>6. \/ /\ left = None
         /\ ops' = [ops EXCEPT ![i].at = "storing"]
         /\ asking' = [op |-> i, handle |-> 0]
      \/ /\ left # None
         /\ ops' = IF Undecided(left) THEN [ops EXCEPT ![i].other = left.op]
                   ELSE [ops EXCEPT ![i].at = "refused"]
         /\ asking' = left
  BY DEF LookAgain, OpenToAsk
<1> HIDE DEF left
<1>7. /\ ops' \in Seq(OpRecord) /\ Op' = Op
      /\ \A j \in Op : /\ ops'[j].call = ops[j].call /\ ops'[j].kind = ops[j].kind
                       /\ ops'[j].target = ops[j].target
                       /\ j # i => ops'[j].at = ops[j].at
      /\ ops'[i].at = "storing" => left = None
  <2>1. CASE left = None
    <3>1. ops' = [ops EXCEPT ![i].at = "storing"]  BY <1>6, <2>1
    <3>2. "storing" \in Ats  BY DEF Ats
    <3>3. /\ ops' \in Seq(OpRecord) /\ Op' = Op
          /\ \A j \in Op : /\ ops'[j].call = ops[j].call /\ ops'[j].kind = ops[j].kind
                           /\ ops'[j].target = ops[j].target
                           /\ ops'[j].at = IF j = i THEN "storing" ELSE ops[j].at
      BY <1>0, <3>1, <3>2, Moved
    <3> QED  BY <2>1, <3>3
  <2>2. CASE left # None /\ Undecided(left)
    <3>1. ops' = [ops EXCEPT ![i].other = left.op]  BY <1>6, <2>2
    <3>2. left.op \in Nat  BY <1>0, <1>4, <2>2 DEF Typed, Claims
    <3>3. ops \in Seq(OpRecord) /\ i \in 1 .. Len(ops)  BY <1>0 DEF Typed, Op
    <3>4. /\ ops' \in Seq(OpRecord) /\ Len(ops') = Len(ops)
          /\ \A j \in 1 .. Len(ops) :
               /\ ops'[j].call = ops[j].call /\ ops'[j].kind = ops[j].kind
               /\ ops'[j].target = ops[j].target /\ ops'[j].at = ops[j].at
      BY <3>1, <3>2, <3>3, OtherChanges
    <3> QED  BY <1>2, <3>4 DEF Op
  <2>3. CASE left # None /\ ~Undecided(left)
    <3>1. ops' = [ops EXCEPT ![i].at = "refused"]  BY <1>6, <2>3
    <3>2. "refused" \in Ats  BY DEF Ats
    <3>3. /\ ops' \in Seq(OpRecord) /\ Op' = Op
          /\ \A j \in Op : /\ ops'[j].call = ops[j].call /\ ops'[j].kind = ops[j].kind
                           /\ ops'[j].target = ops[j].target
                           /\ ops'[j].at = IF j = i THEN "refused" ELSE ops[j].at
      BY <1>0, <3>1, <3>2, Moved
    <3> QED  BY <3>3
  <2> QED  BY <2>1, <2>2, <2>3
<1>8. \/ /\ left = None /\ asking' # None /\ asking' \in Claims
         /\ asking'.op = i /\ asking'.handle = 0 /\ ops[i].kind = "ask"
      \/ left # None /\ asking' = asking
  <2>1. ops[i].kind = "ask"  BY <1>2 DEF IInv, StoringClaims
  <2>2. /\ [op |-> i, handle |-> 0] # None /\ [op |-> i, handle |-> 0] \in Claims
        /\ [op |-> i, handle |-> 0].op = i /\ [op |-> i, handle |-> 0].handle = 0
    BY <1>0, ClaimIsSome
  <2> QED  BY <1>4, <1>6, <2>1, <2>2
<1>9. Typed'
  <2>1. asking' \in Claims \union {None}  BY <1>0, <1>8 DEF Typed
  <2> QED  BY <1>0, <1>1, <1>7, <2>1 DEF Typed, Handle
<1>10. StoringClaims'
  <2>1. \A j \in Op' : ops'[j].at = "waiting" => ops'[j].kind = "ask"
    <3>1. ops[i].kind = "ask"  BY <1>2 DEF IInv, StoringClaims
    <3> QED  BY <1>7, <3>1 DEF IInv, StoringClaims
  <2>2. asking' # None => asking'.op \in Op' /\ ops'[asking'.op].kind = "ask"
    BY <1>7, <1>8 DEF IInv, StoringClaims
  <2>3. ASSUME NEW j \in Op', ops'[j].kind = "ask", Storing(j)'
        PROVE  asking' # None /\ asking'.op = j /\ asking'.handle = 0
    <3>1. CASE j = i  BY <1>7, <1>8, <2>3, <3>1 DEF Storing
    <3>2. CASE j # i
      <4>1. j \in Op /\ ops[j].kind = "ask" /\ Storing(j)
        BY <1>7, <2>3, <3>2 DEF Storing
      <4>2. left # None  BY <1>3, <4>1
      <4> QED  BY <1>8, <4>1, <4>2 DEF IInv, StoringClaims
    <3> QED  BY <3>1, <3>2
  <2> QED  BY <2>1, <2>2, <2>3 DEF StoringClaims
<1>11. RevisesApart'
  <2>1. \A j \in Op' : ops'[j].kind = "revise" /\ Storing(j)' =>
                       ops[j].kind = "revise" /\ Storing(j)
    <3>1. ops[i].kind # "revise"  BY <1>2 DEF IInv, StoringClaims
    <3> QED  BY <1>7, <3>1 DEF Storing
  <2> QED
    BY <1>1, <1>7, <2>1 DEF IInv, RevisesApart, Handle, Superseded
<1>12. NoneLeftOver'  BY <1>1, <1>2, <1>7 DEF IInv, NoneLeftOver, Settled
<1>13. ClaimIsLive' /\ AskedIsClaimed' /\ EarlierTold' /\ OneRevision' /\ ChainEnds'
  <2>1. CASE asking' = asking  BY <1>1, <2>1, ScreenKept
  <2>2. CASE left = None /\ asking'.handle = 0
    <3>1. Claimed = {} /\ Claimed' = {}  BY <1>5, <2>2 DEF Claimed
    <3> QED  BY <1>1, <3>1, ClaimMoves
  <2> QED  BY <1>8, <2>1, <2>2
<1> QED  BY <1>9, <1>10, <1>11, <1>12, <1>13 DEF IInv

-----------------------------------------------------------------------------
(* An op is shown, or fails                                                 *)

LEMMA ShownMoves ==
  ASSUME IInv, NEW i \in Op, Shown(i)
  PROVE  /\ handleSeq \in Nat /\ handleSeq' = handleSeq + 1
         /\ Handle' = Handle \union {handleSeq + 1}
         /\ handleSeq + 1 \notin Handle /\ handleSeq + 1 # 0 /\ handleSeq + 1 \in Nat
         /\ Storing(i) /\ ops[i].call = call /\ reply = "running"
         /\ ops' \in Seq(OpRecord) /\ Op' = Op
         /\ \A j \in Op : /\ ops'[j].call = ops[j].call /\ ops'[j].kind = ops[j].kind
                          /\ ops'[j].target = ops[j].target
                          /\ ops'[j].at = IF j = i THEN "shown" ELSE ops[j].at
<1>1. Typed /\ handleSeq \in Nat  BY DEF IInv, Typed
<1>2. /\ handleSeq' = handleSeq + 1 /\ Storing(i) /\ reply = "running"
      /\ ops' = [ops EXCEPT ![i].at = "shown"]
  BY DEF Shown
<1>3. Handle' = Handle \union {handleSeq + 1} /\ handleSeq + 1 \notin Handle
      /\ handleSeq + 1 # 0 /\ handleSeq + 1 \in Nat
  BY <1>1, <1>2 DEF Handle
<1>4. ops[i].call = call  BY <1>2 DEF IInv, NoneLeftOver, Settled, Storing
<1>5. "shown" \in Ats  BY DEF Ats
<1>6. /\ ops' \in Seq(OpRecord) /\ Op' = Op
      /\ \A j \in Op : /\ ops'[j].call = ops[j].call /\ ops'[j].kind = ops[j].kind
                       /\ ops'[j].target = ops[j].target
                       /\ ops'[j].at = IF j = i THEN "shown" ELSE ops[j].at
  BY <1>1, <1>2, <1>5, Moved
<1> QED  BY <1>1, <1>2, <1>3, <1>4, <1>6

\* A surface shown anew is of no chain yet.
LEMMA ChainsStand ==
  ASSUME IInv, handleSeq' = handleSeq + 1, superseded' = superseded, parked' = parked,
         parked # None => asking'.handle = asking.handle
  PROVE  ChainEnds'
<1>1. /\ handleSeq \in Nat /\ superseded \subseteq (1 .. handleSeq) \X (1 .. handleSeq)
      /\ Single(superseded)
  BY DEF IInv, Typed, Handle, OneRevision, Single
<1>2. Handle = 1 .. handleSeq /\ Handle' = 1 .. handleSeq + 1  BY DEF Handle
<1>3. PICK e : /\ TheEnds(e, handleSeq, superseded)
               /\ parked # None => parked.handle \in Handle /\ e[parked.handle] = asking.handle
  BY DEF IInv, ChainEnds
<1>4. PICK g : /\ TheEnds(g, handleSeq + 1, superseded)
               /\ \A x \in 1 .. handleSeq : g[x] = e[x]
  BY <1>1, <1>3, ChainStarts
<1>5. parked' # None => parked'.handle \in Handle' /\ g[parked'.handle] = asking'.handle
  BY <1>1, <1>2, <1>3, <1>4
<1> QED  BY <1>4, <1>5 DEF ChainEnds

LEMMA DisplayShownKeeps ==
  ASSUME IInv, NEW i \in Op, DisplayShown(i)
  PROVE  IInv'
<1>1. /\ handleSeq \in Nat /\ handleSeq' = handleSeq + 1
      /\ Handle' = Handle \union {handleSeq + 1}
      /\ Storing(i) /\ ops[i].call = call
      /\ ops' \in Seq(OpRecord) /\ Op' = Op
      /\ \A j \in Op : /\ ops'[j].call = ops[j].call /\ ops'[j].kind = ops[j].kind
                       /\ ops'[j].target = ops[j].target
                       /\ ops'[j].at = IF j = i THEN "shown" ELSE ops[j].at
  BY ShownMoves DEF DisplayShown
<1>2. UNCHANGED <<reply, call, tool, asking, asked, parked, told, questions, frozen, superseded>>
  BY DEF DisplayShown
<1>3. Superseded' = Superseded /\ Live' = Live /\ Claimed' = Claimed
  BY <1>2 DEF Superseded, Live, Claimed
<1>4. Typed'
  <2>1. superseded' \subseteq Handle' \X Handle'
    BY <1>1, <1>2 DEF IInv, Typed
  <2> QED  BY <1>1, <1>2, <2>1 DEF IInv, Typed
<1>5. ClaimIsLive'  BY <1>3 DEF IInv, ClaimIsLive
<1>6. StoringClaims'  BY <1>1, <1>2 DEF IInv, StoringClaims, Storing
<1>7. RevisesApart'  BY <1>1, <1>2, <1>3 DEF IInv, RevisesApart, Storing
<1>8. NoneLeftOver'  BY <1>1, <1>2 DEF IInv, NoneLeftOver, Settled
<1>9. AskedIsClaimed'  BY <1>2, <1>3 DEF IInv, AskedIsClaimed
<1>10. EarlierTold'  BY <1>2 DEF IInv, EarlierTold
<1>11. OneRevision'  BY <1>2 DEF IInv, OneRevision
<1>12. ChainEnds'  BY <1>1, <1>2, ChainsStand
<1> QED  BY <1>4, <1>5, <1>6, <1>7, <1>8, <1>9, <1>10, <1>11, <1>12 DEF IInv

LEMMA QuestionShownKeeps ==
  ASSUME IInv, NEW i \in Op, QuestionShown(i)
  PROVE  IInv'
<1> DEFINE n == handleSeq + 1
<1>1. /\ handleSeq \in Nat /\ handleSeq' = n
      /\ Handle' = Handle \union {n} /\ n \notin Handle /\ n # 0 /\ n \in Nat
      /\ Storing(i) /\ ops[i].call = call
      /\ ops' \in Seq(OpRecord) /\ Op' = Op
      /\ \A j \in Op : /\ ops'[j].call = ops[j].call /\ ops'[j].kind = ops[j].kind
                       /\ ops'[j].target = ops[j].target
                       /\ ops'[j].at = IF j = i THEN "shown" ELSE ops[j].at
  BY ShownMoves DEF QuestionShown
<1>2. /\ UNCHANGED <<reply, call, tool, parked, told, frozen, superseded>>
      /\ asked' = n /\ questions' = questions \union {n} /\ ops[i].kind = "ask"
  BY DEF QuestionShown
\* The claim is its own.
<1>3. /\ asking # None /\ asking \in Claims /\ asking.op = i /\ asking.handle = 0
      /\ asking' = [asking EXCEPT !.handle = n]
  <2>1. asking # None /\ asking.op = i /\ asking.handle = 0
    BY <1>1, <1>2 DEF IInv, StoringClaims
  <2> QED  BY <2>1 DEF IInv, Typed, QuestionShown
<1>4. Claimed = {} /\ Live = {} /\ parked = None
  BY <1>3 DEF IInv, AskedIsClaimed, Claimed, ClaimIsLive
<1>5. asking' # None /\ asking' \in Claims /\ asking'.op = i /\ asking'.handle = n
  <2>1. asking' = [op |-> i, handle |-> n]  BY <1>3 DEF Claims
  <2>2. i \in Nat /\ n \in Nat  BY <1>1, <1>3 DEF Claims
  <2>3. /\ [op |-> i, handle |-> n] # None /\ [op |-> i, handle |-> n] \in Claims
        /\ [op |-> i, handle |-> n].op = i /\ [op |-> i, handle |-> n].handle = n
    BY <2>2, ClaimIsSome
  <2> QED  BY <2>1, <2>3
<1>6. Superseded' = Superseded /\ Superseded \subseteq Handle
  BY <1>2 DEF Superseded, IInv, Typed
<1>7. ChainEnds'  BY <1>1, <1>2, <1>4, ChainsStand
<1> HIDE DEF n
<1>8. Typed'
  <2>1. superseded' \subseteq Handle' \X Handle'
    BY <1>1, <1>2 DEF IInv, Typed
  <2> QED  BY <1>1, <1>2, <1>5, <2>1 DEF IInv, Typed
<1>9. ClaimIsLive'
  <2>1. Live' = {n}
    <3>1. frozen \subseteq Handle  BY DEF IInv, Typed
    <3> QED  BY <1>1, <1>2, <1>4, <1>6, <3>1 DEF Live
  <2>2. Claimed' = {n}  BY <1>1, <1>5 DEF Claimed
  <2> QED  BY <2>1, <2>2 DEF ClaimIsLive
<1>10. StoringClaims'
  <2>1. \A j \in Op' : ~(ops'[j].kind = "ask" /\ Storing(j)')
    BY <1>1, <1>2, <1>3 DEF IInv, StoringClaims, Storing
  <2>2. \A j \in Op' : ops'[j].at = "waiting" => ops'[j].kind = "ask"
    BY <1>1 DEF IInv, StoringClaims
  <2> QED  BY <1>1, <1>2, <1>5, <2>1, <2>2 DEF StoringClaims
<1>11. RevisesApart'  BY <1>1, <1>2, <1>6 DEF IInv, RevisesApart, Storing
<1>12. NoneLeftOver'  BY <1>1, <1>2 DEF IInv, NoneLeftOver, Settled
<1>13. AskedIsClaimed'  BY <1>1, <1>2, <1>4, <1>5 DEF AskedIsClaimed
<1>14. EarlierTold'
  <2>1. reply = "running"  BY DEF QuestionShown, Shown
  <2> QED  BY <1>2, <2>1 DEF IInv, EarlierTold
<1>15. OneRevision'  BY <1>2 DEF IInv, OneRevision
<1> QED  BY <1>7, <1>8, <1>9, <1>10, <1>11, <1>12, <1>13, <1>14, <1>15 DEF IInv

LEMMA RevisionShownKeeps ==
  ASSUME IInv, NEW i \in Op, RevisionShown(i)
  PROVE  IInv'
<1> DEFINE old == ops[i].target
           n == handleSeq + 1
<1>1. /\ handleSeq \in Nat /\ handleSeq' = n
      /\ Handle' = Handle \union {n} /\ n \notin Handle /\ n # 0 /\ n \in Nat
      /\ Storing(i) /\ ops[i].call = call /\ reply = "running"
      /\ ops' \in Seq(OpRecord) /\ Op' = Op
      /\ \A j \in Op : /\ ops'[j].call = ops[j].call /\ ops'[j].kind = ops[j].kind
                       /\ ops'[j].target = ops[j].target
                       /\ ops'[j].at = IF j = i THEN "shown" ELSE ops[j].at
  BY ShownMoves DEF RevisionShown
<1>2. /\ UNCHANGED <<reply, call, tool, parked, told, frozen>>
      /\ ops[i].kind = "revise"
      /\ superseded' = superseded \union {<<old, n>>}
      /\ questions' = IF old \in questions THEN questions \union {n} ELSE questions
      /\ asking' = AskingMoved(asking, old, n)
      /\ asked' = IF asked = old THEN n ELSE asked
  BY DEF RevisionShown
<1>3. old \in Handle /\ old \notin frozen /\ old \notin Superseded /\ old # 0
      /\ \A j \in Op : ops[j].kind = "revise" /\ Storing(j) /\ j # i => ops[j].target # old
  <2>1. ops[i].target \in Handle \ (frozen \union Superseded)
    BY <1>1, <1>2 DEF IInv, RevisesApart
  <2>2. \A j \in Op : ops[j].kind = "revise" /\ Storing(j) /\ ops[j].target = ops[i].target => j = i
    BY <1>1, <1>2 DEF IInv, RevisesApart
  <2> QED  BY <2>1, <2>2 DEF Handle
<1> HIDE DEF old, n
<1>4. Superseded' = Superseded \union {old}
  <2>1. \A s \in superseded' : s \in superseded \/ (s = <<old, n>> /\ s[1] = old)
    BY <1>2
  <2>2. superseded \subseteq superseded' /\ <<old, n>> \in superseded' /\ <<old, n>>[1] = old
    BY <1>2
  <2> QED  BY <2>1, <2>2 DEF Superseded
<1>5. questions \subseteq Handle /\ frozen \subseteq Handle /\ Superseded \subseteq Handle
      /\ Typed
  BY DEF IInv, Typed, Superseded
\* A live question is what the claim has shown, and the claim moves with it.
<1>6. \/ /\ old \in questions /\ asking # None /\ asking \in Claims /\ asking.handle = old
         /\ asking' # None /\ asking' \in Claims
         /\ asking'.op = asking.op /\ asking'.handle = n
         /\ Live' = {n}
      \/ /\ old \notin questions
         /\ asking # None => asking.handle # old
         /\ asking' = asking /\ asked' = asked
         /\ Live' = Live
  <2>1. CASE old \in questions
    <3>1. old \in Live  BY <1>3, <2>1 DEF Live
    <3>2. asking # None /\ asking.handle = old /\ Live = {old}
      BY <3>1 DEF IInv, ClaimIsLive, Claimed
    <3>3. asking \in Claims /\ asking' = [asking EXCEPT !.handle = n]
      BY <1>2, <1>5, <3>2 DEF AskingMoved, Typed
    <3>4. asking.op \in Nat /\ asking' = [op |-> asking.op, handle |-> n]
      BY <3>3 DEF Claims
    <3>5. /\ [op |-> asking.op, handle |-> n] # None
          /\ [op |-> asking.op, handle |-> n] \in Claims
          /\ [op |-> asking.op, handle |-> n].op = asking.op
          /\ [op |-> asking.op, handle |-> n].handle = n
      BY <1>1, <3>4, ClaimIsSome
    <3>6. Live' = {n}
      BY <1>1, <1>2, <1>3, <1>4, <1>5, <2>1, <3>2 DEF Live
    <3> QED  BY <2>1, <3>2, <3>3, <3>4, <3>5, <3>6
  <2>2. CASE old \notin questions
    <3>1. asking # None => asking.handle # old
      <4>1. old \notin Live  BY <2>2 DEF Live
      <4> QED  BY <1>3, <4>1 DEF IInv, ClaimIsLive, Claimed
    <3>2. asking' = asking  BY <1>2, <3>1 DEF AskingMoved
    <3>3. asked' = asked
      BY <1>2, <1>3, <3>1 DEF IInv, AskedIsClaimed
    <3>4. Live' = Live  BY <1>2, <1>4, <2>2 DEF Live
    <3> QED  BY <2>2, <3>1, <3>2, <3>3, <3>4
  <2> QED  BY <2>1, <2>2
<1>7. Typed'
  <2>1. superseded' \subseteq Handle' \X Handle'
    <3>1. <<old, n>> \in Handle' \X Handle'  BY <1>1, <1>3
    <3>2. superseded \subseteq Handle \X Handle  BY <1>5 DEF Typed
    <3> QED  BY <1>1, <1>2, <3>1, <3>2
  <2>2. asking' \in Claims \union {None} /\ asked' \in Nat
    BY <1>1, <1>2, <1>5, <1>6 DEF Typed
  <2>3. questions' \subseteq Handle' /\ frozen' \subseteq Handle' /\ handleSeq' \in Nat
    BY <1>1, <1>2, <1>5
  <2> QED  BY <1>1, <1>2, <1>5, <2>1, <2>2, <2>3 DEF Typed
<1>8. ClaimIsLive'
  <2>1. CASE Live' = {n} /\ asking' # None /\ asking'.handle = n
    BY <1>1, <2>1 DEF ClaimIsLive, Claimed
  <2>2. CASE Live' = Live /\ asking' = asking
    BY <2>2 DEF IInv, ClaimIsLive, Claimed
  <2> QED  BY <1>6, <2>1, <2>2
<1>9. StoringClaims'
  <2>1. \A j \in Op' : ops'[j].at = "waiting" => ops'[j].kind = "ask"
    BY <1>1 DEF IInv, StoringClaims
  <2>2. asking' # None => asking'.op \in Op' /\ ops'[asking'.op].kind = "ask"
    BY <1>1, <1>6 DEF IInv, StoringClaims
  <2>3. ASSUME NEW j \in Op', ops'[j].kind = "ask", Storing(j)'
        PROVE  asking' # None /\ asking'.op = j /\ asking'.handle = 0
    <3>1. j \in Op /\ ops[j].kind = "ask" /\ Storing(j)
      BY <1>1, <2>3 DEF Storing
    <3>2. asking # None /\ asking.op = j /\ asking.handle = 0
      BY <3>1 DEF IInv, StoringClaims
    <3> QED  BY <1>3, <1>6, <3>2
  <2> QED  BY <2>1, <2>2, <2>3 DEF StoringClaims
<1>10. RevisesApart'
  <2> SUFFICES ASSUME NEW j \in Op', ops'[j].kind = "revise", Storing(j)'
               PROVE  /\ ops'[j].target \in Handle' \ (frozen' \union Superseded')
                      /\ \A k \in Op' : ops'[k].kind = "revise" /\ Storing(k)'
                                        /\ ops'[k].target = ops'[j].target => k = j
    BY DEF RevisesApart
  <2>1. j \in Op /\ j # i /\ ops[j].kind = "revise" /\ Storing(j)
    BY <1>1 DEF Storing
  <2>2. ops[j].target \in Handle \ (frozen \union Superseded)
    BY <2>1 DEF IInv, RevisesApart
  <2>3. ops[j].target # old  BY <1>3, <2>1
  <2>4. ASSUME NEW k \in Op', ops'[k].kind = "revise", Storing(k)',
               ops'[k].target = ops'[j].target
        PROVE  k = j
    <3>1. k \in Op /\ ops[k].kind = "revise" /\ Storing(k) /\ ops[k].target = ops[j].target
      BY <1>1, <2>1, <2>4 DEF Storing
    <3> QED  BY <2>1, <3>1 DEF IInv, RevisesApart
  <2> QED  BY <1>1, <1>2, <1>4, <2>1, <2>2, <2>3, <2>4
<1>11. NoneLeftOver'  BY <1>1, <1>2 DEF IInv, NoneLeftOver, Settled
<1>12. AskedIsClaimed'
  <2>1. CASE asking' = asking /\ asked' = asked
    BY <1>2, <2>1 DEF IInv, AskedIsClaimed, Claimed
  <2>2. CASE /\ asking # None /\ asking.handle = old
             /\ asking' # None /\ asking'.handle = n
    <3>1. asked # 0 => asked = old  BY <2>2 DEF IInv, AskedIsClaimed
    <3>2. asked = 0 => asked' = 0  BY <1>2, <1>3
    <3>3. asked # 0 => asked' = n  BY <1>2, <3>1
    <3>4. parked' # None => asked' = 0  BY <1>2, <3>2 DEF IInv, AskedIsClaimed
    <3>5. ~(asked = 0 /\ parked = None)
      BY <1>3, <2>2 DEF IInv, AskedIsClaimed, Claimed
    <3>6. ~(asked' = 0 /\ parked' = None)  BY <1>1, <1>2, <3>2, <3>3, <3>5
    <3> QED  BY <1>1, <2>2, <3>2, <3>3, <3>4, <3>6 DEF AskedIsClaimed
  <2> QED  BY <1>6, <2>1, <2>2
<1>13. EarlierTold'  BY <1>1, <1>2 DEF IInv, EarlierTold
<1>14. OneRevision'
  <2>1. \A s \in superseded' : s \in superseded \/ (s = <<old, n>> /\ s[1] = old)
    BY <1>2
  <2>2. \A s \in superseded : s[1] # old  BY <1>3 DEF Superseded
  <2> QED  BY <2>1, <2>2 DEF IInv, OneRevision
<1>15. ChainEnds'
  <2>1. /\ superseded \subseteq (1 .. handleSeq) \X (1 .. handleSeq)
        /\ Single(superseded)
    BY DEF IInv, Typed, Handle, OneRevision, Single
  <2>2. Superseded = Firsts(superseded)  BY DEF Superseded, Firsts
  <2>3. Handle = 1 .. handleSeq /\ Handle' = 1 .. handleSeq + 1 /\ n = handleSeq + 1
        /\ handleSeq \in Nat
    BY <1>1 DEF Handle, n
  <2>4. PICK e : /\ TheEnds(e, handleSeq, superseded)
                 /\ parked # None => parked.handle \in Handle /\ e[parked.handle] = asking.handle
    BY DEF IInv, ChainEnds
  <2>5. old \in (1 .. handleSeq) \ Firsts(superseded)  BY <1>3, <2>2, <2>3
  <2>6. superseded' = Revised(superseded, old, handleSeq + 1)  BY <1>2, <2>3 DEF Revised
  <2>7. PICK g : /\ TheEnds(g, handleSeq + 1, superseded')
                 /\ \A x \in 1 .. handleSeq :
                      (e[x] = old => g[x] = handleSeq + 1) /\ (e[x] # old => g[x] = e[x])
    BY <2>1, <2>3, <2>4, <2>5, <2>6, ChainGrows
  <2>8. parked' # None => parked'.handle \in Handle' /\ g[parked'.handle] = asking'.handle
    <3> SUFFICES ASSUME parked # None
                 PROVE  parked.handle \in Handle' /\ g[parked.handle] = asking'.handle
      BY <1>2
    <3>1. asking # None  BY DEF IInv, AskedIsClaimed
    <3>2. asking'.handle = IF asking.handle = old THEN handleSeq + 1 ELSE asking.handle
      BY <1>6, <2>3, <3>1
    <3>3. parked.handle \in 1 .. handleSeq /\ e[parked.handle] = asking.handle  BY <2>3, <2>4
    <3>4. g[parked.handle] = IF e[parked.handle] = old THEN handleSeq + 1 ELSE e[parked.handle]
      BY <2>7, <3>3
    <3> QED  BY <2>3, <3>2, <3>3, <3>4
  <2>9. handleSeq' = handleSeq + 1  BY <1>1, <2>3
  <2> QED  BY <2>7, <2>8, <2>9 DEF ChainEnds
<1> QED
  BY <1>7, <1>8, <1>9, <1>10, <1>11, <1>12, <1>13, <1>14, <1>15 DEF IInv

LEMMA FailsKeeps ==
  ASSUME IInv, NEW i \in Op, NEW cause \in {LostLease, OtherCause}, Fails(i, cause)
  PROVE  IInv'
<1>0. cause \in Nat  BY QuestionsAssumption DEF LostLease, OtherCause
<1>1. /\ ops' \in Seq(OpRecord) /\ Op' = Op
      /\ \A j \in Op : /\ ops'[j].call = ops[j].call /\ ops'[j].kind = ops[j].kind
                       /\ ops'[j].target = ops[j].target
                       /\ ops'[j].at = IF j = i THEN "failed" ELSE ops[j].at
  <2>1. Typed  BY DEF IInv
  <2> QED  BY <1>0, <2>1, Failed
<1>2. /\ UNCHANGED <<reply, call, tool, asked, parked, told, questions, frozen,
                     superseded, handleSeq>>
      /\ Storing(i) /\ asking' = ClaimGivenBack(i)
  BY DEF Fails
<1>3. ops[i].call = call  BY <1>2 DEF IInv, NoneLeftOver, Settled, Storing
<1>4. \/ asking # None /\ asking.op = i /\ asking' = None
      \/ asking' = asking /\ (asking = None \/ asking.op # i)
  BY <1>2 DEF ClaimGivenBack
<1>5. Typed'  BY <1>1, <1>2, <1>4 DEF IInv, Typed, Handle
<1>6. StoringClaims'
  BY <1>1, <1>2, <1>4 DEF IInv, StoringClaims, Storing
<1>7. RevisesApart'
  BY <1>1, <1>2 DEF IInv, RevisesApart, Storing, Handle, Superseded
<1>8. NoneLeftOver'  BY <1>1, <1>2, <1>3 DEF IInv, NoneLeftOver, Settled
<1>9. ClaimIsLive' /\ AskedIsClaimed' /\ EarlierTold' /\ OneRevision' /\ ChainEnds'
  <2>1. CASE asking' = asking  BY <1>2, <2>1, ScreenKept
  <2>2. CASE asking # None /\ asking.op = i /\ asking' = None
    <3>1. asking.handle = 0  BY <1>2, <2>2 DEF IInv, StoringClaims
    <3>2. Claimed = {} /\ Claimed' = {}  BY <2>2, <3>1 DEF Claimed
    <3> QED  BY <1>2, <3>2, ClaimMoves
  <2> QED  BY <1>4, <2>1, <2>2
<1> QED  BY <1>5, <1>6, <1>7, <1>8, <1>9 DEF IInv

-----------------------------------------------------------------------------
(* A call ends                                                              *)

LEMMA EndsKeep ==
  ASSUME IInv, (\E how \in {"returned", "threw"} : ToolEnds(how)) \/ StopTurn
  PROVE  IInv'
<1>1. /\ UNCHANGED <<call, ops, asking, asked, parked, told, questions, frozen,
                     superseded, handleSeq>>
      /\ tool' \in {tool, "returned", "threw"}
      /\ reply = "running" /\ reply' \in {"running", "lost"}
  BY DEF ToolEnds, StopTurn
<1>2. Handle' = Handle /\ Superseded' = Superseded /\ Live' = Live /\ Claimed' = Claimed
      /\ Op' = Op
  BY <1>1 DEF Handle, Superseded, Live, Claimed, Op
<1>3. Typed'  BY <1>1, <1>2 DEF IInv, Typed
<1>4. ClaimIsLive'  BY <1>2 DEF IInv, ClaimIsLive
<1>5. StoringClaims'  BY <1>1, <1>2 DEF IInv, StoringClaims, Storing
<1>6. RevisesApart'  BY <1>1, <1>2 DEF IInv, RevisesApart, Storing
<1>7. NoneLeftOver'  BY <1>1, <1>2 DEF IInv, NoneLeftOver, Settled
<1>8. AskedIsClaimed'  BY <1>1, <1>2 DEF IInv, AskedIsClaimed
<1>9. EarlierTold'  BY <1>1 DEF IInv, EarlierTold
<1>10. OneRevision'  BY <1>1 DEF IInv, OneRevision
<1>11. ChainEnds'  BY <1>1, <1>2 DEF IInv, ChainEnds
<1> QED
  BY <1>3, <1>4, <1>5, <1>6, <1>7, <1>8, <1>9, <1>10, <1>11 DEF IInv

\* When a call is done there is nothing under way.
LEMMA NothingUnderWay ==
  ASSUME IInv, AllIn
  PROVE  \A i \in Op : Settled(i) /\ ~Storing(i) /\ ops[i].at # "waiting"
BY DEF IInv, NoneLeftOver, AllIn, Settled, Storing

\* What a call asked is its surface's own end, and the one live question.
LEMMA AskedIsLive ==
  ASSUME IInv, asked # 0
  PROVE  /\ asked \in Handle /\ Live = {asked} /\ parked = None
         /\ asking # None /\ asking.handle = asked
         /\ \A e : TheEnds(e, handleSeq, superseded) => e[asked] = asked
<1>1. parked = None /\ asking # None /\ asking.handle = asked
  BY DEF IInv, AskedIsClaimed
<1>2. Live = {asked}  BY <1>1 DEF IInv, ClaimIsLive, Claimed
<1>3. asked \in Handle /\ asked \notin Superseded
  BY <1>2 DEF Live, IInv, Typed
<1>4. ASSUME NEW e, TheEnds(e, handleSeq, superseded)
      PROVE  e[asked] = asked
  <2>1. asked \in 1 .. handleSeq /\ asked \notin Firsts(superseded)
    BY <1>3 DEF Handle, Superseded, Firsts
  <2> QED  BY <1>4, <2>1 DEF TheEnds, Ends
<1> QED  BY <1>1, <1>2, <1>3, <1>4

\* The calls before the next are those before this one, and this one.
LEMMA CallsGoOn ==
  ASSUME IInv, reply = "running", NextCall,
         \/ parked' = parked /\ told' = told \union {call}
         \/ /\ parked = None /\ parked' # None /\ parked'.call = call
            /\ told' = told
  PROVE  /\ EarlierTold' /\ call' \in 1 .. MaxCalls
         /\ reply' \in {"running", "parked", "answered"}
         /\ tool' \in {tool, "running"} /\ asked' = 0
<1>1. call \in 1 .. MaxCalls /\ MaxCalls \in Nat  BY QuestionsAssumption DEF IInv, Typed
<1> DEFINE before == 1 .. (call - 1)
           now == 1 .. call
<1>2. now = before \union {call} /\ call \notin before  BY <1>1
<1>3. /\ told = {c \in before : parked = None \/ c # parked.call}
      /\ parked # None => parked.call \in before
  BY DEF IInv, EarlierTold
<1>4. \/ call < MaxCalls /\ call' = call + 1 /\ reply' = "running" /\ tool' = "running"
      \/ /\ call = MaxCalls /\ call' = call /\ tool' = tool
         /\ reply' = IF parked' # None THEN "parked" ELSE "answered"
  BY <1>1 DEF NextCall
<1>5. (IF reply' \in {"running", "lost"} THEN 1 .. (call' - 1) ELSE 1 .. MaxCalls) = now
  BY <1>1, <1>4
<1> HIDE DEF before, now
<1>6. told' = {c \in now : parked' = None \/ c # parked'.call}
  BY <1>2, <1>3
<1>7. parked' # None => parked'.call \in now
  BY <1>2, <1>3
<1>8. asked' = 0  BY DEF NextCall
<1>9. EarlierTold'  BY <1>4, <1>5, <1>6, <1>7, <1>8 DEF EarlierTold
<1>10. call' \in 1 .. MaxCalls  BY <1>1, <1>4
<1> QED  BY <1>4, <1>8, <1>9, <1>10

LEMMA ReturnedKeeps == ASSUME IInv, Returned PROVE IInv'
<1>1. /\ UNCHANGED <<ops, asking, questions, frozen, superseded, handleSeq>>
      /\ AllIn /\ NextCall /\ reply = "running"
      /\ \/ asked # 0 /\ parked' = [call |-> call, handle |-> asked] /\ told' = told
         \/ asked = 0 /\ parked' = parked /\ told' = told \union {call}
  BY DEF Returned
<1>2. call \in Nat /\ asked \in Nat  BY QuestionsAssumption DEF IInv, Typed
<1>3. \/ /\ asked # 0 /\ parked = None /\ parked' # None /\ parked' \in Parks
         /\ parked'.call = call /\ parked'.handle = asked /\ told' = told
      \/ asked = 0 /\ parked' = parked /\ told' = told \union {call}
  <2>1. [call |-> call, handle |-> asked] # None /\ [call |-> call, handle |-> asked] \in Parks
    BY <1>2, ClaimIsSome
  <2>2. asked # 0 => parked = None  BY AskedIsLive
  <2> QED  BY <1>1, <2>1, <2>2
<1>4. /\ EarlierTold' /\ call' \in 1 .. MaxCalls
      /\ reply' \in {"running", "parked", "answered"}
      /\ tool' \in {tool, "running"} /\ asked' = 0
  BY <1>1, <1>3, CallsGoOn
<1>5. \A i \in Op : Settled(i) /\ ~Storing(i)  BY <1>1, NothingUnderWay
<1>6. Handle' = Handle /\ Superseded' = Superseded /\ Live' = Live /\ Claimed' = Claimed
      /\ Op' = Op
  BY <1>1 DEF Handle, Superseded, Live, Claimed, Op
<1>7. Typed'
  <2>1. parked' \in Parks \union {None}  BY <1>3 DEF IInv, Typed
  <2> QED  BY <1>1, <1>4, <1>6, <2>1 DEF IInv, Typed
<1>8. ClaimIsLive'  BY <1>6 DEF IInv, ClaimIsLive
<1>9. StoringClaims'  BY <1>1, <1>6 DEF IInv, StoringClaims, Storing
<1>10. RevisesApart'  BY <1>1, <1>6 DEF IInv, RevisesApart, Storing
<1>11. NoneLeftOver'  BY <1>1, <1>5, <1>6 DEF NoneLeftOver, Settled
<1>12. AskedIsClaimed'
  <2>1. CASE asked # 0  BY <1>1, <1>3, <1>4, <2>1, AskedIsLive DEF AskedIsClaimed
  <2>2. CASE asked = 0  BY <1>1, <1>3, <1>4, <1>6, <2>2 DEF IInv, AskedIsClaimed
  <2> QED  BY <2>1, <2>2
<1>13. OneRevision'  BY <1>1 DEF IInv, OneRevision
<1>14. ChainEnds'
  <2>1. PICK e : /\ TheEnds(e, handleSeq, superseded)
                 /\ parked # None => parked.handle \in Handle /\ e[parked.handle] = asking.handle
    BY DEF IInv, ChainEnds
  <2>2. parked' # None => parked'.handle \in Handle' /\ e[parked'.handle] = asking'.handle
    BY <1>1, <1>3, <1>6, <2>1, AskedIsLive
  <2> QED  BY <1>1, <2>1, <2>2 DEF ChainEnds
<1> QED
  BY <1>4, <1>7, <1>8, <1>9, <1>10, <1>11, <1>12, <1>13, <1>14 DEF IInv

LEMMA ThrewKeeps == ASSUME IInv, Threw PROVE IInv'
<1>1. /\ UNCHANGED <<parked, ops, questions, superseded, handleSeq>>
      /\ AllIn /\ NextCall /\ reply = "running"
      /\ told' = told \union {call}
      /\ frozen' = frozen \union Withdrawn(asked)
      /\ asking' = IF asked # 0 THEN None ELSE asking
  BY DEF Threw
<1>2. /\ EarlierTold' /\ call' \in 1 .. MaxCalls
      /\ reply' \in {"running", "parked", "answered"}
      /\ tool' \in {tool, "running"} /\ asked' = 0
  BY <1>1, CallsGoOn
<1>3. \A i \in Op : Settled(i) /\ ~Storing(i) /\ ops[i].at # "waiting"
  BY <1>1, NothingUnderWay
<1>4. Handle' = Handle /\ Superseded' = Superseded /\ Op' = Op
  BY <1>1 DEF Handle, Superseded, Op
\* What it asked is withdrawn, and the claim with it.
<1>5. \/ /\ asked # 0 /\ asked \in Handle /\ parked = None /\ asking' = None
         /\ frozen' = frozen \union {asked} /\ Live' = {}
      \/ asked = 0 /\ asking' = asking /\ frozen' = frozen /\ Live' = Live
  <2>1. CASE asked # 0
    <3>1. asked \in Handle /\ Live = {asked} /\ parked = None  BY <2>1, AskedIsLive
    <3>2. frozen' = frozen \union {asked}  BY <1>1, <2>1 DEF Withdrawn
    <3>3. Live' = {}  BY <1>1, <1>4, <3>1, <3>2 DEF Live
    <3> QED  BY <1>1, <2>1, <3>1, <3>2, <3>3
  <2>2. CASE asked = 0
    <3>1. frozen' = frozen  BY <1>1, <2>2 DEF Withdrawn
    <3> QED  BY <1>1, <1>4, <2>2, <3>1 DEF Live
  <2> QED  BY <2>1, <2>2
<1>6. Typed'
  <2>1. frozen' \subseteq Handle'  BY <1>4, <1>5 DEF IInv, Typed
  <2>2. asking' \in Claims \union {None}  BY <1>5 DEF IInv, Typed
  <2> QED  BY <1>1, <1>2, <1>4, <2>1, <2>2 DEF IInv, Typed
<1>7. ClaimIsLive'
  <2>1. CASE asking' = None /\ Live' = {}  BY <2>1 DEF ClaimIsLive, Claimed
  <2>2. CASE asking' = asking /\ Live' = Live  BY <2>2 DEF IInv, ClaimIsLive, Claimed
  <2> QED  BY <1>5, <2>1, <2>2
<1>8. StoringClaims'
  <2>1. \A i \in Op' : ~Storing(i)' /\ ops'[i].at # "waiting"  BY <1>1, <1>3, <1>4 DEF Storing
  <2>2. asking' # None => asking'.op \in Op' /\ ops'[asking'.op].kind = "ask"
    BY <1>1, <1>4, <1>5 DEF IInv, StoringClaims
  <2> QED  BY <2>1, <2>2 DEF StoringClaims
<1>9. RevisesApart'  BY <1>1, <1>3, <1>4 DEF RevisesApart, Storing
<1>10. NoneLeftOver'  BY <1>1, <1>3, <1>4 DEF NoneLeftOver, Settled
<1>11. AskedIsClaimed'
  BY <1>1, <1>2, <1>5 DEF IInv, AskedIsClaimed, Claimed
<1>12. OneRevision'  BY <1>1 DEF IInv, OneRevision
<1>13. ChainEnds'
  <2>1. parked # None => asking' = asking  BY <1>5
  <2> QED  BY <1>1, <1>4, <2>1 DEF IInv, ChainEnds
<1> QED
  BY <1>2, <1>6, <1>7, <1>8, <1>9, <1>10, <1>11, <1>12, <1>13 DEF IInv

-----------------------------------------------------------------------------
(* The theorems                                                             *)

LEMMA StutterKeeps == ASSUME IInv, UNCHANGED vars PROVE IInv'
<1>1. UNCHANGED <<reply, call, tool, ops, asking, asked, parked, told, questions, frozen,
                  superseded, handleSeq>>
  BY DEF vars
<1>2. Handle' = Handle /\ Superseded' = Superseded /\ Op' = Op
  BY <1>1 DEF Handle, Superseded, Op
<1>3. Typed'  BY <1>1, <1>2 DEF IInv, Typed
<1>4. StoringClaims'  BY <1>1, <1>2 DEF IInv, StoringClaims, Storing
<1>5. RevisesApart'  BY <1>1, <1>2 DEF IInv, RevisesApart, Storing
<1>6. NoneLeftOver'  BY <1>1, <1>2 DEF IInv, NoneLeftOver, Settled
<1> QED  BY <1>1, <1>3, <1>4, <1>5, <1>6, ScreenKept DEF IInv

LEMMA StepKeeps == ASSUME IInv, [Next]_vars PROVE IInv'
<1>1. CASE RenderDisplay  BY <1>1, RenderDisplayKeeps
<1>2. CASE RenderQuestion  BY <1>2, RenderQuestionKeeps
<1>3. ASSUME NEW h \in Handle, StartRevision(h)
      PROVE  IInv'
  BY <1>3, StartRevisionKeeps
<1>4. ASSUME NEW i \in Op, OpStep(i)
      PROVE  IInv'
  <2>1. CASE LookAgain(i)  BY <2>1, LookAgainKeeps
  <2>2. CASE DisplayShown(i)  BY <2>2, DisplayShownKeeps
  <2>3. CASE QuestionShown(i)  BY <2>3, QuestionShownKeeps
  <2>4. CASE RevisionShown(i)  BY <2>4, RevisionShownKeeps
  <2>5. CASE \E cause \in {LostLease, OtherCause} : Fails(i, cause)  BY <2>5, FailsKeeps
  <2> QED  BY <1>4, <2>1, <2>2, <2>3, <2>4, <2>5 DEF OpStep
<1>5. CASE CallStep  BY <1>5, EndsKeep, ReturnedKeeps, ThrewKeeps DEF CallStep
<1>6. CASE UNCHANGED vars  BY <1>6, StutterKeeps
<1> QED  BY <1>1, <1>2, <1>3, <1>4, <1>5, <1>6 DEF Next

THEOREM Invariance == Spec => []IInv
<1>1. Init => IInv  BY Initially
<1>2. IInv /\ [Next]_vars => IInv'  BY StepKeeps
<1> QED  BY <1>1, <1>2, PTL DEF Spec

\* No surface is revised twice, whatever revisions overlap. (revising)
THEOREM RevisedOnce == Spec => []OneRevision
<1>1. IInv => OneRevision  BY DEF IInv
<1> QED  BY <1>1, Invariance, PTL

\* Of any number of renders and revisions in any order, one question at most is
\* live, and it is the claim's. (hop.asking)
THEOREM OneLive == Spec => []OneQuestion
<1>1. ASSUME IInv
      PROVE  OneQuestion
  <2>1. Live = Claimed  BY <1>1 DEF IInv, ClaimIsLive
  <2>2. CASE Live = {}
    <3>1. Cardinality(Live) = 0  BY <2>2, FS_EmptySet
    <3> QED  BY <2>2, <3>1 DEF OneQuestion
  <2>3. CASE asking # None /\ Live = {asking.handle}
    <3>1. Cardinality(Live) = 1  BY <2>3, FS_Singleton
    <3> QED  BY <2>3, <3>1 DEF OneQuestion
  <2> QED  BY <2>1, <2>2, <2>3 DEF Claimed
<1> QED  BY <1>1, Invariance, PTL

\* A turn parks on its one live question, wherever revisions have taken its
\* surface since the call that asked, and every other call has its result.
THEOREM ParkedRight == Spec => []ParksOnItsQuestion
<1>1. ASSUME IInv
      PROVE  ParksOnItsQuestion
  <2>1. ASSUME reply = "parked"
        PROVE  Live = {Current(parked.handle)} /\ told = (1 .. MaxCalls) \ {parked.call}
    <3>1. parked # None /\ told = {c \in 1 .. MaxCalls : parked = None \/ c # parked.call}
      BY <1>1, <2>1 DEF IInv, EarlierTold
    <3>2. Live = {asking.handle}
      BY <1>1, <3>1 DEF IInv, AskedIsClaimed, ClaimIsLive, Claimed
    <3>3. PICK e : TheEnds(e, handleSeq, superseded) /\ e[parked.handle] = asking.handle
      BY <1>1, <3>1 DEF IInv, ChainEnds
    <3>4. Current(parked.handle) = e[parked.handle]  BY <3>3, CurrentIsTheEnd
    <3> QED  BY <3>1, <3>2, <3>3, <3>4
  <2>2. ASSUME reply = "answered"
        PROVE  Live = {} /\ told = 1 .. MaxCalls
    <3>1. parked = None /\ asked = 0
          /\ told = {c \in 1 .. MaxCalls : parked = None \/ c # parked.call}
      BY <1>1, <2>2 DEF IInv, EarlierTold
    <3>2. Live = {}  BY <1>1, <3>1 DEF IInv, AskedIsClaimed, ClaimIsLive
    <3> QED  BY <3>1, <3>2
  <2> QED  BY <2>1, <2>2 DEF ParksOnItsQuestion
<1> QED  BY <1>1, Invariance, PTL

------------------------------------------------------------------------------
(****************************************************************************)
(* What UpdateQueue says of any number of calls, handles and queues: a      *)
(* call resolves only to a write that carried it, and the writes of one     *)
(* queue land in the order of their calls.                                  *)
(*                                                                          *)
(* A queue has the newest of its calls last: the job behind is of a later   *)
(* call than the job it writes (InOrder), which is of a later call than     *)
(* any it wrote before (WrittenBefore), and calls only ever join the job    *)
(* behind (CarriesCalls). Handles are written once (WrittenOnce), so what   *)
(* a call resolved to stays what it was.                                    *)
(****************************************************************************)

Outcomes == {"waiting", "resolved", "rejected"}
Call == [surface : Surfaces, wake : BOOLEAN, outcome : Outcomes, handle : 0 .. MaxHandle]

\* A job of calls that were made, none later than the one it is by, with the
\* wake any of them asked for.
GoodJobOf(j, made) ==
  /\ j = [by |-> j.by, for |-> j.for, wake |-> j.wake]
  /\ j.by \in DOMAIN made /\ j.for \subseteq DOMAIN made /\ j.wake \in BOOLEAN
  /\ \A n \in j.for : n <= j.by /\ (made[n].wake => j.wake)

GoodJob(j) == GoodJobOf(j, calls)

CallsTyped ==
  /\ \E n \in 0 .. MaxUpdates : Made = 1 .. n
  /\ calls \in [Made -> Call]
  /\ \A n \in Made : calls[n].outcome = "resolved" => calls[n].handle \in Handles
  /\ names \in [Handles -> Handles \union {Absent}]
  /\ latest \in Handles
  /\ DOMAIN queue = Handles /\ DOMAIN written = Handles

Queue(q) == [at |-> q.at, surface |-> q.surface, job |-> q.job, next |-> q.next, wrote |-> q.wrote]

\* A queue's jobs carry their calls.
CarriesCalls ==
  \A k \in Handles : queue[k] # Absent =>
    /\ queue[k] = Queue(queue[k])
    /\ GoodJob(queue[k].job)
    /\ queue[k].next # Absent => GoodJob(queue[k].next)

\* The job behind is of a later call.
InOrder ==
  \A k \in Handles : queue[k] # Absent /\ queue[k].next # Absent =>
    queue[k].next.by > queue[k].job.by

\* Handles are written in order, each by a job of a queue.
WrittenOnce ==
  \A h \in Handles : written[h] # Absent =>
    /\ h <= latest
    /\ written[h] = [key |-> written[h].key, job |-> written[h].job]
    /\ written[h].key \in Handles /\ GoodJob(written[h].job)

\* What a queue wrote was of calls before the one it is writing.
WrittenBefore ==
  \A k, h \in Handles : queue[k] # Absent /\ written[h] # Absent /\ written[h].key = k =>
    \/ written[h].job.by < queue[k].job.by
    \/ queue[k].at = "landed" /\ written[h].job = queue[k].job

\* A job that has landed is written where its callers will hear it is.
LandedWritten ==
  \A k \in Handles : queue[k] # Absent /\ queue[k].at = "landed" =>
    /\ queue[k].wrote[1] \in Handles /\ queue[k].wrote[2] \in Handles
    /\ written[queue[k].wrote[2]] = [key |-> k, job |-> queue[k].job]

QueueIInv ==
  /\ CallsTyped
  /\ CarriesCalls
  /\ InOrder
  /\ WrittenOnce
  /\ WrittenBefore
  /\ LandedWritten
  /\ ResolvedByItsWrite
  /\ NewestWins

-----------------------------------------------------------------------------
(* The inductive invariant *)

LEMMA InitIInv ==
  ASSUME QueueInit
  PROVE  QueueIInv
<1>1. Made = {} /\ Made = 1 .. 0
  BY DEF QueueInit, Made
<1>2. CallsTyped
  BY <1>1, QueueBounds DEF QueueInit, CallsTyped, Handles, Made
<1> QED
  BY <1>1, <1>2 DEF QueueInit, QueueIInv, CarriesCalls, InOrder, WrittenOnce, WrittenBefore, LandedWritten,
     ResolvedByItsWrite, NewestWins

\* Jobs stay good while calls are only added to, and settle.
LEMMA GoodJobKept ==
  ASSUME NEW j, GoodJob(j), Made \subseteq Made',
         \A n \in Made : calls'[n].wake = calls[n].wake
  PROVE  GoodJobOf(j, calls')
BY DEF GoodJob, GoodJobOf, Made

\* The call made now has the number after every other's.
LEMMA NextNumber ==
  ASSUME CallsTyped
  PROVE  LET n == Cardinality(Made) + 1 IN
         n \in Nat /\ n \notin Made /\ Made \union {n} = 1 .. n /\ \A m \in Made : m < n
<1>1. PICK m \in 0 .. MaxUpdates : Made = 1 .. m
  BY DEF CallsTyped
<1>2. m \in Nat
  BY QueueBounds
<1>3. Cardinality(Made) = m
  BY <1>1, <1>2, FS_Interval
<1> QED
  BY <1>1, <1>2, <1>3

\* A call: it starts its queue, or joins the job behind.
LEMMA UpdateStep ==
  ASSUME QueueIInv,
         NEW h \in Handles, NEW surface \in Surfaces, NEW wake \in BOOLEAN,
         Update(h, surface, wake)
  PROVE  QueueIInv'
<1> DEFINE n == Cardinality(Made) + 1
           k == KeyOf(h)
           q == queue[k]
           new == [at |-> "trying", surface |-> surface,
                   job |-> Job(n, {n}, wake), next |-> Absent, wrote |-> <<>>]
           joined == [q EXCEPT !.next = Merge(q.next, n, wake)]
           made == [surface |-> surface, wake |-> wake, outcome |-> "waiting", handle |-> 0]
<1>1. /\ n <= MaxUpdates
      /\ calls' = [m \in Made \union {n} |-> IF m = n THEN made ELSE calls[m]]
      /\ queue' = IF q = Absent THEN [queue EXCEPT ![k] = new] ELSE [queue EXCEPT ![k] = joined]
      /\ UNCHANGED <<names, latest, lease, written>>
  <2>1. queue' = IF q = Absent THEN [queue EXCEPT ![k] = new] ELSE [queue EXCEPT ![k] = joined]
    BY DEF Update
  <2> QED
    BY <2>1, Zenon DEF Update
<1>2. n \in Nat /\ n \notin Made /\ Made \union {n} = 1 .. n /\ \A m \in Made : m < n
  BY NextNumber DEF QueueIInv
<1>3. k \in Handles
  BY DEF KeyOf, QueueIInv, CallsTyped
<1>4. MaxUpdates \in Nat /\ MaxHandle \in Nat /\ Made \subseteq Nat
  BY <1>2, QueueBounds
<1> HIDE DEF n, k, q, new, joined
<1>5. /\ Made' = Made \union {n} /\ calls'[n] = made /\ n \in Made'
      /\ \A m \in Made : calls'[m] = calls[m]
  BY <1>1, <1>2 DEF Made
<1>6. CallsTyped'
  <2>1. made \in Call
    BY <1>4 DEF Call, Outcomes
  <2>2. calls' \in [Made' -> Call]
    BY <1>1, <1>5, <2>1 DEF QueueIInv, CallsTyped
  <2>3. n \in 0 .. MaxUpdates /\ Made' = 1 .. n
    BY <1>1, <1>2, <1>4, <1>5
  <2>4. DOMAIN queue' = Handles
    BY <1>1 DEF QueueIInv, CallsTyped
  <2> QED
    BY <1>1, <1>5, <2>2, <2>3, <2>4 DEF QueueIInv, CallsTyped
<1>7. \A j : GoodJob(j) => GoodJobOf(j, calls')
  BY <1>5, GoodJobKept
<1>8. \A x \in Handles : x # k => queue'[x] = queue[x]
  BY <1>1 DEF QueueIInv, CallsTyped
<1>9. queue'[k] = IF q = Absent THEN new ELSE joined
  BY <1>1, <1>3 DEF QueueIInv, CallsTyped
<1>10. \A j : GoodJob(j) => j.by \in Made /\ j.by < n
  BY <1>2 DEF GoodJob, GoodJobOf, Made
<1>11. \A x \in Handles : written[x] # Absent => written[x].job.by < n
  BY <1>10 DEF QueueIInv, WrittenOnce
<1>12. WrittenOnce' /\ ResolvedByItsWrite' /\ NewestWins'
  <2>1. WrittenOnce'
    BY <1>1, <1>7 DEF QueueIInv, WrittenOnce, GoodJob
  <2>2. NewestWins'
    BY <1>1 DEF QueueIInv, NewestWins
  <2>3. ResolvedByItsWrite'
    BY <1>1, <1>5 DEF QueueIInv, ResolvedByItsWrite
  <2> QED
    BY <2>1, <2>2, <2>3
<1>13. CASE q = Absent
  <2>1. queue'[k] = new
    BY <1>9, <1>13
  <2>2. /\ new = Queue(new) /\ new.next = Absent /\ new.at = "trying" /\ new.job.by = n
        /\ GoodJobOf(new.job, calls')
    BY <1>4, <1>5, <1>2 DEF new, Queue, GoodJobOf, Job, Made
  <2>3. CarriesCalls' /\ InOrder'
    BY <1>7, <1>8, <2>1, <2>2 DEF QueueIInv, CarriesCalls, InOrder, GoodJob
  <2>4. WrittenBefore'
    BY <1>1, <1>8, <1>11, <2>1, <2>2 DEF QueueIInv, WrittenBefore
  <2>5. LandedWritten'
    BY <1>1, <1>8, <2>1, <2>2 DEF QueueIInv, LandedWritten
  <2> QED
    BY <1>6, <1>12, <2>3, <2>4, <2>5 DEF QueueIInv
<1>14. CASE q # Absent
  <2>1. queue'[k] = joined /\ queue[k] = q
    BY <1>9, <1>14 DEF q
  <2>2. q = Queue(q) /\ GoodJob(q.job) /\ (q.next # Absent => GoodJob(q.next))
    BY <1>3, <1>14 DEF q, QueueIInv, CarriesCalls
  <2>3. /\ joined = Queue(joined) /\ joined.job = q.job /\ joined.at = q.at
        /\ joined.wrote = q.wrote /\ joined.next = Merge(q.next, n, wake)
    BY <2>2 DEF joined, Queue
  <2>4. GoodJobOf(joined.next, calls') /\ joined.next.by = n
    <3>1. CASE q.next = Absent
      BY <1>2, <1>4, <1>5, <2>3, <3>1 DEF Merge, GoodJobOf, Job, Made
    <3>2. CASE q.next # Absent
      <4>1. joined.next = [by |-> n, for |-> q.next.for \union {n}, wake |-> (wake \/ q.next.wake)]
        BY <2>3, <3>2 DEF Merge, Job
      <4>2. /\ q.next.for \subseteq Made /\ q.next.wake \in BOOLEAN
            /\ \A m \in q.next.for : calls[m].wake => q.next.wake
        BY <2>2, <3>2 DEF GoodJob, GoodJobOf, Made
      <4>3. \A m \in joined.next.for : m <= n
        BY <1>2, <1>4, <4>1, <4>2
      <4>4. \A m \in joined.next.for : calls'[m].wake => joined.next.wake
        BY <1>5, <4>1, <4>2
      <4> QED
        BY <1>5, <4>1, <4>2, <4>3, <4>4 DEF GoodJobOf, Made
    <3> QED
      BY <3>1, <3>2
  <2>5. CarriesCalls' /\ InOrder'
    BY <1>7, <1>8, <1>10, <1>4, <1>2, <2>1, <2>2, <2>3, <2>4 DEF QueueIInv, CarriesCalls, InOrder, GoodJob
  <2>6. WrittenBefore'
    BY <1>1, <1>8, <2>1, <2>3, <1>14 DEF QueueIInv, WrittenBefore
  <2>7. LandedWritten'
    BY <1>1, <1>8, <2>1, <2>3, <1>14 DEF QueueIInv, LandedWritten
  <2> QED
    BY <1>6, <1>12, <2>5, <2>6, <2>7 DEF QueueIInv
<1> QED
  BY <1>13, <1>14

\* A queue goes on to another stage of the same job, and nothing else changes.
LEMMA MoveStep ==
  ASSUME QueueIInv, NEW k \in Handles, queue[k] # Absent,
         queue[k].at # "landed", NEW stage, stage # "landed",
         MoveTo(k, stage), UNCHANGED <<calls, names, latest, written>>
  PROVE  QueueIInv'
<1> DEFINE q == queue[k]
           moved == [q EXCEPT !.at = stage]
<1>1. queue' = [queue EXCEPT ![k] = moved]
  BY DEF MoveTo
<1>2. q = Queue(q)
  BY DEF QueueIInv, CarriesCalls
<1>3. moved = Queue(moved) /\ moved.at = stage /\ moved.job = q.job /\ moved.next = q.next
  BY <1>2 DEF Queue
<1>4. /\ DOMAIN queue' = Handles /\ queue'[k] = moved
      /\ \A x \in Handles : x # k => queue'[x] = queue[x]
  BY <1>1 DEF QueueIInv, CallsTyped
<1> HIDE DEF moved
<1>5. CallsTyped' /\ WrittenOnce' /\ ResolvedByItsWrite' /\ NewestWins'
  BY <1>4 DEF QueueIInv, CallsTyped, WrittenOnce, GoodJob, ResolvedByItsWrite, NewestWins, Made
<1>6. CarriesCalls' /\ InOrder'
  BY <1>3, <1>4 DEF QueueIInv, CarriesCalls, InOrder, GoodJob
<1>7. WrittenBefore' /\ LandedWritten'
  BY <1>3, <1>4 DEF QueueIInv, WrittenBefore, LandedWritten
<1> QED
  BY <1>5, <1>6, <1>7 DEF QueueIInv

\* A job ends: its callers hear of it, and the queue goes on to the job behind.
LEMMA EndedStep ==
  ASSUME QueueIInv, NEW k \in Handles, queue[k] # Absent,
         NEW outcome \in {"resolved", "rejected"}, NEW handle \in 0 .. MaxHandle,
         outcome = "resolved" => queue[k].at = "landed" /\ handle = queue[k].wrote[2],
         Ended(k, outcome, handle), UNCHANGED <<latest, written>>,
         names' \in [Handles -> Handles \union {Absent}]
  PROVE  QueueIInv'
<1> DEFINE q == queue[k]
           next == AfterJob(q)
           Ns == q.job.for
<1>1. /\ queue' = [queue EXCEPT ![k] = next]
      /\ calls' = [n \in Made |-> IF n \in Ns THEN [calls[n] EXCEPT !.outcome = outcome, !.handle = handle]
                                  ELSE calls[n]]
  BY DEF Ended, Settle
<1>2. q = Queue(q) /\ GoodJob(q.job) /\ (q.next # Absent => GoodJob(q.next))
  BY DEF QueueIInv, CarriesCalls
<1>3. next # Absent => /\ next = Queue(next) /\ next.job = q.next /\ next.next = Absent
                     /\ next.at = "trying" /\ q.next # Absent
  BY <1>2 DEF AfterJob, Queue
<1>4. /\ DOMAIN queue' = Handles /\ queue'[k] = next
      /\ \A x \in Handles : x # k => queue'[x] = queue[x]
  BY <1>1 DEF QueueIInv, CallsTyped
<1>5. /\ Made' = Made
      /\ \A n \in Made : IF n \in Ns
           THEN calls'[n] = [calls[n] EXCEPT !.outcome = outcome, !.handle = handle]
           ELSE calls'[n] = calls[n]
  BY <1>1 DEF Made
<1>6. \A n \in Made : /\ calls[n] \in Call /\ calls'[n] \in Call /\ calls'[n].wake = calls[n].wake
                      /\ IF n \in Ns THEN calls'[n].outcome = outcome /\ calls'[n].handle = handle
                         ELSE calls'[n] = calls[n]
  <2> SUFFICES ASSUME NEW n \in Made
               PROVE  /\ calls[n] \in Call /\ calls'[n] \in Call /\ calls'[n].wake = calls[n].wake
                      /\ IF n \in Ns THEN calls'[n].outcome = outcome /\ calls'[n].handle = handle
                         ELSE calls'[n] = calls[n]
    OBVIOUS
  <2>1. calls[n] \in Call
    BY DEF QueueIInv, CallsTyped
  <2>2. CASE n \in Ns
    BY <1>5, <2>1, <2>2 DEF Call, Outcomes
  <2>3. CASE n \notin Ns
    BY <1>5, <2>1, <2>3
  <2> QED
    BY <2>2, <2>3
<1>7. outcome = "resolved" =>
        handle \in Handles /\ written[handle] = [key |-> k, job |-> q.job]
  BY DEF QueueIInv, LandedWritten
<1> HIDE DEF next
<1>8. \A j : GoodJob(j) => GoodJobOf(j, calls')
  BY <1>5, <1>6, GoodJobKept
<1>9. CallsTyped'
  <2>1. calls' \in [Made' -> Call]
    BY <1>1, <1>5, <1>6
  <2>2. \A n \in Made : calls'[n].outcome = "resolved" => calls'[n].handle \in Handles
    BY <1>6, <1>7 DEF QueueIInv, CallsTyped
  <2> QED
    BY <1>4, <1>5, <2>1, <2>2 DEF QueueIInv, CallsTyped
<1>10. CarriesCalls' /\ InOrder'
  BY <1>2, <1>3, <1>4, <1>8 DEF QueueIInv, CarriesCalls, InOrder, GoodJob
<1>11. WrittenOnce' /\ NewestWins'
  BY <1>8 DEF QueueIInv, WrittenOnce, NewestWins, GoodJob
<1>12. LandedWritten'
  BY <1>3, <1>4 DEF QueueIInv, LandedWritten
<1>13. WrittenBefore'
  <2>1. next # Absent => next.job.by > q.job.by
    BY <1>3 DEF QueueIInv, InOrder
  <2>2. \A j : GoodJob(j) => j.by \in Nat
    BY DEF GoodJob, GoodJobOf, QueueIInv, CallsTyped, Made
  <2>3. ASSUME NEW h \in Handles, next # Absent, written[h] # Absent, written[h].key = k
        PROVE  written[h].job.by < next.job.by
    <3>1. written[h].job.by \in Nat /\ q.job.by \in Nat /\ next.job.by \in Nat
      BY <1>2, <1>3, <2>2, <2>3 DEF QueueIInv, WrittenOnce
    <3>2. written[h].job.by <= q.job.by
      BY <2>3, <3>1 DEF QueueIInv, WrittenBefore
    <3> QED
      BY <2>1, <2>3, <3>1, <3>2
  <2> QED
    BY <1>4, <2>3 DEF QueueIInv, WrittenBefore
<1>14. ResolvedByItsWrite'
  <2> SUFFICES ASSUME NEW n \in Made, calls'[n].outcome = "resolved"
               PROVE  LET w == written[calls'[n].handle] IN
                      /\ w # Absent /\ n \in w.job.for /\ w.job.by >= n
                      /\ calls'[n].wake => w.job.wake
    BY <1>5 DEF ResolvedByItsWrite
  <2>1. CASE n \in Ns
    <3> DEFINE w == [key |-> k, job |-> q.job]
    <3>1. written[calls'[n].handle] = w /\ calls'[n].wake = calls[n].wake
      BY <1>6, <1>7, <2>1
    <3>2. n <= q.job.by /\ (calls[n].wake => q.job.wake) /\ n \in Nat /\ q.job.by \in Nat
      BY <1>2, <2>1 DEF GoodJob, GoodJobOf, QueueIInv, CallsTyped, Made
    <3>3. w # Absent
      <4>1. Made \subseteq 1 .. MaxUpdates
        BY QueueBounds DEF QueueIInv, CallsTyped
      <4>2. q.job \in [by : 1 .. MaxUpdates, for : SUBSET (1 .. MaxUpdates), wake : BOOLEAN]
        BY <1>2, <4>1 DEF GoodJob, GoodJobOf, Made
      <4> QED
        BY <4>2, QueueBounds
    <3> QED
      BY <2>1, <3>1, <3>2, <3>3
  <2>2. CASE n \notin Ns
    BY <1>6, <2>2 DEF QueueIInv, ResolvedByItsWrite
  <2> QED
    BY <2>1, <2>2
<1> QED
  BY <1>9, <1>10, <1>11, <1>12, <1>13, <1>14 DEF QueueIInv

\* The revision is stored, under a handle nothing was written under.
LEMMA LandStep ==
  ASSUME QueueIInv, NEW k \in Handles, Land(k)
  PROVE  QueueIInv'
<1> DEFINE q == queue[k]
           new == latest + 1
           w == [key |-> k, job |-> q.job]
           landed == [q EXCEPT !.at = "landed", !.wrote = <<latest, new>>]
<1>1. /\ q # Absent /\ q.at = "writing" /\ latest < MaxHandle /\ latest' = new
      /\ written' = [written EXCEPT ![new] = w]
      /\ queue' = [queue EXCEPT ![k] = landed] /\ UNCHANGED <<calls, names>>
  BY DEF Land, At
<1>2. latest \in Handles /\ latest \in Nat /\ new \in Handles /\ new \in Nat
  BY <1>1, QueueBounds DEF QueueIInv, CallsTyped, Handles
<1>3. q = Queue(q) /\ GoodJob(q.job)
  BY <1>1 DEF QueueIInv, CarriesCalls
<1>4. /\ landed = Queue(landed) /\ landed.at = "landed" /\ landed.wrote = <<latest, new>>
      /\ landed.job = q.job /\ landed.next = q.next
  <2> DEFINE wrote == <<latest, new>>
  <2>1. landed = [q EXCEPT !.at = "landed", !.wrote = wrote]
    OBVIOUS
  <2> HIDE DEF landed, wrote
  <2>2. /\ landed = Queue(landed) /\ landed.at = "landed" /\ landed.wrote = wrote
        /\ landed.job = q.job /\ landed.next = q.next
    BY <1>3, <2>1 DEF Queue
  <2> QED
    BY <2>2 DEF wrote
<1>5. /\ DOMAIN queue' = Handles /\ queue'[k] = landed
      /\ \A x \in Handles : x # k => queue'[x] = queue[x]
  BY <1>1 DEF QueueIInv, CallsTyped
<1>6. /\ DOMAIN written' = Handles /\ written'[new] = w
      /\ \A x \in Handles : x # new => written'[x] = written[x]
  BY <1>1, <1>2 DEF QueueIInv, CallsTyped
<1>7. w.key = k /\ w.job = q.job /\ w = [key |-> w.key, job |-> w.job]
  OBVIOUS
<1> HIDE DEF landed, new, w
<1>8. \A h \in Handles : written[h] # Absent => h <= latest /\ h # new
  <2>1. \A h \in Handles : written[h] # Absent => h <= latest
    BY DEF QueueIInv, WrittenOnce
  <2>2. \A h \in Handles : h <= latest => h # new
    BY <1>2 DEF new, Handles
  <2> QED
    BY <2>1, <2>2
<1>9. CallsTyped'
  BY <1>1, <1>2, <1>5, <1>6 DEF QueueIInv, CallsTyped, Made
<1>10. CarriesCalls' /\ InOrder'
  BY <1>1, <1>4, <1>5 DEF QueueIInv, CarriesCalls, InOrder, GoodJob
<1>11. WrittenOnce'
  BY <1>1, <1>2, <1>3, <1>6, <1>7, <1>8 DEF QueueIInv, WrittenOnce, GoodJob, new, Handles
<1>12. LandedWritten'
  <2>1. \A x \in Handles : queue[x] # Absent /\ queue[x].at = "landed" => queue[x].wrote[2] # new
    <3>1. \A x \in Handles : \A j : GoodJob(j) => [key |-> x, job |-> j] # Absent
      <4>1. Made \subseteq 1 .. MaxUpdates
        BY QueueBounds DEF QueueIInv, CallsTyped
      <4>2. \A j : GoodJob(j) =>
              j \in [by : 1 .. MaxUpdates, for : SUBSET (1 .. MaxUpdates), wake : BOOLEAN]
        BY <4>1 DEF GoodJob, GoodJobOf, Made
      <4> QED
        BY <4>2, QueueBounds
    <3> QED
      <4> SUFFICES ASSUME NEW x \in Handles, queue[x] # Absent, queue[x].at = "landed"
                   PROVE  queue[x].wrote[2] \in Handles /\ written[queue[x].wrote[2]] # Absent
        BY <1>8
      <4>1. /\ queue[x].wrote[2] \in Handles
            /\ written[queue[x].wrote[2]] = [key |-> x, job |-> queue[x].job]
            /\ GoodJob(queue[x].job)
        BY DEF QueueIInv, LandedWritten, CarriesCalls
      <4> QED
        BY <3>1, <4>1
  <2>2. /\ landed.wrote[1] \in Handles /\ landed.wrote[2] \in Handles
        /\ written'[landed.wrote[2]] = [key |-> k, job |-> landed.job]
    BY <1>2, <1>4, <1>6 DEF w
  <2> QED
    BY <1>5, <1>6, <2>1, <2>2 DEF QueueIInv, LandedWritten
<1>13. \A h \in Handles : written[h] # Absent /\ written[h].key = k => written[h].job.by < q.job.by
  BY <1>1 DEF QueueIInv, WrittenBefore
<1>14. WrittenBefore'
  BY <1>1, <1>2, <1>4, <1>5, <1>6, <1>7, <1>13 DEF QueueIInv, WrittenBefore
<1>15. NewestWins'
  <2> SUFFICES ASSUME NEW g \in Handles, NEW h \in Handles, g < h,
                      written'[g] # Absent, written'[h] # Absent, written'[g].key = written'[h].key
               PROVE  written'[g].job.by < written'[h].job.by
    BY DEF NewestWins
  <2>1. g # new
    <3>1. g = new => h # new /\ written[h] # Absent /\ h > latest
      BY <1>2, <1>6 DEF Handles, new
    <3> QED
      BY <1>2, <1>8, <3>1 DEF Handles
  <2>2. CASE h = new
    BY <1>6, <1>7, <1>13, <2>1, <2>2
  <2>3. CASE h # new
    BY <1>6, <2>1, <2>3 DEF QueueIInv, NewestWins
  <2> QED
    BY <2>2, <2>3
<1>16. ResolvedByItsWrite'
  <2>1. \A n \in Made : calls[n].outcome = "resolved" =>
          written'[calls[n].handle] = written[calls[n].handle]
    BY <1>6, <1>8 DEF QueueIInv, CallsTyped, ResolvedByItsWrite
  <2> QED
    BY <1>1, <2>1 DEF QueueIInv, ResolvedByItsWrite, Made
<1> QED
  BY <1>9, <1>10, <1>11, <1>12, <1>14, <1>15, <1>16 DEF QueueIInv

\* What turns do, and names forgotten, is nothing to calls and queues.
LEMMA OtherStep ==
  ASSUME QueueIInv, UNCHANGED <<calls, queue, written>>,
         latest' = latest \/ latest' = latest + 1, latest' \in Handles,
         names' \in [Handles -> Handles \union {Absent}]
  PROVE  QueueIInv'
<1>1. CallsTyped' /\ CarriesCalls' /\ InOrder' /\ WrittenBefore' /\ LandedWritten'
  BY DEF QueueIInv, CallsTyped, CarriesCalls, InOrder, WrittenBefore, LandedWritten, GoodJob, Made
<1>2. WrittenOnce'
  <2>1. latest \in Nat
    BY DEF QueueIInv, CallsTyped, Handles
  <2> QED
    BY <2>1 DEF QueueIInv, WrittenOnce, GoodJob, Handles
<1>3. ResolvedByItsWrite' /\ NewestWins'
  BY DEF QueueIInv, ResolvedByItsWrite, NewestWins, Made
<1> QED
  BY <1>1, <1>2, <1>3 DEF QueueIInv

LEMMA NextStep ==
  ASSUME QueueIInv, [QueueNext]_queueVars
  PROVE  QueueIInv'
<1>1. names \in [Handles -> Handles \union {Absent}] /\ latest \in Handles /\ MaxHandle \in Nat
  BY QueueBounds DEF QueueIInv, CallsTyped
<1>2. ASSUME NEW k \in Handles, TakeLease(k) \/ FindBusy(k) PROVE QueueIInv'
  BY <1>2, MoveStep DEF TakeLease, FindBusy, At
<1>3. ASSUME NEW k \in Handles, TimeOut(k) \/ Refused(k) \/ RejectLanded(k) PROVE QueueIInv'
  <2>1. /\ queue[k] # Absent /\ Ended(k, "rejected", 0) /\ UNCHANGED <<latest, written>>
        /\ names' = names /\ 0 \in 0 .. MaxHandle
    BY <1>1, <1>3 DEF TimeOut, Refused, RejectLanded, At
  <2> QED
    BY <1>1, <2>1, EndedStep
<1>4. ASSUME NEW k \in Handles, Resolve(k) PROVE QueueIInv'
  <2> DEFINE wrote == queue[k].wrote
  <2>1. /\ queue[k] # Absent /\ queue[k].at = "landed" /\ Ended(k, "resolved", wrote[2])
        /\ names' = Named(k, wrote[1], wrote[2]) /\ UNCHANGED <<latest, written>>
    BY <1>4 DEF Resolve, At
  <2>2. wrote[2] \in 0 .. MaxHandle
    <3>1. wrote[2] \in Handles
      BY <2>1 DEF QueueIInv, LandedWritten
    <3> HIDE DEF wrote
    <3> QED
      BY <3>1, <1>1 DEF Handles
  <2>3. names' \in [Handles -> Handles \union {Absent}]
    BY <1>1, <2>1 DEF Named
  <2> QED
    BY <2>1, <2>2, <2>3, EndedStep
<1>5. CASE TurnTakes \/ TurnRevises \/ TurnLeaves \/ Forget \/ UNCHANGED queueVars
  <2>1. UNCHANGED <<calls, queue, written>> /\ names' \in [Handles -> Handles \union {Absent}]
    BY <1>1, <1>5 DEF TurnTakes, TurnRevises, TurnLeaves, Forget, queueVars
  <2>2. (latest' = latest \/ latest' = latest + 1) /\ latest' \in Handles
    BY <1>1, <1>5 DEF TurnTakes, TurnRevises, TurnLeaves, Forget, queueVars, Handles
  <2> QED
    BY <2>1, <2>2, OtherStep
<1> QED
  BY <1>2, <1>3, <1>4, <1>5, UpdateStep, LandStep DEF QueueNext, QueueStep

LEMMA QueueInvariance == QueueSpec => []QueueIInv
<1>1. QueueInit => QueueIInv
  BY InitIInv
<1>2. QueueIInv /\ [QueueNext]_queueVars => QueueIInv'
  BY NextStep
<1> QED
  BY <1>1, <1>2, PTL DEF QueueSpec

-----------------------------------------------------------------------------
(* The properties the runs check *)

\* hai.update's promise: a call that resolves, resolves to a handle written by its
\* own props or a later call's, with the wake it asked for.
THEOREM ResolvedRight == QueueSpec => []ResolvedByItsWrite
<1>1. QueueIInv => ResolvedByItsWrite
  BY DEF QueueIInv
<1> QED
  BY QueueInvariance, <1>1, PTL

\* The queue's loop and the job behind it: what one queue writes lands in the order
\* of the calls, none twice.
THEOREM NewestStays == QueueSpec => []NewestWins
<1>1. QueueIInv => NewestWins
  BY DEF QueueIInv
<1> QED
  BY QueueInvariance, <1>1, PTL
==============================================================================
