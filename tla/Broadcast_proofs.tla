-------------------------- MODULE Broadcast_proofs --------------------------
(***************************************************************************)
(* What Broadcast says of any number of servers, signals, streams and      *)
(* faults: a browser never ends on an older value, and what waits to be    *)
(* published is the newest of its kind.                                    *)
(*                                                                         *)
(* The values come from afar, so the invariant follows each server's       *)
(* messages the whole way: to every other server, what is on its way, what *)
(* is in flight and what waits behind it are in the order they were sent,  *)
(* after what was heard of that server and up to what it sent (InLine).    *)
(* So a value heard is newer than any before it, and becomes the latest of *)
(* a stream and a server at once (Latest).                                 *)
(*                                                                         *)
(* A count is of now, and has no order of its own. It keeps up because     *)
(* `told` is the count of a server that is there at every step: a stream   *)
(* that opens or a grace that ends publishes, and one that closes leaves   *)
(* the count as it was (Orderly, Waits).                                   *)
(***************************************************************************)
EXTENDS Broadcast, SequenceTheorems, FiniteSetTheorems, TLAPS

Keys == Names \union {"presence"}
Msg  == [key : Keys, n : Nat]
Val  == [from : Servers, n : Nat]
Out  == [flight : Msg \union {None}, waiting : Seq(Msg)]
Shown == [Names -> Val \union {None}]

Stream ==
  [at : {"off", "opening", "on", "closed"}, srv : Servers \union {None},
   conv : Conversations \union {None}, shown : Shown]

Typed ==
  /\ up \in [Servers -> {"off", "on", "gone"}]
  /\ streams \in [Streams -> Stream]
  /\ \A x \in Streams : streams[x].at \in {"opening", "on"} =>
       streams[x].srv \in Servers /\ streams[x].conv \in Conversations
  /\ latest \in [Servers -> Shown]
  /\ leaving \in [Servers -> SUBSET Conversations]
  /\ told \in [Servers -> Nat]
  /\ out \in [Servers -> Out]
  /\ net \in [Servers -> [Servers -> Seq(Msg)]]
  /\ newest \in [Servers -> [Servers -> [Names -> Nat]]]
  /\ sends \in Nat

\* What a server has yet to publish: only behind a publish in flight does anything
\* wait, one message of each key, and each the newest of its own.
Waits(o, hi, here) ==
  /\ o.flight = None => o.waiting = <<>>
  /\ \A i, j \in 1 .. Len(o.waiting) : i # j => o.waiting[i].key # o.waiting[j].key
  /\ \A i \in 1 .. Len(o.waiting) :
       LET m == o.waiting[i] IN m.n = IF m.key = "presence" THEN here ELSE hi[m.key]

\* A signal newer than what has been heard of it, lo, and than all of it on its way.
After(m, q, lo) ==
  /\ lo[m.key] < m.n
  /\ \A i \in 1 .. Len(q) : q[i].key = m.key => q[i].n < m.n

\* From one server to another: what is on its way, in flight, and waiting comes
\* in the order it was sent, after what was heard and up to what was sent.
InLine(q, o, lo, hi) ==
  /\ \A i \in 1 .. Len(q) : q[i].key \in Names => lo[q[i].key] < q[i].n /\ q[i].n <= hi[q[i].key]
  /\ \A i, j \in 1 .. Len(q) : i < j /\ q[i].key \in Names /\ q[i].key = q[j].key => q[i].n < q[j].n
  /\ o.flight # None /\ o.flight.key \in Names =>
       After(o.flight, q, lo) /\ o.flight.n <= hi[o.flight.key]
  /\ \A i \in 1 .. Len(o.waiting) : o.waiting[i].key \in Names =>
       /\ After(o.waiting[i], q, lo)
       /\ o.flight.key = o.waiting[i].key => o.flight.n < o.waiting[i].n

Orderly ==
  /\ \A s \in Servers : net[s][s] = <<>>
  /\ \A s \in Servers : up[s] # "gone" => told[s] = Local(s)
  /\ \A s \in Servers : up[s] = "gone" => out[s] = Quiet
  /\ \A s \in Servers : Waits(out[s], newest[s][s], Local(s))
  /\ \A s, r \in Servers : s # r => InLine(net[s][r], out[s], newest[r][s], newest[s][s])
  /\ \A s, r \in Servers, n \in Names : newest[r][s][n] <= newest[s][s][n] /\ newest[s][s][n] <= sends

Latest ==
  /\ \A s \in Servers, n \in Names :
       latest[s][n] # None => latest[s][n].n = newest[s][latest[s][n].from][n]
  /\ \A x \in Streams : streams[x].at = "on" => streams[x].shown = latest[streams[x].srv]

-----------------------------------------------------------------------------
(* What waits to be published                                              *)

LEMMA RemovedAt ==
  ASSUME NEW w \in Seq(Msg), NEW k \in 1 .. Len(w)
  PROVE  /\ RemoveAt(w, k) \in Seq(Msg) /\ Len(RemoveAt(w, k)) = Len(w) - 1
         /\ \A i \in 1 .. Len(w) - 1 : RemoveAt(w, k)[i] = IF i < k THEN w[i] ELSE w[i + 1]
<1>1. Len(w) \in Nat /\ \A i \in 1 .. Len(w) : w[i] \in Msg
  BY LenProperties, ElementOfSeq
<1>2. PICK a, b : a = SubSeq(w, 1, k - 1) /\ b = SubSeq(w, k + 1, Len(w))  OBVIOUS
<1>3. /\ a \in Seq(Msg) /\ Len(a) = k - 1 /\ \A i \in 1 .. k - 1 : a[i] = w[i]
  <2>1. k - 1 \in Int /\ 1 \in Int /\ \A i \in 1 .. k - 1 : w[i] \in Msg /\ k - 1 - 1 + 1 = k - 1
    BY <1>1
  <2> QED  BY <1>1, <1>2, <2>1, SubSeqProperties
<1>4. /\ b \in Seq(Msg) /\ Len(b) = Len(w) - k /\ \A i \in 1 .. Len(w) - k : b[i] = w[k + i]
  <2>1. /\ k + 1 \in Int /\ Len(w) \in Int /\ \A i \in k + 1 .. Len(w) : w[i] \in Msg
    BY <1>1
  <2>2. /\ b \in Seq(Msg)
        /\ Len(b) = IF k + 1 <= Len(w) THEN Len(w) - (k + 1) + 1 ELSE 0
        /\ \A i \in 1 .. Len(w) - (k + 1) + 1 : b[i] = w[k + 1 + i - 1]
    BY <1>2, <2>1, SubSeqProperties
  <2>3. Len(w) - (k + 1) + 1 = Len(w) - k /\ \A i \in Nat : k + 1 + i - 1 = k + i
    BY <1>1
  <2>4. Len(b) = Len(w) - k  BY <1>1, <2>2
  <2>5. ASSUME NEW i \in 1 .. Len(w) - k PROVE b[i] = w[k + i]
    <3>1. i \in 1 .. Len(w) - (k + 1) + 1 /\ i \in Nat  BY <1>1, <2>3
    <3>2. b[i] = w[k + 1 + i - 1]  BY <2>2, <3>1
    <3> QED  BY <2>3, <3>1, <3>2
  <2> QED  BY <2>2, <2>4, <2>5
<1>c. PICK c : c = a \o b  OBVIOUS
<1>5. /\ a \o b \in Seq(Msg) /\ Len(a \o b) = Len(a) + Len(b)
      /\ \A i \in 1 .. Len(a) + Len(b) :
           (a \o b)[i] = IF i <= Len(a) THEN a[i] ELSE b[i - Len(a)]
  BY <1>3, <1>4, ConcatProperties
<1>6. RemoveAt(w, k) = a \o b  BY <1>2 DEF RemoveAt
<1>8. Len(a) + Len(b) = Len(w) - 1  BY <1>1, <1>3, <1>4
<1>7. ASSUME NEW i \in 1 .. Len(w) - 1 PROVE (a \o b)[i] = IF i < k THEN w[i] ELSE w[i + 1]
  <2>1. CASE i < k
    <3>1. i <= Len(a) /\ i \in 1 .. k - 1 /\ i \in 1 .. Len(a) + Len(b)  BY <1>1, <1>3, <1>4, <2>1
    <3> QED  BY <1>3, <1>5, <2>1, <3>1
  <2>2. CASE ~(i < k)
    <3>1. /\ ~(i <= Len(a)) /\ i - Len(a) \in 1 .. Len(w) - k /\ i \in 1 .. Len(a) + Len(b)
          /\ k + (i - Len(a)) = i + 1
      BY <1>1, <1>3, <1>4, <2>2
    <3> QED  BY <1>4, <1>5, <2>2, <3>1
  <2> QED  BY <2>1, <2>2
<1>9. RemoveAt(w, k) = c /\ c \in Seq(Msg) /\ Len(c) = Len(w) - 1  BY <1>c, <1>5, <1>6, <1>8
<1>10. \A i \in 1 .. Len(w) - 1 : c[i] = IF i < k THEN w[i] ELSE w[i + 1]  BY <1>c, <1>7
<1> QED  BY <1>9, <1>10

Distinct(w) == \A i, j \in 1 .. Len(w) : i # j => w[i].key # w[j].key

\* w without its messages of this key, of which there is one at most.
Without(w, key) ==
  LET I == {i \in 1 .. Len(w) : w[i].key = key}
  IN  IF \E i \in 1 .. Len(w) : w[i].key = key
      THEN RemoveAt(w, IF I # {} THEN Min(I) ELSE 0) ELSE w

LEMMA Withdrawn ==
  ASSUME NEW w \in Seq(Msg), Distinct(w), NEW key, NEW v, v = Without(w, key)
  PROVE  /\ v \in Seq(Msg) /\ Distinct(v)
         /\ \A i \in 1 .. Len(v) : v[i].key # key /\ \E j \in 1 .. Len(w) : v[i] = w[j]
<1>1. Len(w) \in Nat  BY LenProperties
<1>2. CASE ~ \E i \in 1 .. Len(w) : w[i].key = key
  <2>1. v = w  BY <1>2 DEF Without
  <2> QED  BY <1>2, <2>1
<1>3. CASE \E i \in 1 .. Len(w) : w[i].key = key
  <2>1. PICK k \in 1 .. Len(w) : w[k].key = key  BY <1>3
  <2>2. {i \in 1 .. Len(w) : w[i].key = key} = {k}  BY <2>1 DEF Distinct
  <2>3. Min({k}) = k  BY <1>1, <2>1 DEF Min
  <2>5. v = RemoveAt(w, k)  BY <1>3, <2>2, <2>3 DEF Without
  <2>6. /\ v \in Seq(Msg) /\ Len(v) = Len(w) - 1
        /\ \A i \in 1 .. Len(w) - 1 : v[i] = IF i < k THEN w[i] ELSE w[i + 1]
    BY <2>5, RemovedAt
  <2> DEFINE at(i) == IF i < k THEN i ELSE i + 1
  <2>7. ASSUME NEW i \in 1 .. Len(v)
        PROVE  at(i) \in 1 .. Len(w) /\ at(i) # k /\ v[i] = w[at(i)]
    <3>1. CASE i < k  BY <1>1, <2>6, <3>1
    <3>2. CASE ~(i < k)  BY <1>1, <2>6, <3>2
    <3> QED  BY <3>1, <3>2
  <2>8. \A i, j \in 1 .. Len(v) : i # j => at(i) # at(j)
    BY <1>1, <2>6
  <2> HIDE DEF at
  <2>9. \A i \in 1 .. Len(v) : v[i].key # key  BY <2>1, <2>7 DEF Distinct
  <2>10. ASSUME NEW i \in 1 .. Len(v), NEW j \in 1 .. Len(v), i # j PROVE v[i].key # v[j].key
    <3>1. at(i) \in 1 .. Len(w) /\ at(j) \in 1 .. Len(w) /\ at(i) # at(j)  BY <2>7, <2>8, <2>10
    <3>2. w[at(i)].key # w[at(j)].key  BY <3>1 DEF Distinct
    <3> QED  BY <2>7, <3>2
  <2> QED  BY <2>6, <2>7, <2>9, <2>10 DEF Distinct
<1> QED  BY <1>2, <1>3

\* What publish leaves: the message in flight, or last of what waits, where it
\* stands for the one of its key.
LEMMA PublishedIs ==
  ASSUME NEW o \in Out, o.flight = None => o.waiting = <<>>, Distinct(o.waiting),
         NEW m \in Msg, NEW p, p = Published(o, m)
  PROVE  /\ p \in Out /\ p.flight # None /\ Distinct(p.waiting)
         /\ o.flight = None => p.flight = m /\ p.waiting = <<>>
         /\ o.flight # None => p.flight = o.flight
         /\ \A i \in 1 .. Len(p.waiting) :
              \/ p.waiting[i] = m
              \/ p.waiting[i].key # m.key /\ \E j \in 1 .. Len(o.waiting) : p.waiting[i] = o.waiting[j]
<1>1. m # None  BY BroadcastNames DEF Msg, Keys
<1>2. CASE o.flight = None
  <2>1. p = [o EXCEPT !.flight = m]  BY <1>2 DEF Published
  <2>2. p.flight = m /\ p.waiting = <<>> /\ p \in Out  BY <1>2, <2>1 DEF Out
  <2>3. Len(p.waiting) = 0  BY <2>2
  <2> QED  BY <1>1, <1>2, <2>2, <2>3 DEF Distinct
<1>3. CASE o.flight # None
  <2>1. PICK v, key : v = Without(o.waiting, m.key) /\ key = m.key  OBVIOUS
  <2>2. p = [o EXCEPT !.waiting = Append(v, m)]
    BY <1>3, <2>1 DEF Published, RemoveFirstMatch, SelectInSeq, Without
  <2>3. /\ v \in Seq(Msg) /\ Distinct(v)
        /\ \A i \in 1 .. Len(v) : /\ v[i].key # m.key
                                  /\ \E j \in 1 .. Len(o.waiting) : v[i] = o.waiting[j]
    <3>1. o.waiting \in Seq(Msg)  BY DEF Out
    <3> QED  BY <2>1, <3>1, Withdrawn
  <2>4. PICK w : w = Append(v, m)  OBVIOUS
  <2>5. /\ w \in Seq(Msg) /\ Len(v) \in Nat /\ Len(w) = Len(v) + 1 /\ w[Len(v) + 1] = m
        /\ \A i \in 1 .. Len(v) : w[i] = v[i]
    BY <2>3, <2>4, AppendProperties, LenProperties
  <2>6. p.flight = o.flight /\ p.waiting = w /\ p \in Out  BY <2>2, <2>4, <2>5 DEF Out
  <2>7. \A i \in 1 .. Len(w) : i \in 1 .. Len(v) \/ i = Len(v) + 1  BY <2>5
  <2>8. ASSUME NEW i \in 1 .. Len(w), NEW j \in 1 .. Len(w), i # j PROVE w[i].key # w[j].key
    <3>1. CASE i \in 1 .. Len(v) /\ j \in 1 .. Len(v)
      <4>1. v[i].key # v[j].key  BY <2>3, <2>8, <3>1 DEF Distinct
      <4> QED  BY <2>5, <3>1, <4>1
    <3>2. CASE i \in 1 .. Len(v) /\ j = Len(v) + 1
      <4>1. v[i].key # m.key /\ w[i] = v[i] /\ w[j] = m  BY <2>3, <2>5, <3>2
      <4> QED  BY <4>1
    <3>3. CASE j \in 1 .. Len(v) /\ i = Len(v) + 1
      <4>1. v[j].key # m.key /\ w[j] = v[j] /\ w[i] = m  BY <2>3, <2>5, <3>3
      <4> QED  BY <4>1
    <3> QED  BY <2>7, <2>8, <3>1, <3>2, <3>3
  <2>9. \A i \in 1 .. Len(w) :
           \/ w[i] = m
           \/ w[i].key # m.key /\ \E j \in 1 .. Len(o.waiting) : w[i] = o.waiting[j]
    BY <2>3, <2>5, <2>7
  <2> QED  BY <1>3, <2>6, <2>8, <2>9 DEF Distinct
<1> QED  BY <1>2, <1>3

-----------------------------------------------------------------------------
(* What one server has sent another, step by step                          *)

LEMMA FlushedIs ==
  ASSUME NEW o \in Out, o.flight # None, NEW hi, NEW here, Waits(o, hi, here),
         NEW f, f = Flushed(o)
  PROVE  /\ f \in Out /\ Waits(f, hi, here)
         /\ f.flight # None => 1 \in 1 .. Len(o.waiting) /\ f.flight = o.waiting[1]
         /\ \A i \in 1 .. Len(f.waiting) :
              /\ i + 1 \in 1 .. Len(o.waiting) /\ f.waiting[i] = o.waiting[i + 1]
              /\ 1 \in 1 .. Len(o.waiting) /\ f.flight = o.waiting[1]
              /\ f.flight.key # f.waiting[i].key
<1> PICK w : w = o.waiting  OBVIOUS
<1>1. w \in Seq(Msg) /\ Len(w) \in Nat  BY LenProperties DEF Out
<1>2. CASE w = <<>>
  <2>1. f.flight = None /\ f.waiting = <<>> /\ f \in Out  BY <1>2 DEF Flushed, Quiet, Out
  <2>2. Len(f.waiting) = 0  BY <2>1
  <2> QED  BY <2>1, <2>2 DEF Waits
<1>3. CASE w # <<>>
  <2>1. PICK t : t = Tail(w)  OBVIOUS
  <2>2. /\ t \in Seq(Msg) /\ Len(t) \in Nat /\ Len(t) = Len(w) - 1
        /\ \A i \in 1 .. Len(t) : t[i] = w[i + 1]
    BY <1>1, <1>3, <2>1, HeadTailProperties, LenProperties
  <2>3. Head(w) = w[1] /\ 1 \in 1 .. Len(w) /\ w[1] \in Msg
    BY <1>1, <1>3, HeadTailProperties, EmptySeq, ElementOfSeq
  <2>4. f.flight = w[1] /\ f.waiting = t /\ f \in Out
    BY <1>3, <2>1, <2>2, <2>3 DEF Flushed, Out
  <2>5. \A i \in 1 .. Len(t) : i + 1 \in 1 .. Len(w) /\ i + 1 # 1  BY <1>1, <2>2
  <2>6. w[1] # None  BY <2>3, BroadcastNames DEF Msg, Keys
  <2>7. /\ \A i, j \in 1 .. Len(w) : i # j => w[i].key # w[j].key
        /\ \A i \in 1 .. Len(w) : w[i].n = IF w[i].key = "presence" THEN here ELSE hi[w[i].key]
    BY DEF Waits
  <2>8. ASSUME NEW i \in 1 .. Len(t), NEW j \in 1 .. Len(t), i # j PROVE t[i].key # t[j].key
    <3>1. i + 1 # j + 1  BY <2>8, <2>2
    <3>2. w[i + 1].key # w[j + 1].key  BY <2>5, <2>7, <3>1
    <3> QED  BY <2>2, <3>2
  <2>9. ASSUME NEW i \in 1 .. Len(t)
        PROVE  t[i].n = (IF t[i].key = "presence" THEN here ELSE hi[t[i].key]) /\ w[1].key # t[i].key
    <3>1. i + 1 \in 1 .. Len(w) /\ i + 1 # 1 /\ t[i] = w[i + 1]  BY <2>2, <2>5
    <3>2. w[1].key # w[i + 1].key  BY <2>3, <2>7, <3>1
    <3>3. w[i + 1].n = IF w[i + 1].key = "presence" THEN here ELSE hi[w[i + 1].key]
      BY <2>7, <3>1
    <3> QED  BY <3>1, <3>2, <3>3
  <2>10. Waits(f, hi, here)  BY <2>4, <2>6, <2>8, <2>9 DEF Waits
  <2> QED  BY <2>2, <2>3, <2>4, <2>5, <2>9, <2>10
<1> QED  BY <1>2, <1>3

\* A publish that is dropped.
LEMMA LineFlushed ==
  ASSUME NEW q \in Seq(Msg), NEW o \in Out, NEW lo, NEW hi, NEW here,
         o.flight # None, Waits(o, hi, here), InLine(q, o, lo, hi), hi \in [Names -> Nat]
  PROVE  InLine(q, Flushed(o), lo, hi)
<1> PICK f, w : f = Flushed(o) /\ w = o.waiting  OBVIOUS
<1>1. /\ f.flight # None => 1 \in 1 .. Len(w) /\ f.flight = w[1]
      /\ \A i \in 1 .. Len(f.waiting) :
              /\ i + 1 \in 1 .. Len(w) /\ f.waiting[i] = w[i + 1]
              /\ 1 \in 1 .. Len(w) /\ f.flight = w[1]
              /\ f.flight.key # f.waiting[i].key
  BY FlushedIs
<1>2. \A i \in 1 .. Len(w) : w[i].key \in Names => After(w[i], q, lo)  BY DEF InLine
<1>3. \A i \in 1 .. Len(w) : w[i].key \in Names => w[i].n <= hi[w[i].key]
  <2>1. \A i \in 1 .. Len(w) : w[i].key \in Names => w[i].n = hi[w[i].key]
    BY BroadcastNames DEF Waits
  <2> QED  BY <2>1
<1>4. f.flight # None /\ f.flight.key \in Names =>
        After(f.flight, q, lo) /\ f.flight.n <= hi[f.flight.key]
  BY <1>1, <1>2, <1>3
<1>5. \A i \in 1 .. Len(f.waiting) : f.waiting[i].key \in Names =>
        After(f.waiting[i], q, lo) /\ f.flight.key # f.waiting[i].key
  BY <1>1, <1>2
<1>6. /\ \A i \in 1 .. Len(q) : q[i].key \in Names => lo[q[i].key] < q[i].n /\ q[i].n <= hi[q[i].key]
      /\ \A i, j \in 1 .. Len(q) : i < j /\ q[i].key \in Names /\ q[i].key = q[j].key => q[i].n < q[j].n
  BY DEF InLine
<1>7. InLine(q, f, lo, hi)  BY <1>4, <1>5, <1>6 DEF InLine
<1> QED  BY <1>7

LEMMA Extended ==
  ASSUME NEW q \in Seq(Msg), NEW m \in Msg
  PROVE  /\ Append(q, m) \in Seq(Msg)
         /\ \A i \in 1 .. Len(Append(q, m)) :
              \/ i \in 1 .. Len(q) /\ Append(q, m)[i] = q[i]
              \/ i = Len(q) + 1 /\ Append(q, m)[i] = m
<1>1. /\ Append(q, m) \in Seq(Msg) /\ Len(q) \in Nat /\ Len(Append(q, m)) = Len(q) + 1
      /\ \A i \in 1 .. Len(q) : Append(q, m)[i] = q[i]
      /\ Append(q, m)[Len(q) + 1] = m
  BY AppendProperties, LenProperties
<1>2. \A i \in 1 .. Len(q) + 1 : i \in 1 .. Len(q) \/ i = Len(q) + 1  BY <1>1
<1> QED  BY <1>1, <1>2

\* One that the store takes.
LEMMA LineLands ==
  ASSUME NEW q \in Seq(Msg), NEW o \in Out, NEW lo, NEW hi, NEW here,
         o.flight # None, Waits(o, hi, here), InLine(q, o, lo, hi), hi \in [Names -> Nat]
  PROVE  InLine(Append(q, o.flight), Flushed(o), lo, hi)
<1> PICK f, w, m : f = Flushed(o) /\ w = o.waiting /\ m = o.flight  OBVIOUS
<1> PICK p : p = Append(q, m)  OBVIOUS
<1>0. m \in Msg /\ Len(q) \in Nat  BY LenProperties DEF Out
<1>1. \A i \in 1 .. Len(p) : \/ i \in 1 .. Len(q) /\ p[i] = q[i]
                             \/ i = Len(q) + 1 /\ p[i] = m
  BY <1>0, Extended
<1>2. InLine(q, f, lo, hi)  BY LineFlushed
<1>3. m.key \in Names => lo[m.key] < m.n /\ m.n <= hi[m.key]
  BY DEF InLine, After
<1>4. \A i \in 1 .. Len(p) : p[i].key \in Names => lo[p[i].key] < p[i].n /\ p[i].n <= hi[p[i].key]
  <2>1. \A i \in 1 .. Len(q) : q[i].key \in Names => lo[q[i].key] < q[i].n /\ q[i].n <= hi[q[i].key]
    BY DEF InLine
  <2> QED  BY <1>1, <1>3, <2>1
<1>5. ASSUME NEW i \in 1 .. Len(p), NEW j \in 1 .. Len(p),
             i < j, p[i].key \in Names, p[i].key = p[j].key
      PROVE  p[i].n < p[j].n
  <2>1. i \in 1 .. Len(q) /\ p[i] = q[i]  BY <1>0, <1>1, <1>5
  <2>2. CASE j \in 1 .. Len(q) /\ p[j] = q[j]
    <3>1. q[i].n < q[j].n  BY <1>5, <2>1, <2>2 DEF InLine
    <3> QED  BY <2>1, <2>2, <3>1
  <2>3. CASE p[j] = m
    <3>1. m.key \in Names /\ q[i].key = m.key  BY <1>5, <2>1, <2>3
    <3>2. q[i].n < m.n  BY <2>1, <3>1 DEF InLine, After
    <3> QED  BY <2>1, <2>3, <3>2
  <2> QED  BY <1>1, <2>2, <2>3
<1>6. ASSUME NEW k \in 1 .. Len(w), w[k].key \in Names PROVE After(w[k], p, lo)
  <2>1. After(w[k], q, lo) /\ (m.key = w[k].key => m.n < w[k].n)  BY <1>6 DEF InLine
  <2> QED  BY <1>1, <2>1 DEF After
<1>7. /\ f.flight # None => 1 \in 1 .. Len(w) /\ f.flight = w[1]
      /\ \A i \in 1 .. Len(f.waiting) : i + 1 \in 1 .. Len(w) /\ f.waiting[i] = w[i + 1]
  BY FlushedIs
<1>8. f.flight # None /\ f.flight.key \in Names =>
        After(f.flight, p, lo) /\ f.flight.n <= hi[f.flight.key]
  BY <1>2, <1>6, <1>7 DEF InLine
<1>9. \A i \in 1 .. Len(f.waiting) : f.waiting[i].key \in Names =>
        After(f.waiting[i], p, lo)
        /\ (f.flight.key = f.waiting[i].key => f.flight.n < f.waiting[i].n)
  BY <1>2, <1>6, <1>7 DEF InLine
<1>10. InLine(p, f, lo, hi)  BY <1>4, <1>5, <1>8, <1>9 DEF InLine
<1> QED  BY <1>10

\* One that is heard: what was heard of its key is now its own number.
LEMMA LineHeard ==
  ASSUME NEW q \in Seq(Msg), q # <<>>, NEW o \in Out, NEW lo \in [Names -> Nat], NEW hi,
         InLine(q, o, lo, hi), NEW lo2,
         \A k \in Names : lo2[k] = IF k = Head(q).key THEN Head(q).n ELSE lo[k]
  PROVE  /\ InLine(Tail(q), o, lo2, hi)
         /\ Head(q) \in Msg
         /\ Head(q).key \in Names => lo[Head(q).key] < Head(q).n /\ Head(q).n <= hi[Head(q).key]
<1> PICK h, t : h = Head(q) /\ t = Tail(q)  OBVIOUS
<1>1. /\ t \in Seq(Msg) /\ Len(q) \in Nat /\ Len(t) = Len(q) - 1
      /\ \A i \in 1 .. Len(t) : t[i] = q[i + 1]
  BY HeadTailProperties, LenProperties
<1>2. h = q[1] /\ 1 \in 1 .. Len(q) /\ h \in Msg  BY HeadTailProperties, EmptySeq, LenProperties, ElementOfSeq
<1>3. \A i \in 1 .. Len(t) : i + 1 \in 1 .. Len(q) /\ 1 < i + 1  BY <1>1
<1>4. h.key \in Names => lo[h.key] < h.n /\ h.n <= hi[h.key]  BY <1>2 DEF InLine
<1>5. ASSUME NEW i \in 1 .. Len(t), t[i].key \in Names
      PROVE  lo2[t[i].key] < t[i].n /\ t[i].n <= hi[t[i].key]
  <2>1. i + 1 \in 1 .. Len(q) /\ t[i] = q[i + 1] /\ 1 < i + 1  BY <1>1, <1>3
  <2>2. lo[t[i].key] < t[i].n /\ t[i].n <= hi[t[i].key]  BY <1>5, <2>1 DEF InLine
  <2>3. CASE t[i].key = h.key
    <3>1. q[1].n < q[i + 1].n  BY <1>2, <1>5, <2>1, <2>3 DEF InLine
    <3> QED  BY <1>2, <1>5, <2>1, <2>2, <2>3, <3>1
  <2>4. CASE t[i].key # h.key  BY <1>5, <2>2, <2>4
  <2> QED  BY <2>3, <2>4
<1>6. ASSUME NEW i \in 1 .. Len(t), NEW j \in 1 .. Len(t),
             i < j, t[i].key \in Names, t[i].key = t[j].key
      PROVE  t[i].n < t[j].n
  <2>1. /\ i + 1 \in 1 .. Len(q) /\ j + 1 \in 1 .. Len(q) /\ i + 1 < j + 1
        /\ t[i] = q[i + 1] /\ t[j] = q[j + 1]
    BY <1>1, <1>3, <1>6
  <2>2. q[i + 1].key \in Names /\ q[i + 1].key = q[j + 1].key  BY <1>6, <2>1
  <2>3. q[i + 1].n < q[j + 1].n  BY <2>1, <2>2 DEF InLine
  <2> QED  BY <2>1, <2>3
<1>7. ASSUME NEW m, m.key \in Names, After(m, q, lo) PROVE After(m, t, lo2)
  <2>1. lo2[m.key] < m.n
    <3>1. CASE m.key = h.key
      <4>1. q[1].n < m.n  BY <1>2, <1>7, <3>1 DEF After
      <4> QED  BY <1>2, <1>7, <3>1, <4>1
    <3>2. CASE m.key # h.key  BY <1>7, <3>2 DEF After
    <3> QED  BY <3>1, <3>2
  <2>2. \A i \in 1 .. Len(t) : t[i].key = m.key => t[i].n < m.n  BY <1>1, <1>3, <1>7 DEF After
  <2> QED  BY <2>1, <2>2 DEF After
<1>8. o.flight # None /\ o.flight.key \in Names =>
        After(o.flight, t, lo2) /\ o.flight.n <= hi[o.flight.key]
  <2>1. ASSUME o.flight # None, o.flight.key \in Names
        PROVE  After(o.flight, q, lo) /\ o.flight.n <= hi[o.flight.key]
    BY <2>1 DEF InLine
  <2> QED  BY <1>7, <2>1
<1>9. \A i \in 1 .. Len(o.waiting) : o.waiting[i].key \in Names =>
        After(o.waiting[i], t, lo2)
        /\ (o.flight.key = o.waiting[i].key => o.flight.n < o.waiting[i].n)
  <2>1. ASSUME NEW i \in 1 .. Len(o.waiting), o.waiting[i].key \in Names
        PROVE  /\ After(o.waiting[i], q, lo)
               /\ (o.flight.key = o.waiting[i].key => o.flight.n < o.waiting[i].n)
    BY <2>1 DEF InLine
  <2> QED  BY <1>7, <2>1
<1>10. InLine(t, o, lo2, hi)  BY <1>5, <1>6, <1>8, <1>9 DEF InLine
<1> QED  BY <1>2, <1>4, <1>10

\* One that is published: newer than all of its key before it.
LEMMA LinePublished ==
  ASSUME NEW o \in Out, NEW m \in Msg, NEW hi \in [Names -> Nat], NEW hi2 \in [Names -> Nat],
         NEW here, NEW here2, Waits(o, hi, here),
         \A k \in Names : k # m.key => hi2[k] = hi[k],
         m.key \in Names => m.n = hi2[m.key] /\ hi[m.key] < m.n,
         IF m.key = "presence" THEN m.n = here2 ELSE here2 = here
  PROVE  /\ Published(o, m) \in Out
         /\ Waits(Published(o, m), hi2, here2)
         /\ \A q \in Seq(Msg), lo \in [Names -> Nat] :
              InLine(q, o, lo, hi) /\ (\A k \in Names : lo[k] <= hi[k])
              => InLine(q, Published(o, m), lo, hi2)
<1> PICK p, w : p = Published(o, m) /\ w = o.waiting  OBVIOUS
<1>0. /\ \A i, j \in 1 .. Len(w) : i # j => w[i].key # w[j].key
      /\ \A i \in 1 .. Len(w) : w[i].n = IF w[i].key = "presence" THEN here ELSE hi[w[i].key]
      /\ o.flight = None => w = <<>>
  BY DEF Waits
<1>01. w \in Seq(Msg) /\ \A i \in 1 .. Len(w) : w[i] \in Msg  BY ElementOfSeq DEF Out
<1>1. /\ p \in Out /\ p.flight # None /\ Distinct(p.waiting)
      /\ o.flight = None => p.flight = m /\ p.waiting = <<>>
      /\ o.flight # None => p.flight = o.flight
      /\ \A i \in 1 .. Len(p.waiting) :
              \/ p.waiting[i] = m
              \/ p.waiting[i].key # m.key /\ \E j \in 1 .. Len(w) : p.waiting[i] = w[j]
  BY <1>0, PublishedIs DEF Distinct
<1>2. m.key \in Names \/ m.key = "presence"  BY DEF Msg, Keys
<1>3. ASSUME NEW i \in 1 .. Len(p.waiting)
      PROVE  p.waiting[i].n = IF p.waiting[i].key = "presence" THEN here2 ELSE hi2[p.waiting[i].key]
  <2>1. CASE p.waiting[i] = m  BY <1>2, <2>1, BroadcastNames
  <2>2. CASE p.waiting[i].key # m.key /\ \E j \in 1 .. Len(w) : p.waiting[i] = w[j]
    <3>1. PICK j \in 1 .. Len(w) : p.waiting[i] = w[j]  BY <2>2
    <3>2. w[j].key \in Names \/ w[j].key = "presence"  BY <1>01 DEF Msg, Keys
    <3>3. CASE w[j].key = "presence"  BY <1>0, <2>2, <3>1, <3>3
    <3>4. CASE w[j].key \in Names
      <4>1. hi2[w[j].key] = hi[w[j].key] /\ w[j].key # "presence"
        BY <2>2, <3>1, <3>4, BroadcastNames
      <4> QED  BY <1>0, <3>1, <4>1
    <3> QED  BY <3>2, <3>3, <3>4
  <2> QED  BY <1>1, <2>1, <2>2
<1>4. Waits(p, hi2, here2)  BY <1>1, <1>3 DEF Waits, Distinct
<1>5. ASSUME NEW q \in Seq(Msg), NEW lo \in [Names -> Nat], InLine(q, o, lo, hi),
             \A k \in Names : lo[k] <= hi[k]
      PROVE  InLine(q, p, lo, hi2)
  <2>0. \A i \in 1 .. Len(q) : q[i] \in Msg  BY ElementOfSeq
  <2>1. \A k \in Names : hi[k] <= hi2[k] /\ hi[k] \in Nat /\ hi2[k] \in Nat /\ lo[k] \in Nat
    <3>1. ASSUME NEW k \in Names PROVE hi[k] \in Nat /\ hi2[k] \in Nat /\ lo[k] \in Nat
      OBVIOUS
    <3>2. ASSUME NEW k \in Names PROVE hi[k] <= hi2[k]
      <4>1. CASE k = m.key
        <5>1. hi[m.key] < hi2[m.key]  BY <4>1
        <5> QED  BY <3>1, <4>1, <5>1
      <4>2. CASE k # m.key
        <5>1. hi2[k] = hi[k]  BY <4>2
        <5> QED  BY <3>1, <5>1
      <4> QED  BY <4>1, <4>2
    <3> QED  BY <3>1, <3>2
  <2>2. /\ \A i \in 1 .. Len(q) : q[i].key \in Names => lo[q[i].key] < q[i].n /\ q[i].n <= hi[q[i].key]
        /\ \A i, j \in 1 .. Len(q) : i < j /\ q[i].key \in Names /\ q[i].key = q[j].key => q[i].n < q[j].n
    BY <1>5 DEF InLine
  <2>3. \A i \in 1 .. Len(q) : q[i].key \in Names => lo[q[i].key] < q[i].n /\ q[i].n <= hi2[q[i].key]
    BY <2>0, <2>1, <2>2 DEF Msg
  <2>4. m.key \in Names => After(m, q, lo) /\ m.n <= hi2[m.key] /\ m.n \in Nat
    BY <1>5, <2>0, <2>1, <2>2 DEF After, Msg
  <2>5. ASSUME o.flight # None, o.flight.key \in Names
        PROVE  After(o.flight, q, lo) /\ o.flight.n <= hi2[o.flight.key]
    <3>1. o.flight \in Msg  BY <2>5 DEF Out
    <3>2. After(o.flight, q, lo) /\ o.flight.n <= hi[o.flight.key]  BY <1>5, <2>5 DEF InLine
    <3> QED  BY <2>1, <2>5, <3>1, <3>2 DEF Msg
  <2>6. p.flight # None /\ p.flight.key \in Names =>
          After(p.flight, q, lo) /\ p.flight.n <= hi2[p.flight.key]
    <3>1. CASE o.flight = None  BY <1>1, <2>4, <3>1
    <3>2. CASE o.flight # None  BY <1>1, <2>5, <3>2
    <3> QED  BY <3>1, <3>2
  <2>7. ASSUME NEW i \in 1 .. Len(p.waiting), p.waiting[i].key \in Names
        PROVE  /\ After(p.waiting[i], q, lo)
               /\ p.flight.key = p.waiting[i].key => p.flight.n < p.waiting[i].n
    <3>0. o.flight # None /\ p.flight = o.flight /\ o.flight \in Msg
      <4>1. CASE o.flight = None
        <5>1. Len(p.waiting) = 0  BY <1>1, <4>1
        <5> QED  BY <5>1
      <4> QED  BY <1>1, <4>1 DEF Out
    <3>1. CASE p.waiting[i] = m
      <4>1. After(m, q, lo) /\ m.key \in Names  BY <2>4, <2>7, <3>1
      <4>2. ASSUME o.flight.key = m.key PROVE o.flight.n < m.n
        <5>1. o.flight.n <= hi[m.key]  BY <1>5, <3>0, <4>1, <4>2 DEF InLine
        <5> QED  BY <2>1, <3>0, <4>1, <5>1 DEF Msg
      <4> QED  BY <3>0, <3>1, <4>1, <4>2
    <3>2. CASE \E j \in 1 .. Len(w) : p.waiting[i] = w[j]
      <4>1. PICK j \in 1 .. Len(w) : p.waiting[i] = w[j]  BY <3>2
      <4>2. /\ After(w[j], q, lo)
            /\ o.flight.key = w[j].key => o.flight.n < w[j].n
        BY <1>5, <2>7, <4>1 DEF InLine
      <4> QED  BY <3>0, <4>1, <4>2
    <3> QED  BY <1>1, <3>1, <3>2
  <2> QED  BY <2>2, <2>3, <2>6, <2>7 DEF InLine
<1> QED  BY <1>1, <1>4, <1>5

-----------------------------------------------------------------------------
(* Who is here                                                             *)

LEMMA LocalCounts ==
  ASSUME NEW xs, NEW lv \in [Servers -> SUBSET Conversations], NEW s \in Servers,
         \A x \in Streams : IsOpen(xs, x, s) => xs[x].conv \in Conversations
  PROVE  LocalOf(xs, lv, s) \in Nat
<1>1. OpenAt(xs, s) \union lv[s] \subseteq Conversations  BY DEF OpenAt
<1>2. IsFiniteSet(OpenAt(xs, s) \union lv[s])  BY <1>1, BroadcastNames, FS_Subset
<1> QED  BY <1>2, FS_CardinalityType DEF LocalOf

LEMMA SameOpen ==
  ASSUME NEW xs, NEW ys, NEW s,
         \A x \in Streams : /\ IsOpen(ys, x, s) <=> IsOpen(xs, x, s)
                            /\ IsOpen(xs, x, s) => ys[x].conv = xs[x].conv
  PROVE  OpenAt(ys, s) = OpenAt(xs, s)
BY DEF OpenAt

\* Streams that stay where they are are counted as they were.
LEMMA SameLocal ==
  ASSUME \A x \in Streams : /\ streams'[x].at \in {"opening", "on"} <=> streams[x].at \in {"opening", "on"}
                            /\ streams'[x].srv = streams[x].srv
                            /\ streams'[x].conv = streams[x].conv,
         leaving' = leaving
  PROVE  \A o \in Servers : Local(o)' = Local(o)
<1> SUFFICES ASSUME NEW o \in Servers PROVE Local(o)' = Local(o)  OBVIOUS
<1>1. \A x \in Streams : /\ IsOpen(streams', x, o) <=> IsOpen(streams, x, o)
                         /\ IsOpen(streams, x, o) => streams'[x].conv = streams[x].conv
  BY DEF IsOpen
<1>2. OpenAt(streams', o) = OpenAt(streams, o)  BY <1>1, SameOpen
<1> QED  BY <1>2 DEF Local, LocalOf

LEMMA LocalNat ==
  ASSUME Typed
  PROVE  \A s \in Servers : Local(s) \in Nat
<1> SUFFICES ASSUME NEW s \in Servers PROVE Local(s) \in Nat  OBVIOUS
<1>1. \A x \in Streams : IsOpen(streams, x, s) => streams[x].conv \in Conversations
  BY DEF Typed, IsOpen
<1>2. leaving \in [Servers -> SUBSET Conversations]  BY DEF Typed
<1> QED  BY <1>1, <1>2, LocalCounts DEF Local

-----------------------------------------------------------------------------
(* A count is published                                                    *)

\* What is published and on its way keeps its order when one server publishes a
\* count, which is its own now.
LEMMA CountPublished ==
  ASSUME Typed, Orderly, NEW s \in Servers, NEW here \in Nat,
         out' = [out EXCEPT ![s] = Published(@, Count(here))], Local(s)' = here,
         \A o \in Servers : o # s => Local(o)' = Local(o)
  PROVE  /\ out' \in [Servers -> Out]
         /\ \A o \in Servers : o # s => out'[o] = out[o]
         /\ \A o \in Servers : Waits(out'[o], newest[o][o], Local(o)')
         /\ \A a, b \in Servers : a # b => InLine(net[a][b], out'[a], newest[b][a], newest[a][a])
<1> PICK m : m = Count(here)  OBVIOUS
<1>1. m \in Msg /\ m.key = "presence" /\ m.n = here  BY DEF Count, Message, Msg, Keys
<1>2. /\ out \in [Servers -> Out]
      /\ newest[s][s] \in [Names -> Nat]
      /\ \A a, b \in Servers : net[a][b] \in Seq(Msg) /\ newest[b][a] \in [Names -> Nat]
  BY DEF Typed
<1>3. out[s] \in Out /\ Waits(out[s], newest[s][s], Local(s))  BY <1>2 DEF Orderly
<1>4. PICK p : p = Published(out[s], m)  OBVIOUS
<1>5. /\ p \in Out
      /\ Waits(p, newest[s][s], here)
      /\ \A q \in Seq(Msg), lo \in [Names -> Nat] :
           InLine(q, out[s], lo, newest[s][s]) /\ (\A k \in Names : lo[k] <= newest[s][s][k])
           => InLine(q, p, lo, newest[s][s])
  <2>1. m.key \notin Names  BY <1>1, BroadcastNames
  <2> PICK hi, o, old : hi = newest[s][s] /\ o = out[s] /\ old = Local(s)  OBVIOUS
  <2>2. hi \in [Names -> Nat] /\ o \in Out /\ Waits(o, hi, old) /\ p = Published(o, m)
    BY <1>2, <1>3, <1>4
  <2>3. /\ \A k \in Names : k # m.key => hi[k] = hi[k]
        /\ m.key \in Names => m.n = hi[m.key] /\ hi[m.key] < m.n
        /\ IF m.key = "presence" THEN m.n = here ELSE here = old
    BY <1>1, <2>1
  <2> QED  BY <1>1, <2>2, <2>3, LinePublished
<1>6. out' = [out EXCEPT ![s] = p]  BY <1>4
<1>7. out' \in [Servers -> Out] /\ out'[s] = p /\ \A o \in Servers : o # s => out'[o] = out[o]
  BY <1>2, <1>5, <1>6
<1>8. ASSUME NEW o \in Servers PROVE Waits(out'[o], newest[o][o], Local(o)')
  <2>1. CASE o = s  BY <1>5, <1>7, <2>1
  <2>2. CASE o # s
    <3>1. Waits(out[o], newest[o][o], Local(o)) /\ out'[o] = out[o] /\ Local(o)' = Local(o)
      BY <1>7, <2>2 DEF Orderly
    <3> QED  BY <3>1
  <2> QED  BY <2>1, <2>2
<1>9. ASSUME NEW a \in Servers, NEW b \in Servers, a # b
      PROVE  InLine(net[a][b], out'[a], newest[b][a], newest[a][a])
  <2>0. InLine(net[a][b], out[a], newest[b][a], newest[a][a])  BY <1>9 DEF Orderly
  <2>1. CASE a = s
    <3>1. \A k \in Names : newest[b][s][k] <= newest[s][s][k]  BY DEF Orderly
    <3>2. InLine(net[s][b], p, newest[b][s], newest[s][s])  BY <1>2, <1>5, <2>0, <2>1, <3>1
    <3> QED  BY <1>7, <2>1, <3>2
  <2>2. CASE a # s
    <3>1. out'[a] = out[a]  BY <1>7, <2>2
    <3> QED  BY <2>0, <3>1
  <2> QED  BY <2>1, <2>2
<1> QED  BY <1>7, <1>8, <1>9

\* changed tells of a new count, and when it is not new nothing changes.
LEMMA WhenChanged ==
  ASSUME Typed, Orderly, NEW s \in Servers, up[s] # "gone", NEW here \in Nat,
         Changed(s, here), Local(s)' = here,
         \A o \in Servers : o # s => Local(o)' = Local(o)
  PROVE  /\ told' \in [Servers -> Nat] /\ told'[s] = here
         /\ \A o \in Servers : o # s => told'[o] = told[o]
         /\ out' \in [Servers -> Out]
         /\ \A o \in Servers : o # s => out'[o] = out[o]
         /\ \A o \in Servers : Waits(out'[o], newest[o][o], Local(o)')
         /\ \A a, b \in Servers : a # b => InLine(net[a][b], out'[a], newest[b][a], newest[a][a])
<1>1. told' = [told EXCEPT ![s] = here] /\ told \in [Servers -> Nat]  BY DEF Changed, Typed
<1>2. /\ told' \in [Servers -> Nat] /\ told'[s] = here
      /\ \A o \in Servers : o # s => told'[o] = told[o]
  BY <1>1
<1>3. CASE here = told[s]
  <2>1. out' = out  BY <1>3 DEF Changed
  <2>2. told[s] = Local(s)  BY DEF Orderly
  <2>3. \A o \in Servers : Local(o)' = Local(o)  BY <1>3, <2>2
  <2>4. out \in [Servers -> Out]  BY DEF Typed
  <2>5. \A o \in Servers : Waits(out[o], newest[o][o], Local(o)')  BY <2>3 DEF Orderly
  <2>6. \A a, b \in Servers : a # b => InLine(net[a][b], out[a], newest[b][a], newest[a][a])
    BY DEF Orderly
  <2> QED  BY <1>2, <2>1, <2>4, <2>5, <2>6
<1>4. CASE here # told[s]
  <2>1. out' = [out EXCEPT ![s] = Published(@, Count(here))]  BY <1>4 DEF Changed, Publish
  <2>2. /\ out' \in [Servers -> Out]
        /\ \A o \in Servers : o # s => out'[o] = out[o]
        /\ \A o \in Servers : Waits(out'[o], newest[o][o], Local(o)')
        /\ \A a, b \in Servers : a # b => InLine(net[a][b], out'[a], newest[b][a], newest[a][a])
    BY <2>1, CountPublished
  <2> QED  BY <1>2, <2>2
<1> QED  BY <1>3, <1>4

-----------------------------------------------------------------------------
(* A value becomes a server's latest                                       *)

LEMMA Became ==
  ASSUME Typed, Latest, NEW s \in Servers, NEW name \in Names, NEW v \in Val,
         Becomes(s, name, v), newest[s][v.from][name] < v.n
  PROVE  /\ latest' \in [Servers -> Shown] /\ streams' \in [Streams -> Stream]
         /\ \A x \in Streams : /\ streams'[x].at = streams[x].at
                               /\ streams'[x].srv = streams[x].srv
                               /\ streams'[x].conv = streams[x].conv
         /\ newest' \in [Servers -> [Servers -> [Names -> Nat]]]
         /\ \A a, b \in Servers : ~(a = s /\ b = v.from) => newest'[a][b] = newest[a][b]
         /\ \A a, b \in Servers, k \in Names : newest'[a][b][k] =
              IF a = s /\ b = v.from /\ k = name THEN v.n ELSE newest[a][b][k]
         /\ Latest'
<1>0. v.from \in Servers /\ v.n \in Nat  BY DEF Val
<1>1. latest' = [latest EXCEPT ![s][name] = v] /\ latest \in [Servers -> Shown]
  BY DEF Becomes, Typed
<1>2. PICK fr, n : fr = v.from /\ n = v.n  OBVIOUS
<1>3. newest' = [newest EXCEPT ![s][fr][name] = n] /\ newest \in [Servers -> [Servers -> [Names -> Nat]]]
  BY <1>0, <1>2 DEF Becomes, Typed
<1>4. /\ newest' \in [Servers -> [Servers -> [Names -> Nat]]]
      /\ \A a, b \in Servers : ~(a = s /\ b = fr) => newest'[a][b] = newest[a][b]
      /\ \A a, b \in Servers, k \in Names : newest'[a][b][k] =
           IF a = s /\ b = fr /\ k = name THEN n ELSE newest[a][b][k]
  <2>1. newest' \in [Servers -> [Servers -> [Names -> Nat]]]  BY <1>0, <1>2, <1>3
  <2>2. \A a, b \in Servers : ~(a = s /\ b = fr) => newest'[a][b] = newest[a][b]
    BY <1>0, <1>2, <1>3
  <2>3. newest'[s][fr] = [newest[s][fr] EXCEPT ![name] = n] /\ newest[s][fr] \in [Names -> Nat]
    BY <1>0, <1>2, <1>3
  <2>4. ASSUME NEW a \in Servers, NEW b \in Servers, NEW k \in Names
        PROVE  newest'[a][b][k] = IF a = s /\ b = fr /\ k = name THEN n ELSE newest[a][b][k]
    BY <2>2, <2>3
  <2> QED  BY <2>1, <2>2, <2>4
<1>5. /\ latest' \in [Servers -> Shown]
      /\ \A a \in Servers, k \in Names :
           latest'[a][k] = IF a = s /\ k = name THEN v ELSE latest[a][k]
      /\ \A a \in Servers : a # s => latest'[a] = latest[a]
      /\ latest'[s] = [latest[s] EXCEPT ![name] = v]
  BY <1>1 DEF Shown
<1>6. ASSUME NEW x \in Streams
      PROVE  /\ streams'[x] \in Stream
             /\ streams'[x].at = streams[x].at
             /\ streams'[x].srv = streams[x].srv
             /\ streams'[x].conv = streams[x].conv
             /\ streams'[x].shown =
                  IF IsOpen(streams, x, s) THEN [streams[x].shown EXCEPT ![name] = v] ELSE streams[x].shown
  <2>1. streams[x] \in Stream  BY DEF Typed
  <2>2. streams'[x] =
          IF IsOpen(streams, x, s) THEN [streams[x] EXCEPT !.shown[name] = v] ELSE streams[x]
    BY DEF Becomes
  <2>3. CASE IsOpen(streams, x, s)
    <3>1. streams'[x] = [streams[x] EXCEPT !.shown[name] = v]  BY <2>2, <2>3
    <3>2. [streams[x].shown EXCEPT ![name] = v] \in Shown  BY <2>1 DEF Stream, Shown
    <3> QED  BY <2>1, <2>3, <3>1, <3>2 DEF Stream
  <2>4. CASE ~IsOpen(streams, x, s)  BY <2>1, <2>2, <2>4
  <2> QED  BY <2>3, <2>4
<1>7. streams' \in [Streams -> Stream]
  <2>1. streams' = [x \in Streams |-> streams'[x]]  BY DEF Becomes
  <2> QED  BY <1>6, <2>1
<1>8. ASSUME NEW a \in Servers, NEW k \in Names, latest'[a][k] # None
      PROVE  latest'[a][k].n = newest'[a][latest'[a][k].from][k]
  <2>1. CASE a = s /\ k = name
    <3>1. latest'[a][k] = v  BY <1>5, <2>1
    <3>3. newest'[a][fr][k] = n  BY <1>0, <1>2, <1>4, <2>1
    <3> QED  BY <1>2, <3>1, <3>3
  <2>2. CASE ~(a = s /\ k = name)
    <3>1. latest'[a][k] = latest[a][k]  BY <1>5, <2>2
    <3>2. latest[a][k].from \in Servers /\ latest[a][k].n = newest[a][latest[a][k].from][k]
      <4>1. latest[a][k] \in Val  BY <1>1, <1>8, <3>1 DEF Shown
      <4> QED  BY <1>8, <3>1, <4>1 DEF Latest, Val
    <3>3. \A b \in Servers : newest'[a][b][k] = newest[a][b][k]  BY <1>4, <2>2
    <3> QED  BY <3>1, <3>2, <3>3
  <2> QED  BY <2>1, <2>2
<1>9. ASSUME NEW x \in Streams, streams'[x].at = "on"
      PROVE  streams'[x].shown = latest'[streams'[x].srv]
  <2>1. streams[x].at = "on" /\ streams[x].srv \in Servers /\ streams'[x].srv = streams[x].srv
    BY <1>6, <1>9 DEF Typed
  <2>2. streams[x].shown = latest[streams[x].srv]  BY <2>1 DEF Latest
  <2>3. CASE streams[x].srv = s
    <3>1. IsOpen(streams, x, s)  BY <2>1, <2>3 DEF IsOpen
    <3> QED  BY <1>5, <1>6, <2>1, <2>2, <2>3, <3>1
  <2>4. CASE streams[x].srv # s
    <3>1. ~IsOpen(streams, x, s)  BY <2>4 DEF IsOpen
    <3> QED  BY <1>5, <1>6, <2>1, <2>2, <2>4, <3>1
  <2> QED  BY <2>3, <2>4
<1>10. Latest'  BY <1>8, <1>9 DEF Latest
<1>11. /\ \A a, b \in Servers : ~(a = s /\ b = v.from) => newest'[a][b] = newest[a][b]
       /\ \A a, b \in Servers, k \in Names : newest'[a][b][k] =
            IF a = s /\ b = v.from /\ k = name THEN v.n ELSE newest[a][b][k]
  <2>1. \A a, b \in Servers : ~(a = s /\ b = v.from) => newest'[a][b] = newest[a][b]
    BY <1>2, <1>4
  <2>2. ASSUME NEW a \in Servers, NEW b \in Servers, NEW k \in Names
        PROVE  newest'[a][b][k] = IF a = s /\ b = v.from /\ k = name THEN v.n ELSE newest[a][b][k]
    <3>1. newest'[a][b][k] = IF a = s /\ b = fr /\ k = name THEN n ELSE newest[a][b][k]
      BY <1>4
    <3> QED  BY ONLY <1>2, <3>1
  <2> QED  BY <2>1, <2>2
<1>12. \A x \in Streams : /\ streams'[x].at = streams[x].at
                           /\ streams'[x].srv = streams[x].srv
                           /\ streams'[x].conv = streams[x].conv
  BY <1>6
<1>13. /\ latest' \in [Servers -> Shown] /\ streams' \in [Streams -> Stream]
       /\ newest' \in [Servers -> [Servers -> [Names -> Nat]]]
  BY <1>4, <1>5, <1>7
<1> QED  BY ONLY <1>10, <1>11, <1>12, <1>13, Zenon

-----------------------------------------------------------------------------
(* The steps                                                               *)

IInv == Typed /\ Orderly /\ Latest

LEMMA SendHolds ==
  ASSUME IInv, NEW s \in Servers, NEW name \in Names, Send(s, name)
  PROVE  IInv'
<1> USE DEF IInv
<1>1. PICK n, m, v : n = sends + 1 /\ m = Message(name, n) /\ v = Value(s, n)  OBVIOUS
<1>2. /\ sends \in Nat /\ n \in Nat /\ sends' = n /\ up[s] = "on"
      /\ Becomes(s, name, v) /\ out' = [out EXCEPT ![s] = Published(@, m)]
      /\ up' = up /\ leaving' = leaving /\ told' = told /\ net' = net
  BY <1>1 DEF Typed, Send, Publish, presence
<1>3. v \in Val /\ v.from = s /\ v.n = n /\ m \in Msg /\ m.key = name /\ m.n = n
  BY <1>1, <1>2 DEF Value, Message, Val, Msg, Keys
<1>4. \A a, b \in Servers : newest[a][b] \in [Names -> Nat] /\ net[a][b] \in Seq(Msg)
  BY DEF Typed
<1>5. \A a, r \in Servers, k \in Names : newest[r][a][k] <= newest[a][a][k] /\ newest[a][a][k] <= sends
  BY DEF Orderly
<1>6. newest[s][s][name] < n
  <2>1. newest[s][s][name] \in Nat /\ newest[s][s][name] <= sends  BY <1>4, <1>5
  <2> QED  BY <1>1, <1>2, <2>1
<1>7. /\ latest' \in [Servers -> Shown] /\ streams' \in [Streams -> Stream]
      /\ \A x \in Streams : /\ streams'[x].at = streams[x].at
                            /\ streams'[x].srv = streams[x].srv
                            /\ streams'[x].conv = streams[x].conv
      /\ newest' \in [Servers -> [Servers -> [Names -> Nat]]]
      /\ \A a, b \in Servers : ~(a = s /\ b = s) => newest'[a][b] = newest[a][b]
      /\ \A a, b \in Servers, k \in Names : newest'[a][b][k] =
           IF a = s /\ b = s /\ k = name THEN n ELSE newest[a][b][k]
      /\ Latest'
  <2>1. newest[s][v.from][name] < v.n  BY <1>3, <1>6
  <2>2. Typed /\ Latest  OBVIOUS
  <2> HIDE DEF IInv
  <2> QED  BY <1>2, <1>3, <2>1, <2>2, Became
<1>8. \A o \in Servers : Local(o)' = Local(o)  BY <1>2, <1>7, SameLocal
<1>9. PICK hi, hi2, o, here : hi = newest[s][s] /\ hi2 = newest'[s][s] /\ o = out[s] /\ here = Local(s)
  OBVIOUS
<1>10. PICK p : p = Published(o, m)  OBVIOUS
<1>11. /\ hi \in [Names -> Nat] /\ hi2 \in [Names -> Nat] /\ o \in Out /\ Waits(o, hi, here)
       /\ \A k \in Names : hi2[k] = IF k = name THEN n ELSE hi[k]
  <2>1. out \in [Servers -> Out]  BY DEF Typed
  <2> QED  BY <1>4, <1>7, <1>9, <2>1 DEF Orderly
<1>12. /\ \A k \in Names : k # m.key => hi2[k] = hi[k]
       /\ m.key \in Names => m.n = hi2[m.key] /\ hi[m.key] < m.n
       /\ IF m.key = "presence" THEN m.n = here ELSE here = here
  BY <1>3, <1>6, <1>9, <1>11, BroadcastNames
<1>13. /\ p \in Out
       /\ Waits(p, hi2, here)
       /\ \A q \in Seq(Msg), lo \in [Names -> Nat] :
              InLine(q, o, lo, hi) /\ (\A k \in Names : lo[k] <= hi[k])
              => InLine(q, p, lo, hi2)
  BY <1>3, <1>10, <1>11, <1>12, LinePublished
<1>14. out' \in [Servers -> Out] /\ out'[s] = p /\ \A a \in Servers : a # s => out'[a] = out[a]
  BY <1>2, <1>9, <1>10, <1>13 DEF Typed
<1>15. ASSUME NEW a \in Servers PROVE Waits(out'[a], newest'[a][a], Local(a)')
  <2>1. CASE a = s  BY <1>8, <1>9, <1>13, <1>14, <2>1
  <2>2. CASE a # s
    <3>1. Waits(out[a], newest[a][a], Local(a))  BY DEF Orderly
    <3> QED  BY <1>7, <1>8, <1>14, <2>2, <3>1
  <2> QED  BY <2>1, <2>2
<1>16. ASSUME NEW a \in Servers, NEW b \in Servers, a # b
       PROVE  InLine(net'[a][b], out'[a], newest'[b][a], newest'[a][a])
  <2>0. InLine(net[a][b], out[a], newest[b][a], newest[a][a]) /\ newest'[b][a] = newest[b][a]
    BY <1>7, <1>16 DEF Orderly
  <2>1. CASE a = s
    <3>1. \A k \in Names : newest[b][s][k] <= hi[k]  BY <1>5, <1>9
    <3>2. InLine(net[s][b], p, newest[b][s], hi2)  BY <1>4, <1>9, <1>13, <2>0, <2>1, <3>1
    <3> QED  BY <1>2, <1>9, <1>14, <2>0, <2>1, <3>2
  <2>2. CASE a # s
    <3>1. out'[a] = out[a] /\ newest'[a][a] = newest[a][a]  BY <1>7, <1>14, <2>2
    <3> QED  BY <1>2, <2>0, <3>1
  <2> QED  BY <2>1, <2>2
<1>17. ASSUME NEW a \in Servers, NEW r \in Servers, NEW k \in Names
       PROVE  newest'[r][a][k] <= newest'[a][a][k] /\ newest'[a][a][k] <= sends'
  <2>1. /\ newest[r][a][k] \in Nat /\ newest[a][a][k] \in Nat
        /\ newest[r][a][k] <= newest[a][a][k] /\ newest[a][a][k] <= sends
    BY <1>4, <1>5
  <2>2. newest'[a][a][k] = IF a = s /\ k = name THEN n ELSE newest[a][a][k]  BY <1>4, <1>7
  <2>3. newest'[r][a][k] = IF r = s /\ a = s /\ k = name THEN n ELSE newest[r][a][k]  BY <1>4, <1>7
  <2> QED  BY <1>1, <1>2, <2>1, <2>2, <2>3
<1>18. Typed'
  <2>1. \A x \in Streams : streams'[x].at \in {"opening", "on"} =>
          streams'[x].srv \in Servers /\ streams'[x].conv \in Conversations
    BY <1>7 DEF Typed
  <2> QED  BY <1>2, <1>7, <1>14, <2>1 DEF Typed
<1>19. /\ \A a \in Servers : net'[a][a] = <<>>
       /\ \A a \in Servers : up'[a] # "gone" => told'[a] = Local(a)'
       /\ \A a \in Servers : up'[a] = "gone" => out'[a] = Quiet
  BY <1>2, <1>8, <1>14 DEF Orderly
<1>20. Orderly'  BY <1>15, <1>16, <1>17, <1>19 DEF Orderly
<1> QED  BY <1>7, <1>18, <1>20

\* What a server takes off what another sent it.
LEMMA Heard ==
  ASSUME Typed, Orderly, NEW s \in Servers, NEW o \in Servers, NEW m, m = Head(net[o][s]),
         net[o][s] # <<>>
  PROVE  /\ o # s /\ m \in Msg
         /\ m.key \in Names => newest[s][o][m.key] < m.n /\ m.n <= newest[o][o][m.key]
<1>1. o # s  BY DEF Orderly
<1>2. net[o][s] \in Seq(Msg) /\ m \in Msg /\ m = net[o][s][1] /\ 1 \in 1 .. Len(net[o][s])
  <2>1. net[o][s] \in Seq(Msg)  BY DEF Typed
  <2> QED  BY <2>1, HeadTailProperties, LenProperties, EmptySeq, ElementOfSeq
<1>3. InLine(net[o][s], out[o], newest[s][o], newest[o][o])  BY <1>1 DEF Orderly
<1> QED  BY <1>1, <1>2, <1>3 DEF InLine

LEMMA TakenOff ==
  ASSUME Typed, NEW s \in Servers, NEW o \in Servers,
         net[o][s] # <<>>, net' = [net EXCEPT ![o][s] = Tail(@)]
  PROVE  /\ net' \in [Servers -> [Servers -> Seq(Msg)]]
         /\ net'[o][s] = Tail(net[o][s])
         /\ \A a, b \in Servers : ~(a = o /\ b = s) => net'[a][b] = net[a][b]
<1>1. net \in [Servers -> [Servers -> Seq(Msg)]] /\ net[o][s] \in Seq(Msg)  BY DEF Typed
<1>2. PICK t : t = Tail(net[o][s])  OBVIOUS
<1>3. t \in Seq(Msg) /\ net' = [net EXCEPT ![o][s] = t]  BY <1>1, <1>2, HeadTailProperties
<1> QED  BY <1>1, <1>2, <1>3

LEMMA HeardInLine ==
  ASSUME Typed, Orderly, NEW s \in Servers, NEW o \in Servers, NEW m, m = Head(net[o][s]),
         net[o][s] # <<>>, NEW lo2,
         \A k \in Names : lo2[k] = IF k = m.key THEN m.n ELSE newest[s][o][k]
  PROVE  InLine(Tail(net[o][s]), out[o], lo2, newest[o][o])
<1>1. o # s  BY DEF Orderly
<1>2. net[o][s] \in Seq(Msg) /\ out[o] \in Out /\ newest[s][o] \in [Names -> Nat]  BY DEF Typed
<1>3. InLine(net[o][s], out[o], newest[s][o], newest[o][o])  BY <1>1 DEF Orderly
<1>4. PICK q, out1, lo, hi : q = net[o][s] /\ out1 = out[o] /\ lo = newest[s][o] /\ hi = newest[o][o]
  OBVIOUS
<1>5. q \in Seq(Msg) /\ q # <<>> /\ out1 \in Out /\ lo \in [Names -> Nat] /\ InLine(q, out1, lo, hi)
      /\ m = Head(q)
  BY <1>2, <1>3, <1>4
<1>6. \A k \in Names : lo2[k] = IF k = Head(q).key THEN Head(q).n ELSE lo[k]  BY <1>4, <1>5
<1>7. InLine(Tail(q), out1, lo2, hi)  BY <1>5, <1>6, LineHeard
<1> QED  BY <1>4, <1>7

LEMMA HearHolds ==
  ASSUME IInv, NEW s \in Servers, NEW o \in Servers, Hear(s, o)
  PROVE  IInv'
<1>0. Typed /\ Orderly /\ Latest  BY DEF IInv
<1>1. PICK m : m = Head(net[o][s])  OBVIOUS
<1>2. /\ up[s] = "on" /\ net[o][s] # <<>> /\ net' = [net EXCEPT ![o][s] = Tail(@)]
      /\ up' = up /\ leaving' = leaving /\ told' = told /\ sends' = sends
      /\ IF m.key = "presence" THEN HearCount(s, o, m.n)
         ELSE Becomes(s, m.key, Value(o, m.n)) /\ UNCHANGED <<peers, total, out>>
  BY <1>1 DEF Hear
<1>3. /\ o # s /\ m \in Msg
      /\ net' \in [Servers -> [Servers -> Seq(Msg)]]
      /\ net'[o][s] = Tail(net[o][s])
      /\ \A a, b \in Servers : ~(a = o /\ b = s) => net'[a][b] = net[a][b]
      /\ m.key \in Names => newest[s][o][m.key] < m.n /\ m.n <= newest[o][o][m.key]
  <2>1. /\ o # s /\ m \in Msg
        /\ m.key \in Names => newest[s][o][m.key] < m.n /\ m.n <= newest[o][o][m.key]
    BY <1>0, <1>1, <1>2, Heard
  <2>2. /\ net' \in [Servers -> [Servers -> Seq(Msg)]]
        /\ net'[o][s] = Tail(net[o][s])
        /\ \A a, b \in Servers : ~(a = o /\ b = s) => net'[a][b] = net[a][b]
    BY <1>0, <1>2, TakenOff
  <2> QED  BY <2>1, <2>2
<1>4. \A a \in Servers : net'[a][a] = <<>>  BY <1>0, <1>3 DEF Orderly
<1>5. \A a, b \in Servers : a # b => InLine(net[a][b], out[a], newest[b][a], newest[a][a])
  BY <1>0 DEF Orderly
<1>6. CASE m.key = "presence"
  <2>1. /\ streams' = streams /\ latest' = latest /\ newest' = newest
        /\ out' = out \/ out' = [out EXCEPT ![s] = Published(@, Count(Local(s)))]
    BY <1>2, <1>6 DEF HearCount, Publish
  <2>2. \A a \in Servers : Local(a)' = Local(a)  BY <1>2, <2>1, SameLocal
  <2>3. Local(s) \in Nat  BY <1>0, LocalNat
  <2>4. /\ out' \in [Servers -> Out]
        /\ \A a \in Servers : a # s => out'[a] = out[a]
        /\ \A a \in Servers : Waits(out'[a], newest[a][a], Local(a)')
        /\ \A a, b \in Servers : a # b => InLine(net[a][b], out'[a], newest[b][a], newest[a][a])
    <3>1. CASE out' = out
      <4>1. out \in [Servers -> Out]  BY <1>0 DEF Typed
      <4>2. \A a \in Servers : Waits(out'[a], newest[a][a], Local(a)')
        BY <1>0, <2>2, <3>1 DEF Orderly
      <4> QED  BY <1>5, <3>1, <4>1, <4>2
    <3>2. CASE out' = [out EXCEPT ![s] = Published(@, Count(Local(s)))]
      <4>1. PICK here \in Nat : here = Local(s)  BY <2>3
      <4>2. out' = [out EXCEPT ![s] = Published(@, Count(here))]  BY <3>2, <4>1
      <4> QED  BY <1>0, <2>2, <4>1, <4>2, CountPublished
    <3> QED  BY <2>1, <3>1, <3>2
  <2>5. ASSUME NEW a \in Servers, NEW b \in Servers, a # b
        PROVE  InLine(net'[a][b], out'[a], newest'[b][a], newest'[a][a])
    <3>1. CASE a = o /\ b = s
      <4>1. m.key \notin Names  BY <1>6, BroadcastNames
      <4>2. PICK lo2 : lo2 = newest[s][o]  OBVIOUS
      <4>3. \A k \in Names : lo2[k] = IF k = m.key THEN m.n ELSE newest[s][o][k]
        BY <4>1, <4>2
      <4>4. InLine(Tail(net[o][s]), out[o], lo2, newest[o][o])
        BY <1>0, <1>1, <1>2, <4>3, HeardInLine
      <4> QED  BY <1>3, <2>1, <2>4, <3>1, <4>2, <4>4
    <3>2. CASE ~(a = o /\ b = s)  BY <1>3, <2>1, <2>4, <2>5, <3>2
    <3> QED  BY <3>1, <3>2
  <2>6. Typed'  BY <1>0, <1>2, <1>3, <2>1, <2>4 DEF Typed
  <2>7. /\ \A a \in Servers : up'[a] # "gone" => told'[a] = Local(a)'
        /\ \A a \in Servers : up'[a] = "gone" => out'[a] = Quiet
        /\ \A a \in Servers : Waits(out'[a], newest'[a][a], Local(a)')
        /\ \A a, r \in Servers, n \in Names :
             newest'[r][a][n] <= newest'[a][a][n] /\ newest'[a][a][n] <= sends'
    BY <1>0, <1>2, <2>1, <2>2, <2>4 DEF Orderly
  <2>8. Orderly'  BY <1>4, <2>5, <2>7 DEF Orderly
  <2>9. Latest'  BY <1>0, <2>1 DEF Latest
  <2> QED  BY <2>6, <2>8, <2>9 DEF IInv
<1>7. CASE m.key # "presence"
  <2>1. m.key \in Names /\ m.n \in Nat  BY <1>3, <1>7 DEF Msg, Keys
  <2>2. PICK v, name : v = Value(o, m.n) /\ name = m.key  OBVIOUS
  <2>3. /\ v \in Val /\ v.from = o /\ v.n = m.n /\ name \in Names
        /\ Becomes(s, name, v) /\ out' = out
    BY <1>2, <1>7, <2>1, <2>2 DEF Value, Val
  <2>4. newest[s][v.from][name] < v.n  BY <1>3, <2>1, <2>2, <2>3
  <2>5. /\ latest' \in [Servers -> Shown] /\ streams' \in [Streams -> Stream]
        /\ \A x \in Streams : /\ streams'[x].at = streams[x].at
                              /\ streams'[x].srv = streams[x].srv
                              /\ streams'[x].conv = streams[x].conv
        /\ newest' \in [Servers -> [Servers -> [Names -> Nat]]]
        /\ \A a, b \in Servers : ~(a = s /\ b = v.from) => newest'[a][b] = newest[a][b]
        /\ \A a, b \in Servers, k \in Names : newest'[a][b][k] =
             IF a = s /\ b = v.from /\ k = name THEN v.n ELSE newest[a][b][k]
        /\ Latest'
    BY <1>0, <2>3, <2>4, Became
  <2>6. \A a \in Servers : Local(a)' = Local(a)  BY <1>2, <2>5, SameLocal
  <2>7. \A a \in Servers : newest'[a][a] = newest[a][a]  BY <1>3, <2>3, <2>5
  <2>8. ASSUME NEW a \in Servers, NEW b \in Servers, a # b
        PROVE  InLine(net'[a][b], out'[a], newest'[b][a], newest'[a][a])
    <3>1. CASE a = o /\ b = s
      <4>1. \A k \in Names : newest'[s][o][k] = IF k = m.key THEN m.n ELSE newest[s][o][k]
        BY <2>2, <2>3, <2>5
      <4>2. PICK lo2 : lo2 = newest'[s][o]  OBVIOUS
      <4>3. InLine(Tail(net[o][s]), out[o], lo2, newest[o][o])
        BY <1>0, <1>1, <1>2, <4>1, <4>2, HeardInLine
      <4> QED  BY <1>3, <2>3, <2>7, <3>1, <4>2, <4>3
    <3>2. CASE ~(a = o /\ b = s)
      <4>1. newest'[b][a] = newest[b][a] /\ net'[a][b] = net[a][b]  BY <1>3, <2>3, <2>5, <3>2
      <4> QED  BY <1>5, <2>3, <2>7, <2>8, <4>1
    <3> QED  BY <3>1, <3>2
  <2>9. ASSUME NEW a \in Servers, NEW r \in Servers, NEW k \in Names
        PROVE  newest'[r][a][k] <= newest'[a][a][k] /\ newest'[a][a][k] <= sends'
    <3>1. newest[r][a][k] <= newest[a][a][k] /\ newest[a][a][k] <= sends  BY <1>0 DEF Orderly
    <3>2. newest'[r][a][k] = IF r = s /\ a = o /\ k = m.key THEN m.n ELSE newest[r][a][k]
      BY <2>2, <2>3, <2>5
    <3>3. newest'[a][a][k] = newest[a][a][k] /\ sends' = sends  BY <1>2, <2>7
    <3> QED  BY <1>3, <2>1, <3>1, <3>2, <3>3
  <2>10. Typed'
    <3>1. \A x \in Streams : streams'[x].at \in {"opening", "on"} =>
            streams'[x].srv \in Servers /\ streams'[x].conv \in Conversations
      BY <1>0, <2>5 DEF Typed
    <3> QED  BY <1>0, <1>2, <1>3, <2>3, <2>5, <3>1 DEF Typed
  <2>11. /\ \A a \in Servers : up'[a] # "gone" => told'[a] = Local(a)'
         /\ \A a \in Servers : up'[a] = "gone" => out'[a] = Quiet
         /\ \A a \in Servers : Waits(out'[a], newest'[a][a], Local(a)')
    BY <1>0, <1>2, <2>3, <2>6, <2>7 DEF Orderly
  <2>12. Orderly'  BY <1>4, <2>8, <2>9, <2>11 DEF Orderly
  <2> QED  BY <2>5, <2>10, <2>12 DEF IInv
<1> QED  BY <1>6, <1>7

LEMMA LandsHolds ==
  ASSUME IInv, NEW s \in Servers, Lands(s)
  PROVE  IInv'
<1>0. Typed /\ Orderly /\ Latest  BY DEF IInv
<1>1. PICK m, f : m = out[s].flight /\ f = Flushed(out[s])  OBVIOUS
<1>2. /\ m # None
      /\ net' = [net EXCEPT ![s] = [o \in Servers |->
                  IF o # s /\ up[o] = "on" /\ hearing[o] THEN Append(@[o], m) ELSE @[o]]]
      /\ out' = [out EXCEPT ![s] = f]
      /\ up' = up /\ streams' = streams /\ leaving' = leaving /\ told' = told /\ sends' = sends
      /\ latest' = latest /\ newest' = newest
  BY <1>1 DEF Lands, signals, presence
<1>3. /\ net \in [Servers -> [Servers -> Seq(Msg)]] /\ out \in [Servers -> Out]
      /\ out[s] \in Out /\ newest[s][s] \in [Names -> Nat]
  BY <1>0 DEF Typed
<1>4. m \in Msg  BY <1>1, <1>2, <1>3 DEF Out
<1>5. Waits(out[s], newest[s][s], Local(s))  BY <1>0 DEF Orderly
<1>6. PICK o, hi, here : o = out[s] /\ hi = newest[s][s] /\ here = Local(s)  OBVIOUS
<1>7. o \in Out /\ o.flight # None /\ o.flight = m /\ hi \in [Names -> Nat] /\ Waits(o, hi, here)
      /\ f = Flushed(o)
  BY <1>1, <1>2, <1>3, <1>5, <1>6
<1>8. f \in Out /\ Waits(f, hi, here)  BY <1>7, FlushedIs
<1>9. out' \in [Servers -> Out] /\ out'[s] = f /\ \A a \in Servers : a # s => out'[a] = out[a]
  BY <1>2, <1>3, <1>8
<1>10. \A a \in Servers : a # s => net'[a] = net[a]  BY <1>2, <1>3
<1>11. \A b \in Servers : net'[s][b] =
         IF b # s /\ up[b] = "on" /\ hearing[b] THEN Append(net[s][b], m) ELSE net[s][b]
  BY <1>2, <1>3
<1>12. net' \in [Servers -> [Servers -> Seq(Msg)]]
  <2>1. \A b \in Servers : net[s][b] \in Seq(Msg) /\ Append(net[s][b], m) \in Seq(Msg)
    BY <1>3, <1>4, AppendProperties
  <2>2. PICK g : g = [b \in Servers |->
                   IF b # s /\ up[b] = "on" /\ hearing[b] THEN Append(net[s][b], m) ELSE net[s][b]]
    OBVIOUS
  <2>3. g \in [Servers -> Seq(Msg)]  BY <2>1, <2>2
  <2>4. net' = [net EXCEPT ![s] = g]  BY <1>2, <1>3, <2>2
  <2> QED  BY <1>3, <2>3, <2>4
<1>13. ASSUME NEW a \in Servers, NEW b \in Servers, a # b
       PROVE  InLine(net'[a][b], out'[a], newest'[b][a], newest'[a][a])
  <2>0. InLine(net[a][b], out[a], newest[b][a], newest[a][a])  BY <1>0, <1>13 DEF Orderly
  <2>1. CASE a = s
    <3>1. PICK q, lo : q = net[s][b] /\ lo = newest[b][s]  OBVIOUS
    <3>2. q \in Seq(Msg) /\ InLine(q, o, lo, hi)  BY <1>3, <1>6, <2>0, <2>1, <3>1
    <3>3. InLine(q, f, lo, hi)  BY <1>7, <3>2, LineFlushed
    <3>4. InLine(Append(q, m), f, lo, hi)  BY <1>7, <3>2, LineLands
    <3>5. net'[s][b] = q \/ net'[s][b] = Append(q, m)  BY <1>11, <3>1
    <3> QED  BY <1>2, <1>6, <1>9, <2>1, <3>1, <3>3, <3>4, <3>5
  <2>2. CASE a # s  BY <1>2, <1>9, <1>10, <2>0, <2>2
  <2> QED  BY <2>1, <2>2
<1>14. \A a \in Servers : Local(a)' = Local(a)  BY <1>2, SameLocal
<1>15. ASSUME NEW a \in Servers PROVE Waits(out'[a], newest'[a][a], Local(a)')
  <2>1. Waits(out[a], newest[a][a], Local(a))  BY <1>0 DEF Orderly
  <2> QED  BY <1>2, <1>6, <1>8, <1>9, <1>14, <2>1
<1>16. \A a \in Servers : net'[a][a] = <<>>  BY <1>0, <1>10, <1>11 DEF Orderly
<1>17. ASSUME NEW a \in Servers, up'[a] = "gone" PROVE out'[a] = Quiet
  <2>1. out[a] = Quiet  BY <1>0, <1>2, <1>17 DEF Orderly
  <2>2. a # s  BY <1>1, <1>2, <2>1 DEF Quiet
  <2> QED  BY <1>9, <2>1, <2>2
<1>18. /\ \A a \in Servers : up'[a] # "gone" => told'[a] = Local(a)'
       /\ \A a, r \in Servers, n \in Names :
            newest'[r][a][n] <= newest'[a][a][n] /\ newest'[a][a][n] <= sends'
  BY <1>0, <1>2, <1>14 DEF Orderly
<1>19. Orderly'  BY <1>13, <1>15, <1>16, <1>17, <1>18 DEF Orderly
<1>20. Typed'  BY <1>0, <1>2, <1>9, <1>12 DEF Typed
<1>21. Latest'  BY <1>0, <1>2 DEF Latest
<1> QED  BY <1>19, <1>20, <1>21 DEF IInv

LEMMA LosesHolds ==
  ASSUME IInv, NEW s \in Servers, Loses(s)
  PROVE  IInv'
<1>0. Typed /\ Orderly /\ Latest  BY DEF IInv
<1>1. PICK f : f = Flushed(out[s])  OBVIOUS
<1>2. /\ out[s].flight # None /\ out' = [out EXCEPT ![s] = f]
      /\ up' = up /\ streams' = streams /\ leaving' = leaving /\ told' = told /\ sends' = sends
      /\ latest' = latest /\ newest' = newest /\ net' = net
  BY <1>1 DEF Loses, signals, presence
<1>3. /\ net \in [Servers -> [Servers -> Seq(Msg)]] /\ out \in [Servers -> Out]
      /\ out[s] \in Out /\ newest[s][s] \in [Names -> Nat]
  BY <1>0 DEF Typed
<1>5. Waits(out[s], newest[s][s], Local(s))  BY <1>0 DEF Orderly
<1>6. PICK o, hi, here : o = out[s] /\ hi = newest[s][s] /\ here = Local(s)  OBVIOUS
<1>7. o \in Out /\ o.flight # None /\ hi \in [Names -> Nat] /\ Waits(o, hi, here) /\ f = Flushed(o)
  BY <1>1, <1>2, <1>3, <1>5, <1>6
<1>8. f \in Out /\ Waits(f, hi, here)  BY <1>7, FlushedIs
<1>9. out' \in [Servers -> Out] /\ out'[s] = f /\ \A a \in Servers : a # s => out'[a] = out[a]
  BY <1>2, <1>3, <1>8
<1>13. ASSUME NEW a \in Servers, NEW b \in Servers, a # b
       PROVE  InLine(net'[a][b], out'[a], newest'[b][a], newest'[a][a])
  <2>0. InLine(net[a][b], out[a], newest[b][a], newest[a][a])  BY <1>0, <1>13 DEF Orderly
  <2>1. CASE a = s
    <3>1. PICK q, lo : q = net[s][b] /\ lo = newest[b][s]  OBVIOUS
    <3>2. q \in Seq(Msg) /\ InLine(q, o, lo, hi)  BY <1>3, <1>6, <2>0, <2>1, <3>1
    <3>3. InLine(q, f, lo, hi)  BY <1>7, <3>2, LineFlushed
    <3> QED  BY <1>2, <1>6, <1>9, <2>1, <3>1, <3>3
  <2>2. CASE a # s  BY <1>2, <1>9, <2>0, <2>2
  <2> QED  BY <2>1, <2>2
<1>14. \A a \in Servers : Local(a)' = Local(a)  BY <1>2, SameLocal
<1>15. ASSUME NEW a \in Servers PROVE Waits(out'[a], newest'[a][a], Local(a)')
  <2>1. Waits(out[a], newest[a][a], Local(a))  BY <1>0 DEF Orderly
  <2> QED  BY <1>2, <1>6, <1>8, <1>9, <1>14, <2>1
<1>17. ASSUME NEW a \in Servers, up'[a] = "gone" PROVE out'[a] = Quiet
  <2>1. out[a] = Quiet  BY <1>0, <1>2, <1>17 DEF Orderly
  <2>2. a # s  BY <1>2, <2>1 DEF Quiet
  <2> QED  BY <1>9, <2>1, <2>2
<1>18. /\ \A a \in Servers : net'[a][a] = <<>>
       /\ \A a \in Servers : up'[a] # "gone" => told'[a] = Local(a)'
       /\ \A a, r \in Servers, n \in Names :
            newest'[r][a][n] <= newest'[a][a][n] /\ newest'[a][a][n] <= sends'
  BY <1>0, <1>2, <1>14 DEF Orderly
<1>19. Orderly'  BY <1>13, <1>15, <1>17, <1>18 DEF Orderly
<1>20. Typed'  BY <1>0, <1>2, <1>9 DEF Typed
<1>21. Latest'  BY <1>0, <1>2 DEF Latest
<1> QED  BY <1>19, <1>20, <1>21 DEF IInv

\* A step of presence only: who is here, and what is published of it.
LEMMA PresenceHolds ==
  ASSUME IInv, Typed', Latest', NEW s \in Servers,
         newest' = newest, net' = net, sends' = sends,
         up[s] # "gone", up'[s] # "gone", \A o \in Servers : o # s => up'[o] = up[o],
         told'[s] = Local(s)', \A o \in Servers : o # s => told'[o] = told[o],
         \A o \in Servers : o # s => Local(o)' = Local(o),
         \A o \in Servers : o # s => out'[o] = out[o],
         \A o \in Servers : Waits(out'[o], newest[o][o], Local(o)'),
         \A a, b \in Servers : a # b => InLine(net[a][b], out'[a], newest[b][a], newest[a][a])
  PROVE  IInv'
<1>0. Typed /\ Orderly /\ Latest  BY DEF IInv
<1>1. ASSUME NEW a \in Servers, up'[a] # "gone" PROVE told'[a] = Local(a)'
  BY <1>0, <1>1 DEF Orderly
<1>2. ASSUME NEW a \in Servers, up'[a] = "gone" PROVE out'[a] = Quiet
  BY <1>0, <1>2 DEF Orderly
<1>3. /\ \A a \in Servers : net'[a][a] = <<>>
      /\ \A a, r \in Servers, n \in Names :
           newest'[r][a][n] <= newest'[a][a][n] /\ newest'[a][a][n] <= sends'
  BY <1>0 DEF Orderly
<1>4. /\ \A a \in Servers : Waits(out'[a], newest'[a][a], Local(a)')
      /\ \A a, b \in Servers : a # b => InLine(net'[a][b], out'[a], newest'[b][a], newest'[a][a])
  OBVIOUS
<1>5. Orderly'  BY <1>1, <1>2, <1>3, <1>4 DEF Orderly
<1> QED  BY <1>5 DEF IInv

\* Nothing published, and nobody coming or going.
LEMMA QuietHolds ==
  ASSUME IInv, Typed', Latest', newest' = newest, net' = net, sends' = sends, out' = out, told' = told,
         \A o \in Servers : up'[o] = "gone" <=> up[o] = "gone",
         \A o \in Servers : Local(o)' = Local(o)
  PROVE  IInv'
<1>0. Typed /\ Orderly /\ Latest  BY DEF IInv
<1>1. /\ \A a \in Servers : up'[a] # "gone" => told'[a] = Local(a)'
      /\ \A a \in Servers : up'[a] = "gone" => out'[a] = Quiet
  BY <1>0 DEF Orderly
<1>2. /\ \A a \in Servers : net'[a][a] = <<>>
      /\ \A a, r \in Servers, n \in Names :
           newest'[r][a][n] <= newest'[a][a][n] /\ newest'[a][a][n] <= sends'
      /\ \A a \in Servers : Waits(out'[a], newest'[a][a], Local(a)')
      /\ \A a, b \in Servers : a # b => InLine(net'[a][b], out'[a], newest'[b][a], newest'[a][a])
  BY <1>0 DEF Orderly
<1>3. Orderly'  BY <1>1, <1>2 DEF Orderly
<1> QED  BY <1>3 DEF IInv

LEMMA StartHolds ==
  ASSUME IInv, NEW s \in Servers, Start(s)
  PROVE  IInv'
<1>0. Typed /\ Orderly /\ Latest  BY DEF IInv
<1>1. /\ up[s] = "off" /\ up' = [up EXCEPT ![s] = "on"]
      /\ streams' = streams /\ leaving' = leaving /\ told' = told /\ sends' = sends
      /\ latest' = latest /\ newest' = newest /\ net' = net /\ out' = out
  BY DEF Start, signals, presence, publishing
<1>2. up' \in [Servers -> {"off", "on", "gone"}] /\ \A o \in Servers : up'[o] = "gone" <=> up[o] = "gone"
  BY <1>0, <1>1 DEF Typed
<1>3. \A o \in Servers : Local(o)' = Local(o)  BY <1>1, SameLocal
<1>4. Typed'  BY <1>0, <1>1, <1>2 DEF Typed
<1>5. Latest'  BY <1>0, <1>1 DEF Latest
<1> QED  BY <1>1, <1>2, <1>3, <1>4, <1>5, QuietHolds

LEMMA SubscribedHolds ==
  ASSUME IInv, NEW s \in Servers, Subscribed(s)
  PROVE  IInv'
<1>0. Typed /\ Orderly /\ Latest  BY DEF IInv
<1>1. /\ up' = up
      /\ streams' = streams /\ leaving' = leaving /\ told' = told /\ sends' = sends
      /\ latest' = latest /\ newest' = newest /\ net' = net /\ out' = out
  BY DEF Subscribed, signals, presence, publishing
<1>3. \A o \in Servers : Local(o)' = Local(o)  BY <1>1, SameLocal
<1>4. Typed'  BY <1>0, <1>1 DEF Typed
<1>5. Latest'  BY <1>0, <1>1 DEF Latest
<1> QED  BY <1>1, <1>3, <1>4, <1>5, QuietHolds

LEMMA RoundHolds ==
  ASSUME IInv, Round
  PROVE  IInv'
<1>0. Typed /\ Orderly /\ Latest  BY DEF IInv
<1>1. /\ up' = up
      /\ streams' = streams /\ leaving' = leaving /\ told' = told /\ sends' = sends
      /\ latest' = latest /\ newest' = newest /\ net' = net /\ out' = out
  BY DEF Round, signals, publishing
<1>3. \A o \in Servers : Local(o)' = Local(o)  BY <1>1, SameLocal
<1>4. Typed'  BY <1>0, <1>1 DEF Typed
<1>5. Latest'  BY <1>0, <1>1 DEF Latest
<1> QED  BY <1>1, <1>3, <1>4, <1>5, QuietHolds

LEMMA ReplayHolds ==
  ASSUME IInv, NEW x \in Streams, Replay(x)
  PROVE  IInv'
<1>0. Typed /\ Orderly /\ Latest  BY DEF IInv
<1>1. PICK s, l : s = streams[x].srv /\ l = latest[s]  OBVIOUS
<1>2. /\ streams[x].at = "opening" /\ streams' = [streams EXCEPT ![x].at = "on", ![x].shown = l]
      /\ up' = up /\ leaving' = leaving /\ told' = told /\ sends' = sends
      /\ latest' = latest /\ newest' = newest /\ net' = net /\ out' = out
  BY <1>1 DEF Replay, signals, presence, publishing
<1>3. s \in Servers /\ streams[x].conv \in Conversations /\ streams[x] \in Stream /\ l \in Shown
      /\ streams \in [Streams -> Stream]
  BY <1>0, <1>1, <1>2 DEF Typed
<1>4. /\ streams'[x] = [streams[x] EXCEPT !.at = "on", !.shown = l]
      /\ streams' \in [Streams -> Stream]
      /\ \A y \in Streams : y # x => streams'[y] = streams[y]
  BY <1>2, <1>3 DEF Stream
<1>5. /\ streams'[x].at = "on" /\ streams'[x].shown = l
      /\ streams'[x].srv = streams[x].srv /\ streams'[x].conv = streams[x].conv
  BY <1>3, <1>4 DEF Stream
<1>6. \A y \in Streams : /\ streams'[y].at \in {"opening", "on"} <=> streams[y].at \in {"opening", "on"}
                         /\ streams'[y].srv = streams[y].srv
                         /\ streams'[y].conv = streams[y].conv
  BY <1>2, <1>4, <1>5
<1>7. \A o \in Servers : Local(o)' = Local(o)  BY <1>2, <1>6, SameLocal
<1>8. Typed'
  <2>1. \A y \in Streams : streams'[y].at \in {"opening", "on"} =>
          streams'[y].srv \in Servers /\ streams'[y].conv \in Conversations
    BY <1>0, <1>6 DEF Typed
  <2> QED  BY <1>0, <1>2, <1>4, <2>1 DEF Typed
<1>9. Latest'
  <2>1. ASSUME NEW y \in Streams, streams'[y].at = "on"
        PROVE  streams'[y].shown = latest'[streams'[y].srv]
    <3>1. CASE y = x  BY <1>1, <1>2, <1>5, <3>1
    <3>2. CASE y # x  BY <1>0, <1>2, <1>4, <2>1, <3>2 DEF Latest
    <3> QED  BY <3>1, <3>2
  <2> QED  BY <1>0, <1>2, <2>1 DEF Latest
<1> QED  BY <1>2, <1>7, <1>8, <1>9, QuietHolds

LEMMA ClosedHolds ==
  ASSUME IInv, NEW x \in Streams, Closed(x)
  PROVE  IInv'
<1>0. Typed /\ Orderly /\ Latest  BY DEF IInv
<1>1. PICK s, c, now : s = streams[x].srv /\ c = streams[x].conv /\ now = [streams EXCEPT ![x].at = "closed"]
  OBVIOUS
<1>2. /\ IsOpen(streams, x, s) /\ streams' = now
      /\ leaving' = IF c \in OpenAt(now, s) THEN leaving ELSE [leaving EXCEPT ![s] = @ \union {c}]
      /\ up' = up /\ told' = told /\ sends' = sends
      /\ latest' = latest /\ newest' = newest /\ net' = net /\ out' = out
  BY <1>1 DEF Closed, signals, publishing
<1>3. /\ s \in Servers /\ c \in Conversations /\ streams[x] \in Stream
      /\ streams \in [Streams -> Stream] /\ leaving \in [Servers -> SUBSET Conversations]
  BY <1>0, <1>1, <1>2 DEF Typed, IsOpen
<1>4. /\ now \in [Streams -> Stream] /\ now[x] = [streams[x] EXCEPT !.at = "closed"]
      /\ now[x].at = "closed" /\ now[x].srv = streams[x].srv /\ now[x].conv = streams[x].conv
      /\ \A y \in Streams : y # x => now[y] = streams[y]
  BY <1>1, <1>3 DEF Stream
<1>5. /\ leaving' \in [Servers -> SUBSET Conversations]
      /\ \A o \in Servers : o # s => leaving'[o] = leaving[o]
      /\ leaving'[s] = IF c \in OpenAt(now, s) THEN leaving[s] ELSE leaving[s] \union {c}
  BY <1>2, <1>3
<1>6. ASSUME NEW o \in Servers PROVE Local(o)' = Local(o)
  <2>1. CASE o = s
    <3>1. \A y \in Streams : IsOpen(streams, y, s) <=> IsOpen(now, y, s) \/ y = x
      BY <1>2, <1>4 DEF IsOpen
    <3>2. OpenAt(streams, s) = OpenAt(now, s) \union {c}
      <4>1. \A y \in Streams : now[y].conv = streams[y].conv  BY <1>4
      <4> QED  BY <1>1, <3>1, <4>1 DEF OpenAt
    <3>3. OpenAt(now, s) \union leaving'[s] = OpenAt(streams, s) \union leaving[s]  BY <1>5, <3>2
    <3> QED  BY <1>2, <2>1, <3>3 DEF Local, LocalOf
  <2>2. CASE o # s
    <3>1. \A y \in Streams : /\ IsOpen(now, y, o) <=> IsOpen(streams, y, o)
                             /\ IsOpen(streams, y, o) => now[y].conv = streams[y].conv
      BY <1>1, <1>4, <2>2 DEF IsOpen
    <3>2. OpenAt(now, o) = OpenAt(streams, o)  BY <3>1, SameOpen
    <3> QED  BY <1>2, <1>5, <2>2, <3>2 DEF Local, LocalOf
  <2> QED  BY <2>1, <2>2
<1>7. Typed'
  <2>1. \A y \in Streams : streams'[y].at \in {"opening", "on"} =>
          streams'[y].srv \in Servers /\ streams'[y].conv \in Conversations
    BY <1>0, <1>2, <1>4 DEF Typed
  <2> QED  BY <1>0, <1>2, <1>4, <1>5, <2>1 DEF Typed
<1>8. Latest'  BY <1>0, <1>2, <1>4 DEF Latest
<1> QED  BY <1>2, <1>6, <1>7, <1>8, QuietHolds

LEMMA GraceOverHolds ==
  ASSUME IInv, NEW s \in Servers, NEW c \in Conversations, GraceOver(s, c)
  PROVE  IInv'
<1>0. Typed /\ Orderly /\ Latest  BY DEF IInv
<1>1. PICK gone : gone = [leaving EXCEPT ![s] = @ \ {c}]  OBVIOUS
<1>2. /\ up[s] = "on" /\ leaving' = gone /\ Changed(s, LocalOf(streams, gone, s))
      /\ up' = up /\ streams' = streams /\ sends' = sends
      /\ latest' = latest /\ newest' = newest /\ net' = net
  BY <1>1 DEF GraceOver, signals
<1>3. /\ gone \in [Servers -> SUBSET Conversations] /\ \A o \in Servers : o # s => gone[o] = leaving[o]
  BY <1>0, <1>1 DEF Typed
<1>4. PICK here : here = LocalOf(streams, gone, s)  OBVIOUS
<1>5. here \in Nat
  <2>1. \A x \in Streams : IsOpen(streams, x, s) => streams[x].conv \in Conversations
    BY <1>0 DEF Typed, IsOpen
  <2> QED  BY <1>3, <1>4, <2>1, LocalCounts
<1>6. Local(s)' = here  BY <1>2, <1>4 DEF Local
<1>7. \A o \in Servers : o # s => Local(o)' = Local(o)  BY <1>2, <1>3 DEF Local, LocalOf
<1>8. up[s] # "gone" /\ Changed(s, here)  BY <1>2, <1>4
<1>9. /\ told' \in [Servers -> Nat] /\ told'[s] = here
      /\ \A o \in Servers : o # s => told'[o] = told[o]
      /\ out' \in [Servers -> Out]
      /\ \A o \in Servers : o # s => out'[o] = out[o]
      /\ \A o \in Servers : Waits(out'[o], newest[o][o], Local(o)')
      /\ \A a, b \in Servers : a # b => InLine(net[a][b], out'[a], newest[b][a], newest[a][a])
  BY <1>0, <1>5, <1>6, <1>7, <1>8, WhenChanged
<1>10. Typed'  BY <1>0, <1>2, <1>3, <1>9 DEF Typed
<1>11. Latest'  BY <1>0, <1>2 DEF Latest
<1> QED  BY <1>2, <1>6, <1>7, <1>8, <1>9, <1>10, <1>11, PresenceHolds

LEMMA BeatHolds ==
  ASSUME IInv, NEW s \in Servers, Beat(s)
  PROVE  IInv'
<1>0. Typed /\ Orderly /\ Latest  BY DEF IInv
<1>1. PICK here : here = Local(s)  OBVIOUS
<1>2. /\ up[s] = "on"
      /\ out' = out \/ out' = [out EXCEPT ![s] = Published(@, Count(here))]
      /\ up' = up /\ streams' = streams /\ sends' = sends /\ leaving' = leaving /\ told' = told
      /\ latest' = latest /\ newest' = newest /\ net' = net
  BY <1>1 DEF Beat, signals, Publish
<1>3. \A o \in Servers : Local(o)' = Local(o)  BY <1>2, SameLocal
<1>4. Latest'  BY <1>0, <1>2 DEF Latest
<1>5. CASE out' = out
  <2>1. Typed'  BY <1>0, <1>2, <1>5 DEF Typed
  <2> QED  BY <1>2, <1>3, <1>4, <1>5, <2>1, QuietHolds
<1>6. CASE out' = [out EXCEPT ![s] = Published(@, Count(here))]
  <2>1. here \in Nat /\ Local(s)' = here  BY <1>0, <1>1, <1>3, LocalNat
  <2>2. /\ out' \in [Servers -> Out]
        /\ \A o \in Servers : o # s => out'[o] = out[o]
        /\ \A o \in Servers : Waits(out'[o], newest[o][o], Local(o)')
        /\ \A a, b \in Servers : a # b => InLine(net[a][b], out'[a], newest[b][a], newest[a][a])
    BY <1>0, <1>3, <1>6, <2>1, CountPublished
  <2>3. Typed'  BY <1>0, <1>2, <2>2 DEF Typed
  <2>4. told'[s] = Local(s)'  BY <1>0, <1>1, <1>2, <2>1 DEF Orderly
  <2>5. up[s] # "gone" /\ up'[s] # "gone"  BY <1>2
  <2>6. \A o \in Servers : o # s => up'[o] = up[o] /\ told'[o] = told[o]  BY <1>2
  <2> QED  BY <1>2, <1>3, <1>4, <2>2, <2>3, <2>4, <2>5, <2>6, PresenceHolds
<1> QED  BY <1>2, <1>5, <1>6

LEMMA OpenedHolds ==
  ASSUME IInv, NEW x \in Streams, NEW s \in Servers, NEW c \in Conversations, Opened(x, s, c)
  PROVE  IInv'
<1>0. Typed /\ Orderly /\ Latest  BY DEF IInv
<1>1. PICK now, back :
        /\ now = [streams EXCEPT ![x] = [at |-> "opening", srv |-> s, conv |-> c, shown |-> NotSent]]
        /\ back = [leaving EXCEPT ![s] = @ \ {c}]
  OBVIOUS
<1>2. /\ streams[x].at = "off" /\ up[s] # "gone" /\ up' = [up EXCEPT ![s] = "on"]
      /\ streams' = now /\ leaving' = back
      /\ IF c \in OpenAt(streams, s) \union leaving[s]
         THEN UNCHANGED <<peers, total, told, out>>
         ELSE Changed(s, LocalOf(now, back, s))
      /\ sends' = sends /\ latest' = latest /\ newest' = newest /\ net' = net
  BY <1>1 DEF Opened, signals
<1>3. /\ streams \in [Streams -> Stream] /\ leaving \in [Servers -> SUBSET Conversations]
      /\ up \in [Servers -> {"off", "on", "gone"}]
  BY <1>0 DEF Typed
<1>4. /\ now \in [Streams -> Stream]
      /\ now[x].at = "opening" /\ now[x].srv = s /\ now[x].conv = c
      /\ \A y \in Streams : y # x => now[y] = streams[y]
  <2>1. NotSent \in Shown  BY DEF NotSent, Shown
  <2>2. [at |-> "opening", srv |-> s, conv |-> c, shown |-> NotSent] \in Stream  BY <2>1 DEF Stream
  <2> QED  BY <1>1, <1>3, <2>2
<1>5. /\ back \in [Servers -> SUBSET Conversations] /\ back[s] = leaving[s] \ {c}
      /\ \A o \in Servers : o # s => back[o] = leaving[o]
  BY <1>1, <1>3
<1>6. /\ up' \in [Servers -> {"off", "on", "gone"}] /\ up'[s] # "gone"
      /\ \A o \in Servers : o # s => up'[o] = up[o]
      /\ \A o \in Servers : up'[o] = "gone" <=> up[o] = "gone"
  BY <1>2, <1>3
<1>7. \A y \in Streams : now[y].at \in {"opening", "on"} =>
        now[y].srv \in Servers /\ now[y].conv \in Conversations
  BY <1>0, <1>4 DEF Typed
<1>8. ASSUME NEW o \in Servers, o # s PROVE Local(o)' = Local(o)
  <2>1. \A y \in Streams : /\ IsOpen(now, y, o) <=> IsOpen(streams, y, o)
                           /\ IsOpen(streams, y, o) => now[y].conv = streams[y].conv
    BY <1>2, <1>4, <1>8 DEF IsOpen
  <2>2. OpenAt(now, o) = OpenAt(streams, o)  BY <2>1, SameOpen
  <2> QED  BY <1>2, <1>5, <1>8, <2>2 DEF Local, LocalOf
<1>9. Latest'  BY <1>0, <1>2, <1>4 DEF Latest
<1>10. CASE c \in OpenAt(streams, s) \union leaving[s]
  <2>1. told' = told /\ out' = out  BY <1>2, <1>10
  <2>2. \A y \in Streams : IsOpen(now, y, s) <=> IsOpen(streams, y, s) \/ y = x
    BY <1>2, <1>4 DEF IsOpen
  <2>3. \A y \in Streams : IsOpen(streams, y, s) => now[y].conv = streams[y].conv
    BY <1>2, <1>4 DEF IsOpen
  <2>4. OpenAt(now, s) = OpenAt(streams, s) \union {c}  BY <1>4, <2>2, <2>3 DEF OpenAt
  <2>5. OpenAt(now, s) \union back[s] = OpenAt(streams, s) \union leaving[s]
    BY <1>5, <1>10, <2>4
  <2>6. Local(s)' = Local(s)  BY <1>2, <2>5 DEF Local, LocalOf
  <2>7. \A o \in Servers : Local(o)' = Local(o)  BY <1>8, <2>6
  <2>8. Typed'  BY <1>0, <1>2, <1>4, <1>5, <1>6, <1>7, <2>1 DEF Typed
  <2> QED  BY <1>2, <1>6, <1>9, <2>1, <2>7, <2>8, QuietHolds
<1>11. CASE ~(c \in OpenAt(streams, s) \union leaving[s])
  <2>1. PICK here : here = LocalOf(now, back, s)  OBVIOUS
  <2>2. here \in Nat
    <3>1. \A y \in Streams : IsOpen(now, y, s) => now[y].conv \in Conversations
      BY <1>7 DEF IsOpen
    <3> QED  BY <1>5, <2>1, <3>1, LocalCounts
  <2>3. Local(s)' = here  BY <1>2, <2>1 DEF Local
  <2>4. up[s] # "gone" /\ Changed(s, here)  BY <1>2, <1>11, <2>1
  <2>5. /\ told' \in [Servers -> Nat] /\ told'[s] = here
        /\ \A o \in Servers : o # s => told'[o] = told[o]
        /\ out' \in [Servers -> Out]
        /\ \A o \in Servers : o # s => out'[o] = out[o]
        /\ \A o \in Servers : Waits(out'[o], newest[o][o], Local(o)')
        /\ \A a, b \in Servers : a # b => InLine(net[a][b], out'[a], newest[b][a], newest[a][a])
    BY <1>0, <1>8, <2>2, <2>3, <2>4, WhenChanged
  <2>6. Typed'  BY <1>0, <1>2, <1>4, <1>5, <1>6, <1>7, <2>5 DEF Typed
  <2>7. told'[s] = Local(s)'  BY <2>3, <2>5
  <2> QED  BY <1>2, <1>6, <1>8, <1>9, <2>5, <2>6, <2>7, PresenceHolds
<1> QED  BY <1>10, <1>11

LEMMA CrashHolds ==
  ASSUME IInv, NEW s \in Servers, Crash(s)
  PROVE  IInv'
<1>0. Typed /\ Orderly /\ Latest  BY DEF IInv
<1>1. /\ up[s] = "on" /\ up' = [up EXCEPT ![s] = "gone"]
      /\ streams' = [x \in Streams |->
           IF IsOpen(streams, x, s) THEN [streams[x] EXCEPT !.at = "closed"] ELSE streams[x]]
      /\ leaving' = [leaving EXCEPT ![s] = {}] /\ out' = [out EXCEPT ![s] = Quiet]
      /\ net' = [o \in Servers |-> [net[o] EXCEPT ![s] = <<>>]]
      /\ told' = told /\ sends' = sends /\ latest' = latest /\ newest' = newest
  BY DEF Crash, signals
<1>2. /\ streams \in [Streams -> Stream] /\ leaving \in [Servers -> SUBSET Conversations]
      /\ up \in [Servers -> {"off", "on", "gone"}] /\ out \in [Servers -> Out]
      /\ net \in [Servers -> [Servers -> Seq(Msg)]]
  BY <1>0 DEF Typed
<1>3. ASSUME NEW x \in Streams
      PROVE  /\ streams'[x] \in Stream /\ streams'[x].srv = streams[x].srv
             /\ streams'[x].conv = streams[x].conv /\ streams'[x].shown = streams[x].shown
             /\ streams'[x].at = IF IsOpen(streams, x, s) THEN "closed" ELSE streams[x].at
  <2>1. streams[x] \in Stream  BY <1>2
  <2>2. streams'[x] = IF IsOpen(streams, x, s) THEN [streams[x] EXCEPT !.at = "closed"] ELSE streams[x]
    BY <1>1
  <2>3. CASE IsOpen(streams, x, s)  BY <2>1, <2>2, <2>3 DEF Stream
  <2>4. CASE ~IsOpen(streams, x, s)  BY <2>1, <2>2, <2>4
  <2> QED  BY <2>3, <2>4
<1>4. streams' \in [Streams -> Stream]
  <2>1. streams' = [x \in Streams |-> streams'[x]]  BY <1>1
  <2> QED  BY <1>3, <2>1
<1>5. /\ leaving' \in [Servers -> SUBSET Conversations] /\ \A o \in Servers : o # s => leaving'[o] = leaving[o]
      /\ up' \in [Servers -> {"off", "on", "gone"}] /\ up'[s] = "gone"
      /\ \A o \in Servers : o # s => up'[o] = up[o]
  BY <1>1, <1>2
<1>6. /\ Quiet \in Out /\ Quiet.flight = None /\ Quiet.waiting = <<>>  BY DEF Quiet, Out
<1>7. out' \in [Servers -> Out] /\ out'[s] = Quiet /\ \A o \in Servers : o # s => out'[o] = out[o]
  <2>1. PICK z : z = Quiet  OBVIOUS
  <2> QED  BY <1>1, <1>2, <1>6, <2>1
<1>8. /\ net' \in [Servers -> [Servers -> Seq(Msg)]]
      /\ \A a, b \in Servers : net'[a][b] = IF b = s THEN <<>> ELSE net[a][b]
  <2>1. <<>> \in Seq(Msg)  OBVIOUS
  <2>2. \A a \in Servers : net'[a] = [net[a] EXCEPT ![s] = <<>>] /\ net[a] \in [Servers -> Seq(Msg)]
    BY <1>1, <1>2
  <2> QED  BY <1>1, <2>1, <2>2
<1>9. ASSUME NEW o \in Servers, o # s PROVE Local(o)' = Local(o)
  <2>1. \A y \in Streams : /\ IsOpen(streams', y, o) <=> IsOpen(streams, y, o)
                           /\ IsOpen(streams, y, o) => streams'[y].conv = streams[y].conv
    BY <1>3, <1>9 DEF IsOpen
  <2>2. OpenAt(streams', o) = OpenAt(streams, o)  BY <2>1, SameOpen
  <2> QED  BY <1>5, <1>9, <2>2 DEF Local, LocalOf
<1>10. ASSUME NEW a \in Servers PROVE Waits(out'[a], newest'[a][a], Local(a)')
  <2>1. CASE a = s
    <3>1. Len(out'[s].waiting) = 0 /\ out'[s].waiting = <<>>  BY <1>6, <1>7
    <3> QED  BY <2>1, <3>1 DEF Waits
  <2>2. CASE a # s
    <3>1. Waits(out[a], newest[a][a], Local(a))  BY <1>0 DEF Orderly
    <3> QED  BY <1>1, <1>7, <1>9, <2>2, <3>1
  <2> QED  BY <2>1, <2>2
<1>11. ASSUME NEW a \in Servers, NEW b \in Servers, a # b
       PROVE  InLine(net'[a][b], out'[a], newest'[b][a], newest'[a][a])
  <2>1. PICK q, o, lo, hi : q = net[a][b] /\ o = out[a] /\ lo = newest[b][a] /\ hi = newest[a][a]
    OBVIOUS
  <2>2. InLine(q, o, lo, hi)  BY <1>0, <1>11, <2>1 DEF Orderly
  <2>3. CASE b = s
    <3>1. net'[a][b] = <<>> /\ out'[a] = o  BY <1>7, <1>8, <1>11, <2>1, <2>3
    <3>2. InLine(<<>>, o, lo, hi)  BY <2>2 DEF InLine, After
    <3> QED  BY <1>1, <2>1, <3>1, <3>2
  <2>4. CASE a = s
    <3>1. net'[a][b] = q /\ out'[a] = Quiet  BY <1>7, <1>8, <1>11, <2>1, <2>4
    <3>2. Len(Quiet.waiting) = 0  BY <1>6
    <3>3. InLine(q, Quiet, lo, hi)  BY <1>6, <2>2, <3>2 DEF InLine
    <3> QED  BY <1>1, <2>1, <3>1, <3>3
  <2>5. CASE a # s /\ b # s
    <3>1. net'[a][b] = q /\ out'[a] = o  BY <1>7, <1>8, <2>1, <2>5
    <3> QED  BY <1>1, <2>1, <2>2, <3>1
  <2> QED  BY <2>3, <2>4, <2>5
<1>12. ASSUME NEW a \in Servers PROVE net'[a][a] = <<>>
  BY <1>0, <1>8 DEF Orderly
<1>13. ASSUME NEW a \in Servers
       PROVE  /\ up'[a] # "gone" => told'[a] = Local(a)'
              /\ up'[a] = "gone" => out'[a] = Quiet
  BY <1>0, <1>1, <1>5, <1>7, <1>9 DEF Orderly
<1>14. \A a, r \in Servers, n \in Names :
         newest'[r][a][n] <= newest'[a][a][n] /\ newest'[a][a][n] <= sends'
  BY <1>0, <1>1 DEF Orderly
<1>15. Orderly'  BY <1>10, <1>11, <1>12, <1>13, <1>14 DEF Orderly
<1>16. Typed'
  <2>1. \A x \in Streams : streams'[x].at \in {"opening", "on"} =>
          streams'[x].srv \in Servers /\ streams'[x].conv \in Conversations
    BY <1>0, <1>3 DEF Typed
  <2> QED  BY <1>0, <1>1, <1>4, <1>5, <1>7, <1>8, <2>1 DEF Typed
<1>17. Latest'  BY <1>0, <1>1, <1>3 DEF Latest
<1> QED  BY <1>15, <1>16, <1>17 DEF IInv

-----------------------------------------------------------------------------
(* The theorems                                                            *)

LEMMA InitHolds == Init => IInv
<1> SUFFICES ASSUME Init PROVE IInv  OBVIOUS
<1>1. /\ up = [s \in Servers |-> "off"]
      /\ streams = [x \in Streams |-> [at |-> "off", srv |-> None, conv |-> None, shown |-> NotSent]]
      /\ latest = [s \in Servers |-> NotSent]
      /\ leaving = [s \in Servers |-> {}] /\ told = [s \in Servers |-> 0]
      /\ out = [s \in Servers |-> Quiet]
      /\ net = [s \in Servers |-> [o \in Servers |-> <<>>]]
      /\ sends = 0 /\ newest = [s \in Servers |-> [o \in Servers |-> [n \in Names |-> 0]]]
  BY DEF Init
<1>2. NotSent \in Shown /\ Quiet \in Out /\ Quiet.flight = None /\ Quiet.waiting = <<>>
  BY DEF NotSent, Shown, Quiet, Out
<1>3. \A x \in Streams : streams[x].at = "off"  BY <1>1
<1>4. Typed
  <2>1. [at |-> "off", srv |-> None, conv |-> None, shown |-> NotSent] \in Stream  BY <1>2 DEF Stream
  <2>2. streams \in [Streams -> Stream]  BY <1>1, <2>1
  <2>3. out \in [Servers -> Out] /\ latest \in [Servers -> Shown]  BY <1>1, <1>2
  <2> QED  BY <1>1, <1>3, <2>2, <2>3 DEF Typed
<1>5. ASSUME NEW s \in Servers PROVE Local(s) = 0
  <2>1. OpenAt(streams, s) \union leaving[s] = {}  BY <1>1, <1>3 DEF OpenAt, IsOpen
  <2> QED  BY <2>1, FS_EmptySet DEF Local, LocalOf
<1>6. ASSUME NEW s \in Servers PROVE Waits(out[s], newest[s][s], Local(s))
  <2>1. out[s] = Quiet /\ Len(out[s].waiting) = 0  BY <1>1, <1>2
  <2> QED  BY <1>2, <2>1 DEF Waits
<1>7. ASSUME NEW s \in Servers, NEW r \in Servers, s # r
      PROVE  InLine(net[s][r], out[s], newest[r][s], newest[s][s])
  <2>1. /\ out[s] = Quiet /\ Len(out[s].waiting) = 0 /\ out[s].flight = None
        /\ net[s][r] = <<>> /\ Len(net[s][r]) = 0
    BY <1>1, <1>2
  <2> QED  BY <2>1 DEF InLine
<1>8. Orderly
  <2>1. /\ \A s \in Servers : net[s][s] = <<>> /\ told[s] = 0 /\ up[s] = "off"
        /\ \A s, r \in Servers, n \in Names : newest[r][s][n] = 0
    BY <1>1
  <2>2. \A s \in Servers : up[s] # "gone" => told[s] = Local(s)  BY <1>5, <2>1
  <2> QED  BY <1>1, <1>6, <1>7, <2>1, <2>2 DEF Orderly
<1>9. Latest  BY <1>1, <1>3 DEF Latest, NotSent
<1> QED  BY <1>4, <1>8, <1>9 DEF IInv

LEMMA NextHolds == IInv /\ [Next]_vars => IInv'
<1> SUFFICES ASSUME IInv, [Next]_vars PROVE IInv'  OBVIOUS
<1>0. Typed /\ Orderly /\ Latest  BY DEF IInv
<1>1. ASSUME NEW s \in Servers, Lands(s) PROVE IInv'  BY <1>1, LandsHolds
<1>2. ASSUME NEW s \in Servers, NEW o \in Servers, Hear(s, o) PROVE IInv'  BY <1>2, HearHolds
<1>3. ASSUME NEW s \in Servers, Beat(s) PROVE IInv'  BY <1>3, BeatHolds
<1>4. CASE Round  BY <1>4, RoundHolds
<1>5. ASSUME NEW s \in Servers, NEW c \in Conversations, GraceOver(s, c) PROVE IInv'
  BY <1>5, GraceOverHolds
<1>6. ASSUME NEW s \in Servers, Subscribed(s) PROVE IInv'  BY <1>6, SubscribedHolds
<1>7. ASSUME NEW s \in Servers, Loses(s) \/ Start(s) \/ Crash(s) PROVE IInv'
  BY <1>7, LosesHolds, StartHolds, CrashHolds
<1>8. ASSUME NEW s \in Servers, NEW n \in Names, Send(s, n) PROVE IInv'  BY <1>8, SendHolds
<1>9. ASSUME NEW x \in Streams, NEW s \in Servers, NEW c \in Conversations, Opened(x, s, c) PROVE IInv'
  BY <1>9, OpenedHolds
<1>10. ASSUME NEW x \in Streams, Replay(x) \/ Closed(x) PROVE IInv'
  BY <1>10, ReplayHolds, ClosedHolds
<1>11. CASE UNCHANGED vars
  <2>1. /\ up' = up /\ streams' = streams /\ leaving' = leaving /\ told' = told /\ sends' = sends
        /\ latest' = latest /\ newest' = newest /\ net' = net /\ out' = out
    BY <1>11 DEF vars
  <2>2. \A o \in Servers : Local(o)' = Local(o)  BY <2>1, SameLocal
  <2>3. Typed'  BY <1>0, <2>1 DEF Typed
  <2>4. Latest'  BY <1>0, <2>1 DEF Latest
  <2> QED  BY <2>1, <2>2, <2>3, <2>4, QuietHolds
<1> QED
  BY <1>1, <1>2, <1>3, <1>4, <1>5, <1>6, <1>7, <1>8, <1>9, <1>10, <1>11
  DEF Next, Delivers, Beats, Graces, Joins

LEMMA Held == Spec => []IInv
BY InitHolds, NextHolds, PTL DEF Spec

\* A browser never ends on an older value. What a server has as its latest of a
\* signal is the newest it had from the one that sent it: send numbers it above all
\* before it, and publish, flush and the one publish in flight keep the order from
\* there to `hear`. And an open stream was sent its server's latest, by `opened`'s
\* replay and by every `send` and `hear` since.
THEOREM BrowsersEndOnTheLatest == Spec => []NeverOlder
<1>1. IInv => NeverOlder  BY DEF IInv, Latest, NeverOlder
<1> QED  BY <1>1, Held, PTL

\* What waits to be published is up to date: publish takes the place of what waits
\* of its kind, so the one count waiting is the server's own now (`told`, which
\* changed keeps) and the one value of each signal is the last it sent.
THEOREM OnlyTheNewestWaits == Spec => []NewestWaits
<1>1. IInv => NewestWaits
  <2> SUFFICES ASSUME IInv, NEW s \in Servers, NEW i \in DOMAIN out[s].waiting
               PROVE  LET m == out[s].waiting[i] IN
                        m.n = IF m.key = "presence" THEN Local(s) ELSE newest[s][s][m.key]
    BY DEF NewestWaits
  <2>1. out[s].waiting \in Seq(Msg)  BY DEF IInv, Typed, Out
  <2>2. i \in 1 .. Len(out[s].waiting)  BY <2>1, LenProperties
  <2>3. Waits(out[s], newest[s][s], Local(s))  BY DEF IInv, Orderly
  <2> QED  BY <2>2, <2>3 DEF Waits
<1> QED  BY <1>1, Held, PTL
=============================================================================
