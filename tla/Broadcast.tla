------------------------------ MODULE Broadcast ------------------------------
(***************************************************************************)
(* Signals and presence (class Broadcast), in each of the servers that     *)
(* share a store: the latest value of each signal and the streams it goes  *)
(* to, the conversations with a stream open and the other servers' counts  *)
(* of theirs, and the one publish in flight with what waits behind it.     *)
(*                                                                         *)
(* Time is rounds of one heartbeat: every server beats once in each, and   *)
(* what it publishes arrives, or is lost, before the next (Round). Within  *)
(* a round everything interleaves freely.                                  *)
(***************************************************************************)
EXTENDS Naturals, Sequences, FiniteSets, FiniteSetsExt, SequencesExt

CONSTANTS
  Servers, Conversations, Names,
  Streams, \* 1 .. n, numbered as they open
  None,    \* nothing in flight, no value
  Bounds   \* what a behaviour may have, one of these records: opens, streams; sends, calls of
           \* hai.signal; losses, publishes that fail or reach nobody; crashes, servers that stop

ASSUME BroadcastBounds ==
  /\ Bounds \subseteq [opens : Nat, sends : Nat, losses : Nat, crashes : Nat]
  /\ Streams \subseteq Nat

\* A signal's key is never the counts', and None is no message and no value.
ASSUME BroadcastNames ==
  /\ IsFiniteSet(Conversations)
  /\ "presence" \notin Names
  /\ None \notin [key : Names \union {"presence"}, n : Nat]
  /\ None \notin [from : Servers, n : Nat]

VARIABLES
  bound,    \* the behaviour's own
  up,       \* off, on once it has started, or gone
  hearing,  \* it is subscribed: what was published before, it missed
  streams,  \* each events stream: where it is, and the last value it was sent of each signal
  latest,   \* each server's latest value of each signal
  leaving,  \* conversations whose last stream closed, within the grace
  peers,    \* the other servers' counts, and rounds since each was heard; 0: not known
  total,    \* what a server's listeners were last told
  told,     \* the local count it last told the others
  out,      \* the publish in flight, and what waits behind it
  net,      \* published and not yet heard, from each server to each
  beaten,   \* has beaten in this round
  sends,    \* signals sent so far
  lost,     \* publishes lost so far
  newest    \* the highest send of each server and signal that a server had as its latest

publishing == <<out, net, lost>>
signals == <<latest, sends, newest>>
presence == <<leaving, peers, total, told>>
vars == <<bound, up, hearing, streams, latest, leaving, peers, total, told, out, net, beaten, sends,
          lost, newest>>

NotSent == [n \in Names |-> None]
Unknown == [count |-> 0, age |-> 0]
Quiet == [flight |-> None, waiting |-> <<>>]

Init ==
  /\ bound \in Bounds
  /\ up = [s \in Servers |-> "off"] /\ hearing = [s \in Servers |-> FALSE]
  /\ streams = [x \in Streams |-> [at |-> "off", srv |-> None, conv |-> None, shown |-> NotSent]]
  /\ latest = [s \in Servers |-> NotSent]
  /\ leaving = [s \in Servers |-> {}]
  /\ peers = [s \in Servers |-> [o \in Servers |-> Unknown]]
  /\ total = [s \in Servers |-> 0] /\ told = [s \in Servers |-> 0]
  /\ out = [s \in Servers |-> Quiet]
  /\ net = [s \in Servers |-> [o \in Servers |-> <<>>]]
  /\ beaten = [s \in Servers |-> FALSE]
  /\ sends = 0 /\ lost = 0
  /\ newest = [s \in Servers |-> [o \in Servers |-> [n \in Names |-> 0]]]

-------------------------------------------------------------------------------
(* Counting.                                                                   *)

IsOpen(xs, x, s) == xs[x].at \in {"opening", "on"} /\ xs[x].srv = s

OpenAt(xs, s) == {xs[x].conv : x \in {x \in Streams : IsOpen(xs, x, s)}}

\* `local`, of these streams and these conversations leaving.
LocalOf(xs, lv, s) == Cardinality(OpenAt(xs, s) \union lv[s])

Local(s) == LocalOf(streams, leaving, s)

\* Slip: a server that has gone is counted for ever
NeverStale(ps) == {{}}

\* The servers a recount may drop: heard between two and three beats ago it may
\* be either side of the limit.
Stale(ps) ==
  {d \in SUBSET {o \in DOMAIN ps : ps[o].count > 0 /\ ps[o].age >= 3} :
     \A o \in DOMAIN ps : ps[o].age >= 4 => o \in d}

\* recount, with these counts of the others and this many here.
Recount(s, ps, here) ==
  \E d \in Stale(ps) :
    LET kept == [o \in Servers |-> IF o \in d THEN Unknown ELSE ps[o]] IN
    /\ peers' = [peers EXCEPT ![s] = kept]
    /\ total' = [total EXCEPT ![s] = here + MapThenSumSet(LAMBDA o : kept[o].count, Servers)]

-------------------------------------------------------------------------------
(* Publishing: one in flight, and behind it the latest of each kind.           *)

Message(key, n) == [key |-> key, n |-> n]
Count(n) == Message("presence", n)

\* Slip: what waits is kept, and the newer one dropped
PublishedLate(o, m) ==
  IF o.flight = None THEN [o EXCEPT !.flight = m]
  ELSE IF \E i \in DOMAIN o.waiting : o.waiting[i].key = m.key THEN o
  ELSE [o EXCEPT !.waiting = Append(@, m)]

\* publish, of what is waiting and in flight.
Published(o, m) ==
  IF o.flight = None THEN [o EXCEPT !.flight = m]
  ELSE [o EXCEPT !.waiting = Append(RemoveFirstMatch(@, LAMBDA w : w.key = m.key), m)]

\* flush goes on to the first of what waits.
Flushed(o) ==
  IF o.waiting = <<>> THEN Quiet ELSE [flight |-> Head(o.waiting), waiting |-> Tail(o.waiting)]

Publish(s, m) == out' = [out EXCEPT ![s] = Published(@, m)]

\* changed, with this many conversations here now.
Changed(s, here) ==
  /\ Recount(s, peers[s], here)
  /\ told' = [told EXCEPT ![s] = here]
  /\ IF here = told[s] THEN out' = out ELSE Publish(s, Count(here))

\* The store has it, and every server that hears is sent it.
Lands(s) ==
  /\ up[s] = "on" /\ out[s].flight # None
  /\ net' = [net EXCEPT ![s] = [o \in Servers |->
               IF o # s /\ up[o] = "on" /\ hearing[o] THEN Append(@[o], out[s].flight) ELSE @[o]]]
  /\ out' = [out EXCEPT ![s] = Flushed(@)]
  /\ UNCHANGED <<bound, up, hearing, streams, signals, presence, beaten, lost>>

\* Slip: a publish that failed goes again, behind what waits
LosesRetrying(s) ==
  /\ up[s] = "on" /\ out[s].flight # None /\ lost < bound.losses
  /\ lost' = lost + 1
  /\ out' = [out EXCEPT ![s] = Flushed([@ EXCEPT !.waiting = Append(@, out[s].flight)])]
  /\ UNCHANGED <<bound, up, hearing, streams, signals, presence, net, beaten>>

\* A publish fails, or is heard by nobody: it is dropped.
Loses(s) ==
  /\ up[s] = "on" /\ out[s].flight # None /\ lost < bound.losses
  /\ lost' = lost + 1
  /\ out' = [out EXCEPT ![s] = Flushed(@)]
  /\ UNCHANGED <<bound, up, hearing, streams, signals, presence, net, beaten>>

-------------------------------------------------------------------------------
(* Signals.                                                                    *)

Value(s, n) == [from |-> s, n |-> n]

\* The value becomes the server's latest, and goes to its streams.
Becomes(s, name, v) ==
  /\ latest' = [latest EXCEPT ![s][name] = v]
  /\ newest' = [newest EXCEPT ![s][v.from][name] = IF v.n > @ THEN v.n ELSE @]
  /\ streams' = [x \in Streams |->
       IF IsOpen(streams, x, s) THEN [streams[x] EXCEPT !.shown[name] = v] ELSE streams[x]]

Send(s, name) ==
  /\ up[s] = "on" /\ sends < bound.sends
  /\ sends' = sends + 1
  /\ Becomes(s, name, Value(s, sends + 1))
  /\ Publish(s, Message(name, sends + 1))
  /\ UNCHANGED <<bound, up, hearing, presence, net, beaten, lost>>

\* A count from a server not known is answered with this one's own.
HearCount(s, o, n) ==
  LET known == peers[s][o].count > 0 IN
  /\ Recount(s, [peers[s] EXCEPT ![o] = [count |-> n, age |-> 0]], Local(s))
  /\ IF ~known /\ n > 0 /\ Local(s) > 0 THEN Publish(s, Count(Local(s))) ELSE out' = out
  /\ UNCHANGED <<streams, latest, newest>>

Hear(s, o) ==
  /\ up[s] = "on" /\ net[o][s] # <<>>
  /\ net' = [net EXCEPT ![o][s] = Tail(@)]
  /\ LET m == Head(net[o][s]) IN
     IF m.key = "presence" THEN HearCount(s, o, m.n)
     ELSE Becomes(s, m.key, Value(o, m.n)) /\ UNCHANGED <<peers, total, out>>
  /\ UNCHANGED <<bound, up, hearing, leaving, told, beaten, sends, lost>>

-------------------------------------------------------------------------------
(* Streams, and the servers' lives.                                            *)

\* start: the others are heard once the store has subscribed.
Start(s) ==
  /\ up[s] = "off"
  /\ up' = [up EXCEPT ![s] = "on"]
  /\ UNCHANGED <<bound, hearing, streams, signals, presence, publishing, beaten>>

Subscribed(s) ==
  /\ up[s] = "on" /\ ~hearing[s]
  /\ hearing' = [hearing EXCEPT ![s] = TRUE]
  /\ UNCHANGED <<bound, up, streams, signals, presence, publishing, beaten>>

Opened(x, s, c) ==
  LET now == [streams EXCEPT ![x] = [at |-> "opening", srv |-> s, conv |-> c, shown |-> NotSent]]
      back == [leaving EXCEPT ![s] = @ \ {c}] IN
  /\ streams[x].at = "off" /\ \A y \in Streams : y < x => streams[y].at # "off"
  /\ up[s] # "gone"
  /\ x <= bound.opens
  /\ up' = [up EXCEPT ![s] = "on"]
  /\ streams' = now /\ leaving' = back
  /\ IF c \in OpenAt(streams, s) \union leaving[s]
     THEN UNCHANGED <<peers, total, told, out>>
     ELSE Changed(s, LocalOf(now, back, s))
  /\ UNCHANGED <<bound, hearing, signals, net, beaten, lost>>

\* Once the others are heard: each signal's latest.
Replay(x) ==
  LET s == streams[x].srv IN
  /\ streams[x].at = "opening" /\ up[s] = "on" /\ hearing[s]
  /\ streams' = [streams EXCEPT ![x].at = "on", ![x].shown = latest[s]]
  /\ UNCHANGED <<bound, up, hearing, signals, presence, publishing, beaten>>

Closed(x) ==
  LET s == streams[x].srv
      c == streams[x].conv
      now == [streams EXCEPT ![x].at = "closed"] IN
  /\ IsOpen(streams, x, s)
  /\ streams' = now
  /\ leaving' = IF c \in OpenAt(now, s) THEN leaving ELSE [leaving EXCEPT ![s] = @ \union {c}]
  /\ UNCHANGED <<bound, up, hearing, signals, peers, total, told, publishing, beaten>>

GraceOver(s, c) ==
  LET gone == [leaving EXCEPT ![s] = @ \ {c}] IN
  /\ up[s] = "on" /\ c \in leaving[s]
  /\ leaving' = gone
  /\ Changed(s, LocalOf(streams, gone, s))
  /\ UNCHANGED <<bound, up, hearing, streams, signals, net, beaten, lost>>

\* A server stops, with its streams and what it had not published.
Crash(s) ==
  /\ up[s] = "on" /\ Cardinality({o \in Servers : up[o] = "gone"}) < bound.crashes
  /\ up' = [up EXCEPT ![s] = "gone"]
  /\ streams' = [x \in Streams |->
       IF IsOpen(streams, x, s) THEN [streams[x] EXCEPT !.at = "closed"] ELSE streams[x]]
  /\ leaving' = [leaving EXCEPT ![s] = {}]
  /\ out' = [out EXCEPT ![s] = Quiet]
  /\ net' = [o \in Servers |-> [net[o] EXCEPT ![s] = <<>>]]
  /\ UNCHANGED <<bound, hearing, signals, peers, total, told, beaten, lost>>

Beat(s) ==
  /\ up[s] = "on" /\ ~beaten[s]
  /\ beaten' = [beaten EXCEPT ![s] = TRUE]
  /\ Recount(s, peers[s], Local(s))
  /\ IF Local(s) > 0 THEN Publish(s, Count(Local(s))) ELSE out' = out
  /\ UNCHANGED <<bound, up, hearing, streams, signals, leaving, told, net, lost>>

\* A heartbeat has passed.
Round ==
  /\ \A s \in Servers : up[s] = "on" => beaten[s] /\ out[s] = Quiet
  /\ \A s, o \in Servers : net[s][o] = <<>>
  /\ beaten' = [s \in Servers |-> FALSE]
  /\ peers' = [s \in Servers |-> [o \in Servers |->
       IF peers[s][o].count > 0 /\ peers[s][o].age < 4
       THEN [peers[s][o] EXCEPT !.age = @ + 1] ELSE peers[s][o]]]
  /\ UNCHANGED <<bound, up, hearing, streams, signals, leaving, total, told, publishing>>

-------------------------------------------------------------------------------
Delivers == \E s \in Servers : Lands(s) \/ \E o \in Servers : Hear(s, o)
Beats == (\E s \in Servers : Beat(s)) \/ Round
Graces == \E s \in Servers, c \in Conversations : GraceOver(s, c)
Joins == \E s \in Servers : Subscribed(s)

Next ==
  \/ Delivers \/ Beats \/ Graces \/ Joins
  \/ \E s \in Servers : Loses(s) \/ Start(s) \/ Crash(s)
  \/ \E s \in Servers, n \in Names : Send(s, n)
  \/ \E x \in Streams, s \in Servers, c \in Conversations : Opened(x, s, c)
  \/ \E x \in Streams : Replay(x) \/ Closed(x)

\* Timers fire, the store subscribes, and what it takes it delivers.
Fairness == WF_vars(Delivers) /\ WF_vars(Beats) /\ WF_vars(Graces) /\ WF_vars(Joins)

Spec == Init /\ [][Next]_vars /\ Fairness

-------------------------------------------------------------------------------
\* A browser never ends on an older value: its stream has been sent its server's
\* latest, and that is no older than any other that server had from the same
\* one. (send, hear, `opened`'s replay, and flush with one publish in flight)
NeverOlder ==
  /\ \A s \in Servers, n \in Names :
       latest[s][n] # None => latest[s][n].n = newest[s][latest[s][n].from][n]
  /\ \A x \in Streams : streams[x].at = "on" => streams[x].shown = latest[streams[x].srv]

\* What waits to be published is up to date: the count is this server's now, and
\* a signal's value is the last this server sent of it. (publish, `told`)
NewestWaits ==
  \A s \in Servers : \A i \in DOMAIN out[s].waiting :
    LET m == out[s].waiting[i] IN
      m.n = IF m.key = "presence" THEN Local(s) ELSE newest[s][s][m.key]

\* Presence comes right: once streams stop coming and going, every server's
\* total is what the servers that are up have open, whatever was lost and
\* whoever stopped. (beats, the answer to an unknown count, three missed beats)
PresenceSettles ==
  <>[](\A s \in Servers : up[s] = "on" =>
         total[s] = MapThenSumSet(LAMBDA o : IF up[o] = "on" THEN Local(o) ELSE 0, Servers))
===============================================================================
