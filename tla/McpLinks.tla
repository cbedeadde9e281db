------------------------------- MODULE McpLinks -------------------------------
(***************************************************************************)
(* The connections a process keeps to one MCP server with auth: a Link for *)
(* each user, in a pool that closes the least recently used when it is     *)
(* over its cap. A link connects when it is first needed. Calls that come  *)
(* at once share one check of the user's credential and one dialing, while *)
(* the pool, forget(), close(), a connection that drops and a credential   *)
(* that changes end what they wait for.                                    *)
(*                                                                         *)
(* Arguments, results, tool listings and error texts are left out, and     *)
(* timeouts are failures that may come at any time. A credential, of the   *)
(* kind oauth() keeps, is the number of the account it is for, 0 once it   *)
(* is gone: each account the user connects has a higher one.               *)
(***************************************************************************)
EXTENDS Integers, Sequences, FiniteSets, SequencesExt

CONSTANTS
  Users, Calls,
  MaxConnections,  \* the pool's cap
  MaxChanges,      \* times a credential changes
  MaxDrops         \* connections that drop

ASSUME LinksAssumption == IsFiniteSet(Calls) /\ MaxConnections \in Nat \ {0}

VARIABLES
  links,   \* every Link made: see NewLink
  pool,    \* the server's links, the least recently used first
  conns,   \* every connection made: its link, its account, and up, gone or closed
  calls,   \* each call: where it is, its link, its connection, the account its check found
  held,    \* the account each user's credential is for
  closed,  \* the server has been closed
  faults   \* changes and drops so far

linksVars == <<links, pool, conns, calls, held, closed, faults>>

\* client, the connection in use; dial, none, making, made or connecting, as, the account
\* it is with, and dialed, its connection; check, none, looking or hanging, known, the
\* account it last found, and saw, the one last read, as by a refresh; busy and idle, calls
\* on it and its timer; shut, and asked, that forget() or close() shut it; closing, the
\* connection its close() has still to close. 0: no connection, no account.
NewLink(u) ==
  [user |-> u, client |-> 0, dial |-> "none", as |-> 0, dialed |-> 0,
   check |-> "none", known |-> 0, saw |-> 0, busy |-> 0, idle |-> FALSE,
   shut |-> FALSE, asked |-> FALSE, closing |-> 0]

NewCall == [at |-> "new", link |-> 0, conn |-> 0, found |-> 0]

LinksInit ==
  /\ links = <<>> /\ pool = <<>> /\ conns = <<>>
  /\ calls = [c \in Calls |-> NewCall]
  /\ held = [u \in Users |-> 1]
  /\ closed = FALSE
  /\ faults = [changes |-> 0, drops |-> 0]

-------------------------------------------------------------------------------
(* Closing.                                                                    *)

\* Connections that end: none but those that are left is anyone's client.
Ended(cs, ns) == [n \in DOMAIN cs |-> IF n \in ns THEN [cs[n] EXCEPT !.at = "closed"] ELSE cs[n]]

\* Link.shut, as far as it goes at once: a transport being made is given up, one
\* being connected is closed, and the client is left for ShutEnds.
Shut(k, asked) ==
  [k EXCEPT !.shut = TRUE, !.asked = asked, !.idle = FALSE,
            !.closing = k.client, !.client = 0,
            !.dial = IF @ = "making" THEN "none" ELSE @, !.as = IF k.dial = "making" THEN 0 ELSE @]

ShutAll(ls, out, asked) == [l \in DOMAIN ls |-> IF l \in out THEN Shut(ls[l], asked) ELSE ls[l]]

\* The connections that shutting these links closes at once.
Connecting(ls, out) == {ls[l].dialed : l \in {l \in out : ls[l].dial = "connecting"}}

Left(p, out) == FlattenSeq([i \in DOMAIN p |-> IF p[i] \in out THEN <<>> ELSE <<p[i]>>])

ShutEnds(l) ==
  /\ links[l].shut /\ links[l].closing # 0 /\ links[l].dial = "none"
  /\ conns' = Ended(conns, {links[l].closing})
  /\ links' = [links EXCEPT ![l].closing = 0]
  /\ UNCHANGED <<pool, calls, held, closed, faults>>

\* The links of the pool with no call in flight, by their place in it.
FreeIn(p, ls) == {i \in DOMAIN p : ls[p[i]].busy = 0}

\* trim: the first of them, as many as the pool is over the limit.
Trimmed(p, ls, limit) ==
  {p[i] : i \in {i \in FreeIn(p, ls) :
                  Cardinality({j \in FreeIn(p, ls) : j <= i}) <= Len(p) - limit}}

-------------------------------------------------------------------------------
(* Calls take a link, and let it go.                                           *)

\* hold, and the start of ready(): the check that is on its way, or a new one.
Held(k) == [k EXCEPT !.busy = @ + 1, !.idle = FALSE, !.check = IF @ = "none" THEN "looking" ELSE @]

Mine(u) == {l \in ToSet(pool) : links[l].user = u}

Takes(c, l) == calls' = [calls EXCEPT ![c].at = "checking", ![c].link = l]

Take(c, u) ==
  /\ calls[c].at = "new" /\ ~closed
  /\ \/ \E l \in Mine(u) :
          /\ pool' = Append(Left(pool, {l}), l)
          /\ links' = [links EXCEPT ![l] = Held(@)]
          /\ Takes(c, l)
          /\ conns' = conns
     \/ /\ Mine(u) = {}
        /\ LET out == Trimmed(pool, links, MaxConnections - 1) IN
           /\ pool' = Append(Left(pool, out), Len(links) + 1)
           /\ links' = Append(ShutAll(links, out, FALSE), Held(NewLink(u)))
           /\ conns' = Ended(conns, Connecting(links, out))
        /\ Takes(c, Len(links) + 1)
  /\ UNCHANGED <<held, closed, faults>>

\* Slip: a pool grown past its cap stays so
ReleaseKeeping(c) ==
  LET l == calls[c].link
      k == links[l]
      idle == k.busy = 1 /\ ~k.shut IN
  /\ calls[c].at = "over"
  /\ calls' = [calls EXCEPT ![c].at = "done"]
  /\ links' = [links EXCEPT ![l].busy = @ - 1, ![l].idle = idle]
  /\ UNCHANGED <<pool, conns, held, closed, faults>>

\* The call's `finally`.
Release(c) ==
  LET l == calls[c].link
      k == links[l]
      idle == k.busy = 1 /\ ~k.shut
      ls == [links EXCEPT ![l].busy = @ - 1, ![l].idle = idle]
      out == IF idle THEN Trimmed(pool, ls, MaxConnections) ELSE {} IN
  /\ calls[c].at = "over"
  /\ calls' = [calls EXCEPT ![c].at = "done"]
  /\ links' = ShutAll(ls, out, FALSE)
  /\ pool' = Left(pool, out)
  /\ conns' = Ended(conns, Connecting(ls, out))
  /\ UNCHANGED <<held, closed, faults>>

ShutThose(out, asked) ==
  /\ links' = ShutAll(links, out, asked)
  /\ pool' = Left(pool, out)
  /\ conns' = Ended(conns, Connecting(links, out))

Idle(l) ==
  /\ links[l].idle /\ l \in ToSet(pool)
  /\ ShutThose({l}, FALSE)
  /\ UNCHANGED <<calls, held, closed, faults>>

Forget(u) ==
  /\ Mine(u) # {}
  /\ ShutThose(Mine(u), TRUE)
  /\ UNCHANGED <<calls, held, closed, faults>>

Close ==
  /\ ~closed
  /\ closed' = TRUE
  /\ ShutThose(ToSet(pool), TRUE)
  /\ UNCHANGED <<calls, held, faults>>

\* A call stops waiting: at its deadline, or because the server or, in its
\* check, the link has been closed.
GivesUp(c) ==
  /\ calls[c].at \in {"checking", "opening", "sent"}
  /\ calls' = [calls EXCEPT ![c].at = "over"]
  /\ UNCHANGED <<links, pool, conns, held, closed, faults>>

-------------------------------------------------------------------------------
(* The credential's check, which calls at once share.                          *)

Waiting(l, at) == {c \in Calls : calls[c].link = l /\ calls[c].at = at}

Over(cs) == [c \in Calls |-> IF c \in cs THEN [calls[c] EXCEPT !.at = "over"] ELSE calls[c]]

\* open(), by each call whose check has ended: the connection there is, or the
\* one dialing there is, begun by the first of them.
Opens(l, k, cs) ==
  /\ calls' = [c \in Calls |->
       IF c \notin cs THEN calls[c]
       ELSE IF k.shut THEN [calls[c] EXCEPT !.at = "over"]
       ELSE [calls[c] EXCEPT !.found = k.known, !.conn = k.client,
                             !.at = IF k.client = 0 THEN "opening" ELSE "ready"]]
  /\ links' = [links EXCEPT ![l] =
       IF cs # {} /\ ~k.shut /\ k.client = 0 /\ k.dial = "none"
       THEN [k EXCEPT !.check = "none", !.dial = "making", !.as = k.known]
       ELSE [k EXCEPT !.check = "none"]]

\* ensure() answers. A connection made with another account, or with one that
\* is gone, is to be hung up.
Finds(l) ==
  LET k == links[l]
      now == held[k.user] IN
  /\ k.check = "looking"
  /\ IF now # 0 /\ k.known \in {0, now}
     THEN Opens(l, [k EXCEPT !.known = now, !.saw = now], Waiting(l, "checking"))
     ELSE /\ links' = [links EXCEPT ![l].check = "hanging", ![l].known = now, ![l].saw = now]
          /\ calls' = calls
  /\ UNCHANGED <<pool, conns, held, closed, faults>>

\* It throws: the credential could not be looked up, or the link was closed.
LookupFails(l) ==
  /\ links[l].check = "looking"
  /\ links' = [links EXCEPT ![l].check = "none"]
  /\ calls' = Over(Waiting(l, "checking"))
  /\ UNCHANGED <<pool, conns, held, closed, faults>>

Unclient(ls, n) ==
  [l \in DOMAIN ls |-> IF ls[l].client = n /\ n # 0 THEN [ls[l] EXCEPT !.client = 0] ELSE ls[l]]

\* The connection hung up, the calls go on: without a credential they are over.
HungUp(l) ==
  LET k == [links[l] EXCEPT !.client = 0] IN
  /\ conns' = Ended(conns, {links[l].client})
  /\ IF k.known # 0 THEN Opens(l, k, Waiting(l, "checking"))
     ELSE /\ links' = [links EXCEPT ![l] = [k EXCEPT !.check = "none"]]
          /\ calls' = Over(Waiting(l, "checking"))
  /\ UNCHANGED <<pool, held, closed, faults>>

\* Slip: a dialing that is under way is not waited for
HangsUpAtOnce(l) == links[l].check = "hanging" /\ HungUp(l)

\* hangUp, once no dialing is under way.
HangsUp(l) == links[l].check = "hanging" /\ links[l].dial = "none" /\ HungUp(l)

-------------------------------------------------------------------------------
(* Dialing.                                                                    *)

DialEnds(l) == [links EXCEPT ![l].dial = "none", ![l].as = 0, ![l].dialed = 0]

\* transport() has made one, with the provider of the account the dialing began with.
Made(l) ==
  /\ links[l].dial = "making"
  /\ conns' = Append(conns, [link |-> l, cred |-> links[l].as, at |-> "up"])
  /\ links' = [links EXCEPT ![l].dial = "made", ![l].dialed = Len(conns) + 1]
  /\ UNCHANGED <<pool, calls, held, closed, faults>>

NotMade(l) ==
  /\ links[l].dial = "making"
  /\ links' = DialEnds(l)
  /\ calls' = Over(Waiting(l, "opening"))
  /\ UNCHANGED <<pool, conns, held, closed, faults>>

\* close() may have come as the transport was made, with nothing yet to stop.
Connects(l) ==
  /\ links[l].dial = "made"
  /\ IF links[l].shut
     THEN /\ conns' = Ended(conns, {links[l].dialed})
          /\ links' = DialEnds(l)
          /\ calls' = Over(Waiting(l, "opening"))
     ELSE /\ links' = [links EXCEPT ![l].dial = "connecting"]
          /\ UNCHANGED <<conns, calls>>
  /\ UNCHANGED <<pool, held, closed, faults>>

\* Connected, its tools listed and the link not closed meanwhile: the client of every
\* call that waits.
Connected(l) ==
  LET n == links[l].dialed IN
  /\ links[l].dial = "connecting" /\ conns[n].at = "up" /\ ~links[l].shut
  /\ links' = [DialEnds(l) EXCEPT ![l].client = n]
  /\ calls' = [c \in Calls |-> IF c \in Waiting(l, "opening")
                               THEN [calls[c] EXCEPT !.at = "ready", !.conn = n] ELSE calls[c]]
  /\ UNCHANGED <<pool, conns, held, closed, faults>>

NotConnected(l) ==
  /\ links[l].dial = "connecting"
  /\ conns' = Ended(conns, {links[l].dialed})
  /\ links' = DialEnds(l)
  /\ calls' = Over(Waiting(l, "opening"))
  /\ UNCHANGED <<pool, held, closed, faults>>

-------------------------------------------------------------------------------
(* Calls on a connection, and what ends it.                                    *)

\* A call on a connection that has been closed fails at once, and so does one on a
\* connection whose account is not the one last read.
Send(c) ==
  LET n == conns[calls[c].conn] IN
  /\ calls[c].at = "ready"
  /\ calls' = [calls EXCEPT ![c].at =
                 IF n.at = "closed" \/ n.cred # links[n.link].saw THEN "over" ELSE "sent"]
  /\ UNCHANGED <<links, pool, conns, held, closed, faults>>

Answered(c) ==
  /\ calls[c].at = "sent" /\ conns[calls[c].conn].at = "up"
  /\ calls' = [calls EXCEPT ![c].at = "over"]
  /\ UNCHANGED <<links, pool, conns, held, closed, faults>>

\* Slip: it is forgotten, and left open
CallFailsOpen(c) ==
  LET n == calls[c].conn IN
  /\ calls[c].at = "sent" /\ conns[n].at # "up"
  /\ calls' = [calls EXCEPT ![c].at = "over"]
  /\ links' = Unclient(links, n)
  /\ UNCHANGED <<pool, conns, held, closed, faults>>

\* failure: a connection found to have gone is forgotten, and closed.
CallFails(c) ==
  LET n == calls[c].conn IN
  /\ calls[c].at = "sent" /\ conns[n].at # "up"
  /\ calls' = [calls EXCEPT ![c].at = "over"]
  /\ conns' = Ended(conns, {n})
  /\ links' = Unclient(links, n)
  /\ UNCHANGED <<pool, held, closed, faults>>

\* onUnauthorized: the server refused the token, and the refresh reads what is held now.
Refreshes(c) ==
  LET l == calls[c].link
      now == held[links[l].user] IN
  /\ calls[c].at = "sent" /\ conns[calls[c].conn].at = "up" /\ links[l].saw # now
  /\ links' = [links EXCEPT ![l].saw = now]
  /\ calls' = [calls EXCEPT ![c].at = "over"]
  /\ UNCHANGED <<pool, conns, held, closed, faults>>

\* The transport says so, or, over HTTP, nothing does until a call.
ConnDrops(n) ==
  /\ conns[n].at = "up" /\ faults.drops < MaxDrops
  /\ faults' = [faults EXCEPT !.drops = @ + 1]
  /\ \/ conns' = Ended(conns, {n}) /\ links' = Unclient(links, n)
     \/ conns' = [conns EXCEPT ![n].at = "gone"] /\ links' = links
  /\ UNCHANGED <<pool, calls, held, closed>>

\* The user connects another account, or disconnects.
Changes(u) ==
  /\ faults.changes < MaxChanges
  /\ faults' = [faults EXCEPT !.changes = @ + 1]
  /\ \E now \in {0, faults.changes + 2} : now # held[u] /\ held' = [held EXCEPT ![u] = now]
  /\ UNCHANGED <<links, pool, conns, calls, closed>>

-------------------------------------------------------------------------------
LinksNext ==
  \/ \E c \in Calls, u \in Users : Take(c, u)
  \/ \E c \in Calls : Release(c) \/ GivesUp(c) \/ Send(c) \/ Answered(c) \/ CallFails(c)
                     \/ Refreshes(c)
  \/ \E l \in DOMAIN links :
       \/ ShutEnds(l) \/ Idle(l) \/ Finds(l) \/ LookupFails(l) \/ HangsUp(l)
       \/ Made(l) \/ NotMade(l) \/ Connects(l) \/ Connected(l) \/ NotConnected(l)
  \/ \E u \in Users : Forget(u) \/ Changes(u)
  \/ \E n \in DOMAIN conns : ConnDrops(n)
  \/ Close

LinksSpec == LinksInit /\ [][LinksNext]_linksVars

-------------------------------------------------------------------------------
\* The pool is trimmed as far as it may be, and no further: it is over its cap only
\* while calls hold every link of it, and only forget() and close() shut a link that a
\* call holds, never room in the pool nor the idle timer. (take, hold, release, trim)
PoolTrimmed ==
  /\ Len(pool) > MaxConnections => \A l \in ToSet(pool) : links[l].busy > 0
  /\ \A c \in Calls :
       calls[c].at \notin {"new", "done"} /\ links[calls[c].link].shut
         => links[calls[c].link].asked

\* A call is given its own user's connection, made with the account its check found,
\* whatever other calls' checks and dialings it shared: never one of an account the
\* user has replaced. (ready, check, hangUp, open)
OnItsAccount ==
  \A c \in Calls : calls[c].at \in {"ready", "sent"} =>
    conns[calls[c].conn].link = calls[c].link /\ conns[calls[c].conn].cred = calls[c].found

\* No connection is left open that nothing will close: it is the client of a link that
\* is open, a dialing, or what its link's close() closes next. (open, dial, shut, lose)
NoneLeftOpen ==
  \A n \in DOMAIN conns :
    LET k == links[conns[n].link] IN
    conns[n].at # "closed" => (k.client = n /\ ~k.shut) \/ k.closing = n \/ k.dialed = n
===============================================================================
