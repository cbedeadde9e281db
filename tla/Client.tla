-------------------------------- MODULE Client --------------------------------
(***************************************************************************)
(* One chat in a browser (createChat): its chain of requests, what it      *)
(* shows of the one that is out, and the events stream, or polls, that     *)
(* show it wake turns. The server is what it may answer: it holds a        *)
(* conversation for one turn at a time, a request's or a wake turn's.      *)
(*                                                                         *)
(* Text, surfaces and notices are left out. The deadline of a conversation *)
(* may pass at any time: the timer and the look at the clock that precedes *)
(* each use of it are the one step Expire.                                 *)
(***************************************************************************)
EXTENDS Naturals, Sequences, SequencesExt, FiniteSets

CONSTANTS
  None,         \* no request, no conversation
  MaxRequests,  \* start, send and interact that go into the chain
  MaxWakes,     \* wake turns the server runs
  MaxTries,     \* posts while a turn out of sight holds on: stands for CUT_OFF_MS
  Bounds        \* what a behaviour may have, one of these records: polls, may the browser poll;
                \* resets, of reset() and close(); faults, connections that fail, requests or
                \* streams turned away, errors

ASSUME ClientBounds ==
  /\ {MaxRequests, MaxWakes, MaxTries} \subseteq Nat
  /\ Bounds \subseteq [polls : BOOLEAN, resets : Nat, faults : Nat]

\* None is no conversation, and not what the page shows as out.
ASSUME ClientNames ==
  None \notin Nat \union [req : Nat, was : {"idle", "streaming"}, said : BOOLEAN]

VARIABLES
  bound,    \* the behaviour's own
  gen,      \* generation: bumped by reset() and close()
  shut,     \* closed for good
  reqs,     \* every request made: see Request
  view,     \* what the page sees: see View
  conv,     \* state.conversationId
  denied,   \* state.unauthorized
  line,     \* the events stream: where it is, and the frames on their way
  polling,  \* the events are read by polls
  remote,   \* a wake turn is showing: requests wait
  cutOff,   \* the connection dropped while one was
  showing,  \* turnShowing: the wake turn's number
  seen,     \* turnSeen: the last one seen to end
  convs,    \* the server's conversations: the generation each was begun in
  holder,   \* who holds each: None, a request, or 0 for a wake turn
  resp,     \* frames on their way in answer to the request that is out
  wake,     \* the wake turn running: its number, conversation, and whether it said idle
  wakes,    \* wake turns so far
  ended,    \* the wake turns each conversation has seen end, for polls
  faults,   \* how many faults so far
  lost      \* the end of a turn this page shows was lost with a connection

chat == <<gen, shut, view, conv, denied>>
events == <<line, polling, remote, cutOff, showing, seen>>
server == <<convs, holder, wake, wakes, ended>>
vars == <<bound, gen, shut, reqs, view, conv, denied, line, polling, remote, cutOff, showing, seen,
          convs, holder, resp, wake, wakes, ended, faults, lost>>

Paths == {"start", "chat", "interact"}
Places == {"queued", "held", "posted", "retry", "heldAgain", "reposted", "backoff", "trying",
           "reading", "done"}
InFlight == {"posted", "reposted", "trying"}

Frames == {"hello", "streaming", "user", "idle", "error", "expired", "end"}

-------------------------------------------------------------------------------
(* What frames do to what the page sees.                                       *)

NoView == [status |-> "idle", expired |-> FALSE, begun |-> FALSE,
           outgoing |-> None, pending |-> {}, shown |-> {}]

Withdraw(v) ==
  IF v.outgoing = None THEN v ELSE [v EXCEPT !.pending = @ \ {v.outgoing.req}]

Said(v) == IF v.outgoing = None THEN v ELSE [v EXCEPT !.outgoing.said = TRUE]

\* A status the server said, on a response or on the events stream.
Status(v, s) == [Said(v) EXCEPT !.status = s]

Failed(v) == [Said(Withdraw(v)) EXCEPT !.status = "idle"]

OutOfDate(v) ==
  IF v.expired THEN v ELSE [Said(Withdraw(v)) EXCEPT !.status = "idle", !.expired = TRUE]

GoOut(v, r) ==
  IF reqs[r].path = "start" THEN v
  ELSE [v EXCEPT !.outgoing = [req |-> r, was |-> v.status, said |-> FALSE],
                 !.status = "streaming",
                 !.pending = @ \union (IF reqs[r].path = "chat" THEN {r} ELSE {})]

StillOut(v) ==
  IF v.outgoing = None \/ v.status = "streaming" THEN v
  ELSE [v EXCEPT !.outgoing.was = v.status, !.outgoing.said = FALSE, !.status = "streaming"]

\* Slip: a message nobody confirmed stays in the transcript
LetGoShown(v) ==
  IF v.outgoing = None THEN v
  ELSE [v EXCEPT !.outgoing = None,
          !.status = IF ~v.outgoing.said /\ v.status = "streaming" THEN v.outgoing.was ELSE @]

LetGo(v) ==
  IF v.outgoing = None THEN v
  ELSE [Withdraw(v) EXCEPT !.outgoing = None,
          !.status = IF ~v.outgoing.said /\ v.status = "streaming" THEN v.outgoing.was ELSE @]

Applied(v, f, r) ==
  CASE f = "hello" -> v
    [] f = "streaming" -> Status(v, "streaming")
    [] f = "user" -> [Withdraw(v) EXCEPT !.shown = @ \union {r}]
    [] f = "idle" -> [Status(v, "idle") EXCEPT !.begun = TRUE]
    [] f = "error" -> Failed(v)
    [] f = "expired" -> OutOfDate(v)

\* A request: the generation it was made and last went out in, where it is, the
\* conversation it went to, the server's answer to it and its turn there, whether
\* it counts as sent, and what it resolved to.
NewRequest(path, g) ==
  [path |-> path, gen |-> g, on |-> g, at |-> "queued", to |-> None, ans |-> "none",
   turn |-> "none", tries |-> 0, sent |-> FALSE, res |-> "open"]

NoWake == [n |-> 0, conv |-> None, told |-> FALSE]

-------------------------------------------------------------------------------
(* The events stream.                                                          *)

NoLine == [at |-> "off", frames |-> <<>>, done |-> FALSE]
Dialing == [NoLine EXCEPT !.at = "dial"]

\* listen: once per conversation, and not once the chat is closed.
Listen == IF line.at = "off" /\ ~shut THEN Dialing ELSE line

\* finishRemote, and stopListening with it.
StopListening ==
  /\ line' = NoLine
  /\ remote' = FALSE
  /\ UNCHANGED <<polling, cutOff, showing, seen>>

\* Slip: the wake turn stays on show
TurnedAwayStill(v) ==
  /\ denied' = TRUE
  /\ view' = v
  /\ StopListening

\* unauthorized: a wake turn the stream was showing is given up.
TurnedAway(v) ==
  /\ denied' = TRUE
  /\ view' = [v EXCEPT !.status = IF v.outgoing = None /\ @ = "streaming" THEN "idle" ELSE @]
  /\ StopListening

\* A frame of a wake turn to whoever has a connection open.
Sent(l, f) == IF l.at = "open" /\ ~l.done THEN [l EXCEPT !.frames = Append(@, f)] ELSE l

-------------------------------------------------------------------------------
(* The page: what the user and the clock do.                                   *)

Init ==
  /\ gen = 0 /\ shut = FALSE /\ reqs = <<>> /\ view = NoView /\ conv = None /\ denied = FALSE
  /\ line = NoLine /\ bound \in Bounds /\ polling \in {FALSE, bound.polls}
  /\ remote = FALSE /\ cutOff = FALSE /\ showing = 0 /\ seen = 0
  /\ convs = <<>> /\ holder = <<>> /\ resp = <<>>
  /\ wake = NoWake /\ wakes = 0 /\ ended = {}
  /\ faults = 0 /\ lost = FALSE

\* A click is dropped while any request is open or queued; start does nothing
\* once the conversation has begun (a bound: it is a page's first request).
Enqueue(path) ==
  /\ ~shut /\ ~view.expired /\ Len(reqs) < MaxRequests
  /\ path = "start" => ~view.begun /\ \A r \in DOMAIN reqs : reqs[r].gen # gen
  /\ path = "interact" => conv # None /\ \A r \in DOMAIN reqs : reqs[r].at = "done"
  /\ reqs' = Append(reqs, NewRequest(path, gen))
  /\ UNCHANGED <<chat, events, server, resp, faults, lost>>

Reset ==
  /\ ~shut /\ gen < bound.resets
  /\ gen' = gen + 1
  /\ view' = NoView /\ conv' = None
  /\ line' = NoLine /\ remote' = FALSE /\ cutOff' = FALSE /\ showing' = 0 /\ seen' = 0
  /\ lost' = FALSE
  /\ UNCHANGED <<shut, reqs, denied, polling, server, resp, faults>>

Close ==
  /\ ~shut /\ gen < bound.resets
  /\ shut' = TRUE /\ gen' = gen + 1
  /\ view' = LetGo(view)
  /\ StopListening
  /\ UNCHANGED <<reqs, conv, denied, server, resp, faults, lost>>

Expire ==
  /\ ~shut /\ conv # None /\ ~view.expired
  /\ view' = OutOfDate(view)
  /\ lost' = FALSE
  /\ UNCHANGED <<gen, shut, reqs, conv, denied, events, server, resp, faults>>

Resume ==
  /\ ~shut /\ denied
  /\ denied' = FALSE
  /\ line' = IF conv = None THEN line ELSE Listen
  /\ UNCHANGED <<gen, shut, reqs, view, conv, polling, remote, cutOff, showing, seen,
                 server, resp, faults, lost>>

-------------------------------------------------------------------------------
(* The chain of requests: pump and exchange.                                   *)

\* The request whose turn in the chain it is.
Out(r) == r \in DOMAIN reqs /\ reqs[r].at # "done" /\ \A q \in 1..(r - 1) : reqs[q].at = "done"

Stale(r) == reqs[r].gen # gen
Dropped(r) == Stale(r) \/ view.expired

\* The request goes out, to the conversation the page has now.
Post(r, at, v) ==
  /\ reqs' = [reqs EXCEPT ![r].at = at, ![r].on = gen, ![r].to = conv, ![r].ans = "none"]
  /\ view' = v
  /\ resp' = <<>>

\* The request is over: what it showed and nobody confirmed is undone.
Finish(r, res, v) ==
  /\ reqs' = [reqs EXCEPT ![r].at = "done", ![r].res = res, ![r].sent = FALSE, ![r].tries = 0]
  /\ view' = IF Stale(r) \/ shut THEN v ELSE LetGo(v)
  /\ resp' = <<>>

WaitsFor(r, at) ==
  /\ reqs' = [reqs EXCEPT ![r].at = at]
  /\ UNCHANGED <<view, resp>>

Pump(r) ==
  /\ Out(r) /\ reqs[r].at \in {"queued", "held"}
  /\ reqs[r].at = "held" => ~remote
  /\ \/ Dropped(r) /\ Finish(r, "false", view)
     \/ ~Dropped(r) /\ remote /\ WaitsFor(r, "held")
     \/ ~Dropped(r) /\ ~remote /\ Post(r, "posted", GoOut(view, r))
  /\ UNCHANGED <<gen, shut, conv, denied, events, server, faults, lost>>

\* The 150 ms after a 409 are over, or the wake turn that came meanwhile is.
Retry(r) ==
  /\ Out(r) /\ reqs[r].at \in {"retry", "heldAgain"}
  /\ reqs[r].at = "heldAgain" => ~remote
  /\ \/ Dropped(r) /\ Finish(r, "false", view)
     \/ ~Dropped(r) /\ remote /\ WaitsFor(r, "heldAgain")
     \/ ~Dropped(r) /\ ~remote /\ Post(r, "reposted", StillOut(view))
  /\ UNCHANGED <<gen, shut, conv, denied, events, server, faults, lost>>

\* A wait of the loop that outlasts a wake turn this page lost sight of.
TryOn(r) ==
  /\ Out(r) /\ reqs[r].at = "backoff"
  /\ \/ Dropped(r) /\ Finish(r, "false", view)
     \/ ~Dropped(r) /\ Post(r, "trying", StillOut(view))
  /\ UNCHANGED <<gen, shut, conv, denied, events, server, faults, lost>>

\* Slip: frames of the conversation before reset() are applied to the new one
ReadsOn(r) == Out(r)

\* Its answer and its frames are still the page's business.
Reads(r) == Out(r) /\ ~Stale(r)

Answered(r, ans) == Reads(r) /\ reqs[r].at \in InFlight /\ reqs[r].ans = ans

TriesOn(r) == cutOff /\ reqs[r].at # "posted" /\ reqs[r].tries < MaxTries

Busy(r) ==
  /\ Answered(r, "busy")
  /\ \/ /\ reqs[r].at = "posted"
        /\ WaitsFor(r, "retry")
        /\ lost' = lost
     \/ /\ TriesOn(r)
        /\ reqs' = [reqs EXCEPT ![r].at = "backoff", ![r].tries = @ + 1]
        /\ UNCHANGED <<view, resp, lost>>
     \/ /\ reqs[r].at # "posted" /\ ~TriesOn(r)
        /\ Finish(r, "false", Failed(view))
        /\ lost' = FALSE
  /\ UNCHANGED <<gen, shut, conv, denied, events, server, faults>>

\* Turned away as not signed in: the error, then unauthorized, then settle.
Denied(r) ==
  /\ Answered(r, "denied")
  /\ Finish(r, "false", Failed(view))
  /\ denied' = TRUE
  /\ line' = NoLine /\ remote' = FALSE /\ cutOff' = FALSE
  /\ lost' = FALSE
  /\ UNCHANGED <<gen, shut, conv, polling, showing, seen, server, faults>>

\* Any other error: the server took it up, so it counts as sent.
Errs(r) ==
  /\ Answered(r, "error")
  /\ Finish(r, "true", Failed(view))
  /\ cutOff' = FALSE /\ lost' = FALSE
  /\ UNCHANGED <<gen, shut, conv, denied, line, polling, remote, showing, seen, server, faults>>

TakenUp(r) ==
  /\ Answered(r, "ok")
  /\ reqs' = [reqs EXCEPT ![r].at = "reading", ![r].sent = TRUE]
  /\ cutOff' = FALSE
  /\ denied' = FALSE
  /\ line' = IF denied /\ conv # None THEN Listen ELSE line
  /\ UNCHANGED <<gen, shut, view, conv, polling, remote, showing, seen, server, resp, faults, lost>>

\* Slip: a refusal inside a 200 counts as sent
SentStill(r, f) == reqs[r].sent

\* outcome.sent: refused inside a 200, the server did not take the message.
SentAfter(r, f) == reqs[r].sent /\ f # "expired"

Read(r) ==
  /\ Reads(r) /\ reqs[r].at = "reading" /\ resp # <<>>
  /\ LET f == Head(resp) IN
     IF f = "end" THEN
       /\ Finish(r, IF reqs[r].sent THEN "true" ELSE "false", view)
       /\ UNCHANGED <<conv, line, lost>>
     ELSE
       /\ resp' = Tail(resp)
       /\ view' = Applied(view, f, r)
       /\ reqs' = [reqs EXCEPT ![r].sent = SentAfter(r, f)]
       /\ conv' = IF f = "hello" THEN reqs[r].to ELSE conv
       /\ line' = IF f = "hello" /\ ~denied THEN Listen ELSE line
       /\ lost' = (lost /\ view'.status = "streaming")
  /\ UNCHANGED <<gen, shut, denied, polling, remote, cutOff, showing, seen, server, faults>>

\* reset() or close() aborts what is open: its error is swallowed. An error
\* answer whose body was being read had counted as sent.
Aborted(r) ==
  /\ Out(r) /\ Stale(r) /\ reqs[r].at \in InFlight \union {"reading"}
  /\ \E res \in {IF reqs[r].sent THEN "true" ELSE "false"}
                \union (IF reqs[r].ans = "error" THEN {"true"} ELSE {}) :
       Finish(r, res, view)
  /\ UNCHANGED <<gen, shut, conv, denied, events, server, faults, lost>>

\* The connection fails, before or after the server took the request up.
Cut(r) ==
  /\ Reads(r) /\ reqs[r].at \in InFlight \union {"reading"}
  /\ faults < bound.faults
  /\ faults' = faults + 1
  /\ Finish(r, "failed", view)
  /\ lost' = (view'.status = "streaming"
              /\ (lost \/ view.outgoing = None \/ view.outgoing.said))
  /\ UNCHANGED <<gen, shut, conv, denied, events, server>>

-------------------------------------------------------------------------------
(* The events stream: follow, and what the events route sends.                 *)

\* A stream that joins a running turn is sent what it has shown; a poll also the
\* turns its browser has not seen end, and that none is running.
WakeFrames(n, told) ==
  <<[k |-> "streaming", n |-> n]>> \o (IF told THEN <<[k |-> "idle", n |-> n]>> ELSE <<>>)

Released(n) == [k |-> "released", n |-> n]

Missed(n) == n > seen /\ [n |-> n, conv |-> conv] \in ended

Replay ==
  IF wake.n # 0 /\ wake.conv = conv THEN WakeFrames(wake.n, wake.told)
  ELSE IF polling
    THEN FlattenSeq([n \in 1..wakes |->
           IF Missed(n) THEN WakeFrames(n, TRUE) \o <<Released(n)>> ELSE <<>>]) \o <<Released(0)>>
  ELSE <<>>

Connect ==
  /\ line.at = "dial"
  /\ line' = [at |-> "open", frames |-> Replay, done |-> FALSE]
  /\ UNCHANGED <<chat, reqs, polling, remote, cutOff, showing, seen, server, resp, faults, lost>>

\* The stream's first bytes do not come: something holds it back, so poll.
FallBack ==
  /\ line.at = "dial" /\ ~polling /\ bound.polls
  /\ polling' = TRUE
  /\ UNCHANGED <<chat, reqs, line, remote, cutOff, showing, seen, server, resp, faults, lost>>

Refused ==
  /\ line.at = "dial" /\ faults < bound.faults
  /\ faults' = faults + 1
  /\ TurnedAway(view)
  /\ lost' = ((lost \/ (remote /\ view.outgoing # None)) /\ view'.status = "streaming")
  /\ UNCHANGED <<gen, shut, reqs, conv, server, resp>>

\* followTurn, then apply.
Hear ==
  /\ line.at = "open" /\ line.frames # <<>>
  /\ LET f == Head(line.frames) IN
     /\ line' = IF line.done /\ Len(line.frames) = 1 THEN Dialing
                ELSE [line EXCEPT !.frames = Tail(@)]
     /\ remote' = ((remote \/ f.k = "streaming") /\ f.k # "released")
     /\ showing' = IF f.k = "streaming" THEN f.n ELSE showing
     /\ seen' = IF f.k = "released" /\ showing > seen THEN showing ELSE seen
     /\ view' = IF f.k \in {"streaming", "idle"} THEN Status(view, f.k) ELSE view
     /\ lost' = (lost /\ f.k \notin {"streaming", "idle"})
  /\ UNCHANGED <<gen, shut, reqs, conv, denied, polling, cutOff, server, resp, faults>>

\* Slip: requests wait for a wake turn nothing will say has ended
DropHeld ==
  /\ line.at # "off" /\ faults < bound.faults
  /\ faults' = faults + 1
  /\ line' = Dialing
  /\ UNCHANGED <<chat, reqs, polling, remote, cutOff, showing, seen, server, resp, lost>>

\* The connection drops, or none can be had. A turn cut off with it runs on,
\* and nothing will say when it ends.
Drop ==
  /\ line.at # "off" /\ faults < bound.faults
  /\ faults' = faults + 1
  /\ line' = Dialing
  /\ remote' = FALSE
  /\ cutOff' = (cutOff \/ remote)
  /\ lost' = (lost \/ (remote /\ view.status = "streaming"))
  /\ UNCHANGED <<chat, reqs, polling, showing, seen, server, resp>>

\* A poll ends as polls do: the next one is made once all it said is heard.
PollEnds ==
  /\ polling /\ line.at = "open" /\ ~line.done
  /\ line' = IF line.frames = <<>> THEN Dialing ELSE [line EXCEPT !.done = TRUE]
  /\ UNCHANGED <<chat, reqs, polling, remote, cutOff, showing, seen, server, resp, faults, lost>>

-------------------------------------------------------------------------------
(* The server.                                                                 *)

Waiting(r) == Out(r) /\ reqs[r].at \in InFlight /\ reqs[r].ans = "none"

Answer(r, ans) == reqs' = [reqs EXCEPT ![r].ans = ans]

\* What a request is sent first, and then what its turn is, or that the
\* conversation is out of date and nothing was recorded.
First(r, turn) ==
  (IF reqs[r].path = "interact" THEN <<>> ELSE <<"hello">>)
    \o (IF turn = "refused" THEN <<"expired">>
        ELSE (IF reqs[r].path = "chat" THEN <<"user">> ELSE <<>>) \o <<"streaming">>)

\* The conversation is free, or new, and the request has it.
Takes(r) ==
  /\ Waiting(r)
  /\ \E turn \in {"running", "refused"} :
       /\ IF reqs[r].to = None
          THEN /\ convs' = Append(convs, reqs[r].on)
               /\ holder' = Append(holder, r)
               /\ reqs' = [reqs EXCEPT ![r].ans = "ok", ![r].to = Len(convs) + 1, ![r].turn = turn]
          ELSE /\ holder[reqs[r].to] = None
               /\ convs' = convs
               /\ holder' = [holder EXCEPT ![reqs[r].to] = r]
               /\ reqs' = [reqs EXCEPT ![r].ans = "ok", ![r].turn = turn]
       /\ resp' = First(r, turn)
  /\ UNCHANGED <<chat, events, wake, wakes, ended, faults, lost>>

\* Without an init tool start is answered with an empty stream.
TakesNothing(r) ==
  /\ Waiting(r) /\ reqs[r].path = "start"
  /\ Answer(r, "ok")
  /\ resp' = <<"end">>
  /\ UNCHANGED <<chat, events, server, faults, lost>>

TurnsAway(r) ==
  /\ Waiting(r) /\ reqs[r].to # None /\ holder[reqs[r].to] # None
  /\ Answer(r, "busy")
  /\ UNCHANGED <<chat, events, server, resp, faults, lost>>

NotSignedIn(r) ==
  /\ Waiting(r) /\ faults < bound.faults
  /\ faults' = faults + 1
  /\ Answer(r, "denied")
  /\ UNCHANGED <<chat, events, server, resp, lost>>

ServerError(r) ==
  /\ Waiting(r) /\ faults < bound.faults
  /\ faults' = faults + 1
  /\ Answer(r, "error")
  /\ UNCHANGED <<chat, events, server, resp, lost>>

\* Frames go to a request that still reads them.
Emits(r, fs) == resp' = IF reqs[r].at = "done" THEN resp ELSE resp \o fs

\* What goes on in a conversation the page has left is nothing to it.
Turn(r, from, to) ==
  /\ r \in DOMAIN reqs /\ reqs[r].turn = from /\ convs[reqs[r].to] = gen
  /\ reqs' = [reqs EXCEPT ![r].turn = to]

Says(r) ==
  /\ Turn(r, "running", "told")
  /\ \E f \in {"idle", "error"} : Emits(r, <<f>>)
  /\ UNCHANGED <<chat, events, server, faults, lost>>

\* The last save, which lets the conversation go, and the end of the response.
Ends(r) ==
  /\ \/ Turn(r, "told", "recorded")
     \/ Turn(r, "refused", "unrecorded")
  /\ holder' = [holder EXCEPT ![reqs[r].to] = None]
  /\ Emits(r, <<"end">>)
  /\ UNCHANGED <<chat, events, convs, wake, wakes, ended, faults, lost>>

Delivered(c, f) == line' = IF c = conv THEN Sent(line, f) ELSE line

WakeStarts(c) ==
  /\ wake.n = 0 /\ wakes < MaxWakes
  /\ convs[c] = gen /\ holder[c] = None
  /\ wakes' = wakes + 1
  /\ holder' = [holder EXCEPT ![c] = 0]
  /\ wake' = [n |-> wakes + 1, conv |-> c, told |-> FALSE]
  /\ Delivered(c, [k |-> "streaming", n |-> wakes + 1])
  /\ UNCHANGED <<chat, reqs, polling, remote, cutOff, showing, seen, convs, resp, ended, faults,
                 lost>>

WakeTells ==
  /\ wake.n # 0 /\ ~wake.told
  /\ wake' = [wake EXCEPT !.told = TRUE]
  /\ Delivered(wake.conv, [k |-> "idle", n |-> wake.n])
  /\ UNCHANGED <<chat, reqs, polling, remote, cutOff, showing, seen, convs, holder, resp, wakes,
                 ended, faults, lost>>

WakeEnds ==
  /\ wake.n # 0 /\ wake.told
  /\ holder' = [holder EXCEPT ![wake.conv] = None]
  /\ ended' = ended \union {[n |-> wake.n, conv |-> wake.conv]}
  /\ Delivered(wake.conv, Released(wake.n))
  /\ wake' = NoWake
  /\ UNCHANGED <<chat, reqs, polling, remote, cutOff, showing, seen, convs, resp, wakes, faults,
                 lost>>

-------------------------------------------------------------------------------
Progress(r) ==
  \/ Pump(r) \/ Retry(r) \/ TryOn(r) \/ Busy(r) \/ Denied(r) \/ Errs(r) \/ TakenUp(r) \/ Read(r)
  \/ Aborted(r)

Service(r) ==
  \/ Takes(r) \/ TakesNothing(r) \/ TurnsAway(r) \/ NotSignedIn(r) \/ ServerError(r)
  \/ Says(r) \/ Ends(r)

WakeGoesOn == WakeTells \/ WakeEnds

Next ==
  /\ UNCHANGED bound
  /\ \/ \E path \in Paths : Enqueue(path)
     \/ Reset \/ Close \/ Expire \/ Resume
     \/ \E r \in DOMAIN reqs : Progress(r) \/ Cut(r) \/ Service(r)
     \/ Connect \/ FallBack \/ Refused \/ Hear \/ Drop \/ PollEnds
     \/ \E c \in DOMAIN convs : WakeStarts(c)
     \/ WakeGoesOn

Spec == Init /\ [][Next]_vars
-------------------------------------------------------------------------------
Request == [path : Paths, gen : Nat, on : Nat, at : Places, to : {None} \union Nat,
            ans : {"none", "ok", "busy", "denied", "error"},
            turn : {"none", "running", "told", "recorded", "refused", "unrecorded"},
            tries : 0..MaxTries, sent : BOOLEAN, res : {"open", "true", "false", "failed"}]

TypeOK ==
  /\ bound \in Bounds
  /\ gen \in 0..bound.resets /\ shut \in BOOLEAN /\ reqs \in Seq(Request)
  /\ view.status \in {"idle", "streaming"} /\ view.expired \in BOOLEAN /\ view.begun \in BOOLEAN
  /\ view.pending \subseteq DOMAIN reqs /\ view.shown \subseteq DOMAIN reqs
  /\ view.outgoing # None => view.outgoing.req \in DOMAIN reqs
  /\ conv \in {None} \union DOMAIN convs /\ denied \in BOOLEAN
  /\ line.at \in {"off", "dial", "open"} /\ line.done \in BOOLEAN
  /\ polling \in BOOLEAN /\ remote \in BOOLEAN /\ cutOff \in BOOLEAN /\ lost \in BOOLEAN
  /\ {showing, seen, wakes, wake.n} \subseteq 0..MaxWakes
  /\ resp \in Seq(Frames) /\ Len(holder) = Len(convs)

\* The promise of `send` tells the truth while the conversation is the page's:
\* false only if the server recorded nothing of the message, so that a caller
\* may give the text back, and true only once it answered for itself.
\* (exchange's `outcome.sent`, the 409 retries and the refusal inside a 200)
SendTellsTruth ==
  \A r \in DOMAIN reqs :
    reqs[r].gen = gen =>
      /\ reqs[r].res = "false" => reqs[r].turn \in {"none", "refused", "unrecorded"}
      /\ reqs[r].res = "true" =>
           reqs[r].ans \in {"ok", "error"} /\ reqs[r].turn \notin {"refused", "unrecorded"}

\* What was made for one conversation is never sent to another, nor begins one:
\* not by a retry, nor by a request that waited behind a wake turn while reset()
\* came; and what the server says of an old conversation never makes it the
\* page's again. (pump's and exchange's looks at the generation)
ReachesItsConversation ==
  /\ \A r \in DOMAIN reqs :
       reqs[r].on = reqs[r].gen /\ (reqs[r].to # None => convs[reqs[r].to] = reqs[r].gen)
  /\ conv # None /\ ~shut => convs[conv] = gen

\* A message shows as pending only while its own request is out, and never
\* beside the server's copy of it. (goOut, withdraw, settle, reset, close)
PendingIsOut ==
  /\ \A r \in view.pending : view.outgoing # None /\ view.outgoing.req = r
  /\ view.pending \intersect view.shown = {}
  /\ view.outgoing # None => reqs[view.outgoing.req].at # "done" /\ ~shut

\* `streaming` shows only while a request is out or a wake turn shows, unless
\* the end of the turn that showed it was lost with its connection. (the state
\* every request and every wake turn leaves `status` in)
StreamingMeansBusy ==
  view.status = "streaming" /\ ~shut =>
    \/ remote \/ lost
    \/ \E r \in DOMAIN reqs :
         /\ reqs[r].gen = gen
         /\ reqs[r].at \in InFlight \union {"held", "retry", "heldAgain", "backoff", "reading"}

\* Requests are held by a wake turn only while word of its end is on its way or
\* will be: the page is still connected to where it will be sent, or polls for
\* it. (follow's drops, refusals and polls; finishRemote)
HeldOnlyWhileTold ==
  remote =>
    \/ line.at = "open" /\ \E i \in DOMAIN line.frames : line.frames[i].k = "released"
    \/ line.at = "open" /\ ~line.done /\ wake.n # 0 /\ wake.conv = conv
    \/ polling /\ (line.at = "dial" \/ line.done)

\* Once a wake turn is over and the page listens again, the page does not show
\* it as running for ever: nothing else is under way or on its way, and every
\* request was answered to its end. (streamNotices on a stream that reconnects)
StreamingEnds ==
  ~ /\ view.status = "streaming" /\ ~remote /\ ~shut
    /\ line.at = "open" /\ line.frames = <<>>
    /\ wake.n = 0 /\ \A r \in DOMAIN reqs : reqs[r].res \in {"true", "false"}
===============================================================================
