------------------------------- MODULE Turns -------------------------------
(***************************************************************************)
(* One conversation and the requests that work on it: typed messages,      *)
(* clicks, starts, hai.update revisions and wake turns, of any number of   *)
(* server processes sharing a store.                                       *)
(*                                                                         *)
(* A request takes the conversation's lease, works on its own copy of the  *)
(* row, and saves it back under its token; the lease may lapse under it,   *)
(* or the process may die, at any step.  ConversationLease says what that  *)
(* protocol gives for any contents.  This module is about the contents:    *)
(* the history the model is sent, the question the user is asked, the      *)
(* surfaces that were revised, and the notices the model has still to      *)
(* hear.  Steps are split where the code awaits something another request  *)
(* can see.                                                                *)
(***************************************************************************)
EXTENDS Naturals, Sequences, SequencesExt

CONSTANTS
  Request,      \* the requests, wakes and updates that may be under way
  Setups,       \* the apps and bounds to choose from: see Setup
  None

AllKinds == {"chat", "start", "click", "update", "wake"}

\* kinds: which requests arrive. hasInit: the app has an init tool. readFails:
\* the read that ends a turn (emitContext) may fail. maxHops: model calls in a
\* turn. maxWakes: maxWakes.count. Bounds: tokens, leases taken; handles,
\* surfaces stored; notices stored; calls, tool calls in one reply.
Setup ==
  [kinds : SUBSET AllKinds, hasInit : BOOLEAN, readFails : BOOLEAN, maxHops : Nat, maxWakes : Nat,
   tokens : Nat, handles : Nat, notices : Nat, calls : Nat]

\* None is none of what it stands in for.
ASSUME TurnsAssumption ==
  /\ Setups \subseteq Setup
  /\ None \notin Seq(Nat)
  /\ None \notin [wake : BOOLEAN, handle : Nat, replaces : Nat]
  /\ None \notin [call : Nat, handle : Nat]
  /\ None \notin [call : Nat, results : SUBSET (Nat \X Nat), handle : Nat]

VARIABLES
  setup,      \* the behaviour's app and bounds
  row,        \* the conversation as stored, with its token and lease
  notices,    \* the notices stored, in seq order
  handleSeq,  \* the last handle given out
  req,        \* what each request is doing, and its copy of the row
  wakeRuns    \* history: <<wake notice, token>> of wake turns a tool ran in

vars == <<setup, row, notices, handleSeq, req, wakeRuns>>

Kinds     == setup.kinds
HasInit   == setup.hasInit
ReadFails == setup.readFails
MaxHops   == setup.maxHops
MaxWakes  == setup.maxWakes
MaxToken  == setup.tokens
MaxHandle == setup.handles
MaxNotice == setup.notices
MaxCalls  == setup.calls

Call   == 1 .. MaxCalls
Handle == 1 .. MaxHandle
Notice == 1 .. MaxNotice
Token  == 0 .. MaxToken

-----------------------------------------------------------------------------
(* The conversation.  A user message holds tool results, each a pair of the *)
(* call it answers and the surface that answer settles (0: none), and the   *)
(* notices quoted in it.  What the user typed is left out.                  *)

User(results, quoted) == [role |-> "user", results |-> results, quoted |-> quoted]
Assistant(calls) == [role |-> "assistant", calls |-> calls]

NewConversation ==
  [status |-> "idle", msgs |-> <<>>, handles |-> {}, frozen |-> {},
   superseded |-> {}, pending |-> None, noticed |-> 0, woke |-> 0,
   wakeTurns |-> 0, announcing |-> None]

Push(c, msg) == [c EXCEPT !.msgs = Append(@, msg)]

\* superseded: [old, new, outside], outside telling hai.update from ctx.update
Superseded(c) == {s.old : s \in c.superseded}

\* The latest revision of a surface.
CurrentHandle(c, h) ==
  LET next(x) == (CHOOSE s \in c.superseded : s.old = x).new
      at[x \in Handle] == IF x \in Superseded(c) THEN at[next(x)] ELSE x
  IN  at[h]

\* A surface still there to be revised.
Revisable(c, h) == h \in c.handles /\ h \notin c.frozen /\ h \notin Superseded(c)

Shown(c, h) == [c EXCEPT !.handles = @ \union {h}]

Revised(c, old, new, outside) ==
  [Shown(c, new) EXCEPT
     !.superseded = @ \union {[old |-> old, new |-> new, outside |-> outside]}]

\* A question waiting on the surface waits on its revision.
QuestionMoved(c, old, new) ==
  IF c.pending # None /\ c.pending.handle = old
  THEN [c EXCEPT !.pending.handle = new]
  ELSE c

\* Slip: the answer goes out without its sibling calls' results.
AnsweredAlone(c, quoted) ==
  [Push(c, User({<<c.pending.call, c.pending.handle>>}, quoted)) EXCEPT
     !.frozen = @ \union {c.pending.handle}, !.pending = None]

\* The pending question is closed: its surface frozen, and every call of the
\* reply that asked it given its result in one message.
Answered(c, quoted) ==
  LET p == c.pending
  IN  [Push(c, User(p.results \union {<<p.call, p.handle>>}, quoted)) EXCEPT
         !.frozen = @ \union {p.handle}, !.pending = None]

-----------------------------------------------------------------------------
(* Notices.  An app notice has no surface; an update notice names the       *)
(* revision and what it replaces.                                           *)

\* Asking to wake makes a difference only where wake turns arrive.
AsksToWake == {FALSE, "wake" \in Kinds}

AppNotice(wake) == [wake |-> wake, handle |-> 0, replaces |-> 0]
UpdateNotice(old, new, wake) == [wake |-> wake, handle |-> new, replaces |-> old]

\* unreadNotices: their numbers in order, and the newest wake notice's.
Unread(c) == [i \in 1 .. Len(notices) - c.noticed |-> c.noticed + i]
UnreadWakes(c) == {n \in (c.noticed + 1) .. Len(notices) : notices[n].wake}
NewestWake(c) ==
  IF UnreadWakes(c) = {} THEN 0
  ELSE CHOOSE n \in UnreadWakes(c) : \A m \in UnreadWakes(c) : m <= n

\* A user message is recorded with every unread notice in it.
TakenIn(c, through) == [c EXCEPT !.noticed = through]

-----------------------------------------------------------------------------
(* Requests.  c is the copy of the row and before what a failure puts back. *)
(* A turn also keeps the hop it is at, how many calls its reply has, the    *)
(* one being run, the results so far, the surface this reply asks on        *)
(* (asking), the one this call did (asked), and the call that parked it.    *)

Fresh == [pc |-> "off", kind |-> "none", token |-> 0, c |-> NewConversation,
          before |-> None, hop |-> 0, call |-> 0, calls |-> 0, results |-> {},
          asking |-> 0, asked |-> 0, parked |-> None, init |-> None,
          ran |-> FALSE, wakes |-> {}]

Running(r) == req[r].pc # "off"

\* The store's compare-and-set: no write lands without the row's own token.
Fence(r) == req[r].token = row.token

\* What saveConversation writes: the copy, and the lease as given.
Saved(q, held) == [c |-> q.c, token |-> q.token, held |-> held]

Become(r, q) == req' = [req EXCEPT ![r] = q]
Copy(r, pc, c) == Become(r, [req[r] EXCEPT !.pc = pc, !.c = c])
Stop(r) == Become(r, Fresh)
\* All that is left to do is the save that lets the conversation go.
Finish(r, c) ==
  Become(r, [Fresh EXCEPT !.pc = "end", !.kind = req[r].kind,
                          !.token = req[r].token, !.c = c])

Init ==
  /\ setup \in Setups
  /\ row = [c |-> NewConversation, token |-> 0, held |-> FALSE]
  /\ notices = <<>>
  /\ handleSeq = 0
  /\ req = [r \in Request |-> Fresh]
  /\ wakeRuns = {}

-----------------------------------------------------------------------------
(* Taking the conversation                                                  *)

\* loadConversation, refused while a lease is unexpired.  Only a chat or a
\* start brings a conversation into being.  A start does nothing once the
\* conversation has begun, and announces nothing either.
Load(r, kind) ==
  /\ ~Running(r)
  /\ kind \in Kinds
  /\ kind = "start" => HasInit
  /\ row.token = 0 => kind \in {"chat", "start"}
  /\ ~row.held
  /\ row.token < MaxToken
  /\ row' = [row EXCEPT !.token = @ + 1, !.held = TRUE]
  /\ Become(r, [Fresh EXCEPT
       !.kind = kind, !.token = row.token + 1, !.c = row.c,
       !.pc = CASE kind = "start" /\ row.c.msgs # <<>> -> "end"
                [] row.c.announcing # None             -> "announce"
                [] OTHER                               -> "begin"])
  /\ UNCHANGED <<setup, notices, handleSeq, wakeRuns>>

\* Slip: what is owed waits for another request.
AnnounceLater(r) ==
  /\ req[r].pc = "announce"
  /\ Copy(r, "begin", req[r].c)
  /\ UNCHANGED <<setup, row, notices, handleSeq, wakeRuns>>

\* announce: is the update notice this conversation owes among the unread?
Announce(r) ==
  LET c == req[r].c
      told == \E n \in (c.noticed + 1) .. Len(notices) :
                /\ notices[n].handle = c.announcing.handle
                /\ notices[n].replaces = c.announcing.replaces
  IN  /\ req[r].pc = "announce"
      /\ IF told THEN Copy(r, "begin", [c EXCEPT !.announcing = None])
                 ELSE Copy(r, "append", c)
      /\ UNCHANGED <<setup, row, notices, handleSeq, wakeRuns>>

\* ... and if it is not, append it, fenced by nothing; a failure ends the
\* request with the notice still owed.
AppendOwed(r) ==
  /\ req[r].pc = "append"
  /\ \/ /\ Len(notices) < MaxNotice
        /\ notices' = Append(notices, req[r].c.announcing)
        /\ Copy(r, "begin", [req[r].c EXCEPT !.announcing = None])
     \/ /\ Finish(r, req[r].c)
        /\ UNCHANGED notices
  /\ UNCHANGED <<setup, row, handleSeq, wakeRuns>>

\* Nothing has been recorded yet, and the request is refused (refuseIfExpired,
\* a click's gates and its handler, an update's checks, a wake with nothing to
\* wake for), or a read it needed failed.
Refuse(r) ==
  /\ req[r].pc \in {"announce", "begin"}
  /\ Finish(r, req[r].c)
  /\ UNCHANGED <<setup, row, notices, handleSeq, wakeRuns>>

-----------------------------------------------------------------------------
(* A typed message, and a start                                             *)

\* send: close the question out, take the unread notices in, go to the model;
\* or, for the message that starts the conversation, run init first.
SendMessage(r) ==
  LET c == req[r].c
      closed == IF c.status = "awaiting" /\ c.pending # None
                THEN Answered(c, <<>>) ELSE c
  IN  /\ req[r].pc = "begin"
      /\ req[r].kind = "chat"
      /\ ~(HasInit /\ c.msgs = <<>>)
      /\ Become(r, [req[r] EXCEPT
           !.pc = "model", !.hop = 1,
           !.c = [TakenIn(Push(closed, User({}, Unread(c))), Len(notices))
                    EXCEPT !.status = "streaming"]])
      /\ UNCHANGED <<setup, row, notices, handleSeq, wakeRuns>>

\* runInit's call.  The message waits outside the history, with the notices
\* it quotes, until the tool has succeeded.
CallInit(r) ==
  /\ req[r].pc = "begin"
  /\ req[r].kind \in {"chat", "start"}
  /\ HasInit /\ req[r].c.msgs = <<>>
  /\ Become(r, [req[r] EXCEPT
       !.pc = "tool", !.call = 1, !.calls = 1, !.before = req[r].c,
       !.init = Unread(req[r].c), !.ran = TRUE, !.c.status = "streaming"])
  /\ UNCHANGED <<setup, row, notices, handleSeq, wakeRuns>>

\* The tool failed: handles and status go back, superseded does not.
InitFails(r) ==
  /\ req[r].pc = "tool"
  /\ req[r].init # None
  /\ Finish(r, [req[r].c EXCEPT !.handles = req[r].before.handles,
                                     !.status = req[r].before.status])
  /\ UNCHANGED <<setup, row, notices, handleSeq, wakeRuns>>

\* It succeeded, and either waits on the surface it asked with, or commits.
InitReturns(r) ==
  LET q == req[r]
      begun == Push(TakenIn(Push(q.c, User({}, q.init)), q.c.noticed + Len(q.init)),
                    Assistant({1}))
  IN  /\ q.pc = "tool"
      /\ q.init # None
      /\ IF q.asked # 0
         THEN Copy(r, "context",
                [begun EXCEPT !.status = "awaiting",
                   !.pending = [call |-> 1, results |-> {},
                                handle |-> CurrentHandle(q.c, q.asked)]])
         ELSE Copy(r, "commit", Push(begun, User({<<1, 0>>}, <<>>)))
      /\ UNCHANGED <<setup, row, notices, handleSeq, wakeRuns>>

-----------------------------------------------------------------------------
(* A click                                                                  *)

\* interact, from its gates to the record it is about to commit.  A resolve
\* answers the question the turn waits on and nothing else; an inform adds a
\* message, and only while no turn waits.  The handler has succeeded; the
\* unread notices are read after it.
Click(r, h) ==
  LET c == req[r].c
      live == Revisable(c, h)
      resolve == Answered(c, Unread(c))
      inform == Push(c, User({}, Unread(c)))
  IN  /\ req[r].pc = "begin"
      /\ req[r].kind = "click"
      /\ live
      /\ \/ /\ c.pending # None /\ c.pending.handle = h
            /\ Become(r, [req[r] EXCEPT !.pc = "commit", !.before = c,
                 !.c = [TakenIn(resolve, Len(notices)) EXCEPT !.status = "idle"]])
         \/ /\ c.pending = None
            /\ Become(r, [req[r] EXCEPT !.pc = "commit", !.before = c,
                 !.c = TakenIn(inform, Len(notices))])
      /\ UNCHANGED <<setup, row, notices, handleSeq, wakeRuns>>

-----------------------------------------------------------------------------
(* hai.update                                                               *)

\* Slip: the notice goes out before the revision is saved.
ReviseToldFirst(r, h, wake) ==
  LET c == req[r].c
      old == CurrentHandle(c, h)
      new == handleSeq + 1
  IN  /\ req[r].pc = "begin"
      /\ req[r].kind = "update"
      /\ h \in c.handles
      /\ old \notin c.frozen
      /\ Fence(r)
      /\ handleSeq < MaxHandle
      /\ Len(notices) < MaxNotice
      /\ handleSeq' = new
      /\ notices' = Append(notices, UpdateNotice(old, new, wake))
      /\ Copy(r, "commit", QuestionMoved(Revised(c, old, new, TRUE), old, new))
      /\ UNCHANGED <<setup, row, wakeRuns>>

\* reviseHeld up to its save: the surface as it is now is revised under the
\* fence, and the notice it owes is put on the same row.
Revise(r, h, wake) ==
  LET c == req[r].c
      old == CurrentHandle(c, h)
      new == handleSeq + 1
      revised == QuestionMoved(Revised(c, old, new, TRUE), old, new)
  IN  /\ req[r].pc = "begin"
      /\ req[r].kind = "update"
      /\ h \in c.handles
      /\ old \notin c.frozen
      /\ Fence(r)
      /\ handleSeq < MaxHandle
      /\ handleSeq' = new
      /\ Copy(r, "commit", [revised EXCEPT !.announcing = UpdateNotice(old, new, wake)])
      /\ UNCHANGED <<setup, row, notices, wakeRuns>>

\* The revision is saved; its notice is appended, or stays owed.
Tell(r) ==
  /\ req[r].pc = "tell"
  /\ \/ /\ Len(notices) < MaxNotice
        /\ notices' = Append(notices, req[r].c.announcing)
        /\ Finish(r, [req[r].c EXCEPT !.announcing = None])
     \/ /\ Finish(r, req[r].c)
        /\ UNCHANGED notices
  /\ UNCHANGED <<setup, row, handleSeq, wakeRuns>>

-----------------------------------------------------------------------------
(* A wake turn                                                              *)

\* A turn may start: not before the conversation has begun, not while a
\* question waits, and only for wake notices that have never started one.
MayWake(c) == c.msgs # <<>> /\ c.status # "awaiting" /\ NewestWake(c) > c.woke

\* wakeTurn, up to its commit.
Wake(r) ==
  LET c == req[r].c
      woken == [c EXCEPT !.woke = NewestWake(c), !.wakeTurns = @ + 1]
  IN  /\ req[r].pc = "begin"
      /\ req[r].kind = "wake"
      /\ MayWake(c)
      /\ Become(r, [req[r] EXCEPT
           !.pc = "commit", !.before = c,
           !.wakes = {n \in UnreadWakes(c) : n > c.woke},
           !.c = TakenIn(Push(woken, User({}, Unread(c))), Len(notices))])
      /\ UNCHANGED <<setup, row, notices, handleSeq, wakeRuns>>

\* Past maxWakes these notices never start a turn again.  How many of the
\* turns so far are recent is a matter of time.
WakeLimited(r) ==
  /\ req[r].pc = "begin"
  /\ req[r].kind = "wake"
  /\ MayWake(req[r].c)
  /\ req[r].c.wakeTurns >= MaxWakes
  /\ Finish(r, [req[r].c EXCEPT !.woke = NewestWake(req[r].c)])
  /\ UNCHANGED <<setup, row, notices, handleSeq, wakeRuns>>

\* Slips: every failed turn is undone, or its notices are not given back.
WakeUndone(q) == [q.before EXCEPT !.wakeTurns = q.c.wakeTurns, !.pending = None]
WakeNotGivenBack(q) ==
  IF q.ran THEN [q.c EXCEPT !.status = "idle"]
  ELSE [q.before EXCEPT !.wakeTurns = q.c.wakeTurns, !.pending = None,
                        !.noticed = q.c.noticed]

\* What wakeTurn's catch makes of the copy: kept and closed once a tool has
\* run, put back as it was before any has.  The turn still counts.
WakeFailed(q) ==
  IF q.ran THEN [q.c EXCEPT !.status = "idle"]
  ELSE [q.before EXCEPT !.wakeTurns = q.c.wakeTurns, !.pending = None]

-----------------------------------------------------------------------------
(* The commit before the model runs.  Where the code goes from here depends *)
(* on whose commit it is.                                                   *)

CommitLands(r) ==
  LET q == req[r]
  IN  /\ q.pc = "commit"
      /\ Fence(r)
      /\ row' = Saved(q, row.held)
      /\ CASE q.kind = "update" -> Copy(r, "tell", q.c)
           [] q.kind = "start"  -> Copy(r, "context", [q.c EXCEPT !.status = "idle"])
           [] OTHER -> Become(r, [q EXCEPT !.pc = "model", !.hop = 1, !.init = None,
                                           !.c.status = "streaming"])
      /\ UNCHANGED <<setup, notices, handleSeq, wakeRuns>>

\* Slips: undoing a click leaves its surface frozen, or drops the question.
UndoneButFrozen(q) ==
  IF q.kind = "click" THEN [q.before EXCEPT !.frozen = q.c.frozen] ELSE q.c
UndoneButQuestion(q) ==
  IF q.kind = "click" THEN [q.before EXCEPT !.pending = None] ELSE q.c

\* A click and a wake turn are undone; what an update or an init did stays in
\* the copy, for the save that lets the conversation go.
Undone(q) ==
  CASE q.kind = "click" -> q.before
    [] q.kind = "wake"  -> WakeFailed(q)
    [] OTHER            -> q.c

\* The save failed, having landed or not.
CommitFails(r) ==
  /\ req[r].pc = "commit"
  /\ \/ Fence(r) /\ row' = Saved(req[r], row.held)
     \/ UNCHANGED row
  /\ Finish(r, Undone(req[r]))
  /\ UNCHANGED <<setup, notices, handleSeq, wakeRuns>>

-----------------------------------------------------------------------------
(* runTurn: the model's replies and the tool calls in them                  *)

\* generate throws.  A wake turn is put back or closed; a chat turn stays as
\* it is, and the next message follows it.
ModelFails(r) ==
  /\ req[r].pc = "model"
  /\ Finish(r, IF req[r].kind = "wake" THEN WakeFailed(req[r]) ELSE req[r].c)
  /\ UNCHANGED <<setup, row, notices, handleSeq, wakeRuns>>

\* A reply with no call to make ends the turn.
ModelAnswers(r) ==
  /\ req[r].pc = "model"
  /\ Copy(r, "context", [Push(req[r].c, Assistant({})) EXCEPT !.status = "idle"])
  /\ UNCHANGED <<setup, row, notices, handleSeq, wakeRuns>>

\* The turn goes on to the model's next reply, or stops at maxHops.
NextHop(q, c) ==
  IF q.hop < MaxHops
  THEN [q EXCEPT !.pc = "model", !.hop = @ + 1, !.c = c,
          !.call = 0, !.calls = 0, !.results = {}, !.asking = 0, !.parked = None]
  ELSE [q EXCEPT !.pc = "context", !.c = [c EXCEPT !.status = "idle"]]

\* A reply cut short part way through its calls: none runs, each is told why.
ModelCutShort(r, n) ==
  LET c == Push(req[r].c, Assistant(1 .. n))
  IN  /\ req[r].pc = "model"
      /\ Become(r, NextHop(req[r], Push(c, User((1 .. n) \X {0}, <<>>))))
      /\ UNCHANGED <<setup, row, notices, handleSeq, wakeRuns>>

ModelCalls(r, n) ==
  /\ req[r].pc = "model"
  /\ Become(r, [req[r] EXCEPT !.pc = "tool", !.call = 1, !.calls = n,
                              !.c = Push(@, Assistant(1 .. n))])
  /\ UNCHANGED <<setup, row, notices, handleSeq, wakeRuns>>

\* A tool runs: from here on a wake turn is kept, not undone.
Ran(r) == [req[r] EXCEPT !.ran = TRUE]
NoteRun(r) == wakeRuns' = wakeRuns \union (req[r].wakes \X {req[r].token})

\* render: a surface shown, asking or not.  A second question in one reply is
\* refused, and nothing comes of it.
ToolShows(r, asks) ==
  LET h == handleSeq + 1
      shown == [Ran(r) EXCEPT !.c = Shown(@, h)]
  IN  /\ req[r].pc = "tool"
      /\ asks => req[r].asking = 0
      /\ Fence(r)
      /\ handleSeq < MaxHandle
      /\ handleSeq' = h
      /\ Become(r, IF asks THEN [shown EXCEPT !.asking = h, !.asked = h] ELSE shown)
      /\ NoteRun(r)
      /\ UNCHANGED <<setup, row, notices>>

\* ctx.update: the question this reply asks moves with the surface it is on.
ToolRevises(r, old) ==
  LET q == Ran(r)
      new == handleSeq + 1
      moved(h) == IF h = old THEN new ELSE h
  IN  /\ q.pc = "tool"
      /\ Revisable(q.c, old)
      /\ Fence(r)
      /\ handleSeq < MaxHandle
      /\ handleSeq' = new
      /\ Become(r, [q EXCEPT !.c = Revised(@, old, new, FALSE),
                             !.asking = moved(@), !.asked = moved(@)])
      /\ NoteRun(r)
      /\ UNCHANGED <<setup, row, notices>>

\* A lost lease is thrown out of the tool and out of the turn.
ToolOvertaken(r) ==
  /\ req[r].pc = "tool"
  /\ ~Fence(r)
  /\ Stop(r)
  /\ NoteRun(r)
  /\ UNCHANGED <<setup, row, notices, handleSeq>>

\* Slip: the turn parks on the surface as it was asked, not as it is now.
CallDoneUnmoved(q) ==
  IF q.call < q.calls
  THEN [q EXCEPT !.call = @ + 1, !.asked = 0]
  ELSE IF q.parked # None
  THEN [q EXCEPT !.pc = "context", !.asked = 0,
          !.c.status = "awaiting",
          !.c.pending = [call |-> q.parked.call, results |-> q.results,
                         handle |-> q.parked.handle]]
  ELSE NextHop([q EXCEPT !.asked = 0], Push(q.c, User(q.results, <<>>)))

\* The reply's next call; after its last, the turn parks on the question asked,
\* at its latest revision and holding the other results, or goes on.
CallDone(q) ==
  IF q.call < q.calls
  THEN [q EXCEPT !.call = @ + 1, !.asked = 0]
  ELSE IF q.parked # None
  THEN [q EXCEPT !.pc = "context", !.asked = 0,
          !.c.status = "awaiting",
          !.c.pending = [call |-> q.parked.call, results |-> q.results,
                         handle |-> CurrentHandle(q.c, q.parked.handle)]]
  ELSE NextHop([q EXCEPT !.asked = 0], Push(q.c, User(q.results, <<>>)))

\* An unknown tool, init called again, or input that does not parse.
ToolSkipped(r) ==
  /\ req[r].pc = "tool" /\ req[r].init = None
  /\ req[r].asked = 0
  /\ Become(r, CallDone([req[r] EXCEPT !.results = @ \union {<<req[r].call, 0>>}]))
  /\ UNCHANGED <<setup, row, notices, handleSeq, wakeRuns>>

ToolReturns(r) ==
  LET q == Ran(r)
      park == [q EXCEPT !.parked = [call |-> q.call, handle |-> q.asked]]
      result == [q EXCEPT !.results = @ \union {<<q.call, 0>>}]
  IN  /\ q.pc = "tool" /\ q.init = None
      /\ Become(r, CallDone(IF q.asked # 0 THEN park ELSE result))
      /\ NoteRun(r)
      /\ UNCHANGED <<setup, row, notices, handleSeq>>

\* A question the tool showed before it failed is withdrawn with it, and
\* another call of this reply may ask.
ToolFails(r) ==
  LET q == Ran(r)
      result == [q EXCEPT !.results = @ \union {<<q.call, q.asked>>}]
      withdrawn == [result EXCEPT !.c.frozen = @ \union {q.asked}, !.asking = 0]
  IN  /\ q.pc = "tool" /\ q.init = None
      /\ q.asked # 0
      /\ Become(r, CallDone(withdrawn))
      /\ NoteRun(r)
      /\ UNCHANGED <<setup, row, notices, handleSeq>>

\* emitContext's read, the last thing a turn does, and what its failing does.
ReadContext(r) ==
  /\ req[r].pc = "context"
  /\ Finish(r, req[r].c)
  /\ UNCHANGED <<setup, row, notices, handleSeq, wakeRuns>>

ContextFails(r) ==
  /\ ReadFails
  /\ req[r].pc = "context"
  /\ Finish(r, IF req[r].kind = "wake" THEN WakeFailed(req[r]) ELSE req[r].c)
  /\ UNCHANGED <<setup, row, notices, handleSeq, wakeRuns>>

-----------------------------------------------------------------------------
(* Letting go, and being cut off                                            *)

Release(r) ==
  /\ req[r].pc = "end"
  /\ Fence(r)
  /\ row' = Saved(req[r], FALSE)
  /\ Stop(r)
  /\ UNCHANGED <<setup, notices, handleSeq, wakeRuns>>

\* StaleLease from a save, or from an update's payload: nothing more is saved.
Overtaken(r) ==
  /\ req[r].pc \in {"commit", "end"} \/ (req[r].pc = "begin" /\ req[r].kind = "update")
  /\ ~Fence(r)
  /\ Stop(r)
  /\ UNCHANGED <<setup, row, notices, handleSeq, wakeRuns>>

\* The process dies, or the last save fails without landing.
Crash(r) ==
  /\ Running(r)
  /\ Stop(r)
  /\ IF req[r].pc = "tool" THEN NoteRun(r) ELSE UNCHANGED wakeRuns
  /\ UNCHANGED <<setup, row, notices, handleSeq>>

\* Time: the lease runs out, whoever holds it. It is of no account until another
\* request could take it.
Lapse ==
  /\ row.held
  /\ row.token < MaxToken /\ \E r \in Request : ~Running(r)
  /\ row' = [row EXCEPT !.held = FALSE]
  /\ UNCHANGED <<setup, notices, handleSeq, req, wakeRuns>>

\* hai.notify, which takes no lease.
Notify(wake) ==
  /\ row.token > 0
  /\ Len(notices) < MaxNotice
  /\ notices' = Append(notices, AppNotice(wake))
  /\ UNCHANGED <<setup, row, handleSeq, req, wakeRuns>>

Next ==
  \/ \E r \in Request :
       \/ \E kind \in AllKinds : Load(r, kind)
       \/ Announce(r)
       \/ AppendOwed(r)
       \/ Refuse(r)
       \/ SendMessage(r)
       \/ CallInit(r)
       \/ InitFails(r)
       \/ InitReturns(r)
       \/ \E h \in Handle : Click(r, h)
       \/ \E h \in Handle, wake \in AsksToWake : Revise(r, h, wake)
       \/ Tell(r)
       \/ Wake(r)
       \/ WakeLimited(r)
       \/ CommitLands(r)
       \/ CommitFails(r)
       \/ ModelFails(r)
       \/ ModelAnswers(r)
       \/ \E n \in Call : ModelCutShort(r, n)
       \/ \E n \in Call : ModelCalls(r, n)
       \/ \E asks \in BOOLEAN : ToolShows(r, asks)
       \/ \E h \in Handle : ToolRevises(r, h)
       \/ ToolOvertaken(r)
       \/ ToolSkipped(r)
       \/ ToolReturns(r)
       \/ ToolFails(r)
       \/ ReadContext(r)
       \/ ContextFails(r)
       \/ Release(r)
       \/ Overtaken(r)
       \/ Crash(r)
  \/ Lapse
  \/ \E wake \in AsksToWake : Notify(wake)

Spec == Init /\ [][Next]_vars

-----------------------------------------------------------------------------
(* Properties *)

Status == {"idle", "streaming", "awaiting"}

Results == SUBSET (Call \X (0 .. MaxHandle))

Pending == [call : Call, results : Results, handle : Handle]

Owed == [wake : BOOLEAN, handle : 0 .. MaxHandle, replaces : 0 .. MaxHandle]

IsMessage(m) ==
  \/ m.role = "user" /\ m.results \in Results /\ m.quoted \in Seq(Notice)
  \/ m.role = "assistant" /\ m.calls \in SUBSET Call

IsConversation(c) ==
  /\ c.status \in Status
  /\ \A i \in 1 .. Len(c.msgs) : IsMessage(c.msgs[i])
  /\ c.handles \in SUBSET Handle /\ c.frozen \in SUBSET Handle
  /\ c.superseded \in SUBSET [old : Handle, new : Handle, outside : BOOLEAN]
  /\ c.pending \in Pending \union {None}
  /\ c.noticed \in 0 .. MaxNotice /\ c.woke \in 0 .. MaxNotice
  /\ c.wakeTurns \in 0 .. MaxToken
  /\ c.announcing \in Owed \union {None}

TypeOK ==
  /\ IsConversation(row.c) /\ row.token \in Token /\ row.held \in BOOLEAN
  /\ notices \in Seq(Owed)
  /\ handleSeq \in 0 .. MaxHandle
  /\ \A r \in Request :
       /\ IsConversation(req[r].c)
       /\ req[r].token \in Token
       /\ req[r].hop \in 0 .. MaxHops
       /\ req[r].call \in 0 .. req[r].calls
       /\ req[r].results \in Results
  /\ wakeRuns \in SUBSET (Notice \X Token)

\* The results a message after msgs[i] must hold, and does.
CallsAnswered(msgs, i) ==
  msgs[i].role = "assistant" /\ msgs[i].calls # {} =>
    /\ i < Len(msgs)
    /\ msgs[i + 1].role = "user"
    /\ {p[1] : p \in msgs[i + 1].results} = msgs[i].calls

\* What the model is sent it can follow: each reply with tool calls is followed
\* at once by one message with a result for every one of them (runTurn, and
\* send's "every tool_use in a turn must receive a tool_result").
HistoryFollowable ==
  \A r \in Request : req[r].pc = "model" =>
    \A i \in 1 .. Len(req[r].c.msgs) : CallsAnswered(req[r].c.msgs, i)

\* A conversation awaits exactly when it holds a question, and the question can
\* be answered: its surface is in the history, live, and at its latest revision,
\* and with its answer every call of the reply that asked it has its result.
PendingAnswerable ==
  LET c == row.c
  IN  /\ c.status = "awaiting" <=> c.pending # None
      /\ c.pending # None =>
           /\ Revisable(c, c.pending.handle)
           /\ Last(c.msgs).role = "assistant"
           /\ Last(c.msgs).calls = {c.pending.call} \union {p[1] : p \in c.pending.results}
           /\ c.pending.call \notin {p[1] : p \in c.pending.results}

\* A question on record goes only with its answer, or moves to its surface's
\* revision: nothing that fails or overtakes drops it (interact's undo, a wake
\* turn's, hai.update's move).
QuestionKept ==
  [][row.c.pending # None =>
       LET p == row.c.pending
       IN  \/ /\ row'.c.pending # None
              /\ row'.c.pending.call = p.call /\ row'.c.pending.results = p.results
              /\ row'.c.pending.handle = CurrentHandle(row'.c, p.handle)
           \/ p.handle \in row'.c.frozen]_row

SettledIn(results) == {p[2] : p \in results} \ {0}

\* A surface is frozen exactly when the history holds the one result that
\* settles it: the two halves of an answer are saved together or not at all.
FrozenWithHistory ==
  LET c == row.c
      settled(i) == IF c.msgs[i].role = "user" THEN SettledIn(c.msgs[i].results) ELSE {}
      held == IF c.pending = None THEN {} ELSE SettledIn(c.pending.results)
      Is == 1 .. Len(c.msgs)
  IN  /\ c.frozen = (UNION {settled(i) : i \in Is}) \union held
      /\ \A i, j \in Is : i # j => settled(i) \cap settled(j) = {}
      /\ \A i \in Is : settled(i) \cap held = {}

\* Each notice is quoted in the history once, in order, and none is skipped:
\* noticedThrough and the messages come and go together, failed saves and undone
\* turns included.
NoticesOnce ==
  LET quoted(m) == IF m.role = "user" THEN m.quoted ELSE <<>>
      all == FlattenSeq([i \in 1 .. Len(row.c.msgs) |-> quoted(row.c.msgs[i])])
  IN  all = [n \in 1 .. row.c.noticed |-> n]

Tells(n, s) == n.handle = s.new /\ n.replaces = s.old

\* A revision and its notice do not come apart: one made by hai.update is told
\* of or owed, and none is told of that the history lost.
RevisionTold ==
  /\ \A s \in row.c.superseded : s.outside =>
       \/ \E n \in 1 .. Len(notices) : Tells(notices[n], s)
       \/ row.c.announcing # None /\ Tells(row.c.announcing, s)
  /\ \A n \in 1 .. Len(notices) : notices[n].handle # 0 =>
       \E s \in row.c.superseded : s.outside /\ Tells(notices[n], s)

\* The model always hears of a revision before it runs again.
ModelHears ==
  \A r \in Request : req[r].pc = "model" =>
    \A s \in req[r].c.superseded : s.outside =>
      \E n \in 1 .. req[r].c.noticed : Tells(notices[n], s)

\* The tools a wake notice set running are never set running by it again,
\* however its turn ends and whoever retries it.
WakeOnce ==
  \A n \in Notice, t, u \in Token :
    <<n, t>> \in wakeRuns /\ <<n, u>> \in wakeRuns => t = u
=============================================================================
