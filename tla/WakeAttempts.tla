---------------------------- MODULE WakeAttempts ----------------------------
(***************************************************************************)
(* The events route in one server: the streams that read a conversation's  *)
(* wake notices, and the attempts they make to wake the model for them.    *)
(*                                                                         *)
(* The server keeps one entry of watchers for the conversation, shared by  *)
(* its streams: what they have read and what attempts have settled.  A     *)
(* stream runs one attempt at a time, beside its reading; asked for        *)
(* another meanwhile, it looks again once that is done.  An attempt takes  *)
(* the lease that other requests, and other servers' attempts, take too.   *)
(* Turns has what it then does to the history; here a turn is the notices  *)
(* it takes in.  A request holds the lease's fence until another takes the *)
(* lease, so the fence is who took it last.  All notices here are wake     *)
(* notices, by their seq.  A stream opens once; a reconnect is another, and *)
(* streams are numbered as they open.                                      *)
(***************************************************************************)
EXTENDS Integers, FiniteSets

CONSTANTS
  MaxStream,    \* bound: streams
  MaxNotice,    \* bound: wake notices
  MaxOther,     \* bound: other requests on the conversation
  Other,
  None

Stream == 1 .. MaxStream

ASSUME StreamsAssumption ==
  /\ MaxStream \in Nat /\ MaxNotice \in Nat /\ MaxOther \in Nat
  /\ Other \notin Stream /\ None \notin Stream \union {Other}

VARIABLES
  row,        \* the stored row: whose token it has, whether that lease holds,
              \* and the notices decided: taken in, or past `wokeThrough`
  notices,    \* the seq of the latest notice
  others,     \* how many other requests may yet come
  watchers,   \* the entry: `wakeRead` and `wakeSettled`
  stream,     \* each stream: its resume point, and whether it has yet to ask
  waking,     \* each stream's attempt
  judged      \* history: the notices an attempt found it may not wake for

vars == <<row, notices, others, watchers, stream, waking, judged>>

Seqs     == 0 .. MaxNotice
Stages   == {"off", "trying", "paused", "lease", "commit", "save", "done"}
Outcomes == {"busy", "idle", "limited", "woke", "failed"}

Higher(m, n) == IF m > n THEN m ELSE n

NoEntry == [there |-> FALSE, read |-> 0, settled |-> -1]
\* `owes` is no variable of the code: the notices that are the stream's to see
\* to, those it has yet to read and those its server had read when it opened.
Fresh  == [at |-> "unopened", after |-> 0, toAsk |-> FALSE, owes |-> {}]
Closed == [Fresh EXCEPT !.at = "closed"]
\* `failed` is none either: the latest notice an attempt of it failed for.
Off(failed) ==
  [pc |-> "off", through |-> 0, again |-> FALSE, outcome |-> "busy", decided |-> 0,
   before |-> 0, own |-> TRUE, failed |-> failed]

Init ==
  /\ row = [holder |-> None, held |-> FALSE, decided |-> 0]
  /\ notices = 0
  /\ others = MaxOther
  /\ watchers = NoEntry
  /\ stream = [x \in Stream |-> Fresh]
  /\ waking = [x \in Stream |-> Off(0)]
  /\ judged = 0

IsOpen(x) == stream[x].at = "open"
At(x, stage) == waking[x].pc = stage
Step(x, a) == waking' = [waking EXCEPT ![x] = a]

-----------------------------------------------------------------------------
(* Asking for an attempt                                                    *)

Unsettled(w) == w.read > w.settled

Starting(a, through) ==
  [Off(a.failed) EXCEPT !.pc = "trying", !.through = through]

\* `wake`: only while a notice read here is unsettled; one attempt at a time.
Asked(x, a) ==
  IF ~IsOpen(x) \/ ~Unsettled(watchers) THEN a
  ELSE IF a.pc = "off" THEN Starting(a, watchers.read)
  ELSE [a EXCEPT !.again = TRUE]

-----------------------------------------------------------------------------
(* Streams and notices                                                      *)

\* The route reads nothing up to the resume point, which the browser names.
\* The first look is made for an update notice still owed, by the first stream
\* of an entry, which so has nothing settled.
Open(x, from) ==
  LET w == [watchers EXCEPT !.there = TRUE]
  IN  /\ stream[x] = Fresh /\ \A y \in 1 .. x - 1 : stream[y] # Fresh
      /\ watchers' = w
      /\ stream' = [stream EXCEPT ![x] =
                      [at |-> "open", after |-> from, toAsk |-> TRUE,
                       owes |-> {n \in 1 .. MaxNotice : n > from \/ n <= w.read}]]
      /\ UNCHANGED <<row, notices, others, waking, judged>>

ReadOne(x) ==
  /\ IsOpen(x) /\ stream[x].after < notices
  /\ LET n == stream[x].after + 1
     IN  /\ stream' = [stream EXCEPT ![x].after = n, ![x].toAsk = TRUE]
         /\ watchers' = [watchers EXCEPT !.read = Higher(@, n)]
  /\ UNCHANGED <<row, notices, others, waking, judged>>

\* A page came back short: ask, if it had a wake notice or was the first.
CaughtUp(x) ==
  /\ IsOpen(x) /\ stream[x].toAsk /\ stream[x].after = notices
  /\ stream' = [stream EXCEPT ![x].toAsk = FALSE]
  /\ Step(x, Asked(x, waking[x]))
  /\ UNCHANGED <<row, notices, others, watchers, judged>>

\* The browser leaves, or its poll ends.  An attempt goes on where it is, and
\* is the last whether asked for another or not.
Close(x) ==
  /\ IsOpen(x)
  /\ stream' = [stream EXCEPT ![x] = Closed]
  /\ Step(x, [waking[x] EXCEPT !.again = FALSE, !.failed = 0])
  /\ UNCHANGED <<row, notices, others, watchers, judged>>

\* From its `streaming` to its `released`.
Shows(x) ==
  \/ At(x, "commit")
  \/ At(x, "save") /\ waking[x].outcome \in {"woke", "failed"}

\* A while after its last stream the entry goes, unless a wake turn shows; an
\* attempt that is still under way keeps the one it began with.
Forget ==
  /\ watchers.there
  /\ \A x \in Stream : ~IsOpen(x) /\ ~Shows(x)
  /\ watchers' = NoEntry
  /\ waking' = [x \in Stream |-> IF waking[x].pc \in {"off", "done"} THEN waking[x]
                               ELSE [waking[x] EXCEPT !.own = FALSE]]
  /\ UNCHANGED <<row, notices, others, stream, judged>>

Notify ==
  /\ notices < MaxNotice
  /\ notices' = notices + 1
  /\ UNCHANGED <<row, others, watchers, stream, waking, judged>>

-----------------------------------------------------------------------------
(* An attempt                                                               *)

\* Slip: a failed turn settles its notices.
SettlesFailed(outcome) == outcome # "busy"
\* A failed turn gives its notices back to wake again.
Settles(outcome) == outcome \notin {"busy", "failed"}

Failed(x) ==
  [waking[x] EXCEPT !.failed = IF IsOpen(x) THEN Higher(@, waking[x].through) ELSE 0]
Done(a) == [Off(a.failed) EXCEPT !.pc = "done", !.again = a.again]

\* The loop's end: the attempt settles its notices, and goes on if asked for
\* another that it did not settle.
Follow(x, outcome) ==
  LET a == IF outcome = "failed" THEN Failed(x) ELSE waking[x]
      w == IF Settles(outcome) /\ a.own
           THEN [watchers EXCEPT !.settled = Higher(@, a.through)] ELSE watchers
  IN  /\ watchers' = w
      /\ Step(x, IF a.again /\ IsOpen(x) /\ Unsettled(w) THEN Starting(a, w.read) ELSE Done(a))

\* An attempt that throws leaves the loop without a look.
Thrown(x) ==
  /\ Step(x, Done(Failed(x)))
  /\ UNCHANGED watchers

Busy(x) ==
  /\ At(x, "trying") /\ row.held
  /\ Step(x, [waking[x] EXCEPT !.pc = "paused"])
  /\ UNCHANGED <<row, notices, others, watchers, stream, judged>>

SettledMeanwhile(x) == waking[x].through <= watchers.settled

Retry(x) ==
  /\ At(x, "paused") /\ IsOpen(x) /\ ~SettledMeanwhile(x)
  /\ Step(x, [waking[x] EXCEPT !.pc = "trying"])
  /\ UNCHANGED <<row, notices, others, watchers, stream, judged>>

\* Another stream here has settled these notices, or the browser has gone.
GivesUp(x) ==
  /\ At(x, "paused") /\ (~IsOpen(x) \/ SettledMeanwhile(x))
  /\ Follow(x, "busy")
  /\ UNCHANGED <<row, notices, others, stream, judged>>

Load(x) ==
  /\ At(x, "trying") /\ ~row.held
  /\ row' = [row EXCEPT !.holder = x, !.held = TRUE]
  /\ Step(x, [waking[x] EXCEPT !.pc = "lease", !.decided = row.decided])
  /\ UNCHANGED <<notices, others, watchers, stream, judged>>

\* The store fails; the lease may have been taken all the same.
LoadThrows(x) ==
  /\ At(x, "trying")
  /\ \/ UNCHANGED row
     \/ ~row.held /\ row' = [row EXCEPT !.holder = x, !.held = TRUE]
  /\ Thrown(x)
  /\ UNCHANGED <<notices, others, stream, judged>>

\* On to the save that ends the attempt.
Resolved(x, outcome) == Step(x, [waking[x] EXCEPT !.pc = "save", !.outcome = outcome])

\* Nothing undecided, or a question waits, the conversation has not begun or
\* is out of date: the notices ride the user's next message.
Idle(x) ==
  /\ At(x, "lease")
  /\ \/ notices <= waking[x].decided /\ UNCHANGED judged
     \/ judged' = notices
  /\ Resolved(x, "idle")
  /\ UNCHANGED <<row, notices, others, watchers, stream>>

\* Past `maxWakes` they are passed over, on record, for the next message.
Limited(x) ==
  /\ At(x, "lease") /\ notices > waking[x].decided
  /\ judged' = notices
  /\ Step(x, [waking[x] EXCEPT !.pc = "save", !.outcome = "limited", !.decided = notices])
  /\ UNCHANGED <<row, notices, others, watchers, stream>>

FailsEarly(x) ==
  /\ At(x, "lease")
  /\ Resolved(x, "failed")
  /\ UNCHANGED <<row, notices, others, watchers, stream, judged>>

Start(x) ==
  /\ At(x, "lease") /\ notices > waking[x].decided
  /\ Step(x, [waking[x] EXCEPT !.pc = "commit", !.decided = notices,
                                !.before = waking[x].decided])
  /\ UNCHANGED <<row, notices, others, watchers, stream, judged>>

Fence(x) == row.holder = x
Saved(decided, held) == [row EXCEPT !.decided = decided, !.held = held]

\* Committed before the model runs, so no retry runs the same notices again.
CommitLands(x) ==
  /\ At(x, "commit") /\ Fence(x)
  /\ row' = Saved(waking[x].decided, row.held)
  /\ Resolved(x, "woke")
  /\ UNCHANGED <<notices, others, watchers, stream, judged>>

\* Refused, or failed, and then perhaps landed all the same: it is undone.
CommitFails(x) ==
  /\ At(x, "commit")
  /\ \/ UNCHANGED row
     \/ Fence(x) /\ row' = Saved(waking[x].decided, row.held)
  /\ Step(x, [waking[x] EXCEPT !.pc = "save", !.outcome = "failed",
                                !.decided = waking[x].before])
  /\ UNCHANGED <<notices, others, watchers, stream, judged>>

\* A turn that fails before any tool ran gives its notices back; one that fails
\* later, or is overtaken, does not.
Ends(a) ==
  {[outcome |-> a.outcome, decided |-> a.decided]} \union
  IF a.outcome # "woke" THEN {}
  ELSE {[outcome |-> "failed", decided |-> d] : d \in {a.before, a.decided}}

\* The turn, if there was one, ends, and the lease is let go.  A save that is
\* refused is told and not thrown: the attempt ends as it would have.
Save(x) ==
  /\ At(x, "save")
  /\ \E end \in Ends(waking[x]) :
       /\ row' = IF Fence(x) THEN Saved(end.decided, FALSE) ELSE row
       /\ Follow(x, end.outcome)
  /\ UNCHANGED <<notices, others, stream, judged>>

\* The last save fails, and then perhaps landed all the same.
SaveThrows(x) ==
  /\ At(x, "save") /\ Fence(x)
  /\ \/ UNCHANGED row
     \/ \E end \in Ends(waking[x]) : row' = Saved(end.decided, FALSE)
  /\ Thrown(x)
  /\ UNCHANGED <<notices, others, stream, judged>>

\* Slip: nothing looks whether it was asked between the loop's end and here.
FinallyOff(x) ==
  /\ At(x, "done")
  /\ Step(x, Off(waking[x].failed))
  /\ UNCHANGED <<row, notices, others, watchers, stream, judged>>

\* The last of it.  Asked meanwhile, it asks anew; the next start forgets that.
Finally(x) ==
  /\ At(x, "done")
  /\ Step(x, IF waking[x].again THEN Asked(x, Off(waking[x].failed)) ELSE Off(waking[x].failed))
  /\ UNCHANGED <<row, notices, others, watchers, stream, judged>>

-----------------------------------------------------------------------------
(* Other requests, and time                                                 *)

OtherStarts ==
  /\ others > 0 /\ ~row.held
  /\ others' = others - 1
  /\ row' = [row EXCEPT !.holder = Other, !.held = TRUE]
  /\ UNCHANGED <<notices, watchers, stream, waking, judged>>

\* A message takes in what is unread, and so does another server's wake turn;
\* a request that fails takes in nothing. Its lease may have lapsed by then.
OtherEnds ==
  /\ row.holder = Other
  /\ \E decided \in {row.decided, notices} :
       row' = [holder |-> None, held |-> FALSE, decided |-> decided]
  /\ UNCHANGED <<notices, others, watchers, stream, waking, judged>>

Lapse ==
  /\ row.held
  /\ row' = [row EXCEPT !.held = FALSE]
  /\ UNCHANGED <<notices, others, watchers, stream, waking, judged>>

-----------------------------------------------------------------------------
Reads(x) == ReadOne(x) \/ CaughtUp(x)
Attempt(x) ==
  \/ Busy(x) \/ Retry(x) \/ GivesUp(x) \/ Load(x) \/ LoadThrows(x)
  \/ Idle(x) \/ Limited(x) \/ FailsEarly(x) \/ Start(x)
  \/ CommitLands(x) \/ CommitFails(x) \/ Save(x) \/ SaveThrows(x) \/ Finally(x)

Next ==
  \/ \E x \in Stream :
       \/ \E from \in 0 .. notices : Open(x, from)
       \/ Reads(x) \/ Close(x) \/ Attempt(x)
  \/ Forget \/ Notify \/ OtherStarts \/ OtherEnds \/ Lapse

Spec == Init /\ [][Next]_vars

\* A stream's reads and its attempts' store calls return and a retry's timer
\* fires; leases lapse if nothing lets them go.  That other requests come to an
\* end is a bound: an attempt waits as long as they follow one another.
FairSpec ==
  /\ Spec
  /\ \A x \in Stream : WF_vars(Reads(x)) /\ WF_vars(Attempt(x))
  /\ WF_vars(Lapse)

-----------------------------------------------------------------------------
(* Properties                                                               *)

\* The variables keep their types.
TypeOK ==
  /\ row \in [holder : Stream \union {Other, None}, held : BOOLEAN, decided : Seqs]
  /\ notices \in Seqs /\ judged \in Seqs /\ others \in 0 .. MaxOther
  /\ watchers \in [there : BOOLEAN, read : Seqs, settled : Seqs \union {-1}]
  /\ \A x \in Stream :
       /\ stream[x] \in [at : {"unopened", "open", "closed"}, after : Seqs,
                         toAsk : BOOLEAN, owes : SUBSET (1 .. MaxNotice)]
       /\ waking[x] \in [pc : Stages, through : Seqs, again : BOOLEAN, outcome : Outcomes,
                         decided : Seqs, before : Seqs, own : BOOLEAN, failed : Seqs]
       /\ IsOpen(x) => watchers.there /\ waking[x].own

\* What the server has settled, and so makes no more attempts for, is decided:
\* a turn took it in and that is on record, or an attempt that knew of it found
\* it may not wake for it.  So no lease that lapses, save that fails or turn
\* undone leaves a notice settled here and yet the model never told.
SettledDecided ==
  watchers.settled > 0 => watchers.settled <= Higher(row.decided, judged)

\* Again and again, every wake notice that is an open stream's to see to has
\* been settled, or that stream's own attempt for it failed: none is lost to
\* attempts that coalesce, give up for one another, or end as another is asked
\* for.
WatchedNoticesTried ==
  []<>(\A x \in Stream : IsOpen(x) =>
         \A n \in stream[x].owes : n > notices \/ waking[x].failed >= n \/ watchers.settled >= n)
=============================================================================
