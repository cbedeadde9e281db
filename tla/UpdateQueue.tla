---------------------------- MODULE UpdateQueue ----------------------------
(***************************************************************************)
(* hai.update's queues: how the calls that revise one surface from outside *)
(* any turn are coalesced in one server.                                   *)
(*                                                                         *)
(* A queue is found by the handle a call names, or by the surface's first  *)
(* handle where the server links the two.  It writes one job at a time and *)
(* holds at most one behind it, into which every call made meanwhile is    *)
(* merged.  Each job takes the conversation's lease, which turns and other *)
(* queues take too, and gives up at its deadline.  Turns has the write     *)
(* itself; here it is one step that revises the latest handle, or fails.   *)
(* Handles of the surface are numbered in the order they came; calls are   *)
(* numbered too, and a call's number stands for the props it brings.       *)
(***************************************************************************)
EXTENDS Naturals, FiniteSets

CONSTANTS
  Surfaces,     \* the implementations a caller may name; Own is the right one
  Own,
  MaxUpdates,   \* bound: calls of hai.update
  MaxHandle,    \* bound: handles of the surface
  Absent

VARIABLES
  calls,     \* the calls made, in order: what each asked and how it settled
  queue,     \* `updating`: for each key its queue, or Absent
  names,     \* `surfaceNames`: handles linked to the surface's first
  latest,    \* the surface's latest handle
  lease,     \* who holds the conversation: Absent, 0 for a turn, or a key
  written    \* history: for each handle, the job that wrote it, or Absent

queueVars == <<calls, queue, names, latest, lease, written>>

Handles == 1 .. MaxHandle
Turn   == 0
Made   == DOMAIN calls

\* What the constants are.
ASSUME QueueBounds ==
  /\ MaxUpdates \in Nat /\ MaxHandle \in Nat \ {0}
  /\ Absent \notin Handles
  /\ Absent \notin [key : Handles, job : [by : 1 .. MaxUpdates, for : SUBSET (1 .. MaxUpdates),
                                      wake : BOOLEAN]]

Job(n, ns, wake) == [by |-> n, for |-> ns, wake |-> wake]

QueueInit ==
  /\ calls = [n \in {} |-> Absent]
  /\ queue = [k \in Handles |-> Absent]
  /\ names = [h \in Handles |-> Absent]
  /\ latest = 1
  /\ lease = Absent
  /\ written = [h \in Handles |-> Absent]

\* outcome: "waiting", "resolved" to handle, or "rejected"
Settle(ns, outcome, handle) ==
  calls' = [n \in Made |->
              IF n \in ns THEN [calls[n] EXCEPT !.outcome = outcome, !.handle = handle]
              ELSE calls[n]]

-----------------------------------------------------------------------------
(* A call                                                                   *)

KeyOf(h) == IF names[h] = Absent THEN h ELSE names[h]

\* Slips: the calls that waited behind are dropped, or the wake they asked for.
MergeDropping(behind, n, wake) == Job(n, {n}, wake)
MergeWakeless(behind, n, wake) ==
  IF behind = Absent THEN Job(n, {n}, wake) ELSE Job(n, behind.for \union {n}, wake)

\* The newest call's props win; everyone it replaced waits for it with it.
Merge(behind, n, wake) ==
  IF behind = Absent THEN Job(n, {n}, wake)
  ELSE Job(n, behind.for \union {n}, wake \/ behind.wake)

\* A queue starts on its first call at once, and names the surface as that
\* call did for as long as it lasts.
Update(h, surface, wake) ==
  LET n == Cardinality(Made) + 1
      k == KeyOf(h)
  IN  /\ n <= MaxUpdates
      /\ h <= latest
      /\ calls' = [m \in Made \union {n} |->
                     IF m = n THEN [surface |-> surface, wake |-> wake,
                                    outcome |-> "waiting", handle |-> 0]
                     ELSE calls[m]]
      /\ queue' = IF queue[k] = Absent
                   THEN [queue EXCEPT ![k] =
                           [at |-> "trying", surface |-> surface,
                            job |-> Job(n, {n}, wake), next |-> Absent, wrote |-> <<>>]]
                   ELSE [queue EXCEPT ![k].next = Merge(@, n, wake)]
      /\ UNCHANGED <<names, latest, lease, written>>

-----------------------------------------------------------------------------
(* A write                                                                  *)

At(k, stage) == queue[k] # Absent /\ queue[k].at = stage
MoveTo(k, stage) == queue' = [queue EXCEPT ![k].at = stage]

\* Slip: the loop writes the job behind again.
QueueRepeats(q) ==
  IF q.next = Absent THEN Absent
  ELSE [q EXCEPT !.at = "trying", !.job = q.next, !.wrote = <<>>]

\* The loop goes on with the job behind, or the queue is deleted.
AfterJob(q) ==
  IF q.next = Absent THEN Absent
  ELSE [q EXCEPT !.at = "trying", !.job = q.next, !.next = Absent, !.wrote = <<>>]

Ended(k, outcome, handle) ==
  /\ Settle(queue[k].job.for, outcome, handle)
  /\ queue' = [queue EXCEPT ![k] = AfterJob(@)]

TakeLease(k) ==
  /\ At(k, "trying") \/ At(k, "retrying")
  /\ lease = Absent
  /\ lease' = k
  /\ MoveTo(k, "writing")
  /\ UNCHANGED <<calls, names, latest, written>>

\* Busy: it backs off and tries again ...
FindBusy(k) ==
  /\ At(k, "trying")
  /\ lease # Absent
  /\ MoveTo(k, "retrying")
  /\ UNCHANGED <<calls, names, latest, lease, written>>

\* ... until its deadline, past which it does not try again, even if the turn
\* has gone.
TimeOut(k) ==
  /\ At(k, "retrying")
  /\ Ended(k, "rejected", 0)
  /\ UNCHANGED <<names, latest, lease, written>>

\* The write is refused, as one naming another surface always is, or fails.
Refused(k) ==
  /\ At(k, "writing")
  /\ lease' = Absent
  /\ Ended(k, "rejected", 0)
  /\ UNCHANGED <<names, latest, written>>

\* The revision is stored and the conversation let go.
Land(k) ==
  /\ At(k, "writing")
  /\ queue[k].surface = Own
  /\ latest < MaxHandle
  /\ latest' = latest + 1
  /\ written' = [written EXCEPT ![latest + 1] = [key |-> k, job |-> queue[k].job]]
  /\ lease' = Absent
  /\ queue' = [queue EXCEPT ![k].at = "landed", ![k].wrote = <<latest, latest + 1>>]
  /\ UNCHANGED <<calls, names>>

\* name: only the surface's first handle and its latest are linked.
Named(first, replaced, new) ==
  [h \in Handles |-> IF h \in {first, new} THEN first
                     ELSE IF h = replaced THEN Absent ELSE names[h]]

\* Its callers hear the handle; the next call naming it finds this queue.
Resolve(k) ==
  LET wrote == queue[k].wrote
  IN  /\ At(k, "landed")
      /\ names' = Named(k, wrote[1], wrote[2])
      /\ Ended(k, "resolved", wrote[2])
      /\ UNCHANGED <<latest, lease, written>>

\* The revision stands, but its notice or the save after it failed.
RejectLanded(k) ==
  /\ At(k, "landed")
  /\ Ended(k, "rejected", 0)
  /\ UNCHANGED <<names, latest, lease, written>>

-----------------------------------------------------------------------------
(* What else happens                                                        *)

TurnTakes ==
  /\ lease = Absent
  /\ lease' = Turn
  /\ UNCHANGED <<calls, queue, names, latest, written>>

\* ctx.update, in a turn: a handle these queues were never told of.
TurnRevises ==
  /\ lease = Turn
  /\ latest < MaxHandle
  /\ latest' = latest + 1
  /\ UNCHANGED <<calls, queue, names, lease, written>>

TurnLeaves ==
  /\ lease = Turn
  /\ lease' = Absent
  /\ UNCHANGED <<calls, queue, names, latest, written>>

\* UPDATE_NAMES_KEPT other conversations were revised since.
Forget ==
  /\ \E h \in Handles : names[h] # Absent
  /\ names' = [h \in Handles |-> Absent]
  /\ UNCHANGED <<calls, queue, latest, lease, written>>

QueueStep(k) ==
  \/ TakeLease(k)
  \/ FindBusy(k)
  \/ TimeOut(k)
  \/ Refused(k)
  \/ Land(k)
  \/ Resolve(k)
  \/ RejectLanded(k)

QueueNext ==
  \/ \E h \in Handles, surface \in Surfaces, wake \in BOOLEAN : Update(h, surface, wake)
  \/ \E k \in Handles : QueueStep(k)
  \/ TurnTakes
  \/ TurnRevises
  \/ TurnLeaves
  \/ Forget

\* A queue's loop goes on: its store calls return, and its deadline comes.
\* Nothing is asked of turns, which may hold the conversation for ever.
QueueFairness == \A k \in Handles : WF_queueVars(QueueStep(k))

QueueSpec == QueueInit /\ [][QueueNext]_queueVars /\ QueueFairness

-----------------------------------------------------------------------------
(* Properties *)

JobType == [by : Made, for : SUBSET Made, wake : BOOLEAN]

QueuesTyped ==
  /\ Made = 1 .. Cardinality(Made)
  /\ calls \in [Made -> [surface : Surfaces, wake : BOOLEAN,
                         outcome : {"waiting", "resolved", "rejected"},
                         handle : 0 .. MaxHandle]]
  /\ \A k \in Handles : queue[k] # Absent =>
       /\ queue[k].at \in {"trying", "retrying", "writing", "landed"}
       /\ queue[k].surface \in Surfaces
       /\ queue[k].job \in JobType
       /\ queue[k].next \in JobType \union {Absent}
  /\ names \in [Handles -> Handles \union {Absent}]
  /\ latest \in Handles
  /\ lease \in Handles \union {Absent, Turn}

\* A call that resolves, resolves to a handle written for it, by its own props
\* or by those of a later call, and a wake it asked for is asked for there.
ResolvedByItsWrite ==
  \A n \in Made : calls[n].outcome = "resolved" =>
    LET w == written[calls[n].handle]
    IN  /\ w # Absent
        /\ n \in w.job.for /\ w.job.by >= n
        /\ calls[n].wake => w.job.wake

\* The writes of one queue land in the order of the calls they came from, so
\* an older call's props never replace a newer one's there, nor land twice.
NewestWins ==
  \A g, h \in Handles :
    /\ g < h
    /\ written[g] # Absent /\ written[h] # Absent
    /\ written[g].key = written[h].key
    => written[g].job.by < written[h].job.by

\* Every call settles, however busy turns keep the conversation.
EveryCallSettles ==
  \A n \in 1 .. MaxUpdates :
    (n \in Made /\ calls[n].outcome = "waiting") ~> (n \in Made /\ calls[n].outcome # "waiting")

\* A surface's props are its own: a call that names another surface is refused
\* (docs/reference/revisions.md: "<latest> is a <stored surface name>, not a
\* <surface name>").
PropsFitSurface ==
  \A h \in Handles : written[h] # Absent => calls[written[h].job.by].surface = Own
=============================================================================
