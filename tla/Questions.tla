----------------------------- MODULE Questions -----------------------------
(***************************************************************************)
(* The tool calls of one model reply, and the surfaces their tools render  *)
(* and revise at the same time.                                            *)
(*                                                                         *)
(* Calls run one after another, but a tool may start any number of renders *)
(* and revisions without awaiting them, and return or throw while they are *)
(* still being stored.  A reply can ask the user one question: the turn    *)
(* parks on one surface.  Turns takes a tool's operations one at a time;   *)
(* here they overlap, each split where it awaits the store or another's    *)
(* claim to the question.                                                  *)
(***************************************************************************)
EXTENDS Naturals, Sequences, FiniteSets

CONSTANTS
  MaxCalls,    \* bound: tool calls in the reply
  MaxOps,      \* bound: renders and revisions they start, so handles too
  None

ASSUME QuestionsAssumption ==
  /\ MaxCalls \in Nat \ {0} /\ MaxOps \in Nat
  /\ None \notin [op : Nat, handle : Nat] \union [call : Nat, handle : Nat]

VARIABLES
  reply,       \* "running", "parked", "answered", or "lost" with the lease
  call,        \* the call being run
  tool,        \* its tool: "running", "returned" or "threw"
  ops,         \* the renders and revisions started, in order
  asking,      \* hop.asking: the claim to the question, or None
  asked,       \* the surface this call asked on, 0 for none
  parked,      \* the call the turn parks on and its surface, or None
  told,        \* the calls that have their result
  questions,   \* handles stored to ask with (mode elicit)
  frozen,
  superseded,  \* <<old, new>>
  handleSeq    \* the last handle given out, all of them in the history

vars == <<reply, call, tool, ops, asking, asked, parked, told, questions,
          frozen, superseded, handleSeq>>

Op     == 1 .. Len(ops)
Handle == 1 .. handleSeq
Superseded == {s[1] : s \in superseded}

\* currentHandle
Current(h) ==
  LET at[x \in Handle] ==
        IF x \in Superseded THEN at[(CHOOSE s \in superseded : s[1] = x)[2]] ELSE x
  IN  at[h]

\* Slip: a claim settles only when its surface is shown.
SettledIfShown(i) == ops[i].at \in {"shown", "refused"}

Settled(i) == ops[i].at \in {"shown", "refused", "failed"}

Storing(i) == ops[i].at = "storing"

\* The revisions under way: what `revising` holds.
Revising == {ops[i].target : i \in {j \in Op : ops[j].kind = "revise" /\ Storing(j)}}

Init ==
  /\ reply = "running" /\ call = 1 /\ tool = "running"
  /\ ops = <<>>
  /\ asking = None /\ asked = 0 /\ parked = None
  /\ told = {}
  /\ questions = {} /\ frozen = {} /\ superseded = {}
  /\ handleSeq = 0

-----------------------------------------------------------------------------
(* Starting an operation.  One started once the tool is done shows nothing. *)

Start(kind, target, at, other) ==
  ops' = Append(ops, [call |-> call, kind |-> kind, target |-> target,
                      at |-> at, other |-> other])

MayStart == reply = "running" /\ tool = "running" /\ Len(ops) < MaxOps

RenderDisplay ==
  /\ MayStart
  /\ Start("display", 0, "storing", 0)
  /\ UNCHANGED <<reply, call, tool, asking, asked, parked, told, questions,
                 frozen, superseded, handleSeq>>

\* Slip: a question being stored is taken for no question at all.
OpenToAskEarly(claim) == claim = None \/ claim.handle = 0

\* No claim to the question stands.
OpenToAsk(claim) == claim = None

Undecided(claim) == claim # None /\ claim.handle = 0

\* A render that asks claims the question before its first await; one that
\* finds it claimed but not yet shown waits to see, and one shown refuses it.
RenderQuestion ==
  /\ MayStart
  /\ IF OpenToAsk(asking)
     THEN /\ Start("ask", 0, "storing", 0)
          /\ asking' = [op |-> Len(ops) + 1, handle |-> 0]
     ELSE /\ IF Undecided(asking) THEN Start("ask", 0, "waiting", asking.op)
                                  ELSE Start("ask", 0, "refused", 0)
          /\ UNCHANGED asking
  /\ UNCHANGED <<reply, call, tool, asked, parked, told, questions, frozen,
                 superseded, handleSeq>>

\* The one it waited on has settled: the loop looks again.
LookAgain(i) ==
  LET left == IF Undecided(asking) /\ asking.op = ops[i].other THEN None ELSE asking
  IN  /\ ops[i].at = "waiting"
      /\ Settled(ops[i].other)
      /\ IF OpenToAsk(left)
         THEN /\ ops' = [ops EXCEPT ![i].at = "storing"]
              /\ asking' = [op |-> i, handle |-> 0]
         ELSE /\ ops' = IF Undecided(left) THEN [ops EXCEPT ![i].other = left.op]
                        ELSE [ops EXCEPT ![i].at = "refused"]
              /\ asking' = left
      /\ UNCHANGED <<reply, call, tool, asked, parked, told, questions, frozen,
                     superseded, handleSeq>>

\* Slip: a second revision of the surface is let in while the first is stored.
MayReviseTwice(h) == h \in Handle /\ h \notin frozen /\ h \notin Superseded

\* ctx.update's checks, and its claim to the surface.
MayRevise(h) ==
  h \in Handle /\ h \notin frozen /\ h \notin Superseded /\ h \notin Revising

StartRevision(h) ==
  /\ MayStart
  /\ MayRevise(h)
  /\ Start("revise", h, "storing", 0)
  /\ UNCHANGED <<reply, call, tool, asking, asked, parked, told, questions,
                 frozen, superseded, handleSeq>>

-----------------------------------------------------------------------------
(* What the store and the digest make of it                                 *)

Shown(i) ==
  /\ reply = "running"
  /\ Storing(i)
  /\ handleSeq' = handleSeq + 1
  /\ ops' = [ops EXCEPT ![i].at = "shown"]

DisplayShown(i) ==
  /\ Shown(i)
  /\ ops[i].kind = "display"
  /\ UNCHANGED <<reply, call, tool, asking, asked, parked, told, questions,
                 frozen, superseded>>

\* The claim is told its handle, and this call what it asked.
QuestionShown(i) ==
  /\ Shown(i)
  /\ ops[i].kind = "ask"
  /\ asking' = IF asking # None /\ asking.op = i
               THEN [asking EXCEPT !.handle = handleSeq + 1] ELSE asking
  /\ asked' = handleSeq + 1
  /\ questions' = questions \union {handleSeq + 1}
  /\ UNCHANGED <<reply, call, tool, parked, told, frozen, superseded>>

\* The question this reply asks moves with its surface.
AskingMoved(claim, old, new) ==
  IF claim # None /\ claim.handle = old THEN [claim EXCEPT !.handle = new] ELSE claim

RevisionShown(i) ==
  LET old == ops[i].target
      new == handleSeq + 1
  IN  /\ Shown(i)
      /\ ops[i].kind = "revise"
      /\ superseded' = superseded \union {<<old, new>>}
      /\ questions' = IF old \in questions THEN questions \union {new} ELSE questions
      /\ asking' = AskingMoved(asking, old, new)
      /\ asked' = IF asked = old THEN new ELSE asked
      /\ UNCHANGED <<reply, call, tool, parked, told, frozen>>

\* One that fails before it is shown gives its claim back.
ClaimGivenBack(i) == IF asking # None /\ asking.op = i THEN None ELSE asking

\* The write or the digest failed.  Where it was a lost lease, the call will
\* stop the turn, awaited by its tool or not.
Fails(i, cause) ==
  /\ reply = "running"
  /\ Storing(i)
  /\ ops' = [ops EXCEPT ![i] = [@ EXCEPT !.at = "failed", !.other = cause]]
  /\ asking' = ClaimGivenBack(i)
  /\ UNCHANGED <<reply, call, tool, asked, parked, told, questions, frozen,
                 superseded, handleSeq>>

LostLease == MaxOps + 1
OtherCause == 0

-----------------------------------------------------------------------------
(* The call's end                                                           *)

\* The tool returns or throws, whatever it has left under way.
ToolEnds(how) ==
  /\ reply = "running"
  /\ tool = "running"
  /\ tool' = how
  /\ UNCHANGED <<reply, call, ops, asking, asked, parked, told, questions,
                 frozen, superseded, handleSeq>>

\* Done, and everything it started has settled.
AllIn == tool # "running" /\ \A i \in Op : ops[i].call = call => Settled(i)

Lost == \E i \in Op : ops[i].call = call /\ ops[i].other = LostLease

StopTurn ==
  /\ reply = "running"
  /\ AllIn
  /\ Lost
  /\ reply' = "lost"
  /\ UNCHANGED <<call, tool, ops, asking, asked, parked, told, questions,
                 frozen, superseded, handleSeq>>

\* After the last call the turn parks, or goes on to the model's next reply.
NextCall ==
  /\ asked' = 0
  /\ IF call < MaxCalls
     THEN call' = call + 1 /\ tool' = "running" /\ UNCHANGED reply
     ELSE /\ reply' = IF parked' # None THEN "parked" ELSE "answered"
          /\ UNCHANGED <<call, tool>>

\* It asked, and its result waits for the answer; or it has its result.
Returned ==
  /\ reply = "running" /\ tool = "returned"
  /\ AllIn /\ ~Lost
  /\ IF asked # 0
     THEN parked' = [call |-> call, handle |-> asked] /\ UNCHANGED told
     ELSE told' = told \union {call} /\ UNCHANGED parked
  /\ NextCall
  /\ UNCHANGED <<ops, asking, questions, frozen, superseded, handleSeq>>

\* Slip: the question of a call that failed is left on screen.
WithdrawnNone(h) == {}

\* What it asked is withdrawn with it.
Withdrawn(h) == {h} \ {0}

Threw ==
  /\ reply = "running" /\ tool = "threw"
  /\ AllIn /\ ~Lost
  /\ told' = told \union {call}
  /\ frozen' = frozen \union Withdrawn(asked)
  /\ asking' = IF asked # 0 THEN None ELSE asking
  /\ UNCHANGED parked
  /\ NextCall
  /\ UNCHANGED <<ops, questions, superseded, handleSeq>>

OpStep(i) ==
  \/ LookAgain(i)
  \/ DisplayShown(i)
  \/ QuestionShown(i)
  \/ RevisionShown(i)
  \/ \E cause \in {LostLease, OtherCause} : Fails(i, cause)

CallStep ==
  \/ \E how \in {"returned", "threw"} : ToolEnds(how)
  \/ StopTurn
  \/ Returned
  \/ Threw

Next ==
  \/ RenderDisplay
  \/ RenderQuestion
  \/ \E h \in Handle : StartRevision(h)
  \/ \E i \in Op : OpStep(i)
  \/ CallStep

\* Store calls return, tools end, and what can go on does.  A tool is not
\* obliged to start anything.
Fairness == WF_vars(CallStep) /\ \A i \in 1 .. MaxOps : WF_vars(i \in Op /\ OpStep(i))

Spec == Init /\ [][Next]_vars /\ Fairness

-----------------------------------------------------------------------------
(* Properties *)

TypeOK ==
  /\ reply \in {"running", "parked", "answered", "lost"}
  /\ call \in 1 .. MaxCalls
  /\ tool \in {"running", "returned", "threw"}
  /\ Len(ops) <= MaxOps
  /\ \A i \in Op :
       /\ ops[i].call \in 1 .. call
       /\ ops[i].kind \in {"display", "ask", "revise"}
       /\ ops[i].target \in 0 .. handleSeq
       /\ ops[i].at \in {"waiting", "storing", "shown", "refused", "failed"}
       /\ ops[i].other \in Op \union {OtherCause, LostLease}
  /\ asking \in [op : Op, handle : 0 .. handleSeq] \union {None}
  /\ asked \in 0 .. handleSeq
  /\ parked \in [call : 1 .. MaxCalls, handle : Handle] \union {None}
  /\ told \subseteq 1 .. MaxCalls
  /\ questions \subseteq Handle /\ frozen \subseteq Handle
  /\ superseded \subseteq Handle \X Handle
  /\ handleSeq \in 0 .. MaxOps

Live == questions \ (frozen \union Superseded)

\* At no time does a reply have two live questions on screen, and the one it
\* has is the one its claim is on: no second question is let in while a first
\* is being stored, revised, or may yet be withdrawn.
OneQuestion ==
  /\ Cardinality(Live) <= 1
  /\ reply = "running" => \A h \in Live : asking # None /\ asking.handle = h

\* A reply that parks does so on its one live question, and every other call
\* has its result; one that does not park leaves no question on screen.
ParksOnItsQuestion ==
  /\ reply = "parked" =>
       /\ Live = {Current(parked.handle)}
       /\ told = (1 .. MaxCalls) \ {parked.call}
  /\ reply = "answered" => Live = {} /\ told = 1 .. MaxCalls

\* No surface is revised twice: its revisions form one chain.
OneRevision ==
  \A s, t \in superseded : s[1] = t[1] => s = t

\* The reply always ends: renders that wait on one another's claims do not wait
\* for ever, and the wait on everything a tool left under way ends.
ReplyEnds == <>(reply # "running")
=============================================================================
