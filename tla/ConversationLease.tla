------------------------- MODULE ConversationLease -------------------------
(***************************************************************************)
(* The lease and the fence around one stored conversation, and the sweep   *)
(* of payload rows nobody will ever reference.                             *)
(*                                                                         *)
(* A request loads the conversation, which takes its lease and issues a    *)
(* token; it works on its own copy, stores surface payloads as it goes,    *)
(* may save part way (a commit), and saves once more to let the lease go.  *)
(* Every write presents the token.  A lease can lapse under a request that *)
(* is merely slow, so two requests can be running at once, and the token   *)
(* is all that tells them apart.                                           *)
(*                                                                         *)
(* Of the row's contents only two things matter here: whose turns the      *)
(* history holds, a turn being known by the token of the request that made *)
(* it, and which surface handles it names.                                 *)
(***************************************************************************)
EXTENDS Naturals

CONSTANTS
  Request,     \* requests, wake turns and updates: whatever takes the lease
  MaxToken,    \* bound: how many times the lease is taken
  MaxHandle    \* bound: how many payloads are stored

ASSUME BoundsAssumption == MaxToken \in Nat /\ MaxHandle \in Nat

VARIABLES
  conv,         \* the conversation as stored
  payloads,    \* payload rows: the handle, and the token its writer held
  handleSeq,   \* the last handle number given out
  req,         \* each request: running or not, and its copy of the row
  lapsed       \* history: the tokens whose lease ran out before it was let go

leaseVars == <<conv, payloads, handleSeq, req, lapsed>>

Token  == 0 .. MaxToken
Handle == 1 .. MaxHandle

Idle == [running |-> FALSE, token |-> 0, turns |-> {}, handles |-> {},
         base |-> {}, put |-> {}]

LeaseTypeOK ==
  /\ conv \in [token : Token, held : BOOLEAN,
               turns : SUBSET Token, handles : SUBSET Handle]
  /\ payloads \in SUBSET [handle : Handle, token : Token]
  /\ handleSeq \in 0 .. MaxHandle
  /\ req \in [Request -> [running : BOOLEAN, token : Token,
                          turns : SUBSET Token, handles : SUBSET Handle,
                          base : SUBSET Handle, put : SUBSET Handle]]
  /\ lapsed \in SUBSET Token

Stored == {p.handle : p \in payloads}

\* Slip: a lease unexpired is taken for a lease still one's own.
FenceByExpiry(r) == conv.held

\* The store's compare-and-set: no write lands without the row's own token.
HoldsFence(r) == req[r].token = conv.token

LeaseInit ==
  /\ conv = [token |-> 0, held |-> FALSE, turns |-> {}, handles |-> {}]
  /\ payloads = {}
  /\ handleSeq = 0
  /\ req = [r \in Request |-> Idle]
  /\ lapsed = {}

-----------------------------------------------------------------------------
(* loadConversation: refused while a lease is unexpired.  Issuing a new     *)
(* token is what fences out whoever held it before.                         *)

\* Slips: a lapsed lease is taken over under the token it had; two tokens are
\* issued in one load.
LoadSameToken(r) ==
  /\ ~req[r].running
  /\ ~conv.held
  /\ conv' = [conv EXCEPT !.token = IF @ = 0 THEN 1 ELSE @, !.held = TRUE]
  /\ req' = [req EXCEPT ![r] =
               [running |-> TRUE, token |-> conv'.token, turns |-> conv.turns,
                handles |-> conv.handles, base |-> conv.handles, put |-> {}]]
  /\ UNCHANGED <<payloads, handleSeq, lapsed>>

LoadTwice(r) ==
  /\ ~req[r].running
  /\ ~conv.held
  /\ conv.token < MaxToken
  /\ conv' = [conv EXCEPT !.token = @ + 2, !.held = TRUE]
  /\ req' = [req EXCEPT ![r] =
               [running |-> TRUE, token |-> conv.token + 1, turns |-> conv.turns,
                handles |-> conv.handles, base |-> conv.handles, put |-> {}]]
  /\ UNCHANGED <<payloads, handleSeq, lapsed>>

\* A conversation free for the taking is loaded with a token of its own.
LoadConversation(r) ==
  /\ ~req[r].running
  /\ ~conv.held
  /\ conv.token < MaxToken
  /\ conv' = [conv EXCEPT !.token = @ + 1, !.held = TRUE]
  /\ req' = [req EXCEPT ![r] =
               [running |-> TRUE, token |-> conv.token + 1, turns |-> conv.turns,
                handles |-> conv.handles, base |-> conv.handles, put |-> {}]]
  /\ UNCHANGED <<payloads, handleSeq, lapsed>>

\* The handler records something in its copy of the history.
Record(r) ==
  /\ req[r].running
  /\ req' = [req EXCEPT ![r].turns = @ \union {req[r].token}]
  /\ UNCHANGED <<conv, payloads, handleSeq, lapsed>>

\* A commit failed, or a wake turn failed before any tool ran: the copy goes
\* back to what it was.  Payloads already stored stay behind.
Undo(r) ==
  /\ req[r].running
  /\ req' = [req EXCEPT ![r].turns = @ \ {req[r].token},
                        ![r].handles = req[r].base]
  /\ UNCHANGED <<conv, payloads, handleSeq, lapsed>>

\* putPayload, whose row records the token it was written under.
PutPayload(r) ==
  /\ req[r].running
  /\ HoldsFence(r)
  /\ handleSeq < MaxHandle
  /\ handleSeq' = handleSeq + 1
  /\ payloads' = payloads \union {[handle |-> handleSeq + 1, token |-> req[r].token]}
  /\ req' = [req EXCEPT ![r].put = @ \union {handleSeq + 1}]
  /\ UNCHANGED <<conv, lapsed>>

\* The digest is in hand, so the handle joins the copy's history.
Attach(r) ==
  /\ req[r].running
  /\ \E h \in req[r].put :
       req' = [req EXCEPT ![r].put = @ \ {h}, ![r].handles = @ \union {h}]
  /\ UNCHANGED <<conv, payloads, handleSeq, lapsed>>

-----------------------------------------------------------------------------
(* saveConversation.  A save that fails without landing leaves everything   *)
(* as it was, and one that lands although the caller is told it failed is   *)
(* this same step: either way the request is still running.                 *)

SavedCopy(r, held) ==
  [token |-> req[r].token, held |-> held,
   turns |-> req[r].turns, handles |-> req[r].handles]

\* Part way: the lease's expiry is written back as it was loaded.
Commit(r) ==
  /\ req[r].running
  /\ HoldsFence(r)
  /\ conv' = SavedCopy(r, conv.held)
  /\ UNCHANGED <<payloads, handleSeq, req, lapsed>>

\* At the end: the same, with the lease let go.
ReleaseLease(r) ==
  /\ req[r].running
  /\ HoldsFence(r)
  /\ conv' = SavedCopy(r, FALSE)
  /\ req' = [req EXCEPT ![r] = Idle]
  /\ UNCHANGED <<payloads, handleSeq, lapsed>>

\* StaleLease, from whichever write meets it: the request saves nothing more.
Overtaken(r) ==
  /\ req[r].running
  /\ ~HoldsFence(r)
  /\ req' = [req EXCEPT ![r] = Idle]
  /\ UNCHANGED <<conv, payloads, handleSeq, lapsed>>

\* The process dies, or the last save fails without landing: the lease is
\* left behind, and nothing but its expiry frees the conversation.
Dies(r) ==
  /\ req[r].running
  /\ req' = [req EXCEPT ![r] = Idle]
  /\ UNCHANGED <<conv, payloads, handleSeq, lapsed>>

\* Time: the lease runs out, whoever holds it and whatever they are doing.
Lapse ==
  /\ conv.held
  /\ conv' = [conv EXCEPT !.held = FALSE]
  /\ lapsed' = lapsed \union {conv.token}
  /\ UNCHANGED <<payloads, handleSeq, req>>

-----------------------------------------------------------------------------
\* Slip: a payload not referenced yet is taken for one that never will be.
OrphanUnreferenced(p) == p.handle \notin conv.handles

\* Unreferenced, and written under a token issued to someone else since.
Orphan(p) == p.token # conv.token /\ p.handle \notin conv.handles

\* sweepOrphans.  How old a row must be is the operator's choice, so any of
\* the orphans may be young enough to be passed over.
Sweep ==
  /\ \E old \in (SUBSET {p \in payloads : Orphan(p)}) \ {{}} :
       payloads' = payloads \ old
  /\ UNCHANGED <<conv, handleSeq, req, lapsed>>

LeaseNext ==
  \/ \E r \in Request :
       \/ LoadConversation(r)
       \/ Record(r)
       \/ Undo(r)
       \/ PutPayload(r)
       \/ Attach(r)
       \/ Commit(r)
       \/ ReleaseLease(r)
       \/ Overtaken(r)
       \/ Dies(r)
  \/ Lapse
  \/ Sweep

LeaseSpec == LeaseInit /\ [][LeaseNext]_leaseVars

-----------------------------------------------------------------------------
(* Properties *)

\* No payload is swept that the stored history names, or that the request
\* holding the fence has stored or named and may still save: postgres'
\* sweepOrphans against a turn that is slow, lapsed or part way through.
SweepSpares ==
  /\ conv.handles \subseteq Stored
  /\ \A r \in Request :
       req[r].running /\ HoldsFence(r) => req[r].handles \union req[r].put \subseteq Stored

\* Two requests never both hold the fence, and a request that has lost it did
\* so by outliving its lease: while no lease lapses, leases exclude each other.
LeaseExcludes ==
  /\ \A r, s \in Request :
       req[r].running /\ req[s].running /\ req[r].token = req[s].token => r = s
  /\ \A r \in Request :
       req[r].running /\ req[r].token \notin lapsed => HoldsFence(r) /\ conv.held

\* A save never drops a turn, or a surface, that another request put on
\* record: what it was loaded with is still there when it is written back.
NoLostTurn ==
  [][/\ \A t \in conv.turns \ conv'.turns : t = conv.token /\ conv'.token = conv.token
     /\ \A h \in conv.handles \ conv'.handles :
          \E p \in payloads : p.handle = h /\ p.token = conv.token]_conv

\* The stored row behaves as SerialTurns says.
Serial == INSTANCE SerialTurns WITH turns <- conv.turns, writer <- conv.token
SerialSpec == Serial!Spec
=============================================================================
