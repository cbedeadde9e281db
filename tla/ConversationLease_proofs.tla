---------------------- MODULE ConversationLease_proofs ----------------------
(***************************************************************************)
(* What ConversationLease says of every number of requests, leases and     *)
(* payloads: its types, that leases exclude each other, that a sweep       *)
(* spares what may still be saved, that no turn is lost, and that the row  *)
(* behaves as SerialTurns.                                                 *)
(*                                                                         *)
(* The argument rests on who holds the fence.  The token a running request *)
(* carries is never newer than the row's (TokensIssued), and no two carry  *)
(* the same (TokensUnique), so at most one can write.  What that one was   *)
(* loaded with is still what the row holds, apart from its own turn        *)
(* (HolderCurrent) and from handles whose payloads it stored itself        *)
(* (HolderHandles).  Neither half is inductive without the first.          *)
(***************************************************************************)
EXTENDS ConversationLease, TLAPS

Holder(r) == req[r].running /\ HoldsFence(r)

\* Handles whose payload was stored under the row's present token.
Own == {h \in Handle : \E p \in payloads : p.handle = h /\ p.token = conv.token}

\* Nobody carries a token that was not issued yet, and none such has lapsed.
TokensIssued ==
  /\ \A r \in Request : req[r].running => req[r].token <= conv.token
  /\ \A t \in lapsed : t <= conv.token

\* A token is carried by one request.
TokensUnique ==
  \A r, s \in Request :
    req[r].running /\ req[s].running /\ req[r].token = req[s].token => r = s

\* A request whose lease has not lapsed holds the fence, on a held row.
UnlapsedHolds ==
  \A r \in Request :
    req[r].running /\ req[r].token \notin lapsed => HoldsFence(r) /\ conv.held

\* Apart from its own turn, the holder's copy has the row's turns.
HolderCurrent ==
  \A r \in Request :
    Holder(r) => req[r].turns \ {req[r].token} = conv.turns \ {req[r].token}

\* The holder's handles, and the row's, are those it was loaded with and some
\* it stored itself; and those it was loaded with are still on the row.
HolderHandles ==
  \A r \in Request :
    Holder(r) => /\ req[r].put \subseteq Own
                 /\ req[r].handles \subseteq req[r].base \union Own
                 /\ req[r].base \subseteq req[r].handles
                 /\ req[r].base \subseteq conv.handles
                 /\ conv.handles \subseteq req[r].base \union Own

\* Every handle on the row has its payload.
RowStored == \A h \in conv.handles : \E p \in payloads : p.handle = h

IInv ==
  /\ LeaseTypeOK
  /\ TokensIssued
  /\ TokensUnique
  /\ UnlapsedHolds
  /\ HolderCurrent
  /\ HolderHandles
  /\ RowStored

-----------------------------------------------------------------------------
(* Types *)

LEMMA TypeStep ==
  ASSUME LeaseTypeOK, [LeaseNext]_leaseVars
  PROVE  LeaseTypeOK'
<1> USE BoundsAssumption DEF LeaseTypeOK, Token, Handle
<1>1. ASSUME NEW r \in Request, LoadConversation(r) PROVE LeaseTypeOK'
  <2>1. conv.token + 1 \in Token
    BY <1>1 DEF LoadConversation
  <2>2. conv' \in [token : Token, held : BOOLEAN,
                   turns : SUBSET Token, handles : SUBSET Handle]
    BY <1>1, <2>1 DEF LoadConversation
  <2>3. req' \in [Request -> [running : BOOLEAN, token : Token,
                              turns : SUBSET Token, handles : SUBSET Handle,
                              base : SUBSET Handle, put : SUBSET Handle]]
    BY <1>1, <2>1 DEF LoadConversation
  <2> QED
    BY <1>1, <2>2, <2>3 DEF LoadConversation
<1>2. ASSUME NEW r \in Request, Record(r) PROVE LeaseTypeOK'
  BY <1>2 DEF Record
<1>3. ASSUME NEW r \in Request, Undo(r) PROVE LeaseTypeOK'
  <2>1. req' = [req EXCEPT ![r] = [req[r] EXCEPT !.turns = @ \ {req[r].token},
                                                 !.handles = req[r].base]]
    BY <1>3 DEF Undo
  <2>2. [req[r] EXCEPT !.turns = @ \ {req[r].token}, !.handles = req[r].base]
          \in [running : BOOLEAN, token : Token,
               turns : SUBSET Token, handles : SUBSET Handle,
               base : SUBSET Handle, put : SUBSET Handle]
    OBVIOUS
  <2> QED
    BY <1>3, <2>1, <2>2 DEF Undo
<1>4. ASSUME NEW r \in Request, PutPayload(r) PROVE LeaseTypeOK'
  <2>1. handleSeq + 1 \in Handle
    BY <1>4 DEF PutPayload
  <2>2. payloads' \in SUBSET [handle : Handle, token : Token]
    BY <1>4, <2>1 DEF PutPayload
  <2>3. req' \in [Request -> [running : BOOLEAN, token : Token,
                              turns : SUBSET Token, handles : SUBSET Handle,
                              base : SUBSET Handle, put : SUBSET Handle]]
    BY <1>4, <2>1 DEF PutPayload
  <2> QED
    BY <1>4, <2>1, <2>2, <2>3 DEF PutPayload
<1>5. ASSUME NEW r \in Request, Attach(r) PROVE LeaseTypeOK'
  <2> PICK h \in req[r].put :
             req' = [req EXCEPT ![r].put = @ \ {h}, ![r].handles = @ \union {h}]
    BY <1>5 DEF Attach
  <2>1. h \in Handle
    OBVIOUS
  <2>2. req' = [req EXCEPT ![r] = [req[r] EXCEPT !.put = @ \ {h},
                                                 !.handles = @ \union {h}]]
    OBVIOUS
  <2>3. [req[r] EXCEPT !.put = @ \ {h}, !.handles = @ \union {h}]
          \in [running : BOOLEAN, token : Token,
               turns : SUBSET Token, handles : SUBSET Handle,
               base : SUBSET Handle, put : SUBSET Handle]
    BY <2>1
  <2> QED
    BY <1>5, <2>2, <2>3 DEF Attach
<1>6. ASSUME NEW r \in Request, Commit(r) PROVE LeaseTypeOK'
  BY <1>6 DEF Commit, SavedCopy
<1>7. ASSUME NEW r \in Request, ReleaseLease(r) PROVE LeaseTypeOK'
  BY <1>7 DEF ReleaseLease, SavedCopy, Idle
<1>8. ASSUME NEW r \in Request, Overtaken(r) PROVE LeaseTypeOK'
  BY <1>8 DEF Overtaken, Idle
<1>9. ASSUME NEW r \in Request, Dies(r) PROVE LeaseTypeOK'
  BY <1>9 DEF Dies, Idle
<1>10. CASE Lapse
  BY <1>10 DEF Lapse
<1>11. CASE Sweep
  BY <1>11 DEF Sweep
<1>12. CASE UNCHANGED leaseVars
  BY <1>12 DEF leaseVars
<1> QED
  BY <1>1, <1>2, <1>3, <1>4, <1>5, <1>6, <1>7, <1>8, <1>9, <1>10, <1>11, <1>12
  DEF LeaseNext

\* Every variable keeps its type: the tokens, handles and copies of
\* ConversationLease are what its comments say, for any bounds.
THEOREM TypeCorrect == LeaseSpec => []LeaseTypeOK
<1>1. LeaseInit => LeaseTypeOK
  BY BoundsAssumption DEF LeaseInit, LeaseTypeOK, Idle, Token, Handle
<1> QED
  BY <1>1, TypeStep, PTL DEF LeaseSpec

-----------------------------------------------------------------------------
(* The inductive invariant *)

LEMMA InitIInv == LeaseInit => IInv
<1> SUFFICES ASSUME LeaseInit PROVE IInv
  OBVIOUS
<1>1. LeaseTypeOK
  BY BoundsAssumption DEF LeaseInit, LeaseTypeOK, Idle, Token, Handle
<1>2. \A r \in Request : ~req[r].running
  BY DEF LeaseInit, Idle
<1> QED
  BY <1>1, <1>2 DEF LeaseInit, IInv, TokensIssued, TokensUnique, UnlapsedHolds,
     HolderCurrent, HolderHandles, Holder, RowStored

\* Who runs, and under which token, after each step: a token already carried,
\* or the next one, which only LoadConversation issues and nobody else can have.
LEMMA TokensStep ==
  ASSUME IInv, [LeaseNext]_leaseVars
  PROVE  TokensIssued' /\ TokensUnique' /\ UnlapsedHolds'
<1> USE DEF IInv, LeaseTypeOK, TokensIssued, TokensUnique, UnlapsedHolds, HoldsFence, Token
<1>1. ASSUME NEW r \in Request, LoadConversation(r)
      PROVE  TokensIssued' /\ TokensUnique' /\ UnlapsedHolds'
  <2>1. \A s \in Request : s # r => req'[s] = req[s]
    BY <1>1 DEF LoadConversation
  <2>2. req'[r].running /\ req'[r].token = conv.token + 1
    BY <1>1 DEF LoadConversation
  <2>3. conv'.token = conv.token + 1 /\ conv'.held /\ conv.token \in Nat /\ lapsed' = lapsed
    BY <1>1, BoundsAssumption DEF LoadConversation
  <2>4. \A s \in Request : req[s].running => req[s].token \in lapsed
    BY <1>1 DEF LoadConversation
  <2>5. \A s \in Request : req[s].running => req[s].token <= conv.token /\ req[s].token \in Nat
    BY BoundsAssumption
  <2>6. conv.token + 1 \notin lapsed
    BY <2>3, BoundsAssumption
  <2>7. TokensIssued'
    BY <2>1, <2>2, <2>3, <2>5, BoundsAssumption
  <2>8. TokensUnique'
    BY <2>1, <2>2, <2>3, <2>5
  <2>9. UnlapsedHolds'
    BY <2>1, <2>2, <2>3, <2>4
  <2> QED
    BY <2>7, <2>8, <2>9
<1>2. ASSUME NEW r \in Request,
             Record(r) \/ Undo(r) \/ PutPayload(r) \/ Attach(r) \/ Commit(r)
      PROVE  TokensIssued' /\ TokensUnique' /\ UnlapsedHolds'
  <2>1. \A s \in Request : req'[s].running = req[s].running /\ req'[s].token = req[s].token
    <3>1. CASE Record(r)
      BY <3>1 DEF Record
    <3>2. CASE Undo(r)
      BY <3>2 DEF Undo
    <3>3. CASE PutPayload(r)
      BY <3>3 DEF PutPayload
    <3>4. CASE Attach(r)
      BY <3>4 DEF Attach
    <3>5. CASE Commit(r)
      BY <3>5 DEF Commit
    <3> QED
      BY <1>2, <3>1, <3>2, <3>3, <3>4, <3>5
  <2>2. conv'.token = conv.token /\ conv'.held = conv.held /\ lapsed' = lapsed
    BY <1>2 DEF Record, Undo, PutPayload, Attach, Commit, SavedCopy
  <2> QED
    BY <2>1, <2>2
<1>3. ASSUME NEW r \in Request, ReleaseLease(r)
      PROVE  TokensIssued' /\ TokensUnique' /\ UnlapsedHolds'
  <2>1. ~req'[r].running /\ \A s \in Request : s # r => req'[s] = req[s]
    BY <1>3 DEF ReleaseLease, Idle
  <2>2. /\ conv'.token = conv.token /\ lapsed' = lapsed
        /\ req[r].running /\ req[r].token = conv.token
    BY <1>3 DEF ReleaseLease, SavedCopy
  <2>3. \A s \in Request : s # r /\ req[s].running => req[s].token \in lapsed
    BY <2>2
  <2> QED
    BY <2>1, <2>2, <2>3
<1>4. ASSUME NEW r \in Request, Overtaken(r) \/ Dies(r)
      PROVE  TokensIssued' /\ TokensUnique' /\ UnlapsedHolds'
  <2>1. ~req'[r].running /\ \A s \in Request : s # r => req'[s] = req[s]
    BY <1>4 DEF Overtaken, Dies, Idle
  <2>2. conv' = conv /\ lapsed' = lapsed
    BY <1>4 DEF Overtaken, Dies
  <2> QED
    BY <2>1, <2>2
<1>5. CASE Lapse
  <2>1. conv'.token = conv.token /\ req' = req /\ lapsed' = lapsed \union {conv.token}
    BY <1>5 DEF Lapse
  <2>2. conv.token <= conv.token
    BY BoundsAssumption
  <2>3. \A s \in Request : req[s].running /\ req[s].token \notin lapsed' => FALSE
    BY <2>1
  <2> QED
    BY <2>1, <2>2, <2>3
<1>6. CASE Sweep \/ UNCHANGED leaseVars
  BY <1>6 DEF Sweep, leaseVars
<1> QED
  BY <1>1, <1>2, <1>3, <1>4, <1>5, <1>6 DEF LeaseNext

\* What the holder has in hand, and what the row names, after each step.
LEMMA HolderStep ==
  ASSUME IInv, [LeaseNext]_leaseVars
  PROVE  HolderCurrent' /\ HolderHandles' /\ RowStored'
<1> USE DEF IInv, LeaseTypeOK, HolderCurrent, HolderHandles, Holder, HoldsFence, Token
<1> DEFINE Goal == HolderCurrent' /\ HolderHandles' /\ RowStored'
<1>1. ASSUME NEW r \in Request, LoadConversation(r) PROVE Goal
  <2>1. \A s \in Request : s # r => req'[s] = req[s]
    BY <1>1 DEF LoadConversation
  <2>2. /\ req'[r].token = conv.token + 1 /\ req'[r].turns = conv.turns
        /\ req'[r].handles = conv.handles /\ req'[r].base = conv.handles
        /\ req'[r].put = {}
    BY <1>1 DEF LoadConversation
  <2>3. /\ conv'.token = conv.token + 1 /\ conv.token \in Nat
        /\ conv'.turns = conv.turns /\ conv'.handles = conv.handles
        /\ payloads' = payloads
    BY <1>1, BoundsAssumption DEF LoadConversation
  <2>4. \A s \in Request : Holder(s)' => s = r
    BY <2>1, <2>3, BoundsAssumption DEF TokensIssued
  <2>5. HolderCurrent'
    BY <2>2, <2>3, <2>4
  <2>6. HolderHandles'
    BY <2>2, <2>3, <2>4
  <2>7. RowStored'
    BY <2>3 DEF RowStored
  <2> QED
    BY <2>5, <2>6, <2>7
<1>2. ASSUME NEW r \in Request, Record(r) PROVE Goal
  <2>1. /\ req'[r].turns = req[r].turns \union {req[r].token}
        /\ req'[r].handles = req[r].handles /\ req'[r].base = req[r].base
        /\ req'[r].put = req[r].put
        /\ \A s \in Request : req'[s].token = req[s].token /\ req'[s].running = req[s].running
        /\ \A s \in Request : s # r => req'[s] = req[s]
    BY <1>2 DEF Record
  <2>2. conv' = conv /\ payloads' = payloads
    BY <1>2 DEF Record
  <2>3. Own' = Own
    BY <2>2 DEF Own
  <2>4. HolderCurrent'
    BY <2>1, <2>2
  <2>5. HolderHandles'
    BY <2>1, <2>2, <2>3
  <2> QED
    BY <2>2, <2>4, <2>5 DEF RowStored
<1>3. ASSUME NEW r \in Request, Undo(r) PROVE Goal
  <2>1. /\ req'[r].turns = req[r].turns \ {req[r].token}
        /\ req'[r].handles = req[r].base /\ req'[r].base = req[r].base
        /\ req'[r].put = req[r].put
        /\ \A s \in Request : req'[s].token = req[s].token /\ req'[s].running = req[s].running
        /\ \A s \in Request : s # r => req'[s] = req[s]
    BY <1>3 DEF Undo
  <2>2. conv' = conv /\ payloads' = payloads
    BY <1>3 DEF Undo
  <2>3. Own' = Own
    BY <2>2 DEF Own
  <2>4. HolderCurrent'
    BY <2>1, <2>2
  <2>5. HolderHandles'
    BY <2>1, <2>2, <2>3
  <2> QED
    BY <2>2, <2>4, <2>5 DEF RowStored
<1>4. ASSUME NEW r \in Request, PutPayload(r) PROVE Goal
  <2> DEFINE h == handleSeq + 1
  <2>1. /\ req'[r].put = req[r].put \union {h}
        /\ req'[r].handles = req[r].handles /\ req'[r].base = req[r].base
        /\ \A s \in Request : req'[s].token = req[s].token /\ req'[s].running = req[s].running
                             /\ req'[s].turns = req[s].turns
        /\ \A s \in Request : s # r => req'[s] = req[s]
    BY <1>4 DEF PutPayload
  <2>2. conv' = conv /\ payloads' = payloads \union {[handle |-> h, token |-> conv.token]}
    BY <1>4 DEF PutPayload
  <2>3. h \in Handle
    BY <1>4, BoundsAssumption DEF PutPayload, Handle
  <2>4. Own \subseteq Own' /\ h \in Own'
    <3> DEFINE new == [handle |-> h, token |-> conv.token]
    <3>1. new \in payloads' /\ new.handle = h /\ new.token = conv'.token
      BY <2>2
    <3>2. h \in Own'
      BY <3>1, <2>3 DEF Own, Handle
    <3>3. \A p \in payloads : p \in payloads'
      BY <2>2
    <3>4. Own \subseteq Own'
      BY <2>2, <3>3 DEF Own, Handle
    <3> QED
      BY <3>2, <3>4
  <2>5. HolderCurrent'
    BY <2>1, <2>2
  <2>6. HolderHandles'
    BY <2>1, <2>2, <2>4
  <2>7. RowStored'
    BY <2>2 DEF RowStored
  <2> QED
    BY <2>5, <2>6, <2>7
<1>5. ASSUME NEW r \in Request, Attach(r) PROVE Goal
  <2>1. PICK h \in req[r].put :
             req' = [req EXCEPT ![r].put = @ \ {h}, ![r].handles = @ \union {h}]
    BY <1>5 DEF Attach
  <2>2. /\ req'[r].put = req[r].put \ {h}
        /\ req'[r].handles = req[r].handles \union {h} /\ req'[r].base = req[r].base
        /\ \A s \in Request : req'[s].token = req[s].token /\ req'[s].running = req[s].running
                             /\ req'[s].turns = req[s].turns
        /\ \A s \in Request : s # r => req'[s] = req[s]
    BY <2>1
  <2>3. conv' = conv /\ payloads' = payloads
    BY <1>5 DEF Attach
  <2>4. Own' = Own
    BY <2>3 DEF Own
  <2>5. HolderCurrent'
    BY <2>2, <2>3
  <2>6. HolderHandles'
    BY <2>2, <2>3, <2>4
  <2> QED
    BY <2>3, <2>5, <2>6 DEF RowStored
<1>6. ASSUME NEW r \in Request, Commit(r) \/ ReleaseLease(r) PROVE Goal
  <2>1. /\ conv'.turns = req[r].turns /\ conv'.handles = req[r].handles
        /\ conv'.token = conv.token /\ payloads' = payloads /\ Holder(r)
    BY <1>6 DEF Commit, ReleaseLease, SavedCopy
  <2>2. \A s \in Request : Holder(s)' => s = r /\ req'[r] = req[r]
    <3>1. CASE Commit(r)
      BY <2>1, <3>1 DEF Commit, TokensUnique
    <3>2. CASE ReleaseLease(r)
      <4>1. ~req'[r].running /\ \A s \in Request : s # r => req'[s] = req[s]
        BY <3>2 DEF ReleaseLease, Idle
      <4> QED
        BY <4>1, <2>1 DEF TokensUnique
    <3> QED
      BY <1>6, <3>1, <3>2
  <2>3. Own' = Own
    BY <2>1 DEF Own
  <2>4. HolderCurrent'
    BY <2>1, <2>2
  <2>5. HolderHandles'
    BY <2>1, <2>2, <2>3
  <2>6. RowStored'
    BY <2>1 DEF RowStored, Own
  <2> QED
    BY <2>4, <2>5, <2>6
<1>7. ASSUME NEW r \in Request, Overtaken(r) \/ Dies(r) PROVE Goal
  <2>1. ~req'[r].running /\ \A s \in Request : s # r => req'[s] = req[s]
    BY <1>7 DEF Overtaken, Dies, Idle
  <2>2. conv' = conv /\ payloads' = payloads
    BY <1>7 DEF Overtaken, Dies
  <2>3. Own' = Own
    BY <2>2 DEF Own
  <2>4. \A s \in Request : Holder(s)' => Holder(s) /\ req'[s] = req[s]
    BY <2>1, <2>2
  <2>5. HolderCurrent'
    BY <2>2, <2>4
  <2>6. HolderHandles'
    BY <2>2, <2>3, <2>4
  <2> QED
    BY <2>2, <2>5, <2>6 DEF RowStored
<1>8. CASE Lapse
  <2>1. /\ conv'.token = conv.token /\ conv'.turns = conv.turns /\ conv'.handles = conv.handles
        /\ req' = req /\ payloads' = payloads
    BY <1>8 DEF Lapse
  <2>2. Own' = Own
    BY <2>1 DEF Own
  <2> QED
    BY <2>1, <2>2 DEF RowStored
<1>9. CASE Sweep
  <2>1. PICK old \in SUBSET {p \in payloads : Orphan(p)} : payloads' = payloads \ old
    BY <1>9 DEF Sweep
  <2>2. conv' = conv /\ req' = req
    BY <1>9 DEF Sweep
  <2>3. Own' = Own
    BY <2>1, <2>2 DEF Own, Orphan
  <2>4. RowStored'
    BY <2>1, <2>2 DEF RowStored, Orphan
  <2> QED
    BY <2>2, <2>3, <2>4
<1>10. CASE UNCHANGED leaseVars
  <2>1. Own' = Own
    BY <1>10 DEF leaseVars, Own
  <2> QED
    BY <1>10, <2>1 DEF leaseVars, RowStored
<1> QED
  BY <1>1, <1>2, <1>3, <1>4, <1>5, <1>6, <1>7, <1>8, <1>9, <1>10 DEF LeaseNext

LEMMA Invariance == LeaseSpec => []IInv
<1>1. IInv /\ [LeaseNext]_leaseVars => IInv'
  <2> SUFFICES ASSUME IInv, [LeaseNext]_leaseVars PROVE IInv'
    OBVIOUS
  <2>1. LeaseTypeOK'
    BY TypeStep DEF IInv
  <2> QED
    BY <2>1, TokensStep, HolderStep DEF IInv
<1> QED
  BY InitIInv, <1>1, PTL DEF LeaseSpec

-----------------------------------------------------------------------------
(* The properties the runs check *)

\* sweepOrphans deletes nothing the stored history names, nor anything the
\* request that holds the fence has stored and may still save.
THEOREM SweepIsSafe == LeaseSpec => []SweepSpares
<1>1. IInv => SweepSpares
  BY DEF IInv, LeaseTypeOK, HolderHandles, Holder, RowStored, SweepSpares, Stored, Own
<1> QED
  BY Invariance, <1>1, PTL

\* loadConversation's expiry check and its new token, together: two requests
\* never both hold the fence, and one loses it only by outliving its lease.
THEOREM MutualExclusion == LeaseSpec => []LeaseExcludes
<1>1. IInv => LeaseExcludes
  BY DEF IInv, TokensUnique, UnlapsedHolds, LeaseExcludes
<1> QED
  BY Invariance, <1>1, PTL

\* One step of the row, under the invariant: its turns and handles change
\* only in a save, which keeps everything that is not the saver's own.
LEMMA RowStep ==
  ASSUME IInv, [LeaseNext]_leaseVars
  PROVE  \/ conv'.turns = conv.turns /\ conv'.handles = conv.handles
            /\ (conv'.token = conv.token \/ conv'.token = conv.token + 1)
         \/ \E r \in Request :
               /\ Holder(r)
               /\ conv'.token = conv.token
               /\ conv'.turns = req[r].turns
               /\ conv'.handles = req[r].handles
<1>1. ASSUME NEW r \in Request, Commit(r) \/ ReleaseLease(r)
      PROVE  /\ Holder(r) /\ conv'.token = conv.token
             /\ conv'.turns = req[r].turns /\ conv'.handles = req[r].handles
  BY <1>1 DEF Commit, ReleaseLease, SavedCopy, Holder, HoldsFence
<1>2. ASSUME NEW r \in Request, LoadConversation(r)
      PROVE  conv'.turns = conv.turns /\ conv'.handles = conv.handles /\ conv'.token = conv.token + 1
  BY <1>2 DEF LoadConversation, IInv, LeaseTypeOK
<1>3. CASE Lapse
  BY <1>3 DEF Lapse, IInv, LeaseTypeOK
<1>4. ASSUME NEW r \in Request,
             \/ Record(r) \/ Undo(r) \/ PutPayload(r) \/ Attach(r)
             \/ Overtaken(r) \/ Dies(r)
      PROVE  conv' = conv
  BY <1>4 DEF Record, Undo, PutPayload, Attach, Overtaken, Dies
<1>5. CASE Sweep \/ UNCHANGED leaseVars
  BY <1>5 DEF Sweep, leaseVars
<1> QED
  BY <1>1, <1>2, <1>3, <1>4, <1>5 DEF LeaseNext

\* saveConversation never drops a turn or a surface another request put on
\* record, however late it comes.
THEOREM NothingLost == LeaseSpec => NoLostTurn
<1> DEFINE Kept ==
      /\ \A t \in conv.turns \ conv'.turns : t = conv.token /\ conv'.token = conv.token
      /\ \A h \in conv.handles \ conv'.handles :
           \E p \in payloads : p.handle = h /\ p.token = conv.token
<1>1. IInv /\ [LeaseNext]_leaseVars => [Kept]_conv
  <2> SUFFICES ASSUME IInv, [LeaseNext]_leaseVars PROVE Kept
    OBVIOUS
  <2>1. CASE conv'.turns = conv.turns /\ conv'.handles = conv.handles
    BY <2>1
  <2>2. ASSUME NEW r \in Request, Holder(r), conv'.token = conv.token,
               conv'.turns = req[r].turns, conv'.handles = req[r].handles
        PROVE  Kept
    <3>1. req[r].turns \ {req[r].token} = conv.turns \ {req[r].token}
      BY <2>2 DEF IInv, HolderCurrent
    <3>2. conv.handles \ req[r].handles \subseteq Own
      BY <2>2 DEF IInv, HolderHandles
    <3> QED
      BY <2>2, <3>1, <3>2 DEF Holder, HoldsFence, Own
  <2> QED
    BY <2>1, <2>2, RowStep
<1> QED
  BY Invariance, <1>1, PTL DEF LeaseSpec, NoLostTurn

\* The lease, the fence and the copies implement SerialTurns: one writer at a
\* time, adding or taking back its own turn.
THEOREM ImplementsSerialTurns == LeaseSpec => SerialSpec
<1>1. LeaseInit => Serial!Init
  BY DEF LeaseInit, Serial!Init
<1>2. IInv /\ [LeaseNext]_leaseVars => [Serial!Next]_(Serial!vars)
  <2> SUFFICES ASSUME IInv, [LeaseNext]_leaseVars PROVE [Serial!Next]_(Serial!vars)
    OBVIOUS
  <2> USE DEF Serial!Next, Serial!vars, Serial!TakeOver, Serial!Write
  <2>1. CASE conv'.turns = conv.turns /\ (conv'.token = conv.token \/ conv'.token = conv.token + 1)
    BY <2>1
  <2>2. ASSUME NEW r \in Request, Holder(r), conv'.token = conv.token,
               conv'.turns = req[r].turns
        PROVE  Serial!Write
    <3>1. req[r].turns \ {conv.token} = conv.turns \ {conv.token}
      BY <2>2 DEF IInv, HolderCurrent, Holder, HoldsFence
    <3>2. CASE conv.token \in req[r].turns
      BY <2>2, <3>1, <3>2
    <3>3. CASE conv.token \notin req[r].turns
      BY <2>2, <3>1, <3>3
    <3> QED
      BY <3>2, <3>3
  <2> QED
    BY <2>1, <2>2, RowStep
<1> QED
  BY Invariance, <1>1, <1>2, PTL DEF LeaseSpec, SerialSpec, Serial!Spec
=============================================================================
