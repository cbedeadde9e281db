---------------------------- MODULE OAuthRefresh ----------------------------
(***************************************************************************)
(* One user's OAuth credential for one MCP server, kept in a store that    *)
(* several processes share: connecting, refreshing, disconnecting.         *)
(*                                                                         *)
(* A refresh spends the credential's refresh token at the authorization    *)
(* server and writes what it gets over the credential it began with, under *)
(* a lease of the store's row; a compare-and-set on the sealed value is    *)
(* what orders it with the refreshes, connects and disconnects of other    *)
(* processes.  Each process runs one refresh of a user at a time.          *)
(*                                                                         *)
(* Sealed values are numbered as they are sealed and never repeat, so a    *)
(* number stands for one; creds has what each opens to.                    *)
(***************************************************************************)
EXTENDS Naturals, Sequences

CONSTANTS
  Process,
  Policies,      \* how the authorization server may treat a spent token
  MaxTokens,     \* bound: refresh tokens issued
  MaxSealed,     \* bound: credentials sealed
  MaxRenewals,   \* bound: leases asked for
  MaxDisconnects,\* bound: disconnects
  WriteTries     \* WRITE_TRIES

AllPolicies == {"rotates", "keeps", "either"}

ASSUME OAuthAssumption ==
  /\ Policies \subseteq AllPolicies /\ Policies # {}
  /\ {MaxTokens, MaxSealed, MaxRenewals, MaxDisconnects} \subseteq Nat
  /\ WriteTries \in Nat \ {0}

VARIABLES
  creds,     \* every credential sealed: [account, token], token 0 for none
  row,       \* the sealed value the store holds, 0 for none
  lease,     \* the holder of the row's refresh lease, 0 for none
  policy,
  issued,    \* refresh tokens the authorization server has issued
  live,      \* those of them it still takes
  renewal,   \* each process's refresh
  renewals,  \* the last holder name made up
  connect,   \* the callback under way
  leaving,   \* the disconnect under way
  stored,    \* history: sealed values the store has held
  gone,      \* history: accounts deleted from the store, or connected over
  lapsed,    \* history: holders whose lease ran out
  lost,      \* history: tokens the app let go of with no way to revoke them
  orphans    \* history: tokens revoked because they could not be stored

vars == <<creds, row, lease, policy, issued, live, renewal, renewals, connect,
          leaving, stored, gone, lapsed, lost, orphans>>

Sealed == 1 .. Len(creds)
TokenOf(s) == creds[s].token
NoRenewal == [pc |-> "off", before |-> 0, holder |-> 0, fresh |-> 0, tries |-> 0]
NoConnect == [pc |-> "off", fresh |-> 0, before |-> 0, tries |-> 0]
NoLeaving == [pc |-> "off", read |-> 0, revoked |-> FALSE, times |-> 0]

Init ==
  /\ creds = <<>> /\ row = 0 /\ lease = 0
  /\ policy \in Policies
  /\ issued = 0 /\ live = {}
  /\ renewal = [p \in Process |-> NoRenewal] /\ renewals = 0
  /\ connect = NoConnect /\ leaving = NoLeaving
  /\ stored = {} /\ gone = {} /\ lapsed = {} /\ lost = {} /\ orphans = {}

Become(p, r) == renewal' = [renewal EXCEPT ![p] = r]
Goes(p, pc) == Become(p, [renewal[p] EXCEPT !.pc = pc])
Ends(p) == Become(p, NoRenewal)

Account(s) == IF s = 0 THEN {} ELSE {creds[s].account}

\* put and delete that land: either ends the row's lease.
Hold(s) ==
  /\ row' = s
  /\ lease' = 0
  /\ stored' = stored \union ({s} \ {0})
  /\ gone' = gone \union (Account(row) \ Account(s))

Keep == UNCHANGED <<row, lease, stored, gone>>
AtServer == <<creds, issued, live>>
Others == <<policy, connect, leaving>>

-----------------------------------------------------------------------------
(* Connecting: the callback                                                 *)

Accounts == {creds[s].account : s \in Sealed}

\* The code is exchanged: tokens for a new account, sealed.
Exchange ==
  /\ connect.pc = "off"
  /\ Len(creds) < MaxSealed
  /\ \/ /\ issued < MaxTokens
        /\ issued' = issued + 1
        /\ live' = live \union {issued + 1}
        /\ creds' = Append(creds, [account |-> Len(creds) + 1, token |-> issued + 1])
     \/ /\ creds' = Append(creds, [account |-> Len(creds) + 1, token |-> 0])
        /\ UNCHANGED <<issued, live>>
  /\ connect' = [pc |-> "read", fresh |-> Len(creds) + 1, before |-> 0, tries |-> 1]
  /\ Keep
  /\ UNCHANGED <<policy, renewal, renewals, leaving, lapsed, lost, orphans>>

ConnectReads ==
  /\ connect.pc = "read"
  /\ connect' = [connect EXCEPT !.pc = "put", !.before = row]
  /\ Keep
  /\ UNCHANGED <<AtServer, policy, renewal, renewals, leaving, lapsed, lost, orphans>>

\* The newest connect wins over whatever was kept, in three tries.
ConnectPuts ==
  /\ connect.pc = "put"
  /\ IF row = connect.before
     THEN /\ Hold(connect.fresh)
          /\ connect' = NoConnect
     ELSE /\ Keep
          /\ connect' = IF connect.tries < 3
                        THEN [connect EXCEPT !.pc = "read", !.tries = @ + 1]
                        ELSE NoConnect
  /\ UNCHANGED <<AtServer, policy, renewal, renewals, leaving, lapsed, lost, orphans>>

\* A store that throws, or a crash: the callback fails, its put landed or not.
ConnectFails ==
  /\ connect.pc \in {"read", "put"}
  /\ connect' = NoConnect
  /\ \/ connect.pc = "put" /\ row = connect.before /\ Hold(connect.fresh)
     \/ Keep
  /\ UNCHANGED <<AtServer, policy, renewal, renewals, leaving, lapsed, lost, orphans>>

-----------------------------------------------------------------------------
(* Disconnecting                                                            *)

LeaveReads ==
  /\ leaving.pc = "off"
  /\ leaving.times < MaxDisconnects
  /\ leaving' = [pc |-> IF row # 0 THEN "revoke" ELSE "delete", read |-> row,
                 revoked |-> FALSE, times |-> leaving.times + 1]
  /\ Keep
  /\ UNCHANGED <<AtServer, policy, renewal, renewals, connect, lapsed, lost, orphans>>

\* Where there is no endpoint, or it fails, the credential is deleted anyway.
LeaveRevokes ==
  /\ leaving.pc = "revoke"
  /\ \/ /\ live' = live \ {TokenOf(leaving.read)}
        /\ leaving' = [leaving EXCEPT !.pc = "delete", !.revoked = TRUE]
     \/ /\ leaving' = [leaving EXCEPT !.pc = "delete"]
        /\ UNCHANGED live
  /\ Keep
  /\ UNCHANGED <<creds, issued, policy, renewal, renewals, connect, lapsed, lost, orphans>>

LeaveDeletes ==
  /\ leaving.pc = "delete"
  /\ Hold(0)
  /\ leaving' = [NoLeaving EXCEPT !.times = leaving.times]
  /\ UNCHANGED <<AtServer, policy, renewal, renewals, connect, lapsed, lost, orphans>>

LeaveFails ==
  /\ leaving.pc # "off"
  /\ leaving' = [NoLeaving EXCEPT !.times = leaving.times]
  /\ Keep
  /\ UNCHANGED <<AtServer, policy, renewal, renewals, connect, lapsed, lost, orphans>>

-----------------------------------------------------------------------------
(* Refreshing.  Where the code reads the store again only to give up early, *)
(* as newer does before it drops a credential, the write that follows checks *)
(* the same thing, and is the step.                                         *)

\* A 401, for the credential the store still holds: with any other, the
\* store's is used instead and nothing is done.
Begin(p) ==
  /\ renewal[p].pc = "off"
  /\ row # 0
  /\ renewals < MaxRenewals
  /\ renewals' = renewals + 1
  /\ Become(p, [NoRenewal EXCEPT !.pc = IF TokenOf(row) = 0 THEN "drop" ELSE "lease",
                                 !.before = row, !.holder = renewals + 1])
  /\ Keep
  /\ UNCHANGED <<AtServer, Others, lapsed, lost, orphans>>

\* Slip: the row's lease is taken over from whoever holds it.
FreeToAll(p) == row = renewal[p].before

Free(p) == row = renewal[p].before /\ lease \in {0, renewal[p].holder}

TakeLease(p) ==
  /\ renewal[p].pc = "lease"
  /\ Free(p)
  /\ lease' = renewal[p].holder
  /\ Goes(p, "ask")
  /\ UNCHANGED <<row, stored, gone, AtServer, renewals, Others, lapsed, lost, orphans>>

\* Another has it, until what that one wrote is found, or the deadline.
GiveUpOnLease(p) ==
  /\ renewal[p].pc = "lease"
  /\ ~Free(p)
  /\ Ends(p)
  /\ Keep
  /\ UNCHANGED <<AtServer, renewals, Others, lapsed, lost, orphans>>

Spent(old, new) == IF new = old THEN live ELSE (live \ {old}) \union {new}

\* The authorization server takes the token and issues another, or the same
\* one again, and its answer arrives.
Granted(p) ==
  LET r == renewal[p]
      old == TokenOf(r.before)
      fresh(t) == [account |-> creds[r.before].account, token |-> t]
  IN  /\ r.pc = "ask"
      /\ old \in live
      /\ Len(creds) < MaxSealed
      /\ \E new \in {old, issued + 1} :
           /\ new = old => policy # "rotates"
           /\ new # old => policy # "keeps" /\ issued < MaxTokens
           /\ issued' = IF new = old THEN issued ELSE new
           /\ live' = Spent(old, new)
           /\ creds' = Append(creds, fresh(new))
      /\ Become(p, [r EXCEPT !.pc = "write", !.fresh = Len(creds) + 1, !.tries = 1])
      /\ Keep
      /\ UNCHANGED <<renewals, Others, lapsed, lost, orphans>>

\* It refuses, for good, a token it no longer takes.
Refusal(p) ==
  /\ renewal[p].pc = "ask"
  /\ TokenOf(renewal[p].before) \notin live
  /\ Goes(p, "drop")
  /\ Keep
  /\ UNCHANGED <<AtServer, renewals, Others, lapsed, lost, orphans>>

\* No answer, or none of OAuth's: the token may have been spent all the same.
\* The lease is given back, or that fails too and it is left to lapse.
Outage(p) ==
  LET old == TokenOf(renewal[p].before)
  IN  /\ renewal[p].pc = "ask"
      /\ \/ UNCHANGED <<issued, live, lost>>
         \/ /\ old \in live /\ policy # "keeps" /\ issued < MaxTokens
            /\ issued' = issued + 1
            /\ live' = Spent(old, issued + 1)
            /\ lost' = lost \union {issued + 1}
      /\ lease' \in IF Free(p) THEN {0, lease} ELSE {lease}
      /\ Ends(p)
      /\ UNCHANGED <<row, stored, gone, creds, renewals, Others, lapsed, orphans>>

\* Slip: whatever the store holds is deleted.
DropWhatever(p) ==
  /\ renewal[p].pc = "drop"
  /\ IF row # 0 THEN Hold(0) ELSE Keep
  /\ Ends(p)
  /\ UNCHANGED <<AtServer, renewals, Others, lapsed, lost, orphans>>

\* A refusal deletes the credential, unless another write came first.
Drop(p) ==
  /\ renewal[p].pc = "drop"
  /\ IF row = renewal[p].before THEN Hold(0) ELSE Keep
  /\ Ends(p)
  /\ UNCHANGED <<AtServer, renewals, Others, lapsed, lost, orphans>>

\* Slip: written over whatever the store holds.
MayPutOver(p) == renewal[p].fresh # row

MayPut(p) == row = renewal[p].before

InHand(p) == IF renewal[p].fresh = 0 THEN {} ELSE {TokenOf(renewal[p].fresh)}

\* A try whose answer is lost is tried again; after the last, the store is
\* read, and what it got counts as stored, or is lost.
TryAgain(p) ==
  LET r == renewal[p]
  IN  IF r.tries < WriteTries
      THEN Become(p, [r EXCEPT !.tries = @ + 1]) /\ UNCHANGED lost
      ELSE Ends(p) /\ lost' \in {lost \union InHand(p), IF row' = r.fresh THEN lost
                                                     ELSE lost \union InHand(p)}

\* write: a try that lands, its answer had or lost.
WriteLands(p) ==
  /\ renewal[p].pc = "write"
  /\ MayPut(p)
  /\ Hold(renewal[p].fresh)
  /\ (Ends(p) /\ UNCHANGED lost) \/ TryAgain(p)
  /\ UNCHANGED <<AtServer, renewals, Others, lapsed, orphans>>

\* A try that throws with nothing written, or the read after it does.
WriteThrows(p) ==
  /\ renewal[p].pc = "write"
  /\ Keep
  /\ TryAgain(p)
  /\ UNCHANGED <<AtServer, renewals, Others, lapsed, orphans>>

\* The row has changed: by another, unless it is an earlier try that landed.
WriteRefused(p) ==
  LET r == renewal[p]
  IN  /\ r.pc = "write"
      /\ ~MayPut(p)
      /\ IF r.tries > 1 /\ row = r.fresh THEN Ends(p) ELSE Goes(p, "orphaned")
      /\ Keep
      /\ UNCHANGED <<AtServer, renewals, Others, lapsed, lost, orphans>>

\* Slip: the token spent is revoked, not the one issued
RevocableOld(old, new) == {old} \ {new}

\* The refresh token is revoked if it is a new one, else only its access token.
Revocable(old, new) == {new} \ {old}

Orphaned(p) ==
  LET r == renewal[p]
      revoked == Revocable(TokenOf(r.before), TokenOf(r.fresh))
  IN  /\ r.pc = "orphaned"
      /\ \/ live' = live \ revoked /\ orphans' = orphans \union revoked /\ UNCHANGED lost
         \/ lost' = lost \union InHand(p) /\ UNCHANGED <<live, orphans>>
      /\ Ends(p)
      /\ Keep
      /\ UNCHANGED <<creds, issued, renewals, Others, lapsed>>

\* The process dies, the store throws, or the authorization server cannot be
\* found: a lease it has is left to lapse.
Fails(p) ==
  /\ renewal[p].pc # "off"
  /\ lost' = lost \union InHand(p)
  /\ Ends(p)
  /\ Keep
  /\ UNCHANGED <<AtServer, renewals, Others, lapsed, orphans>>

-----------------------------------------------------------------------------
(* Time, and the authorization server's own doing                           *)

Lapse ==
  /\ lease # 0
  /\ lease' = 0
  /\ lapsed' = lapsed \union {lease}
  /\ UNCHANGED <<row, stored, gone, AtServer, renewal, renewals, Others, lost, orphans>>

\* A token expires, or the user ends the app's access there.
Withdraw(t) ==
  /\ t \in live
  /\ live' = live \ {t}
  /\ Keep
  /\ UNCHANGED <<creds, issued, renewal, renewals, Others, lapsed, lost, orphans>>

Renew(p) ==
  \/ TakeLease(p)
  \/ GiveUpOnLease(p)
  \/ Granted(p)
  \/ Refusal(p)
  \/ Outage(p)
  \/ Drop(p)
  \/ WriteLands(p)
  \/ WriteThrows(p)
  \/ WriteRefused(p)
  \/ Orphaned(p)

Next ==
  \/ Exchange
  \/ ConnectReads
  \/ ConnectPuts
  \/ ConnectFails
  \/ LeaveReads
  \/ LeaveRevokes
  \/ LeaveDeletes
  \/ LeaveFails
  \/ \E p \in Process : Begin(p) \/ Renew(p) \/ Fails(p)
  \/ Lapse
  \/ \E t \in live : Withdraw(t)

Spec == Init /\ [][Next]_vars

-----------------------------------------------------------------------------
(* Properties *)

TypeOK ==
  /\ creds \in Seq([account : 1 .. MaxSealed, token : 0 .. issued])
  /\ row \in stored \union {0} /\ stored \subseteq Sealed
  /\ lease \in 0 .. renewals
  /\ policy \in Policies
  /\ issued \in 0 .. MaxTokens
  /\ live \subseteq 1 .. issued
  /\ \A p \in Process :
       /\ renewal[p].before \in stored \union {0}
       /\ renewal[p].holder \in 0 .. renewals
       /\ renewal[p].fresh \in Sealed \union {0}
       /\ renewal[p].tries \in 0 .. WriteTries
       /\ (renewal[p].fresh = 0) = (renewal[p].tries = 0)
  /\ connect.fresh \in Sealed \union {0} /\ connect.before \in stored \union {0}
  /\ leaving.read \in stored \union {0} /\ leaving.times \in 0 .. MaxDisconnects
  /\ gone \subseteq Accounts
  /\ lapsed \subseteq 1 .. renewals

\* An account disconnected, or connected over, is never stored again, whatever
\* refresh of it was on its way or retried its write (docs/reference/mcp.md,
\* disconnect: "A refresh on its way, in this process or another, then can't
\* write what it got").
GoneStaysGone == row # 0 => creds[row].account \notin gone

\* Processes whose lease has not lapsed do not spend one refresh token twice
\* (refresh: "across processes, the store's lease does the same").
OneSpender ==
  \A p, q \in Process :
    /\ p # q
    /\ renewal[p].pc \in {"ask", "write"} /\ renewal[q].pc \in {"ask", "write"}
    /\ renewal[p].before = renewal[q].before
    => renewal[p].holder \in lapsed \/ renewal[q].holder \in lapsed

Deletes == row # 0 /\ row' = 0

\* Only a disconnect deletes a credential whose refresh token is still good:
\* a refusal never takes a newer credential with it (drop).
DropsOnlyDead ==
  [][Deletes /\ leaving' = leaving => TokenOf(row) \notin live]_vars

\* What is revoked as no one's is not what the store holds; and a token a refresh
\* was issued is stored, in hand, revoked, or lost for a reason the code tells of:
\* none is just left live (write, orphaned).
OrphansRevoked ==
  /\ row # 0 => TokenOf(row) \notin orphans
  /\ \A s \in Sealed :
       LET t == TokenOf(s)
           connected == \E c \in Sealed : creds[c].account = c /\ TokenOf(c) = t
       IN  t \in live /\ ~connected =>
             \/ \E x \in stored : TokenOf(x) = t
             \/ \E p \in Process : t \in InHand(p)
             \/ t \in lost

\* A disconnect whose revocation succeeded leaves no token good of what it
\* deletes (docs/reference/mcp.md: "The tokens are revoked", then "The
\* credential is deleted").
DisconnectRevokes ==
  [][Deletes /\ leaving.pc = "delete" /\ leaving' # leaving /\ leaving.revoked
       => TokenOf(row) \notin live]_vars
=============================================================================
