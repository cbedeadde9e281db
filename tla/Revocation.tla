------------------------------ MODULE Revocation ------------------------------
(***************************************************************************)
(* One user's sign-ins and their revocation (createAuth), in the servers   *)
(* that share a store of revocation times. A server keeps the time it last *)
(* read for a while, asks again once that is old, and keeps at once what   *)
(* it revokes itself. Signatures, claims, expiry, cookies and ownership    *)
(* are left out.                                                           *)
(*                                                                         *)
(* One clock stands for the servers' own, and a sign-in's time is known by *)
(* the second, of several ticks. The user is kept in memory throughout:    *)
(* fewer than CACHE_ENTRIES are.                                           *)
(***************************************************************************)
EXTENDS Naturals, FiniteSets, Sequences, FiniteSetsExt

CONSTANTS
  Servers, Checks,
  Second,      \* ticks in a second
  Window,      \* NOT_BEFORE_CACHE_MS, in ticks
  MaxTime, MaxSignIns, MaxRevokes

\* What the constants are.
ASSUME RevocationBounds ==
  /\ Second \in Nat \ {0}
  /\ {Window, MaxTime, MaxSignIns, MaxRevokes} \subseteq Nat

VARIABLES
  clock,      \* Date.now()
  notBefore,  \* the store's revocation time; 0: none
  kept,       \* each server's notBefores entry, what it read and when; read 0: none
  revokes,    \* each revoke(): its server, its time, where it is, when it resolved
  tokens,     \* every token issued: when its user signed in, and its auth_time
  checks      \* each identify(): where it is, what it asks of whom, what it found

signInVars == <<clock, notBefore, kept, revokes, tokens, checks>>

NoCheck == [at |-> "none"]

SignInInit ==
  /\ clock = 1 /\ notBefore = 0
  /\ kept = [s \in Servers |-> [at |-> 0, read |-> 0]]
  /\ revokes = <<>> /\ tokens = {}
  /\ checks = [c \in Checks |-> NoCheck]

Seconds(t) == t \div Second

Later(a, b) == IF a > b THEN a ELSE b

-------------------------------------------------------------------------------
(* Tokens.                                                                     *)

\* issue: a token, saying when its user signed in.
Issue(since, auth) ==
  /\ tokens' = tokens \union {[since |-> since, auth |-> auth]}
  /\ UNCHANGED <<clock, notBefore, kept, revokes>>

SignIn ==
  /\ Cardinality({token.since : token \in tokens}) < MaxSignIns
  /\ Issue(clock, Seconds(clock))
  /\ checks' = checks

\* me: a token past half its life is issued again, the same sign-in.
Renew(c) ==
  /\ checks[c].at = "over" /\ checks[c].ok
  /\ Issue(checks[c].token.since, checks[c].token.auth)
  /\ checks' = [checks EXCEPT ![c] = NoCheck]

-------------------------------------------------------------------------------
(* identify, and notBeforeOf.                                                  *)

\* A revocation counts on its own server once revoke() is over, and is promised to
\* count on the others once a time read before that is old.
Promised(r, s) ==
  /\ revokes[r].at = "done"
  /\ clock >= revokes[r].done + (IF s = revokes[r].srv THEN 0 ELSE Window)

\* A revoke of another server that began before it: what that server kept at its end
\* is as fresh as a read, and may lack the later time.
BegunBefore(q, r, s) ==
  revokes[q].srv = s /\ revokes[q].at = "done" /\ revokes[q].time < revokes[r].time

\* It counts there once that is old, too.
CountsOn(r, s) ==
  /\ Promised(r, s)
  /\ s # revokes[r].srv =>
       \A q \in DOMAIN revokes : BegunBefore(q, r, s) => clock >= revokes[q].done + Window

Latest(R) == Max({0} \union {revokes[r].time : r \in R})

\* The latest time that counts on a server now, and the latest promised to.
Counts(s) == Latest({r \in DOMAIN revokes : CountsOn(r, s)})

PromisedTime(s) == Latest({r \in DOMAIN revokes : Promised(r, s)})

Accepts(token, at) == at = 0 \/ token.auth >= Seconds(at)

Judged(k, at) ==
  [at |-> "over", token |-> k.token, due |-> k.due, said |-> k.said, ok |-> Accepts(k.token, at)]

Identify(c, s, token) ==
  LET k == [at |-> "reading", srv |-> s, token |-> token, due |-> Counts(s),
            said |-> PromisedTime(s), asked |-> clock] IN
  /\ checks[c].at = "none"
  /\ checks' = [checks EXCEPT ![c] =
       IF kept[s].read # 0 /\ clock < kept[s].read + Window THEN Judged(k, kept[s].at) ELSE k]
  /\ UNCHANGED <<clock, notBefore, kept, revokes, tokens>>

\* The store reads it.
StoreReads(c) ==
  LET k == checks[c] IN
  /\ k.at = "reading"
  /\ checks' = [checks EXCEPT ![c] =
       [at |-> "read", srv |-> k.srv, token |-> k.token, due |-> k.due, said |-> k.said,
        asked |-> k.asked, found |-> notBefore]]
  /\ UNCHANGED <<clock, notBefore, kept, revokes, tokens>>

\* Slip: what a read began before a revoke found stands again
AnsweredAsRead(c) ==
  LET k == checks[c] IN
  /\ k.at = "read"
  /\ kept' = [kept EXCEPT ![k.srv] = [at |-> k.found, read |-> k.asked]]
  /\ checks' = [checks EXCEPT ![c] = Judged(k, k.found)]
  /\ UNCHANGED <<clock, notBefore, revokes, tokens>>

\* Its answer is as old as the asking, and no earlier than what was kept meanwhile.
Answered(c) ==
  LET k == checks[c]
      at == Later(k.found, kept[k.srv].at) IN
  /\ k.at = "read"
  /\ kept' = [kept EXCEPT ![k.srv] = [at |-> at, read |-> k.asked]]
  /\ checks' = [checks EXCEPT ![c] = Judged(k, at)]
  /\ UNCHANGED <<clock, notBefore, revokes, tokens>>

\* The request it was for goes on, or the store failed.
LetGo(c) ==
  /\ checks[c].at # "none"
  /\ checks' = [checks EXCEPT ![c] = NoCheck]
  /\ UNCHANGED <<clock, notBefore, kept, revokes, tokens>>

-------------------------------------------------------------------------------
(* revoke.                                                                     *)

Under(r) == revokes[r].at \in {"writing", "written"}

Revoke(s) ==
  /\ Len(revokes) < MaxRevokes
  /\ revokes' = Append(revokes, [srv |-> s, time |-> clock, at |-> "writing", done |-> 0])
  /\ UNCHANGED <<clock, notBefore, kept, tokens, checks>>

\* The store keeps the later of two.
StoreWrites(r) ==
  /\ revokes[r].at = "writing"
  /\ notBefore' = Later(revokes[r].time, notBefore)
  /\ revokes' = [revokes EXCEPT ![r].at = "written"]
  /\ UNCHANGED <<clock, kept, tokens, checks>>

\* Slip: it keeps its own time over a later one kept meanwhile
RevokedOver(r) ==
  /\ revokes[r].at = "written"
  /\ kept' = [kept EXCEPT ![revokes[r].srv] = [at |-> revokes[r].time, read |-> clock]]
  /\ revokes' = [revokes EXCEPT ![r].at = "done", ![r].done = clock]
  /\ UNCHANGED <<clock, notBefore, tokens, checks>>

\* Known here at once, and kept as if read now: it may be earlier than what the store
\* holds by now.
Revoked(r) ==
  LET s == revokes[r].srv IN
  /\ revokes[r].at = "written"
  /\ kept' = [kept EXCEPT ![s] = [at |-> Later(revokes[r].time, @.at), read |-> clock]]
  /\ revokes' = [revokes EXCEPT ![r].at = "done", ![r].done = clock]
  /\ UNCHANGED <<clock, notBefore, tokens, checks>>

\* It throws: the store failed, before or after it had written.
RevokeFails(r) ==
  /\ Under(r)
  /\ revokes' = [revokes EXCEPT ![r].at = "failed"]
  /\ UNCHANGED <<clock, notBefore, kept, tokens, checks>>

Tick ==
  /\ clock < MaxTime /\ clock' = clock + 1
  /\ UNCHANGED <<notBefore, kept, revokes, tokens, checks>>

-------------------------------------------------------------------------------
SignInNext ==
  \/ Tick \/ SignIn
  \/ \E c \in Checks :
       \/ \E s \in Servers, token \in tokens : Identify(c, s, token)
       \/ StoreReads(c) \/ Answered(c) \/ LetGo(c) \/ Renew(c)
  \/ \E s \in Servers : Revoke(s)
  \/ \E r \in DOMAIN revokes : StoreWrites(r) \/ Revoked(r) \/ RevokeFails(r)

SignInSpec == SignInInit /\ [][SignInNext]_signInVars

-------------------------------------------------------------------------------
\* Once a revocation counts on a server, no request there is taken for a sign-in of
\* before it, renewed or not, whatever reads and revokes of other times were under way
\* meanwhile, there and elsewhere; and none is refused but for a revocation begun after
\* the second it signed in in. (notBeforeOf, identify, revoke, me)
RevokedInTime ==
  \A c \in Checks : checks[c].at = "over" =>
    LET signedIn == Seconds(checks[c].token.since) IN
    IF checks[c].ok
    THEN signedIn >= Seconds(checks[c].due)
    ELSE \E r \in DOMAIN revokes : signedIn < Seconds(revokes[r].time)

\* "Refuse every sign-in of this user's before now: here at once, on every server
\* within 30 s." (packages/auth/src/index.ts:159) It does not hold where a server's
\* own revoke, begun before another's, is over after it: revoke() keeps its earlier
\* time as read when it is over.
RevokedOnEveryServer ==
  \A c \in Checks : checks[c].at = "over" /\ checks[c].ok =>
    Seconds(checks[c].token.since) >= Seconds(checks[c].said)
===============================================================================
