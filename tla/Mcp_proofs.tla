------------------------------ MODULE Mcp_proofs ------------------------------
(***************************************************************************)
(* What OAuthRefresh says of any number of processes, tokens and tries: an  *)
(* account that was let go stays gone, one refresh token is spent by one    *)
(* process at a time while leases last, a refusal deletes nothing good, and *)
(* no token is left behind. And what McpLinks says of any number of users,  *)
(* calls, changes and drops, and any cap: the pool sheds what it may and no *)
(* more, a call is on the account its check found, and every connection is  *)
(* some link's to close.                                                    *)
(*                                                                          *)
(* What orders the refreshes is that the store never holds a sealed value   *)
(* again that it has let go of: a put finds the row it began with, and what *)
(* it puts is new (EachSound, ConnectIsNew). So a refresh whose row has     *)
(* moved on is harmless for ever, and of those whose row has not, the lease *)
(* knows the one (EachSound, HoldersApart).                                 *)
(*                                                                          *)
(* What keeps the connections apart is each link's bookkeeping: what it     *)
(* uses and dials is its own and one account's, that of its last check      *)
(* unless that is to be hung up first (Uses), and it knows how many calls   *)
(* hold it (Counts). So a call that finds a client, or waits for the        *)
(* dialing, gets what it asked for (Placed), and what the pool shuts is     *)
(* idle. Most steps change one link (LinkSteps); those on the pool are      *)
(* taken apart into what they shut, hold and let go (ShutSound, HoldSound,  *)
(* NewSound, ReleaseSound), after lemmas on what trim leaves of a sequence  *)
(* (LeftFacts, TrimmedSheds).                                               *)
(***************************************************************************)
EXTENDS OAuthRefresh, McpLinks, SequenceTheorems, FiniteSetTheorems, WellFoundedInduction, TLAPS

-------------------------------------------------------------------------------
(* Credentials                                                                 *)

Cred    == [account : Nat, token : Nat]
Stages  == {"off", "lease", "ask", "write", "orphaned", "drop"}
Renewal == [pc : Stages, before : Nat, holder : Nat, fresh : Nat, tries : Nat]
Connect == [pc : {"off", "read", "put"}, fresh : Nat, before : Nat, tries : Nat]
Leaving == [pc : {"off", "revoke", "delete"}, read : Nat, revoked : BOOLEAN, times : Nat]

Typed ==
  /\ creds \in Seq(Cred)
  /\ row \in Nat /\ lease \in Nat /\ renewals \in Nat
  /\ issued \in Nat /\ live \subseteq 1 .. issued
  /\ renewal \in [Process -> Renewal]
  /\ connect \in Connect /\ leaving \in Leaving

\* Accounts are numbered as they connect; those gone have been stored.
StoreTyped ==
  /\ row \in stored \union {0} /\ stored \subseteq Sealed
  /\ \A s \in Sealed : creds[s].account \in 1 .. s /\ creds[s].token \in 0 .. issued
  /\ \A a \in gone : \E s \in stored : creds[s].account = a

\* A callback brings an account that has never been stored.
ConnectIsNew ==
  connect.pc # "off" =>
    /\ connect.fresh \in Sealed
    /\ \A s \in stored : creds[s].account # creds[connect.fresh].account

\* A refresh is of a credential that was stored, for its account; while that is
\* the row, what it got has not been written, and it has the lease.
Sound(r) ==
  /\ r.pc # "off" => r.before \in stored /\ r.holder \in 1 .. renewals
  /\ IF r.pc \in {"write", "orphaned"}
     THEN r.fresh \in Sealed /\ creds[r.fresh].account = creds[r.before].account
     ELSE r.fresh = 0
  /\ r.pc = "write" /\ row = r.before => r.fresh \notin stored
  /\ r.pc = "drop" => TokenOf(r.before) \notin live
  /\ r.pc \in {"ask", "write"} /\ row = r.before /\ r.holder \notin lapsed => lease = r.holder

EachSound == \A p \in Process : Sound(renewal[p])

HoldersApart ==
  \A p, q \in Process :
    p # q /\ renewal[p].pc # "off" /\ renewal[q].pc # "off" => renewal[p].holder # renewal[q].holder

\* Where a token that a refresh was issued is.
HasHome(t) ==
  \/ \E x \in stored : TokenOf(x) = t
  \/ \E p \in Process : t \in InHand(p)
  \/ t \in lost

InAnAccount(t) == \E c \in Sealed : creds[c].account = c /\ TokenOf(c) = t

Accounted == \A s \in Sealed : TokenOf(s) \in live /\ ~InAnAccount(TokenOf(s)) => HasHome(TokenOf(s))

IInv ==
  /\ Typed
  /\ StoreTyped
  /\ ConnectIsNew
  /\ EachSound
  /\ HoldersApart
  /\ GoneStaysGone
  /\ OneSpender
  /\ Accounted

-----------------------------------------------------------------------------
(* What becomes of the tokens that are revoked as no one's                  *)

\* Every refresh brings a token of its own, or none does and none is revoked.
TokensApart ==
  /\ policy \in {"rotates", "keeps"}
  /\ orphans \subseteq 1 .. issued
  /\ policy = "rotates" =>
       /\ \A s, t \in Sealed : TokenOf(s) = TokenOf(t) /\ TokenOf(s) # 0 => s = t
       /\ \A p \in Process : renewal[p].fresh # 0 => TokenOf(renewal[p].fresh) # 0
  /\ policy = "keeps" =>
       /\ orphans = {}
       /\ \A p \in Process : renewal[p].fresh # 0 =>
            TokenOf(renewal[p].fresh) = TokenOf(renewal[p].before)

\* What a refresh is to write is its own; it has been written only by a try.
FreshApart ==
  \A p \in Process : renewal[p].fresh # 0 =>
    /\ renewal[p].tries # 0
    /\ \A q \in Process : renewal[q].fresh = renewal[p].fresh => q = p
    /\ connect.pc # "off" => connect.fresh # renewal[p].fresh
    /\ renewal[p].pc = "write" /\ renewal[p].fresh \in stored => renewal[p].tries > 1
    /\ renewal[p].pc = "orphaned" => row # renewal[p].fresh

\* The credential of a revoked token is nowhere it could be stored from.
OrphansNowhere ==
  \A s \in Sealed : TokenOf(s) \in orphans =>
    /\ row # s
    /\ \A q \in Process : renewal[q].fresh # s
    /\ connect.pc # "off" => connect.fresh # s

OInv ==
  /\ TokensApart
  /\ FreshApart
  /\ OrphansNowhere

-----------------------------------------------------------------------------
(* What steps have in common                                                *)

\* Credentials stay as they were sealed.
Extends ==
  /\ creds' \in Seq(Cred) /\ Sealed \subseteq Sealed'
  /\ \A s \in Sealed : creds'[s] = creds[s]

LEMMA SealedTyped ==
  ASSUME Typed
  PROVE  /\ Len(creds) \in Nat /\ 0 \notin Sealed
         /\ \A s \in Sealed : s \in Nat /\ creds[s] \in Cred
<1>1. creds \in Seq(Cred)  BY DEF Typed
<1>2. Len(creds) \in Nat  BY <1>1, LenProperties
<1>3. \A s \in 1 .. Len(creds) : creds[s] \in Cred  BY <1>1, ElementOfSeq
<1> QED  BY <1>2, <1>3 DEF Sealed

LEMMA SameCreds == ASSUME Typed, creds' = creds PROVE Extends /\ Sealed' = Sealed
BY DEF Typed, Extends, Sealed

LEMMA MoreCreds ==
  ASSUME Typed, NEW account \in Nat, NEW token \in Nat,
         creds' = Append(creds, [account |-> account, token |-> token])
  PROVE  LET n == Len(creds) + 1
         IN  /\ Extends
             /\ n \in Nat /\ n \notin Sealed /\ Sealed' = Sealed \union {n}
             /\ creds'[n].account = account /\ creds'[n].token = token
<1> DEFINE cred == [account |-> account, token |-> token]
<1>1. creds \in Seq(Cred) /\ Len(creds) \in Nat  BY SealedTyped DEF Typed
<1>2. cred \in Cred  BY DEF Cred
<1>3. creds' = Append(creds, cred)  OBVIOUS
<1>4. cred.account = account /\ cred.token = token  OBVIOUS
<1> HIDE DEF cred
<1>5. /\ creds' \in Seq(Cred) /\ Len(creds') = Len(creds) + 1
      /\ \A s \in 1 .. Len(creds) : creds'[s] = creds[s]
      /\ creds'[Len(creds) + 1] = cred
  BY <1>1, <1>2, <1>3, AppendProperties
<1>6. Extends /\ Sealed' = Sealed \union {Len(creds) + 1} /\ Len(creds) + 1 \notin Sealed
  BY <1>1, <1>5 DEF Extends, Sealed
<1> QED  BY <1>1, <1>4, <1>5, <1>6

LEMMA Becomes ==
  ASSUME Typed, NEW p \in Process, NEW r \in Renewal, Become(p, r)
  PROVE  /\ renewal' \in [Process -> Renewal] /\ renewal'[p] = r
         /\ \A q \in Process : q # p => renewal'[q] = renewal[q]
BY DEF Typed, Become

LEMMA NoneIsRenewal == NoRenewal \in Renewal
BY DEF NoRenewal, Renewal, Stages

\* A refresh left as it was is still sound: what it would drop is as dead, and
\* its row as much its own.
LEMMA SoundKept ==
  ASSUME IInv, NEW q \in Process, Extends, row' = row, stored' = stored,
         renewals' \in Nat, renewals <= renewals', lapsed \subseteq lapsed',
         \A t \in 0 .. issued : t \in live' => t \in live,
         /\ renewal'[q].pc = renewal[q].pc /\ renewal'[q].before = renewal[q].before
         /\ renewal'[q].holder = renewal[q].holder /\ renewal'[q].fresh = renewal[q].fresh,
         /\ renewal[q].pc \in {"ask", "write"} /\ row = renewal[q].before
         /\ renewal[q].holder \notin lapsed'
         => lease' = renewal[q].holder
  PROVE  Sound(renewal[q])'
<1>1. Sound(renewal[q])  BY DEF IInv, EachSound
<1>2. renewals \in Nat  BY DEF IInv, Typed
<1>3. renewal[q].pc # "off" =>
        /\ renewal[q].before \in Sealed
        /\ creds'[renewal[q].before] = creds[renewal[q].before]
        /\ creds[renewal[q].before].token \in 0 .. issued
  BY <1>1 DEF Sound, IInv, StoreTyped, Extends
<1>4. renewal'[q].pc # "off" =>
        renewal'[q].before \in stored' /\ renewal'[q].holder \in 1 .. renewals'
  BY <1>1, <1>2 DEF Sound
<1>5. IF renewal'[q].pc \in {"write", "orphaned"}
      THEN /\ renewal'[q].fresh \in Sealed'
           /\ creds'[renewal'[q].fresh].account = creds'[renewal'[q].before].account
      ELSE renewal'[q].fresh = 0
  BY <1>1, <1>3 DEF Sound, Extends
<1>6. renewal'[q].pc = "write" /\ row' = renewal'[q].before => renewal'[q].fresh \notin stored'
  BY <1>1 DEF Sound
<1>7. renewal'[q].pc = "drop" => creds'[renewal'[q].before].token \notin live'
  BY <1>1, <1>3 DEF Sound, TokenOf
<1>8. /\ renewal'[q].pc \in {"ask", "write"} /\ row' = renewal'[q].before
      /\ renewal'[q].holder \notin lapsed'
      => lease' = renewal'[q].holder
  OBVIOUS
<1> QED  BY <1>4, <1>5, <1>6, <1>7, <1>8 DEF Sound, TokenOf

LEMMA SoundOff ==
  ASSUME NEW q \in Process, renewal'[q] = NoRenewal
  PROVE  Sound(renewal[q])'
BY DEF Sound, NoRenewal

\* The row moves on, to what has never been stored or to nothing: no refresh of
\* it, or of any before it, can write any more.
LEMMA SoundPast ==
  ASSUME IInv, NEW q \in Process, NEW s \in Nat, s \notin stored, Hold(s),
         UNCHANGED <<creds, live, renewals>>,
         /\ renewal'[q].pc = renewal[q].pc /\ renewal'[q].before = renewal[q].before
         /\ renewal'[q].holder = renewal[q].holder /\ renewal'[q].fresh = renewal[q].fresh
  PROVE  Sound(renewal[q])'
<1>1. Sound(renewal[q])  BY DEF IInv, EachSound
<1>2. Sealed' = Sealed /\ stored \subseteq stored' /\ row' = s
  BY DEF Sealed, Hold
<1>3. renewal[q].pc # "off" => row' # renewal[q].before  BY <1>1, <1>2 DEF Sound
<1> QED  BY <1>1, <1>2, <1>3 DEF Sound, TokenOf

LEMMA PairsKept ==
  ASSUME IInv, lapsed \subseteq lapsed',
         \A q \in Process :
           \/ renewal'[q].pc = "off"
           \/ /\ renewal[q].pc # "off"
              /\ renewal'[q].before = renewal[q].before /\ renewal'[q].holder = renewal[q].holder
              /\ renewal'[q].pc \in {"ask", "write"} => renewal[q].pc \in {"ask", "write"}
  PROVE  OneSpender' /\ HoldersApart'
<1>1. OneSpender'  BY DEF IInv, OneSpender
<1>2. HoldersApart'  BY DEF IInv, HoldersApart
<1> QED  BY <1>1, <1>2

LEMMA RowKept ==
  ASSUME IInv, Extends, UNCHANGED <<row, stored, gone>>, issued' \in Nat, issued <= issued',
         \A s \in Sealed' :
           s \in Sealed \/ (creds'[s].account \in 1 .. s /\ creds'[s].token \in 0 .. issued')
  PROVE  StoreTyped' /\ GoneStaysGone'
<1>1. StoreTyped /\ issued \in Nat  BY DEF IInv, Typed
<1>2. StoreTyped'
  <2>1. row' \in stored' \union {0} /\ stored' \subseteq Sealed'
    BY <1>1 DEF StoreTyped, Extends
  <2>2. \A s \in Sealed' : creds'[s].account \in 1 .. s /\ creds'[s].token \in 0 .. issued'
    BY <1>1 DEF StoreTyped, Extends
  <2>3. \A a \in gone' : \E s \in stored' : creds'[s].account = a
    BY <1>1 DEF StoreTyped, Extends
  <2> QED  BY <2>1, <2>2, <2>3 DEF StoreTyped
<1>3. GoneStaysGone'
  BY <1>1 DEF IInv, GoneStaysGone, StoreTyped, Extends
<1> QED  BY <1>2, <1>3

LEMMA ConnectKept ==
  ASSUME IInv, Extends, stored' = stored,
         connect'.pc = "off" \/ (connect.pc # "off" /\ connect'.fresh = connect.fresh)
  PROVE  ConnectIsNew'
BY DEF IInv, ConnectIsNew, StoreTyped, Extends

LEMMA RowLeft ==
  ASSUME IInv, UNCHANGED <<creds, row, stored, gone>>, issued' \in Nat, issued <= issued',
         connect'.pc = "off" \/ (connect.pc # "off" /\ connect'.fresh = connect.fresh)
  PROVE  StoreTyped' /\ ConnectIsNew' /\ GoneStaysGone'
<1>1. Extends /\ Sealed' = Sealed  BY SameCreds DEF IInv
<1>2. \A s \in Sealed' :
        s \in Sealed \/ (creds'[s].account \in 1 .. s /\ creds'[s].token \in 0 .. issued')
  BY <1>1
<1> QED  BY <1>1, <1>2, RowKept, ConnectKept

LEMMA RowMoves ==
  ASSUME IInv, NEW s \in Nat, s \in Sealed \union {0}, Hold(s), UNCHANGED <<creds, issued>>,
         s # 0 => creds[s].account \notin gone,
         \/ connect'.pc = "off"
         \/ /\ connect' = connect
            /\ s # 0 => creds[s].account # creds[connect.fresh].account
  PROVE  StoreTyped' /\ ConnectIsNew' /\ GoneStaysGone'
<1>1. StoreTyped /\ 0 \notin Sealed  BY SealedTyped DEF IInv
<1>2. /\ Sealed' = Sealed /\ row' = s
      /\ stored' = stored \union ({s} \ {0})
      /\ gone' = gone \union (Account(row) \ Account(s))
  BY DEF Sealed, Hold
<1>3. row # 0 => row \in stored /\ Account(row) = {creds[row].account}
  BY <1>1 DEF StoreTyped, Account
<1>4. row = 0 => Account(row) = {}  BY DEF Account
<1>5. s # 0 => Account(s) = {creds[s].account}  BY DEF Account
<1>6. StoreTyped'
  <2>1. row' \in stored' \union {0} /\ stored' \subseteq Sealed'
    BY <1>1, <1>2 DEF StoreTyped
  <2>2. \A a \in gone' : \E x \in stored' : creds'[x].account = a
    BY <1>1, <1>2, <1>3, <1>4 DEF StoreTyped
  <2>3. \A x \in Sealed' : creds'[x].account \in 1 .. x /\ creds'[x].token \in 0 .. issued'
    BY <1>1, <1>2 DEF StoreTyped
  <2> QED  BY <2>1, <2>2, <2>3 DEF StoreTyped
<1>7. ConnectIsNew'
  BY <1>2 DEF IInv, ConnectIsNew
<1>8. GoneStaysGone'
  BY <1>2, <1>5 DEF GoneStaysGone
<1> QED  BY <1>6, <1>7, <1>8

\* A token keeps its home while it is in hand, or leaves a hand for another.
LEMMA AccountedKept ==
  ASSUME IInv, Extends, stored \subseteq stored', stored' \subseteq Sealed', lost \subseteq lost',
         \A t \in 0 .. issued : t \in live' => t \in live,
         \A p \in Process : renewal[p].fresh # 0 =>
           LET t == TokenOf(renewal[p].fresh)
           IN  \/ renewal'[p].fresh = renewal[p].fresh
               \/ t \in lost'
               \/ t \notin live'
               \/ \E x \in stored' \intersect Sealed : TokenOf(x) = t,
         \A s \in Sealed' : s \in Sealed \/ creds'[s].account = s
                           \/ \E p \in Process : renewal'[p].fresh = s
  PROVE  Accounted'
<1> SUFFICES ASSUME NEW s \in Sealed', creds'[s].token \in live', ~InAnAccount(creds[s].token)'
             PROVE  HasHome(creds[s].token)'
  BY DEF Accounted, TokenOf
<1>0. 0 \notin Sealed'
  <2>1. creds' \in Seq(Cred)  BY DEF Extends
  <2>2. Len(creds') \in Nat  BY <2>1, LenProperties
  <2> QED  BY <2>2 DEF Sealed
<1>1. CASE s \in Sealed
  <2> DEFINE t == creds[s].token
  <2>1. creds'[s] = creds[s] /\ t \in 0 .. issued /\ t \in live
    BY <1>1 DEF Extends, IInv, StoreTyped
  <2>2. ~InAnAccount(t)
    <3>1. ASSUME NEW c \in Sealed, creds[c].account = c, creds[c].token = t
          PROVE  FALSE
      <4>1. c \in Sealed' /\ creds'[c].account = c /\ creds'[c].token = t
        BY <3>1 DEF Extends
      <4> QED  BY <2>1, <4>1 DEF InAnAccount, TokenOf
    <3> QED  BY <3>1 DEF InAnAccount, TokenOf
  <2>3. HasHome(t)  BY <1>1, <2>1, <2>2 DEF IInv, Accounted, TokenOf
  <2>4. CASE \E x \in stored : creds[x].token = t
    <3>1. PICK x \in stored : creds[x].token = t  BY <2>4
    <3>2. x \in stored' /\ creds'[x].token = t
      BY <3>1 DEF IInv, StoreTyped, Extends
    <3> QED  BY <2>1, <3>2 DEF HasHome, TokenOf
  <2>5. CASE t \in lost  BY <2>1, <2>5 DEF HasHome
  <2>6. CASE \E p \in Process : t \in InHand(p)
    <3>1. PICK p \in Process : renewal[p].fresh # 0 /\ TokenOf(renewal[p].fresh) = t
      BY <2>6 DEF InHand
    <3>2. renewal[p].fresh \in Sealed
      BY <3>1 DEF IInv, EachSound, Sound
    <3>3. CASE renewal'[p].fresh = renewal[p].fresh
      <4>1. creds'[renewal'[p].fresh].token = t
        BY <3>1, <3>2, <3>3 DEF Extends, TokenOf
      <4> QED  BY <2>1, <3>1, <3>3, <4>1 DEF HasHome, InHand, TokenOf
    <3>4. CASE t \in lost'  BY <2>1, <3>4 DEF HasHome
    <3>5. CASE \E x \in stored' \intersect Sealed : TokenOf(x) = t
      <4>1. PICK x \in stored' \intersect Sealed : creds[x].token = t  BY <3>5 DEF TokenOf
      <4>2. creds'[x].token = t  BY <4>1 DEF Extends
      <4> QED  BY <2>1, <4>1, <4>2 DEF HasHome, TokenOf
    <3>6. t \in live'  BY <2>1
    <3> QED  BY <3>1, <3>3, <3>4, <3>5, <3>6
  <2> QED  BY <2>3, <2>4, <2>5, <2>6 DEF HasHome, TokenOf
<1>2. CASE creds'[s].account = s  BY <1>2 DEF InAnAccount, TokenOf
<1>3. CASE \E p \in Process : renewal'[p].fresh = s
  <2>1. PICK p \in Process : renewal'[p].fresh = s  BY <1>3
  <2>2. s # 0  BY <1>0
  <2> QED  BY <2>1, <2>2 DEF HasHome, InHand, TokenOf
<1> QED  BY <1>1, <1>2, <1>3

-----------------------------------------------------------------------------
(* The inductive invariant                                                  *)

LEMMA Initially == ASSUME Init PROVE IInv
<1> USE DEF Init
<1>1. Sealed = {}  BY EmptySeq DEF Sealed
<1>2. Typed
  <2>1. creds \in Seq(Cred)  BY EmptySeq
  <2>2. connect \in Connect /\ leaving \in Leaving
    BY DEF NoConnect, NoLeaving, Connect, Leaving
  <2> QED  BY <2>1, <2>2, NoneIsRenewal DEF Typed
<1>3. StoreTyped  BY <1>1 DEF StoreTyped
<1>4. ConnectIsNew  BY DEF ConnectIsNew, NoConnect
<1>5. EachSound  BY DEF EachSound, Sound, NoRenewal
<1>6. HoldersApart /\ OneSpender  BY DEF HoldersApart, OneSpender, NoRenewal
<1>7. GoneStaysGone  BY DEF GoneStaysGone
<1>8. Accounted  BY <1>1 DEF Accounted
<1> QED  BY <1>2, <1>3, <1>4, <1>5, <1>6, <1>7, <1>8 DEF IInv

\* A step of the callback, of a disconnect or of the authorization server that
\* leaves the store and the refreshes alone.
LEMMA QuietKeeps ==
  ASSUME IInv, UNCHANGED <<creds, row, lease, issued, renewal, renewals, stored, gone, lapsed, lost>>,
         live' \subseteq live, connect' \in Connect, leaving' \in Leaving,
         connect'.pc = "off" \/ (connect.pc # "off" /\ connect'.fresh = connect.fresh)
  PROVE  IInv'
<1>1. Extends /\ Sealed' = Sealed  BY SameCreds DEF IInv
<1>2. Typed'  BY DEF IInv, Typed
<1>3. issued \in Nat /\ renewals \in Nat  BY DEF IInv, Typed
<1>4. StoreTyped' /\ ConnectIsNew' /\ GoneStaysGone'  BY <1>3, RowLeft
<1>5. EachSound'
  <2> SUFFICES ASSUME NEW q \in Process  PROVE Sound(renewal[q])'
    BY DEF EachSound
  <2>1. Sound(renewal[q])  BY DEF IInv, EachSound
  <2>2. /\ renewal[q].pc \in {"ask", "write"} /\ row = renewal[q].before
        /\ renewal[q].holder \notin lapsed'
        => lease' = renewal[q].holder
    BY <2>1 DEF Sound
  <2> QED  BY <1>1, <1>3, <2>2, SoundKept
<1>6. OneSpender' /\ HoldersApart'  BY DEF IInv, OneSpender, HoldersApart
<1>7. Accounted'
  <2>1. stored \subseteq Sealed  BY DEF IInv, StoreTyped
  <2> QED  BY <1>1, <2>1, AccountedKept
<1> QED  BY <1>2, <1>4, <1>5, <1>6, <1>7 DEF IInv

LEMMA StutterKeeps == ASSUME IInv, UNCHANGED vars PROVE IInv'
<1>1. UNCHANGED <<creds, row, lease, issued, renewal, renewals, stored, gone, lapsed, lost>>
      /\ live' = live /\ connect' = connect /\ leaving' = leaving
  BY DEF vars
<1>2. CASE connect.pc = "off"  BY <1>1, <1>2, QuietKeeps DEF IInv, Typed
<1>3. CASE connect.pc # "off"  BY <1>1, <1>3, QuietKeeps DEF IInv, Typed
<1> QED  BY <1>2, <1>3

\* The row moves on to s, or is deleted.
LEMMA MoveKeeps ==
  ASSUME IInv, NEW s \in Nat, s \in Sealed \union {0}, s \notin stored, Hold(s),
         UNCHANGED <<creds, issued, live, renewals, lapsed>>, lost \subseteq lost',
         connect' \in Connect, leaving' \in Leaving, renewal' \in [Process -> Renewal],
         s # 0 => creds[s].account \notin gone,
         \/ connect'.pc = "off"
         \/ connect' = connect /\ (s # 0 => creds[s].account # creds[connect.fresh].account),
         \A q \in Process :
           \/ /\ renewal'[q] = NoRenewal
              /\ renewal[q].fresh # 0 =>
                   renewal[q].fresh = s \/ TokenOf(renewal[q].fresh) \in lost'
           \/ /\ renewal'[q].pc = renewal[q].pc /\ renewal'[q].before = renewal[q].before
              /\ renewal'[q].holder = renewal[q].holder /\ renewal'[q].fresh = renewal[q].fresh
  PROVE  IInv'
<1>1. Extends /\ Sealed' = Sealed  BY SameCreds DEF IInv
<1>2. row' = s /\ lease' = 0 /\ stored' = stored \union ({s} \ {0})  BY DEF Hold
<1>3. stored \subseteq Sealed  BY DEF IInv, StoreTyped
<1>4. Typed'  BY <1>2 DEF IInv, Typed
<1>5. StoreTyped' /\ ConnectIsNew' /\ GoneStaysGone'  BY RowMoves
<1>6. EachSound'
  <2> SUFFICES ASSUME NEW q \in Process  PROVE Sound(renewal[q])'
    BY DEF EachSound
  <2>1. CASE renewal'[q] = NoRenewal  BY <2>1, SoundOff
  <2>2. CASE /\ renewal'[q].pc = renewal[q].pc /\ renewal'[q].before = renewal[q].before
             /\ renewal'[q].holder = renewal[q].holder /\ renewal'[q].fresh = renewal[q].fresh
    BY <2>2, SoundPast
  <2> QED  BY <2>1, <2>2
<1>7. OneSpender' /\ HoldersApart'
  <2>1. NoRenewal.pc = "off"  BY DEF NoRenewal
  <2> QED  BY <2>1, PairsKept
<1>8. Accounted'
  <2>1. \A p \in Process : renewal[p].fresh # 0 =>
           LET t == TokenOf(renewal[p].fresh)
           IN  \/ renewal'[p].fresh = renewal[p].fresh
               \/ t \in lost'
               \/ t \notin live'
               \/ \E x \in stored' \intersect Sealed : TokenOf(x) = t
    <3> SUFFICES ASSUME NEW p \in Process, renewal[p].fresh # 0, renewal[p].fresh = s
                 PROVE  \E x \in stored' \intersect Sealed : TokenOf(x) = TokenOf(renewal[p].fresh)
      OBVIOUS
    <3>1. s \in stored' \intersect Sealed  BY <1>2
    <3> QED  BY <3>1
  <2>2. stored \subseteq stored' /\ stored' \subseteq Sealed'  BY <1>1, <1>2, <1>3
  <2> QED  BY <1>1, <2>1, <2>2, AccountedKept
<1> QED  BY <1>4, <1>5, <1>6, <1>7, <1>8 DEF IInv

\* A refresh ends without a write of its own.
LEMMA EndKeeps ==
  ASSUME IInv, NEW p \in Process, renewal[p].pc # "off", Ends(p),
         UNCHANGED <<creds, row, stored, gone, renewals, connect, leaving, lapsed>>,
         issued' \in Nat, issued <= issued', live' \subseteq live \union (issued + 1 .. issued'),
         lost \subseteq lost',
         lease' = lease \/ (lease' = 0 /\ Free(p)),
         renewal[p].fresh # 0 =>
           LET t == TokenOf(renewal[p].fresh)
           IN  t \in lost' \/ t \notin live' \/ \E x \in stored : TokenOf(x) = t
  PROVE  IInv'
<1>1. Extends /\ Sealed' = Sealed  BY SameCreds DEF IInv
<1>2. renewal' \in [Process -> Renewal] /\ renewal'[p] = NoRenewal
      /\ \A q \in Process : q # p => renewal'[q] = renewal[q]
  <2>1. Become(p, NoRenewal)  BY DEF Ends
  <2>2. Typed  BY DEF IInv
  <2> QED  BY <2>1, <2>2, NoneIsRenewal, Becomes
<1>3. issued \in Nat /\ renewals \in Nat /\ live \subseteq 1 .. issued /\ lease \in Nat
  BY DEF IInv, Typed
<1>4. Typed'
  <2>1. live' \subseteq 1 .. issued'  BY <1>3
  <2>2. lease' \in Nat  BY <1>3
  <2> QED  BY <1>2, <2>1, <2>2 DEF IInv, Typed
<1>5. StoreTyped' /\ ConnectIsNew' /\ GoneStaysGone'
  <2>1. connect'.pc = "off" \/ (connect.pc # "off" /\ connect'.fresh = connect.fresh)
    OBVIOUS
  <2> QED  BY <2>1, RowLeft
<1>6. \A t \in 0 .. issued : t \in live' => t \in live  BY <1>3
<1>7. EachSound'
  <2> SUFFICES ASSUME NEW q \in Process  PROVE Sound(renewal[q])'
    BY DEF EachSound
  <2>1. CASE q = p  BY <1>2, <2>1, SoundOff
  <2>2. CASE q # p
    <3>1. Sound(renewal[q]) /\ Sound(renewal[p])  BY DEF IInv, EachSound
    <3>2. /\ renewal[q].pc \in {"ask", "write"} /\ row = renewal[q].before
          /\ renewal[q].holder \notin lapsed'
          => lease' = renewal[q].holder
      <4> SUFFICES ASSUME renewal[q].pc \in {"ask", "write"}, row = renewal[q].before,
                          renewal[q].holder \notin lapsed
                   PROVE  lease' = renewal[q].holder
        OBVIOUS
      <4>1. lease = renewal[q].holder  BY <3>1 DEF Sound
      <4>2. renewal[q].holder # renewal[p].holder
        BY <2>2 DEF IInv, HoldersApart
      <4>3. renewal[q].holder # 0  BY <1>3, <3>1 DEF Sound
      <4>4. ~Free(p)  BY <4>1, <4>2, <4>3 DEF Free
      <4> QED  BY <4>1, <4>4
    <3>3. renewal'[q] = renewal[q]  BY <1>2, <2>2
    <3> QED  BY <1>1, <1>3, <1>6, <3>2, <3>3, SoundKept
  <2> QED  BY <2>1, <2>2
<1>8. OneSpender' /\ HoldersApart'
  <2>1. NoRenewal.pc = "off"  BY DEF NoRenewal
  <2>2. \A q \in Process : renewal'[q].pc = "off" \/ renewal'[q] = renewal[q]
    BY <1>2, <2>1
  <2> QED  BY <2>2, PairsKept
<1>9. Accounted'
  <2>1. \A q \in Process : renewal[q].fresh # 0 =>
           LET t == TokenOf(renewal[q].fresh)
           IN  \/ renewal'[q].fresh = renewal[q].fresh
               \/ t \in lost'
               \/ t \notin live'
               \/ \E x \in stored' \intersect Sealed : TokenOf(x) = t
    <3>1. stored \subseteq Sealed  BY DEF IInv, StoreTyped
    <3> QED  BY <1>2, <3>1
  <2>2. stored \subseteq stored' /\ stored' \subseteq Sealed'
    BY <1>1 DEF IInv, StoreTyped
  <2> QED  BY <1>1, <1>6, <2>1, <2>2, AccountedKept
<1> QED  BY <1>4, <1>5, <1>7, <1>8, <1>9 DEF IInv

\* A refresh takes a step of its own.
LEMMA GoesKeeps ==
  ASSUME IInv, NEW p \in Process, renewal[p].pc # "off", NEW r \in Renewal, Become(p, r),
         UNCHANGED <<creds, issued, live, row, lease, stored, gone, renewals, connect, leaving,
                     lapsed, lost>>,
         /\ r.before = renewal[p].before /\ r.holder = renewal[p].holder
         /\ r.fresh = renewal[p].fresh,
         \/ r.pc = renewal[p].pc
         \/ r.pc = "orphaned" /\ renewal[p].pc = "write"
         \/ r.pc = "drop" /\ renewal[p].pc = "ask" /\ TokenOf(r.before) \notin live
  PROVE  IInv'
<1>1. Extends /\ Sealed' = Sealed  BY SameCreds DEF IInv
<1>2. renewal' \in [Process -> Renewal] /\ renewal'[p] = r
      /\ \A q \in Process : q # p => renewal'[q] = renewal[q]
  BY Becomes DEF IInv
<1>3. issued \in Nat /\ renewals \in Nat  BY DEF IInv, Typed
<1>4. Typed'  BY <1>2 DEF IInv, Typed
<1>5. StoreTyped' /\ ConnectIsNew' /\ GoneStaysGone'
  <2>1. connect'.pc = "off" \/ (connect.pc # "off" /\ connect'.fresh = connect.fresh)
    OBVIOUS
  <2> QED  BY <1>3, <2>1, RowLeft
<1>6. EachSound'
  <2> SUFFICES ASSUME NEW q \in Process  PROVE Sound(renewal[q])'
    BY DEF EachSound
  <2>1. Sound(renewal[q])  BY DEF IInv, EachSound
  <2>2. CASE q = p /\ r.pc # renewal[p].pc
    BY <1>1, <1>2, <2>1, <2>2 DEF Sound, TokenOf
  <2>3. CASE q # p \/ r.pc = renewal[p].pc
    <3>1. /\ renewal[q].pc \in {"ask", "write"} /\ row = renewal[q].before
          /\ renewal[q].holder \notin lapsed'
          => lease' = renewal[q].holder
      BY <2>1 DEF Sound
    <3>2. /\ renewal'[q].pc = renewal[q].pc /\ renewal'[q].before = renewal[q].before
          /\ renewal'[q].holder = renewal[q].holder /\ renewal'[q].fresh = renewal[q].fresh
      BY <1>2, <2>3
    <3> QED  BY <1>1, <1>3, <3>1, <3>2, SoundKept
  <2> QED  BY <2>2, <2>3
<1>7. OneSpender' /\ HoldersApart'
  <2>1. \A q \in Process :
           \/ renewal'[q].pc = "off"
           \/ /\ renewal[q].pc # "off"
              /\ renewal'[q].before = renewal[q].before /\ renewal'[q].holder = renewal[q].holder
              /\ renewal'[q].pc \in {"ask", "write"} => renewal[q].pc \in {"ask", "write"}
    BY <1>2
  <2> QED  BY <2>1, PairsKept
<1>8. Accounted'
  <2>1. \A q \in Process : renewal'[q].fresh = renewal[q].fresh  BY <1>2
  <2>2. stored \subseteq stored' /\ stored' \subseteq Sealed'
    BY <1>1 DEF IInv, StoreTyped
  <2> QED  BY <1>1, <2>1, <2>2, AccountedKept
<1> QED  BY <1>4, <1>5, <1>6, <1>7, <1>8 DEF IInv

-----------------------------------------------------------------------------
(* Connecting and disconnecting                                             *)

\* What a callback brings has not been stored, nor has anything of its account.
LEMMA FreshConnect ==
  ASSUME IInv, connect.pc # "off"
  PROVE  /\ connect.fresh \in Nat /\ connect.fresh \in Sealed /\ connect.fresh \notin stored
         /\ creds[connect.fresh].account \notin gone
<1>1. connect.fresh \in Sealed /\ \A s \in stored : creds[s].account # creds[connect.fresh].account
  BY DEF IInv, ConnectIsNew
<1>2. connect.fresh \notin stored  BY <1>1
<1>3. creds[connect.fresh].account \notin gone  BY <1>1 DEF IInv, StoreTyped
<1>4. connect.fresh \in Nat  BY <1>1, SealedTyped DEF IInv
<1> QED  BY <1>1, <1>2, <1>3, <1>4

LEMMA ExchangeKeeps == ASSUME IInv, Exchange PROVE IInv'
<1> DEFINE n == Len(creds) + 1
<1>1. PICK token \in Nat :
        /\ creds' = Append(creds, [account |-> n, token |-> token])
        /\ \/ issued' = issued + 1 /\ live' = live \union {issued + 1} /\ token = issued + 1
           \/ issued' = issued /\ live' = live /\ token = 0
  BY DEF Exchange, IInv, Typed
<1>2. /\ connect.pc = "off"
      /\ connect' = [pc |-> "read", fresh |-> n, before |-> 0, tries |-> 1]
      /\ UNCHANGED <<row, lease, stored, gone, renewal, renewals, leaving, lapsed, lost>>
  BY DEF Exchange, Keep
<1>3. issued \in Nat /\ renewals \in Nat /\ live \subseteq 1 .. issued /\ Typed
  BY DEF IInv, Typed
<1>4. /\ Extends
      /\ n \in Nat /\ n \notin Sealed /\ Sealed' = Sealed \union {n}
      /\ creds'[n].account = n /\ creds'[n].token = token
  <2>1. n \in Nat  BY <1>3, SealedTyped
  <2> QED  BY <1>1, <1>3, <2>1, MoreCreds
<1>5. \A s \in Sealed : s < n  BY <1>3, SealedTyped DEF Sealed
<1>6. n > 0  BY <1>3, SealedTyped
<1> HIDE DEF n
<1>7. issued' \in Nat /\ issued <= issued' /\ live' \subseteq 1 .. issued' /\ token \in 0 .. issued'
      /\ \A t \in 0 .. issued : t \in live' => t \in live
  <2>1. CASE issued' = issued + 1 /\ live' = live \union {issued + 1} /\ token = issued + 1
    BY <1>3, <2>1
  <2>2. CASE issued' = issued /\ live' = live /\ token = 0
    BY <1>3, <2>2
  <2> QED  BY <1>1, <2>1, <2>2
<1>8. Typed'
  <2>1. connect' \in Connect  BY <1>2, <1>4 DEF Connect
  <2>2. creds' \in Seq(Cred)  BY <1>4 DEF Extends
  <2> QED  BY <1>2, <1>3, <1>7, <2>1, <2>2 DEF Typed
<1>9. StoreTyped' /\ GoneStaysGone'
  <2>1. \A s \in Sealed' :
          s \in Sealed \/ (creds'[s].account \in 1 .. s /\ creds'[s].token \in 0 .. issued')
    BY <1>4, <1>6, <1>7
  <2> QED  BY <1>2, <1>4, <1>7, <2>1, RowKept
<1>10. ConnectIsNew'
  <2>1. \A s \in stored : s \in Sealed /\ creds[s].account \in 1 .. s  BY DEF IInv, StoreTyped
  <2>2. \A s \in stored : creds'[s].account # n
    <3> SUFFICES ASSUME NEW s \in stored  PROVE creds'[s].account # n
      OBVIOUS
    <3>1. s \in Nat /\ s < n /\ creds[s].account \in 1 .. s  BY <1>3, <1>5, <2>1, SealedTyped
    <3>2. creds'[s].account = creds[s].account  BY <1>4, <2>1 DEF Extends
    <3> QED  BY <1>4, <3>1, <3>2
  <2> QED  BY <1>2, <1>4, <2>2 DEF ConnectIsNew
<1>11. EachSound'
  <2> SUFFICES ASSUME NEW q \in Process  PROVE Sound(renewal[q])'
    BY DEF EachSound
  <2>1. /\ renewal[q].pc \in {"ask", "write"} /\ row = renewal[q].before
        /\ renewal[q].holder \notin lapsed'
        => lease' = renewal[q].holder
    BY <1>2 DEF IInv, EachSound, Sound
  <2> QED  BY <1>2, <1>3, <1>4, <1>7, <2>1, SoundKept
<1>12. OneSpender' /\ HoldersApart'  BY <1>2 DEF IInv, OneSpender, HoldersApart
<1>13. Accounted'
  <2>1. stored \subseteq stored' /\ stored' \subseteq Sealed'
    BY <1>2, <1>4 DEF IInv, StoreTyped
  <2>2. \A s \in Sealed' : s \in Sealed \/ creds'[s].account = s
                           \/ \E p \in Process : renewal'[p].fresh = s
    BY <1>4
  <2>3. \A q \in Process : renewal'[q].fresh = renewal[q].fresh  BY <1>2
  <2>4. lost \subseteq lost'  BY <1>2
  <2> QED  BY <1>4, <1>7, <2>1, <2>2, <2>3, <2>4, AccountedKept
<1> QED  BY <1>8, <1>9, <1>10, <1>11, <1>12, <1>13 DEF IInv

LEMMA ConnectReadsKeeps == ASSUME IInv, ConnectReads PROVE IInv'
<1>1. /\ UNCHANGED <<creds, row, lease, issued, renewal, renewals, stored, gone, lapsed, lost>>
      /\ live' = live /\ leaving' = leaving /\ connect.pc = "read"
      /\ connect' = [connect EXCEPT !.pc = "put", !.before = row]
  BY DEF ConnectReads, Keep, AtServer
<1>2. connect \in Connect /\ leaving \in Leaving /\ row \in Nat  BY DEF IInv, Typed
<1>3. connect' \in Connect /\ connect'.fresh = connect.fresh
  BY <1>1, <1>2 DEF Connect
<1> QED  BY <1>1, <1>2, <1>3, QuietKeeps

\* The callback's put lands, and the callback is over.
LEMMA PutKeeps ==
  ASSUME IInv, connect.pc = "put", Hold(connect.fresh), connect' = NoConnect,
         UNCHANGED <<AtServer, policy, renewal, renewals, leaving, lapsed, lost, orphans>>
  PROVE  IInv'
<1>1. /\ connect.fresh \in Nat /\ connect.fresh \in Sealed /\ connect.fresh \notin stored
      /\ creds[connect.fresh].account \notin gone
  BY FreshConnect
<1>2. /\ UNCHANGED <<creds, issued, live, renewals, lapsed>> /\ lost \subseteq lost'
      /\ renewal' \in [Process -> Renewal] /\ leaving' \in Leaving
      /\ \A q \in Process : renewal'[q] = renewal[q]
  BY DEF AtServer, IInv, Typed
<1>3. connect' \in Connect /\ connect'.pc = "off"  BY DEF NoConnect, Connect
<1> QED  BY <1>1, <1>2, <1>3, MoveKeeps

LEMMA ConnectPutsKeeps == ASSUME IInv, ConnectPuts PROVE IInv'
<1>1. CASE row = connect.before  BY <1>1, PutKeeps DEF ConnectPuts
<1>2. CASE row # connect.before
  <2>1. /\ UNCHANGED <<creds, row, lease, issued, renewal, renewals, stored, gone, lapsed, lost>>
        /\ live' = live /\ leaving' = leaving /\ connect.pc = "put"
        /\ \/ connect' = [connect EXCEPT !.pc = "read", !.tries = @ + 1]
           \/ connect' = NoConnect
    BY <1>2 DEF ConnectPuts, Keep, AtServer
  <2>2. connect \in Connect /\ leaving \in Leaving  BY DEF IInv, Typed
  <2>3. connect' \in Connect /\ (connect'.pc = "off" \/ connect'.fresh = connect.fresh)
    <3>1. CASE connect' = [connect EXCEPT !.pc = "read", !.tries = @ + 1]
      <4>1. connect.tries + 1 \in Nat /\ connect' = [connect EXCEPT !.pc = "read", !.tries = connect.tries + 1]
        BY <2>2, <3>1 DEF Connect
      <4> QED  BY <2>2, <4>1 DEF Connect
    <3>2. CASE connect' = NoConnect  BY <3>2 DEF Connect, NoConnect
    <3> QED  BY <2>1, <3>1, <3>2
  <2> QED  BY <2>1, <2>2, <2>3, QuietKeeps
<1> QED  BY <1>1, <1>2

LEMMA ConnectFailsKeeps == ASSUME IInv, ConnectFails PROVE IInv'
<1>1. CASE connect.pc = "put" /\ Hold(connect.fresh)  BY <1>1, PutKeeps DEF ConnectFails
<1>2. CASE Keep
  <2>1. /\ UNCHANGED <<creds, row, lease, issued, renewal, renewals, stored, gone, lapsed, lost>>
        /\ live' = live /\ leaving' = leaving /\ connect' = NoConnect
    BY <1>2 DEF ConnectFails, Keep, AtServer
  <2>2. leaving \in Leaving  BY DEF IInv, Typed
  <2>3. connect' \in Connect /\ connect'.pc = "off"  BY <2>1 DEF Connect, NoConnect
  <2> QED  BY <2>1, <2>2, <2>3, QuietKeeps
<1> QED  BY <1>1, <1>2 DEF ConnectFails

\* A disconnect that leaves the store alone.
LEMMA LeavingKeeps ==
  ASSUME IInv, LeaveReads \/ LeaveRevokes \/ LeaveFails
  PROVE  IInv'
<1>1. /\ UNCHANGED <<creds, row, lease, issued, renewal, renewals, stored, gone, lapsed, lost>>
      /\ live' \subseteq live /\ connect' = connect
  BY DEF LeaveReads, LeaveRevokes, LeaveFails, Keep, AtServer
<1>2. connect \in Connect /\ leaving \in Leaving /\ row \in Nat  BY DEF IInv, Typed
<1>3. leaving' \in Leaving
  <2>1. CASE LeaveReads
    <3>1. leaving' = [pc |-> IF row # 0 THEN "revoke" ELSE "delete", read |-> row,
                      revoked |-> FALSE, times |-> leaving.times + 1]
      BY <2>1 DEF LeaveReads
    <3> QED  BY <1>2, <3>1 DEF Leaving
  <2>2. CASE LeaveRevokes
    <3>1. \/ leaving' = [leaving EXCEPT !.pc = "delete", !.revoked = TRUE]
          \/ leaving' = [leaving EXCEPT !.pc = "delete"]
      BY <2>2 DEF LeaveRevokes
    <3> QED  BY <1>2, <3>1 DEF Leaving
  <2>3. CASE LeaveFails
    <3>1. leaving' = [NoLeaving EXCEPT !.times = leaving.times]  BY <2>3 DEF LeaveFails
    <3> QED  BY <1>2, <3>1 DEF Leaving, NoLeaving
  <2> QED  BY <2>1, <2>2, <2>3
<1>4. connect'.pc = "off" \/ (connect.pc # "off" /\ connect'.fresh = connect.fresh)
  BY <1>1
<1> QED  BY <1>1, <1>2, <1>3, <1>4, QuietKeeps

LEMMA LeaveDeletesKeeps == ASSUME IInv, LeaveDeletes PROVE IInv'
<1>1. /\ Hold(0) /\ UNCHANGED <<creds, issued, live, renewals, lapsed>> /\ lost \subseteq lost'
      /\ connect' = connect /\ renewal' = renewal
      /\ leaving' = [NoLeaving EXCEPT !.times = leaving.times]
  BY DEF LeaveDeletes, AtServer
<1>2. renewal \in [Process -> Renewal] /\ connect \in Connect /\ leaving \in Leaving
      /\ 0 \notin stored /\ 0 \in Nat
  BY SealedTyped DEF IInv, Typed, StoreTyped
<1>3. leaving' \in Leaving  BY <1>1, <1>2 DEF Leaving, NoLeaving
<1> QED  BY <1>1, <1>2, <1>3, MoveKeeps

LEMMA WithdrawKeeps == ASSUME IInv, NEW t \in live, Withdraw(t) PROVE IInv'
<1>1. /\ UNCHANGED <<creds, row, lease, issued, renewal, renewals, stored, gone, lapsed, lost>>
      /\ live' \subseteq live /\ connect' = connect /\ leaving' = leaving
  BY DEF Withdraw, Keep, Others
<1>2. connect \in Connect /\ leaving \in Leaving  BY DEF IInv, Typed
<1>3. connect'.pc = "off" \/ (connect.pc # "off" /\ connect'.fresh = connect.fresh)
  BY <1>1
<1> QED  BY <1>1, <1>2, <1>3, QuietKeeps

LEMMA LapseKeeps == ASSUME IInv, Lapse PROVE IInv'
<1>1. /\ UNCHANGED <<creds, row, issued, live, renewal, renewals, stored, gone, lost, connect, leaving>>
      /\ lease # 0 /\ lease' = 0 /\ lapsed' = lapsed \union {lease}
  BY DEF Lapse, AtServer, Others
<1>2. Extends /\ Sealed' = Sealed  BY <1>1, SameCreds DEF IInv
<1>3. issued \in Nat /\ renewals \in Nat  BY DEF IInv, Typed
<1>4. Typed'  BY <1>1 DEF IInv, Typed
<1>5. StoreTyped' /\ ConnectIsNew' /\ GoneStaysGone'  BY <1>1, <1>3, RowLeft
<1>6. EachSound'
  <2> SUFFICES ASSUME NEW q \in Process  PROVE Sound(renewal[q])'
    BY DEF EachSound
  <2>1. Sound(renewal[q])  BY DEF IInv, EachSound
  <2>2. /\ renewal[q].pc \in {"ask", "write"} /\ row = renewal[q].before
        /\ renewal[q].holder \notin lapsed'
        => lease' = renewal[q].holder
    BY <1>1, <2>1 DEF Sound
  <2> QED  BY <1>1, <1>2, <1>3, <2>2, SoundKept
<1>7. OneSpender' /\ HoldersApart'  BY <1>1 DEF IInv, OneSpender, HoldersApart
<1>8. Accounted'
  <2>1. stored \subseteq Sealed  BY DEF IInv, StoreTyped
  <2> QED  BY <1>1, <1>2, <2>1, AccountedKept
<1> QED  BY <1>4, <1>5, <1>6, <1>7, <1>8 DEF IInv

-----------------------------------------------------------------------------
(* Refreshing                                                               *)

LEMMA BeginKeeps == ASSUME IInv, NEW p \in Process, Begin(p) PROVE IInv'
<1> DEFINE pc == IF TokenOf(row) = 0 THEN "drop" ELSE "lease"
           r  == [NoRenewal EXCEPT !.pc = pc, !.before = row, !.holder = renewals + 1]
<1>1. /\ UNCHANGED <<creds, row, lease, issued, live, stored, gone, connect, leaving, lapsed, lost>>
      /\ renewal[p].pc = "off" /\ row # 0 /\ renewals' = renewals + 1 /\ Become(p, r)
  BY DEF Begin, Keep, AtServer, Others
<1>2. issued \in Nat /\ renewals \in Nat /\ row \in Nat /\ live \subseteq 1 .. issued
  BY DEF IInv, Typed
<1> HIDE DEF pc
<1>3. /\ r.pc \in {"drop", "lease"}
      /\ r.pc = "drop" => TokenOf(row) = 0
      /\ r.before = row /\ r.holder = renewals + 1 /\ r.fresh = 0 /\ r \in Renewal
  <2>1. pc \in {"drop", "lease"} /\ (pc = "drop" => TokenOf(row) = 0)  BY DEF pc
  <2>2. NoRenewal \in Renewal /\ NoRenewal.fresh = 0  BY NoneIsRenewal DEF NoRenewal
  <2>3. pc \in Stages /\ row \in Nat /\ renewals + 1 \in Nat  BY <1>2, <2>1 DEF Stages
  <2>4. /\ r.pc = pc /\ r.before = row /\ r.holder = renewals + 1 /\ r.fresh = 0
        /\ r \in Renewal
    BY <2>2, <2>3 DEF Renewal
  <2> QED  BY <2>1, <2>4
<1> HIDE DEF r
<1>4. renewal' \in [Process -> Renewal] /\ renewal'[p] = r
      /\ \A q \in Process : q # p => renewal'[q] = renewal[q]
  BY <1>1, <1>3, Becomes DEF IInv
<1>5. Extends /\ Sealed' = Sealed  BY <1>1, SameCreds DEF IInv
<1>6. Typed'  BY <1>1, <1>2, <1>4 DEF IInv, Typed
<1>7. StoreTyped' /\ ConnectIsNew' /\ GoneStaysGone'  BY <1>1, <1>2, RowLeft
<1>8. \A q \in Process : Sound(renewal[q])  BY DEF IInv, EachSound
<1>9. EachSound'
  <2> SUFFICES ASSUME NEW q \in Process  PROVE Sound(renewal[q])'
    BY DEF EachSound
  <2>1. CASE q = p
    <3>1. row \in stored  BY <1>1 DEF IInv, StoreTyped
    <3>2. r.holder \in 1 .. renewals'  BY <1>1, <1>2, <1>3
    <3>3. 0 \notin live  BY <1>2
    <3>4. TokenOf(row)' = TokenOf(row)  BY <1>1 DEF TokenOf
    <3> QED  BY <1>1, <1>3, <1>4, <2>1, <3>1, <3>2, <3>3, <3>4 DEF Sound, TokenOf
  <2>2. CASE q # p
    <3>1. /\ renewal[q].pc \in {"ask", "write"} /\ row = renewal[q].before
          /\ renewal[q].holder \notin lapsed'
          => lease' = renewal[q].holder
      BY <1>1, <1>8 DEF Sound
    <3>2. renewals' \in Nat /\ renewals <= renewals'  BY <1>1, <1>2
    <3>3. renewal'[q] = renewal[q]  BY <1>4, <2>2
    <3> QED  BY <1>1, <1>5, <3>1, <3>2, <3>3, SoundKept
  <2> QED  BY <2>1, <2>2
<1>10. OneSpender'  BY <1>1, <1>3, <1>4 DEF IInv, OneSpender
<1>11. HoldersApart'
  <2>1. \A q \in Process : renewal[q].pc # "off" => renewal[q].holder # renewals + 1
    BY <1>2, <1>8 DEF Sound
  <2> QED  BY <1>3, <1>4, <2>1 DEF IInv, HoldersApart
<1>12. Accounted'
  <2>1. renewal[p].fresh = 0  BY <1>1, <1>8 DEF Sound
  <2>2. \A q \in Process : renewal[q].fresh # 0 => renewal'[q].fresh = renewal[q].fresh
    BY <1>4, <2>1
  <2>3. stored \subseteq stored' /\ stored' \subseteq Sealed' /\ lost \subseteq lost'
    BY <1>1, <1>5 DEF IInv, StoreTyped
  <2>4. \A t \in 0 .. issued : t \in live' => t \in live  BY <1>1
  <2> QED  BY <1>5, <2>2, <2>3, <2>4, AccountedKept
<1> QED  BY <1>6, <1>7, <1>9, <1>10, <1>11, <1>12 DEF IInv

\* Whoever still spends the token of a row that is free has let its lease run out.
LEMMA FreeOfSpenders ==
  ASSUME IInv, NEW p \in Process, NEW q \in Process, q # p, renewal[p].pc # "off", Free(p),
         renewal[q].pc \in {"ask", "write"}, renewal[q].before = row
  PROVE  renewal[q].holder \in lapsed
<1>1. Sound(renewal[q]) /\ renewals \in Nat  BY DEF IInv, EachSound, Typed
<1>2. renewal[q].holder # renewal[p].holder  BY DEF IInv, HoldersApart
<1>3. renewal[q].holder # 0  BY <1>1 DEF Sound
<1>4. lease # renewal[q].holder  BY <1>2, <1>3 DEF Free
<1> QED  BY <1>1, <1>4 DEF Sound

LEMMA TakeLeaseKeeps == ASSUME IInv, NEW p \in Process, TakeLease(p) PROVE IInv'
<1> DEFINE r == [renewal[p] EXCEPT !.pc = "ask"]
<1>1. /\ UNCHANGED <<creds, row, issued, live, stored, gone, renewals, connect, leaving, lapsed, lost>>
      /\ renewal[p].pc = "lease" /\ Free(p) /\ lease' = renewal[p].holder /\ Become(p, r)
  BY DEF TakeLease, Goes, AtServer, Others
<1>2. issued \in Nat /\ renewals \in Nat /\ renewal[p] \in Renewal  BY DEF IInv, Typed
<1>3. /\ r.pc = "ask" /\ r.before = renewal[p].before /\ r.holder = renewal[p].holder
      /\ r.fresh = renewal[p].fresh /\ r \in Renewal
  BY <1>2 DEF Renewal, Stages
<1> HIDE DEF r
<1>4. renewal' \in [Process -> Renewal] /\ renewal'[p] = r
      /\ \A q \in Process : q # p => renewal'[q] = renewal[q]
  BY <1>1, <1>3, Becomes DEF IInv
<1>5. Extends /\ Sealed' = Sealed  BY <1>1, SameCreds DEF IInv
<1>6. Typed'
  <2>1. lease' \in Nat  BY <1>1, <1>2 DEF Renewal
  <2> QED  BY <1>1, <1>4, <2>1 DEF IInv, Typed
<1>7. StoreTyped' /\ ConnectIsNew' /\ GoneStaysGone'  BY <1>1, <1>2, RowLeft
<1>8. \A q \in Process : Sound(renewal[q])  BY DEF IInv, EachSound
<1>9. \A q \in Process : q # p /\ renewal[q].pc \in {"ask", "write"} /\ renewal[q].before = row
                           => renewal[q].holder \in lapsed
  BY <1>1, FreeOfSpenders
<1>10. EachSound'
  <2> SUFFICES ASSUME NEW q \in Process  PROVE Sound(renewal[q])'
    BY DEF EachSound
  <2>1. CASE q = p
    <3>1. Sound(renewal[p])  BY <1>8
    <3> QED  BY <1>1, <1>3, <1>4, <2>1, <3>1 DEF Sound
  <2>2. CASE q # p
    <3>1. /\ renewal[q].pc \in {"ask", "write"} /\ row = renewal[q].before
          /\ renewal[q].holder \notin lapsed'
          => lease' = renewal[q].holder
      BY <1>1, <1>9, <2>2
    <3>2. renewal'[q] = renewal[q]  BY <1>4, <2>2
    <3> QED  BY <1>1, <1>2, <1>5, <3>1, <3>2, SoundKept
  <2> QED  BY <2>1, <2>2
<1>11. OneSpender'
  <2>1. renewal[p].before = row  BY <1>1 DEF Free
  <2> QED  BY <1>1, <1>3, <1>4, <1>9, <2>1 DEF IInv, OneSpender
<1>12. HoldersApart'  BY <1>1, <1>3, <1>4 DEF IInv, HoldersApart
<1>13. Accounted'
  <2>1. \A q \in Process : renewal'[q].fresh = renewal[q].fresh  BY <1>3, <1>4
  <2>2. stored \subseteq stored' /\ stored' \subseteq Sealed' /\ lost \subseteq lost'
    BY <1>1, <1>5 DEF IInv, StoreTyped
  <2>3. \A t \in 0 .. issued : t \in live' => t \in live  BY <1>1
  <2> QED  BY <1>5, <2>1, <2>2, <2>3, AccountedKept
<1> QED  BY <1>6, <1>7, <1>10, <1>11, <1>12, <1>13 DEF IInv

LEMMA GiveUpOnLeaseKeeps == ASSUME IInv, NEW p \in Process, GiveUpOnLease(p) PROVE IInv'
<1>1. /\ UNCHANGED <<creds, row, lease, issued, live, stored, gone, renewals, connect, leaving, lapsed>>
      /\ renewal[p].pc = "lease" /\ Ends(p) /\ lost' = lost
  BY DEF GiveUpOnLease, Keep, AtServer, Others
<1>2. renewal[p].fresh = 0  BY <1>1 DEF IInv, EachSound, Sound
<1>3. issued' \in Nat /\ issued <= issued' /\ live' \subseteq live \union (issued + 1 .. issued')
  BY <1>1 DEF IInv, Typed
<1>4. renewal[p].pc # "off" /\ lost \subseteq lost' /\ lease' = lease  BY <1>1
<1> QED  BY <1>1, <1>2, <1>3, <1>4, EndKeeps

LEMMA GrantedKeeps == ASSUME IInv, NEW p \in Process, Granted(p) PROVE IInv'
<1> DEFINE n      == Len(creds) + 1
           before == renewal[p].before
           r      == [renewal[p] EXCEPT !.pc = "write", !.fresh = n, !.tries = 1]
<1>1. /\ UNCHANGED <<row, lease, stored, gone, renewals, connect, leaving, lapsed, lost>>
      /\ renewal[p].pc = "ask" /\ TokenOf(before) \in live /\ Become(p, r)
  BY DEF Granted, Keep, Others
<1>2. PICK new \in {TokenOf(before), issued + 1} :
        /\ issued' = IF new = TokenOf(before) THEN issued ELSE new
        /\ live' = Spent(TokenOf(before), new)
        /\ creds' = Append(creds, [account |-> creds[before].account, token |-> new])
  BY DEF Granted
<1>3. issued \in Nat /\ renewals \in Nat /\ renewal[p] \in Renewal /\ live \subseteq 1 .. issued
      /\ Typed /\ n \in Nat
  BY SealedTyped DEF IInv, Typed
<1>4. \A q \in Process : Sound(renewal[q])  BY DEF IInv, EachSound
<1>5. /\ before \in stored /\ before \in Sealed /\ before \in Nat /\ before < n /\ n \notin stored
      /\ creds[before].account \in 1 .. before
  <2>1. before \in stored /\ stored \subseteq Sealed  BY <1>1, <1>4 DEF Sound, IInv, StoreTyped
  <2>2. creds[before].account \in 1 .. before  BY <2>1 DEF IInv, StoreTyped
  <2>3. before \in 1 .. Len(creds) /\ stored \subseteq 1 .. Len(creds) /\ Len(creds) \in Nat
    BY <1>3, <2>1, SealedTyped DEF Sealed
  <2>4. before \in Nat /\ before < n /\ n \notin stored  BY <2>3
  <2> QED  BY <2>1, <2>2, <2>4
<1>6. /\ r.pc = "write" /\ r.before = before /\ r.holder = renewal[p].holder
      /\ r.fresh = n /\ r \in Renewal
  <2>1. "write" \in Stages  BY DEF Stages
  <2> QED  BY <1>3, <2>1 DEF Renewal
<1> HIDE DEF r
<1>7. /\ issued' \in Nat /\ issued <= issued' /\ new \in 0 .. issued'
      /\ live' \subseteq 1 .. issued'
      /\ \A t \in 0 .. issued : t \in live' => t \in live
  <2>1. CASE new = TokenOf(before)
    <3>1. issued' = issued /\ live' = live  BY <1>2, <2>1 DEF Spent
    <3>2. new \in 1 .. issued  BY <1>1, <1>3, <2>1
    <3> HIDE DEF before
    <3> QED  BY <1>3, <3>1, <3>2
  <2>2. CASE new # TokenOf(before)
    <3>1. new = issued + 1 /\ issued' = issued + 1
      BY <1>2, <2>2
    <3>2. live' \subseteq live \union {issued + 1}
      BY <1>2, <3>1 DEF Spent
    <3> HIDE DEF before
    <3>3. live' \subseteq 1 .. issued'  BY <1>3, <3>1, <3>2
    <3>4. \A t \in 0 .. issued : t \in live' => t \in live  BY <1>3, <3>2
    <3> QED  BY <1>3, <3>1, <3>3, <3>4
  <2> QED  BY <2>1, <2>2
<1>8. /\ Extends /\ n \notin Sealed /\ Sealed' = Sealed \union {n}
      /\ creds'[n].account = creds[before].account /\ creds'[n].token = new
  <2>1. creds[before].account \in Nat /\ new \in Nat  BY <1>5, <1>7
  <2> QED  BY <1>2, <1>3, <2>1, MoreCreds
<1>9. renewal' \in [Process -> Renewal] /\ renewal'[p] = r
      /\ \A q \in Process : q # p => renewal'[q] = renewal[q]
  BY <1>1, <1>3, <1>6, Becomes
<1> HIDE DEF n
<1>10. Typed'
  <2>1. creds' \in Seq(Cred)  BY <1>8 DEF Extends
  <2> QED  BY <1>1, <1>3, <1>7, <1>9, <2>1 DEF Typed
<1>11. StoreTyped' /\ GoneStaysGone'
  <2>1. creds'[n].account \in 1 .. n /\ creds'[n].token \in 0 .. issued'
    BY <1>3, <1>5, <1>7, <1>8
  <2>2. \A s \in Sealed' :
          s \in Sealed \/ (creds'[s].account \in 1 .. s /\ creds'[s].token \in 0 .. issued')
    BY <1>8, <2>1
  <2> QED  BY <1>1, <1>7, <1>8, <2>2, RowKept
<1>12. ConnectIsNew'  BY <1>1, <1>8, ConnectKept
<1>13. EachSound'
  <2> SUFFICES ASSUME NEW q \in Process  PROVE Sound(renewal[q])'
    BY DEF EachSound
  <2>1. /\ renewal[q].pc \in {"ask", "write"} /\ row = renewal[q].before
        /\ renewal[q].holder \notin lapsed'
        => lease' = renewal[q].holder
    BY <1>1, <1>4 DEF Sound
  <2>2. CASE q = p
    <3>1. creds'[before] = creds[before]  BY <1>5, <1>8 DEF Extends
    <3>2. renewal[p].holder \in 1 .. renewals  BY <1>1, <1>4 DEF Sound
    <3> QED  BY <1>1, <1>5, <1>6, <1>8, <1>9, <2>1, <2>2, <3>1, <3>2 DEF Sound
  <2>3. CASE q # p
    <3>1. renewal'[q] = renewal[q]  BY <1>9, <2>3
    <3> QED  BY <1>1, <1>3, <1>7, <1>8, <2>1, <3>1, SoundKept
  <2> QED  BY <2>2, <2>3
<1>14. OneSpender' /\ HoldersApart'
  <2>1. \A q \in Process :
           \/ renewal'[q].pc = "off"
           \/ /\ renewal[q].pc # "off"
              /\ renewal'[q].before = renewal[q].before /\ renewal'[q].holder = renewal[q].holder
              /\ renewal'[q].pc \in {"ask", "write"} => renewal[q].pc \in {"ask", "write"}
    <3> SUFFICES ASSUME NEW q \in Process, renewal'[q].pc # "off"
                 PROVE  /\ renewal[q].pc # "off"
                        /\ renewal'[q].before = renewal[q].before
                        /\ renewal'[q].holder = renewal[q].holder
                        /\ renewal'[q].pc \in {"ask", "write"} => renewal[q].pc \in {"ask", "write"}
      OBVIOUS
    <3>1. CASE q = p  BY <1>1, <1>6, <1>9, <3>1
    <3>2. CASE q # p  BY <1>9, <3>2
    <3> QED  BY <3>1, <3>2
  <2> QED  BY <1>1, <2>1, PairsKept
<1>15. Accounted'
  <2>1. renewal[p].fresh = 0  BY <1>1, <1>4 DEF Sound
  <2>2. \A q \in Process : renewal[q].fresh # 0 => renewal'[q].fresh = renewal[q].fresh
    BY <1>9, <2>1
  <2>3. stored \subseteq stored' /\ stored' \subseteq Sealed' /\ lost \subseteq lost'
    BY <1>1, <1>8 DEF IInv, StoreTyped
  <2>4. \A s \in Sealed' : s \in Sealed \/ creds'[s].account = s
                           \/ \E q \in Process : renewal'[q].fresh = s
    BY <1>6, <1>8, <1>9
  <2> QED  BY <1>7, <1>8, <2>2, <2>3, <2>4, AccountedKept
<1> QED  BY <1>10, <1>11, <1>12, <1>13, <1>14, <1>15 DEF IInv

LEMMA RefusalKeeps == ASSUME IInv, NEW p \in Process, Refusal(p) PROVE IInv'
<1> DEFINE r == [renewal[p] EXCEPT !.pc = "drop"]
<1>1. /\ UNCHANGED <<creds, issued, live, row, lease, stored, gone, renewals, connect, leaving,
                     lapsed, lost>>
      /\ renewal[p].pc = "ask" /\ TokenOf(renewal[p].before) \notin live /\ Become(p, r)
  BY DEF Refusal, Goes, Keep, AtServer, Others
<1>2. /\ r \in Renewal /\ r.pc = "drop" /\ r.before = renewal[p].before
      /\ r.holder = renewal[p].holder /\ r.fresh = renewal[p].fresh
  BY DEF IInv, Typed, Renewal, Stages
<1> HIDE DEF r
<1>3. renewal[p].pc # "off" /\ TokenOf(r.before) \notin live  BY <1>1, <1>2
<1> QED  BY <1>1, <1>2, <1>3, GoesKeeps

LEMMA OutageKeeps == ASSUME IInv, NEW p \in Process, Outage(p) PROVE IInv'
<1>1. /\ UNCHANGED <<creds, row, stored, gone, renewals, connect, leaving, lapsed>>
      /\ renewal[p].pc = "ask" /\ Ends(p)
      /\ lease' \in IF Free(p) THEN {0, lease} ELSE {lease}
  BY DEF Outage, Others
<1>2. issued \in Nat  BY DEF IInv, Typed
<1>3. issued' \in Nat /\ issued <= issued' /\ lost \subseteq lost'
      /\ live' \subseteq live \union (issued + 1 .. issued')
  <2>1. CASE UNCHANGED <<issued, live, lost>>  BY <1>2, <2>1
  <2>2. CASE /\ issued' = issued + 1
             /\ live' = Spent(TokenOf(renewal[p].before), issued + 1)
             /\ lost' = lost \union {issued + 1}
    <3>1. live' \subseteq live \union {issued + 1}  BY <2>2 DEF Spent
    <3> QED  BY <1>2, <2>2, <3>1
  <2> QED  BY <2>1, <2>2 DEF Outage
<1>4. lease' = lease \/ (lease' = 0 /\ Free(p))  BY <1>1
<1>5. renewal[p].fresh = 0  BY <1>1 DEF IInv, EachSound, Sound
<1>6. renewal[p].pc # "off"  BY <1>1
<1> QED  BY <1>1, <1>3, <1>4, <1>5, <1>6, EndKeeps

LEMMA DropKeeps == ASSUME IInv, NEW p \in Process, Drop(p) PROVE IInv'
<1>1. /\ UNCHANGED <<creds, issued, live, renewals, connect, leaving, lapsed, lost>>
      /\ renewal[p].pc = "drop" /\ Ends(p)
  BY DEF Drop, AtServer, Others
<1>2. renewal[p].fresh = 0  BY <1>1 DEF IInv, EachSound, Sound
<1>3. CASE Hold(0)
  <2>1. renewal' \in [Process -> Renewal] /\ renewal'[p] = NoRenewal
        /\ \A q \in Process : q # p => renewal'[q] = renewal[q]
    BY <1>1, NoneIsRenewal, Becomes DEF IInv, Ends
  <2>2. connect \in Connect /\ leaving \in Leaving /\ 0 \notin stored /\ 0 \in Nat
    BY SealedTyped DEF IInv, Typed, StoreTyped
  <2>3. lost \subseteq lost' /\ connect' \in Connect /\ leaving' \in Leaving /\ connect' = connect
    BY <1>1, <2>2
  <2>4. \A q \in Process :
           \/ /\ renewal'[q] = NoRenewal
              /\ renewal[q].fresh # 0 =>
                   renewal[q].fresh = 0 \/ TokenOf(renewal[q].fresh) \in lost'
           \/ /\ renewal'[q].pc = renewal[q].pc /\ renewal'[q].before = renewal[q].before
              /\ renewal'[q].holder = renewal[q].holder /\ renewal'[q].fresh = renewal[q].fresh
    BY <1>2, <2>1
  <2> QED  BY <1>1, <1>3, <2>1, <2>2, <2>3, <2>4, MoveKeeps
<1>4. CASE Keep
  <2>1. UNCHANGED <<row, lease, stored, gone>>  BY <1>4 DEF Keep
  <2>2. issued' \in Nat /\ issued <= issued' /\ live' \subseteq live \union (issued + 1 .. issued')
    BY <1>1 DEF IInv, Typed
  <2>3. renewal[p].pc # "off" /\ lost \subseteq lost' /\ lease' = lease  BY <1>1, <2>1
  <2> QED  BY <1>1, <1>2, <2>1, <2>2, <2>3, EndKeeps
<1> QED  BY <1>3, <1>4 DEF Drop

\* Another try at the same write.
LEMMA Retries ==
  ASSUME IInv, NEW p \in Process, renewal[p].pc # "off"
  PROVE  LET r == [renewal[p] EXCEPT !.tries = @ + 1]
         IN  /\ r \in Renewal /\ r.pc = renewal[p].pc /\ r.before = renewal[p].before
             /\ r.holder = renewal[p].holder /\ r.fresh = renewal[p].fresh
<1>1. renewal[p] \in Renewal  BY DEF IInv, Typed
<1>2. renewal[p].tries + 1 \in Nat  BY <1>1 DEF Renewal
<1> QED  BY <1>1, <1>2 DEF Renewal

LEMMA WriteLandsKeeps == ASSUME IInv, NEW p \in Process, WriteLands(p) PROVE IInv'
<1> DEFINE s == renewal[p].fresh
           r == [renewal[p] EXCEPT !.tries = @ + 1]
<1>1. /\ UNCHANGED <<creds, issued, live, renewals, connect, leaving, lapsed>>
      /\ renewal[p].pc = "write" /\ row = renewal[p].before /\ Hold(s)
      /\ (Ends(p) /\ lost' = lost) \/ TryAgain(p)
  BY DEF WriteLands, MayPut, AtServer, Others
<1>2. Sound(renewal[p])  BY DEF IInv, EachSound
<1>3. /\ s \in Sealed /\ s \in Nat /\ s \notin stored /\ row \in stored /\ row # 0
      /\ creds[s].account = creds[row].account
  BY <1>1, <1>2, SealedTyped DEF Sound, IInv, StoreTyped
<1>4. creds[s].account \notin gone  BY <1>3 DEF IInv, GoneStaysGone
<1>5. connect.pc = "off" \/ creds[s].account # creds[connect.fresh].account
  BY <1>3 DEF IInv, ConnectIsNew
<1>6. /\ lost \subseteq lost'
      /\ Become(p, NoRenewal) \/ Become(p, r)
  BY <1>1 DEF TryAgain, Ends
<1>7. /\ NoRenewal \in Renewal /\ r \in Renewal /\ r.pc = renewal[p].pc
      /\ r.before = renewal[p].before /\ r.holder = renewal[p].holder
      /\ r.fresh = renewal[p].fresh
  BY <1>1, Retries, NoneIsRenewal
<1> HIDE DEF r
<1>8. /\ renewal' \in [Process -> Renewal] /\ renewal'[p] \in {NoRenewal, r}
      /\ \A q \in Process : q # p => renewal'[q] = renewal[q]
  BY <1>6, <1>7, Becomes DEF IInv
<1>9. \A q \in Process :
         \/ /\ renewal'[q] = NoRenewal
            /\ renewal[q].fresh # 0 =>
                 renewal[q].fresh = s \/ TokenOf(renewal[q].fresh) \in lost'
         \/ /\ renewal'[q].pc = renewal[q].pc /\ renewal'[q].before = renewal[q].before
            /\ renewal'[q].holder = renewal[q].holder /\ renewal'[q].fresh = renewal[q].fresh
  BY <1>7, <1>8
<1>10. connect' \in Connect /\ leaving' \in Leaving /\ connect' = connect
  BY <1>1 DEF IInv, Typed
<1>11. \/ connect'.pc = "off"
       \/ connect' = connect /\ (s # 0 => creds[s].account # creds[connect.fresh].account)
  BY <1>5, <1>10
<1> HIDE DEF s
<1> QED  BY <1>1, <1>3, <1>4, <1>6, <1>8, <1>9, <1>10, <1>11, MoveKeeps

\* A refresh of a stored credential lets go of what it has in hand.
LEMMA LetGoKeeps ==
  ASSUME IInv, NEW p \in Process, renewal[p].pc # "off", Ends(p),
         UNCHANGED <<creds, issued, row, lease, stored, gone, renewals, connect, leaving, lapsed>>,
         live' \subseteq live, lost \subseteq lost',
         renewal[p].fresh # 0 =>
           LET t == TokenOf(renewal[p].fresh)
           IN  t \in lost' \/ t \notin live' \/ \E x \in stored : TokenOf(x) = t
  PROVE  IInv'
<1>1. issued' \in Nat /\ issued <= issued' /\ live' \subseteq live \union (issued + 1 .. issued')
  BY DEF IInv, Typed
<1>2. lease' = lease  OBVIOUS
<1> QED  BY <1>1, <1>2, EndKeeps

LEMMA WriteThrowsKeeps == ASSUME IInv, NEW p \in Process, WriteThrows(p) PROVE IInv'
<1> DEFINE r == [renewal[p] EXCEPT !.tries = @ + 1]
<1>1. /\ UNCHANGED <<creds, issued, live, row, lease, stored, gone, renewals, connect, leaving, lapsed>>
      /\ renewal[p].pc # "off" /\ TryAgain(p)
  BY DEF WriteThrows, Keep, AtServer, Others
<1>2. CASE Become(p, r) /\ lost' = lost
  <2>1. /\ r \in Renewal /\ r.pc = renewal[p].pc
        /\ r.before = renewal[p].before /\ r.holder = renewal[p].holder
        /\ r.fresh = renewal[p].fresh
    BY <1>1, Retries
  <2> HIDE DEF r
  <2> QED  BY <1>1, <1>2, <2>1, GoesKeeps
<1>3. CASE /\ Ends(p)
           /\ lost' \in {lost \union InHand(p), IF row' = renewal[p].fresh THEN lost
                                                ELSE lost \union InHand(p)}
  <2>1. lost \subseteq lost'  BY <1>3
  <2>2. renewal[p].fresh # 0 =>
          TokenOf(renewal[p].fresh) \in lost' \/ \E x \in stored : TokenOf(x) = TokenOf(renewal[p].fresh)
    <3> SUFFICES ASSUME renewal[p].fresh # 0, TokenOf(renewal[p].fresh) \notin lost'
                 PROVE  \E x \in stored : TokenOf(x) = TokenOf(renewal[p].fresh)
      OBVIOUS
    <3>1. row = renewal[p].fresh  BY <1>1, <1>3 DEF InHand
    <3>2. row \in stored  BY <3>1 DEF IInv, StoreTyped
    <3> QED  BY <3>1, <3>2
  <2>3. live' \subseteq live  BY <1>1
  <2> QED  BY <1>1, <1>3, <2>1, <2>2, <2>3, LetGoKeeps
<1> QED  BY <1>1, <1>2, <1>3 DEF TryAgain

LEMMA WriteRefusedKeeps == ASSUME IInv, NEW p \in Process, WriteRefused(p) PROVE IInv'
<1> DEFINE r == [renewal[p] EXCEPT !.pc = "orphaned"]
<1>1. /\ UNCHANGED <<creds, issued, live, row, lease, stored, gone, renewals, connect, leaving,
                     lapsed, lost>>
      /\ renewal[p].pc = "write"
      /\ (row = renewal[p].fresh /\ Ends(p)) \/ Become(p, r)
  BY DEF WriteRefused, Goes, Keep, AtServer, Others
<1>2. CASE Become(p, r)
  <2>1. /\ r \in Renewal /\ r.pc = "orphaned" /\ r.before = renewal[p].before
        /\ r.holder = renewal[p].holder /\ r.fresh = renewal[p].fresh
    BY DEF IInv, Typed, Renewal, Stages
  <2> HIDE DEF r
  <2> QED  BY <1>1, <1>2, <2>1, GoesKeeps
<1>3. CASE row = renewal[p].fresh /\ Ends(p)
  <2>1. renewal[p].fresh # 0 => row \in stored /\ TokenOf(row) = TokenOf(renewal[p].fresh)
    BY <1>3 DEF IInv, StoreTyped
  <2>2. renewal[p].pc # "off" /\ live' \subseteq live /\ lost \subseteq lost'  BY <1>1
  <2> QED  BY <1>1, <1>3, <2>1, <2>2, LetGoKeeps
<1> QED  BY <1>1, <1>2, <1>3

LEMMA OrphanedKeeps == ASSUME IInv, NEW p \in Process, Orphaned(p) PROVE IInv'
<1> DEFINE old == TokenOf(renewal[p].before)
           new == TokenOf(renewal[p].fresh)
<1>1. /\ UNCHANGED <<creds, issued, row, lease, stored, gone, renewals, connect, leaving, lapsed>>
      /\ renewal[p].pc = "orphaned" /\ renewal[p].pc # "off" /\ Ends(p)
      /\ \/ live' = live \ Revocable(old, new) /\ lost' = lost
         \/ live' = live /\ lost' = lost \union InHand(p)
  BY DEF Orphaned, Keep, Others
<1>2. renewal[p].before \in stored  BY <1>1 DEF IInv, EachSound, Sound
<1>3. live' \subseteq live /\ lost \subseteq lost'  BY <1>1
<1>4. renewal[p].fresh # 0 => new \in lost' \/ new \notin live' \/ \E x \in stored : TokenOf(x) = new
  <2>1. CASE new = old  BY <1>2, <2>1
  <2>2. CASE new # old  BY <1>1, <2>2 DEF Revocable, InHand
  <2> QED  BY <2>1, <2>2
<1> QED  BY <1>1, <1>3, <1>4, LetGoKeeps

LEMMA FailsKeeps == ASSUME IInv, NEW p \in Process, Fails(p) PROVE IInv'
<1>1. /\ UNCHANGED <<creds, issued, live, row, lease, stored, gone, renewals, connect, leaving, lapsed>>
      /\ renewal[p].pc # "off" /\ Ends(p) /\ lost' = lost \union InHand(p)
  BY DEF Fails, Keep, AtServer, Others
<1>2. live' \subseteq live /\ lost \subseteq lost'  BY <1>1
<1>3. renewal[p].fresh # 0 => TokenOf(renewal[p].fresh) \in lost'  BY <1>1 DEF InHand
<1> QED  BY <1>1, <1>2, <1>3, LetGoKeeps

LEMMA StepKeeps == ASSUME IInv, [Next]_vars PROVE IInv'
<1>1. CASE Exchange  BY <1>1, ExchangeKeeps
<1>2. CASE ConnectReads  BY <1>2, ConnectReadsKeeps
<1>3. CASE ConnectPuts  BY <1>3, ConnectPutsKeeps
<1>4. CASE ConnectFails  BY <1>4, ConnectFailsKeeps
<1>5. CASE LeaveReads \/ LeaveRevokes \/ LeaveFails  BY <1>5, LeavingKeeps
<1>6. CASE LeaveDeletes  BY <1>6, LeaveDeletesKeeps
<1>7. ASSUME NEW p \in Process, Begin(p)  PROVE IInv'  BY <1>7, BeginKeeps
<1>8. ASSUME NEW p \in Process, Fails(p)  PROVE IInv'  BY <1>8, FailsKeeps
<1>9. ASSUME NEW p \in Process, Renew(p)  PROVE IInv'
  <2>1. CASE TakeLease(p)  BY <2>1, TakeLeaseKeeps
  <2>2. CASE GiveUpOnLease(p)  BY <2>2, GiveUpOnLeaseKeeps
  <2>3. CASE Granted(p)  BY <2>3, GrantedKeeps
  <2>4. CASE Refusal(p)  BY <2>4, RefusalKeeps
  <2>5. CASE Outage(p)  BY <2>5, OutageKeeps
  <2>6. CASE Drop(p)  BY <2>6, DropKeeps
  <2>7. CASE WriteLands(p)  BY <2>7, WriteLandsKeeps
  <2>8. CASE WriteThrows(p)  BY <2>8, WriteThrowsKeeps
  <2>9. CASE WriteRefused(p)  BY <2>9, WriteRefusedKeeps
  <2>10. CASE Orphaned(p)  BY <2>10, OrphanedKeeps
  <2> QED  BY <1>9, <2>1, <2>2, <2>3, <2>4, <2>5, <2>6, <2>7, <2>8, <2>9, <2>10 DEF Renew
<1>10. CASE Lapse  BY <1>10, LapseKeeps
<1>11. ASSUME NEW t \in live, Withdraw(t)  PROVE IInv'  BY <1>11, WithdrawKeeps
<1>12. CASE UNCHANGED vars  BY <1>12, StutterKeeps
<1> QED
  BY <1>1, <1>2, <1>3, <1>4, <1>5, <1>6, <1>7, <1>8, <1>9, <1>10, <1>11, <1>12 DEF Next

\* IInv holds of every state a run of the program reaches.
THEOREM Invariance == Spec => []IInv
<1>1. Init => IInv  BY Initially
<1>2. IInv /\ [Next]_vars => IInv'  BY StepKeeps
<1> QED  BY <1>1, <1>2, PTL DEF Spec

\* An account disconnected, or connected over, is never stored again, by however
\* many processes' refreshes of it that were on their way, in whatever order their
\* tries land, throw and lose their answers (write, disconnect).
THEOREM NeverBack == Spec => []GoneStaysGone
<1>1. IInv => GoneStaysGone  BY DEF IInv
<1> QED  BY <1>1, Invariance, PTL

\* Of the processes that have asked for a refresh with one credential's token and
\* not yet written, all but one have had their lease run out (refresh).
THEOREM SpentByOne == Spec => []OneSpender
<1>1. IInv => OneSpender  BY DEF IInv
<1> QED  BY <1>1, Invariance, PTL

\* Whatever deletes the row and is no disconnect is a refusal, and it deletes a
\* credential whose token the authorization server takes no more (drop).
THEOREM OnlyDeadDropped == Spec => DropsOnlyDead
<1> DEFINE Good == Deletes /\ leaving' = leaving => TokenOf(row) \notin live
<1>1. ASSUME IInv, [Next]_vars, Deletes, leaving' = leaving
      PROVE  TokenOf(row) \notin live
  <2>1. row # 0 /\ row' = 0  BY <1>1 DEF Deletes
  <2>2. 0 \notin Sealed  BY <1>1, SealedTyped DEF IInv
  <2>3. CASE ConnectPuts \/ ConnectFails
    <3>1. connect.fresh \in Sealed \/ connect.pc = "off"  BY <1>1 DEF IInv, ConnectIsNew
    <3> QED  BY <2>1, <2>2, <2>3, <3>1 DEF ConnectPuts, ConnectFails, Hold, Keep
  <2>4. CASE LeaveDeletes
    <3>1. leaving.pc = "delete" /\ leaving' = [NoLeaving EXCEPT !.times = leaving.times]
      BY <2>4 DEF LeaveDeletes
    <3>2. leaving'.pc = "off"  BY <3>1 DEF NoLeaving
    <3> QED  BY <1>1, <3>1, <3>2
  <2>5. ASSUME NEW p \in Process, Drop(p)  PROVE TokenOf(row) \notin live
    <3>1. row = renewal[p].before /\ renewal[p].pc = "drop"
      BY <2>1, <2>5 DEF Drop, Keep
    <3> QED  BY <1>1, <3>1 DEF IInv, EachSound, Sound
  <2>6. ASSUME NEW p \in Process, WriteLands(p)  PROVE FALSE
    <3>1. row' = renewal[p].fresh /\ renewal[p].pc = "write"  BY <2>6 DEF WriteLands, Hold
    <3>2. renewal[p].fresh \in Sealed  BY <1>1, <3>1 DEF IInv, EachSound, Sound
    <3> QED  BY <2>1, <2>2, <3>1, <3>2
  <2>7. CASE Exchange \/ ConnectReads \/ LeaveReads \/ LeaveRevokes \/ LeaveFails
             \/ Lapse \/ (\E t \in live : Withdraw(t))
    BY <2>1, <2>7
    DEF Exchange, ConnectReads, LeaveReads, LeaveRevokes, LeaveFails, Lapse, Withdraw, Keep
  <2>8. ASSUME NEW p \in Process,
               Begin(p) \/ Fails(p) \/ (Renew(p) /\ ~Drop(p) /\ ~WriteLands(p))
        PROVE  FALSE
    <3>1. row' = row
      BY <2>8 DEF Begin, Fails, Renew, TakeLease, GiveUpOnLease, Granted, Refusal, Outage,
                  WriteThrows, WriteRefused, Orphaned, Keep
    <3> QED  BY <2>1, <3>1
  <2>9. CASE UNCHANGED vars  BY <2>1, <2>9 DEF vars
  <2> QED  BY <1>1, <2>3, <2>4, <2>5, <2>6, <2>7, <2>8, <2>9 DEF Next
<1>2. IInv /\ [Next]_vars => [Good]_vars  BY <1>1
<1> QED  BY <1>2, Invariance, PTL DEF Spec, DropsOnlyDead

-----------------------------------------------------------------------------
(* What is revoked as no one's                                              *)

\* What a refresh or a callback has in hand is sealed.
LEMMA InHandSealed ==
  ASSUME IInv
  PROVE  /\ \A q \in Process : renewal[q].fresh # 0 =>
              /\ renewal[q].fresh \in Sealed /\ renewal[q].before \in Sealed
              /\ renewal[q].pc \in {"write", "orphaned"}
         /\ connect.pc # "off" => connect.fresh \in Sealed
         /\ 0 \notin Sealed /\ stored \subseteq Sealed
<1>1. \A q \in Process : Sound(renewal[q])  BY DEF IInv, EachSound
<1>2. stored \subseteq Sealed /\ 0 \notin Sealed  BY SealedTyped DEF IInv, StoreTyped
<1>3. \A q \in Process : renewal[q].fresh # 0 =>
              /\ renewal[q].fresh \in Sealed /\ renewal[q].before \in Sealed
              /\ renewal[q].pc \in {"write", "orphaned"}
  BY <1>1, <1>2 DEF Sound
<1>4. connect.pc # "off" => connect.fresh \in Sealed  BY DEF IInv, ConnectIsNew
<1> QED  BY <1>2, <1>3, <1>4

\* No token is revoked, and nothing is sealed: the row can only come to hold
\* what was in hand.
LEMMA HandsKept ==
  ASSUME IInv, OInv, UNCHANGED <<creds, policy, orphans>>, issued' \in Nat, issued <= issued',
         \A q \in Process : renewal'[q].fresh # 0 =>
           /\ renewal'[q].fresh = renewal[q].fresh /\ renewal'[q].before = renewal[q].before
           /\ renewal'[q].tries # 0
           /\ renewal'[q].pc = "write" /\ renewal'[q].fresh \in stored' => renewal'[q].tries > 1
           /\ renewal'[q].pc = "orphaned" => row' # renewal'[q].fresh,
         \/ row' \in {row, 0}
         \/ \E q \in Process : renewal[q].fresh # 0 /\ row' = renewal[q].fresh
         \/ connect.pc # "off" /\ row' = connect.fresh,
         connect'.pc = "off" \/ (connect.pc # "off" /\ connect'.fresh = connect.fresh)
  PROVE  OInv'
<1>1. Sealed' = Sealed /\ issued \in Nat  BY SameCreds DEF IInv, Typed
<1>2. TokensApart'
  <2>1. orphans' \subseteq 1 .. issued'  BY <1>1 DEF OInv, TokensApart
  <2>2. policy' = "rotates" =>
       /\ \A s, t \in Sealed' : creds'[s].token = creds'[t].token /\ creds'[s].token # 0 => s = t
       /\ \A p \in Process : renewal'[p].fresh # 0 => creds'[renewal'[p].fresh].token # 0
    BY <1>1 DEF OInv, TokensApart, TokenOf
  <2>3. policy' = "keeps" =>
       /\ orphans' = {}
       /\ \A p \in Process : renewal'[p].fresh # 0 =>
            creds'[renewal'[p].fresh].token = creds'[renewal'[p].before].token
    BY DEF OInv, TokensApart, TokenOf
  <2> QED  BY <2>1, <2>2, <2>3 DEF OInv, TokensApart, TokenOf
<1>3. FreshApart'
  <2> SUFFICES ASSUME NEW p \in Process, renewal'[p].fresh # 0
               PROVE  /\ renewal'[p].tries # 0
                      /\ \A q \in Process : renewal'[q].fresh = renewal'[p].fresh => q = p
                      /\ connect'.pc # "off" => connect'.fresh # renewal'[p].fresh
                      /\ renewal'[p].pc = "write" /\ renewal'[p].fresh \in stored'
                         => renewal'[p].tries > 1
                      /\ renewal'[p].pc = "orphaned" => row' # renewal'[p].fresh
    BY DEF FreshApart
  <2>1. \A q \in Process : renewal'[q].fresh = renewal'[p].fresh => q = p
    BY DEF OInv, FreshApart
  <2>2. connect'.pc # "off" => connect'.fresh # renewal'[p].fresh
    BY DEF OInv, FreshApart
  <2> QED  BY <2>1, <2>2
<1>4. OrphansNowhere'
  <2> SUFFICES ASSUME NEW s \in Sealed, creds[s].token \in orphans
               PROVE  /\ row' # s
                      /\ \A q \in Process : renewal'[q].fresh # s
                      /\ connect'.pc # "off" => connect'.fresh # s
    BY <1>1 DEF OrphansNowhere, TokenOf
  <2>1. s # 0  BY InHandSealed
  <2>2. /\ row # s
        /\ \A q \in Process : renewal[q].fresh # s
        /\ connect.pc # "off" => connect.fresh # s
    BY DEF OInv, OrphansNowhere, TokenOf
  <2>3. \A q \in Process : renewal'[q].fresh # s  BY <2>1, <2>2
  <2> QED  BY <2>1, <2>2, <2>3
<1> QED  BY <1>2, <1>3, <1>4 DEF OInv

\* The row stays.
LEMMA RowStays ==
  ASSUME IInv, OInv, UNCHANGED <<creds, policy, orphans, row, stored>>,
         issued' \in Nat, issued <= issued',
         \A q \in Process : renewal'[q].fresh = 0 \/ renewal'[q] = renewal[q],
         connect'.pc = "off" \/ (connect.pc # "off" /\ connect'.fresh = connect.fresh)
  PROVE  OInv'
<1>1. \A q \in Process : renewal'[q].fresh # 0 =>
           /\ renewal'[q].fresh = renewal[q].fresh /\ renewal'[q].before = renewal[q].before
           /\ renewal'[q].tries # 0
           /\ renewal'[q].pc = "write" /\ renewal'[q].fresh \in stored' => renewal'[q].tries > 1
           /\ renewal'[q].pc = "orphaned" => row' # renewal'[q].fresh
  BY DEF OInv, FreshApart
<1>2. row' \in {row, 0}  OBVIOUS
<1> QED  BY <1>1, <1>2, HandsKept

\* A credential is sealed, with a token that is new or none.
LEMMA ExchangeApart == ASSUME IInv, OInv, Exchange PROVE OInv'
<1> DEFINE n == Len(creds) + 1
<1>1. PICK token \in Nat :
        /\ creds' = Append(creds, [account |-> n, token |-> token])
        /\ \/ issued' = issued + 1 /\ token = issued + 1
           \/ issued' = issued /\ token = 0
  BY DEF Exchange, IInv, Typed
<1>2. /\ UNCHANGED <<policy, orphans, row, stored, renewal>>
      /\ connect' = [pc |-> "read", fresh |-> n, before |-> 0, tries |-> 1]
  BY DEF Exchange, Keep
<1>3. issued \in Nat /\ n \in Nat  BY SealedTyped DEF IInv, Typed
<1>4. /\ Extends
      /\ n \notin Sealed /\ Sealed' = Sealed \union {n}
      /\ creds'[n].token = token
  BY <1>1, <1>3, MoreCreds DEF IInv
<1>5. connect'.fresh = n  BY <1>2
<1> HIDE DEF n
<1>6. /\ \A s \in Sealed : creds'[s].token = creds[s].token /\ creds[s].token \in 0 .. issued
      /\ \A q \in Process : renewal[q].fresh # 0 =>
           renewal[q].fresh \in Sealed /\ renewal[q].before \in Sealed
      /\ row = 0 \/ row \in Sealed
  BY <1>4, InHandSealed DEF Extends, IInv, StoreTyped
<1>7. token = 0 \/ token \notin 0 .. issued  BY <1>1, <1>3
<1>8. orphans \subseteq 1 .. issued  BY DEF OInv, TokensApart
<1>9. TokensApart'
  <2>1. orphans' \subseteq 1 .. issued'  BY <1>1, <1>2, <1>3, <1>8
  <2>2. policy' = "rotates" =>
       /\ \A s, t \in Sealed' : creds'[s].token = creds'[t].token /\ creds'[s].token # 0 => s = t
       /\ \A p \in Process : renewal'[p].fresh # 0 => creds'[renewal'[p].fresh].token # 0
    BY <1>2, <1>4, <1>6, <1>7 DEF OInv, TokensApart, TokenOf
  <2>3. policy' = "keeps" =>
       /\ orphans' = {}
       /\ \A p \in Process : renewal'[p].fresh # 0 =>
            creds'[renewal'[p].fresh].token = creds'[renewal'[p].before].token
    BY <1>2, <1>6 DEF OInv, TokensApart, TokenOf
  <2> QED  BY <1>2, <2>1, <2>2, <2>3 DEF OInv, TokensApart, TokenOf
<1>10. FreshApart'  BY <1>2, <1>4, <1>5, <1>6 DEF OInv, FreshApart
<1>11. OrphansNowhere'
  <2> SUFFICES ASSUME NEW s \in Sealed', creds'[s].token \in orphans
               PROVE  /\ row # s
                      /\ \A q \in Process : renewal[q].fresh # s
                      /\ n # s
    BY <1>2, <1>5 DEF OrphansNowhere, TokenOf
  <2>1. s # n
    <3>1. token \notin 1 .. issued  BY <1>3, <1>7
    <3> QED  BY <1>4, <1>8, <3>1
  <2>2. s \in Sealed /\ creds[s].token \in orphans  BY <1>4, <1>6, <2>1
  <2> QED  BY <2>1, <2>2 DEF OInv, OrphansNowhere, TokenOf
<1> QED  BY <1>9, <1>10, <1>11 DEF OInv

\* Under "rotates" what is sealed has the token just issued, under "keeps" the
\* one it had, and then nothing is revoked.
LEMMA GrantedApart == ASSUME IInv, OInv, NEW p \in Process, Granted(p) PROVE OInv'
<1> DEFINE n      == Len(creds) + 1
           before == renewal[p].before
           r      == [renewal[p] EXCEPT !.pc = "write", !.fresh = n, !.tries = 1]
<1>1. /\ UNCHANGED <<row, stored, connect, policy, orphans>>
      /\ renewal[p].pc = "ask" /\ TokenOf(before) \in live /\ Become(p, r)
  BY DEF Granted, Keep, Others
<1>2. PICK new \in {TokenOf(before), issued + 1} :
        /\ issued' = IF new = TokenOf(before) THEN issued ELSE new
        /\ new = TokenOf(before) => policy # "rotates"
        /\ new # TokenOf(before) => policy # "keeps"
        /\ creds' = Append(creds, [account |-> creds[before].account, token |-> new])
  BY DEF Granted
<1>3. issued \in Nat /\ n \in Nat /\ Typed /\ live \subseteq 1 .. issued /\ renewal[p] \in Renewal
  BY SealedTyped DEF IInv, Typed
<1>4. before \in Sealed /\ creds[before].account \in Nat
  <2>1. before \in Sealed  BY <1>1 DEF IInv, EachSound, Sound, StoreTyped
  <2> QED  BY <1>3, <2>1, SealedTyped DEF Cred
<1>5. r.pc = "write" /\ r.before = before /\ r.fresh = n /\ r.tries = 1 /\ r \in Renewal
  <2>1. "write" \in Stages  BY DEF Stages
  <2> QED  BY <1>3, <2>1 DEF Renewal
<1>6. TokenOf(before) \in 1 .. issued  BY <1>1, <1>3
<1>7. \/ new = TokenOf(before) /\ issued' = issued /\ policy = "keeps"
      \/ new = issued + 1 /\ issued' = issued + 1 /\ policy = "rotates"
  <2>1. policy \in {"rotates", "keeps"}  BY DEF OInv, TokensApart
  <2> QED  BY <1>2, <2>1
<1>8. new \in Nat /\ new # 0 /\ issued' \in Nat /\ issued <= issued'
  BY <1>3, <1>6, <1>7
<1> HIDE DEF r
<1>9. /\ Extends /\ n \notin Sealed /\ Sealed' = Sealed \union {n}
      /\ creds'[n].token = new
  BY <1>2, <1>3, <1>4, <1>8, MoreCreds
<1>10. renewal'[p] = r /\ \A q \in Process : q # p => renewal'[q] = renewal[q]
  BY <1>1, <1>3, <1>5, Becomes
<1> HIDE DEF n
<1>11. /\ \A s \in Sealed : creds'[s].token = creds[s].token /\ creds[s].token \in 0 .. issued
       /\ \A q \in Process : renewal[q].fresh # 0 =>
            renewal[q].fresh \in Sealed /\ renewal[q].before \in Sealed
       /\ connect.pc # "off" => connect.fresh \in Sealed
       /\ row = 0 \/ row \in Sealed
       /\ stored \subseteq Sealed
  BY <1>9, InHandSealed DEF Extends, IInv, StoreTyped
<1>12. orphans \subseteq 1 .. issued /\ (policy = "keeps" => orphans = {})
  BY DEF OInv, TokensApart
<1>13. new \notin orphans
  <2>1. CASE policy = "keeps"  BY <1>12, <2>1
  <2>2. CASE new = issued + 1  BY <1>3, <1>12, <2>2
  <2> QED  BY <1>7, <2>1, <2>2
<1>14. TokensApart'
  <2>1. orphans' \subseteq 1 .. issued'  BY <1>1, <1>3, <1>8, <1>12
  <2>2. policy' = "rotates" =>
       /\ \A s, t \in Sealed' : creds'[s].token = creds'[t].token /\ creds'[s].token # 0 => s = t
       /\ \A q \in Process : renewal'[q].fresh # 0 => creds'[renewal'[q].fresh].token # 0
    <3> SUFFICES ASSUME policy = "rotates"
                 PROVE  /\ \A s, t \in Sealed' :
                              creds'[s].token = creds'[t].token /\ creds'[s].token # 0 => s = t
                        /\ \A q \in Process : renewal'[q].fresh # 0 =>
                              creds'[renewal'[q].fresh].token # 0
      BY <1>1
    <3>1. new \notin 0 .. issued  BY <1>3, <1>7
    <3>2. \A s, t \in Sealed : creds[s].token = creds[t].token /\ creds[s].token # 0 => s = t
      BY DEF OInv, TokensApart, TokenOf
    <3>3. \A q \in Process : renewal[q].fresh # 0 => creds[renewal[q].fresh].token # 0
      BY DEF OInv, TokensApart, TokenOf
    <3>4. \A s, t \in Sealed' : creds'[s].token = creds'[t].token /\ creds'[s].token # 0 => s = t
      BY <1>9, <1>11, <3>1, <3>2
    <3>5. \A q \in Process : renewal'[q].fresh # 0 => creds'[renewal'[q].fresh].token # 0
      BY <1>5, <1>8, <1>9, <1>10, <1>11, <3>3
    <3> QED  BY <3>4, <3>5
  <2>3. policy' = "keeps" =>
       /\ orphans' = {}
       /\ \A q \in Process : renewal'[q].fresh # 0 =>
            creds'[renewal'[q].fresh].token = creds'[renewal'[q].before].token
    <3> SUFFICES ASSUME policy = "keeps", NEW q \in Process, renewal'[q].fresh # 0
                 PROVE  creds'[renewal'[q].fresh].token = creds'[renewal'[q].before].token
      BY <1>1, <1>12
    <3>1. CASE q = p  BY <1>4, <1>5, <1>7, <1>9, <1>10, <1>11, <3>1 DEF TokenOf
    <3>2. CASE q # p
      <4>1. renewal'[q] = renewal[q] /\ renewal[q].fresh # 0  BY <1>10, <3>2
      <4>2. creds[renewal[q].fresh].token = creds[renewal[q].before].token
        BY <4>1 DEF OInv, TokensApart, TokenOf
      <4> QED  BY <1>11, <4>1, <4>2
    <3> QED  BY <3>1, <3>2
  <2>4. policy' \in {"rotates", "keeps"}  BY <1>1, <1>7
  <2> QED  BY <2>1, <2>2, <2>3, <2>4 DEF TokensApart, TokenOf
<1>15. FreshApart'
  <2> SUFFICES ASSUME NEW o \in Process, renewal'[o].fresh # 0
               PROVE  /\ renewal'[o].tries # 0
                      /\ \A q \in Process : renewal'[q].fresh = renewal'[o].fresh => q = o
                      /\ connect'.pc # "off" => connect'.fresh # renewal'[o].fresh
                      /\ renewal'[o].pc = "write" /\ renewal'[o].fresh \in stored'
                         => renewal'[o].tries > 1
                      /\ renewal'[o].pc = "orphaned" => row' # renewal'[o].fresh
    BY DEF FreshApart
  <2>1. \A q \in Process : q # p /\ renewal[q].fresh # 0 => renewal[q].fresh # n
    BY <1>9, <1>11
  <2>2. CASE o = p
    <3>1. /\ renewal'[o].fresh = n /\ renewal'[o].pc = "write" /\ renewal'[o].tries # 0
          /\ n # 0 /\ n \notin stored
      BY <1>3, <1>5, <1>9, <1>10, <1>11, <2>2
    <3>2. \A q \in Process : renewal'[q].fresh = n => q = p  BY <1>10, <2>1, <3>1
    <3>3. connect.pc # "off" => connect.fresh # n  BY <1>9, <1>11
    <3> QED  BY <1>1, <2>2, <3>1, <3>2, <3>3
  <2>3. CASE o # p
    <3>1. renewal'[o] = renewal[o] /\ renewal[o].fresh # n  BY <1>10, <2>1, <2>3
    <3>2. \A q \in Process : renewal'[q].fresh = renewal[o].fresh => q = o
      BY <1>5, <1>10, <3>1 DEF OInv, FreshApart
    <3> QED  BY <1>1, <3>1, <3>2 DEF OInv, FreshApart
  <2> QED  BY <2>2, <2>3
<1>16. OrphansNowhere'
  <2> SUFFICES ASSUME NEW s \in Sealed', creds'[s].token \in orphans
               PROVE  /\ row # s
                      /\ \A q \in Process : renewal'[q].fresh # s
                      /\ connect.pc # "off" => connect.fresh # s
    BY <1>1 DEF OrphansNowhere, TokenOf
  <2>1. s # n  BY <1>9, <1>13
  <2>2. s \in Sealed /\ creds[s].token \in orphans  BY <1>9, <1>11, <2>1
  <2>3. /\ row # s
        /\ \A q \in Process : renewal[q].fresh # s
        /\ connect.pc # "off" => connect.fresh # s
    BY <2>2 DEF OInv, OrphansNowhere, TokenOf
  <2> QED  BY <1>5, <1>10, <2>1, <2>3
<1> QED  BY <1>14, <1>15, <1>16 DEF OInv

\* A token is revoked: it is of one credential, and no one has that any more.
LEMMA OrphanedApart == ASSUME IInv, OInv, NEW p \in Process, Orphaned(p) PROVE OInv'
<1> DEFINE old == TokenOf(renewal[p].before)
           new == TokenOf(renewal[p].fresh)
<1>1. /\ UNCHANGED <<creds, issued, policy, row, stored, connect>>
      /\ renewal[p].pc = "orphaned" /\ Ends(p)
      /\ orphans' = orphans \/ orphans' = orphans \union ({new} \ {old})
  BY DEF Orphaned, Keep, Others, Revocable
<1>2. issued \in Nat  BY DEF IInv, Typed
<1>3. /\ renewal'[p] = NoRenewal /\ NoRenewal.fresh = 0
      /\ \A q \in Process : q # p => renewal'[q] = renewal[q]
  BY <1>1, NoneIsRenewal, Becomes DEF Ends, NoRenewal, IInv
<1>4. \A q \in Process : renewal'[q].fresh = 0 \/ renewal'[q] = renewal[q]  BY <1>3
<1>5. CASE orphans' = orphans
  <2>1. issued' \in Nat /\ issued <= issued'  BY <1>1, <1>2
  <2>2. connect'.pc = "off" \/ (connect.pc # "off" /\ connect'.fresh = connect.fresh)
    BY <1>1
  <2> QED  BY <1>1, <1>4, <1>5, <2>1, <2>2, RowStays
<1>6. CASE orphans' = orphans \union {new} /\ new # old
  <2>1. /\ renewal[p].fresh # 0 /\ renewal[p].fresh \in Sealed
        /\ new \in 0 .. issued
    BY <1>1, InHandSealed DEF IInv, EachSound, Sound, StoreTyped, TokenOf
  <2>2. policy = "rotates"  BY <1>6, <2>1 DEF OInv, TokensApart
  <2>3. /\ \A s, t \in Sealed : TokenOf(s) = TokenOf(t) /\ TokenOf(s) # 0 => s = t
        /\ new # 0
    BY <2>1, <2>2 DEF OInv, TokensApart
  <2>4. Sealed' = Sealed  BY <1>1 DEF Sealed
  <2>5. TokensApart'
    <3>1. orphans' \subseteq 1 .. issued'
      <4>1. orphans \subseteq 1 .. issued  BY DEF OInv, TokensApart
      <4> HIDE DEF new
      <4> QED  BY <1>1, <1>2, <1>6, <2>1, <2>3, <4>1
    <3>2. \A q \in Process : renewal'[q].fresh # 0 => creds'[renewal'[q].fresh].token # 0
      BY <1>1, <1>4, <2>2 DEF OInv, TokensApart, TokenOf
    <3>3. \A s, t \in Sealed' : creds'[s].token = creds'[t].token /\ creds'[s].token # 0 => s = t
      BY <1>1, <2>3, <2>4 DEF TokenOf
    <3>4. policy' = "rotates"  BY <1>1, <2>2
    <3> QED  BY <3>1, <3>2, <3>3, <3>4 DEF TokensApart, TokenOf
  <2>6. FreshApart'  BY <1>1, <1>4 DEF OInv, FreshApart
  <2>7. OrphansNowhere'
    <3> SUFFICES ASSUME NEW s \in Sealed, creds[s].token \in orphans'
                 PROVE  /\ row # s
                        /\ \A q \in Process : renewal'[q].fresh # s
                        /\ connect.pc # "off" => connect.fresh # s
      BY <1>1, <2>4 DEF OrphansNowhere, TokenOf
    <3>1. s # 0  BY InHandSealed
    <3>2. CASE creds[s].token \in orphans
      BY <1>4, <3>1, <3>2 DEF OInv, OrphansNowhere, TokenOf
    <3>3. CASE creds[s].token = new
      <4>1. s = renewal[p].fresh  BY <2>1, <2>3, <3>3 DEF TokenOf
      <4>2. /\ \A q \in Process : renewal[q].fresh = s => q = p
            /\ connect.pc # "off" => connect.fresh # s
            /\ row # s
        BY <1>1, <2>1, <4>1 DEF OInv, FreshApart
      <4> QED  BY <1>3, <3>1, <4>2
    <3> QED  BY <1>6, <3>2, <3>3
  <2> QED  BY <2>5, <2>6, <2>7 DEF OInv
<1> QED  BY <1>1, <1>5, <1>6

LEMMA WriteLandsApart == ASSUME IInv, OInv, NEW p \in Process, WriteLands(p) PROVE OInv'
<1> DEFINE s == renewal[p].fresh
           r == [renewal[p] EXCEPT !.tries = @ + 1]
<1>1. /\ UNCHANGED <<creds, issued, policy, connect, orphans>>
      /\ renewal[p].pc = "write" /\ Hold(s)
      /\ Become(p, NoRenewal) \/ (Become(p, r) /\ renewal[p].tries < WriteTries)
  BY DEF WriteLands, AtServer, Others, TryAgain, Ends
<1>2. row' = s /\ stored' = stored \union ({s} \ {0})  BY <1>1 DEF Hold
<1>3. issued' \in Nat /\ issued <= issued'  BY <1>1 DEF IInv, Typed
<1>4. renewal[p].fresh \in Sealed /\ s # 0
  BY <1>1, InHandSealed DEF IInv, EachSound, Sound
<1>5. /\ r \in Renewal /\ r.pc = "write" /\ r.before = renewal[p].before /\ r.fresh = s
  BY <1>1, Retries
<1>6. renewal[p].tries \in Nat /\ renewal[p].tries # 0 => r.tries > 1
  BY DEF IInv, Typed, Renewal
<1> HIDE DEF r
<1>7. /\ renewal'[p] \in {NoRenewal, r} /\ NoRenewal.fresh = 0
      /\ \A q \in Process : q # p => renewal'[q] = renewal[q]
  BY <1>1, <1>5, NoneIsRenewal, Becomes DEF NoRenewal, IInv
<1>8. \A q \in Process : renewal'[q].fresh # 0 =>
           /\ renewal'[q].fresh = renewal[q].fresh /\ renewal'[q].before = renewal[q].before
           /\ renewal'[q].tries # 0
           /\ renewal'[q].pc = "write" /\ renewal'[q].fresh \in stored' => renewal'[q].tries > 1
           /\ renewal'[q].pc = "orphaned" => row' # renewal'[q].fresh
  <2> SUFFICES ASSUME NEW q \in Process, renewal'[q].fresh # 0
               PROVE  /\ renewal'[q].fresh = renewal[q].fresh
                      /\ renewal'[q].before = renewal[q].before
                      /\ renewal'[q].tries # 0
                      /\ renewal'[q].pc = "write" /\ renewal'[q].fresh \in stored'
                         => renewal'[q].tries > 1
                      /\ renewal'[q].pc = "orphaned" => row' # renewal'[q].fresh
    OBVIOUS
  <2>1. CASE q = p
    <3>1. renewal'[q] = r  BY <1>7, <2>1
    <3>2. renewal[p].tries # 0  BY <1>4 DEF OInv, FreshApart
    <3> QED  BY <1>5, <1>6, <2>1, <3>1, <3>2 DEF IInv, Typed, Renewal
  <2>2. CASE q # p
    <3>1. renewal'[q] = renewal[q] /\ renewal[q].fresh # s
      BY <1>4, <1>7, <2>2 DEF OInv, FreshApart
    <3> QED  BY <1>2, <3>1 DEF OInv, FreshApart
  <2> QED  BY <2>1, <2>2
<1>9. \E q \in Process : renewal[q].fresh # 0 /\ row' = renewal[q].fresh
  BY <1>2, <1>4
<1>10. connect'.pc = "off" \/ (connect.pc # "off" /\ connect'.fresh = connect.fresh)
  BY <1>1
<1> QED  BY <1>1, <1>3, <1>8, <1>9, <1>10, HandsKept

LEMMA WriteThrowsApart == ASSUME IInv, OInv, NEW p \in Process, WriteThrows(p) PROVE OInv'
<1> DEFINE r == [renewal[p] EXCEPT !.tries = @ + 1]
<1>1. /\ UNCHANGED <<creds, issued, policy, connect, orphans, row, stored>>
      /\ renewal[p].pc = "write" /\ renewal[p].pc # "off"
      /\ Become(p, NoRenewal) \/ Become(p, r)
  BY DEF WriteThrows, Keep, AtServer, Others, TryAgain, Ends
<1>2. issued' \in Nat /\ issued <= issued'  BY <1>1 DEF IInv, Typed
<1>3. r \in Renewal /\ r.pc = "write" /\ r.before = renewal[p].before /\ r.fresh = renewal[p].fresh
  BY <1>1, Retries
<1>4. renewal[p].tries \in Nat /\ r.tries = renewal[p].tries + 1
  BY DEF IInv, Typed, Renewal
<1> HIDE DEF r
<1>5. /\ renewal'[p] \in {NoRenewal, r} /\ NoRenewal.fresh = 0
      /\ \A q \in Process : q # p => renewal'[q] = renewal[q]
  BY <1>1, <1>3, NoneIsRenewal, Becomes DEF NoRenewal, IInv
<1>6. \A q \in Process : renewal'[q].fresh # 0 =>
           /\ renewal'[q].fresh = renewal[q].fresh /\ renewal'[q].before = renewal[q].before
           /\ renewal'[q].tries # 0
           /\ renewal'[q].pc = "write" /\ renewal'[q].fresh \in stored' => renewal'[q].tries > 1
           /\ renewal'[q].pc = "orphaned" => row' # renewal'[q].fresh
  <2> SUFFICES ASSUME NEW q \in Process, renewal'[q].fresh # 0
               PROVE  /\ renewal'[q].fresh = renewal[q].fresh
                      /\ renewal'[q].before = renewal[q].before
                      /\ renewal'[q].tries # 0
                      /\ renewal'[q].pc = "write" /\ renewal'[q].fresh \in stored'
                         => renewal'[q].tries > 1
                      /\ renewal'[q].pc = "orphaned" => row' # renewal'[q].fresh
    OBVIOUS
  <2>1. CASE q = p
    <3>1. renewal'[q] = r /\ renewal[p].fresh # 0  BY <1>3, <1>5, <2>1
    <3>2. renewal[p].fresh \in stored => renewal[p].tries > 1
      BY <1>1, <3>1 DEF OInv, FreshApart
    <3> QED  BY <1>1, <1>3, <1>4, <2>1, <3>1, <3>2
  <2>2. CASE q # p
    <3>1. renewal'[q] = renewal[q]  BY <1>5, <2>2
    <3> QED  BY <1>1, <3>1 DEF OInv, FreshApart
  <2> QED  BY <2>1, <2>2
<1>7. row' \in {row, 0}  BY <1>1
<1>8. connect'.pc = "off" \/ (connect.pc # "off" /\ connect'.fresh = connect.fresh)
  BY <1>1
<1> QED  BY <1>1, <1>2, <1>6, <1>7, <1>8, HandsKept

\* The row is not what was refused: had it been an earlier try that landed, the
\* write would have counted as done.
LEMMA WriteRefusedApart == ASSUME IInv, OInv, NEW p \in Process, WriteRefused(p) PROVE OInv'
<1> DEFINE r == [renewal[p] EXCEPT !.pc = "orphaned"]
<1>1. /\ UNCHANGED <<creds, issued, policy, connect, orphans, row, stored>>
      /\ renewal[p].pc = "write"
      /\ \/ Become(p, NoRenewal)
         \/ Become(p, r) /\ ~(renewal[p].tries > 1 /\ row = renewal[p].fresh)
  BY DEF WriteRefused, Goes, Keep, AtServer, Others, Ends
<1>2. issued' \in Nat /\ issued <= issued'  BY <1>1 DEF IInv, Typed
<1>3. /\ r \in Renewal /\ r.pc = "orphaned" /\ r.before = renewal[p].before
      /\ r.fresh = renewal[p].fresh /\ r.tries = renewal[p].tries
  BY DEF IInv, Typed, Renewal, Stages
<1> HIDE DEF r
<1>4. /\ \/ renewal'[p] = NoRenewal
         \/ renewal'[p] = r /\ ~(renewal[p].tries > 1 /\ row = renewal[p].fresh)
      /\ NoRenewal.fresh = 0
      /\ \A q \in Process : q # p => renewal'[q] = renewal[q]
  BY <1>1, <1>3, NoneIsRenewal, Becomes DEF NoRenewal, IInv
<1>5. \A q \in Process : renewal'[q].fresh # 0 =>
           /\ renewal'[q].fresh = renewal[q].fresh /\ renewal'[q].before = renewal[q].before
           /\ renewal'[q].tries # 0
           /\ renewal'[q].pc = "write" /\ renewal'[q].fresh \in stored' => renewal'[q].tries > 1
           /\ renewal'[q].pc = "orphaned" => row' # renewal'[q].fresh
  <2> SUFFICES ASSUME NEW q \in Process, renewal'[q].fresh # 0
               PROVE  /\ renewal'[q].fresh = renewal[q].fresh
                      /\ renewal'[q].before = renewal[q].before
                      /\ renewal'[q].tries # 0
                      /\ renewal'[q].pc = "write" /\ renewal'[q].fresh \in stored'
                         => renewal'[q].tries > 1
                      /\ renewal'[q].pc = "orphaned" => row' # renewal'[q].fresh
    OBVIOUS
  <2>1. CASE q = p
    <3>1. /\ renewal'[q] = r /\ renewal[p].fresh # 0
          /\ ~(renewal[p].tries > 1 /\ row = renewal[p].fresh)
      BY <1>3, <1>4, <2>1
    <3>2. row # renewal[p].fresh /\ renewal[p].tries # 0
      BY <1>1, <3>1 DEF OInv, FreshApart, IInv, StoreTyped
    <3> QED  BY <1>1, <1>3, <2>1, <3>1, <3>2
  <2>2. CASE q # p
    <3>1. renewal'[q] = renewal[q]  BY <1>4, <2>2
    <3> QED  BY <1>1, <3>1 DEF OInv, FreshApart
  <2> QED  BY <2>1, <2>2
<1>6. row' \in {row, 0}  BY <1>1
<1>7. connect'.pc = "off" \/ (connect.pc # "off" /\ connect'.fresh = connect.fresh)
  BY <1>1
<1> QED  BY <1>1, <1>2, <1>5, <1>6, <1>7, HandsKept

\* The row is deleted, or becomes what a callback brought.
LEMMA PutOrDeleted ==
  ASSUME IInv, OInv, NEW s, Hold(s), s = 0 \/ (connect.pc # "off" /\ s = connect.fresh),
         UNCHANGED <<creds, issued, policy, orphans>>,
         \A q \in Process : renewal'[q].fresh = 0 \/ renewal'[q] = renewal[q],
         connect'.pc = "off" \/ (connect.pc # "off" /\ connect'.fresh = connect.fresh)
  PROVE  OInv'
<1>1. row' = s /\ stored' = stored \union ({s} \ {0})  BY DEF Hold
<1>2. issued' \in Nat /\ issued <= issued'  BY DEF IInv, Typed
<1>3. \A q \in Process : renewal'[q].fresh # 0 =>
           /\ renewal'[q].fresh = renewal[q].fresh /\ renewal'[q].before = renewal[q].before
           /\ renewal'[q].tries # 0
           /\ renewal'[q].pc = "write" /\ renewal'[q].fresh \in stored' => renewal'[q].tries > 1
           /\ renewal'[q].pc = "orphaned" => row' # renewal'[q].fresh
  <2> SUFFICES ASSUME NEW q \in Process, renewal[q].fresh # 0, renewal'[q] = renewal[q]
               PROVE  /\ renewal[q].tries # 0
                      /\ renewal[q].pc = "write" /\ renewal[q].fresh \in stored'
                         => renewal[q].tries > 1
                      /\ renewal[q].pc = "orphaned" => row' # renewal[q].fresh
    OBVIOUS
  <2>1. s # renewal[q].fresh  BY DEF OInv, FreshApart
  <2> QED  BY <1>1, <2>1 DEF OInv, FreshApart
<1>4. \/ row' \in {row, 0}
      \/ connect.pc # "off" /\ row' = connect.fresh
  BY <1>1
<1> QED  BY <1>2, <1>3, <1>4, HandsKept

LEMMA PutsApart == ASSUME IInv, OInv, ConnectPuts \/ ConnectFails PROVE OInv'
<1>1. /\ UNCHANGED <<creds, issued, policy, renewal, orphans>>
      /\ connect.pc # "off"
      /\ connect'.pc = "off" \/ connect'.fresh = connect.fresh
  <2>1. connect \in Connect  BY DEF IInv, Typed
  <2>2. CASE ConnectPuts
    <3>1. connect' = NoConnect \/ connect' = [connect EXCEPT !.pc = "read", !.tries = @ + 1]
      BY <2>2 DEF ConnectPuts
    <3>2. /\ UNCHANGED <<creds, issued, policy, renewal, orphans>>
          /\ connect.pc = "put"
      BY <2>2 DEF ConnectPuts, AtServer
    <3>3. CASE connect' = NoConnect  BY <3>2, <3>3 DEF NoConnect
    <3>4. CASE connect' = [connect EXCEPT !.pc = "read", !.tries = @ + 1]
      BY <2>1, <3>2, <3>4 DEF Connect
    <3> QED  BY <3>1, <3>3, <3>4
  <2>3. CASE ConnectFails  BY <2>3 DEF ConnectFails, AtServer, NoConnect
  <2> QED  BY <2>2, <2>3
<1>2. (row' = row /\ stored' = stored) \/ Hold(connect.fresh)
  BY DEF ConnectPuts, ConnectFails, Keep
<1>3. \A q \in Process : renewal'[q].fresh = 0 \/ renewal'[q] = renewal[q]  BY <1>1
<1>4. CASE Hold(connect.fresh)
  <2> DEFINE s == connect.fresh
  <2>1. Hold(s) /\ (s = 0 \/ (connect.pc # "off" /\ s = connect.fresh))  BY <1>1, <1>4
  <2>2. connect'.pc = "off" \/ (connect.pc # "off" /\ connect'.fresh = connect.fresh)
    BY <1>1
  <2> HIDE DEF s
  <2> QED  BY <1>1, <1>3, <2>1, <2>2, PutOrDeleted
<1>5. CASE row' = row /\ stored' = stored
  <2>1. issued' \in Nat /\ issued <= issued'  BY <1>1 DEF IInv, Typed
  <2>2. connect'.pc = "off" \/ (connect.pc # "off" /\ connect'.fresh = connect.fresh)
    BY <1>1
  <2> QED  BY <1>1, <1>3, <1>5, <2>1, <2>2, RowStays
<1> QED  BY <1>2, <1>4, <1>5

LEMMA DeletesApart ==
  ASSUME IInv, OInv, LeaveDeletes \/ (\E p \in Process : Drop(p) /\ Hold(0))
  PROVE  OInv'
<1>1. /\ UNCHANGED <<creds, issued, policy, connect, orphans>> /\ Hold(0)
      /\ renewal' = renewal \/ \E p \in Process : Become(p, NoRenewal)
  BY DEF LeaveDeletes, Drop, AtServer, Others, Ends
<1>2. \A q \in Process : renewal'[q].fresh = 0 \/ renewal'[q] = renewal[q]
  BY <1>1, NoneIsRenewal, Becomes DEF NoRenewal, IInv
<1>3. connect'.pc = "off" \/ (connect.pc # "off" /\ connect'.fresh = connect.fresh)
  BY <1>1
<1> QED  BY <1>1, <1>2, <1>3, PutOrDeleted

\* The steps that revoke nothing, seal nothing and leave the row.
LEMMA RestApart ==
  ASSUME IInv, OInv,
         \/ ConnectReads \/ LeaveReads \/ LeaveRevokes \/ LeaveFails \/ Lapse
         \/ \E t \in live : Withdraw(t)
         \/ \E p \in Process :
              \/ Begin(p) \/ TakeLease(p) \/ GiveUpOnLease(p) \/ Refusal(p) \/ Outage(p)
              \/ (Drop(p) /\ Keep) \/ Fails(p)
         \/ UNCHANGED vars
  PROVE  OInv'
<1>1. /\ UNCHANGED <<creds, policy, orphans, row, stored>>
      /\ issued' = issued \/ issued' = issued + 1
  <2>1. CASE ConnectReads \/ LeaveReads \/ LeaveRevokes \/ LeaveFails \/ Lapse
    BY <2>1 DEF ConnectReads, LeaveReads, LeaveRevokes, LeaveFails, Lapse, Keep, AtServer, Others
  <2>2. CASE \E t \in live : Withdraw(t)  BY <2>2 DEF Withdraw, Keep, Others
  <2>3. CASE \E p \in Process :
              \/ Begin(p) \/ TakeLease(p) \/ GiveUpOnLease(p) \/ Refusal(p) \/ Outage(p)
              \/ (Drop(p) /\ Keep) \/ Fails(p)
    BY <2>3
    DEF Begin, TakeLease, GiveUpOnLease, Refusal, Outage, Drop, Fails, Keep, AtServer, Others
  <2>4. CASE UNCHANGED vars  BY <2>4 DEF vars
  <2> QED  BY <2>1, <2>2, <2>3, <2>4
<1>2. issued' \in Nat /\ issued <= issued'  BY <1>1 DEF IInv, Typed
<1>3. connect'.pc = "off" \/ (connect.pc # "off" /\ connect'.fresh = connect.fresh)
  <2>1. CASE ConnectReads
    <3>1. connect.pc = "read" /\ connect' = [connect EXCEPT !.pc = "put", !.before = row]
      BY <2>1 DEF ConnectReads
    <3> QED  BY <3>1 DEF IInv, Typed, Connect
  <2>2. CASE connect' = connect
    <3>1. CASE connect.pc = "off"  BY <2>2, <3>1
    <3>2. CASE connect.pc # "off"  BY <2>2, <3>2
    <3> QED  BY <3>1, <3>2
  <2>3. ConnectReads \/ connect' = connect
    BY DEF LeaveReads, LeaveRevokes, LeaveFails, Lapse, Withdraw, Others, vars,
           Begin, TakeLease, GiveUpOnLease, Refusal, Outage, Drop, Fails
  <2> QED  BY <2>1, <2>2, <2>3
<1>4. \A q \in Process : renewal'[q].fresh = 0 \/ renewal'[q] = renewal[q]
  <2>1. CASE renewal' = renewal  BY <2>1
  <2>2. ASSUME NEW p \in Process, Become(p, NoRenewal)
        PROVE  \A q \in Process : renewal'[q].fresh = 0 \/ renewal'[q] = renewal[q]
    BY <2>2, NoneIsRenewal, Becomes DEF NoRenewal, IInv
  <2>3. ASSUME NEW p \in Process, NEW pc \in Stages, renewal[p].fresh = 0,
               Become(p, [renewal[p] EXCEPT !.pc = pc])
        PROVE  \A q \in Process : renewal'[q].fresh = 0 \/ renewal'[q] = renewal[q]
    <3> DEFINE r == [renewal[p] EXCEPT !.pc = pc]
    <3>1. r \in Renewal /\ r.fresh = 0  BY <2>3 DEF IInv, Typed, Renewal
    <3>2. Become(p, r)  BY <2>3
    <3> HIDE DEF r
    <3>3. renewal'[p] = r /\ \A q \in Process : q # p => renewal'[q] = renewal[q]
      BY <3>1, <3>2, Becomes DEF IInv
    <3> QED  BY <3>1, <3>3
  <2>4. ASSUME NEW p \in Process, Begin(p)
        PROVE  \A q \in Process : renewal'[q].fresh = 0 \/ renewal'[q] = renewal[q]
    <3>1. PICK pc \in Stages : renewal' = [renewal EXCEPT ![p] =
             [NoRenewal EXCEPT !.pc = pc, !.before = row, !.holder = renewals + 1]]
      BY <2>4 DEF Begin, Become, Stages
    <3>2. [NoRenewal EXCEPT !.pc = pc, !.before = row, !.holder = renewals + 1].fresh = 0
      BY DEF NoRenewal
    <3> QED  BY <3>1, <3>2 DEF IInv, Typed
  <2>5. ASSUME NEW p \in Process, TakeLease(p) \/ Refusal(p)
        PROVE  \A q \in Process : renewal'[q].fresh = 0 \/ renewal'[q] = renewal[q]
    <3>1. renewal[p].fresh = 0
      BY <2>5 DEF TakeLease, Refusal, IInv, EachSound, Sound
    <3>2. \E pc \in Stages : Become(p, [renewal[p] EXCEPT !.pc = pc])
      BY <2>5 DEF TakeLease, Refusal, Goes, Stages
    <3> QED  BY <2>3, <3>1, <3>2
  <2>6. CASE renewal' = renewal \/ \E p \in Process : Become(p, NoRenewal)
    BY <2>1, <2>2, <2>6
  <2>7. \/ renewal' = renewal
        \/ \E p \in Process : Become(p, NoRenewal) \/ Begin(p) \/ TakeLease(p) \/ Refusal(p)
    BY DEF ConnectReads, LeaveReads, LeaveRevokes, LeaveFails, Lapse, Withdraw, vars,
           GiveUpOnLease, Outage, Drop, Fails, Ends
  <2> QED  BY <2>1, <2>2, <2>4, <2>5, <2>7
<1> QED  BY <1>1, <1>2, <1>3, <1>4, RowStays

LEMMA StepApart == ASSUME IInv, OInv, [Next]_vars PROVE OInv'
<1>1. CASE Exchange  BY <1>1, ExchangeApart
<1>2. CASE ConnectPuts \/ ConnectFails  BY <1>2, PutsApart
<1>3. CASE LeaveDeletes  BY <1>3, DeletesApart
<1>4. ASSUME NEW p \in Process, Renew(p)  PROVE OInv'
  <2>1. CASE Granted(p)  BY <2>1, GrantedApart
  <2>2. CASE WriteLands(p)  BY <2>2, WriteLandsApart
  <2>3. CASE WriteThrows(p)  BY <2>3, WriteThrowsApart
  <2>4. CASE WriteRefused(p)  BY <2>4, WriteRefusedApart
  <2>5. CASE Orphaned(p)  BY <2>5, OrphanedApart
  <2>6. CASE Drop(p)
    <3>1. Hold(0) \/ Keep  BY <2>6 DEF Drop
    <3> QED  BY <2>6, <3>1, DeletesApart, RestApart
  <2>7. CASE TakeLease(p) \/ GiveUpOnLease(p) \/ Refusal(p) \/ Outage(p)
    BY <2>7, RestApart
  <2> QED  BY <1>4, <2>1, <2>2, <2>3, <2>4, <2>5, <2>6, <2>7 DEF Renew
<1>5. ASSUME NEW p \in Process, Begin(p) \/ Fails(p)  PROVE OInv'  BY <1>5, RestApart
<1>6. CASE ConnectReads \/ LeaveReads \/ LeaveRevokes \/ LeaveFails \/ Lapse
           \/ (\E t \in live : Withdraw(t)) \/ UNCHANGED vars
  BY <1>6, RestApart
<1> QED  BY <1>1, <1>2, <1>3, <1>4, <1>5, <1>6 DEF Next

LEMMA ApartInitially == ASSUME "either" \notin Policies, Init PROVE OInv
<1>1. Sealed = {}  BY EmptySeq DEF Init, Sealed
<1>2. policy \in {"rotates", "keeps"}  BY OAuthAssumption DEF Init, AllPolicies
<1>3. \A p \in Process : renewal[p].fresh = 0  BY DEF Init, NoRenewal
<1>4. orphans = {}  BY DEF Init
<1> QED  BY <1>1, <1>2, <1>3, <1>4 DEF OInv, TokensApart, FreshApart, OrphansNowhere

\* With an authorization server that always makes a new token, or never does, what
\* is revoked as no one's is never what the store holds, however often the write
\* was tried and its answer lost; and no token that a refresh was issued is left
\* good and forgotten (write, orphaned).
THEOREM NoneForgotten == ASSUME "either" \notin Policies PROVE Spec => []OrphansRevoked
<1>1. Init => IInv /\ OInv  BY Initially, ApartInitially
<1>2. IInv /\ OInv /\ [Next]_vars => (IInv /\ OInv)'
  <2> SUFFICES ASSUME IInv, OInv, [Next]_vars  PROVE IInv' /\ OInv'
    OBVIOUS
  <2>1. IInv'  BY StepKeeps
  <2>2. OInv'  BY StepApart
  <2> QED  BY <2>1, <2>2
<1>3. IInv /\ OInv => OrphansRevoked
  <2> SUFFICES ASSUME IInv, OInv  PROVE OrphansRevoked
    OBVIOUS
  <2>1. row # 0 => TokenOf(row) \notin orphans
    BY DEF OInv, OrphansNowhere, IInv, StoreTyped
  <2>2. \A s \in Sealed :
          TokenOf(s) \in live /\ ~InAnAccount(TokenOf(s)) =>
             \/ \E x \in stored : TokenOf(x) = TokenOf(s)
             \/ \E p \in Process : TokenOf(s) \in InHand(p)
             \/ TokenOf(s) \in lost
    BY DEF IInv, Accounted, HasHome
  <2> QED  BY <2>1, <2>2 DEF OrphansRevoked, InAnAccount
<1> QED  BY <1>1, <1>2, <1>3, PTL DEF Spec

-------------------------------------------------------------------------------
(* Connections                                                                 *)

Link ==
  [user : Users, client : Nat, dial : {"none", "making", "made", "connecting"}, as : Nat,
   dialed : Nat, check : {"none", "looking", "hanging"}, known : Nat, saw : Nat, busy : Nat,
   idle : BOOLEAN, shut : BOOLEAN, asked : BOOLEAN, closing : Nat]

Conn == [link : Nat, cred : Nat, at : {"up", "gone", "closed"}]

Call ==
  [at : {"new", "checking", "opening", "ready", "sent", "over", "done"}, link : Nat, conn : Nat,
   found : Nat]

\* The connection a link uses, or is dialing, is its own, and one account's: that its
\* last check found, but while what it found is to be hung up.
Uses(k, l, cs) ==
  /\ k.client # 0 =>
       /\ k.client \in 1 .. Len(cs) /\ cs[k.client].link = l
       /\ ~k.shut /\ k.dial = "none"
       /\ k.check # "hanging" => cs[k.client].cred = k.known
  /\ k.dial # "none" => k.as # 0 /\ (k.check # "hanging" => k.as = k.known)
  /\ k.dialed # 0 <=> k.dial \in {"made", "connecting"}
  /\ k.dialed # 0 =>
       k.dialed \in 1 .. Len(cs) /\ cs[k.dialed].link = l /\ cs[k.dialed].cred = k.as
  /\ k.shut => k.dial # "making"
  /\ k.closing # 0 => k.shut

\* The calls that hold a link.
InFlight == {"checking", "opening", "ready", "sent", "over"}
Holding(cs, l) == {c \in Calls : cs[c].link = l /\ cs[c].at \in InFlight}

\* A link knows how many calls hold it.
Counts(k, l, cs) == k.busy = Cardinality(Holding(cs, l)) /\ (k.idle => k.busy = 0)

\* A connection is some link's to close until it is closed.
Owned(n, cs, ls) ==
  /\ cs[n].link \in 1 .. Len(ls) /\ cs[n].cred # 0
  /\ LET k == ls[cs[n].link]
     IN  cs[n].at # "closed" => k.client = n \/ k.closing = n \/ k.dialed = n

\* A call by where it is, k its link.
Placed(q, ls, cs) ==
  /\ q.at \in InFlight =>
       /\ q.link \in 1 .. Len(ls)
       /\ ls[q.link].shut => ls[q.link].asked
  /\ q.at \in {"ready", "sent"} =>
       q.conn \in 1 .. Len(cs) /\ cs[q.conn].link = q.link /\ cs[q.conn].cred = q.found
  /\ q.at = "opening" =>
       IF ls[q.link].dial = "none" THEN ls[q.link].shut ELSE ls[q.link].as = q.found

\* The pool holds each link once, and none that is shut.
Pooled(p, ls) ==
  /\ \A i, j \in 1 .. Len(p) : p[i] = p[j] => i = j
  /\ \A i \in 1 .. Len(p) : p[i] \in 1 .. Len(ls) /\ ~ls[p[i]].shut

\* Over its cap, it has no link to shed.
Trim(p, ls) == Len(p) > MaxConnections => \A i \in 1 .. Len(p) : ls[p[i]].busy > 0

\* The links of a process, its connections and its calls.
LinksSound(ls, cs, qs) ==
  /\ ls \in Seq(Link) /\ cs \in Seq(Conn) /\ qs \in [Calls -> Call]
  /\ \A l \in 1 .. Len(ls) : Uses(ls[l], l, cs) /\ Counts(ls[l], l, qs)
  /\ \A n \in 1 .. Len(cs) : Owned(n, cs, ls)
  /\ \A c \in Calls : Placed(qs[c], ls, cs)

LinksInv ==
  /\ LinksSound(links, conns, calls)
  /\ pool \in Seq(Nat) /\ Pooled(pool, links) /\ Trim(pool, links)
  /\ held \in [Users -> Nat]
  /\ faults \in [changes : Nat, drops : Nat]

-------------------------------------------------------------------------------
(* What is left of a pool                                                      *)

Less == {ss \in Nat \X Nat : ss[1] < ss[2]}

LEMMA LeastOfAll ==
  ASSUME NEW S \in SUBSET Nat, S # {}
  PROVE  \E m \in S : \A k \in S : m <= k
<1>1. IsWellFoundedOn(Less, Nat)
  BY NatLessThanWellFounded DEF OpToRel, Less
<1>2. PICK m \in S : \A k \in S : <<k, m>> \notin Less
  BY <1>1, WFMin
<1>3. ASSUME NEW k \in S PROVE m <= k
  <2>1. m \in Nat /\ k \in Nat /\ <<k, m>> \notin Less  BY <1>2
  <2>2. ~(k < m)  BY <2>1 DEF Less
  <2> QED  BY <2>1, <2>2
<1> QED  BY <1>3

\* f joins up the first k of s, as FlattenSeq does.
Joins(f, k, s) == f = [i \in 1 .. k |-> IF i = 1 THEN s[i] ELSE f[i - 1] \o s[i]]

LEMMA JoinsAre ==
  ASSUME NEW f, NEW k, NEW s
  PROVE  Joins(f, k, s) <=> /\ f = [i \in 1 .. k |-> f[i]]
                            /\ \A i \in 1 .. k : f[i] = IF i = 1 THEN s[i] ELSE f[i - 1] \o s[i]
<1>1. ASSUME Joins(f, k, s)
      PROVE  /\ f = [i \in 1 .. k |-> f[i]]
             /\ \A i \in 1 .. k : f[i] = IF i = 1 THEN s[i] ELSE f[i - 1] \o s[i]
  <2>1. f = [i \in 1 .. k |-> IF i = 1 THEN s[i] ELSE f[i - 1] \o s[i]]  BY <1>1 DEF Joins
  <2>2. \A i \in 1 .. k : f[i] = IF i = 1 THEN s[i] ELSE f[i - 1] \o s[i]  BY <2>1
  <2> QED  BY <2>1, <2>2
<1>2. ASSUME /\ f = [i \in 1 .. k |-> f[i]]
             /\ \A i \in 1 .. k : f[i] = IF i = 1 THEN s[i] ELSE f[i - 1] \o s[i]
      PROVE  Joins(f, k, s)
  <2>1. [i \in 1 .. k |-> f[i]] = [i \in 1 .. k |-> IF i = 1 THEN s[i] ELSE f[i - 1] \o s[i]]
    BY <1>2
  <2> QED  BY <1>2, <2>1 DEF Joins
<1> QED  BY <1>1, <1>2

LEMMA JoinsExist ==
  ASSUME NEW s, NEW n \in Nat
  PROVE  \E f : Joins(f, n, s)
<1> DEFINE Without == {k \in Nat : ~ \E f : Joins(f, k, s)}
<1>1. SUFFICES ASSUME Without # {} PROVE FALSE
  OBVIOUS
<1>2. PICK k \in Without : \A j \in Without : k <= j
  <2> HIDE DEF Without
  <2>1. Without \in SUBSET Nat  BY DEF Without
  <2> QED  BY <1>1, <2>1, LeastOfAll
<1>3. CASE k = 0
  <2> DEFINE f == [i \in 1 .. 0 |-> 0]
  <2>1. Joins(f, 0, s)
    <3>1. f = [i \in 1 .. 0 |-> f[i]] /\ \A i \in 1 .. 0 : FALSE  OBVIOUS
    <3> HIDE DEF f
    <3> QED  BY <3>1, JoinsAre
  <2> QED  BY <1>3, <2>1
<1>4. CASE k # 0
  <2>1. k - 1 \in Nat /\ k - 1 \notin Without  BY <1>2, <1>4
  <2>2. PICK f : Joins(f, k - 1, s)  BY <2>1
  <2> DEFINE last == IF k = 1 THEN s[k] ELSE f[k - 1] \o s[k]
             g == [i \in 1 .. k |-> IF i = k THEN last ELSE f[i]]
  <2>3. \A i \in 1 .. k - 1 : f[i] = IF i = 1 THEN s[i] ELSE f[i - 1] \o s[i]
    BY <2>2, JoinsAre
  <2> HIDE DEF last
  <2>4. g = [i \in 1 .. k |-> g[i]] /\ g[k] = last /\ \A i \in 1 .. k - 1 : g[i] = f[i]
    BY <2>1
  <2> HIDE DEF g
  <2>5. ASSUME NEW i \in 1 .. k PROVE g[i] = IF i = 1 THEN s[i] ELSE g[i - 1] \o s[i]
    <3>1. CASE i = k
      <4>1. k # 1 => g[k - 1] = f[k - 1]
        <5>1. k # 1 => k - 1 \in 1 .. k - 1  BY <2>1, <1>4
        <5> QED  BY <2>4, <5>1
      <4> QED  BY <2>4, <3>1, <4>1 DEF last
    <3>2. CASE i # k
      <4>1. i \in 1 .. k - 1 /\ (i # 1 => i - 1 \in 1 .. k - 1)  BY <3>2
      <4> QED  BY <2>3, <2>4, <4>1
    <3> QED  BY <3>1, <3>2
  <2>6. Joins(g, k, s)  BY <2>4, <2>5, JoinsAre
  <2> QED  BY <2>6
<1> QED  BY <1>3, <1>4

LEMMA FlattenJoins ==
  ASSUME NEW s, Len(s) \in Nat, Len(s) # 0
  PROVE  \E f : Joins(f, Len(s), s) /\ FlattenSeq(s) = f[Len(s)]
<1> DEFINE flat == CHOOSE f : f = [i \in 1 .. Len(s) |-> IF i = 1 THEN s[i] ELSE f[i - 1] \o s[i]]
<1>1. FlattenSeq(s) = flat[Len(s)]  BY DEF FlattenSeq
<1>2. Joins(flat, Len(s), s)
  <2>1. PICK f : Joins(f, Len(s), s)  BY JoinsExist
  <2>2. f = [i \in 1 .. Len(s) |-> IF i = 1 THEN s[i] ELSE f[i - 1] \o s[i]]  BY <2>1 DEF Joins
  <2>3. flat = [i \in 1 .. Len(s) |-> IF i = 1 THEN s[i] ELSE flat[i - 1] \o s[i]]  BY <2>2
  <2> HIDE DEF flat
  <2> QED  BY <2>3 DEF Joins
<1> HIDE DEF flat
<1> QED  BY <1>1, <1>2

\* The places of the first k that a pool keeps.
Kept(p, k, out) == {j \in 1 .. k : p[j] \notin out}

LEMMA KeptIs ==
  ASSUME NEW p, NEW k \in Nat, NEW out
  PROVE  /\ IsFiniteSet(Kept(p, k, out)) /\ Cardinality(Kept(p, k, out)) \in Nat
         /\ Cardinality(Kept(p, k, out)) <= k
<1>1. IsFiniteSet(1 .. k) /\ Cardinality(1 .. k) = k
  <2>1. 1 \in Int /\ k \in Int  OBVIOUS
  <2>2. IsFiniteSet(1 .. k) /\ Cardinality(1 .. k) = IF 1 > k THEN 0 ELSE k - 1 + 1
    BY <2>1, FS_Interval
  <2> QED  BY <2>2
<1>2. Kept(p, k, out) \in SUBSET (1 .. k)  BY DEF Kept
<1>3. IsFiniteSet(Kept(p, k, out)) /\ Cardinality(Kept(p, k, out)) <= Cardinality(1 .. k)
  BY <1>1, <1>2, FS_Subset
<1> QED  BY <1>1, <1>3, FS_CardinalityType

\* q is what is left of the first k of p: as many as are kept, each a kept one, once.
Leaves(q, p, k, out) ==
  /\ q \in Seq(Nat) /\ Len(q) = Cardinality(Kept(p, k, out))
  /\ \A i \in 1 .. Len(q) : \E j \in Kept(p, k, out) : q[i] = p[j]
  /\ \A i, j \in 1 .. Len(q) : q[i] = q[j] => i = j

LEMMA LeavesOne ==
  ASSUME NEW p \in Seq(Nat), NEW out, NEW k \in Nat, k + 1 <= Len(p), NEW q, NEW s,
         \A i, j \in 1 .. Len(p) : p[i] = p[j] => i = j,
         Leaves(q, p, k, out), s = IF p[k + 1] \in out THEN <<>> ELSE <<p[k + 1]>>
  PROVE  Leaves(q \o s, p, k + 1, out)
<1>1. q \in Seq(Nat) /\ Len(q) \in Nat /\ Len(q) = Cardinality(Kept(p, k, out))
  BY DEF Leaves
<1>2. Len(p) \in Nat /\ k + 1 \in 1 .. Len(p) /\ p[k + 1] \in Nat
  BY ElementOfSeq, LenProperties
<1>3. CASE p[k + 1] \in out
  <2>1. q \o s = q  BY <1>1, <1>3, ConcatEmptySeq
  <2>2. Kept(p, k + 1, out) = Kept(p, k, out)
    <3>1. 1 .. k + 1 = (1 .. k) \union {k + 1}  OBVIOUS
    <3> QED  BY <1>3, <3>1 DEF Kept
  <2>3. Leaves(q, p, k + 1, out)  BY ONLY <2>2, Leaves(q, p, k, out) DEF Leaves
  <2> QED  BY ONLY <2>1, <2>3
<1>4. CASE p[k + 1] \notin out
  <2>1. /\ <<p[k + 1]>> \in Seq(Nat) /\ Len(<<p[k + 1]>>) = 1 /\ <<p[k + 1]>>[1] = p[k + 1]
    BY <1>2
  <2> PICK r : r = q \o <<p[k + 1]>>  OBVIOUS
  <2>2. /\ r \in Seq(Nat) /\ Len(r) = Len(q) + 1
        /\ \A i \in 1 .. Len(q) : r[i] = q[i]
        /\ r[Len(q) + 1] = p[k + 1]
    <3>1. r \in Seq(Nat) /\ Len(r) = Len(q) + Len(<<p[k + 1]>>)
      BY <1>1, <2>1, ConcatProperties
    <3>2. \A i \in 1 .. Len(q) + Len(<<p[k + 1]>>) :
             r[i] = IF i <= Len(q) THEN q[i] ELSE <<p[k + 1]>>[i - Len(q)]
      BY <1>1, <2>1, ConcatProperties
    <3>3. \A i \in 1 .. Len(q) : i \in 1 .. Len(q) + 1 /\ i <= Len(q)  BY <1>1
    <3>4. Len(q) + 1 \in 1 .. Len(q) + 1 /\ ~(Len(q) + 1 <= Len(q)) /\ Len(q) + 1 - Len(q) = 1
      BY <1>1
    <3> QED  BY <2>1, <3>1, <3>2, <3>3, <3>4
  <2>3. Kept(p, k + 1, out) = Kept(p, k, out) \union {k + 1}
    <3>1. 1 .. k + 1 = (1 .. k) \union {k + 1}  OBVIOUS
    <3> QED  BY <1>4, <3>1 DEF Kept
  <2>4. Len(r) = Cardinality(Kept(p, k + 1, out))
    <3>1. k + 1 \notin Kept(p, k, out)  BY DEF Kept
    <3>2. IsFiniteSet(Kept(p, k, out))  BY KeptIs
    <3>3. Cardinality(Kept(p, k + 1, out)) = Cardinality(Kept(p, k, out)) + 1
      BY <2>3, <3>1, <3>2, FS_AddElement
    <3> QED  BY <1>1, <2>2, <3>3
  <2>5. \A i \in 1 .. Len(r) : \E j \in Kept(p, k + 1, out) : r[i] = p[j]
    <3> SUFFICES ASSUME NEW i \in 1 .. Len(r)
                 PROVE  \E j \in Kept(p, k + 1, out) : r[i] = p[j]
      OBVIOUS
    <3>1. CASE i \in 1 .. Len(q)
      <4>1. PICK j \in Kept(p, k, out) : q[i] = p[j]  BY <3>1 DEF Leaves
      <4> QED  BY <2>2, <2>3, <3>1, <4>1
    <3>2. CASE i \notin 1 .. Len(q)
      <4>1. i = Len(q) + 1  BY <1>1, <2>2, <3>2
      <4> QED  BY <2>2, <2>3, <4>1
    <3> QED  BY <3>1, <3>2
  <2>6. ASSUME NEW i \in 1 .. Len(q) PROVE r[i] # p[k + 1]
    <3>1. PICK j \in Kept(p, k, out) : q[i] = p[j]  BY DEF Leaves
    <3>2. j \in 1 .. k  BY <3>1 DEF Kept
    <3>3. j \in 1 .. Len(p) /\ j # k + 1  BY <1>2, <3>2
    <3>4. p[j] # p[k + 1]  BY <1>2, <3>3
    <3> QED  BY <2>2, <3>1, <3>4
  <2>7. ASSUME NEW i \in 1 .. Len(r), NEW j \in 1 .. Len(r), r[i] = r[j] PROVE i = j
    <3>1. i \in 1 .. Len(q) \/ i = Len(q) + 1  BY <1>1, <2>2
    <3>2. j \in 1 .. Len(q) \/ j = Len(q) + 1  BY <1>1, <2>2
    <3>3. CASE i \in 1 .. Len(q) /\ j \in 1 .. Len(q)
      <4>1. q[i] = q[j]  BY <2>2, <2>7, <3>3
      <4> QED  BY <3>3, <4>1 DEF Leaves
    <3> QED  BY <2>2, <2>6, <2>7, <3>1, <3>2, <3>3
  <2>8. q \o s = r  BY <1>4
  <2>9. Leaves(r, p, k + 1, out)  BY ONLY <2>2, <2>4, <2>5, <2>7 DEF Leaves
  <2> QED  BY ONLY <2>8, <2>9
<1> QED  BY <1>3, <1>4

LEMMA LeavesNone ==
  ASSUME NEW p, NEW out
  PROVE  Leaves(<<>>, p, 0, out)
<1>1. Kept(p, 0, out) = {}  BY DEF Kept
<1>2. Cardinality(Kept(p, 0, out)) = 0  BY <1>1, FS_EmptySet
<1>3. <<>> \in Seq(Nat) /\ Len(<<>>) = 0  BY EmptySeq
<1> QED  BY <1>2, <1>3 DEF Leaves

LEMMA LeftIs ==
  ASSUME NEW p \in Seq(Nat), NEW out, \A i, j \in 1 .. Len(p) : p[i] = p[j] => i = j
  PROVE  Leaves(Left(p, out), p, Len(p), out)
<1> DEFINE s == [i \in DOMAIN p |-> IF p[i] \in out THEN <<>> ELSE <<p[i]>>]
<1>1. Len(p) \in Nat /\ DOMAIN p = 1 .. Len(p)  BY LenProperties
<1>2. \A i \in 1 .. Len(p) : s[i] = IF p[i] \in out THEN <<>> ELSE <<p[i]>>  BY <1>1
<1>3. Len(s) = Len(p)
  <2>1. DOMAIN s = 1 .. Len(p)  BY <1>1
  <2> HIDE DEF s
  <2> QED  BY <1>1, <2>1
<1>4. Left(p, out) = FlattenSeq(s)  BY DEF Left
<1>5. s = <<>> \/ Len(p) # 0
  <2> SUFFICES ASSUME Len(p) = 0 PROVE s = <<>>  OBVIOUS
  <2>1. p = <<>>  BY EmptySeq
  <2> QED  BY <2>1
<1> HIDE DEF s
<1>6. CASE Len(p) = 0
  <2>1. FlattenSeq(s) = <<>>  BY <1>3, <1>5, <1>6 DEF FlattenSeq
  <2> QED  BY <1>4, <1>6, <2>1, LeavesNone
<1>7. CASE Len(p) # 0
  <2>1. PICK f : Joins(f, Len(s), s) /\ FlattenSeq(s) = f[Len(s)]
    BY <1>1, <1>3, <1>7, FlattenJoins
  <2>2. \A i \in 1 .. Len(p) : f[i] = IF i = 1 THEN s[i] ELSE f[i - 1] \o s[i]
    BY <1>3, <2>1, JoinsAre
  <2> DEFINE Wrong == {k \in 1 .. Len(p) : ~Leaves(f[k], p, k, out)}
  <2>3. Wrong = {}
    <3> SUFFICES ASSUME Wrong # {} PROVE FALSE  OBVIOUS
    <3>1. PICK k \in Wrong : \A j \in Wrong : k <= j
      <4>1. Wrong \in SUBSET Nat  BY <1>1
      <4> HIDE DEF Wrong
      <4> QED  BY <4>1, LeastOfAll
    <3>2. k \in 1 .. Len(p) /\ k - 1 \in Nat /\ k - 1 + 1 = k /\ k <= Len(p)  BY <1>1, <3>1
    <3>3. s[k] = IF p[k - 1 + 1] \in out THEN <<>> ELSE <<p[k - 1 + 1]>>  BY <1>2, <3>2
    <3>4. CASE k = 1
      <4>1. f[1] = s[1]  BY <2>2, <3>2, <3>4
      <4>2. Leaves(<<>>, p, k - 1, out)  BY <3>4, LeavesNone
      <4>3. Leaves(<<>> \o s[k], p, k - 1 + 1, out)  BY <3>2, <3>3, <4>2, LeavesOne
      <4>4. s[k] \in Seq(Nat)
        <5>1. p[k] \in Nat  BY <3>2, ElementOfSeq
        <5> QED  BY <3>2, <3>3, <5>1
      <4>5. <<>> \o s[k] = s[k]  BY <4>4, ConcatEmptySeq
      <4> QED  BY <3>1, <3>2, <3>4, <4>1, <4>3, <4>5
    <3>5. CASE k # 1
      <4>1. k - 1 \in 1 .. Len(p) /\ ~(k <= k - 1)  BY <1>1, <3>2, <3>5
      <4>2. Leaves(f[k - 1], p, k - 1, out)  BY <3>1, <4>1
      <4>3. Leaves(f[k - 1] \o s[k], p, k - 1 + 1, out)  BY <3>2, <3>3, <4>2, LeavesOne
      <4>4. f[k] = f[k - 1] \o s[k]  BY <2>2, <3>2, <3>5
      <4> QED  BY <3>1, <3>2, <4>3, <4>4
    <3> QED  BY <3>4, <3>5
  <2>4. Len(p) \in 1 .. Len(p)  BY <1>1, <1>7
  <2>5. Leaves(f[Len(p)], p, Len(p), out)  BY <2>3, <2>4
  <2> QED  BY <1>3, <1>4, <2>1, <2>5
<1> QED  BY <1>6, <1>7

\* A pool has each link once, and what is left of it is what is not out.
Apart(p) == \A i, j \in 1 .. Len(p) : p[i] = p[j] => i = j
From(q, p, out) == \A i \in 1 .. Len(q) : q[i] \notin out /\ \E j \in 1 .. Len(p) : q[i] = p[j]

LEMMA LeftApart ==
  ASSUME NEW p \in Seq(Nat), NEW out, Apart(p), NEW q, q = Left(p, out)
  PROVE  /\ q \in Seq(Nat) /\ Len(q) \in Nat /\ Len(q) <= Len(p)
         /\ Len(q) = Cardinality(Kept(p, Len(p), out)) /\ Apart(q) /\ From(q, p, out)
<1> USE DEF Apart
<1>1. Leaves(q, p, Len(p), out)  BY LeftIs
<1>2. Len(p) \in Nat  BY LenProperties
<1>3. /\ Cardinality(Kept(p, Len(p), out)) \in Nat
      /\ Cardinality(Kept(p, Len(p), out)) <= Len(p)
  BY <1>2, KeptIs
<1>4. From(q, p, out)
  BY <1>1 DEF Leaves, Kept, From
<1> QED  BY <1>1, <1>3, <1>4 DEF Leaves

LEMMA LeftFacts ==
  ASSUME NEW p \in Seq(Nat), NEW out, \A i, j \in 1 .. Len(p) : p[i] = p[j] => i = j,
         NEW q, q = Left(p, out)
  PROVE  /\ Len(q) = Cardinality(Kept(p, Len(p), out))
         /\ \A i \in 1 .. Len(q) : q[i] \notin out /\ \E j \in 1 .. Len(p) : q[i] = p[j]
<1>1. Apart(p)  BY DEF Apart
<1>2. Len(q) = Cardinality(Kept(p, Len(p), out)) /\ From(q, p, out)  BY <1>1, LeftApart
<1> QED  BY <1>2 DEF From

LEMMA LeftLess ==
  ASSUME NEW p \in Seq(Nat), \A i, j \in 1 .. Len(p) : p[i] = p[j] => i = j,
         NEW l, NEW i \in 1 .. Len(p), p[i] = l
  PROVE  Len(Left(p, {l})) = Len(p) - 1
<1>1. Len(p) \in Nat  BY LenProperties
<1>2. Kept(p, Len(p), {l}) = (1 .. Len(p)) \ {i}
  BY DEF Kept
<1>3. IsFiniteSet(1 .. Len(p)) /\ Cardinality(1 .. Len(p)) = Len(p)
  <2>1. 1 \in Int /\ Len(p) \in Int  BY <1>1
  <2>2. IsFiniteSet(1 .. Len(p)) /\ Cardinality(1 .. Len(p)) = IF 1 > Len(p) THEN 0 ELSE Len(p) - 1 + 1
    BY <2>1, FS_Interval
  <2> QED  BY <1>1, <2>2
<1>4. Cardinality((1 .. Len(p)) \ {i}) = Len(p) - 1  BY <1>3, FS_RemoveElement
<1>5. PICK q : q = Left(p, {l})  OBVIOUS
<1>6. Len(q) = Cardinality(Kept(p, Len(p), {l}))  BY <1>5, LeftFacts
<1> QED  BY <1>2, <1>4, <1>5, <1>6

\* A pool that has to shed some keeps only links that are held, if it cannot shed enough.
LEMMA TrimmedSheds ==
  ASSUME NEW p \in Seq(Nat), \A i, j \in 1 .. Len(p) : p[i] = p[j] => i = j,
         NEW ls, NEW limit \in Nat, NEW out, out = Trimmed(p, ls, limit),
         NEW q, q = Left(p, out)
  PROVE  /\ \A l \in out : ls[l].busy = 0 /\ \E i \in 1 .. Len(p) : l = p[i]
         /\ Len(q) > limit => \A i \in 1 .. Len(q) : ls[q[i]].busy # 0
<1> DEFINE F == FreeIn(p, ls)
           Upto(i) == {j \in F : j <= i}
           D == {i \in F : Cardinality(Upto(i)) <= Len(p) - limit}
<1>1. Len(p) \in Nat /\ DOMAIN p = 1 .. Len(p)  BY LenProperties
<1>2. \A i : i \in F <=> i \in 1 .. Len(p) /\ ls[p[i]].busy = 0  BY <1>1 DEF FreeIn
<1>3. out = {p[i] : i \in D}  BY DEF Trimmed
<1>4. F \in SUBSET Nat /\ F \in SUBSET (1 .. Len(p)) /\ D \in SUBSET F  BY <1>1, <1>2
<1> HIDE DEF F
<1>5. IsFiniteSet(1 .. Len(p)) /\ Cardinality(1 .. Len(p)) = Len(p)
  <2>1. 1 \in Int /\ Len(p) \in Int  BY <1>1
  <2>2. IsFiniteSet(1 .. Len(p)) /\ Cardinality(1 .. Len(p)) = IF 1 > Len(p) THEN 0 ELSE Len(p) - 1 + 1
    BY <2>1, FS_Interval
  <2> QED  BY <1>1, <2>2
<1>6. IsFiniteSet(F) /\ IsFiniteSet(D) /\ Cardinality(D) \in Nat
  <2>1. IsFiniteSet(F)  BY <1>4, <1>5, FS_Subset
  <2>2. IsFiniteSet(D)  BY <1>4, <2>1, FS_Subset
  <2> QED  BY <2>1, <2>2, FS_CardinalityType
<1>7. \A l \in out : ls[l].busy = 0 /\ \E i \in 1 .. Len(p) : l = p[i]
  BY <1>2, <1>3, <1>4
<1>8. Kept(p, Len(p), out) = (1 .. Len(p)) \ D
  <2>1. ASSUME NEW j \in 1 .. Len(p) PROVE p[j] \in out <=> j \in D
    <3>1. ASSUME p[j] \in out PROVE j \in D
      <4> HIDE DEF D
      <4>1. PICK i \in D : p[j] = p[i]  BY ONLY <1>3, <3>1
      <4>2. i \in 1 .. Len(p)  BY <1>4, <4>1
      <4> QED  BY <4>1, <4>2
    <3> QED  BY <1>3, <3>1
  <2> HIDE DEF D
  <2> QED  BY <2>1 DEF Kept
<1>9. Len(q) = Len(p) - Cardinality(D)
  <2> HIDE DEF D
  <2>4. Len(q) = Cardinality(Kept(p, Len(p), out))  BY LeftFacts
  <2>1. Len(q) = Cardinality((1 .. Len(p)) \ D)  BY <1>8, <2>4
  <2>2. (1 .. Len(p)) \cap D = D  BY <1>4
  <2>3. Cardinality((1 .. Len(p)) \ D) = Cardinality(1 .. Len(p)) - Cardinality((1 .. Len(p)) \cap D)
    BY <1>5, FS_Difference
  <2> QED  BY <1>1, <1>5, <1>6, <2>1, <2>2, <2>3
<1>10. ASSUME Len(q) > limit PROVE F \subseteq D
  <2> SUFFICES ASSUME F \ D # {} PROVE FALSE  OBVIOUS
  <2>1. PICK m \in F \ D : \A k \in F \ D : m <= k
    <3>1. F \ D \in SUBSET Nat  BY <1>4
    <3> HIDE DEF D
    <3> QED  BY <3>1, LeastOfAll
  <2>2. Upto(m) \in SUBSET (D \union {m})
    <3> SUFFICES ASSUME NEW j \in F, j <= m, j \notin D PROVE j = m  OBVIOUS
    <3>1. m <= j  BY <2>1
    <3>2. j \in Nat /\ m \in Nat  BY <1>4, <2>1
    <3> QED  BY <3>1, <3>2
  <2>3. IsFiniteSet(D \union {m}) /\ Cardinality(D \union {m}) = Cardinality(D) + 1
    <3> HIDE DEF D
    <3>1. m \notin D  BY <2>1
    <3> QED  BY <1>6, <3>1, FS_AddElement
  <2>4. /\ IsFiniteSet(Upto(m)) /\ Cardinality(Upto(m)) \in Nat
        /\ Cardinality(Upto(m)) <= Cardinality(D) + 1
    <3> HIDE DEF D, Upto
    <3>1. IsFiniteSet(Upto(m)) /\ Cardinality(Upto(m)) <= Cardinality(D \union {m})
      BY <2>2, <2>3, FS_Subset
    <3> QED  BY <2>3, <3>1, FS_CardinalityType
  <2>5. Cardinality(Upto(m)) <= Len(p) - limit
    <3> PICK a, b : a = Cardinality(Upto(m)) /\ b = Cardinality(D)  OBVIOUS
    <3>1. a \in Nat /\ b \in Nat /\ a <= b + 1 /\ Len(q) = Len(p) - b /\ Len(q) > limit
      BY <1>6, <1>9, <1>10, <2>4
    <3>2. a <= Len(p) - limit  BY ONLY <1>1, <3>1, limit \in Nat
    <3> QED  BY <3>2
  <2>6. m \in D  BY <2>1, <2>5
  <2> QED  BY <2>1, <2>6
<1>11. ASSUME Len(q) > limit, NEW i \in 1 .. Len(q) PROVE ls[q[i]].busy # 0
  <2>1. q[i] \notin out /\ \E j \in 1 .. Len(p) : q[i] = p[j]  BY LeftFacts
  <2>2. PICK j \in 1 .. Len(p) : q[i] = p[j]  BY <2>1
  <2>3. j \notin D  BY <1>3, <2>1, <2>2
  <2>4. j \notin F  BY <1>10, <1>11, <2>3
  <2> QED  BY <1>2, <2>2, <2>4
<1> QED  BY <1>7, <1>11

-------------------------------------------------------------------------------
(* What a step that changes one link leaves sound                              *)

LEMMA SoundFacts ==
  ASSUME NEW ls, NEW cs, NEW qs, LinksSound(ls, cs, qs)
  PROVE  /\ Len(ls) \in Nat /\ DOMAIN ls = 1 .. Len(ls) /\ \A l \in 1 .. Len(ls) : ls[l] \in Link
         /\ Len(cs) \in Nat /\ DOMAIN cs = 1 .. Len(cs) /\ \A n \in 1 .. Len(cs) : cs[n] \in Conn
         /\ \A c \in Calls : qs[c] \in Call
BY LenProperties, ElementOfSeq DEF LinksSound

\* Connections keep their link and account, and one that is closed stays so.
Grown(cs, cs2) ==
  /\ cs \in Seq(Conn) /\ cs2 \in Seq(Conn) /\ Len(cs) <= Len(cs2)
  /\ \A n \in 1 .. Len(cs) :
       /\ cs2[n].link = cs[n].link /\ cs2[n].cred = cs[n].cred
       /\ cs[n].at = "closed" => cs2[n].at = "closed"

LEMMA EndedIs ==
  ASSUME NEW cs \in Seq(Conn), NEW ns, NEW cs2, cs2 = Ended(cs, ns)
  PROVE  /\ Grown(cs, cs2) /\ Len(cs2) = Len(cs)
         /\ \A n \in 1 .. Len(cs2) : cs2[n].at # "closed" => n \notin ns /\ cs[n].at # "closed"
<1>1. /\ Len(cs) \in Nat /\ DOMAIN cs = 1 .. Len(cs)
      /\ \A n \in 1 .. Len(cs) : cs[n] \in Conn
  BY LenProperties, ElementOfSeq
<1>2. cs2 = [n \in 1 .. Len(cs) |-> IF n \in ns THEN [cs[n] EXCEPT !.at = "closed"] ELSE cs[n]]
  BY <1>1 DEF Ended
<1>3. ASSUME NEW n \in 1 .. Len(cs)
      PROVE  /\ cs2[n] \in Conn
             /\ cs2[n].link = cs[n].link /\ cs2[n].cred = cs[n].cred
             /\ cs[n].at = "closed" => cs2[n].at = "closed"
             /\ cs2[n].at # "closed" => n \notin ns /\ cs[n].at # "closed"
  <2> PICK r : r = cs[n]  OBVIOUS
  <2>1. r \in Conn /\ cs2[n] = IF n \in ns THEN [r EXCEPT !.at = "closed"] ELSE r
    BY <1>1, <1>2
  <2> QED  BY <2>1 DEF Conn
<1>4. cs2 \in Seq(Conn) /\ Len(cs2) = Len(cs)
  <2>1. DOMAIN cs2 = 1 .. Len(cs)  BY <1>2
  <2>2. cs2 = [n \in 1 .. Len(cs) |-> cs2[n]]  BY <1>2
  <2> QED  BY <1>1, <1>3, <2>1, <2>2, IsASeq
<1> QED  BY <1>1, <1>3, <1>4 DEF Grown

LEMMA MadeGrown ==
  ASSUME NEW cs \in Seq(Conn), NEW r \in Conn
  PROVE  /\ Grown(cs, Append(cs, r)) /\ Len(Append(cs, r)) = Len(cs) + 1
         /\ Append(cs, r)[Len(cs) + 1] = r
         /\ \A n \in 1 .. Len(cs) : Append(cs, r)[n] = cs[n]
<1> PICK cs2 : cs2 = Append(cs, r)  OBVIOUS
<1>1. Len(cs) \in Nat  BY LenProperties
<1>2. /\ cs2 \in Seq(Conn) /\ Len(cs2) = Len(cs) + 1 /\ cs2[Len(cs) + 1] = r
      /\ \A n \in 1 .. Len(cs) : cs2[n] = cs[n]
  BY AppendProperties
<1> QED  BY <1>1, <1>2 DEF Grown

LEMMA AllGrown ==
  ASSUME NEW cs \in Seq(Conn)
  PROVE  Grown(cs, cs)
BY LenProperties DEF Grown

LEMMA UsesGrown ==
  ASSUME NEW k \in Link, NEW l, NEW cs, NEW cs2, Uses(k, l, cs), Grown(cs, cs2)
  PROVE  Uses(k, l, cs2)
<1>1. /\ Len(cs) \in Nat /\ Len(cs2) \in Nat /\ Len(cs) <= Len(cs2)
      /\ \A n \in 1 .. Len(cs) : cs2[n].link = cs[n].link /\ cs2[n].cred = cs[n].cred
  BY LenProperties DEF Grown
<1>2. k.client \in Nat /\ k.dialed \in Nat  BY DEF Link
<1>3. k.client \in 1 .. Len(cs) => k.client \in 1 .. Len(cs2)  BY <1>1, <1>2
<1>4. k.dialed \in 1 .. Len(cs) => k.dialed \in 1 .. Len(cs2)  BY <1>1, <1>2
<1> QED  BY <1>1, <1>3, <1>4 DEF Uses

HeldAs(k, k2) ==
  k2.busy = k.busy /\ k2.idle = k.idle /\ k2.shut = k.shut /\ k2.asked = k.asked

\* The conditions of a call under which its link's step leaves it placed.
LEMMA PlacedStays ==
  ASSUME NEW ls, NEW cs, NEW qs, LinksSound(ls, cs, qs), NEW l \in 1 .. Len(ls), NEW k \in Link,
         HeldAs(ls[l], k), NEW cs2, Grown(cs, cs2), NEW ls2, ls2 = [ls EXCEPT ![l] = k],
         NEW c \in Calls, qs[c].at \in InFlight, qs[c].link = l,
         qs[c].at = "opening" => IF k.dial = "none" THEN k.shut ELSE k.as = qs[c].found
  PROVE  Placed(qs[c], ls2, cs2)
<1>1. Len(ls) \in Nat /\ DOMAIN ls = 1 .. Len(ls) /\ qs[c] \in Call /\ ls \in Seq(Link)
  BY SoundFacts DEF LinksSound
<1>2. /\ Len(cs) \in Nat /\ Len(cs2) \in Nat /\ Len(cs) <= Len(cs2)
      /\ \A n \in 1 .. Len(cs) : cs2[n].link = cs[n].link /\ cs2[n].cred = cs[n].cred
  BY LenProperties DEF Grown
<1>3. ls2[l] = k /\ Len(ls2) = Len(ls)  BY <1>1, ExceptSeq
<1>4. Placed(qs[c], ls, cs)  BY DEF LinksSound
<1>5. qs[c].conn \in Nat  BY <1>1 DEF Call
<1>6. qs[c].conn \in 1 .. Len(cs) => qs[c].conn \in 1 .. Len(cs2)  BY <1>2, <1>5
<1> QED  BY <1>2, <1>3, <1>4, <1>6 DEF Placed, HeldAs

\* The link's connections are k's, or closed.
Owns(k, l, cs, cs2) ==
  \A n \in 1 .. Len(cs2) : n > Len(cs) \/ cs[n].link = l =>
    /\ cs2[n].link = l /\ cs2[n].cred # 0
    /\ cs2[n].at # "closed" => k.client = n \/ k.closing = n \/ k.dialed = n

\* The link's calls are placed, and no other has moved.
Moved(qs, qs2, l, ls2, cs2) ==
  \A c \in Calls :
    IF qs[c].at \in InFlight /\ qs[c].link = l
    THEN qs2[c].link = l /\ qs2[c].at \in InFlight /\ Placed(qs2[c], ls2, cs2)
    ELSE qs2[c] = qs[c]

\* A link is k.
Changed(ls, ls2, l, k) == ls2 = [ls EXCEPT ![l] = k]

LEMMA ChangedIs ==
  ASSUME NEW ls \in Seq(Link), NEW l \in 1 .. Len(ls), NEW k \in Link,
         NEW ls2, Changed(ls, ls2, l, k)
  PROVE  /\ ls2 \in Seq(Link) /\ Len(ls2) = Len(ls)
         /\ \A m \in 1 .. Len(ls) : ls2[m] = IF m = l THEN k ELSE ls[m]
BY ExceptSeq DEF Changed

LEMMA OneLink ==
  ASSUME NEW ls, NEW cs, NEW qs, LinksSound(ls, cs, qs), NEW l \in 1 .. Len(ls), NEW k \in Link,
         HeldAs(ls[l], k), NEW cs2, Grown(cs, cs2), NEW ls2, Changed(ls, ls2, l, k),
         NEW qs2 \in [Calls -> Call], Uses(k, l, cs2),
         Owns(k, l, cs, cs2), Moved(qs, qs2, l, ls2, cs2)
  PROVE  /\ LinksSound(ls2, cs2, qs2) /\ Len(ls2) = Len(ls)
         /\ \A m \in 1 .. Len(ls) : ls2[m].shut = ls[m].shut /\ ls2[m].busy = ls[m].busy
<1>1. /\ Len(ls) \in Nat /\ DOMAIN ls = 1 .. Len(ls) /\ ls \in Seq(Link)
      /\ \A m \in 1 .. Len(ls) : ls[m] \in Link
      /\ Len(cs) \in Nat
  BY SoundFacts DEF LinksSound
<1>2. /\ Len(cs2) \in Nat /\ Len(cs) <= Len(cs2) /\ cs2 \in Seq(Conn)
      /\ \A n \in 1 .. Len(cs) :
           /\ cs2[n].link = cs[n].link /\ cs2[n].cred = cs[n].cred
           /\ cs[n].at = "closed" => cs2[n].at = "closed"
  BY LenProperties DEF Grown
<1>3. /\ ls2 \in Seq(Link) /\ Len(ls2) = Len(ls)
      /\ \A m \in 1 .. Len(ls) : ls2[m] = IF m = l THEN k ELSE ls[m]
  BY <1>1, ExceptSeq DEF Changed
<1>4. ASSUME NEW m \in 1 .. Len(ls) PROVE Uses(ls2[m], m, cs2) /\ Counts(ls2[m], m, qs2)
  <2>1. Holding(qs2, m) = Holding(qs, m)
    <3> SUFFICES ASSUME NEW c \in Calls
                 PROVE  qs2[c].link = m /\ qs2[c].at \in InFlight
                          <=> qs[c].link = m /\ qs[c].at \in InFlight
      BY DEF Holding
    <3> QED  BY DEF Moved
  <2>2. Uses(ls[m], m, cs) /\ Counts(ls[m], m, qs)  BY DEF LinksSound
  <2>3. CASE m = l
    <3>1. ls2[m] = k  BY <1>3, <2>3
    <3>2. Counts(k, m, qs2)  BY <2>1, <2>2, <2>3 DEF Counts, HeldAs
    <3> QED  BY <2>3, <3>1, <3>2
  <2>4. CASE m # l
    <3>1. ls2[m] = ls[m]  BY <1>3, <2>4
    <3>2. Counts(ls[m], m, qs2)  BY <2>1, <2>2 DEF Counts
    <3>3. Uses(ls[m], m, cs2)  BY <1>1, <2>2, UsesGrown
    <3> QED  BY <3>1, <3>2, <3>3
  <2> QED  BY <2>3, <2>4
<1>5. ASSUME NEW n \in 1 .. Len(cs2) PROVE Owned(n, cs2, ls2)
  <2>1. CASE n > Len(cs) \/ cs[n].link = l
    <3>1. /\ cs2[n].link = l /\ cs2[n].cred # 0
          /\ cs2[n].at # "closed" => k.client = n \/ k.closing = n \/ k.dialed = n
      BY <2>1 DEF Owns
    <3>2. ls2[l] = k  BY <1>3
    <3> QED  BY <1>3, <3>1, <3>2 DEF Owned
  <2>2. CASE ~(n > Len(cs)) /\ cs[n].link # l
    <3>1. n \in 1 .. Len(cs)  BY <1>1, <1>2, <2>2
    <3>2. Owned(n, cs, ls)  BY <3>1 DEF LinksSound
    <3>3. cs[n].link \in 1 .. Len(ls) /\ ls2[cs[n].link] = ls[cs[n].link]
      BY <1>3, <2>2, <3>2 DEF Owned
    <3> QED  BY <1>2, <1>3, <3>1, <3>2, <3>3 DEF Owned
  <2> QED  BY <2>1, <2>2
<1>6. ASSUME NEW c \in Calls PROVE Placed(qs2[c], ls2, cs2)
  <2>1. CASE qs[c].at \in InFlight /\ qs[c].link = l  BY <2>1 DEF Moved
  <2>2. CASE qs[c].at \notin InFlight
    <3>1. qs2[c].at \notin InFlight  BY <2>2 DEF Moved
    <3> QED  BY <3>1 DEF Placed, InFlight
  <2>3. CASE qs[c].at \in InFlight /\ qs[c].link # l
    <3>1. qs2[c] = qs[c]  BY <2>3 DEF Moved
    <3>2. Placed(qs[c], ls, cs)  BY DEF LinksSound
    <3>3. qs[c].link \in 1 .. Len(ls) /\ ls2[qs[c].link] = ls[qs[c].link]
      BY <1>3, <2>3, <3>2 DEF Placed
    <3>4. qs[c].conn \in 1 .. Len(cs) => qs[c].conn \in 1 .. Len(cs2)
      <4>1. qs[c].conn \in Nat
        <5>1. qs[c] \in Call  BY SoundFacts
        <5> QED  BY <5>1 DEF Call
      <4> QED  BY <1>1, <1>2, <4>1
    <3>5. Placed(qs[c], ls2, cs2)  BY <1>2, <1>3, <3>2, <3>3, <3>4 DEF Placed
    <3> QED  BY <3>1, <3>5
  <2> QED  BY <2>1, <2>2, <2>3
<1>7. \A m \in 1 .. Len(ls) : ls2[m].shut = ls[m].shut /\ ls2[m].busy = ls[m].busy
  BY <1>3 DEF HeldAs
<1> QED  BY <1>2, <1>3, <1>4, <1>5, <1>6, <1>7 DEF LinksSound

\* The pool is of the links as they are shut and held.
LEMMA PoolStays ==
  ASSUME NEW p, NEW ls, NEW ls2, Len(ls2) = Len(ls), Pooled(p, ls), Trim(p, ls),
         \A m \in 1 .. Len(ls) : ls2[m].shut = ls[m].shut /\ ls2[m].busy = ls[m].busy
  PROVE  Pooled(p, ls2) /\ Trim(p, ls2)
<1>1. \A i \in 1 .. Len(p) : p[i] \in 1 .. Len(ls)  BY DEF Pooled
<1> QED  BY <1>1 DEF Pooled, Trim

\* What a step must leave, of links, connections, calls and pool.
Onward ==
  /\ LinksSound(links', conns', calls')
  /\ pool' \in Seq(Nat) /\ Pooled(pool', links') /\ Trim(pool', links')

CallOver(q) == [q EXCEPT !.at = "over"]

\* A call that goes on as it was, at a link that is now k.
GoesOn(q, k) == q.at = "opening" => IF k.dial = "none" THEN k.shut ELSE k.as = q.found

\* What may become of the calls of a link that is now k.
CallsGo(l, k) ==
  \A c \in Calls :
    IF calls[c].at \in InFlight /\ calls[c].link = l
    THEN \/ calls'[c] = CallOver(calls[c])
         \/ calls'[c] = calls[c] /\ GoesOn(calls[c], k)
         \/ /\ calls'[c].link = l /\ calls'[c].at \in InFlight
            /\ Placed(calls'[c], links', conns')
    ELSE calls'[c] = calls[c]

LEMMA LinkSteps ==
  ASSUME LinksInv, pool' = pool, NEW l \in 1 .. Len(links), NEW k \in Link, HeldAs(links[l], k),
         Changed(links, links', l, k), Grown(conns, conns'), calls' \in [Calls -> Call],
         Uses(k, l, conns'), Owns(k, l, conns, conns'), CallsGo(l, k)
  PROVE  Onward
<1> PICK ls2, cs2, qs2 : ls2 = links' /\ cs2 = conns' /\ qs2 = calls'  OBVIOUS
<1> PICK k1 : k1 = links[l]  OBVIOUS
<1>7. /\ HeldAs(k1, k) /\ Grown(conns, cs2) /\ ls2 = [links EXCEPT ![l] = k]
      /\ qs2 \in [Calls -> Call] /\ Uses(k, l, cs2)
  BY DEF Changed
<1>8. Owns(k, l, conns, cs2)
  OBVIOUS
<1>1. LinksSound(links, conns, calls)  BY DEF LinksInv
<1>2. Len(links) \in Nat /\ DOMAIN links = 1 .. Len(links) /\ \A c \in Calls : calls[c] \in Call
  BY <1>1, SoundFacts
<1>3. ASSUME NEW c \in Calls, calls[c].at \in InFlight, calls[c].link = l
      PROVE  qs2[c].link = l /\ qs2[c].at \in InFlight /\ Placed(qs2[c], ls2, cs2)
  <2>1. CASE qs2[c] = CallOver(calls[c])
    <3>1. qs2[c].at = "over" /\ qs2[c].link = l  BY <1>2, <1>3, <2>1 DEF CallOver, Call
    <3>2. Placed(calls[c], links, conns)  BY <1>1 DEF LinksSound
    <3>3. links[l].shut => links[l].asked  BY <1>3, <3>2 DEF Placed
    <3>4. ls2[l] = k /\ Len(ls2) = Len(links)
      BY <1>1, <1>7, ExceptSeq DEF LinksSound
    <3> QED  BY <3>1, <3>3, <3>4 DEF Placed, InFlight, HeldAs
  <2>2. CASE qs2[c] = calls[c] /\ GoesOn(calls[c], k)
    <3>1. calls[c].at = "opening" => IF k.dial = "none" THEN k.shut ELSE k.as = calls[c].found
      BY <2>2 DEF GoesOn
    <3>2. HeldAs(links[l], k)  OBVIOUS
    <3>3. Placed(calls[c], ls2, cs2)
      BY ONLY <1>1, <1>3, <1>7, <3>1, <3>2, l \in 1 .. Len(links), k \in Link, PlacedStays
    <3> QED  BY <1>3, <2>2, <3>3
  <2>3. CASE qs2[c].link = l /\ qs2[c].at \in InFlight /\ Placed(qs2[c], ls2, cs2)  BY <2>3
  <2>4. \/ qs2[c] = CallOver(calls[c])
        \/ qs2[c] = calls[c] /\ GoesOn(calls[c], k)
        \/ qs2[c].link = l /\ qs2[c].at \in InFlight /\ Placed(qs2[c], ls2, cs2)
    BY <1>3 DEF CallsGo
  <2> QED  BY <2>1, <2>2, <2>3, <2>4
<1>4. Moved(calls, qs2, l, ls2, cs2)  BY <1>3 DEF Moved, CallsGo
<1>5. /\ LinksSound(ls2, cs2, qs2) /\ Len(ls2) = Len(links)
      /\ \A m \in 1 .. Len(links) : ls2[m].shut = links[m].shut /\ ls2[m].busy = links[m].busy
  <2>1. HeldAs(links[l], k) /\ Changed(links, ls2, l, k)  BY <1>7 DEF Changed
  <2> QED
    BY ONLY <1>1, <1>4, <1>7, <1>8, <2>1, l \in 1 .. Len(links), k \in Link, OneLink
<1>6. Pooled(pool, ls2) /\ Trim(pool, ls2)  BY <1>5, PoolStays DEF LinksInv
<1> QED  BY <1>5, <1>6 DEF Onward, LinksInv

\* Steps of calls alone.
LEMMA CallSteps ==
  ASSUME LinksInv, UNCHANGED <<links, pool, conns>>, NEW c \in Calls, calls[c].at \in InFlight,
         NEW at \in {"over", "sent"}, at = "sent" => calls[c].at = "ready",
         calls' = [calls EXCEPT ![c].at = at]
  PROVE  Onward
<1>1. LinksSound(links, conns, calls)  BY DEF LinksInv
<1>2. /\ \A m \in 1 .. Len(links) : links[m] \in Link
      /\ \A d \in Calls : calls[d] \in Call /\ Placed(calls[d], links, conns)
      /\ DOMAIN links = 1 .. Len(links)
  BY <1>1, SoundFacts DEF LinksSound
<1> PICK l : l = calls[c].link  OBVIOUS
<1>3. l \in 1 .. Len(links)  BY <1>2 DEF Placed
<1> PICK k : k = links[l]  OBVIOUS
<1>4. k \in Link /\ HeldAs(links[l], k) /\ Changed(links, links', l, k)
  <2>1. links \in Seq(Link)  BY <1>1 DEF LinksSound
  <2>2. [links EXCEPT ![l] = links[l]] = links  BY <1>2, <2>1
  <2> QED  BY <1>2, <1>3, <2>2 DEF HeldAs, Changed
<1>5. Grown(conns, conns') /\ Uses(k, l, conns')
  BY <1>1, <1>3, AllGrown DEF LinksSound
<1>6. calls' \in [Calls -> Call] /\ \A d \in Calls : calls'[d] = IF d = c THEN [calls[c] EXCEPT !.at = at] ELSE calls[d]
  <2>1. calls \in [Calls -> Call]  BY <1>1 DEF LinksSound
  <2>2. \A d \in Calls : calls'[d] = IF d = c THEN [calls[c] EXCEPT !.at = at] ELSE calls[d]
    BY <2>1
  <2>3. [calls[c] EXCEPT !.at = at] \in Call
    <3> PICK q : q = calls[c]  OBVIOUS
    <3>1. q \in Call  BY <1>2
    <3> QED  BY <3>1 DEF Call
  <2> QED  BY <2>1, <2>2, <2>3
<1>7. Owns(k, l, conns, conns')
  <2>1. \A n \in 1 .. Len(conns) : ~(n > Len(conns)) /\ Owned(n, conns, links)
    BY <1>1, SoundFacts DEF LinksSound
  <2> QED  BY <2>1 DEF Owned, Owns
<1>8. ASSUME NEW d \in Calls
      PROVE  IF calls[d].at \in InFlight /\ calls[d].link = l
             THEN \/ calls'[d] = CallOver(calls[d])
                  \/ calls'[d] = calls[d] /\ GoesOn(calls[d], k)
                  \/ /\ calls'[d].link = l /\ calls'[d].at \in InFlight
                     /\ Placed(calls'[d], links', conns')
             ELSE calls'[d] = calls[d]
  <2>1. CASE d = c /\ at = "over"
    BY <1>6, <2>1 DEF CallOver
  <2>2. CASE d = c /\ at = "sent"
    <3> PICK q : q = calls'[c]  OBVIOUS
    <3>1. q = [calls[c] EXCEPT !.at = "sent"] /\ calls[c] \in Call  BY <1>2, <1>6, <2>2
    <3>2. q.at = "sent" /\ q.link = calls[c].link /\ q.conn = calls[c].conn /\ q.found = calls[c].found
      BY <3>1 DEF Call
    <3>3. Placed(calls[c], links, conns) /\ calls[c].at = "ready"  BY <1>2, <2>2
    <3>4. Placed(q, links, conns)  BY <3>2, <3>3 DEF Placed, InFlight
    <3> QED  BY <2>2, <3>2, <3>4 DEF InFlight
  <2>3. CASE d # c
    <3>1. calls'[d] = calls[d]  BY <1>6, <2>3
    <3>2. calls[d].at \in InFlight /\ calls[d].link = l => GoesOn(calls[d], k)
      BY <1>2 DEF Placed, GoesOn
    <3> QED  BY <3>1, <3>2
  <2> QED  BY <2>1, <2>2, <2>3
<1>11. CallsGo(l, k)  BY <1>8 DEF CallsGo
<1>9. pool' = pool  OBVIOUS
<1>10. LinksInv  OBVIOUS
<1> QED  BY ONLY <1>3, <1>4, <1>5, <1>6, <1>7, <1>9, <1>10, <1>11, LinkSteps

LEMMA StepGivesUp ==
  ASSUME LinksInv, NEW c \in Calls, GivesUp(c) PROVE Onward
BY CallSteps DEF GivesUp, InFlight

LEMMA StepSends ==
  ASSUME LinksInv, NEW c \in Calls, Send(c) PROVE Onward
<1>1. PICK at : at = IF conns[calls[c].conn].at = "closed"
                        \/ conns[calls[c].conn].cred # links[conns[calls[c].conn].link].saw
                     THEN "over" ELSE "sent"
  OBVIOUS
<1>2. calls' = [calls EXCEPT ![c].at = at]  BY <1>1 DEF Send
<1>3. at \in {"over", "sent"} /\ calls[c].at = "ready" /\ UNCHANGED <<links, pool, conns>>
  BY <1>1 DEF Send
<1> QED  BY <1>2, <1>3, CallSteps DEF InFlight

LEMMA StepAnswered ==
  ASSUME LinksInv, NEW c \in Calls, Answered(c) PROVE Onward
BY CallSteps DEF Answered, InFlight

\* A step that leaves a link's dialing to those that wait for it.
DialsAs(k, k2) ==
  (k2.dial = "none" <=> k.dial = "none") /\ k2.as = k.as /\ k2.shut = k.shut

LEMMA MayGoOn ==
  ASSUME LinksInv, NEW l, NEW k, DialsAs(links[l], k),
         NEW c \in Calls, calls[c].at \in InFlight, calls[c].link = l
  PROVE  GoesOn(calls[c], k)
<1>1. Placed(calls[c], links, conns)  BY DEF LinksInv, LinksSound
<1> QED  BY <1>1 DEF GoesOn, Placed, DialsAs

LEMMA LinkFacts ==
  ASSUME LinksInv, NEW l \in 1 .. Len(links)
  PROVE  /\ links[l] \in Link /\ Uses(links[l], l, conns) /\ Owns(links[l], l, conns, conns)
         /\ links \in Seq(Link) /\ conns \in Seq(Conn) /\ DOMAIN links = 1 .. Len(links)
         /\ calls \in [Calls -> Call] /\ Len(conns) \in Nat /\ Grown(conns, conns)
         /\ \A n \in 1 .. Len(conns) : conns[n].cred # 0
<1>1. LinksSound(links, conns, calls)  BY DEF LinksInv
<1>2. \A n \in 1 .. Len(conns) : ~(n > Len(conns)) /\ Owned(n, conns, links)
  BY <1>1, SoundFacts DEF LinksSound
<1>3. Owns(links[l], l, conns, conns)  BY <1>2 DEF Owns, Owned
<1> QED  BY <1>1, <1>2, <1>3, SoundFacts, AllGrown DEF LinksSound, Owned

\* What has the connections that are left by a link that is now k.
LEMMA OwnsEnded ==
  ASSUME LinksInv, NEW l \in 1 .. Len(links), NEW ns, NEW cs2, cs2 = Ended(conns, ns), NEW k,
         \A n \in 1 .. Len(conns) \ ns :
            links[l].client = n \/ links[l].closing = n \/ links[l].dialed = n
              => k.client = n \/ k.closing = n \/ k.dialed = n
  PROVE  Owns(k, l, conns, cs2) /\ Grown(conns, cs2)
<1>1. conns \in Seq(Conn) /\ Owns(links[l], l, conns, conns) /\ Len(conns) \in Nat
  BY LinkFacts
<1>2. /\ Grown(conns, cs2) /\ Len(cs2) = Len(conns)
      /\ \A n \in 1 .. Len(cs2) : cs2[n].at # "closed" => n \notin ns /\ conns[n].at # "closed"
  BY <1>1, EndedIs
<1>3. ASSUME NEW n \in 1 .. Len(cs2), n > Len(conns) \/ conns[n].link = l
      PROVE  /\ cs2[n].link = l /\ cs2[n].cred # 0
             /\ cs2[n].at # "closed" => k.client = n \/ k.closing = n \/ k.dialed = n
  <2>1. n \in 1 .. Len(conns) /\ ~(n > Len(conns))  BY <1>1, <1>2
  <2>2. /\ conns[n].link = l /\ conns[n].cred # 0
        /\ conns[n].at # "closed" =>
             links[l].client = n \/ links[l].closing = n \/ links[l].dialed = n
    BY <1>1, <1>3, <2>1 DEF Owns
  <2>3. cs2[n].link = conns[n].link /\ cs2[n].cred = conns[n].cred
    BY <1>2, <2>1 DEF Grown
  <2> QED  BY <1>2, <2>1, <2>2, <2>3
<1> QED  BY <1>2, <1>3 DEF Owns

LEMMA OwnsSame ==
  ASSUME LinksInv, NEW l \in 1 .. Len(links), NEW k,
         k.client = links[l].client, k.closing = links[l].closing, k.dialed = links[l].dialed
  PROVE  Owns(k, l, conns, conns)
<1>1. Owns(links[l], l, conns, conns)  BY LinkFacts
<1> QED  BY <1>1 DEF Owns

LEMMA SameGoes ==
  ASSUME LinksInv, NEW l \in 1 .. Len(links), NEW k, DialsAs(links[l], k), calls' = calls
  PROVE  calls' \in [Calls -> Call] /\ CallsGo(l, k)
BY LinkFacts, MayGoOn DEF CallsGo

LEMMA OverGoes ==
  ASSUME LinksInv, NEW l \in 1 .. Len(links), NEW k, NEW at \in {"checking", "opening"},
         at = "checking" => DialsAs(links[l], k), calls' = Over(Waiting(l, at))
  PROVE  calls' \in [Calls -> Call] /\ CallsGo(l, k)
<1>1. calls \in [Calls -> Call]  BY LinkFacts
<1>2. \A c \in Calls :
         calls'[c] = IF calls[c].link = l /\ calls[c].at = at THEN CallOver(calls[c]) ELSE calls[c]
  BY DEF Over, Waiting, CallOver
<1>3. ASSUME NEW c \in Calls PROVE CallOver(calls[c]) \in Call
  <2> PICK q : q = calls[c]  OBVIOUS
  <2>1. q \in Call  BY <1>1
  <2> QED  BY <2>1 DEF Call, CallOver
<1>4. calls' \in [Calls -> Call]
  <2>1. \A c \in Calls : calls'[c] \in Call  BY <1>1, <1>2, <1>3
  <2>2. calls' = [c \in Calls |-> calls'[c]]  BY DEF Over
  <2> QED  BY <2>1, <2>2
<1>5. ASSUME NEW c \in Calls
      PROVE  IF calls[c].at \in InFlight /\ calls[c].link = l
             THEN calls'[c] = CallOver(calls[c]) \/ (calls'[c] = calls[c] /\ GoesOn(calls[c], k))
             ELSE calls'[c] = calls[c]
  <2>1. CASE calls[c].link = l /\ calls[c].at = at
    BY <1>2, <2>1 DEF InFlight
  <2>2. CASE ~(calls[c].link = l /\ calls[c].at = at)
    <3>1. calls'[c] = calls[c]  BY <1>2, <2>2
    <3>2. ASSUME calls[c].at \in InFlight, calls[c].link = l PROVE GoesOn(calls[c], k)
      <4>1. CASE at = "checking"  BY <3>2, <4>1, MayGoOn
      <4>2. CASE at = "opening"  BY <2>2, <3>2, <4>2 DEF GoesOn
      <4> QED  BY <4>1, <4>2
    <3> QED  BY <3>1, <3>2
  <2> QED  BY <2>1, <2>2
<1> QED  BY <1>4, <1>5 DEF CallsGo

LEMMA StepShutEnds ==
  ASSUME LinksInv, NEW l \in 1 .. Len(links), ShutEnds(l) PROVE Onward
<1> PICK a, k : a = links[l] /\ k = [a EXCEPT !.closing = 0]  OBVIOUS
<1>1. a \in Link /\ Uses(a, l, conns)  BY LinkFacts
<1>2. /\ k \in Link /\ k.client = a.client /\ k.dialed = a.dialed /\ k.closing = 0
      /\ HeldAs(a, k) /\ DialsAs(a, k)
  BY <1>1 DEF Link, HeldAs, DialsAs
<1>3. Owns(k, l, conns, conns') /\ Grown(conns, conns')
  <2>1. conns' = Ended(conns, {a.closing})  BY DEF ShutEnds
  <2> QED  BY <1>2, <2>1, OwnsEnded
<1>4. Uses(k, l, conns')
  <2>1. Uses(k, l, conns)  BY <1>1 DEF Uses, Link
  <2> QED  BY <1>2, <1>3, <2>1, UsesGrown
<1>5. Changed(links, links', l, k) /\ pool' = pool /\ calls' = calls
  BY DEF ShutEnds, Changed
<1>6. calls' \in [Calls -> Call] /\ CallsGo(l, k)  BY <1>2, <1>5, SameGoes
<1> QED  BY <1>2, <1>3, <1>4, <1>5, <1>6, LinkSteps

LEMMA StepMade ==
  ASSUME LinksInv, NEW l \in 1 .. Len(links), Made(l) PROVE Onward
<1> PICK a, n : a = links[l] /\ n = Len(conns) + 1  OBVIOUS
<1> PICK k : k = [a EXCEPT !.dial = "made", !.dialed = n]  OBVIOUS
<1> PICK r : r = [link |-> l, cred |-> a.as, at |-> "up"]  OBVIOUS
<1>1. /\ a \in Link /\ Uses(a, l, conns) /\ conns \in Seq(Conn) /\ Len(conns) \in Nat
      /\ Owns(a, l, conns, conns) /\ links \in Seq(Link) /\ Len(links) \in Nat
  BY LinkFacts, LenProperties
<1>2. a.dial = "making" /\ a.as # 0 /\ a.dialed = 0 /\ a.client = 0
  BY <1>1 DEF Made, Uses
<1>11. n \in Nat /\ n # 0 /\ l \in Nat  BY <1>1
<1>3. /\ k \in Link /\ k.client = 0 /\ k.dialed = n /\ k.closing = a.closing
      /\ k.dial = "made" /\ k.as = a.as /\ k.check = a.check /\ k.known = a.known /\ k.shut = a.shut
      /\ HeldAs(a, k) /\ DialsAs(a, k)
  BY <1>1, <1>2, <1>11 DEF Link, HeldAs, DialsAs
<1>4. r \in Conn /\ r.link = l /\ r.cred = a.as  BY <1>1, <1>11 DEF Conn, Link
<1>5. conns' = Append(conns, r)  BY DEF Made
<1>6. /\ Grown(conns, conns') /\ Len(conns') = n /\ conns'[n] = r
      /\ \A m \in 1 .. Len(conns) : conns'[m] = conns[m]
  <2> PICK cs2 : cs2 = conns'  OBVIOUS
  <2>1. cs2 = Append(conns, r) /\ conns \in Seq(Conn) /\ r \in Conn  BY <1>1, <1>4, <1>5
  <2>2. /\ Grown(conns, cs2) /\ Len(cs2) = Len(conns) + 1 /\ cs2[Len(conns) + 1] = r
        /\ \A m \in 1 .. Len(conns) : cs2[m] = conns[m]
    BY <2>1, MadeGrown
  <2> QED  BY <2>2
<1>7. Uses(k, l, conns')
  BY <1>1, <1>2, <1>3, <1>4, <1>6 DEF Uses
<1>8. Owns(k, l, conns, conns')
  <2> SUFFICES ASSUME NEW m \in 1 .. Len(conns'), m > Len(conns) \/ conns[m].link = l
               PROVE  /\ conns'[m].link = l /\ conns'[m].cred # 0
                      /\ conns'[m].at # "closed" => k.client = m \/ k.closing = m \/ k.dialed = m
    BY DEF Owns
  <2>1. CASE m = n  BY <1>2, <1>3, <1>4, <1>6, <2>1
  <2>2. CASE m # n
    <3>1. m \in 1 .. Len(conns) /\ ~(m > Len(conns)) /\ m # 0  BY <1>1, <1>6, <2>2
    <3>2. /\ conns[m].link = l /\ conns[m].cred # 0
          /\ conns[m].at # "closed" => a.client = m \/ a.closing = m \/ a.dialed = m
      BY <1>1, <3>1 DEF Owns
    <3> QED  BY <1>2, <1>3, <1>6, <3>1, <3>2
  <2> QED  BY <2>1, <2>2
<1>9. Changed(links, links', l, k) /\ pool' = pool /\ calls' = calls
  BY DEF Made, Changed
<1>10. calls' \in [Calls -> Call] /\ CallsGo(l, k)  BY <1>3, <1>9, SameGoes
<1> QED  BY <1>3, <1>6, <1>7, <1>8, <1>9, <1>10, LinkSteps

LEMMA StepNotMade ==
  ASSUME LinksInv, NEW l \in 1 .. Len(links), NotMade(l) PROVE Onward
<1> PICK a, k : a = links[l] /\ k = [a EXCEPT !.dial = "none", !.as = 0, !.dialed = 0]  OBVIOUS
<1>1. /\ a \in Link /\ Uses(a, l, conns) /\ Grown(conns, conns) /\ a.dial = "making"
      /\ links \in Seq(Link)
  BY LinkFacts DEF NotMade
<1>2. /\ k \in Link /\ k.client = a.client /\ k.dialed = 0 /\ k.closing = a.closing
      /\ k.dial = "none" /\ HeldAs(a, k) /\ a.dialed = 0
  BY <1>1 DEF Link, HeldAs, Uses
<1>3. Uses(k, l, conns)  BY <1>1, <1>2 DEF Uses, Link
<1>4. Owns(k, l, conns, conns)  BY <1>2, OwnsSame
<1>5. /\ Changed(links, links', l, k) /\ pool' = pool /\ conns' = conns
      /\ calls' = Over(Waiting(l, "opening"))
  BY DEF NotMade, Changed, DialEnds
<1>6. calls' \in [Calls -> Call] /\ CallsGo(l, k)  BY <1>5, OverGoes
<1> QED  BY <1>1, <1>2, <1>3, <1>4, <1>5, <1>6, LinkSteps

\* A dialing that ends without a client.
LEMMA DialLost ==
  ASSUME LinksInv, NEW l \in 1 .. Len(links), links[l].dial \in {"made", "connecting"},
         conns' = Ended(conns, {links[l].dialed}), links' = DialEnds(l), pool' = pool,
         calls' = Over(Waiting(l, "opening"))
  PROVE  Onward
<1> PICK a, k : a = links[l] /\ k = [a EXCEPT !.dial = "none", !.as = 0, !.dialed = 0]  OBVIOUS
<1>1. a \in Link /\ Uses(a, l, conns) /\ Grown(conns, conns) /\ a.dial \in {"made", "connecting"}
  BY LinkFacts
<1>2. /\ k \in Link /\ k.client = a.client /\ k.dialed = 0 /\ k.closing = a.closing
      /\ k.dial = "none" /\ HeldAs(a, k)
  BY <1>1 DEF Link, HeldAs
<1>3. Owns(k, l, conns, conns') /\ Grown(conns, conns')
  <2>1. conns' = Ended(conns, {a.dialed})  OBVIOUS
  <2> QED  BY <1>2, <2>1, OwnsEnded
<1>4. Uses(k, l, conns')
  <2>1. Uses(k, l, conns)  BY <1>1, <1>2 DEF Uses, Link
  <2> QED  BY <1>2, <1>3, <2>1, UsesGrown
<1>5. Changed(links, links', l, k)  BY DEF Changed, DialEnds
<1>6. calls' \in [Calls -> Call] /\ CallsGo(l, k)  BY OverGoes
<1> QED  BY <1>2, <1>3, <1>4, <1>5, <1>6, LinkSteps

LEMMA StepConnects ==
  ASSUME LinksInv, NEW l \in 1 .. Len(links), Connects(l) PROVE Onward
<1>1. CASE links[l].shut
  <2>1. /\ links[l].dial = "made" /\ conns' = Ended(conns, {links[l].dialed})
        /\ links' = DialEnds(l) /\ pool' = pool /\ calls' = Over(Waiting(l, "opening"))
    BY <1>1 DEF Connects
  <2> QED  BY <2>1, DialLost
<1>2. CASE ~links[l].shut
  <2> PICK a, k : a = links[l] /\ k = [a EXCEPT !.dial = "connecting"]  OBVIOUS
  <2>1. a \in Link /\ Uses(a, l, conns) /\ Grown(conns, conns) /\ a.dial = "made"
    BY LinkFacts DEF Connects
  <2>2. /\ k \in Link /\ k.client = a.client /\ k.dialed = a.dialed /\ k.closing = a.closing
        /\ HeldAs(a, k) /\ DialsAs(a, k)
    BY <2>1 DEF Link, HeldAs, DialsAs
  <2>3. Uses(k, l, conns)  BY <2>1 DEF Uses, Link
  <2>4. Owns(k, l, conns, conns)  BY <2>2, OwnsSame
  <2>5. Changed(links, links', l, k) /\ pool' = pool /\ conns' = conns /\ calls' = calls
    BY <1>2 DEF Connects, Changed
  <2>6. calls' \in [Calls -> Call] /\ CallsGo(l, k)  BY <2>2, <2>5, SameGoes
  <2> QED  BY <2>1, <2>2, <2>3, <2>4, <2>5, <2>6, LinkSteps
<1> QED  BY <1>1, <1>2

LEMMA StepNotConnected ==
  ASSUME LinksInv, NEW l \in 1 .. Len(links), NotConnected(l) PROVE Onward
<1>1. /\ links[l].dial = "connecting" /\ conns' = Ended(conns, {links[l].dialed})
      /\ links' = DialEnds(l) /\ pool' = pool /\ calls' = Over(Waiting(l, "opening"))
  BY DEF NotConnected
<1> QED  BY <1>1, DialLost

LEMMA StepConnected ==
  ASSUME LinksInv, NEW l \in 1 .. Len(links), Connected(l) PROVE Onward
<1> PICK a, n : a = links[l] /\ n = a.dialed  OBVIOUS
<1> PICK k : k = [a EXCEPT !.dial = "none", !.as = 0, !.dialed = 0, !.client = n]  OBVIOUS
<1>1. /\ a \in Link /\ Uses(a, l, conns) /\ Grown(conns, conns) /\ a.dial = "connecting" /\ ~a.shut
      /\ links \in Seq(Link) /\ calls \in [Calls -> Call]
  BY LinkFacts DEF Connected
<1>2. /\ n \in Nat /\ n # 0 /\ n \in 1 .. Len(conns) /\ conns[n].link = l /\ conns[n].cred = a.as
      /\ a.client = 0 /\ (a.check # "hanging" => a.as = a.known)
  BY <1>1 DEF Uses, Link
<1>3. /\ k \in Link /\ k.client = n /\ k.dialed = 0 /\ k.closing = a.closing /\ k.dial = "none"
      /\ k.check = a.check /\ k.known = a.known /\ k.shut = a.shut /\ HeldAs(a, k)
  <2>1. k = [a EXCEPT !.dial = "none", !.as = 0, !.dialed = 0, !.client = n]  OBVIOUS
  <2>2. a \in Link /\ n \in Nat  BY <1>1, <1>2
  <2>3. /\ k.client = n /\ k.dialed = 0 /\ k.closing = a.closing /\ k.dial = "none"
        /\ k.check = a.check /\ k.known = a.known /\ k.shut = a.shut
    BY ONLY <2>1, <2>2 DEF Link
  <2>4. HeldAs(a, k)  BY ONLY <2>1, <2>2 DEF Link, HeldAs
  <2>5. k \in Link  BY ONLY <2>1, <2>2 DEF Link
  <2> QED  BY <2>3, <2>4, <2>5
<1>4. Uses(k, l, conns)  BY <1>1, <1>2, <1>3 DEF Uses
<1>5. Owns(k, l, conns, conns)
  <2>1. Owns(a, l, conns, conns)  BY LinkFacts
  <2>2. \A m \in 1 .. Len(conns) : m # 0  OBVIOUS
  <2> QED  BY <1>2, <1>3, <2>1, <2>2 DEF Owns
<1>6. Changed(links, links', l, k) /\ pool' = pool /\ conns' = conns
  BY DEF Connected, Changed, DialEnds
<1>7. \A c \in Calls :
         calls'[c] = IF calls[c].link = l /\ calls[c].at = "opening"
                     THEN [calls[c] EXCEPT !.at = "ready", !.conn = n] ELSE calls[c]
  BY DEF Connected, Waiting
<1>8. ASSUME NEW c \in Calls, calls[c].link = l, calls[c].at = "opening"
      PROVE  calls'[c] \in Call /\ calls'[c].link = l /\ calls'[c].at = "ready"
             /\ calls'[c].conn = n /\ calls'[c].found = calls[c].found
  <2> PICK q : q = calls[c]  OBVIOUS
  <2>1. q \in Call /\ calls'[c] = [q EXCEPT !.at = "ready", !.conn = n]  BY <1>1, <1>7, <1>8
  <2> QED  BY <1>2, <1>8, <2>1 DEF Call
<1>9. calls' \in [Calls -> Call]
  <2>1. \A c \in Calls : calls'[c] \in Call  BY <1>1, <1>7, <1>8
  <2>2. calls' = [c \in Calls |-> calls'[c]]  BY DEF Connected
  <2> QED  BY <2>1, <2>2
<1>10. CallsGo(l, k)
  <2> SUFFICES ASSUME NEW c \in Calls
               PROVE  IF calls[c].at \in InFlight /\ calls[c].link = l
                      THEN \/ calls'[c] = CallOver(calls[c])
                           \/ calls'[c] = calls[c] /\ GoesOn(calls[c], k)
                           \/ /\ calls'[c].link = l /\ calls'[c].at \in InFlight
                              /\ Placed(calls'[c], links', conns')
                      ELSE calls'[c] = calls[c]
    BY DEF CallsGo
  <2>1. CASE calls[c].link = l /\ calls[c].at = "opening"
    <3> PICK q : q = calls'[c]  OBVIOUS
    <3>1. q.link = l /\ q.at = "ready" /\ q.conn = n /\ q.found = calls[c].found  BY <1>8, <2>1
    <3>2. Placed(calls[c], links, conns)  BY DEF LinksInv, LinksSound
    <3>3. a.as = calls[c].found /\ l \in 1 .. Len(links) /\ (a.shut => a.asked)
      BY <1>1, <2>1, <3>2 DEF Placed, InFlight
    <3>4. Len(links') = Len(links) /\ links'[l] = k
      <4> PICK ls2 : ls2 = links'  OBVIOUS
      <4>1. Changed(links, ls2, l, k)  BY <1>6
      <4>2. Len(ls2) = Len(links) /\ ls2[l] = k  BY <1>1, <1>3, <4>1, ChangedIs
      <4> QED  BY <4>2
    <3>5. Placed(q, links', conns')
      BY <1>1, <1>2, <1>3, <1>6, <3>1, <3>3, <3>4 DEF Placed
    <3> QED  BY <3>1, <3>5, <2>1 DEF InFlight
  <2>2. CASE ~(calls[c].link = l /\ calls[c].at = "opening")
    BY <1>7, <2>2 DEF GoesOn
  <2> QED  BY <2>1, <2>2
<1> QED  BY <1>1, <1>3, <1>4, <1>5, <1>6, <1>9, <1>10, LinkSteps

\* failure and onclose: what has this connection is its link.
LEMMA Unclients ==
  ASSUME LinksInv, NEW n \in 1 .. Len(conns), conns' = Ended(conns, {n}), pool' = pool,
         NEW l, l = conns[n].link, links' = Unclient(links, n), calls' \in [Calls -> Call],
         \/ calls' = calls
         \/ \E c \in Calls : calls[c].at \in InFlight /\ calls[c].link = l
                              /\ calls' = [calls EXCEPT ![c].at = "over"]
  PROVE  Onward
<1> PICK a, k : /\ a = links[l]
                /\ k = IF a.client = n THEN [a EXCEPT !.client = 0] ELSE a
  OBVIOUS
<1>1. LinksSound(links, conns, calls)  BY DEF LinksInv
<1>2. Len(conns) \in Nat /\ n \in Nat /\ n # 0 /\ Owned(n, conns, links) /\ l \in 1 .. Len(links)
  BY <1>1, SoundFacts DEF LinksSound, Owned
<1>3. /\ a \in Link /\ Uses(a, l, conns) /\ Grown(conns, conns)
      /\ links \in Seq(Link) /\ calls \in [Calls -> Call] /\ DOMAIN links = 1 .. Len(links)
  BY <1>2, LinkFacts
<1>4. /\ k \in Link /\ k.dialed = a.dialed /\ k.closing = a.closing /\ HeldAs(a, k) /\ DialsAs(a, k)
      /\ k.client = IF a.client = n THEN 0 ELSE a.client
  <2>1. a \in Link  BY <1>3
  <2>2. CASE a.client = n
    <3>1. k = [a EXCEPT !.client = 0]  BY <2>2
    <3> QED  BY ONLY <2>1, <2>2, <3>1 DEF Link, HeldAs, DialsAs
  <2>3. CASE a.client # n
    <3>1. k = a  BY <2>3
    <3> QED  BY ONLY <2>1, <2>3, <3>1 DEF Link, HeldAs, DialsAs
  <2> QED  BY <2>2, <2>3
<1>5. Uses(k, l, conns)  BY <1>3 DEF Uses, Link
<1>6. Owns(k, l, conns, conns') /\ Grown(conns, conns')
  BY <1>2, <1>4, OwnsEnded
<1>7. Uses(k, l, conns')  BY <1>4, <1>5, <1>6, UsesGrown
<1>8. Changed(links, links', l, k)
  <2>1. ASSUME NEW m \in 1 .. Len(links), m # l PROVE links[m].client # n
    <3>1. Uses(links[m], m, conns)  BY <2>1, LinkFacts
    <3> QED  BY <1>2, <2>1, <3>1 DEF Uses
  <2>2. links' = [m \in 1 .. Len(links) |-> IF m = l THEN k ELSE links[m]]
    BY <1>2, <1>3, <2>1 DEF Unclient
  <2>3. [links EXCEPT ![l] = k] = [m \in 1 .. Len(links) |-> IF m = l THEN k ELSE links[m]]
    BY <1>3
  <2> QED  BY <2>2, <2>3 DEF Changed
<1>9. CallsGo(l, k)
  <2>1. CASE calls' = calls  BY <1>2, <1>4, <2>1, SameGoes
  <2>2. ASSUME NEW c \in Calls, calls[c].at \in InFlight, calls[c].link = l,
               calls' = [calls EXCEPT ![c].at = "over"]
        PROVE  CallsGo(l, k)
    <3>1. \A d \in Calls : calls'[d] = IF d = c THEN CallOver(calls[c]) ELSE calls[d]
      BY <1>3, <2>2 DEF CallOver
    <3>2. \A d \in Calls : calls[d].at \in InFlight /\ calls[d].link = l => GoesOn(calls[d], k)
      BY <1>4, MayGoOn
    <3> QED  BY <2>2, <3>1, <3>2 DEF CallsGo
  <2> QED  BY <2>1, <2>2
<1>10. pool' = pool /\ calls' \in [Calls -> Call] /\ LinksInv /\ HeldAs(links[l], k)  BY <1>4
<1> QED  BY ONLY <1>2, <1>4, <1>6, <1>7, <1>8, <1>9, <1>10, LinkSteps

LEMMA StepCallFails ==
  ASSUME LinksInv, NEW c \in Calls, CallFails(c) PROVE Onward
<1> PICK n, l : n = calls[c].conn /\ l = calls[c].link  OBVIOUS
<1>1. LinksSound(links, conns, calls)  BY DEF LinksInv
<1>2. calls[c].at = "sent" /\ Placed(calls[c], links, conns) /\ calls \in [Calls -> Call]
  BY <1>1 DEF CallFails, LinksSound
<1>3. n \in 1 .. Len(conns) /\ conns[n].link = l /\ calls[c].at \in InFlight
  BY <1>2 DEF Placed, InFlight
<1>4. /\ calls' = [calls EXCEPT ![c].at = "over"] /\ conns' = Ended(conns, {n})
      /\ links' = Unclient(links, n) /\ pool' = pool
  BY DEF CallFails
<1>5. calls' \in [Calls -> Call]
  <2> PICK q : q = calls[c]  OBVIOUS
  <2>1. [q EXCEPT !.at = "over"] \in Call  BY <1>2 DEF Call
  <2> QED  BY <1>2, <1>4, <2>1
<1> QED  BY <1>3, <1>4, <1>5, Unclients

LEMMA StepConnDrops ==
  ASSUME LinksInv, NEW n \in 1 .. Len(conns), ConnDrops(n) PROVE Onward
<1> PICK l : l = conns[n].link  OBVIOUS
<1>1. LinksSound(links, conns, calls)  BY DEF LinksInv
<1>2. Owned(n, conns, links) /\ calls \in [Calls -> Call] /\ conns \in Seq(Conn)
  BY <1>1 DEF LinksSound
<1>3. l \in 1 .. Len(links)  BY <1>2 DEF Owned
<1>4. CASE conns' = Ended(conns, {n}) /\ links' = Unclient(links, n)
  <2>1. calls' = calls /\ pool' = pool  BY DEF ConnDrops
  <2> QED  BY <1>2, <1>4, <2>1, Unclients
<1>5. CASE conns' = [conns EXCEPT ![n].at = "gone"] /\ links' = links
  <2> PICK k, r, cs2 : k = links[l] /\ r = [conns[n] EXCEPT !.at = "gone"] /\ cs2 = conns'
    OBVIOUS
  <2>1. /\ k \in Link /\ Uses(k, l, conns) /\ Owns(k, l, conns, conns) /\ Len(conns) \in Nat
        /\ DOMAIN links = 1 .. Len(links) /\ links \in Seq(Link)
    BY <1>3, LinkFacts
  <2>2. r \in Conn /\ r.link = conns[n].link /\ r.cred = conns[n].cred /\ conns[n].at = "up"
    <3> PICK m : m = conns[n]  OBVIOUS
    <3>1. m \in Conn /\ m.at = "up"  BY <1>1, SoundFacts DEF ConnDrops
    <3> QED  BY <3>1 DEF Conn
  <2>3. /\ cs2 \in Seq(Conn) /\ Len(cs2) = Len(conns)
        /\ \A m \in 1 .. Len(conns) : cs2[m] = IF m = n THEN r ELSE conns[m]
    <3>1. cs2 = [conns EXCEPT ![n] = r]  BY <1>5
    <3> QED  BY <1>2, <2>2, <3>1, ExceptSeq
  <2>10. ASSUME NEW m \in 1 .. Len(conns)
         PROVE  /\ cs2[m].link = conns[m].link /\ cs2[m].cred = conns[m].cred
                /\ conns[m].at = "closed" <=> cs2[m].at = "closed"
    <3>1. CASE m = n
      <4>1. cs2[m] = r /\ r.at = "gone"
        <5> PICK q : q = conns[n]  OBVIOUS
        <5>1. q \in Conn  BY <1>1, SoundFacts
        <5> QED  BY <2>3, <3>1, <5>1 DEF Conn
      <4> QED  BY <2>2, <3>1, <4>1
    <3>2. CASE m # n  BY <2>3, <3>2
    <3> QED  BY <3>1, <3>2
  <2>4. Grown(conns, cs2)  BY <1>2, <2>1, <2>3, <2>10 DEF Grown
  <2>5. Owns(k, l, conns, cs2)  BY <2>1, <2>3, <2>10 DEF Owns
  <2>6. Uses(k, l, cs2)  BY <2>1, <2>4, UsesGrown
  <2>7. Changed(links, links', l, k) /\ HeldAs(links[l], k) /\ DialsAs(links[l], k)
    <3>1. [links EXCEPT ![l] = links[l]] = links  BY <2>1
    <3> QED  BY <1>5, <3>1 DEF Changed, HeldAs, DialsAs
  <2>8. calls' = calls /\ pool' = pool  BY DEF ConnDrops
  <2>9. calls' \in [Calls -> Call] /\ CallsGo(l, k)  BY <1>3, <2>7, <2>8, SameGoes
  <2> QED  BY <1>3, <2>1, <2>4, <2>5, <2>6, <2>7, <2>8, <2>9, LinkSteps
<1> QED  BY <1>4, <1>5 DEF ConnDrops

LEMMA StepRefreshes ==
  ASSUME LinksInv, NEW c \in Calls, Refreshes(c) PROVE Onward
<1> PICK l, now : l = calls[c].link /\ now = held[links[calls[c].link].user]  OBVIOUS
<1> PICK a, k : a = links[l] /\ k = [a EXCEPT !.saw = now]  OBVIOUS
<1>1. LinksSound(links, conns, calls)  BY DEF LinksInv
<1>2. calls[c].at = "sent" /\ Placed(calls[c], links, conns) /\ calls \in [Calls -> Call]
  BY <1>1 DEF Refreshes, LinksSound
<1>3. l \in 1 .. Len(links) /\ calls[c].at \in InFlight
  BY <1>2 DEF Placed, InFlight
<1>4. a \in Link /\ Uses(a, l, conns) /\ Grown(conns, conns)
  BY <1>3, LinkFacts
<1>5. now \in Nat  BY <1>4 DEF LinksInv, Link
<1>6. /\ k \in Link /\ k.client = a.client /\ k.dialed = a.dialed /\ k.closing = a.closing
      /\ HeldAs(a, k) /\ DialsAs(a, k)
  BY <1>4, <1>5 DEF Link, HeldAs, DialsAs
<1>7. Uses(k, l, conns)  BY <1>4 DEF Uses, Link
<1>8. Owns(k, l, conns, conns)  BY <1>3, <1>6, OwnsSame
<1>9. /\ Changed(links, links', l, k) /\ pool' = pool /\ conns' = conns
      /\ calls' = [calls EXCEPT ![c].at = "over"]
  BY DEF Refreshes, Changed
<1>10. \A d \in Calls : calls'[d] = IF d = c THEN CallOver(calls[c]) ELSE calls[d]
  BY <1>2, <1>9 DEF CallOver
<1>11. calls' \in [Calls -> Call]
  <2> PICK q : q = calls[c]  OBVIOUS
  <2>1. [q EXCEPT !.at = "over"] \in Call  BY <1>2 DEF Call
  <2> QED  BY <1>2, <1>9, <2>1
<1>12. CallsGo(l, k)
  <2>1. \A d \in Calls : calls[d].at \in InFlight /\ calls[d].link = l => GoesOn(calls[d], k)
    BY <1>6, MayGoOn
  <2> QED  BY <1>3, <1>10, <2>1 DEF CallsGo
<1> QED  BY <1>3, <1>4, <1>6, <1>7, <1>8, <1>9, <1>11, <1>12, LinkSteps

LEMMA StepLookupFails ==
  ASSUME LinksInv, NEW l \in 1 .. Len(links), LookupFails(l) PROVE Onward
<1> PICK a, k : a = links[l] /\ k = [a EXCEPT !.check = "none"]  OBVIOUS
<1>1. a \in Link /\ Uses(a, l, conns) /\ Grown(conns, conns) /\ a.check = "looking"
  BY LinkFacts DEF LookupFails
<1>2. /\ k \in Link /\ k.client = a.client /\ k.dialed = a.dialed /\ k.closing = a.closing
      /\ HeldAs(a, k) /\ DialsAs(a, k)
  BY <1>1 DEF Link, HeldAs, DialsAs
<1>3. Uses(k, l, conns)  BY <1>1 DEF Uses, Link
<1>4. Owns(k, l, conns, conns)  BY <1>2, OwnsSame
<1>5. /\ Changed(links, links', l, k) /\ pool' = pool /\ conns' = conns
      /\ calls' = Over(Waiting(l, "checking"))
  BY DEF LookupFails, Changed
<1>6. calls' \in [Calls -> Call] /\ CallsGo(l, k)  BY <1>2, <1>5, OverGoes
<1> QED  BY <1>1, <1>2, <1>3, <1>4, <1>5, <1>6, LinkSteps

\* Every call whose check has ended is given the client, or the dialing.
LEMMA OpensSound ==
  ASSUME LinksInv, pool' = pool, NEW l \in 1 .. Len(links), NEW k \in Link, HeldAs(links[l], k),
         k.dial = links[l].dial, k.as = links[l].as, k.known # 0,
         Uses([k EXCEPT !.check = "none"], l, conns'), Grown(conns, conns'),
         Owns(k, l, conns, conns'), Opens(l, k, Waiting(l, "checking"))
  PROVE  Onward
<1> PICK cs, W : cs = conns' /\ W = Waiting(l, "checking")  OBVIOUS
<1> PICK b : b = [k EXCEPT !.check = "none"]  OBVIOUS
<1> DEFINE begins == W # {} /\ ~k.shut /\ k.client = 0 /\ k.dial = "none"
<1> PICK k2 : k2 = IF begins THEN [k EXCEPT !.check = "none", !.dial = "making", !.as = k.known]
                   ELSE b
  OBVIOUS
<1>1. LinksSound(links, conns, calls) /\ links \in Seq(Link) /\ calls \in [Calls -> Call]
  BY LinkFacts DEF LinksInv
<1>2. /\ b \in Link /\ b.client = k.client /\ b.dialed = k.dialed /\ b.closing = k.closing
      /\ b.dial = k.dial /\ b.as = k.as /\ b.known = k.known /\ b.shut = k.shut /\ b.check = "none"
      /\ b.busy = k.busy /\ b.idle = k.idle /\ b.asked = k.asked
  BY DEF Link
<1>3. Uses(b, l, cs)  OBVIOUS
<1>4. /\ k2 \in Link /\ k2.client = k.client /\ k2.dialed = k.dialed /\ k2.closing = k.closing
      /\ k2.known = k.known /\ k2.shut = k.shut /\ k2.check = "none"
      /\ k2.dial = (IF begins THEN "making" ELSE k.dial)
      /\ k2.as = (IF begins THEN k.known ELSE k.as)
      /\ k2.busy = k.busy /\ k2.idle = k.idle /\ k2.asked = k.asked
  <2>1. CASE begins
    <3>1. k2 = [k EXCEPT !.check = "none", !.dial = "making", !.as = k.known]  BY <2>1
    <3> HIDE DEF begins
    <3> QED  BY <2>1, <3>1 DEF Link
  <2>2. CASE ~begins
    <3>1. k2 = b  BY <2>2
    <3> HIDE DEF begins
    <3> QED  BY <1>2, <2>2, <3>1
  <2> QED  BY <2>1, <2>2
<1>5. HeldAs(links[l], k2)  BY <1>4 DEF HeldAs
<1>6. Uses(k2, l, cs)  BY <1>2, <1>3, <1>4 DEF Uses
<1>7. Owns(k2, l, conns, cs)  BY <1>4 DEF Owns
<1>8. Changed(links, links', l, k2)  BY DEF Opens, Changed
<1>9. \A c \in Calls :
         calls'[c] = IF c \notin W THEN calls[c]
                     ELSE IF k.shut THEN CallOver(calls[c])
                     ELSE [calls[c] EXCEPT !.found = k.known, !.conn = k.client,
                                           !.at = IF k.client = 0 THEN "opening" ELSE "ready"]
  BY DEF Opens, CallOver
<1>10. \A c \in Calls : c \in W <=> calls[c].link = l /\ calls[c].at = "checking"
  BY DEF Waiting
<1>11. ASSUME NEW c \in Calls, c \in W, ~k.shut
       PROVE  /\ calls'[c] \in Call /\ calls'[c].link = l
              /\ calls'[c].found = k.known /\ calls'[c].conn = k.client
              /\ calls'[c].at = IF k.client = 0 THEN "opening" ELSE "ready"
  <2> PICK q : q = calls[c]  OBVIOUS
  <2>1. /\ q \in Call /\ q.link = l
        /\ calls'[c] = [q EXCEPT !.found = k.known, !.conn = k.client,
                                 !.at = IF k.client = 0 THEN "opening" ELSE "ready"]
    BY <1>1, <1>9, <1>10, <1>11
  <2>2. k.known \in Nat /\ k.client \in Nat  BY DEF Link
  <2> QED  BY <2>1, <2>2 DEF Call
<1>12. calls' \in [Calls -> Call]
  <2>1. ASSUME NEW c \in Calls PROVE calls'[c] \in Call
    <3>1. CallOver(calls[c]) \in Call
      <4> PICK q : q = calls[c]  OBVIOUS
      <4>1. q \in Call  BY <1>1
      <4> QED  BY <4>1 DEF Call, CallOver
    <3>2. calls[c] \in Call  BY <1>1
    <3>3. CASE c \in W /\ ~k.shut  BY <1>11, <3>3
    <3>4. CASE ~(c \in W /\ ~k.shut)  BY <1>9, <3>1, <3>2, <3>4
    <3> QED  BY <3>3, <3>4
  <2>2. calls' = [c \in Calls |-> calls'[c]]  BY DEF Opens
  <2> QED  BY <2>1, <2>2
<1>13. links'[l] = k2 /\ Len(links') = Len(links)
  <2> PICK ls2 : ls2 = links'  OBVIOUS
  <2>1. Changed(links, ls2, l, k2)  BY <1>8
  <2>2. Len(ls2) = Len(links) /\ ls2[l] = k2  BY <1>1, <1>4, <2>1, ChangedIs
  <2> QED  BY <2>2
<1>14. ASSUME NEW c \in Calls, calls[c].at \in InFlight, calls[c].link = l
       PROVE  \/ calls'[c] = CallOver(calls[c])
              \/ calls'[c] = calls[c] /\ GoesOn(calls[c], k2)
              \/ /\ calls'[c].link = l /\ calls'[c].at \in InFlight
                 /\ Placed(calls'[c], links', conns')
  <2>1. Placed(calls[c], links, conns)  BY <1>1 DEF LinksSound
  <2>2. CASE c \in W /\ k.shut  BY <1>9, <2>2
  <2>3. CASE c \in W /\ ~k.shut
    <3> PICK q : q = calls'[c]  OBVIOUS
    <3>1. /\ q.link = l /\ q.found = k.known /\ q.conn = k.client
          /\ q.at = IF k.client = 0 THEN "opening" ELSE "ready"
      BY <1>11, <2>3
    <3>2. k.client # 0 =>
            k.client \in 1 .. Len(cs) /\ cs[k.client].link = l /\ cs[k.client].cred = k.known
      BY <1>2, <1>3 DEF Uses
    <3>3. k.client = 0 => k2.dial # "none" /\ k2.as = k.known
      <4>1. W # {}  BY <2>3
      <4>2. k.dial # "none" => k.as = k.known  BY <1>2, <1>3 DEF Uses
      <4> QED  BY <1>4, <2>3, <4>1, <4>2
    <3>4. Placed(q, links', cs)
      BY <1>4, <1>13, <2>3, <3>1, <3>2, <3>3 DEF Placed
    <3> QED  BY <3>1, <3>4 DEF InFlight
  <2>4. CASE c \notin W
    <3>1. calls'[c] = calls[c]  BY <1>9, <2>4
    <3>2. GoesOn(calls[c], k2)
      <4>1. CASE begins
        <5>1. calls[c].at # "opening"
          BY <1>14, <2>1, <4>1 DEF Placed, HeldAs
        <5> QED  BY <5>1 DEF GoesOn
      <4>2. CASE ~begins
        <5>1. DialsAs(links[l], k2)  BY <1>4, <4>2 DEF DialsAs, HeldAs
        <5> QED  BY <1>14, <5>1, MayGoOn
      <4> QED  BY <4>1, <4>2
    <3> QED  BY <3>1, <3>2
  <2> QED  BY <2>2, <2>3, <2>4
<1>15. CallsGo(l, k2)  BY <1>9, <1>10, <1>14 DEF CallsGo, InFlight
<1>16. pool' = pool /\ LinksInv /\ Uses(k2, l, conns') /\ Owns(k2, l, conns, conns')
  BY <1>6, <1>7
<1>17. Grown(conns, conns') /\ l \in 1 .. Len(links)  OBVIOUS
<1> QED  BY ONLY <1>4, <1>5, <1>8, <1>12, <1>15, <1>16, <1>17, LinkSteps

LEMMA StepFinds ==
  ASSUME LinksInv, NEW l \in 1 .. Len(links), Finds(l) PROVE Onward
<1> PICK a, now : a = links[l] /\ now = held[links[l].user]  OBVIOUS
<1>1. /\ a \in Link /\ Uses(a, l, conns) /\ Grown(conns, conns) /\ a.check = "looking"
      /\ \A n \in 1 .. Len(conns) : conns[n].cred # 0
      /\ pool' = pool /\ conns' = conns
  BY LinkFacts DEF Finds
<1>2. now \in Nat  BY <1>1 DEF LinksInv, Link
<1>3. CASE now # 0 /\ a.known \in {0, now}
  <2> PICK k, b : /\ k = [a EXCEPT !.known = now, !.saw = now]
                  /\ b = [k EXCEPT !.check = "none"]
    OBVIOUS
  <2>1. /\ k \in Link /\ k.client = a.client /\ k.dialed = a.dialed /\ k.closing = a.closing
        /\ k.dial = a.dial /\ k.as = a.as /\ k.known = now /\ k.shut = a.shut
        /\ HeldAs(a, k)
    BY <1>1, <1>2 DEF Link, HeldAs
  <2>2. /\ b.client = k.client /\ b.dialed = k.dialed /\ b.closing = k.closing
        /\ b.dial = k.dial /\ b.as = k.as /\ b.known = k.known /\ b.shut = k.shut /\ b.check = "none"
    BY <2>1 DEF Link
  <2>3. Uses(b, l, conns)
    <3>1. a.client # 0 => a.known = now  BY <1>1, <1>3 DEF Uses
    <3>2. a.dial # "none" => a.known = now  BY <1>1, <1>3 DEF Uses
    <3> QED  BY <1>1, <1>3, <2>1, <2>2, <3>1, <3>2 DEF Uses
  <2>4. Owns(k, l, conns, conns)  BY <2>1, OwnsSame
  <2>5. Opens(l, k, Waiting(l, "checking"))  BY <1>3 DEF Finds
  <2>6. Uses([k EXCEPT !.check = "none"], l, conns') /\ Grown(conns, conns') /\ Owns(k, l, conns, conns')
    BY <1>1, <2>3, <2>4
  <2>7. /\ LinksInv /\ pool' = pool /\ l \in 1 .. Len(links) /\ HeldAs(links[l], k)
        /\ k.dial = links[l].dial /\ k.as = links[l].as /\ k.known # 0 /\ k \in Link
    BY <1>1, <1>3, <2>1
  <2> QED  BY ONLY <2>5, <2>6, <2>7, OpensSound
<1>4. CASE ~(now # 0 /\ a.known \in {0, now})
  <2> PICK k : k = [a EXCEPT !.check = "hanging", !.known = now, !.saw = now]  OBVIOUS
  <2>1. /\ k \in Link /\ k.client = a.client /\ k.dialed = a.dialed /\ k.closing = a.closing
        /\ k.check = "hanging" /\ k.dial = a.dial /\ k.as = a.as /\ k.shut = a.shut
        /\ HeldAs(a, k) /\ DialsAs(a, k)
    BY <1>1, <1>2 DEF Link, HeldAs, DialsAs
  <2>2. Uses(k, l, conns)  BY <1>1, <2>1 DEF Uses
  <2>3. Owns(k, l, conns, conns)  BY <2>1, OwnsSame
  <2>4. Changed(links, links', l, k) /\ calls' = calls
    BY <1>4 DEF Finds, Changed
  <2>5. calls' \in [Calls -> Call] /\ CallsGo(l, k)  BY <2>1, <2>4, SameGoes
  <2> QED  BY <1>1, <2>1, <2>2, <2>3, <2>4, <2>5, LinkSteps
<1> QED  BY <1>3, <1>4

LEMMA StepHangsUp ==
  ASSUME LinksInv, NEW l \in 1 .. Len(links), HangsUp(l) PROVE Onward
<1> PICK a : a = links[l]  OBVIOUS
<1> PICK k : k = [a EXCEPT !.client = 0]  OBVIOUS
<1> PICK b : b = [k EXCEPT !.check = "none"]  OBVIOUS
<1>1. /\ a \in Link /\ Uses(a, l, conns) /\ a.dial = "none"
      /\ pool' = pool /\ conns' = Ended(conns, {a.client})
  BY LinkFacts DEF HangsUp, HungUp
<1>2. /\ k \in Link /\ k.client = 0 /\ k.dialed = a.dialed /\ k.closing = a.closing
      /\ k.dial = "none" /\ k.as = a.as /\ k.known = a.known /\ k.shut = a.shut
      /\ k.busy = a.busy /\ k.idle = a.idle /\ k.asked = a.asked
  BY <1>1 DEF Link
<1>3. /\ b \in Link /\ b.client = 0 /\ b.dialed = k.dialed /\ b.closing = k.closing
      /\ b.dial = k.dial /\ b.as = k.as /\ b.known = k.known /\ b.shut = k.shut /\ b.check = "none"
      /\ b.busy = k.busy /\ b.idle = k.idle /\ b.asked = k.asked
  <2>1. b = [k EXCEPT !.check = "none"] /\ k \in Link  BY <1>2
  <2>2. /\ b.client = k.client /\ b.dialed = k.dialed /\ b.closing = k.closing
        /\ b.dial = k.dial /\ b.as = k.as /\ b.known = k.known /\ b.shut = k.shut
        /\ b.check = "none" /\ b.busy = k.busy /\ b.idle = k.idle /\ b.asked = k.asked
    BY ONLY <2>1 DEF Link
  <2>3. b \in Link  BY ONLY <2>1 DEF Link
  <2> QED  BY <1>2, <2>2, <2>3
<1>4. Owns(k, l, conns, conns') /\ Grown(conns, conns')
  BY <1>1, <1>2, OwnsEnded
<1>5. Uses(b, l, conns')
  <2>1. Uses(b, l, conns)  BY <1>1, <1>2, <1>3 DEF Uses
  <2> QED  BY <1>3, <1>4, <2>1, UsesGrown
<1>6. HeldAs(links[l], k) /\ HeldAs(links[l], b) /\ DialsAs(links[l], b)
  BY <1>1, <1>2, <1>3 DEF HeldAs, DialsAs
<1>7. CASE k.known # 0
  <2>1. Opens(l, k, Waiting(l, "checking"))  BY <1>7 DEF HangsUp, HungUp
  <2>2. Uses([k EXCEPT !.check = "none"], l, conns')  BY <1>5
  <2>3. /\ LinksInv /\ pool' = pool /\ l \in 1 .. Len(links) /\ k \in Link
        /\ k.dial = links[l].dial /\ k.as = links[l].as
    BY <1>1, <1>2
  <2> QED  BY ONLY <1>4, <1>6, <1>7, <2>1, <2>2, <2>3, OpensSound
<1>8. CASE k.known = 0
  <2>1. Changed(links, links', l, b) /\ calls' = Over(Waiting(l, "checking"))
    BY <1>8 DEF HangsUp, HungUp, Changed
  <2>2. calls' \in [Calls -> Call] /\ CallsGo(l, b)  BY <1>6, <2>1, OverGoes
  <2>3. Owns(b, l, conns, conns')  BY <1>2, <1>3, <1>4 DEF Owns
  <2> QED  BY <1>1, <1>3, <1>4, <1>5, <1>6, <2>1, <2>2, <2>3, LinkSteps
<1> QED  BY <1>7, <1>8

-------------------------------------------------------------------------------
(* What a step that takes, lets go of or shuts links leaves sound              *)

LEMMA HoldingIs ==
  ASSUME NEW qs, NEW l
  PROVE  /\ IsFiniteSet(Holding(qs, l)) /\ Cardinality(Holding(qs, l)) \in Nat
         /\ Cardinality(Holding(qs, l)) = 0 => Holding(qs, l) = {}
<1>1. Holding(qs, l) \in SUBSET Calls  BY DEF Holding
<1>2. IsFiniteSet(Holding(qs, l))  BY <1>1, LinksAssumption, FS_Subset
<1> QED  BY <1>2, FS_CardinalityType, FS_EmptySet

LEMMA ShutIs ==
  ASSUME NEW k \in Link, NEW asked \in BOOLEAN, NEW b, b = Shut(k, asked)
  PROVE  /\ b \in Link /\ b.shut /\ b.asked = asked /\ ~b.idle /\ b.client = 0
         /\ b.closing = k.client /\ b.dialed = k.dialed /\ b.busy = k.busy
         /\ b.check = k.check /\ b.known = k.known
         /\ b.dial = (IF k.dial = "making" THEN "none" ELSE k.dial)
         /\ b.as = (IF k.dial = "making" THEN 0 ELSE k.as)
<1>1. CASE k.dial = "making"
  <2>1. b = [k EXCEPT !.shut = TRUE, !.asked = asked, !.idle = FALSE, !.closing = k.client,
                      !.client = 0, !.dial = "none", !.as = 0]
    BY <1>1 DEF Shut, Link
  <2>2. /\ b.client = 0 /\ b.closing = k.client /\ b.dialed = k.dialed /\ b.busy = k.busy
        /\ b.check = k.check /\ b.known = k.known /\ b.dial = "none" /\ b.as = 0
    BY <2>1 DEF Link
  <2>3. b.shut /\ ~b.idle  BY <2>1 DEF Link
  <2>4. b.asked = asked  BY <2>1 DEF Link
  <2>5. b \in Link
    <3> PICK d : d = [k EXCEPT !.shut = TRUE, !.asked = asked, !.idle = FALSE]  OBVIOUS
    <3>1. d \in Link  BY DEF Link
    <3> PICK e : e = [d EXCEPT !.closing = k.client, !.client = 0]  OBVIOUS
    <3>2. k.client \in Nat /\ k.dial \in {"none", "making", "made", "connecting"} /\ k.as \in Nat
      BY DEF Link
    <3>5. e = [d EXCEPT !.closing = k.client, !.client = 0]  OBVIOUS
    <3>3. e \in Link  BY ONLY <3>1, <3>2, <3>5 DEF Link
    <3>4. b = [e EXCEPT !.dial = "none", !.as = 0]
      BY <2>1
    <3> QED  BY ONLY <3>2, <3>3, <3>4 DEF Link
  <2> QED  BY <1>1, <2>2, <2>3, <2>4, <2>5
<1>2. CASE k.dial # "making"
  <2>1. b = [k EXCEPT !.shut = TRUE, !.asked = asked, !.idle = FALSE, !.closing = k.client,
                      !.client = 0, !.dial = k.dial, !.as = k.as]
    BY <1>2 DEF Shut, Link
  <2>2. /\ b.client = 0 /\ b.closing = k.client /\ b.dialed = k.dialed /\ b.busy = k.busy
        /\ b.check = k.check /\ b.known = k.known /\ b.dial = k.dial /\ b.as = k.as
    BY <2>1 DEF Link
  <2>3. b.shut /\ ~b.idle  BY <2>1 DEF Link
  <2>4. b.asked = asked  BY <2>1 DEF Link
  <2>5. b \in Link
    <3> PICK d : d = [k EXCEPT !.shut = TRUE, !.asked = asked, !.idle = FALSE]  OBVIOUS
    <3>1. d \in Link  BY DEF Link
    <3> PICK e : e = [d EXCEPT !.closing = k.client, !.client = 0]  OBVIOUS
    <3>2. k.client \in Nat /\ k.dial \in {"none", "making", "made", "connecting"} /\ k.as \in Nat
      BY DEF Link
    <3>5. e = [d EXCEPT !.closing = k.client, !.client = 0]  OBVIOUS
    <3>3. e \in Link  BY ONLY <3>1, <3>2, <3>5 DEF Link
    <3>4. b = [e EXCEPT !.dial = k.dial, !.as = k.as]
      BY <2>1
    <3> QED  BY ONLY <3>2, <3>3, <3>4 DEF Link
  <2> QED  BY <1>2, <2>2, <2>3, <2>4, <2>5
<1> QED  BY <1>1, <1>2

LEMMA ShutAllIs ==
  ASSUME NEW ls \in Seq(Link), NEW out, NEW asked \in BOOLEAN, NEW ls2, ls2 = ShutAll(ls, out, asked)
  PROVE  /\ ls2 \in Seq(Link) /\ Len(ls2) = Len(ls)
         /\ \A m \in 1 .. Len(ls) : ls2[m] = IF m \in out THEN Shut(ls[m], asked) ELSE ls[m]
<1>1. Len(ls) \in Nat /\ DOMAIN ls = 1 .. Len(ls) /\ \A m \in 1 .. Len(ls) : ls[m] \in Link
  BY LenProperties, ElementOfSeq
<1>2. ls2 = [m \in 1 .. Len(ls) |-> IF m \in out THEN Shut(ls[m], asked) ELSE ls[m]]
  BY <1>1 DEF ShutAll
<1>3. \A m \in 1 .. Len(ls) : ls2[m] = IF m \in out THEN Shut(ls[m], asked) ELSE ls[m]
  BY <1>2
<1>4. \A m \in 1 .. Len(ls) : ls2[m] \in Link
  BY <1>1, <1>3, ShutIs
<1>5. ls2 \in Seq(Link) /\ Len(ls2) = Len(ls)
  <2>1. DOMAIN ls2 = 1 .. Len(ls)  BY <1>2
  <2>2. ls2 = [m \in 1 .. Len(ls) |-> ls2[m]]  BY <1>2
  <2> QED  BY <1>1, <1>4, <2>1, <2>2, IsASeq
<1> QED  BY <1>3, <1>5

\* What becomes of the links, the connections and the pool as some links are shut.
Shuts(ls, cs, p, out, asked, ls2, cs2, q) ==
  ls2 = ShutAll(ls, out, asked) /\ cs2 = Ended(cs, Connecting(ls, out)) /\ q = Left(p, out)

\* Links that are open, and that no call holds but if forget() or close() asked.
MayShut(ls, out, asked) ==
  \A l \in out : l \in 1 .. Len(ls) /\ ~ls[l].shut /\ (asked \/ ls[l].busy = 0)

LEMMA ShutSound ==
  ASSUME NEW ls, NEW cs, NEW qs, LinksSound(ls, cs, qs), NEW p \in Seq(Nat), Pooled(p, ls),
         NEW out, NEW asked \in BOOLEAN,
         MayShut(ls, out, asked),
         NEW ls2, NEW cs2, NEW q, Shuts(ls, cs, p, out, asked, ls2, cs2, q)
  PROVE  /\ LinksSound(ls2, cs2, qs) /\ q \in Seq(Nat) /\ Pooled(q, ls2) /\ Len(ls2) = Len(ls)
         /\ \A m \in 1 .. Len(ls) :
              ls2[m].busy = ls[m].busy /\ (m \notin out => ls2[m] = ls[m])
         /\ Len(q) \in Nat /\ Len(q) <= Len(p)
         /\ \A i \in 1 .. Len(q) : q[i] \notin out /\ \E j \in 1 .. Len(p) : q[i] = p[j]
<1> USE DEF Shuts, MayShut
<1>1. /\ ls \in Seq(Link) /\ cs \in Seq(Conn) /\ qs \in [Calls -> Call]
      /\ \A m \in 1 .. Len(ls) : ls[m] \in Link /\ Uses(ls[m], m, cs) /\ Counts(ls[m], m, qs)
      /\ \A n \in 1 .. Len(cs) : Owned(n, cs, ls)
      /\ \A c \in Calls : Placed(qs[c], ls, cs) /\ qs[c] \in Call
      /\ Len(cs) \in Nat /\ Len(ls) \in Nat
  BY SoundFacts DEF LinksSound
<1>2. /\ ls2 \in Seq(Link) /\ Len(ls2) = Len(ls)
      /\ \A m \in 1 .. Len(ls) : ls2[m] = IF m \in out THEN Shut(ls[m], asked) ELSE ls[m]
  BY <1>1, ShutAllIs
<1>3. /\ Grown(cs, cs2) /\ Len(cs2) = Len(cs)
      /\ \A n \in 1 .. Len(cs2) : cs2[n].at # "closed" => cs[n].at # "closed"
  BY <1>1, EndedIs
<1>4. /\ cs2 \in Seq(Conn)
      /\ \A n \in 1 .. Len(cs) : cs2[n].link = cs[n].link /\ cs2[n].cred = cs[n].cred
  BY <1>3 DEF Grown
<1>5. ASSUME NEW m \in 1 .. Len(ls), m \in out
      PROVE  /\ ls2[m] \in Link /\ ls2[m].shut /\ ls2[m].asked = asked /\ ~ls2[m].idle
             /\ ls2[m].client = 0
             /\ ls2[m].closing = ls[m].client /\ ls2[m].dialed = ls[m].dialed
             /\ ls2[m].busy = ls[m].busy
             /\ ls2[m].check = ls[m].check /\ ls2[m].known = ls[m].known
             /\ ls2[m].dial = (IF ls[m].dial = "making" THEN "none" ELSE ls[m].dial)
             /\ ls2[m].as = (IF ls[m].dial = "making" THEN 0 ELSE ls[m].as)
  <2> PICK k, b : k = ls[m] /\ b = ls2[m]  OBVIOUS
  <2>1. k \in Link /\ b = Shut(k, asked)  BY <1>1, <1>2, <1>5
  <2> QED  BY <2>1, ShutIs
<1>6. ASSUME NEW m \in 1 .. Len(ls) PROVE Uses(ls2[m], m, cs2) /\ Counts(ls2[m], m, qs)
  <2>1. CASE m \in out
    <3> PICK k, b : k = ls[m] /\ b = ls2[m]  OBVIOUS
    <3>1. Uses(k, m, cs) /\ Counts(k, m, qs)  BY <1>1
    <3>2. Uses(b, m, cs)  BY <1>5, <2>1, <3>1 DEF Uses
    <3>3. b \in Link  BY <1>5, <2>1
    <3>4. Uses(b, m, cs2)  BY <1>3, <3>2, <3>3, UsesGrown
    <3>5. Counts(b, m, qs)  BY <1>5, <2>1, <3>1 DEF Counts
    <3> QED  BY <3>4, <3>5
  <2>2. CASE m \notin out
    <3>1. ls2[m] = ls[m]  BY <1>2, <2>2
    <3>2. Uses(ls[m], m, cs2)  BY <1>1, <1>3, UsesGrown
    <3> QED  BY <1>1, <3>1, <3>2
  <2> QED  BY <2>1, <2>2
<1>7. ASSUME NEW n \in 1 .. Len(cs2) PROVE Owned(n, cs2, ls2)
  <2> PICK m : m = cs[n].link  OBVIOUS
  <2>1. n \in 1 .. Len(cs) /\ n # 0  BY <1>3
  <2>2. Owned(n, cs, ls)  BY <1>1, <2>1
  <2>3. m \in 1 .. Len(ls) /\ cs2[n].link = m /\ cs2[n].cred # 0
    BY <1>4, <2>1, <2>2 DEF Owned
  <2>4. cs2[n].at # "closed" => ls[m].client = n \/ ls[m].closing = n \/ ls[m].dialed = n
    BY <1>3, <2>2 DEF Owned
  <2>5. CASE m \in out
    <3>1. ls[m].closing = 0  BY <1>1, <2>3, <2>5 DEF Uses
    <3> QED  BY <1>2, <1>5, <2>1, <2>3, <2>4, <2>5, <3>1 DEF Owned
  <2>6. CASE m \notin out
    <3>1. ls2[m] = ls[m]  BY <1>2, <2>3, <2>6
    <3> QED  BY <1>2, <2>3, <2>4, <3>1 DEF Owned
  <2> QED  BY <2>5, <2>6
<1>8. ASSUME NEW c \in Calls PROVE Placed(qs[c], ls2, cs2)
  <2> PICK m, r : m = qs[c].link /\ r = qs[c]  OBVIOUS
  <2>1. Placed(r, ls, cs) /\ r \in Call  BY <1>1
  <2>2. CASE r.at \notin InFlight  BY <2>2 DEF Placed, InFlight
  <2>3. CASE r.at \in InFlight
    <3>1. m \in 1 .. Len(ls) /\ (ls[m].shut => ls[m].asked)  BY <2>1, <2>3 DEF Placed
    <3>2. r.at \in {"ready", "sent"} =>
            r.conn \in 1 .. Len(cs2) /\ cs2[r.conn].link = m /\ cs2[r.conn].cred = r.found
      BY <1>3, <1>4, <2>1 DEF Placed
    <3>3. CASE m \in out
      <4>1. asked
        <5> SUFFICES ASSUME ls[m].busy = 0 PROVE FALSE  BY <3>3
        <5>1. Holding(qs, m) = {}  BY <1>1, <3>1, HoldingIs DEF Counts
        <5>2. c \in Holding(qs, m)  BY <2>3 DEF Holding
        <5> QED  BY <5>1, <5>2
      <4>2. r.at = "opening" =>
              IF ls2[m].dial = "none" THEN ls2[m].shut ELSE ls2[m].as = r.found
        BY <1>5, <2>1, <3>1, <3>3 DEF Placed
      <4>3. ls2[m].asked  BY <1>5, <3>1, <3>3, <4>1
      <4> QED  BY <1>2, <3>1, <3>2, <4>2, <4>3 DEF Placed
    <3>4. CASE m \notin out
      <4>1. ls2[m] = ls[m]  BY <1>2, <3>1, <3>4
      <4> QED  BY <1>2, <2>1, <3>1, <3>2, <4>1 DEF Placed
    <3> QED  BY <3>3, <3>4
  <2> QED  BY <2>2, <2>3
<1>9. LinksSound(ls2, cs2, qs)
  BY <1>1, <1>2, <1>4, <1>6, <1>7, <1>8 DEF LinksSound
<1>10. /\ q \in Seq(Nat) /\ Len(q) \in Nat /\ Len(q) <= Len(p)
       /\ \A i \in 1 .. Len(q) : q[i] \notin out /\ \E j \in 1 .. Len(p) : q[i] = p[j]
       /\ \A i, j \in 1 .. Len(q) : q[i] = q[j] => i = j
  <2>1. p \in Seq(Nat) /\ Apart(p) /\ q = Left(p, out)  BY DEF Pooled, Apart
  <2>2. /\ q \in Seq(Nat) /\ Len(q) \in Nat /\ Len(q) <= Len(p)
        /\ Apart(q) /\ From(q, p, out)
    BY ONLY <2>1, LeftApart
  <2> QED  BY ONLY <2>2 DEF Apart, From
<1>11. Pooled(q, ls2)
  <2>1. \A i \in 1 .. Len(q) : q[i] \in 1 .. Len(ls) /\ ~ls[q[i]].shut /\ ls2[q[i]] = ls[q[i]]
    BY <1>2, <1>10 DEF Pooled
  <2> QED  BY <1>2, <1>10, <2>1 DEF Pooled
<1>12. \A m \in 1 .. Len(ls) : ls2[m].busy = ls[m].busy /\ (m \notin out => ls2[m] = ls[m])
  BY <1>2, <1>5
<1> QED  BY <1>2, <1>9, <1>10, <1>11, <1>12

\* What becomes of the links and the calls as a call takes a link.
HoldsIt(ls, qs, c, l, ls2, qs2) ==
  /\ ls2 = [ls EXCEPT ![l] = Held(@)]
  /\ qs2 = [qs EXCEPT ![c].at = "checking", ![c].link = l]

LEMMA HoldSound ==
  ASSUME NEW ls, NEW cs, NEW qs, LinksSound(ls, cs, qs), NEW l \in 1 .. Len(ls), ~ls[l].shut,
         NEW c \in Calls, qs[c].at = "new",
         NEW ls2, NEW qs2, HoldsIt(ls, qs, c, l, ls2, qs2)
  PROVE  /\ LinksSound(ls2, cs, qs2) /\ Len(ls2) = Len(ls)
         /\ \A m \in 1 .. Len(ls) : ls2[m].shut = ls[m].shut
         /\ ls2[l].busy > 0 /\ \A m \in 1 .. Len(ls) : m # l => ls2[m].busy = ls[m].busy
<1> USE DEF HoldsIt
<1>1. /\ ls \in Seq(Link) /\ cs \in Seq(Conn) /\ qs \in [Calls -> Call]
      /\ \A m \in 1 .. Len(ls) : ls[m] \in Link /\ Uses(ls[m], m, cs) /\ Counts(ls[m], m, qs)
      /\ \A n \in 1 .. Len(cs) : Owned(n, cs, ls)
      /\ \A d \in Calls : Placed(qs[d], ls, cs) /\ qs[d] \in Call
      /\ Len(cs) \in Nat /\ Len(ls) \in Nat
  BY SoundFacts DEF LinksSound
<1> PICK k, b : k = ls[l] /\ b = Held(k)  OBVIOUS
<1>2. /\ k \in Link /\ b \in Link /\ b.busy = k.busy + 1 /\ ~b.idle /\ b.shut = k.shut
      /\ b.asked = k.asked /\ b.client = k.client /\ b.dial = k.dial /\ b.as = k.as
      /\ b.dialed = k.dialed /\ b.known = k.known /\ b.closing = k.closing /\ k.busy \in Nat
      /\ b.check = "hanging" <=> k.check = "hanging"
  <2>1. k \in Link  BY <1>1
  <2>2. CASE k.check = "none"
    <3>1. b = [k EXCEPT !.busy = @ + 1, !.idle = FALSE, !.check = "looking"]
      BY <2>2 DEF Held
    <3>2. /\ b.client = k.client /\ b.dial = k.dial /\ b.as = k.as /\ b.dialed = k.dialed
          /\ b.known = k.known /\ b.closing = k.closing /\ b.check = "looking"
      BY <2>1, <3>1 DEF Link
    <3>3. b.busy = k.busy + 1 /\ k.busy \in Nat  BY <2>1, <3>1 DEF Link
    <3>4. ~b.idle /\ b.shut = k.shut /\ b.asked = k.asked  BY <2>1, <3>1 DEF Link
    <3>5. b \in Link
      <4>1. k.busy + 1 \in Nat  BY <3>3
      <4> QED  BY <2>1, <3>1, <4>1 DEF Link
    <3> QED  BY <2>1, <2>2, <3>2, <3>3, <3>4, <3>5
  <2>3. CASE k.check # "none"
    <3>1. b = [k EXCEPT !.busy = @ + 1, !.idle = FALSE, !.check = k.check]
      BY <2>3 DEF Held
    <3>2. /\ b.client = k.client /\ b.dial = k.dial /\ b.as = k.as /\ b.dialed = k.dialed
          /\ b.known = k.known /\ b.closing = k.closing /\ b.check = k.check
      BY <2>1, <3>1 DEF Link
    <3>3. b.busy = k.busy + 1 /\ k.busy \in Nat  BY <2>1, <3>1 DEF Link
    <3>4. ~b.idle /\ b.shut = k.shut /\ b.asked = k.asked  BY <2>1, <3>1 DEF Link
    <3>5. b \in Link
      <4>1. k.busy + 1 \in Nat  BY <3>3
      <4> QED  BY <2>1, <3>1, <4>1 DEF Link
    <3> QED  BY <2>1, <2>3, <3>2, <3>3, <3>4, <3>5
  <2> QED  BY <2>2, <2>3
<1>3. /\ ls2 \in Seq(Link) /\ Len(ls2) = Len(ls)
      /\ \A m \in 1 .. Len(ls) : ls2[m] = IF m = l THEN b ELSE ls[m]
  <2>1. ls2 = [ls EXCEPT ![l] = b]  OBVIOUS
  <2>2. Changed(ls, ls2, l, b)  BY <2>1 DEF Changed
  <2> QED  BY <1>1, <1>2, <2>2, ChangedIs
<1>4. /\ qs2 \in [Calls -> Call] /\ qs2[c].at = "checking" /\ qs2[c].link = l
      /\ \A d \in Calls : d # c => qs2[d] = qs[d]
  <2> PICK r : r = [qs[c] EXCEPT !.at = "checking", !.link = l]  OBVIOUS
  <2>1. r \in Call /\ r.at = "checking" /\ r.link = l
    <3> PICK s : s = qs[c]  OBVIOUS
    <3>1. s \in Call /\ r = [s EXCEPT !.at = "checking", !.link = l] /\ l \in Nat  BY <1>1
    <3> QED  BY <3>1 DEF Call
  <2>2. qs2 = [qs EXCEPT ![c] = r]  OBVIOUS
  <2> QED  BY <1>1, <2>1, <2>2
<1>5. ASSUME NEW m \in 1 .. Len(ls) PROVE Uses(ls2[m], m, cs) /\ Counts(ls2[m], m, qs2)
  <2>1. c \notin Holding(qs, m)  BY DEF Holding, InFlight
  <2>2. CASE m = l
    <3>1. Holding(qs2, m) = Holding(qs, m) \union {c}
      BY <1>4, <2>2 DEF Holding, InFlight
    <3>2. Cardinality(Holding(qs2, m)) = Cardinality(Holding(qs, m)) + 1
      BY <2>1, <3>1, HoldingIs, FS_AddElement
    <3>3. Uses(k, m, cs) /\ Counts(k, m, qs)  BY <1>1, <2>2
    <3>4. Uses(b, m, cs)  BY <1>2, <3>3 DEF Uses
    <3>5. Counts(b, m, qs2)  BY <1>2, <3>2, <3>3 DEF Counts
    <3> QED  BY <1>3, <2>2, <3>4, <3>5
  <2>3. CASE m # l
    <3>1. Holding(qs2, m) = Holding(qs, m)
      <4>1. \A d \in Calls : qs2[d].link = m /\ qs2[d].at \in InFlight
                              <=> qs[d].link = m /\ qs[d].at \in InFlight
        BY <1>4, <2>3 DEF InFlight
      <4> QED  BY <4>1 DEF Holding
    <3>2. ls2[m] = ls[m]  BY <1>3, <2>3
    <3> QED  BY <1>1, <3>1, <3>2 DEF Counts
  <2> QED  BY <2>2, <2>3
<1>6. ASSUME NEW n \in 1 .. Len(cs) PROVE Owned(n, cs, ls2)
  BY <1>1, <1>2, <1>3 DEF Owned
<1>7. ASSUME NEW d \in Calls PROVE Placed(qs2[d], ls2, cs)
  <2>1. CASE d = c
    <3>1. qs2[d].at = "checking" /\ qs2[d].link = l  BY <1>4, <2>1
    <3>2. ls2[l] = b  BY <1>3
    <3> QED  BY <1>2, <1>3, <3>1, <3>2 DEF Placed
  <2>2. CASE d # c
    <3>1. qs2[d] = qs[d] /\ Placed(qs[d], ls, cs)  BY <1>1, <1>4, <2>2
    <3> QED  BY <1>2, <1>3, <3>1 DEF Placed, InFlight
  <2> QED  BY <2>1, <2>2
<1>8. LinksSound(ls2, cs, qs2)  BY <1>1, <1>3, <1>4, <1>5, <1>6, <1>7 DEF LinksSound
<1>9. \A m \in 1 .. Len(ls) : ls2[m].shut = ls[m].shut  BY <1>2, <1>3
<1>10. ls2[l].busy > 0 /\ \A m \in 1 .. Len(ls) : m # l => ls2[m].busy = ls[m].busy
  BY <1>2, <1>3
<1> QED  BY <1>3, <1>8, <1>9, <1>10

Gains(s, e, t) == t = Append(s, e)

LEMMA NewSound ==
  ASSUME NEW ls, NEW cs, NEW qs, LinksSound(ls, cs, qs), NEW u \in Users,
         NEW ls2, Gains(ls, NewLink(u), ls2)
  PROVE  /\ LinksSound(ls2, cs, qs) /\ Len(ls2) = Len(ls) + 1 /\ ls2[Len(ls) + 1] = NewLink(u)
         /\ \A m \in 1 .. Len(ls) : ls2[m] = ls[m]
<1> USE DEF Gains
<1>1. /\ ls \in Seq(Link) /\ cs \in Seq(Conn) /\ qs \in [Calls -> Call]
      /\ \A m \in 1 .. Len(ls) : ls[m] \in Link /\ Uses(ls[m], m, cs) /\ Counts(ls[m], m, qs)
      /\ \A n \in 1 .. Len(cs) : Owned(n, cs, ls)
      /\ \A d \in Calls : Placed(qs[d], ls, cs) /\ qs[d] \in Call
      /\ Len(cs) \in Nat /\ Len(ls) \in Nat
  BY SoundFacts DEF LinksSound
<1> PICK b, l : b = NewLink(u) /\ l = Len(ls) + 1  OBVIOUS
<1>2. /\ b \in Link /\ b.client = 0 /\ b.dial = "none" /\ b.dialed = 0 /\ ~b.shut /\ b.closing = 0
      /\ b.busy = 0 /\ ~b.idle
  BY DEF NewLink, Link
<1>3. /\ ls2 \in Seq(Link) /\ Len(ls2) = l /\ ls2[l] = b
      /\ \A m \in 1 .. Len(ls) : ls2[m] = ls[m]
  BY <1>1, <1>2, AppendProperties
<1>4. ASSUME NEW m \in 1 .. Len(ls2) PROVE Uses(ls2[m], m, cs) /\ Counts(ls2[m], m, qs)
  <2>1. CASE m = l
    <3>1. Holding(qs, m) = {}
      <4>1. \A d \in Calls : qs[d].at \in InFlight => qs[d].link # l
        BY <1>1 DEF Placed
      <4> QED  BY <2>1, <4>1 DEF Holding
    <3>2. Counts(b, m, qs)  BY <1>2, <3>1, FS_EmptySet DEF Counts
    <3>3. Uses(b, m, cs)  BY <1>2 DEF Uses
    <3> QED  BY <1>3, <2>1, <3>2, <3>3
  <2>2. CASE m # l
    <3>1. m \in 1 .. Len(ls)  BY <1>1, <1>3, <2>2
    <3> QED  BY <1>1, <1>3, <3>1
  <2> QED  BY <2>1, <2>2
<1>5. \A m \in 1 .. Len(ls) : m \in 1 .. Len(ls2)  BY <1>1, <1>3
<1>6. \A n \in 1 .. Len(cs) : Owned(n, cs, ls2)
  BY <1>1, <1>3, <1>5 DEF Owned
<1>7. \A d \in Calls : Placed(qs[d], ls2, cs)
  BY <1>1, <1>3, <1>5 DEF Placed, InFlight
<1>8. LinksSound(ls2, cs, qs)  BY <1>1, <1>3, <1>4, <1>6, <1>7 DEF LinksSound
<1> QED  BY <1>3, <1>8

\* And as it lets it go.
LetsGo(ls, qs, c, l, idle, ls2, qs2) ==
  /\ l = qs[c].link /\ idle \in BOOLEAN /\ (idle => ls[l].busy = 1)
  /\ ls2 = [ls EXCEPT ![l].busy = @ - 1, ![l].idle = idle]
  /\ qs2 = [qs EXCEPT ![c].at = "done"]

LEMMA ReleaseSound ==
  ASSUME NEW ls, NEW cs, NEW qs, LinksSound(ls, cs, qs), NEW c \in Calls, qs[c].at = "over",
         NEW l, NEW idle,
         NEW ls2, NEW qs2, LetsGo(ls, qs, c, l, idle, ls2, qs2)
  PROVE  /\ LinksSound(ls2, cs, qs2) /\ Len(ls2) = Len(ls) /\ l \in 1 .. Len(ls)
         /\ \A m \in 1 .. Len(ls) : ls2[m].shut = ls[m].shut
         /\ ls2[l].busy = ls[l].busy - 1 /\ ls[l].busy > 0 /\ ls[l].busy \in Nat
         /\ \A m \in 1 .. Len(ls) : m # l => ls2[m].busy = ls[m].busy
<1> USE DEF LetsGo
<1>1. /\ ls \in Seq(Link) /\ cs \in Seq(Conn) /\ qs \in [Calls -> Call]
      /\ \A m \in 1 .. Len(ls) : ls[m] \in Link /\ Uses(ls[m], m, cs) /\ Counts(ls[m], m, qs)
      /\ \A n \in 1 .. Len(cs) : Owned(n, cs, ls)
      /\ \A d \in Calls : Placed(qs[d], ls, cs) /\ qs[d] \in Call
      /\ Len(cs) \in Nat /\ Len(ls) \in Nat
  BY SoundFacts DEF LinksSound
<1> PICK k, b : k = ls[l] /\ b = [k EXCEPT !.busy = @ - 1, !.idle = idle]  OBVIOUS
<1>2. l \in 1 .. Len(ls) /\ c \in Holding(qs, l)
  BY <1>1 DEF Placed, InFlight, Holding
<1>3. k \in Link /\ k.busy \in Nat /\ k.busy # 0 /\ k.busy = Cardinality(Holding(qs, l))
  <2>1. k.busy = Cardinality(Holding(qs, l))  BY <1>1, <1>2 DEF Counts
  <2>2. Holding(qs, l) # {}  BY <1>2
  <2> QED  BY <1>1, <1>2, <2>1, <2>2, HoldingIs
<1>4. /\ b.shut = k.shut
      /\ b.asked = k.asked /\ b.client = k.client /\ b.dial = k.dial /\ b.as = k.as
      /\ b.dialed = k.dialed /\ b.known = k.known /\ b.closing = k.closing /\ b.check = k.check
  BY <1>3 DEF Link
<1>5. b.busy = k.busy - 1 /\ (b.idle => b.busy = 0) /\ b \in Link
  <2>1. b.busy = k.busy - 1 /\ b.idle = idle  BY <1>3 DEF Link
  <2>2. k.busy - 1 \in Nat  BY <1>3
  <2>3. b = [k EXCEPT !.busy = k.busy - 1, !.idle = idle] /\ idle \in BOOLEAN  OBVIOUS
  <2>4. b \in Link  BY ONLY <1>3, <2>2, <2>3 DEF Link
  <2> QED  BY <2>1, <2>4
<1>6. /\ ls2 \in Seq(Link) /\ Len(ls2) = Len(ls)
      /\ \A m \in 1 .. Len(ls) : ls2[m] = IF m = l THEN b ELSE ls[m]
  <2>1. ls2 = [ls EXCEPT ![l] = b]  BY <1>1, <1>2
  <2>2. Changed(ls, ls2, l, b)  BY <2>1 DEF Changed
  <2> QED  BY ONLY <1>1, <1>2, <1>5, <2>2, ChangedIs
<1>7. /\ qs2 \in [Calls -> Call] /\ qs2[c].at = "done"
      /\ \A d \in Calls : d # c => qs2[d] = qs[d]
  <2> PICK r : r = [qs[c] EXCEPT !.at = "done"]  OBVIOUS
  <2>1. r \in Call /\ r.at = "done"
    <3> PICK s : s = qs[c]  OBVIOUS
    <3>1. s \in Call /\ r = [s EXCEPT !.at = "done"]  BY <1>1
    <3> QED  BY <3>1 DEF Call
  <2>2. qs2 = [qs EXCEPT ![c] = r]  OBVIOUS
  <2> QED  BY <1>1, <2>1, <2>2
<1>8. ASSUME NEW m \in 1 .. Len(ls) PROVE Uses(ls2[m], m, cs) /\ Counts(ls2[m], m, qs2)
  <2>1. CASE m = l
    <3>1. Holding(qs2, m) = Holding(qs, m) \ {c}
      BY <1>7, <2>1 DEF Holding, InFlight
    <3>2. Cardinality(Holding(qs2, m)) = Cardinality(Holding(qs, m)) - 1
      <4> PICK S : S = Holding(qs, m)  OBVIOUS
      <4>1. IsFiniteSet(S) /\ c \in S  BY <1>2, <2>1, HoldingIs
      <4>2. Cardinality(S \ {c}) = Cardinality(S) - 1  BY <4>1, FS_RemoveElement
      <4> QED  BY <3>1, <4>2
    <3>3. Uses(k, m, cs)  BY <1>1, <2>1
    <3>4. Uses(b, m, cs)  BY <1>4, <3>3 DEF Uses
    <3>5. Counts(b, m, qs2)  BY <1>3, <1>5, <2>1, <3>2 DEF Counts
    <3> QED  BY <1>6, <2>1, <3>4, <3>5
  <2>2. CASE m # l
    <3>1. Holding(qs2, m) = Holding(qs, m)
      <4>1. \A d \in Calls : qs2[d].link = m /\ qs2[d].at \in InFlight
                              <=> qs[d].link = m /\ qs[d].at \in InFlight
        BY <1>7, <2>2 DEF InFlight
      <4> QED  BY <4>1 DEF Holding
    <3>2. ls2[m] = ls[m]  BY <1>6, <2>2
    <3> QED  BY <1>1, <3>1, <3>2 DEF Counts
  <2> QED  BY <2>1, <2>2
<1>14. ASSUME NEW m \in 1 .. Len(ls)
       PROVE  /\ ls2[m].shut = ls[m].shut /\ ls2[m].asked = ls[m].asked
              /\ ls2[m].dial = ls[m].dial /\ ls2[m].as = ls[m].as
  BY <1>4, <1>6
<1>9. ASSUME NEW n \in 1 .. Len(cs) PROVE Owned(n, cs, ls2)
  <2>1. Owned(n, cs, ls)  BY <1>1
  <2> QED  BY ONLY <1>2, <1>4, <1>6, <2>1, k = ls[l] DEF Owned
<1>10. ASSUME NEW d \in Calls PROVE Placed(qs2[d], ls2, cs)
  <2>1. CASE d = c  BY <1>7, <2>1 DEF Placed, InFlight
  <2>2. CASE d # c
    <3> PICK r : r = qs[d]  OBVIOUS
    <3>1. qs2[d] = r /\ Placed(r, ls, cs)  BY <1>1, <1>7, <2>2
    <3>2. Placed(r, ls2, cs)
      <4>1. Len(ls2) = Len(ls)  BY <1>6
      <4> QED  BY ONLY <1>14, <3>1, <4>1 DEF Placed, InFlight
    <3> QED  BY <3>1, <3>2
  <2> QED  BY <2>1, <2>2
<1>11. LinksSound(ls2, cs, qs2)
  <2>1. cs \in Seq(Conn) /\ \A m \in 1 .. Len(ls2) : Uses(ls2[m], m, cs) /\ Counts(ls2[m], m, qs2)
    BY ONLY <1>1, <1>6, <1>8
  <2> QED  BY ONLY <1>6, <1>7, <1>9, <1>10, <2>1 DEF LinksSound
<1>12. \A m \in 1 .. Len(ls) : ls2[m].shut = ls[m].shut  BY <1>14
<1>13. /\ ls2[l].busy = k.busy - 1 /\ k.busy > 0
       /\ \A m \in 1 .. Len(ls) : m # l => ls2[m].busy = ls[m].busy
  BY <1>2, <1>3, <1>5, <1>6
<1> QED  BY <1>2, <1>3, <1>6, <1>11, <1>12, <1>13

LEMMA PoolTakes ==
  ASSUME NEW q \in Seq(Nat), NEW ls, Len(ls) \in Nat, Pooled(q, ls), NEW l \in 1 .. Len(ls),
         ~ls[l].shut, \A i \in 1 .. Len(q) : q[i] # l, NEW p, Gains(q, l, p)
  PROVE  /\ p \in Seq(Nat) /\ Pooled(p, ls) /\ Len(p) = Len(q) + 1
         /\ \A i \in 1 .. Len(p) : p[i] = l \/ (i \in 1 .. Len(q) /\ p[i] = q[i])
<1> USE DEF Gains
<1>1. Len(q) \in Nat /\ l \in Nat  BY LenProperties
<1>2. /\ p \in Seq(Nat) /\ Len(p) = Len(q) + 1 /\ p[Len(q) + 1] = l
      /\ \A i \in 1 .. Len(q) : p[i] = q[i]
  BY <1>1, AppendProperties
<1>3. ASSUME NEW i \in 1 .. Len(p) PROVE i = Len(q) + 1 \/ i \in 1 .. Len(q)
  BY <1>1, <1>2
<1>4. \A i, j \in 1 .. Len(p) : p[i] = p[j] => i = j
  <2> SUFFICES ASSUME NEW i \in 1 .. Len(p), NEW j \in 1 .. Len(p), p[i] = p[j] PROVE i = j
    OBVIOUS
  <2>1. i = Len(q) + 1 \/ i \in 1 .. Len(q)  BY <1>3
  <2>2. j = Len(q) + 1 \/ j \in 1 .. Len(q)  BY <1>3
  <2> QED  BY <1>2, <2>1, <2>2 DEF Pooled
<1>5. \A i \in 1 .. Len(p) : p[i] \in 1 .. Len(ls) /\ ~ls[p[i]].shut
  BY <1>2, <1>3 DEF Pooled
<1> QED  BY <1>2, <1>3, <1>4, <1>5 DEF Pooled

-------------------------------------------------------------------------------
(* Steps on the pool                                                           *)

LEMMA PoolFacts ==
  ASSUME LinksInv
  PROVE  /\ LinksSound(links, conns, calls) /\ Len(links) \in Nat /\ links \in Seq(Link)
         /\ pool \in Seq(Nat) /\ Pooled(pool, links) /\ Trim(pool, links) /\ Len(pool) \in Nat
         /\ \A l : l \in ToSet(pool) <=> \E i \in 1 .. Len(pool) : l = pool[i]
         /\ \A l \in 1 .. Len(links) : links[l].busy \in Nat
<1>1. LinksSound(links, conns, calls)  BY DEF LinksInv
<1>2. \A l \in 1 .. Len(links) : links[l].busy \in Nat  BY <1>1, SoundFacts DEF Link
<1>3. DOMAIN pool = 1 .. Len(pool) /\ Len(pool) \in Nat  BY LenProperties DEF LinksInv
<1>4. \A l : l \in ToSet(pool) <=> \E i \in 1 .. Len(pool) : l = pool[i]
  BY <1>3 DEF ToSet
<1> QED  BY <1>1, <1>2, <1>3, <1>4, SoundFacts DEF LinksInv, LinksSound

LEMMA ShutsSound ==
  ASSUME LinksInv, NEW out, NEW asked \in BOOLEAN, ShutThose(out, asked), calls' = calls,
         out \subseteq ToSet(pool), asked \/ \A l \in out : links[l].busy = 0
  PROVE  Onward
<1> PICK ls2, cs2, q : ls2 = links' /\ cs2 = conns' /\ q = pool'  OBVIOUS
<1>1. Shuts(links, conns, pool, out, asked, ls2, cs2, q)
  BY DEF ShutThose, Shuts
<1>2. MayShut(links, out, asked)
  <2>1. \A l \in out : l \in 1 .. Len(links) /\ ~links[l].shut /\ (asked \/ links[l].busy = 0)
    BY PoolFacts DEF Pooled
  <2> QED  BY <2>1 DEF MayShut
<1>3. /\ LinksSound(ls2, cs2, calls) /\ q \in Seq(Nat) /\ Pooled(q, ls2)
      /\ \A m \in 1 .. Len(links) : ls2[m].busy = links[m].busy
      /\ Len(q) \in Nat /\ Len(q) <= Len(pool)
      /\ \A i \in 1 .. Len(q) : \E j \in 1 .. Len(pool) : q[i] = pool[j]
  <2>1. LinksSound(links, conns, calls) /\ pool \in Seq(Nat) /\ Pooled(pool, links)
    BY PoolFacts
  <2>2. asked \in BOOLEAN  OBVIOUS
  <2> QED  BY ONLY <1>1, <1>2, <2>1, <2>2, ShutSound
<1>4. Trim(q, ls2)
  <2> SUFFICES ASSUME Len(q) > MaxConnections, NEW i \in 1 .. Len(q) PROVE ls2[q[i]].busy > 0
    BY DEF Trim
  <2>1. Len(pool) > MaxConnections  BY <1>3, PoolFacts, LinksAssumption
  <2>2. PICK j \in 1 .. Len(pool) : q[i] = pool[j]  BY <1>3
  <2>3. links[pool[j]].busy > 0 /\ pool[j] \in 1 .. Len(links)
    BY <2>1, PoolFacts DEF Trim, Pooled
  <2> QED  BY <1>3, <2>2, <2>3
<1> QED  BY <1>3, <1>4 DEF Onward

LEMMA StepIdle ==
  ASSUME LinksInv, NEW l \in 1 .. Len(links), Idle(l) PROVE Onward
<1>1. Counts(links[l], l, calls)  BY PoolFacts DEF LinksSound
<1>2. links[l].busy = 0  BY <1>1 DEF Idle, Counts
<1>3. ShutThose({l}, FALSE) /\ calls' = calls /\ {l} \subseteq ToSet(pool)  BY DEF Idle
<1> QED  BY <1>2, <1>3, ShutsSound

LEMMA StepForget ==
  ASSUME LinksInv, NEW u \in Users, Forget(u) PROVE Onward
<1>1. ShutThose(Mine(u), TRUE) /\ calls' = calls /\ Mine(u) \subseteq ToSet(pool)
  BY DEF Forget, Mine
<1> QED  BY <1>1, ShutsSound

LEMMA StepClose ==
  ASSUME LinksInv, Close PROVE Onward
BY ShutsSound DEF Close

LEMMA StepRelease ==
  ASSUME LinksInv, NEW c \in Calls, Release(c) PROVE Onward
<1> DEFINE l == calls[c].link
           idle == links[l].busy = 1 /\ ~links[l].shut
           ls == [links EXCEPT ![l].busy = @ - 1, ![l].idle = idle]
           out == IF idle THEN Trimmed(pool, ls, MaxConnections) ELSE {}
<1> PICK ls2, cs2, qs2, q : ls2 = links' /\ cs2 = conns' /\ qs2 = calls' /\ q = pool'  OBVIOUS
<1>1. /\ calls[c].at = "over" /\ LetsGo(links, calls, c, l, idle, ls, qs2)
      /\ Shuts(ls, conns, pool, out, FALSE, ls2, cs2, q)
  <2>1. /\ calls[c].at = "over" /\ qs2 = [calls EXCEPT ![c].at = "done"]
        /\ ls2 = ShutAll(ls, out, FALSE) /\ q = Left(pool, out)
        /\ cs2 = Ended(conns, Connecting(ls, out))
    BY DEF Release
  <2> HIDE DEF out
  <2>2. Shuts(ls, conns, pool, out, FALSE, ls2, cs2, q)  BY <2>1 DEF Shuts
  <2>3. LetsGo(links, calls, c, l, idle, ls, qs2)
    <3>1. idle \in BOOLEAN /\ (idle => links[l].busy = 1)
      <4> HIDE DEF ls
      <4> QED  OBVIOUS
    <3> QED  BY <2>1, <3>1 DEF LetsGo
  <2> QED  BY <2>1, <2>2, <2>3
<1>10. /\ idle <=> links[l].busy = 1 /\ ~links[l].shut
       /\ idle \in BOOLEAN
       /\ idle => out = Trimmed(pool, ls, MaxConnections)
       /\ ~idle => out = {}
  <2> HIDE DEF ls
  <2> QED  OBVIOUS
<1> HIDE DEF l, idle, ls, out
<1>2. /\ LinksSound(links, conns, calls) /\ pool \in Seq(Nat) /\ Pooled(pool, links)
      /\ Trim(pool, links) /\ Len(pool) \in Nat
      /\ \A m \in 1 .. Len(links) : links[m].busy \in Nat
  BY PoolFacts
<1>3. /\ LinksSound(ls, conns, qs2) /\ Len(ls) = Len(links) /\ l \in 1 .. Len(links)
      /\ \A m \in 1 .. Len(links) : ls[m].shut = links[m].shut
      /\ ls[l].busy = links[l].busy - 1 /\ links[l].busy > 0
      /\ \A m \in 1 .. Len(links) : m # l => ls[m].busy = links[m].busy
  <2> PICK d \in BOOLEAN : d = idle  BY <1>10
  <2>1. c \in Calls /\ calls[c].at = "over" /\ d \in BOOLEAN /\ (d => links[l].busy = 1)
    BY <1>1, <1>10
  <2>2. LetsGo(links, calls, c, l, d, ls, qs2)  BY <1>1
  <2>3. LinksSound(links, conns, calls)  BY <1>2
  <2> QED  BY ONLY <2>1, <2>2, <2>3, ReleaseSound
<1>4. Pooled(pool, ls)  BY ONLY <1>2, <1>3 DEF Pooled
<1>5. MaxConnections \in Nat  BY LinksAssumption
<1>6. /\ \A m \in out : ls[m].busy = 0 /\ \E i \in 1 .. Len(pool) : m = pool[i]
      /\ idle /\ Len(q) > MaxConnections => \A i \in 1 .. Len(q) : ls[q[i]].busy # 0
  <2>1. CASE idle
    <3>1. out = Trimmed(pool, ls, MaxConnections)  BY <1>10, <2>1
    <3>2. \A i, j \in 1 .. Len(pool) : pool[i] = pool[j] => i = j  BY <1>2 DEF Pooled
    <3>3. q = Left(pool, out)  BY <1>1 DEF Shuts
    <3>4. /\ \A m \in out : ls[m].busy = 0 /\ \E i \in 1 .. Len(pool) : m = pool[i]
          /\ Len(q) > MaxConnections => \A i \in 1 .. Len(q) : ls[q[i]].busy # 0
      BY ONLY <1>2, <1>5, <3>1, <3>2, <3>3, TrimmedSheds
    <3> QED  BY <3>4
  <2>2. CASE ~idle  BY <1>10, <2>2
  <2> QED  BY <2>1, <2>2
<1>7. MayShut(ls, out, FALSE)
  <2>1. \A m \in out : m \in 1 .. Len(ls) /\ ~ls[m].shut /\ (FALSE \/ ls[m].busy = 0)
    BY ONLY <1>4, <1>6 DEF Pooled
  <2> QED  BY <2>1 DEF MayShut
<1>8. /\ LinksSound(ls2, cs2, qs2) /\ q \in Seq(Nat) /\ Pooled(q, ls2)
      /\ \A m \in 1 .. Len(ls) : ls2[m].busy = ls[m].busy
      /\ Len(q) \in Nat /\ Len(q) <= Len(pool)
      /\ \A i \in 1 .. Len(q) : \E j \in 1 .. Len(pool) : q[i] = pool[j]
  <2> PICK no \in BOOLEAN : no = FALSE  OBVIOUS
  <2>1. no \in BOOLEAN /\ MayShut(ls, out, no)  BY <1>7
  <2>2. Shuts(ls, conns, pool, out, no, ls2, cs2, q)  BY <1>1
  <2>3. LinksSound(ls, conns, qs2) /\ pool \in Seq(Nat)  BY <1>2, <1>3
  <2> QED  BY ONLY <1>4, <2>1, <2>2, <2>3, ShutSound
<1>9. Trim(q, ls2)
  <2> SUFFICES ASSUME Len(q) > MaxConnections, NEW i \in 1 .. Len(q) PROVE ls2[q[i]].busy > 0
    BY DEF Trim
  <2>1. Len(pool) > MaxConnections  BY <1>2, <1>5, <1>8
  <2>2. PICK j \in 1 .. Len(pool) : q[i] = pool[j]  BY <1>8
  <2> PICK m : m = pool[j]  OBVIOUS
  <2>3. links[m].busy > 0 /\ m \in 1 .. Len(links) /\ ~links[m].shut
    BY <1>2, <2>1 DEF Trim, Pooled
  <2>4. ls2[q[i]].busy = ls[m].busy
    <3>1. q[i] = m /\ m \in 1 .. Len(ls)  BY <1>3, <2>2, <2>3
    <3> QED  BY ONLY <1>8, <3>1
  <2>5. CASE m # l  BY <1>3, <2>3, <2>4, <2>5
  <2>6. CASE m = l /\ ~idle
    <3>1. links[l].busy # 1 /\ links[l].busy \in Nat /\ links[l].busy > 0
      BY <1>2, <1>3, <1>10, <2>3, <2>6
    <3>2. ls2[q[i]].busy = links[l].busy - 1  BY <1>3, <2>4, <2>6
    <3> QED  BY <3>1, <3>2
  <2>7. CASE m = l /\ idle
    <3>1. ls[m].busy # 0  BY <1>6, <2>2, <2>7
    <3>2. ls[m].busy = links[l].busy - 1 /\ links[l].busy \in Nat /\ links[l].busy > 0
      BY <1>2, <1>3, <1>10, <2>7
    <3> QED  BY <2>4, <3>1, <3>2
  <2> QED  BY <2>5, <2>6, <2>7
<1> QED  BY <1>8, <1>9 DEF Onward

\* A call takes the link that is there.
LEMMA TakesKnown ==
  ASSUME LinksInv, NEW c \in Calls, calls[c].at = "new", NEW l \in ToSet(pool),
         pool' = Append(Left(pool, {l}), l), links' = [links EXCEPT ![l] = Held(@)],
         Takes(c, l), conns' = conns
  PROVE  Onward
<1> PICK ls2, qs2, p2, q : ls2 = links' /\ qs2 = calls' /\ p2 = pool' /\ q = Left(pool, {l})
  OBVIOUS
<1>1. /\ LinksSound(links, conns, calls) /\ pool \in Seq(Nat) /\ Pooled(pool, links)
      /\ Trim(pool, links) /\ Len(pool) \in Nat /\ Len(links) \in Nat
  BY PoolFacts
<1>2. PICK n \in 1 .. Len(pool) : pool[n] = l  BY PoolFacts
<1>3. l \in 1 .. Len(links) /\ ~links[l].shut  BY <1>1, <1>2 DEF Pooled
<1>4. /\ LinksSound(ls2, conns, qs2) /\ Len(ls2) = Len(links)
      /\ \A m \in 1 .. Len(links) : ls2[m].shut = links[m].shut
      /\ ls2[l].busy > 0 /\ \A m \in 1 .. Len(links) : m # l => ls2[m].busy = links[m].busy
  <2>1. HoldsIt(links, calls, c, l, ls2, qs2)  BY DEF Takes, HoldsIt
  <2>2. c \in Calls /\ calls[c].at = "new"  OBVIOUS
  <2>3. LinksSound(links, conns, calls)  BY <1>1
  <2> QED  BY ONLY <1>3, <2>1, <2>2, <2>3, HoldSound
<1>5. /\ q \in Seq(Nat) /\ Len(q) \in Nat
      /\ \A i \in 1 .. Len(q) : q[i] # l /\ \E j \in 1 .. Len(pool) : q[i] = pool[j]
      /\ \A i, j \in 1 .. Len(q) : q[i] = q[j] => i = j
  <2> PICK out : out = {l}  OBVIOUS
  <2>1. q = Left(pool, out) /\ \A i, j \in 1 .. Len(pool) : pool[i] = pool[j] => i = j
    BY <1>1 DEF Pooled
  <2>2. pool \in Seq(Nat) /\ Apart(pool) /\ q = Left(pool, out)  BY <1>1, <2>1 DEF Apart
  <2>3. q \in Seq(Nat) /\ Len(q) \in Nat /\ Apart(q) /\ From(q, pool, out)
    BY ONLY <2>2, LeftApart
  <2>4. /\ \A i \in 1 .. Len(q) : q[i] \notin out /\ \E j \in 1 .. Len(pool) : q[i] = pool[j]
        /\ \A i, j \in 1 .. Len(q) : q[i] = q[j] => i = j
    BY ONLY <2>3 DEF Apart, From
  <2> QED  BY <2>3, <2>4
<1>6. Len(q) = Len(pool) - 1
  <2>1. /\ \A i, j \in 1 .. Len(pool) : pool[i] = pool[j] => i = j
        /\ n \in 1 .. Len(pool) /\ pool[n] = l /\ q = Left(pool, {l})
    BY <1>1, <1>2 DEF Pooled
  <2> QED  BY ONLY <1>1, <2>1, LeftLess
<1>7. Pooled(q, ls2)
  <2>1. \A i \in 1 .. Len(q) : q[i] \in 1 .. Len(links) /\ ~links[q[i]].shut
    BY ONLY <1>1, <1>5 DEF Pooled
  <2> QED  BY ONLY <1>4, <1>5, <2>1 DEF Pooled
<1>8. /\ p2 \in Seq(Nat) /\ Pooled(p2, ls2) /\ Len(p2) = Len(q) + 1
      /\ \A i \in 1 .. Len(p2) : p2[i] = l \/ (i \in 1 .. Len(q) /\ p2[i] = q[i])
  <2>1. Gains(q, l, p2)  BY DEF Gains
  <2>2. ~ls2[l].shut /\ l \in 1 .. Len(ls2) /\ Len(ls2) \in Nat
    BY ONLY <1>1, <1>3, <1>4
  <2>3. q \in Seq(Nat) /\ \A i \in 1 .. Len(q) : q[i] # l  BY <1>5
  <2> QED  BY ONLY <1>7, <2>1, <2>2, <2>3, PoolTakes
<1>9. Trim(p2, ls2)
  <2> SUFFICES ASSUME Len(p2) > MaxConnections, NEW i \in 1 .. Len(p2) PROVE ls2[p2[i]].busy > 0
    BY DEF Trim
  <2>1. Len(pool) > MaxConnections  BY <1>1, <1>6, <1>8
  <2>2. CASE p2[i] = l  BY <1>4, <2>2
  <2>3. CASE p2[i] # l
    <3>1. i \in 1 .. Len(q) /\ p2[i] = q[i]  BY <1>8, <2>3
    <3>2. PICK j \in 1 .. Len(pool) : q[i] = pool[j]  BY <1>5, <3>1
    <3> PICK m : m = pool[j]  OBVIOUS
    <3>3. links[m].busy > 0 /\ m \in 1 .. Len(links)  BY <1>1, <2>1 DEF Trim, Pooled
    <3>4. p2[i] = m /\ m # l  BY <2>3, <3>1, <3>2
    <3> QED  BY ONLY <1>4, <3>3, <3>4
  <2> QED  BY <2>2, <2>3
<1> QED  BY <1>4, <1>8, <1>9 DEF Onward

\* A call takes a new one, for which the pool makes room.
LEMMA TakesNew ==
  ASSUME LinksInv, NEW c \in Calls, NEW u \in Users, calls[c].at = "new",
         NEW out, out = Trimmed(pool, links, MaxConnections - 1),
         pool' = Append(Left(pool, out), Len(links) + 1),
         links' = Append(ShutAll(links, out, FALSE), Held(NewLink(u))),
         conns' = Ended(conns, Connecting(links, out)),
         Takes(c, Len(links) + 1)
  PROVE  Onward
<1> PICK l, ls3, cs2, qs2, p2 :
      l = Len(links) + 1 /\ ls3 = links' /\ cs2 = conns' /\ qs2 = calls' /\ p2 = pool'
  OBVIOUS
<1> PICK ls1, q : ls1 = ShutAll(links, out, FALSE) /\ q = Left(pool, out)  OBVIOUS
<1> PICK k : k = NewLink(u)  OBVIOUS
<1> PICK ls2 : Gains(ls1, k, ls2)  BY DEF Gains
<1> PICK ls4 : ls4 = [ls2 EXCEPT ![l] = Held(@)]  OBVIOUS
<1>0. /\ l = Len(links) + 1 /\ c \in Calls /\ u \in Users /\ calls[c].at = "new"
      /\ k = NewLink(u) /\ Gains(ls1, k, ls2) /\ Gains(q, l, p2)
      /\ Shuts(links, conns, pool, out, FALSE, ls1, cs2, q)
      /\ HoldsIt(ls2, calls, c, l, ls4, qs2)
      /\ Gains(ls1, Held(k), ls3)
  <2>1. l = Len(links) + 1 /\ c \in Calls /\ u \in Users /\ calls[c].at = "new"
        /\ k = NewLink(u) /\ Gains(ls1, k, ls2)
    OBVIOUS
  <2>2. Gains(q, l, p2) /\ Gains(ls1, Held(k), ls3)  BY DEF Gains
  <2>3. Shuts(links, conns, pool, out, FALSE, ls1, cs2, q)  BY DEF Shuts
  <2>4. HoldsIt(ls2, calls, c, l, ls4, qs2)  BY DEF HoldsIt, Takes
  <2> QED  BY <2>1, <2>2, <2>3, <2>4
<1>1. /\ LinksSound(links, conns, calls) /\ pool \in Seq(Nat) /\ Pooled(pool, links)
      /\ Trim(pool, links) /\ Len(pool) \in Nat /\ Len(links) \in Nat
      /\ \A m \in 1 .. Len(links) : links[m].busy \in Nat
  BY PoolFacts
<1>2. MaxConnections - 1 \in Nat /\ MaxConnections \in Nat  BY LinksAssumption
<1>3. /\ \A m \in out : links[m].busy = 0 /\ \E i \in 1 .. Len(pool) : m = pool[i]
      /\ Len(q) > MaxConnections - 1 => \A i \in 1 .. Len(q) : links[q[i]].busy # 0
  <2> PICK limit \in Nat : limit = MaxConnections - 1  BY <1>2
  <2>1. \A i, j \in 1 .. Len(pool) : pool[i] = pool[j] => i = j  BY <1>1 DEF Pooled
  <2>2. out = Trimmed(pool, links, limit) /\ q = Left(pool, out) /\ limit \in Nat  OBVIOUS
  <2>3. /\ \A m \in out : links[m].busy = 0 /\ \E i \in 1 .. Len(pool) : m = pool[i]
        /\ Len(q) > limit => \A i \in 1 .. Len(q) : links[q[i]].busy # 0
    BY ONLY <1>1, <2>1, <2>2, TrimmedSheds
  <2> QED  BY <2>3
<1>4. MayShut(links, out, FALSE)
  <2>1. \A m \in out : m \in 1 .. Len(links) /\ ~links[m].shut /\ (FALSE \/ links[m].busy = 0)
    BY ONLY <1>1, <1>3 DEF Pooled
  <2> QED  BY <2>1 DEF MayShut
<1>5. /\ LinksSound(ls1, cs2, calls) /\ q \in Seq(Nat) /\ Pooled(q, ls1) /\ Len(ls1) = Len(links)
      /\ \A m \in 1 .. Len(links) : ls1[m].busy = links[m].busy
      /\ Len(q) \in Nat
  <2> PICK no \in BOOLEAN : no = FALSE  OBVIOUS
  <2>1. no \in BOOLEAN /\ MayShut(links, out, no)  BY <1>4
  <2>2. Shuts(links, conns, pool, out, no, ls1, cs2, q)  BY <1>0
  <2>3. LinksSound(links, conns, calls) /\ pool \in Seq(Nat) /\ Pooled(pool, links)  BY <1>1
  <2> QED  BY ONLY <2>1, <2>2, <2>3, ShutSound
<1>6. /\ LinksSound(ls2, cs2, calls) /\ Len(ls2) = l /\ ls2[l] = k
      /\ \A m \in 1 .. Len(links) : ls2[m] = ls1[m]
  BY ONLY <1>0, <1>5, NewSound
<1>7. l \in 1 .. Len(ls2) /\ ~ls2[l].shut  BY ONLY <1>0, <1>1, <1>6 DEF NewLink
<1>8. /\ LinksSound(ls4, cs2, qs2) /\ Len(ls4) = l
      /\ \A m \in 1 .. l : ls4[m].shut = ls2[m].shut
      /\ ls4[l].busy > 0 /\ \A m \in 1 .. l : m # l => ls4[m].busy = ls2[m].busy
  BY ONLY <1>0, <1>6, <1>7, HoldSound
<1>9. ls3 = ls4
  <2>1. ls1 \in Seq(Link) /\ ls2 \in Seq(Link) /\ ls4 \in Seq(Link) /\ Len(ls1) \in Nat
    BY <1>1, <1>5, <1>6, <1>8 DEF LinksSound
  <2> PICK h : h = Held(k)  OBVIOUS
  <2>2. ls4[l] = h /\ \A m \in 1 .. Len(links) : ls4[m] = ls1[m]
    <3>1. DOMAIN ls2 = 1 .. l  BY ONLY <1>6, <2>1, LenProperties
    <3>2. \A m \in 1 .. Len(links) : m \in 1 .. l /\ m # l  BY ONLY <1>0, <1>1
    <3>3. ls4 = [ls2 EXCEPT ![l] = Held(@)] /\ h = Held(k)  OBVIOUS
    <3> QED  BY ONLY <1>6, <1>7, <3>1, <3>2, <3>3
  <2>3. h \in Link
    <3>1. ls4[l] \in Link  BY ONLY <1>7, <1>6, <1>8, <2>1, ElementOfSeq
    <3> QED  BY <2>2, <3>1
  <2>4. /\ ls3 \in Seq(Link) /\ Len(ls3) = l /\ ls3[l] = h
        /\ \A m \in 1 .. Len(links) : ls3[m] = ls1[m]
    <3>1. ls3 = Append(ls1, h)  BY <1>0 DEF Gains
    <3>2. /\ Append(ls1, h) \in Seq(Link) /\ Len(Append(ls1, h)) = Len(ls1) + 1
          /\ \A i \in 1 .. Len(ls1) : Append(ls1, h)[i] = ls1[i]
          /\ Append(ls1, h)[Len(ls1) + 1] = h
      BY ONLY <2>1, <2>3, AppendProperties
    <3> QED  BY ONLY <1>0, <1>5, <3>1, <3>2
  <2>5. \A m \in 1 .. Len(ls3) : ls3[m] = ls4[m]
    <3>1. \A m \in 1 .. l : m = l \/ m \in 1 .. Len(links)  BY ONLY <1>0, <1>1
    <3> QED  BY ONLY <2>2, <2>4, <3>1
  <2>6. Len(ls3) = Len(ls4)  BY <1>8, <2>4
  <2> QED  BY ONLY <2>1, <2>4, <2>5, <2>6, SeqEqual
<1>10. \A m \in 1 .. Len(links) :
          /\ m \in 1 .. l /\ m # l
          /\ ls4[m].shut = ls1[m].shut /\ ls4[m].busy = links[m].busy
  <2>1. \A m \in 1 .. Len(links) : m \in 1 .. l /\ m # l  BY ONLY <1>0, <1>1
  <2> QED  BY ONLY <1>5, <1>6, <1>8, <2>1
<1>11. \A i \in 1 .. Len(q) : q[i] \in 1 .. Len(links) /\ ~ls1[q[i]].shut
  BY ONLY <1>5 DEF Pooled
<1>12. Pooled(q, ls4)
  BY ONLY <1>5, <1>8, <1>10, <1>11 DEF Pooled
<1>13. /\ p2 \in Seq(Nat) /\ Pooled(p2, ls4) /\ Len(p2) = Len(q) + 1
       /\ \A i \in 1 .. Len(p2) : p2[i] = l \/ (i \in 1 .. Len(q) /\ p2[i] = q[i])
  <2>1. /\ ~ls4[l].shut /\ l \in 1 .. Len(ls4) /\ Len(ls4) \in Nat
        /\ \A i \in 1 .. Len(q) : q[i] # l
    BY ONLY <1>0, <1>1, <1>6, <1>7, <1>8, <1>10, <1>11
  <2> QED  BY ONLY <1>0, <1>5, <1>12, <2>1, PoolTakes
<1>14. Trim(p2, ls4)
  <2> SUFFICES ASSUME Len(p2) > MaxConnections, NEW i \in 1 .. Len(p2) PROVE ls4[p2[i]].busy > 0
    BY DEF Trim
  <2>1. CASE p2[i] = l  BY <1>8, <2>1
  <2>2. CASE p2[i] # l
    <3>1. i \in 1 .. Len(q) /\ p2[i] = q[i]  BY <1>13, <2>2
    <3>2. Len(q) > MaxConnections - 1  BY <1>2, <1>5, <1>13
    <3>3. links[q[i]].busy # 0 /\ q[i] \in 1 .. Len(links)  BY <1>3, <1>11, <3>1, <3>2
    <3>4. links[q[i]].busy \in Nat /\ ls4[q[i]].busy = links[q[i]].busy
      BY ONLY <1>1, <1>10, <3>3
    <3> QED  BY <3>1, <3>3, <3>4
  <2> QED  BY <2>1, <2>2
<1> QED  BY <1>8, <1>9, <1>13, <1>14 DEF Onward

LEMMA StepTake ==
  ASSUME LinksInv, NEW c \in Calls, NEW u \in Users, Take(c, u) PROVE Onward
<1>1. calls[c].at = "new"  BY DEF Take
<1>2. CASE \E l \in Mine(u) :
             /\ pool' = Append(Left(pool, {l}), l)
             /\ links' = [links EXCEPT ![l] = Held(@)]
             /\ Takes(c, l) /\ conns' = conns
  <2>1. Mine(u) \subseteq ToSet(pool)  BY DEF Mine
  <2> QED  BY <1>1, <1>2, <2>1, TakesKnown
<1>3. CASE /\ Mine(u) = {} /\ Takes(c, Len(links) + 1)
           /\ LET out == Trimmed(pool, links, MaxConnections - 1) IN
              /\ pool' = Append(Left(pool, out), Len(links) + 1)
              /\ links' = Append(ShutAll(links, out, FALSE), Held(NewLink(u)))
              /\ conns' = Ended(conns, Connecting(links, out))
  <2> PICK out : out = Trimmed(pool, links, MaxConnections - 1)  OBVIOUS
  <2> QED  BY <1>1, <1>3, TakesNew
<1> QED  BY <1>2, <1>3 DEF Take

-------------------------------------------------------------------------------
(* LinksInv holds of every state                                               *)

LEMMA LinksInitially == LinksInit => LinksInv
<1> SUFFICES ASSUME LinksInit PROVE LinksInv  OBVIOUS
<1>1. links = <<>> /\ pool = <<>> /\ conns = <<>> /\ calls = [c \in Calls |-> NewCall]
      /\ held = [u \in Users |-> 1] /\ faults = [changes |-> 0, drops |-> 0]
  BY DEF LinksInit
<1>2. links \in Seq(Link) /\ Len(links) = 0 /\ pool \in Seq(Nat) /\ Len(pool) = 0
      /\ conns \in Seq(Conn) /\ Len(conns) = 0
  BY <1>1, EmptySeq
<1>3. \A i : i \notin 1 .. 0  OBVIOUS
<1>4. NewCall \in Call /\ NewCall.at = "new"  BY DEF NewCall, Call
<1>5. calls \in [Calls -> Call] /\ \A c \in Calls : calls[c].at = "new"
  <2> PICK r : r = NewCall  OBVIOUS
  <2>1. calls = [c \in Calls |-> r] /\ r \in Call /\ r.at = "new"  BY <1>1, <1>4
  <2> QED  BY ONLY <2>1
<1>6. \A c \in Calls : Placed(calls[c], links, conns)  BY <1>5 DEF Placed, InFlight
<1>7. LinksSound(links, conns, calls)
  BY <1>2, <1>3, <1>5, <1>6 DEF LinksSound
<1>8. Pooled(pool, links) /\ Trim(pool, links)  BY <1>2, <1>3 DEF Pooled, Trim
<1>9. held \in [Users -> Nat] /\ faults \in [changes : Nat, drops : Nat]
  BY ONLY <1>1
<1> QED  BY <1>2, <1>7, <1>8, <1>9 DEF LinksInv

LEMMA StepStays ==
  ASSUME LinksInv, UNCHANGED <<links, pool, conns, calls>> PROVE Onward
<1>1. /\ LinksSound(links, conns, calls) /\ pool \in Seq(Nat) /\ Pooled(pool, links)
      /\ Trim(pool, links)
  BY PoolFacts
<1> QED  BY <1>1 DEF Onward

LEMMA FaultsStep ==
  ASSUME LinksInv, [LinksNext]_linksVars
  PROVE  held' \in [Users -> Nat] /\ faults' \in [changes : Nat, drops : Nat]
<1>1. held \in [Users -> Nat] /\ faults \in [changes : Nat, drops : Nat]  BY DEF LinksInv
<1>2. CASE UNCHANGED <<held, faults>>  BY <1>1, <1>2
<1>3. ASSUME NEW n, ConnDrops(n) PROVE held' \in [Users -> Nat] /\ faults' \in [changes : Nat, drops : Nat]
  <2>1. held' = held /\ faults' = [faults EXCEPT !.drops = @ + 1]  BY <1>3 DEF ConnDrops
  <2> QED  BY ONLY <1>1, <2>1
<1>4. ASSUME NEW u \in Users, Changes(u)
      PROVE  held' \in [Users -> Nat] /\ faults' \in [changes : Nat, drops : Nat]
  <2>1. faults' = [faults EXCEPT !.changes = @ + 1]  BY <1>4 DEF Changes
  <2>2. PICK now \in {0, faults.changes + 2} : held' = [held EXCEPT ![u] = now]
    BY <1>4 DEF Changes
  <2>3. now \in Nat  BY <1>1, <2>2
  <2>4. held' \in [Users -> Nat]  BY ONLY <1>1, <2>2, <2>3
  <2> QED  BY ONLY <1>1, <2>1, <2>4
<1>5. ASSUME NEW c \in Calls, NEW u \in Users, Take(c, u) PROVE UNCHANGED <<held, faults>>
  BY <1>5 DEF Take
<1>6. ASSUME NEW c \in Calls,
             Release(c) \/ GivesUp(c) \/ Send(c) \/ Answered(c) \/ CallFails(c) \/ Refreshes(c)
      PROVE UNCHANGED <<held, faults>>
  BY <1>6 DEF Release, GivesUp, Send, Answered, CallFails, Refreshes
<1>7. ASSUME NEW l,
             \/ ShutEnds(l) \/ Idle(l) \/ Finds(l) \/ LookupFails(l) \/ HangsUp(l)
             \/ Made(l) \/ NotMade(l) \/ Connects(l) \/ Connected(l) \/ NotConnected(l)
      PROVE UNCHANGED <<held, faults>>
  BY <1>7 DEF ShutEnds, Idle, Finds, LookupFails, HangsUp, HungUp, Made, NotMade, Connects,
              Connected, NotConnected
<1>8. ASSUME NEW u \in Users, Forget(u) PROVE UNCHANGED <<held, faults>>
  BY <1>8 DEF Forget
<1>9. ASSUME Close \/ UNCHANGED linksVars PROVE UNCHANGED <<held, faults>>
  BY <1>9 DEF Close, linksVars
<1> QED  BY <1>2, <1>3, <1>4, <1>5, <1>6, <1>7, <1>8, <1>9 DEF LinksNext

LEMMA LinksStep == LinksInv /\ [LinksNext]_linksVars => LinksInv'
<1> SUFFICES ASSUME LinksInv, [LinksNext]_linksVars PROVE LinksInv'  OBVIOUS
<1>1. Onward
  <2>1. \A l : l \in DOMAIN links <=> l \in 1 .. Len(links)
    BY PoolFacts, LenProperties
  <2>2. \A n : n \in DOMAIN conns <=> n \in 1 .. Len(conns)
    <3>1. conns \in Seq(Conn)  BY DEF LinksInv, LinksSound
    <3> QED  BY ONLY <3>1, LenProperties
  <2>3. ASSUME NEW c \in Calls, NEW u \in Users, Take(c, u) PROVE Onward
    BY <2>3, StepTake
  <2>4. ASSUME NEW c \in Calls, Release(c) PROVE Onward  BY <2>4, StepRelease
  <2>5. ASSUME NEW c \in Calls, GivesUp(c) PROVE Onward  BY <2>5, StepGivesUp
  <2>6. ASSUME NEW c \in Calls, Send(c) PROVE Onward  BY <2>6, StepSends
  <2>7. ASSUME NEW c \in Calls, Answered(c) PROVE Onward  BY <2>7, StepAnswered
  <2>8. ASSUME NEW c \in Calls, CallFails(c) PROVE Onward  BY <2>8, StepCallFails
  <2>9. ASSUME NEW c \in Calls, Refreshes(c) PROVE Onward  BY <2>9, StepRefreshes
  <2>10. ASSUME NEW l \in 1 .. Len(links), ShutEnds(l) PROVE Onward  BY <2>10, StepShutEnds
  <2>11. ASSUME NEW l \in 1 .. Len(links), Idle(l) PROVE Onward  BY <2>11, StepIdle
  <2>12. ASSUME NEW l \in 1 .. Len(links), Finds(l) PROVE Onward  BY <2>12, StepFinds
  <2>13. ASSUME NEW l \in 1 .. Len(links), LookupFails(l) PROVE Onward  BY <2>13, StepLookupFails
  <2>14. ASSUME NEW l \in 1 .. Len(links), HangsUp(l) PROVE Onward  BY <2>14, StepHangsUp
  <2>15. ASSUME NEW l \in 1 .. Len(links), Made(l) PROVE Onward  BY <2>15, StepMade
  <2>16. ASSUME NEW l \in 1 .. Len(links), NotMade(l) PROVE Onward  BY <2>16, StepNotMade
  <2>17. ASSUME NEW l \in 1 .. Len(links), Connects(l) PROVE Onward  BY <2>17, StepConnects
  <2>18. ASSUME NEW l \in 1 .. Len(links), Connected(l) PROVE Onward  BY <2>18, StepConnected
  <2>19. ASSUME NEW l \in 1 .. Len(links), NotConnected(l) PROVE Onward
    BY <2>19, StepNotConnected
  <2>20. ASSUME NEW u \in Users, Forget(u) PROVE Onward  BY <2>20, StepForget
  <2>21. ASSUME NEW u \in Users, Changes(u) PROVE Onward  BY <2>21, StepStays DEF Changes
  <2>22. ASSUME NEW n \in 1 .. Len(conns), ConnDrops(n) PROVE Onward  BY <2>22, StepConnDrops
  <2>23. CASE Close  BY <2>23, StepClose
  <2>24. CASE UNCHANGED linksVars  BY <2>24, StepStays DEF linksVars
  <2> QED
    BY <2>1, <2>2, <2>3, <2>4, <2>5, <2>6, <2>7, <2>8, <2>9, <2>10, <2>11, <2>12, <2>13, <2>14,
       <2>15, <2>16, <2>17, <2>18, <2>19, <2>20, <2>21, <2>22, <2>23, <2>24 DEF LinksNext
<1>2. held' \in [Users -> Nat] /\ faults' \in [changes : Nat, drops : Nat]  BY FaultsStep
<1> QED  BY <1>1, <1>2 DEF LinksInv, Onward

\* Of every state of a process's connections to a server.
THEOREM LinksInvariance == LinksSpec => []LinksInv
<1>1. LinksInit => LinksInv  BY LinksInitially
<1>2. LinksInv /\ [LinksNext]_linksVars => LinksInv'  BY LinksStep
<1> QED  BY <1>1, <1>2, PTL DEF LinksSpec

\* However many users' links there are, and whatever cap the pool has, it is over it
\* only while calls hold every link of it, and a call's link is shut under it only by
\* forget() or close(): what take and release trim is no more and no less than what no
\* call holds (take, hold, release, trim).
THEOREM PoolIsTrimmed == LinksSpec => []PoolTrimmed
<1>1. LinksInv => PoolTrimmed
  <2> SUFFICES ASSUME LinksInv PROVE PoolTrimmed  OBVIOUS
  <2>1. ASSUME Len(pool) > MaxConnections, NEW l \in ToSet(pool) PROVE links[l].busy > 0
    BY <2>1, PoolFacts DEF Trim
  <2>2. ASSUME NEW c \in Calls, calls[c].at \notin {"new", "done"}, links[calls[c].link].shut
        PROVE  links[calls[c].link].asked
    <3> PICK r : r = calls[c]  OBVIOUS
    <3>1. Placed(r, links, conns) /\ r \in Call  BY DEF LinksInv, LinksSound
    <3>2. r.at \in InFlight  BY <2>2, <3>1 DEF Call, InFlight
    <3> QED  BY <2>2, <3>1, <3>2 DEF Placed
  <2> QED  BY <2>1, <2>2 DEF PoolTrimmed
<1> QED  BY <1>1, LinksInvariance, PTL

\* A call is given its user's link's connection, and one made with the very account its
\* check found, however many calls share the check and the dialing, and whenever the
\* account changes, the pool sheds the link, and what was dialed drops (ready, check,
\* hangUp, open).
THEOREM AccountOfItsCheck == LinksSpec => []OnItsAccount
<1>1. LinksInv => OnItsAccount
  <2> SUFFICES ASSUME LinksInv, NEW c \in Calls, calls[c].at \in {"ready", "sent"}
      PROVE  conns[calls[c].conn].link = calls[c].link /\ conns[calls[c].conn].cred = calls[c].found
    BY DEF OnItsAccount
  <2> PICK r : r = calls[c]  OBVIOUS
  <2>1. Placed(r, links, conns) /\ r \in Call  BY DEF LinksInv, LinksSound
  <2>2. conns[r.conn].link = r.link /\ conns[r.conn].cred = r.found  BY <2>1 DEF Placed
  <2>3. r.found \in Nat  BY <2>1 DEF Call
  <2> QED  BY <2>2, <2>3
<1> QED  BY <1>1, LinksInvariance, PTL

\* Every connection a process has made and not closed is one that will be: it is the
\* client of a link that is open, or being dialed, or its link's close() has it to
\* close (open, dial, shut, lose, hangUp).
THEOREM EachHasACloser == LinksSpec => []NoneLeftOpen
<1>1. LinksInv => NoneLeftOpen
  <2> SUFFICES ASSUME LinksInv PROVE NoneLeftOpen  OBVIOUS
  <2>1. LinksSound(links, conns, calls)  BY DEF LinksInv
  <2>2. ASSUME NEW n \in DOMAIN conns, conns[n].at # "closed"
        PROVE  LET k == links[conns[n].link]
               IN  (k.client = n /\ ~k.shut) \/ k.closing = n \/ k.dialed = n
    <3>1. n \in 1 .. Len(conns)
      <4>1. conns \in Seq(Conn) /\ n \in DOMAIN conns  BY <2>1 DEF LinksSound
      <4> QED  BY ONLY <4>1, LenProperties
    <3> PICK m : m = conns[n].link  OBVIOUS
    <3>2. m \in 1 .. Len(links)
          /\ (links[m].client = n \/ links[m].closing = n \/ links[m].dialed = n)
      BY <2>1, <2>2, <3>1 DEF LinksSound, Owned
    <3>3. links[m].client # 0 => ~links[m].shut  BY <2>1, <3>2 DEF LinksSound, Uses
    <3> QED  BY <3>1, <3>2, <3>3
  <2> QED  BY <2>2 DEF NoneLeftOpen
<1> QED  BY <1>1, LinksInvariance, PTL
===============================================================================
