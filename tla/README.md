# haikit, specified

TLA+ models of haikit's servers and of its client in the browser, the TLC runs that check them, and TLAPS
proofs. `PROJECT.json` maps every definition to the source lines it stands for.

haikit runs a conversation between a user, a model and an application. The
model calls tools; a tool may show the user *surfaces* (UI components), ask a
question with one, and revise one. The application may do the same from
outside a turn: revise a surface (`hai.update`), send a notice, wake the model.
Several server processes share one store; a user may have several tabs.

## The system

| Part | Source | State it keeps | Operations |
|---|---|---|---|
| Store | `server/src/store.ts`, `postgres/src/index.ts` | a row per conversation with its lease and token, payloads, notices | load (takes the lease), save (fenced), putPayload (fenced), putNotice, getNotices, sweepOrphans, watch, publish/subscribe |
| Turn runtime | `server/src/runtime.ts`, POST routes of `server/src/routes.ts` | the copy of the row a request works on | send, start, interact, wake, runTurn and its tools, announce, notify |
| `hai.update` queues | `runtime.ts` 149-161, 416-550 | a queue per surface, links between handles | update, and the loop that writes jobs |
| Questions of a reply | `runtime.ts` 1317-1628 | the claim to the question, what is being revised, what is under way | render, update, the end of a tool call |
| Events route | `routes.ts` 270-985 | a resume point per stream; the watchers of a conversation: wakeRead, wakeSettled, the turn showing, turns ended | stream, poll, catch up, wake attempts, frames of other processes |
| Signals, presence | `server/src/signals.ts` | latest value per signal, the other servers' counts, one publish in flight and the newest of each kind behind it | send, opened, closed, hear, beat, flush |
| Browser client | `client/src/index.js` | the chain of requests, the generation, the status, the message shown as going out, the events line | send, interact, start, reset, close, resume, listen, follow |
| Sign-in | `auth/src/index.ts` | not-before times and owners, cached | identify, revoke, me, claim, admit |
| MCP OAuth | `mcp/src/oauth.ts`, `store.ts`, `postgres.ts` | a sealed credential per user, with its refresh lease | callback, refresh, disconnect |
| MCP connections | `mcp/src/index.ts` | a pool of links; per link a client, a dialing, a check | take, call, drop, close |
| Model adapters, React, default UI, contracts | rest of `packages/` | none of their own | mapping and rendering |

How they interact. A POST request or a wake attempt loads the conversation,
which takes its lease; everything it does is on its copy; each save is a
compare-and-set on the lease's token. Tools run inside a turn and render
concurrently. `hai.update` takes the same lease from a queue of its own.
Notices are stored without a lease, read by streams (which show them and start
wake attempts) and by turns (which quote them to the model). The client posts
its requests one at a time and holds them while a wake turn shows. Signals and
presence go from server to server through the store's publish, which may lose
them, and to browsers on the events stream. A tool may call an MCP server over a
link of its user's, opened with the credential that user connected. Every route
asks who the user is, and whether that sign-in was revoked.

What is hard: leases that lapse under a slow turn; a process that dies between
two saves; a failed save of which nobody knows whether it landed; undoing a
turn in memory that is then saved anyway; renders that overlap; calls that are
coalesced; retries after a lost answer; the order of revision, notice and
question; a page that starts over, or loses its stream, while something is on
its way; values published out of order; waits shared by calls, on things that
others close; and a kept answer older than a change made since. `PROJECT.json`
lists each hazard at its line, with the properties that would catch it.

## The modules

**`SerialTurns`** is what a store promises, with no lease, token or copy: one
writer at a time, who adds or takes back its own turn.

**`ConversationLease`** is the protocol that gives it. `conv` is the stored row
(token, lease, turns on record, handles named), `payloads` the stored payloads
with the token each was written under, `req` each request's copy.
`LoadConversation` takes the lease with a new token, `Commit` and `ReleaseLease`
are `saveConversation` part way and at the end, `Lapse` is time, `Dies` a process
gone or a last save that failed, `Sweep` is postgres' `sweepOrphans`. A turn is
known by the token it ran under. `SerialSpec` is the refinement:
`turns <- conv.turns, writer <- conv.token`.

**`Turns`** has the contents, over the same lease. A message is reduced to the
calls it makes or the results and notices it holds; typed text is left out.
A request's `pc` says which await it is at: `model`, `tool`, `commit`, `init`,
`context` (the read that ends a turn), `tell` (an owed notice to append), `end`
(the route's last save). `before` is what its undo puts back. One action per
handler step: `SendMessage`, `Click`, `CallInit`/`InitReturns`/`InitFails`,
`Revise`/`Tell`, `Wake`/`WakeLimited`/`WakeFailed`, `ModelAnswers`/
`ModelCutShort`/`ModelCalls`/`ModelFails`, `ToolShows`/`ToolRevises`/
`ToolReturns`/`ToolFails`, `CommitLands`/`CommitFails` (a failed commit may have
landed). `announce` and its read are part of each step that starts a request's
work, as in the code. Whether surfaces have gone out of date (`Refuse`) is a
choice: the model has no clock. Kinds of request are switched by a constant.

**`Questions`** opens up one reply: its tools' renders and revisions overlap,
each split where it awaits the store or another's claim. Here `Turns` takes
them one at a time. `ops` is what was started; `asking` is `hop.asking`;
`ToolEnds`, `AllIn`, `Returned`, `Threw` are the end of `invokeTool`.

**`UpdateQueue`** has `hai.update`'s queues in one server: `calls` and how each
settled, `queue` (the job in hand, the one behind it), `names` (the handles the
server links, which it may forget), `lease` shared with turns. The write, which
`Turns` has in full, is one step here.

**`OAuthRefresh`** has one user's credential for one MCP server: sealed values
are numbers, `creds` says what each opens to, `row` and `lease` are the store's,
`live` the refresh tokens the authorization server takes. `Policies` are ways
that server may treat a token that was spent: replace it, or keep it.

**`WakeAttempts`** is the events route in one server: `stream` (each stream's
resume point, and whether it has yet to ask), `watchers` (`wakeRead` and
`wakeSettled`, shared by the streams), `waking` (a stream's attempt and its
`again`). `Asked` is `wake`, `Follow` the end of its loop, `Finally` what comes
after it, between which another notice may ask. `Load` to `Save` are `hai.wake`,
with the contents of a turn left to `Turns`: here a turn is the notices it takes
in, and `Other` stands for requests and for other servers' attempts.

**`WakeFrames`** is the part between servers: `watchers` has `deliver`'s
`current` (`showing`) and `newest`, `wire` the frames published and not yet
heard, in order from each server. A turn says `streaming` before its opening
save (`Start`), again after it (`CommitLands`), and `released` at its end. A lease
may lapse under any turn, so none is ever held back by it: `Load` needs no guard.

**`Client`** is one chat in a browser. `reqs` has every request made, each with
where it is (`at`), what the server made of it (`ans`, `turn`) and what its
promise told (`res`); `view` is what subscribers see: the status, the messages
shown as going out, those shown as the server's, `outgoing`. `gen` is
`generation`, against which `Pump`, `Retry`, `Reads` look after each await, as
`pump` and `exchange` do. `line` is the events stream or the poll under way, with
the frames on it; `remote`, `cutOff`, `showing`, `seen` are the code's, which say
what it knows of wake turns. The server is reduced to what it may answer: one
turn of a conversation at a time, a request's (`Service`) or a wake turn's
(`WakeStarts`, `WakeGoesOn`), 409 to the rest. `lost` is no variable of the code:
the word of a turn's end went with its connection.

**`Broadcast`** is signals and presence in every server: `out` is the publish in
flight and what waits behind it (`sending`, `unsent`), `peers` the other servers'
counts and how many heartbeats ago each was heard, `leaving` the grace, `net`
what was published and not yet heard. `Lands` and `Loses` are the two ends of a
publish, and each sends the next. Time is rounds of a heartbeat (`Round`): each
server beats once, and what it publishes arrives or is lost, before the next
round. The code lets a beat be late by up to three; a round keeps the servers'
clocks that close and no closer, and `peers` drops a count at the fourth.

**`McpLinks`** is the pool of connections to an MCP server with auth, for its
users. A link has at most one dialing (`dial`, `dialed`) and one check of the
credential (`check`), which the calls that need them share; `Finds`, `HangsUp`,
`Made`, `Connects`, `Connected` are their awaits. `Take` and `Release` are a
call's hold on a link with the trim that follows; `Idle`, `Forget`, `Close` and
`ShutEnds` close links; `ConnDrops` and `Changes` are what happens to them.
A credential is the number of the account it is for.

**`Revocation`** is one user's sign-ins on servers that share a store of
revocation times. `kept` is `notBefores`, `checks` are `identify`s, each split at
the store's read, `revokes` are `revoke`s, split at the store's write, `tokens`
all issued. Time is a clock of ticks, `Second` to the second and `Window` to
`NOT_BEFORE_CACHE_MS`. Any server may revoke the user at any time, while others do.
The user is not pushed out of the cache by others. `Promised` is when a revocation
is to count on a server by what `revoke` promises, `CountsOn` when it does.

`MC*.tla` and `*.cfg` instantiate them; `*_proofs.tla` have the proofs.
`MCSurfaces` and `MCMcp` check two modules side by side, `MCServers` three: `part`
picks one, whose steps the behaviour takes, and the others' variables stay as
they began. Their state spaces add up and do not multiply; that is sound as
no part reads another's variables. Fairness is asked of the part picked.
`UpdateQueue`, `ConversationLease`, `Revocation` and `McpLinks` say `QueueInit`,
`LeaseSpec`, `SignInSpec`, `LinksNext` and so on where the others say `Init` and
`Spec`, so that one module can extend them beside `Questions`, `WakeFrames` and
`OAuthRefresh`: what the runs check is then the very formula that is proved.

## What is checked

Each property is preceded in its module by what it says. "Slip" operators are
plausible mistakes in the code (a guard dropped, an undo that forgets a field);
each property fails when one replaces the definition it is a slip of.

| Run | Shows |
|---|---|
| `turns` | `HistoryFollowable`: every reply the model made with calls is followed at once by all their results. `PendingAnswerable`: a question can be answered. `QuestionKept`: nothing that fails drops it. `FrozenWithHistory`: the two halves of an answer are saved together. `RevisionTold`, `ModelHears`: revisions and their notices. `NoticesOnce`: no notice is quoted twice. `WakeOnce`: a wake notice's tools run once. |
| `surfaces` | `Questions`: `OneQuestion`, `ParksOnItsQuestion`, `OneRevision`, and `ReplyEndsHere`: no wait of a render on another goes on for ever. `UpdateQueue`: `ResolvedByItsWrite`, `NewestWins`, and `EveryCallSettles`. |
| `mcp` | `OAuthRefresh`: `GoneStaysGone`, `OneSpender`, `DropsOnlyDead`, `OrphansRevoked`. `McpLinks`: `PoolTrimmed`: over its cap only while every link is held. `OnItsAccount`: a call goes out on its own user's connection, made with the account its check found. `NoneLeftOpen`: every connection is in use or about to be closed. |
| `wake_attempts` | `SettledDecided`: a notice the server stops trying for is decided on record. `WatchedNoticesTried`: each wake notice a stream watches is settled, unless the stream closes or its attempt fails. |
| `servers` | `ConversationLease`: `NoLostTurn`, `SerialSpec`: no save drops another's turn or surface. `SweepSpares`: the sweep takes no payload still wanted. `LeaseExcludes`. `WakeFrames`: `ShownTurnsLetGo`: a server that shows a wake turn will be told it is over. `RecordedTurnsInOrder`: no older turn takes over from a newer one, of those on record. `Revocation`: `RevokedInTime`: a sign-in, renewed or not, is refused once a later revocation counts on the server, and only for one. A revocation counts on its own server when `revoke` is over; on another, a window after that and after every revoke there that began before it. |
| `client` | `SendTellsTruth`: what `send` resolves to is what the server did. `ReachesItsConversation`: nothing made for one conversation reaches another. `PendingIsOut`: a message shown as going out is. `StreamingMeansBusy`, `HeldOnlyWhileTold`: neither `streaming` nor the hold on requests outlasts its cause. |
| `broadcast` | `NeverOlder`: no browser, and no server, goes back to an older value of one sender. `NewestWaits`: what waits to be published is up to date. `PresenceSettles`: once streams stop coming and going, every server counts what is there. |

Five runs find the code and its documentation at odds (`findings` quotes both):

- `turns_wake_read_fails`: a wake turn parks on a question, then the read of
  payloads for its last frame fails. The catch, seeing that a tool ran, sets the
  status to idle and keeps the question. The next message does not close it,
  and the model is sent a call without a result. `turns` sets `readFails` to
  FALSE where there are wakes for this one reason, and to TRUE with messages,
  clicks and init, where it does no harm.
- `update_queue_surfaces`: a call merged behind another is written under the
  surface the first one named.
- `oauth_disconnect`: a refresh, or a connect, that writes between disconnect's
  read and its delete has its tokens deleted, not revoked.
- `client_left_streaming`: an events stream drops during a wake turn and is back
  after it ended. Only polls are told that no turn runs, so the page shows one
  running until something else changes its status.
- `sign_ins_promised`: `revoke` is to be "on every server within 30 s"
  (`auth/src/index.ts` 159). It keeps its own time as read when its write returns
  (527). When another server revoked the user meanwhile, the time kept is older than
  the store's, and is used for a whole window: `RevokedOnEveryServer` fails by as
  long as that write took to return. A sign-in between the two revocations is the
  one that shows it. `RevokedInTime` says what does hold.

### Bounds

| Run | Bound | Why enough |
|---|---|---|
| `turns` | 2 requests, each may run again; 3 leases; 1-2 surfaces; a notice in two of the setups | a turn, one that overtakes it or follows it, and one that reads what both left; two surfaces are a surface and its revision, or two calls' surfaces |
| | 1 or 2 model calls a turn, 1 or 2 tool calls a reply | two calls are a parked one with a sibling's result; two model calls are a failure after a tool ran. One wake a window reaches the limit |
| | four setups (`MCTurns`): messages and clicks; with an init tool; with `hai.update`; messages with wakes | `setup` is chosen at the start and never changes. Each puts together the requests that meet over one piece of state: answers, the opening, revisions and notices, wakes |
| `surfaces` | 2 calls, 4 renders or revisions | two that wait on one claim, one that revises what was asked, one of the later call |
| | 3 calls of `hai.update`, 3 handles | one being written, one merged into what waits, one after a handle moved |
| `mcp` | 2 processes, 2 tokens, 3 credentials, 2 refreshes, 1 disconnect, 2 write tries | two processes on one credential, a third written between, and a try that lands unheard |
| | 2 users, 2 calls, a pool of 1, 1 change, 1 drop | two calls share a link, or hold one each with the pool over its cap; a call may end and its link be taken again by the other |
| `wake_attempts` | 2 streams of 1 server, 1 notice, 1 other request | the first look (for an owed notice) and the notice are two things to settle, so an attempt can be asked for while one runs, and settle less than has been read; two streams contend for the lease, the third hold is a request's |
| `servers` | 2 requests, 3 leases, 2 payloads | a holder, the one that overtakes it, and one after both; the sweep comes on a payload named and on one left behind, or on two stored by different holders |
| | 2 servers, 3 turns, 1 crash or 1 turn's frames lost to a server | a turn's own server hears it at once and the other late, so the frames of two turns come in either order; a third comes after both |
| | 2 servers, a second of 2 ticks, a window of 2, 4 ticks, 1 sign-in, 2 revocations, 2 checks; with the second revocation, 1 check at a time (`FewAtOnce`) | a read begun before a revocation, on its server or the other, and answered after it, with another check behind it; two revocations of one server that end in either order, or of two, each read or kept over by the other; the window passes after a revocation of any of the first two ticks, which are of two seconds. `sign_ins_promised` finds its counterexample within the same four |
| `client` | 2 requests, 1 wake turn, 1 retry; a reset or close, and a fault, both with a stream and either with polls, as `MCClient` lists | a request out and one behind it, either overtaken by the reset; a wake turn that holds one; a fault at any point of either |
| `broadcast` | 2 servers, 2 streams; 2 opens and a crash, or sends and losses, as `MCBounds` lists | `bound` is one of a set, chosen at the start: presence with crashes, and signals with lost publishes, are apart |

Every bound is a constant named in a guard, but for `FewAtOnce`, a state constraint. Streams are numbered as they open,
which loses nothing, as they are alike. Request identities are symmetric
where they are never compared otherwise. Deadlock is not checked: the bounds,
and the end of a reply, stop the models by design.

### Fairness

`UpdateQueue` assumes weak fairness of each queue's own loop (its timers fire
and its store calls return), and nothing of turns: they may hold the
conversation for ever, and each job then ends at its deadline.
`Questions` assumes it of every operation under way and of the call's end: store
calls return, and a tool's promise settles. Neither is more than the event loop
gives. `WakeAttempts` assumes it of a stream's reads, of an attempt's next step
(store calls return, the retry's timer fires) and of a lease's lapse, and bounds
the other requests: an attempt waits for as long as they follow one another. A
read that fails ends the stream, which is `Close`. `Broadcast` assumes it of
deliveries, beats, the grace's end and the subscription: intervals and timers
fire while the process is up, and a publish returns. Nothing is assumed of
publishes landing: `Loses` is bounded, and the beats mend it. The other modules
state safety alone. That a refresh settles is left out: it was too large to
check together with the rest. `Client` states none: what a server that never
answers leaves waiting is no fault of the page, so its properties say what is
already on its way.

## What is proved

Eight modules have inductive invariants and theorems for every value of the
constants. What each assumes is the `ASSUME` of the module it is about, which TLC
evaluates in the runs: that bounds are natural numbers (positive, where zero
would mean nothing), and that `None` is none of the things it stands for the lack
of. Every invariant was checked with TLC before it was proved. None of the
properties is inductive alone; what each needs is the argument why the code is
right. Two have a hypothesis of their own, each with a run or an observation that
shows what happens without it: `NoneForgotten`, and `WakesRead` for the five
theorems on the history.

| Module | Theorem | Property |
|---|---|---|
| `ConversationLease_proofs` | `TypeCorrect` | `LeaseTypeOK` |
| | `SweepIsSafe` | `SweepSpares` |
| | `MutualExclusion` | `LeaseExcludes` |
| | `NothingLost` | `NoLostTurn` |
| | `ImplementsSerialTurns` | `SerialSpec` |
| `Turns_proofs` | `EachNoticeRunsOnce` | `WakeOnce` |
| | `RevisionsAreTold` | `RevisionTold` |
| | `TheModelHears` | `ModelHears` |
| | `TheModelCanFollow` | `HistoryFollowable` |
| | `TheQuestionCanBeAnswered` | `PendingAnswerable` |
| | `FrozenAsAnswered` | `FrozenWithHistory` |
| | `NoticesQuotedOnce` | `NoticesOnce` |
| | `NoQuestionIsLost` | `QuestionKept` |
| `Surfaces_proofs` | `RevisedOnce` | `OneRevision` |
| | `OneLive` | `OneQuestion` |
| | `ParkedRight` | `ParksOnItsQuestion` |
| | `ResolvedRight` | `ResolvedByItsWrite` |
| | `NewestStays` | `NewestWins` |
| `Mcp_proofs` | `NeverBack` | `GoneStaysGone` |
| | `SpentByOne` | `OneSpender` |
| | `OnlyDeadDropped` | `DropsOnlyDead` |
| | `NoneForgotten` | `OrphansRevoked` |
| | `PoolIsTrimmed` | `PoolTrimmed` |
| | `AccountOfItsCheck` | `OnItsAccount` |
| | `EachHasACloser` | `NoneLeftOpen` |
| `Servers_proofs` | `BrowsersLetGo` | `ShownTurnsLetGo` |
| | `NeverToAnOlder` | `RecordedTurnsInOrder` |
| | `RevokedOnTime` | `RevokedInTime` |
| `Client_proofs` | `PromisesAreKept` | `SendTellsTruth` |
| | `RequestsStayInTheirConversation` | `ReachesItsConversation` |
| | `OnlyWhatIsOutIsPending` | `PendingIsOut` |
| | `StreamingShowsWhatIsUnderWay` | `StreamingMeansBusy` |
| | `HeldOnlyWithWordToCome` | `HeldOnlyWhileTold` |
| `WakeAttempts_proofs` | `NothingSettledUntold` | `SettledDecided` |
| `Broadcast_proofs` | `BrowsersEndOnTheLatest` | `NeverOlder` |
| | `OnlyTheNewestWaits` | `NewestWaits` |

**The lease** (`BoundsAssumption`). That a save loses nothing needs to know that
the writer's copy agrees with the row in every turn but its own
(`HolderCurrent`); that holds only while one request at most has the row's
token (`TokensUnique`), which holds because no request's token is newer than
the row's (`TokensIssued`). The sweep's safety needs `HolderHandles`: what the
holder has named or stored is either on the row or was stored under the present
token, which is just what `Orphan` spares. The refinement then maps
`LoadConversation` to `TakeOver`, `Commit` and `ReleaseLease` to `Write`, and the
rest to stutters.

**The turn runtime** (`TurnsAssumption`). `Turns` saves whole conversations, and a
wake turn or an init tool that fails puts a whole one back; so an invariant has to
hold of the row, of each request's copy and of each copy kept to be put back.
`Leased` gives running requests tokens of their own, so that one at most can still
save. `WakeOnce` then comes of `Woken`: whoever can still save has been woken, in its
copy and in the one it may put back, for all that may run under other tokens.
Putting back `wokeThrough` frees no notice but its own turn's, in which no tool ran;
an overtaken wake turn may still run its tools, and so those are counted from when
it goes on record (`MayRun`). `RevisionTold` and `ModelHears` come of `Telling`: in
every copy a revision is told of or its notice owed, a turn that has begun owes
nothing and has noticed what tells of each, and whoever can save has all the row's
revisions, so what it owes is all there is to owe. A notice is appended before the
save that lets it go, by a holder that may be overtaken between the two; that what it
tells of is on record is kept for each stage on the way (`TellsRight`). Copies
overtaken stay right since notices are only added. Typing a copy needs an end to its
chains of revisions, reached as in `Questions`.

**The history a model is sent** (`TurnsAssumption` and `WakesRead`, that no wake turn
fails to read its payloads; without it `turns_wake_read_fails` is the counterexample).
Between turns a copy is one of two things (`AtRest`): nothing is pending and the next
message of each reply with calls has all their results (`Even`), or a question is
pending, on a live surface, with the results of all the other calls (`Answerable`). While
tools run, the results in hand are those of the calls already made, less the parked
one (`Counted`). `HistoryFollowable` and `PendingAnswerable` are read off `AtRest` of
the row. `FrozenWithHistory` needs the surfaces frozen accounted for one by one, by the
message that settles each or by the question's results (`Accounts`). `QuestionKept`
speaks of the row at two moments, so `Kept` carries the question through the copy of
whoever can still save: that copy has the question on record, or its answer, at the
end of the chain a revision moves it along. `NoticesOnce` flattens the history, by a
recursive function of its length. Its values are not computed by induction: were there
no such function for some length, or two that differ, there would be a least such
length, or index, and it is refuted (`JoinsExist`, `JoinsAgree`). A message
appended is then one step of the function, which adds the notices owed, and the
history quotes `1 .. noticedThrough` in order (`Quoted`).

**Questions of a reply** (`QuestionsAssumption`). All there is to say of the
screen is that the surface the claim has shown, if any, is what is live
(`ClaimIsLive`). To keep it, no op but the one with the claim may be storing a
question (`StoringClaims`), a surface being revised may not be frozen or revised
again before the revision is stored (`RevisesApart`), and nothing may be left
under way when its call has ended (`NoneLeftOver`): the `Promise.all` of
`invokeTool`. A turn parks on a handle that revisions have since moved, so the
chain of revisions must have an end for each handle, and one only. `currentHandle`
is a recursion along it; its value is reached without induction, by keeping the
function of all ends in the invariant and saying how each revision changes it
(`ChainEnds`).

**`hai.update`** (`QueueBounds`). A queue has its newest call last: the job behind
is of a later call than the one being written (`InOrder`), which is of a later
call than any it wrote before (`WrittenBefore`). Calls merge into the job behind
and never into the one being written, so a job has the wake any of its calls
asked for (`CarriesCalls`); and a handle is written once (`WrittenOnce`), so what
a caller was told stays so.

**MCP credentials** (`OAuthAssumption`). The store never holds a sealed value again
that it has let go of: what a put stores is new, and it is stored only over the
row it began with (`EachSound`, `ConnectIsNew`). A refresh whose row has moved on
can so do no harm, however late; of those whose row has not, only the lease's
holder is spending its token (`HoldersApart`, and the lease's part of `Sound`).
`NoneForgotten` needs that a token which is neither stored nor in hand is on the
list of those lost in a failed write or revoked (`Accounted`), and that a token
revoked as no one's is nowhere else (`TokensApart`, `FreshApart`,
`OrphansNowhere`). Its hypothesis is that each
server replaces every spent token or keeps every one (`"either" \notin
Policies`), without which it is false (see the observations).

**MCP connections** (`LinksAssumption`: any finite number of calls, and a cap of one or
more, which the code insists on). A link's connection, dialed or in use, is its own,
and of the account its last check found, but while a check that found another has still
to hang it up (`Uses`); and a check hangs up only once no dialing is under way, so a
call that waits on a dialing waits for the account it was found (`Placed`). A
connection not closed is always some link's to close (`Owned`). A link's `busy` is the
number of calls that hold it (`Counts`): so what is idle, or trimmed, no call holds, and
only `forget()` and `close()` shut one that a call does. The pool holds each open link
once (`Pooled`); how many links a trim sheds is counted by their places in it, the
first that could not be shed being the least of those left (`TrimmedSheds`). That
`FlattenSeq` leaves the rest in order is proved, like the flattened history, by a least
place where it would not.

**Wake turns on other servers** (`FramesAssumption`). Each server's frames reach
another in order, so behind every `streaming` under way its turn still runs at
the server that said it, or its `released` follows in the same queue
(`QueuesSound`); what a server shows is then let go of, by one or the other
(`ShownDue`). `RecordedTurnsInOrder` rests on numbers that are read from the
row and counted in a copy that may never be saved. The proof exhibits one number
for each turn, such that every frame, entry and turn agrees with it and a turn on
record is below every newer one (`Numbered`). A step that starts a turn extends
the numbering; that a turn overtaken before it counted cannot go on record is the
fence.

**Sign-ins** (`RevocationBounds`). The store's time is no earlier than any that was
written (`Written`); so a read asked after a revocation was done finds one at
least as late (`ReadsRecent`), and so does whatever was kept from such a read or
by the server that revoked (`KeptRecent`). What a server keeps at the end of its own
revoke may be earlier than another's revocation, if it began before that: then it is
not read `Since`, and that one does not count there until what was kept is old
(`CountsOn`). If it began after, it is no earlier. So a kept time young enough to be
used is no earlier than any revocation that counts. Nothing is asked of how revokes
of several servers follow one another.

**The browser client** (`ClientBounds`, `ClientNames`). Three invariants, each on top of the last.
`CInv`: a request is `Sound` by where it is. One the server took up has its answer on
the way (`Replies`): a refusal is said before the end, and a `streaming` has its `idle` or
`error` behind it, or the turn runs. So `send` resolves to what was done, and as requests
go out one at a time (`InTurn`), in the page's conversation (`AllHere`), what shows as
pending is the one out (`Showing`). `LInv` follows the frames of wake turns on their way:
turns are numbered (`Numbered`), what a `released` counts as over is over (`Behind`,
`Passed`), and behind each `streaming` come its `idle` (`Idled`) and its `released`
(`Held`), or the turn runs and the page listens, or it polls. What a poll replays is
flattened, and is followed turn by turn (`TurnedAll`). `SInv` says what a `streaming`
status comes of: one that was told has its `idle` to come, or a request's, or that was
lost (`ToldBusy`); one supposed has its request out, and what that will put back is no
`streaming` that nothing ends (`GuessedBusy`).

**Wake attempts** (`StreamsAssumption`). The notices the row says are decided also fall:
a failed turn gives back what it took in before the model ran. What never falls is the
`Floor`, what the row will say at least whatever the attempt with its fence comes to.
What an attempt found decided is no more than that (`FoundSo`), and so is what it is
about to settle, if it was not judged, unless it woke the model and still has the fence:
then the row has it, and what it settles it has not given back (`Settling`). An attempt
overtaken can give nothing back.

**Signals and presence** (`BroadcastBounds`, `BroadcastNames`). Each server's messages are
followed all the way to each other server: what is on its way, in flight and waiting
is in the order sent, after what was heard of that server and up to what it sent
(`InLine`). A value heard is so newer than any before it, and becomes the latest of a
stream and of its server at once (`Latest`). `NewestWaits` of a count, which is of now
and not in that order, holds since `told` is the count of a server that is up, at
every step (`Orderly`).

### Only model-checked

Every invariant and action property of the passing runs is proved. What is left to TLC:

- Liveness (`EveryCallSettles`, `ReplyEndsHere`, `WatchedNoticesTried`,
  `PresenceSettles`): fairness and `ENABLED` are out of the prover's reach.
- The five disagreements, which are counterexamples.

## What is not modelled, and why

- Clocks. A lease may lapse, a deadline pass, a surface go stale at any time:
  that is more than the code can do, so safety carries over.
- Text, schemas, props, digests, progress frames, the transcript.
- `maxWakes`' window: how many of the wakes so far are recent is a choice.
- Streams' backpressure, heartbeats, rechecks of admission, the watch that
  hastens a read: a read may come at any time.
- Deletion of a conversation, which the store leaves to the application.
- Several users' credentials, which share nothing, and sealing.
- What polls replay of turns that ended unseen, and the two frames of a revision.
- In the client: what surfaces, notices and signals hold and how the transcript
  orders them; mounting; when the browser falls back to polls (it may at any time);
  a request turned away with 404 or 415 (like a 401 not sent, but the page is not
  `unauthorized`), and an events stream answered 404, which stops following.
- In `Broadcast`: a server whose beat is late by more than a round. It is then
  counted out and in again, as the code means it to be.
- In `McpLinks`: listing, comparing and verifying tools, arguments and results,
  and credentials an application makes per user (`userFor`); the transport's own
  second try of a request after a 401; a transport that is made after its dialing
  was given up (`made` closes it when it comes: nothing is connected over it).
- In sign-in: token formats, expiry, cookies, the gate, owners of conversations,
  and the way through a provider. Each is one request, or a function of one.
- The default UI, React binding, adapters, providers: functions of their input.
- The scripts under `scripts/` and `apps/` are tests and applications.

## Plan

1. Events route, what is left: polls (`ended` and the number a browser last
   saw), the two frames of a revision and the resume point after a cut.

## Observations that are no finding

- An init tool that throws has its handles taken back but not the links its
  revisions made (`runtime.ts` 970-973); no later check reads such a link first.
- `hai.update` may reject although the revision is on record, when the save that
  lets the lease go fails; documented as the notice still owed.
- Wake turns are numbered so that a server can tell a turn "from an older one's
  late frames" (`runtime.ts` 716). A turn whose saves are refused or fail has said
  its number and not counted it, so the turn that overtook it has the same
  number. If the older one says `streaming` last, it takes over on every server
  that hears it (`routes.ts` 833 asks for a number at least as high), the newer
  turn's frames are dropped, and the older one's `released` lets browsers send into
  a running turn; a poll that saw the first of them end is not sent the second
  one's end (455). `RecordedTurnsInOrder` is about turns on record for this reason;
  without that, `servers` fails.
- A `released` that is lost, or never said because the server died, leaves other
  servers showing the turn, and their browsers holding requests, until another
  wake turn.
- Two holders may announce the same revision when the first is overtaken between
  its read and its append.
- A click whose save landed but was reported failed is undone and may be clicked
  again, so its handler may run twice.
- Under an authorization server that does either with spent tokens (`"either"`
  in `Policies`), `OrphansRevoked` fails: a write landed unheard, another
  process refreshed with the token kept, and the first takes its own for no
  one's. No run includes it, as no single server is known to do so.
- `remote`'s comment in the client says nothing is posted while a wake turn shows
  (`client/src/index.js`); the backoff after a failed connection posts again
  all the same (`exchange`). The server answers 409, so nothing is harmed.
- A typed turn whose response is cut after `streaming` leaves the status there,
  which `docs/reference/client.md` tells of. So does an events stream refused
  with 401 while a request that has had its last status is out, which
  `unauthorized`'s comment does not: `lost` allows for these two. A stream's 404,
  not modelled, lets go of requests held by a wake turn and leaves the status too.
- Two servers that send one signal at once may end on different values of it, as
  `docs/reference/signals.md` says: `NeverOlder` is per sender.
