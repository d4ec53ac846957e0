# Verification of the agent server

TLA+ models of the chat server, its autonomous worker loop, its allowlist, its
paid-RPC client, the agent's registration and delegation, and the script that
prunes a fork, checked with TLC and, where it pays, proved with TLAPS.
Paths below are relative to `src/`; `ws.ts` stands for
`packages/server/src/websocket.ts` and `shared/` for `packages/shared/src/`.

Contents: [1 The system](#1-the-system), [2 The modules](#2-the-modules-and-the-code),
[3 The runs](#3-the-runs), [4 Fairness](#4-fairness), [5 The proofs](#5-the-proofs),
[6 Disagreements](#6-where-code-and-documentation-disagree),
[7 Not modelled](#7-what-is-not-modelled), [8 Plan](#8-plan).

## 1 The system

One Node process serves a chat agent over WebSockets and, in autonomous mode,
runs a worker loop that calls the same kind of agent on a timer. There are no
threads: a callback runs to its next `await` undisturbed, and everything hard
comes from what happens at the awaits, from files other programs write, from
the network and from the death of the process.

| part | state | operations |
| --- | --- | --- |
| Chat sessions and turns (`ws.ts`, `server/src/session.ts`) | per session `isProcessing`, `currentAbortController`, `pendingMessages`, `pendingTransactions`; per turn the abort signal, budget timer, tool and token counts; `sessions`, `stopped` | `handleMessage`, `handleChatMessage`, `awaitTransaction`, `handleTxResult`/`Error`, close, `stop` |
| Sign-in handshake (`ws.ts`, `shared/nonce-store.ts`, `shared/owner-resolution.ts`, `shared/allowlist.ts`) | pending nonce and challenge, `authTimeout`, wallet, owner flag; nonce store; owner cache and the lookup in flight; `ownerWallet` | connection, `handleAuthResponse`, `failAuth`, timeout, sweep, `resolveOwner`, `requireOwner` |
| Worker loop and boot (`server/src/worker-loop.ts`, `server/src/index.ts`) | `running`, the abort controller of the sleep and of the tick | `start`, `loop`, `runTick`, `sleep`, `stop`, bootstrap, shutdown |
| Agent state file (`shared/state.ts`) | `agent-state.json`: pause, error streak, journal ring, goals, tasks | read-modify-write helpers used by ticks and tools |
| Wallet allowlist (`shared/allowlist-file.ts`) and its administration (`ws.ts`) | the file; `snapshot` with its mtime, `merged` | poll, `reload`, `addWallet`, `removeWallet`, list, add, remove |
| Plumber paid-RPC client (`shared/plumber-client.ts`) | cached bearer, handshake in flight | `getBearer`, `plumberFetch`, payment events |
| Per-wallet rate limiter (`shared/wallet-rate-limit.ts`) | LRU map of wallets to time stamps, exempt wallet | `allow`, `setOwnerExempt` |
| Registration: configuration (`shared/config.ts`), tool host context (`shared/tool-host-context.ts`), funding (`shared/funding.ts`) | registered asset and launched token, in the environment, in `agent-state.json` and in the memoised config | `getConfig`, `updateConfigFromState`, `onAssetRegistered`, `onTokenLaunched`, `ensureAgentFunded` |
| Delegation tools (`packages/core/src/tools`) | records on chain; per call the asset, what was read, the approval under way | `delegate-to-nori`, `revoke-delegate`, `list-delegates` |
| Pruning script (`scripts/bootstrap.ts`) | the files of a fork | a plan per mode: delete, rewrite, patch, strip, remove scripts; dry run |
| The rest: agent definition and prompts, dashboard, tick prompt, configuration reader, umi, limits, banner, other scripts | none of their own, or start-up I/O | |

**How they interact.** A socket passes the handshake and becomes an
authenticated session; `handleMessage` then routes its frames to turns, to
pending transactions or to allowlist administration. A turn streams from the
agent; the agent's tools call back into the session (`awaitTransaction`), which
sends the transaction to the client's wallet and waits for its answer, a
timeout or a disconnect. The tier check of the handshake reads the allowlist
(`AllowlistFile.current()`) and the owner (`resolveOwner`); allowlist
administration asks `resolveOwner` again through `requireOwner`. The rate
limiter learns the exempt wallet from each handshake. Chat tools and ticks
share the state file. Model calls of both go through `plumberFetch`. The
toolkit's `register-agent` and `launch-token` call back into the host context,
which writes the state file, updates the memoised configuration and clears the
owner cache; the delegation tools read the registered asset from that
configuration and hand their transaction to the client's wallet. `stop()`
closes the server while turns, handshakes and transactions are open, and
`index.ts` stops the worker loop beside it.

**What is hard in it, and what makes it correct.**

- *Turns*: messages arrive while a turn runs; the `finally` of a turn starts the
  next one; a timer, a limit, a disconnect and a shutdown all abort "the current
  controller"; a transaction is raced by its answer, its timeout and the
  cleanup. Correct means: one turn at a time, in order, nothing lost; an abort
  hits the turn it is meant for and no other; every turn and every transaction
  ends, once, and the client is told.
- *Handshake*: verification waits for the chain while the socket, the owner and
  the cache change; several responses may be under way on one connection; nonces
  are replayed, expire and are swept. Correct means: admitted only on a fresh
  signature and with the right to be in; a failure closes the socket; nothing
  hangs and the store does not fill.
- *Worker loop*: a tick reads the file before its awaits, tools write meanwhile;
  several writes make one change, and the process may die between them. Correct
  means: failures stop by themselves, a pause holds, no update is lost, work is
  eventually looked at, a signal ends the process.
- *Allowlist*: an editor is another process; mtimes are coarse; the cached
  snapshot is the base of every rewrite. Correct means: what is enforced is what
  the file says, no partial file, the admin sees the truth.
- *Plumber client*: concurrent calls share and invalidate a bearer; answers are
  lost after money has moved. Correct means: the ledger says what was paid, a
  rejected bearer is not used again, nobody waits for a handshake that failed.
- *Registration*: three places name the agent's asset; two registrations may be
  under way; files are lost or spoiled; lookups for an older asset return late.
  Correct means: memory and file agree, a process never forgets that it is
  registered, the owner told is that of the asset asked for.
- *Delegation tools*: what was read before the wallet popup is stale after it;
  an answer may be lost after the transaction has landed. Correct means: an
  "ok" is true, and plumber never has a record while the agent has none.
- *Pruning script*: a plan of steps with nothing to tie them together, stopped
  anywhere, run again for either mode. Correct means: "Done" is true, and a dry
  run foretells the real one.

The hazards, each at its line and with the properties aimed at it, are listed in
`PROJECT.json`.

## 2 The modules and the code

Every action is one run of JavaScript between two awaits, with every call in
it that changes state; a definition named after a function of the source models
that function. `PROJECT.json` maps each definition to its lines. Definitions
marked `FAULT` are seeded faults: variants of a definition with a plausible bug,
used by no specification. For each property, one of them put in the place of
the original makes TLC find the property violated, which shows that the
property depends on that piece of code.

### ChatTurns

`pc[m]` says where the `handleChatMessage` call of message `m` is: in
`agent.stream` ("calling"), in `reader.read` ("reading"), in `reader.cancel`
after a breach ("cancelling"), in `await stream.text` ("text", or "textAborted"
when it should not be there), or over with an outcome: the closing "answer",
the "budget" message, an "error" message, or "silent". `controller[s]` is
`session.currentAbortController`, named by the turn that made it; `queue`,
`isProcessing`, `pendingTx`, `registered`, `stopped` are the fields of those
names. `EnqueueMessage`, `RefuseMessage` and `StartMessage` are the branches of
a chat message; `FinishIdle` and `FinishAndStart` are
the `finally` block with its recursive drain: as the drain awaits only calls
that return at once for unusable content, it passes over those messages and
starts the next usable one in the same step. ws 8
emits the frames of one chunk synchronously, so that none comes between the
microtasks of a drain, and it keeps delivering on a socket the server is closing,
so messages are accepted in the state "closing" too. A turn that was
cut short leaves the agent's run behind (`running`): its tools may still open
transactions.

Abstracted: texts, history, debug events, the rate limiters in front of the
switch, the token count (its limit may be hit at any chunk).

**FifoService** is what a client may rely on: messages are served in order, one
at a time, and once the service closes nothing is started. `ChatTurns`
implements it under `serving <- the active turns`, `open <- ~stopped`
(property `ImplementsFifo`).

### Handshake

Each connection has one challenge, so its nonce goes by its name; `nonces` is
the store's entry (live, past its TTL, gone). `AuthResponse` is
`handleAuthResponse` up to the await of `resolveOwner`, `AuthAnswered` the rest:
tier check, promotion or `failAuth`. `resolveOwner` is its cache and its single
flight; the lookup may return any owner the chain had since it began, or fail.
`answer[s] = "waiting"` is a caller of the lookup in flight; a caller that has
its answer is `Ready` and continues in a microtask: until it does, only frames
that came with the same chunk on its own socket are handled (`Quiet`).
`TransferOwnership` is the chain. A signature is a pair of wallet and nonce;
`Signers` says who signs which challenge, so that replay across sessions is
possible and forgery is not.

**Admission** is what the sign-in promises of a connection, without sockets,
timers, nonces and lookups: a stranger is challenged once, and then becomes a
member for one wallet, for good, or is gone for good; who is a member may be
found to be an owner of the asset, or not to be one. `Handshake` implements it
(property `ImplementsAdmission`) under `phase <- Phase`, `owners <- everOwner`,
`verified <- the sessions with isOwnerVerified`. `Phase` calls a connection
challenged as long as its nonce is pending or its response waits for the owner,
so that of a shutdown, several connections may be turned away in one step.

Abstracted: the unregistered agent (owner from `BOOTSTRAP_WALLET`), clocks.

### WorkerLoop

`disk` is `agent-state.json`, reduced to pause, streak, the kinds of the journal
entries and the open goals and tasks. Helpers that write more than once are
sequences of file contents (`SetPaused`, `IncrementErrorStreak`,
`SuccessWrites`, `FailureWrites`), so that `CrashAmid` can stop between any two
writes. `state` is the copy the tick read before its awaits. `pc` runs from
boot through gathering, generating and sleeping to "exited" and "down";
`Reboot` starts again from the file.

### AllowlistFile

`statSync`, `readFileSync` and `renameSync` are separate steps, because the
operator's editor may act between them (`HandEdit`, `HandSpoil`, `HandDelete`);
`then` remembers what follows the reload: nothing, the second reload of `sendAllowlistState`, or the
answer. `snapshot` is keyed by an mtime. Two assumptions about mtimes: a change
to a readable file gets a new one, while a partial write and its completion may
share one; the server's own rename may fall into the tick of the file it
replaces. `intended` is the list that edits and admin changes amount to, and
`raced` says that a rewrite did not start from the file's content, or that the
operator has left a malformed file.

### PlumberClient

A step is what the client does between two awaits of the network. Bearers are
numbered; `token[f]` is the bearer call `f` sent; `handshake` is the shared
promise by the request it waits for. Plumber is external: it answers in any way
the client distinguishes, and `ConnectionLost` lets it have settled or charged
before the answer is lost. `settled` and `charged` count what it has taken for a
call. `Report` is what the code makes of the answer to a payment: `x402-paid` for
every X-PAYMENT-RESPONSE that can be read, whatever its `success` says, and nothing
for one that cannot. Of plumber only this is assumed (`Settles`): a header that
says success comes with a settlement, and a settlement is answered with that
header, or with one mangled on the way. Abstracted: how the payment transaction is put
together (`BuildPayment`: it can be, or it throws).

### AgentIdentity and Registration

`AgentIdentity` is what the tools that act on the asset rely on: a running
process knows one asset or none, may come to know another at any time, and never
forgets that it is registered. `Registration` implements it (property
`ImplementsIdentity`, under `registered <- config.asset`), and `Delegation`
extends it.

In `Registration`, `env`, `file` and `config` are the two identity fields in the
environment, in `agent-state.json` and in `_config`; `NoConfig` is a process that
has not started. `Boot` is the part of `getConfig` that resolves them, with the
gate of autonomous mode; `OnAssetRegistered` and `OnTokenLaunched` are the
callbacks, each with its `setState`, `updateConfigFromState` and, for the first,
`clearOwnerCache`, in one step because they are synchronous. `job[j]` follows a
call of the external toolkit through funding, top-up and mint. `ResolveOwner`,
`LookupReturns`, `LookupFails` are `resolveOwner` again, here with the asset that
may change under it, where `Handshake` has the owner that may change. `OtherWrite`
is any write of the state file by the rest of the server. The operator edits the
environment while the process is down and the file at any time; `edited` marks
the latter.

Abstracted: the pattern for addresses (a value that does not match counts as
absent), amounts of SOL, the other settings.

### Delegation

`pc[c]` is where a call is: waiting for the agent card, reading the chain,
waiting for the wallet ("approval"), "landed" when the transaction is in and the
answer is not, "late" when nobody waits for the transaction any more, "ok" with
its answer. `seen` and `unread` are what the reads have returned; `Writes` is the
set of records the transaction creates or closes. The registry program is
external: it refuses to create a record or a profile twice and to close one that
is not there. `Rejected` is any failure of `submitWithUserWallet`, with the
transaction in, out, or still in the wallet. `registered` may change during a
call; `CallsEnd` is the end of the process.

`was[c]` remembers which of the records the call is about (`target`) have been as
its "ok" would have them, there for a delegation and gone for a revocation, at some
moment since its reads began (`Observe`); `severed` remembers the assets whose own
executive was revoked.

Abstracted: addresses and accounts other than plumber's and the agent's own.

### Pruner

A file is the set of passages the script looks for in it, `Missing` when it does
not exist, empty when a write was torn. `Plan(m)` lists the steps of
`makePublicPlan` and `makeAutonomousPlan` in the order `main` applies them;
`After` is what a step makes of a file, `Aborts` when it gives up. `Truncate` and
`Write` are the two halves of `fs.writeFile`; `Stop` falls between any two steps.
The operator patches, edits, checks out and copies files between runs. `foretold`
remembers how a dry run on the same tree has ended. `given` remembers the sections
of `.env.example` as the operator last gave them, `spoilt` the files that a run of
the other mode, or one stopped within a write, has changed since: nobody can expect
a mode to keep there what is no longer there. `Template` is the tree of this commit.

Abstracted: the texts; what a partial write leaves (nothing, in the model); a file
an operator edits during a run.

## 3 The runs

| run | instance | states | shows |
| --- | --- | --- | --- |
| `turns_queue` | one session, usable `m1`, `m3`, unusable `m2`, one tool call allowed | 145,932 | queue, turn life cycle, aborts and budgets; refinement of `FifoService`; turns end and messages are served |
| `turns_clients` | sessions `s1`, `s2`, two messages, one transaction | 226,040 | transactions against answers of both sessions, timeouts, disconnects, shutdown |
| `turns_orphan` | one session, two messages | | disagreement, section 6 |
| `handshake` | two connections, three wallets, allowlist `{w3}`, two slots | 197,621 | who is admitted, replay, failures that race verification; refinement of `Admission` |
| `handshake_live` | two connections for one slot, one wallet | 7,172 | handshakes end, nonces are forgotten |
| `worker` | one goal, streak limit 3, journal of 3, 2 unpauses, 1 crash | 163,492 | auto-pause, pause, journal, lost updates, crashes, liveness |
| `allowlist` | two managed wallets, one also from the environment, 4 mtimes | 40,771 | the file against readers, writers, crashes and an editor |
| `plumber` | three calls, two bearers | 179,990 | bearer sharing, retries, payments, ledger |
| `registration` | two assets, one token, two calls under way, public mode | 40,493 | memory, file and environment through registrations, launches, crashes and edits; owner lookups in flight; refinement of `AgentIdentity` |
| `registration_env` | as `registration` | | disagreement, section 6 |
| `delegation` | two calls, two assets, up to symmetry | 170,069 | answers from stale reads, late transactions, pairs of records |
| `prune` | the tree of this commit; the operator rewords two files and checks out two | 901,272 | stopped and repeated runs of both modes, dry runs |

**Why the bounds are enough.** Turns of different sessions share only the
server's `stopped`, the sessions map and the transactions, so the queue is
explored in depth with one session (a turn, one waiting behind it, and an
unusable message anywhere among them) and cross-session effects with two.
Two responses in flight, one replayed nonce and one change of owner are what
the handshake's races need; a third wallet tells owner, allowlisted and stranger
apart. Three failures reach the auto-pause, two unpauses pass it twice, and a
crash can fall between any two writes. Three mtimes after the first let an edit,
a write in the same tick and a further edit meet. With three calls, two can hold
one rejected bearer while a third renews it. Two registrations at once need two
assets; more would repeat them. Two calls of the delegation tools are one that
reads and one that changes what it has read; the second asset is the one a
registration brings in between. The number of runs of the pruning script is not
bounded; `Rewords` and `Restores` name one file of each kind of step, as every
further file multiplies the trees. The proofs remove
these bounds from all safety properties that hold.

Bounds that are part of a model, and not of the code: `MaxUnpauses` and
`MaxCrashes` in `WorkerLoop` (guards of `Unpause` and the crash actions),
`MaxStamp` in `AllowlistFile`, `MaxToken` in `PlumberClient` (a handshake beyond
it only fails). In `ChatTurns` each message is sent once and each transaction
opened once. `CHECK_DEADLOCK FALSE` is set where the system may really come to
rest: clients leave, the calls of the model are all made.

### What the properties say

*ChatTurns.* `SingleTurn`, `NoMessageLost`: the queue discipline, also across
drains over unusable messages. `AbortReachesTurn`, `AbortHasCause`: the
controller in the session is that of its live turn, and no turn is aborted by
what an older one left (a timer, a breach). `TurnAnswered`: a breach is told,
and only a turn that ran out of time may end without a word. `TurnHeld`: no turn,
be it one the drain started, is ever beyond the reach of its time budget.
`PendingTxReachable`, `ResolvedByOwnClient`, `TxSettles`: promise, map entry, answer,
timeout and cleanup of a transaction agree. `ImplementsFifo` has, besides order,
that a shutdown starts nothing. `TurnEnds`, `MessageServed`: a hanging agent holds nobody up
for longer than the budget.

*Handshake.* `AuthenticatedBySigner`, `NonceSpent`: no signature works twice or
elsewhere. `Admitted`: tier or ownership on every promotion, whatever lookups
did meanwhile. `FailedIsClosed`: no open socket after an `auth_error`, with
several responses in flight. `ImplementsAdmission`: what a connection has become
it stays; nothing that is still under way (a second response, the timer, a late
lookup) reopens a decision or gives a session another wallet. `HandshakeEnds`,
`NoncesForgotten`.

*WorkerLoop.* `FailuresBounded`: every failure beyond the threshold costs an
unpause or a crash. `PauseHolds`: at most the tick that had looked at the file
calls the model after a pause. `PauseJournalled`: the ring's last pause entry
tells the truth unless the process died in between. `NoLostUpdate`: nothing a
tick writes after its awaits undoes what tools wrote. `WorkReached`,
`ShutdownEnds`.

*AllowlistFile.* `ListInv`: the list authorisation uses is that of the snapshot
rewrites start from, and an mtime `reload` finds unchanged means an unchanged
list, which is what lets it skip the read. `FileAsIntended`: no partial file, and no wallet gained or lost, through
failed writes and crashes, as long as writes start from the file's content.
`AdminSeesFile`: each answer shows the file, own writes within one mtime tick
included. `ListFollowsFile`: what stays in the file is in force for good, what
stays out is not.

*PlumberClient.* `LedgerFollowsMoney`: what plumber took for a call that returns is
in the ledger, a charge on whichever request it came and a settlement whose header
could be read, and no call is reported as rejected that was settled. The converse
does not hold: `x402-paid` may be reported of a payment that failed (section 6).
`PaysOnce`: no path through a renewed bearer, a payment and a lost answer costs
twice. `NoRetiredBearer`: a bearer given up after a 401 is sent no more.
`FetchEnds`: a failing handshake holds up none of the calls that share it.

*Registration.* `RegistrationInv`: unless somebody else edits the file, a field
the environment leaves open is in memory what it is on disk, so that a restart
changes nothing (`ConfigFollowsFile`); `resolveOwner` answers for the asset it was
asked about, although lookups for another one fill the same cache after it was
cleared (`OwnerOfAsset`). `ImplementsIdentity`: malformed and lost files never
make a process forget its asset.

*Delegation.* `AnswersHold`: what an "ok" says of each record was so at some moment
of the call, although part of it was read before the popup, part left out of the
transaction because of what was read, and part has landed. That all of it is so when
it is said is more than the code can promise (section 6).
`PairedDelegation`: the two records come and go in an order that never leaves
plumber's alone, whoever calls what meanwhile, unless the agent's was revoked.

*Pruner.* `DoneIsPruned`: after any history of stopped, aborted and repeated runs of
both modes, "Done" means that nothing of the other mode is left and that what is of
the mode itself (its agent, its section of `.env.example`, its scripts) is kept,
unless a run of the other mode or a torn write has taken it before. Two things it
does not ask, because the code does not do them (section 6): that the autonomous
section survives its own mode, and that a file in the operator's own words is not
overwritten. `ForetoldByDryRun`: a dry run ends as the real
run on the same tree does, although its steps do not see what the ones before
would have done.

## 4 Fairness

Nothing is assumed of clients, of the operator, or of the agent's own progress.
Assumed is what Node, the standards and the code provide:

- *ChatTurns*: timers fire (weak fairness of `BudgetFires`, `TxTimesOut`);
  `agent.stream` and `reader.cancel` settle; a stream that has ended or was
  aborted delivers its end; the text of a complete stream resolves. The text of
  an aborted stream need not (`TextAfterAbort` has no fairness), and the agent
  may hang in a chunk or a tool for ever: the time budget must get the turn out.
  That `agent.stream` itself settles is an assumption about the agent: `TurnEnds`
  says nothing of a call (`ws.ts:1065`) that hangs and ignores its signal. That the
  signal reaches it even then is `TurnHeld`, which needs no fairness.
- *Handshake*: timers and intervals fire and lookups return, however busy the
  loop is (strong fairness, because a busy loop disables them again and again);
  settled promises continue. `fetchAsset` has no timeout of its own: "lookups
  return" is an assumption about the RPC endpoint, recorded as a hazard.
- *WorkerLoop*: sleeps end, RPC calls return and do not fail a tick for ever, an
  aborted `generate` settles, shutdown goes on. A `generate` nobody aborts may
  take for ever: ticks have no time budget.
- *AllowlistFile*: synchronous code runs on; the poll timer fires between
  requests (strong fairness of `Poll`).
- *PlumberClient*: a request is answered or its connection fails.
- *Registration, Delegation, Pruner*: nothing. Their properties are safety
  properties: the toolkit, the wallet, the chain and the operator may stop at any
  point.

## 5 The proofs

All theorems hold for every value of the constants, from the assumption
`ConstantsAssumption` of the module (in `Registration` also `NoIdentity`) and
nothing else. Where such an assumption is not about the settings of the server it
says that a marker of the model (a missing file, no wallet, "waiting") is not one
of the things it stands in for.

**ChatTurns_proofs.** Any number of sessions, messages and transactions, any
tool limit. `TurnsInv`, the conjunction of the properties of the queue and of what they rest on,
is inductive (`TurnsInOrder`). The safety properties
alone are not: a turn ends by starting the next, so `SingleTurn` needs to know
that a queued message has not been handled and is queued once (`QueueWaits`); an
abort through the session hits the right turn only if an armed budget timer
belongs to a live turn (`TimerInTurn`); `TurnAnswered` needs that a breach goes
through "cancelling" (`BreachCancels`). The proof has one step per action; what
each kind of step does to the shared state is stated once, as a lemma, for
starting a turn, draining a queue and ending a turn. `TypeCorrect`,
`OneTurnAtATime`, `MessagesKept`, `AbortsArrive`, `AbortsJustified` and
`BreachesTold` follow from it. `PromisesReachable` and `OwnClientSigns` rest on
a second, small invariant about transactions; `QueueFrozen` (a shutdown starts
nothing) is an action property proved from the first.
`Refinement` is `Spec => Fifo!Spec`. The drain over
unusable messages is where it is interesting: one step takes several jobs off
the queue, and the abstract service has to allow exactly that.

**Handshake_proofs.** Any connections, wallets, allowlist, tier and connection
limit. The five invariants of the run are inductive together with two facts: a
connection not yet accepted has no past (`NewIsFresh`), and the cache, the answers
and the lookup in flight name only owners the chain has had (`OwnersKnown`), which
is what the tier check of `OnlyAdmitted` rests on when the asset is sold during the
await. `SignersOnly`, `NonceUsedOnce` and `FailureCloses` hold because `consume` and
the clearing of the pending challenge precede every await of the verification.
`Refinement` is `Spec => ImplementsAdmission`. It needs a second invariant,
`UnderWay`: a connection whose response waits for the owner is no member yet, only
accepted connections have a challenge or a response, and a call of `resolveOwner`
belongs to a response or to a member.
Most actions leave the phase of every connection alone, which a lemma says once;
the others move one connection by one step of `Admission`, and `Stop` those whose
challenge is unanswered, while the ones that wait for the owner are still decided
on after it.

**WorkerLoop_proofs.** Any goals, journal limit, threshold and numbers of unpauses
and crashes. The lemmas first say which files the helpers of `state.ts` write, one
after the other (`SetPausedFact`, `SuccessFact`, `FailureFact`), and what the last
one and, for a crash, those before it have in common with the file they start from
(`Cut`). The invariant ties the streak in the file to the failures counted, and says
that a tick under way and an agent that is not paused still have a failure to spare
(`StreakFits`): without it a failure could follow the one that should have paused.
`CallsFit` does the same for the call of the model a tick has left when the pause
comes; `JournalFits` reads the journal of the file alone, so that the ring buffer
dropping its first entry keeps it. `FailuresAreBounded`, `PausesHold`, `JournalTells`
and `NothingLost` follow.

**AllowlistFile_proofs.** Any wallets, environment list and number of writes,
with the operator acting between any two system calls. The invariant adds to
the types that the mtimes the server knows are not ahead of the file's, and behind
a malformed one (`MtimeBehind`), that an unchanged mtime of a well-formed file
means an unchanged list (`MtimeTells`, the fact `reload` relies on), and that the
list in force is the snapshot's (`ListKept`). Together they are `ListInv`, which `ListInvariant` proves; `ListIsSnapshot`,
`AnswersFromFile`, `IntendedHolds` follow.

**PlumberClient_proofs.** Any number of concurrent calls and bearers. The
invariant adds that bearers come in order, so that a renewed one is never a
retired one (`BearersInOrder`), and that nothing is settled or reported before a
call's end (`MoneyAtTheEnd`). `LedgerHolds`, `PaidOnce` and `RetiredStaysRetired`
follow.

**Registration_proofs.** Any assets, tokens and calls under way, both modes.
`RegistrationInv` is inductive as it stands (`IdentityKept`): a write of the file
takes the field it does not change from the file, and what the file leaves open
the process had left open too. `Refinement` is `Spec => ImplementsIdentity`: each
action starts or ends the process, replaces the asset by one that is not `None`,
or leaves it alone; that the asset of a call that has minted is none other than
the one it brings needs the invariant.

**Delegation_proofs.** Any number of calls and assets. The properties are not
inductive: they speak of answers, and the answers rest on reads. Two facts about
stale reads carry the proof: what a call has seen of a record was so at some moment
of the call (`Saw`), and the agent's own record, once seen, can only have gone by a
revocation (`SelfSeen`). With the registry program's
refusal to create a record twice they give `AnswersAreTrue` and
`DelegatedInPairs`.

**Pruner_proofs.** Any marker for missing files, any files the operator rewords
and checks out. The invariant follows a run through its plan: what is behind the
current step is settled, what is ahead has the verdict it had when the run began,
and every file holds a text the plans know how to treat (`TypeOK`, whose theorem is
`TypeCorrect`). What is of the run's own mode is kept from step to step unless it is
spoilt (`Kept`): a deletion or a write spoils for the other mode only, a write that
stops halfway for both. The steps of a plan are
settled for good because no two of them share a file, except the two patches of
`websocket.ts`, which do not see each other's passages; a file that is open for
writing counts as what will be in it. `DoneTellsPruned` and `DryRunForetells`
follow, the second because the verdict of a step depends on its own file only.
`RerunWritesNothing` says more than either: once a run is done, its plan has
nothing left to do. The assumption that `Missing` is not a text is that of a file
that does not exist.

**What liveness rests on.** A liveness property cannot be proved here, but the
invariant without which it could not hold can: that whatever waits has something
that will end its wait, in every state and for every value of the constants.
`NoTurnEscapes` (`TurnHeld`): a live turn has its budget timer armed or has been
aborted, and until then the session knows its controller, which is what the timer
aborts; it needs `TurnsInv`, because a turn begins in the step that ends another.
`NobodyForgotten` (`Attended`): an undecided connection has its handshake timer, or
a response that waits for the owner, and every wait for the owner is for a lookup
under way. `NobodyWaitsAlone` (`WaitersServed`): the same of the bearer handshake
that calls share. `SignalsHeeded` (`SignalHeeded`): after a signal the loop is not
asleep, nor in a tick that was not told. What fairness adds to them (section 4),
that timers fire and lookups return, is the part TLC checks.

**Model-checked only.** Liveness (`TurnEnds`, `TxSettles`, `MessageServed`,
`HandshakeEnds`, `NoncesForgotten`, `WorkReached`, `ShutdownEnds`,
`ListFollowsFile`, `FetchEnds`), which is outside the reach of the prover's
temporal reasoning (fairness and ENABLED). Every other property of a run that
passes is a theorem. `EnvWins` and `ClosedSessionHasNoTx` are false of the code.

## 6 Where code and documentation disagree

Each is a run that TLC must find violated; `PROJECT.json` quotes the lines.

- `turns_orphan` (`ClosedSessionHasNoTx`): a session that closes with messages
  queued goes on working through them: the drain starts the turn of a queued
  message after the disconnect, and a transaction its tools open waits for a client
  that has left.
- `registration_env` (`EnvWins`): the environment is said to win always; after a
  registration or a launch, memory takes the values of the state file over it.

Seen while modelling, without a run:

- A turn cut short by a disconnect or shutdown waits for `stream.text`, which the
  comment at `ws.ts:1216` says hangs, because the check at 1217 looks at a field
  that `Session.cleanup` has cleared.
- A guest who signs in while the owner lookup fails takes the rate limiter's
  exemption from the connected owner (`ws.ts:845`, against 842-844).
- A signal during bootstrap does not see the loop that bootstrap starts a moment
  later; the process exits in mid tick (`server/src/index.ts:76`, against 65-68).
- An add or remove within the poll interval of a hand edit overwrites the edit
  from the older snapshot (`shared/allowlist-file.ts:142`, against `ws.ts:1517`).
- A 401 to the retry leaves the rejected bearer in the cache until another call
  meets it (`shared/plumber-client.ts:590`, against 240-244); an x402 settlement
  whose answer is lost is not reported (`:628`, against 45-46).
- `x402-paid` ("we just paid", `shared/plumber-client.ts:58`) is emitted for every
  X-PAYMENT-RESPONSE that can be read, without a look at its field `success`
  (declared at 172; 630-655); a header that cannot be read leaves a settlement
  unreported (656).
- The "ok" of `delegate-to-nori` may no longer be true when it is given: nothing is
  read again after line 171, so a record that was there and was left out of the
  transaction may be revoked while the wallet is asked. The stronger form of
  `AnswersHold` (each record is as the answer says when it is given) is violated in
  the model by just this.
- The worker's failed context gathering is outside the streak, against
  `server/src/worker-loop.ts:78-79`.
- The answer of both delegation tools names `config.AGENT_ASSET_ADDRESS` as it is
  after the awaits, which need not be the asset the transaction was about
  (`delegate-to-nori.ts:259`, `revoke-delegate.ts:195`).
- On this commit every run of the pruning script that nobody helps aborts at the
  `buildSystemPrompt` patch (`bootstrap.ts:244`, `:289`: the call now reads
  `normalizedPersona`), after it has deleted and rewritten files. The rewrites do
  not look whether a file was edited (`:334`, against the header's 21-23). With a
  stripped section goes everything after it (`:391`): in an `.env.example` that has
  the sections of `.env.advanced.example`, pruning to autonomous mode cuts off the
  autonomous one too (against 16). A torn `.env.example` passes for stripped.
- A run stopped after its deletions, or a fork pruned before, followed by a run of the
  other mode says "Done" with both agents gone, or without the sections and scripts
  of its own mode (against 14-18). This is what `spoilt` excuses in `DoneIsPruned`.

## 7 What is not modelled

- *Per-wallet rate limiter*: planned, section 8.
- *Configuration* beyond the two identity fields: validation at start, without
  later change.
- *Agent definition, prompts, tick prompt, dashboard, agent configuration
  reader, umi, limits, banner*: no state, or formatting, or I/O at start.
- *list-delegates*: reads the chain and formats what it has read.
- *Scripts* other than `bootstrap.ts`: interactive set-up, diagnostics and smoke
  tests of the environment.
- Inside modelled parts: message texts and history, debug events, clocks (a time
  limit passes at any moment), the per-session message limiter, transaction
  assembly.

## 8 Plan

The order was: turns (the core), the handshake in front of them, the worker
loop, then the parts with hazards of their own: allowlist, plumber client,
registration, delegation, the pruning script. What remains, in order:

1. **WalletRateLimit**: the sliding window with LRU eviction, against a reference
   limiter that forgets nothing; with it the limiter's place in `handleMessage`
   and the exemption set by the handshake. Theorem: no wallet passes more than
   `max` events in a window unless it was evicted.
2. **Composition**: the allowlist of `Handshake` as the one `AllowlistFile`
   serves, and turns behind promotion.
3. **An abstract circuit breaker** for `WorkerLoop`: an agent that counts failures
   and pauses itself, to which the writes of the state file and the crashes
   between them are a refinement.
