# Specifications of mbm-core

TLA+ models, model-checking configurations and machine-checked proofs for the
two halves of this repository: the memory-mediated authorization runtime
(`src/benchmarks/coupled_memory/`) and the pipeline that regenerates every
published number from it and from committed logs (`src/reproduce.mjs`,
`src/package.json`, `src/scripts/`, `src/tools/`).

Agents claim messages from a queue, read shared memory *as of* the message they
claimed, and act; the runtime decides what an agent is served, what the served
memory permits it to do, and that each authorized action happens at most once.
The pipeline chains some sixty scripts over files: some compute, some judge,
and its exit code is the claim that what is on disk follows from the inputs.

Paths below are relative to `src/benchmarks/coupled_memory/` unless they start
with `src/`.

## 1. The system

| Component | Code | State it keeps | Operations |
|---|---|---|---|
| Shared store and coherent view | `runtime.mjs`, `causal.mjs` | messages and edges, memory records with `write_seq`, per-key security versions | `sendMessage`, `send`, `writeMemory`, `supersede`/`expire`/`revoke`, `resolveConflict`, `delegate`, `evaluateSecureGate`, `_coherentView`, `_computeView` |
| Authorization kernel | `runtime.mjs`, `control_plane.mjs` | `prepared_views`, read tokens, `action_outbox`, the guard `_inExec` | `queryMemory`, `executeAuthorizedAction`, `commitMemoryUse`, settling of promises |
| Execution contexts, leases, queue | `runtime.mjs`, `control_plane.mjs` | `contexts`, `leases`, `attachedElsewhere` in memory; `execution_contexts`, `context_anchor`, the queue rows | `claim`, `claimSpecific`, `leaseFor`, `attachContextInput`, `composeSend`, `writeMemory` of a context, `completeContext`, restart |
| Run clock | `runtime.mjs` 991-1008 | `runs.next_sequence`, `kernel.run_clock` | allocate, advance |
| Causal closure | `causal.mjs` | none (a traversal of signed edges) | `verifiedCausalClosure`, strict and lenient |
| Authority logs | `runtime.mjs`, `control_plane.mjs` | lifecycle, resolution and membership hash chains, their heads and anchors | append, restore on start |
| Read audit and replay | `runtime.mjs` 2470-2671 | counters, read manifests, snapshotted certificates | record a read, replay it |
| Principals, sessions, roles | `control_plane.mjs` | a static registry, session tokens | authenticate, require a role |
| Standalone gate | `src/benchmarks/external/` | none | the per-record gate as a library |
| Legacy runtime, policy comparator | `src/benchmarks/` | the same tables without the guarantees | baselines of the ablations |
| Reproduction pipeline | `src/reproduce.mjs`, `src/package.json`, `src/scripts/`, `src/tools/` | files on disk: logs, derived results, tables, macros, figures, hash manifests, reports; the exit code | the driver's full, values, check and secure runs; any script by hand |
| Benchmarks | `src/benchmarks/` | result logs | drivers of live models, offline experiments |

**How they interact.** One Node process holds the runtime; its JavaScript runs
to completion and its SQLite calls are synchronous, so no two kernel calls
overlap except where the code hands control away: the destination policy (a
callback *inside* the authorization transaction, `runtime.mjs` 2376-2379), the
dispatcher (a callback *after* the commit, 2419), a promise the dispatcher
returned (2424-2429), and a crash. The queue is shared with other processes
through conditional updates. A `ROLLBACK` restores the tables, never the
control plane's memory.

**What is hard.** A view is read, the agent thinks, and everything may move
before it acts. Conflicting versions of one decision are written on branches
that cannot see each other; every rule that drops a version can drop its
restriction with it. Callbacks may call the kernel again. Views and their
tokens expire separately, replay state may be set back from outside, promises
settle late, and the process may die between any two committed steps.
An append is several statements, any of which may be the last. In the pipeline
the scripts are chained by hand, hand each other files, treat a missing file as
a reason to skip, to stand in a number or to pass, and judge reports that an
earlier run may have left. `PROJECT.json` lists each hazard at its line, with
the properties about it.

**What makes each component correct.**
- *Store and view*: one version per decision; the capability respects every
  exposed ceiling; restrictions are lost only by authority; a resolution binds
  all branches; what a message is served is settled once its ancestry is stored.
- *Kernel*: read and use look like one instant; at most one dispatch per view
  and action, one action per view; the one-shot records agree; the outbox
  never claims more than happened; every grant settles unless a crash comes.
- *Contexts*: integrity never rises; the input frontier of a context is
  complete; one lease per lock; a restart restores no fresher authority than
  was lost.
- *Logs*: what was appended is never lost or reordered, and a log that cannot
  be trusted refuses reads.
- *Clock*: no two events of a run share a position.
- *Closure*: no read is answered before its whole ancestry is there, so a late
  parent never changes an answer already given.
- *Audit*: an audited read replays to the same answer.
- *Pipeline*: a green run is a fixpoint of its own scripts and would be green
  again; what it publishes shows the inputs that are there; figures have the
  hashes on record; a red run has a cause.

## 2. The modules

### SharedMemory
The store and the read path. A message or record is a member of a set; its
signed, immutable fields are the constants `Msg` and `Rec`, and only its place
in the run's sequence is state.

| State | Code |
|---|---|
| `clock` | the larger of `runs.next_sequence` and `kernel.run_clock`, which is what `_allocSequence` uses |
| `msgSeq`, `writeSeq` | a message's `sequence`, a record's `write_seq`; 0 while there is no row |
| `retired` | memory ids of the lifecycle log |
| `resolutions` | the `merge_resolutions` chain, in order |
| `delegations` | delegation certificates |
| `keyVersion` | `kernel.security_versions` |
| `policy` | `ControlPlane.policyVersion` |

Operators follow the read path: `Readers` is `verifiedCausalClosure`, which lets
a message read only once its whole ancestry is stored, in one run and in order;
`GateReason` is `evaluateSecureGate` with its
checks in their order; `Rivals`, `Dominated`, `Maximal`, `AdoptWinners` and
`CoherentReason` are `_coherentView`; `CertStale`, `CertCeilings`, `Caps`,
`Ceilings` and `Capability` are `_computeView`; `ViewRoot` is the hash of the
view as a record of what goes into it. Actions are the mutators, one each:
`SendMessage` (both `sendMessage` and `send`), `WriteMemory`, `Retire`,
`ResolveConflict`, `Delegate`, `Redeploy`.

Abstractions: receipts and hashes are left out, since no action alters a record
after its write; appends are atomic, since the JavaScript that appends runs to
completion (a crash inside an append is the subject of AuthorityLogs, below);
what following parents reaches is a constant (`closure`), since signed edges never
change. Whether the ancestors are stored is not: `attestSend` takes a missing
parent for untrusted and stores the message all the same, so `SendMessage` asks
for no parent; it checks the edges to those that are stored. The parent may come
later with a sequence of its own, and until it does every read of the message is
refused. What is said of reads is said of `Readers`. Every stored record is a candidate, which is what `queryMemory`
asks for. `resolveConflict` may be given rejected ids that overlap the accepted
one; the verdicts are the same as without the overlap, so the certificate is
written without it.

### AuthorizationKernel
Extends SharedMemory with a view's life: `QueryMemory`, by a message of `Readers`;
`BeginExecute`, which
is `executeAuthorizedAction` up to the destination policy; `FinishExecute`,
from its return to the commit or the rollback; `CallDispatcher`;
`DispatcherReturns`; `Settle`; and around them `Attach`, `Send`, `Complete`,
`TakeOver`, `GrowOld`, `ExpireView`, `ResetReplayState` and `Crash`. The call
is split exactly where the code hands control away, and nowhere else.

| State | Code |
|---|---|
| `ctx` / `durable` | the control plane's contexts in memory / their rows |
| `lockGen` | `lock_generation` of the claimed message |
| `viewState`, `binding` | `prepared_views` and what the row and its token bind |
| `tokenUsed`, `age` | the token's consumed flag; which of the two lifetimes has passed |
| `outbox` | `action_outbox.status` per idempotency key |
| `txn` | the open call: its phase, view, action, and what `ROLLBACK` restores |
| `stack`, `inflight` | dispatcher calls that have not returned; promises that have not settled |
| `calls` | history: how often the dispatcher was handed each (view, action) |

`Callable` says who may call the kernel when. Inside a transaction only the
policy of an external tool runs, and `_assertNotInExec` refuses there the calls
that move an authority log or write a record with a key or a ceiling; the calls
that remain are `PolicyMay`. Messages, and records with neither key nor ceiling,
written there are left out: `PlainCallsUnseen` (section 4) proves that the open
call decides the same with them and without. A lock is taken over only by `claimNextMessage` of another process
(ExecutionContexts has it in full), and replay state is set back by nothing in
this code; the reset is modelled because the outbox's unique key is there
against it. A call refused with nothing changed is a
stuttering step.

### AuthorizedUse
The abstract specification of read-to-use: an offer remembers the authority of
a context at its read; it becomes a grant only while the context has exactly
that authority; a grant spends the offer, no offer grants one action twice, a
granted action is performed at most once. AuthorizationKernel implements it
under the mapping `ReadToUse` (authority is the current `ViewRoot` of each
context, granted is the outbox's keys, performed is the dispatcher's history).

### ExecutionContexts
What a context's outputs are bound to. A worker claims a message, attaches
further contexts of its own, sends, writes and closes. The control plane's
memory is the authority and the tables are a mirror for a restart, so the module
has both, and every event that parts them.

| State | Code |
|---|---|
| `ctx`, `lease`, `frozen` | the control plane's `contexts`, `leases` and `attachedElsewhere`, all in memory |
| `row` | `execution_contexts` with its `execution_inputs` |
| `stored`, `label`, `parents` | `messages`: rows, signed integrity, signed parents |
| `lost` | ids composed for a row that was never committed |
| `queue` | `message_queue`: owner and `lock_generation` |
| `records` | `shared_memory`: source, `input_frontier`, integrity |
| `policy` | the tables a rollback of the open `executeAuthorizedAction` restores |
| `consumed`, `carries`, `attached`, `closed` | history: what callers were told, and what content has flowed where |
| `setBack`, `torn`, `unlocked` | history: contexts whose row, and messages whose lock, a rollback set back; contexts a restart restored from such a row |

Each worker call is an action: `Claim`, `Attach`, `Send`, `Write`, `Close`, and
the operator's `SendMessage`. `Attach` and `Close` move the memory and then
persist, so each has a variant whose statement fails (`saved` is FALSE);
`ClaimCutShort` is a claim whose lock is committed and whose context is not;
`SendRefused` is a send that fails after `composeSend` has moved the context.
Around them, `TakeOver` is the inherited `claimNextMessage` of another process,
which updates the row it selected without asking again whether it is pending;
`BeginPolicy`, `CommitPolicy` and `RollbackPolicy` are a destination policy that
calls the runtime from inside the authorization transaction; `Crash` restarts
from the rows.

Abstractions: one run; every principal may serve every queue; every lease has
its context; sequences are left out (SharedMemory has them); a context's
version, MAC and anchor only detect tables altered from outside. Which content
flows is history and not code: `consumed` grows only when the call that consumed
returned.

### InformationFlow
What the contexts promise of information, with none of their machinery: items
carry content, a holder takes content in (`Open`, `Merge`) and gives it on
(`Release`, `Note`) trusted no more than anything it took in; a note binds items
that carry it all; a closed holder gives nothing on (`Silence`); an item may be
spoilt before it comes out (`Spoil`) or withdrawn after (`Withdraw`), and what was
taken in stays in. `Flow`, at the end of ExecutionContexts, is the mapping: items
are messages, notes are records, a holder is a context, and it holds what its
caller was told it took in, with all that came along. `FlowIsControlled` says that
every step of ExecutionContexts is one of these or none, a failed statement, a
takeover and a restart being none.

### AuthorityLogs
What a call does to the control plane's memory and to the tables, statement by
statement, for one key of one run. A call runs to completion, so nothing comes
between two of its statements but failure: an action has a parameter `reached`,
how many of its statements took effect, and `dies`, whether the process ended
there and was started again.

| State | Code |
|---|---|
| `head`, `members`, `policy` | the control plane's chain heads, its membership Map, `policyVersion`; lost with the process |
| `rows`, `anchor` | per chain, `memory_lifecycle`, `merge_resolutions` or the membership ledger, and its anchor row |
| `stored`, `version` | authority-bearing rows of `shared_memory`; the key's security version |
| `counted`, `decisions`, `manifests` | `audit_anchor`, `memory_access_decisions`, `memory_reads` |
| `txn` | the open `executeAuthorizedAction`: what `ROLLBACK` brings back |
| `acked`, `returned` | history: appends that returned; reads that were handed out |

`AppendEvent` (retirements and resolutions) moves the head in memory, then
inserts the row, then the anchor, then the version, each committed by itself;
`WriteMember` puts row, ledger and anchor in one transaction and moves the head
after it; `Read` records decisions, counter and manifest, inside or outside a
transaction. `Restore` is the constructor on an existing store. A chained MAC is
the sequence of the events it covers. Rows altered from outside are left out:
no action of the code alters one, and the chain is there to detect it.
A read verifies the lifecycle log always and the resolution log when a record of
the key is admitted (`Consults`), as the coherent view asks for the certificate
only then. `Decide` is the verdict about the rival versions of the one key;
SharedMemory has the whole gate.

### ReproductionScripts and ReproductionPipeline
ReproductionScripts says of each script what it needs, what it computes from
what, which file it judges for which guarantee, which recorded hashes it
compares, which files it fails without, and it spells out the chains of `package.json` that
`src/reproduce.mjs` starts. It has no state. ReproductionPipeline is the
machine, for any scripts and chains.

| State | Code |
|---|---|
| `disk` | what each file shows: a set of `<<input, version>>`, version 0 for a number that stands in for a missing file; `{}` when there is no file |
| `broken` | which version of an input breaks which guarantee |
| `run` | the mode of the driver and the script of the chain it is at |
| `last` | mode and exit of the last run |
| `touched` | whether somebody else wrote during the run or since |

`Start` picks a mode, `Step` executes one script (outputs as of the files that
are there, then its exit code, which ends the chain unless it is 0). Around
them: `Edit` (a new version of the code or of a log, which may break a
guarantee), `Replace` (an output from another checkout), `RunAlone` (a script
that no chain of the driver runs) and `Interrupt`.

Abstractions: a file's content is which versions of which inputs went into it;
timestamps (`generated_at`), formatting and arithmetic are left out, so "same
content" means computed from the same versions. Scripts that only judge the
code are one step (`Regressions`); gates of one script are one step as in the
code, where the script runs all of them and then exits. A proof of concept is a
report and an exit code. Constant outputs (`table1`-`table3`, hand-drawn
supplements) are left out. The hash of a figure is taken when it is saved
(`fig8.entry`) and written to the manifest at the end of the invocation
(`fig8.sha`), as in `build_figures.py`. Identity leaks can be in a result log
and in the audit's own report, and nowhere else.

### ReproductionFlow
What the scripts and chains alone say of a run nobody disturbs: a dataflow
analysis along each chain. A labelling gives each position of a chain a set of
files about which something is known there, and a condition says that it
follows script by script and that enough is known at the end. `InOrder`: nothing
read is rewritten. `HashesComeLast`: nor what was compared. `Vouches`: a report
a gate judged stays as good, also where it is written anew. `Refreshes`: what is
published is computed again on every way from a replayed input. `Measures`: what
a number could stand in for exists before it is used. `Exposes`: each break
reaches a gate. `MCReproductionPipeline` computes the labellings of the
repository's chains; `ReproductionFlow_proofs` proves what each condition implies.

## 3. The runs

`CHECK_DEADLOCK FALSE` is in every configuration: the system is driven by its
callers and may stop when they do, and a bounded instance stops at its bounds.

| Run | Question | Result |
|---|---|---|
| `SharedMemory` | three rival versions and one of another task, on two branches that merge, one of them with a message that may be stored before its parent, with supersession, adoption, one retirement, one resolution | all seven properties hold |
| `SharedMemoryDelegation` | a version of another task is delegated, two policies, two resolutions, ingress sequences behind the clock | no restriction is lost |
| `ReadToUse` | one view, two actions of which one is external, and all that may happen between read and use, with a crash and a restart | the kernel implements AuthorizedUse; effects stay within the ceilings |
| `Dispatch` | two views, two actions, re-entrant dispatchers, late promises, a lock takeover, a crash, a reset | at most once; outbox truthful; records agree |
| `DispatchLiveness` | no crashes | every grant settles |
| `ContextsPolicy` | three contexts of one worker, messages sent on, a policy that may roll back | nothing is laundered, what an attach carried is all its context ever takes in, and InformationFlow is implemented |
| `ContextsFaults` | two workers and an operator; a failed statement, a refused send, two takeovers, a claim cut short, a restart | what callers were told binds the restored contexts; a lost lock stays lost |
| `AuthorityLogs` | two rival records, two policies; any statement of a write, retirement, resolution or read fails or is the last; transactions that roll back; restarts | the ledger never parts from the store, nothing acknowledged is lost, the audit says what happened |
| `ReproductionPipeline` | two runs of any modes from a fresh clone, two events of other people at any point; and whether the chains meet the conditions of ReproductionFlow (`ChainsSuffice`) | green means regenerated, current, on record and repeatable; they do |
| `RunIsolation`, `FreezeAcrossRestart`, `RedHasACause` | three statements of comments and README | each is violated: section 5 |

**Bounds.** `MaxSkip` and `MaxLag` bound how far an ingress sequence runs ahead
of or behind the clock: one is enough for every order of a message and a write,
and a lag of two lets a late parent come in before its child, which is when the
child can read.
`MaxRetired`, `MaxDelegations` and `MaxResolutions` bound the logs: the rules
look at membership and at the last certificate of a key, so one or two entries
distinguish every case, and the second resolution of the delegation run covers
a certificate replaced by another. `MaxKeyVersion` bounds a counter that is only
compared for equality. `MaxVersion = 2` lets a context move once after a read;
`MaxTakeovers`, `MaxResets` and `MaxCrashes` of one let each fault occur at
every point, and what is proved (section 4) holds for any number of them. Three
rival versions are needed for a maximal set that survives a domination; two
branches and a merge for versions that become visible only together; two views
and two actions for one dispatch inside another. `ReadToUse` has one policy
version; the same instance with two, so that a restart may change it, takes
longer than a run should and was checked once.

In the context runs `MaxFaults`, `MaxRefused`, `MaxPolicies`, `MaxCrashes` and
`MaxRecords` of one put each event at every point, and two takeovers let a lock
go to another worker and back. Three contexts (`ContextsPolicy`) are enough for
an attach of an attach, and two (`ContextsFaults`) for every pair that a fault can
set apart; two root messages, trusted and untrusted, with a third that is sent,
for content that passes through a message. The ids of contexts are interchangeable
(`AnyContext`). `ContextsPolicy` writes no record, so that it ends in time;
`FlowIsControlled` was checked once on the instance of `ContextsFaults` as well,
which does. The two runs keep rollbacks and crashes apart, since a crash after a
rollback can break them (section 5). The proofs, which have
no bounds, combine them; what they claim then was checked once on instances of
two contexts with a policy, a crash and either a failed statement or a takeover.

In `AuthorityLogs` two appends are enough for one to follow a lost one, two reads
for a manifest that is missing between counted ones, and one fault at every
statement shows what each leaves behind; what each property says holds for any
number of faults (section 4). The two records and the two policies are
interchangeable (symmetry). Larger instances were checked as well: three
appends, and two faults.

In `ReproductionPipeline` two events allow an edit and its repair, or an edit
and a script by hand; two runs allow a run that leaves files for the next.
`Touchable` names one figure drawn by each invocation. The five `Breaks` are
one per kind of judge: a guarantee tested on the code and judged on a report
(`equivalence`), one only tested on the code (`dispatch`), one judged on an
analysis that is recomputed (`selection`), one on an analysis no chain
recomputes (`controls`), and the identity audit. Three runs were checked as well.

The instance shows what the chains have: `Published`, `Replayed`, `HandTyped`
and `Regenerated` name the outputs, inputs, stand-ins and guarantees for which a
property is claimed, and `MCReproductionPipeline` lists them. What is left out
of those sets does go stale in this repository; section 5 says which.

**Fairness.** Only `DispatchLiveness` assumes any. The destination policy and
the dispatcher are synchronous functions that return (weak fairness of
`FinishExecute` and `CallDispatcher`, which nothing can disable while they are
due); calls of the kernel from inside a dispatcher put other returns first, and
a promise's reaction runs only on an empty stack, so `DispatcherReturns` and
`Settle` need strong fairness: the event loop runs a ready reaction eventually,
however often the stack fills in between. The property is not claimed with
crashes, since no code reads the outbox on start.

## 4. The proofs

`SharedMemory_proofs`: `TypeCorrect` ([]TypeOK), `OneVersion`
([]OneVersionServed), `WithinCeilings` ([]ViewWithinCeilings), `ResolutionsBind`
([]ResolutionGoverns), `RestrictionsStand` ([]RestrictionsHold),
`ThePastIsSettled` (PastIsSettled) and `NoWriteWidens` (WritesNeverWiden).
The four about a read need no induction: they follow from how the view is
computed in any state of the right type, by cases on the rule that let a record
in (a certificate accepts one record; a maximal set of one; adoption picks one),
and, for the ceilings, from the fact that a served record caps or its key's
certificate does. `RestrictionsStand` has to find the version that caps instead
of a dominated one. Domination may go on for several versions, so it takes, of
the rivals that are at least as trusted and have as much behind them, one with
the most behind it (`NotBehind`, the strict subset order of a finite set).
Nothing dominates that one (`MaximalAbove`), and a maximal version is served, or
is withheld as part of a conflict and caps all the same, or loses to an adopted
one that is at least as trusted (`MaximalCaps`). It needs a version to be at
least as trusted as those it dominates; a certificate, which asks for no trust,
is the exception the property names.
The last two theorems are about steps, and false in some states of the right
type: a record stamped with a sequence behind a message that exists would appear
in its past. `ClockIsAhead` excludes it: the clock of a run is ahead of every
message of the run. `ThePastIsSettled` claims nothing of a message with a missing
parent, which is served nothing and may be served something when the parent
comes; from the moment it can read, it keeps being able to and is served the same,
because its ancestors are all stored and their sequences never change.

`AuthorizationKernel_proofs`: `KernelTypeCorrect`, `KernelCorrect` and, from it,
`AtMostOneDispatch`, `OneAuthorization`, `OneShotAgreement`,
`OutboxIsTruthful`. None of these four is inductive alone. `KernelInv` adds what
they need: while a policy runs it has done no more to a view than read a new one
(`PolicyOnlyReads`, so a rollback cannot undo a consumed view); between commit
and dispatch the open use has its row and no call (`OpenUseUncalled`); the
innermost call's use is on the stack once (`StackDistinct`); an outbox row of a
view that was never reset means its token is used (`RowMeansConsumed`); a view
with a row binds something (`RowsBind`). The proof has one lemma per action.
KernelSpec does not imply the specification of the memory, since a rollback and
a crash may take back what SharedMemory alone only adds. `KernelReads` and
`KernelPast` prove the guarantees of the memory there anew, from
`KernelMovesMemory` (what a kernel step can do to the store) and `ClockIsAhead`.
Nor does anything a kernel step does stop a message from reading
(`KernelReadersStay`), so the anchor of a view can read as long as the view is
there (`AnchorsReadable`).
`PlainCallsUnseen` justifies an abstraction: the messages and plain records a
policy may store inside the transaction, which the model leaves out, change no
verdict of the open call.

`ReadToUse_proofs`: `KernelImplementsAuthorizedUse` (KernelSpec =>
ReadToUseIsAtomic) and `EffectsWithinCeilings` (KernelSpec =>
EffectWithinCeilings). The refinement maps each action to one of AuthorizedUse:
`QueryMemory` to `Offer`, `ExpireView` and a rollback to `Withdraw`, a commit to
`Grant`, `CallDispatcher` to `Perform`, `ResetReplayState` to `Reopen`, all
others to `WorldMoves`. Two facts carry it: the read path depends on nothing but
the store (the frame lemmas up to `ViewRootFrame`), so an action that leaves the
store alone leaves every context's authority alone; and `KernelInv`, which says
what a rollback can unmake and that an open use was never performed. The second
theorem adds one invariant, that an agent was given only what its view exposes
(`GivenWasExposed`), and `ServedIsMet` of `SharedMemory_proofs`.

`ExecutionContexts_proofs`: `ContextTypeCorrect`, `ContextInvariant`, and from
it `NothingIsLaundered`, `RecordsBindTheirInputs`, `ConsumedIsBound`,
`ClosedStaysSilent` and `AttachesStayCurrent`; then `LeasesFollowLocks` and
`StaleLeasesStayStale`. The invariant has one part per place a binding can be
lost: labels bound what messages carry, contexts took in, records bind and a
rollback would bring back (`FlowIsBounded`); a context in memory names all it
consumed (`MemoryKeeps`), and so does its row (`RowsKeep`); what was attached is
frozen (`FrozenHolds`). `FlowIsBounded` alone is not inductive: a label is
checked against a context's inputs, so it needs that what was consumed is among
them. A context is claimed once, its lease lives no longer than it, and once closed
it stays closed (`ClaimedOnce`); that part needs nothing else, and `FrozenHolds`
needs only it.

No theorem assumes anything of the faults: failures, takeovers, rollbacks and
crashes occur in any number and order. Where a sequence of them does break a
promise, the theorem names the states in which it has, by the history. A
rollback of a destination policy sets back the row of a context that moved inside
(`setBack`), until the row is saved again; a crash before that restores the
context from it (`torn`), with less than its caller was told. The invariant keeps
the rows complete outside `setBack`, so only such a crash can break `FlowIsBounded`,
`MemoryKeeps` and `RowsKeep`: `NothingIsLaundered`, `RecordsBindTheirInputs` and
`ConsumedIsBound` hold in every state with `torn = {}`, and a torn
context can break them (section 5). `ClosedStaysSilent` is about every closed context that is
not torn itself. `AttachesStayCurrent` holds until the first crash (run
`FreezeAcrossRestart`). `LocksMoveOn` and `StaleStaysStale` except the locks that a
rollback set back (`unlocked`), since that sets `lock_generation` back too.

`InformationFlow_proofs`: `FlowControlled` (ContextSpec /\ [](torn = {}) =>
FlowIsControlled), one lemma per action. What the steps need of the state is
in `ActiveHolds`: a context that can act was not closed, and its integrity is
bounded by all it holds, not only by the messages it took in; this is
`ContextInv`, with a part for each place a binding can be lost. A message that is
new changes nothing of what is held (`NewMessageIsNotHeld`), and one more
invariant, that a rollback brings back no more than there is by then
(`RollbackTakesBack`), makes a rollback a withdrawal.

`AuthorityLogs_proofs`: every property of the run, `LogsTypeCorrect`,
`MembershipHolds`, `NothingAcknowledgedIsLost`, `FaultlessIsReadable`,
`ReplayHolds`, `AuditHoldsUp` and `EpochMoves`, all from
`LogsInvariant`. The properties speak of the rows; the next row comes from the
head in memory, and the head after a restart from the anchor. So the invariant
says how far the three may part: for the ledger not at all between calls; for the
append logs not at all as long as nothing failed; and what an open transaction
would bring back is as good as what is there, because no log moves inside one
(`NotInExec`). For the audit, a read's decisions, count and manifest belong to
one id, and ids are not used again, also when a rollback takes the rows away.

`ReproductionPipeline_proofs`: `PipelineTypeCorrect`; `FixpointFromOrder`, that
in any pipeline whose chains are in order (`InOrder`) an undisturbed green run
is a fixpoint ([]GreenIsFixpoint); and `ManifestHolds`, that in any pipeline
whose audited modes end with the comparison of all hashes (`AuditIsLast`), a
green run leaves every figure with its recorded hash ([]GreenMatchesManifest),
whatever happened during the run. The invariant behind the first says that every
script a run is past (`Past`) would write what it wrote (`SettledSoFar`).

`ReproductionFlow_proofs`: that the other conditions of ReproductionFlow are
enough, in any pipeline, for any number of runs, edits and interrupts:
`GatesStayGreen` ([]GreenStaysGreen, from `InOrder`, `HashesComeLast` and
`Vouches`), `PublicationsCurrent` ([]PublishedIsCurrent, from `Refreshes`),
`NumbersMeasured` ([]NoHandTypedNumbers, from `Measures`) and `FullRunsSound`
([]GreenFullIsSound, from `Exposes`). Each invariant reads a labelling as a claim
about the disk at the position of the run; `CleanKept`, `StaysThere` and
`ShowsKept` say that a script that passes takes one claim to the next, and
`UndisturbedStep` that nothing else happens to a run nobody disturbs. What a
labelling starts from has to hold whoever wrote before the run: inputs show
themselves (`InputsShowThemselves`), the audit quotes only leaks
(`QuotesAreLeaks`), a stand-in never breaks anything (`BrokenByEdits`), and what
no script carries into a file never gets there (`KeptApart`).

So what is particular to this repository is one check that needs no execution:
`ChainsSuffice` computes the labellings of its four chains and evaluates the
conditions, and `AuditIsLast` is an assumption of `MCReproductionPipeline`. With
the theorems, the six properties then hold for any bound, and for every break a
gate of a full run is there to find (`AllBreaks`), where the run has five. The
run still checks the properties themselves, on disks it reaches step by step.

Proved for every value of the constants; the assumptions are the modules' own:
`SignedFields`, `Bounds`, `SignedAncestry`, `FirstHistory`, `KernelConstants`,
`ContextConstants`, `LogsConstants` and `PipelineConstants`, which say that
messages and records have their signed fields, that `closure` is the closure of
`parents` (not that parents are stored, of one run or earlier: `Readers` tests
that), that the clock and the records of the past a behaviour starts from are
consistent, that contexts, tools and principals are well-formed, that there are
finitely many authority-bearing records, and that scripts read and write files
of the pipeline and no input. TLC evaluates them in every run.

**Only model-checked:** `EveryGrantSettles`, since liveness under fairness is
beyond the prover, and `ChainsSuffice`, since the labellings of the concrete
chains are computed by recursive functions over them. Every other property of
a passing run is a theorem.

## 5. Where the comments and the code differ

Three are shown by a run:

1. *Run isolation.* `runtime.mjs` 2182 calls a certificate stale when a
   *same-run* keyed candidate is outside it; the test at 2188 looks at the
   candidates of every run, so a write in one run makes another run's
   certificate stale and empties its readers' capability. It errs on the
   restrictive side. Run `RunIsolation`.
2. *Freeze.* `control_plane.mjs` 531 says a context takes no further input once
   it was attached; the mark is neither in its row nor restored, so after a
   restart it does. Run `FreezeAcrossRestart`.
3. *The identity audit.* `src/README.md` 53 says every gate is regenerated from
   the committed logs. `auditAnonymization` (`src/scripts/check_evidence.mjs`
   111) sweeps all of `results/`, its own last report included, and that report
   quotes the leak it found. Once a log has leaked, each check finds the
   quotation, quotes it again, and stays red after the log is repaired, until
   somebody deletes the report. Run `RedHasACause`.

Others were met while modelling. The models have them, no run is spent on them.
In the runtime:

- 2320 says nothing relevant to authority can change between the check and the
  consume; the policy runs in between (2377) and may attach an input, and the
  context's version and integrity are not compared again. The view's root is,
  which is why `ReadToUseIsAtomic` still holds.
- 1234 says a record that depended on an input its reader cannot reach is
  denied; what a context attached is not an ancestor of what it sends, so a
  record written under that message does not bind it. Its integrity is bounded
  all the same (`NoLaundering`).
- 1399-1401 says that if the row or the anchor of an append is lost, the next
  read fails closed. When the anchor is lost, the head in memory agrees with the
  rows and reads go on; a restart then takes the head from the anchor and
  refuses every read for good. When the row is lost, a restart heals the log,
  but one more append first makes it unreadable for ever.
- `runtime.mjs` 2207 says a retired record stops capping; `evaluateSecureGate`
  answers `task_scope_mismatch` before it looks at the lifecycle log (1487), so
  a retired record of another task keeps capping.
- 2015 says an external effect needs an *exposed* effect class; the capability
  at 2240 is the meet of every capping ceiling, those of withheld records
  included, so the only grant may be one the reader is not shown.
- `control_plane.mjs` 432 says a context's integrity is the meet of every input
  attached; an attach made by a destination policy whose transaction is rolled
  back is forgotten by the row and by its anchor, which the same rollback
  restores, and a restart takes the row for fresh. The restored context sends
  with the higher integrity (349 says a derived message is never more trusted
  than the inputs consumed). Such contexts are `torn`, and the theorems say
  exactly what is lost with them (section 4).
- 593 says the new message becomes the context's current event; a send refused
  after `composeSend` leaves it at a message that was never stored
  (`SendRefused`), and every later send of the context fails.
- 274 says a lease that lost its lock can no longer act; `composeSend` asks for
  no lease, so `Send` has no `Fresh` in its guard.

In the pipeline:

- Two gates (RG1, RG11, `src/scripts/check_review_gates.mjs` 15 and 150) judge
  the comparators' reports on disk, and only later steps regenerate them. A
  `secure:verify` by itself is green while the report is of earlier code; after a
  values run with a broken comparator and its repair, full runs are red
  until the comparator is run by itself. A green run of all modes stays green
  because `npm test` executes the same comparison on the code
  (`GreenStaysGreen`; its mutant drops that test). The model runs it always;
  `npm test` skips it when the Cedar engine is not installed.
- `src/reproduce.mjs` 88 says every numeric result is recomputed. No chain runs
  the analyses of negative controls, stress, cost, E13, E14, E16, E18, failure
  prevalence or the cost benchmarks, so macros, `fig4` and `table4` show their
  committed results whatever the logs say, and gate G7 judges one of them.
- `src/scripts/export_redesign_macros.mjs` 5 says no number is hand-typed. Where
  a report is missing it writes numbers of its own: a values run in a fresh
  clone publishes them, since the reports come from `secure:verify`.
- A missing report is PENDING or skipped, never a failure, so deleting one
  turns its gate green (RG10 and RG12, which read committed inputs, do fail).
- The check-only mode compares the hashes of figures; those of tables, in a
  second manifest, are read by nothing.

## 6. Plan

Written, in this order: SharedMemory, AuthorizedUse, AuthorizationKernel,
ExecutionContexts, AuthorityLogs, ReproductionScripts, ReproductionPipeline,
ReproductionFlow and InformationFlow, with their MC and `_proofs` modules. Left:

1. **SequenceClock** and **CausalClosure**: two mirrors and a rollback of one;
   the traversals themselves, strict and lenient, against the closure that
   SharedMemory takes as given.
2. **MemoryGate**: the standalone gate against SharedMemory's, as a refinement
   of decisions over bounded inputs.
3. The worker pool of the protocol benchmark and the bounded retries of live
   model calls, if they earn a run.

Proofs to add: those of the modules above, as they are written.

## 7. Not modelled, and why

Principals and roles are a static registry: a caller without the role is
refused with nothing changed. Tamper detection (receipts, MACs, hash checks)
matters only for stores altered from outside, which no action here does. The
legacy runtime and the policy comparator are baselines without the guarantees;
the pipeline has that their reports are judged. Of the scripts, those that no
chain runs are modelled where a chain reads what they leave
(`NegativeControls` to `BenchScale`); the rest (headline statistics, the
analyses of open-source stores, builders of datasets from raw data) computed
committed files once and take no part in a run. Drivers, live model calls and
communication experiments are I/O or sequential computation; the behaviours
they drive are those of the modules above. What a script computes, as opposed
to what it computes it from, is left to its tests.
