------------------------- MODULE AuthorizationKernel -------------------------
(***************************************************************************)
(* queryMemory and executeAuthorizedAction of SecureMemoryRuntime: a view   *)
(* is prepared for a context, other calls change the store and the context, *)
(* and an action is authorized against the view in one transaction, handed  *)
(* to the dispatcher after the commit, and settled in the outbox.           *)
(*                                                                          *)
(* One process runs the kernel, and its JavaScript runs to completion, so   *)
(* interleaving happens exactly where the code hands control away: in the   *)
(* destination policy (a synchronous callback inside the transaction), in   *)
(* the dispatcher (a synchronous callback after the commit, free to call    *)
(* the kernel again), in a promise the dispatcher returned, and in a crash. *)
(* The transaction restores the databases when it rolls back, never the     *)
(* control plane's memory.  Calls that are refused without a change of      *)
(* state are stuttering steps.                                              *)
(***************************************************************************)
EXTENDS SharedMemory

CONSTANTS
    Contexts,       \* execution contexts, claimed before the behaviour starts
    Ctx,            \* the claimed message (anchor) and integrity of each
    Views,          \* view ids
    Actions,        \* canonical actions: one digest each
    Tool,           \* resolveTool of each action
    NoBinding,      \* what a view that has no row binds
    NoTxn,          \* no call of executeAuthorizedAction is open
    PolicyMay,      \* calls the destination policy makes
    MaxVersion,     \* bound: context version
    MaxTakeovers,   \* bound: lock takeovers of a context's message
    MaxResets,      \* bound: resets of the replay state
    MaxCrashes      \* bound: crashes

ToolFields == [effect : Effects, external : BOOLEAN, known : BOOLEAN, minimum : 0..2]

ASSUME KernelConstants ==
    /\ Ctx \in [Contexts -> [anchor : Messages, integrity : 0..2]]
    /\ Tool \in [Actions -> ToolFields]
    /\ PolicyMay \subseteq {"attach", "send", "complete", "query", "delegate"}
    /\ \A c \in Contexts : FirstMsgSeq[Ctx[c].anchor] > 0
    /\ Contexts # {}
    /\ MaxVersion \in Nat /\ MaxTakeovers \in Nat
    /\ MaxResets \in Nat /\ MaxCrashes \in Nat

VARIABLES
    ctx,         \* the control plane's contexts, in memory
    durable,     \* their execution_contexts and context_anchor rows
    lockGen,     \* lock_generation of each context's claimed message
    viewState,   \* prepared_views.state, "unused" when there is no row
    binding,     \* what the row and its read token bind
    tokenUsed,   \* views whose read token is consumed
    age,         \* how much of its lifetime a view has lived
    outbox,      \* action_outbox.status per idempotency key, "none" when no row
    calls,       \* how often the dispatcher was handed each (view, action)
    txn,         \* the open executeAuthorizedAction call
    stack,       \* dispatcher calls that have not returned, innermost last
    inflight,    \* dispatches whose promise has not settled
    resets,      \* how often the replay state was reset
    crashes      \* how often the process crashed

contextVars  == <<ctx, durable, lockGen>>
viewVars     == <<viewState, binding, tokenUsed, age>>
dispatchVars == <<outbox, calls, stack, inflight>>
faultVars    == <<resets, crashes>>
kernelVars   == <<contextVars, viewVars, dispatchVars, txn, faultVars>>
vars         == <<memoryVars, kernelVars>>

-----------------------------------------------------------------------------

Settled    == {"dispatched", "pending_reconciliation"}
Outcomes   == Settled \cup {"pending_dispatch"}
Statuses   == Outcomes \cup {"none", "authorized"}
ViewStates == {"unused", "pending", "consumed", "expired"}
Uses       == Views \X Actions

Anchor(v) == Ctx[binding[v].context].anchor

\* The keys of the records a read hands out, with their epochs.
EpochsOf(m, records) ==
    {<<k, KeyEpoch(Msg[m].run, k)>> : k \in {Rec[r].key : r \in records} \ {NoKey}}

KernelInit ==
    /\ MemoryInit
    /\ ctx = [c \in Contexts |-> [state |-> "active", version |-> 1, integrity |-> Ctx[c].integrity]]
    /\ durable = ctx
    /\ lockGen = [c \in Contexts |-> 1]
    /\ viewState = [v \in Views |-> "unused"]
    /\ binding = [v \in Views |-> NoBinding]
    /\ tokenUsed = {}
    /\ age = [v \in Views |-> "fresh"]
    /\ outbox = [va \in Uses |-> "none"]
    /\ calls = [va \in Uses |-> 0]
    /\ txn = NoTxn
    /\ stack = <<>>
    /\ inflight = {}
    /\ resets = 0
    /\ crashes = 0

InPolicy  == txn # NoTxn /\ txn.phase = "policy"
Committed == txn # NoTxn /\ txn.phase = "committed"

\* A call runs between kernel calls, inside a dispatcher, or, when the policy
\* makes it, inside the open transaction; _assertNotInExec refuses there the
\* calls that move an authority log or write a record with a key or a ceiling.
\* Messages and other records written there are left out: no message whose reads
\* go through is served anything else for them (PastIsSettled), they bind nothing
\* a view or a token remembers, and the open call decides the same without them
\* (PlainCallsUnseen).
Callable(call) == txn = NoTxn \/ (InPolicy /\ Tool[txn.action].external /\ call \in PolicyMay)

-----------------------------------------------------------------------------
(* The world around the kernel.                                             *)

MemoryStep ==
    /\ \/ /\ txn = NoTxn
          /\ \/ \E m \in Messages :
                   \E seq \in (clock[Msg[m].run] - MaxLag)..(clock[Msg[m].run] + MaxSkip) :
                      SendMessage(m, seq)
             \/ \E r \in Records : WriteMemory(r)
             \/ \E r \in Records : Retire(r)
             \/ \E run \in Runs, k \in Keys, w \in Records : ResolveConflict(run, k, w)
       \/ Callable("delegate") /\ \E r \in Records, t \in Tasks : Delegate(r, t)
    /\ UNCHANGED kernelVars

\* attachContextInput, composeSend and completeContext move the context in
\* memory and persist the row; inside a transaction the row can be lost.
MoveContext(c, state, integrity) ==
    /\ ctx[c].state = "active"
    /\ ctx[c].version < MaxVersion
    /\ ctx' = [ctx EXCEPT ![c] = [state |-> state, version |-> @.version + 1,
                                  integrity |-> integrity]]
    /\ durable' = [durable EXCEPT ![c] = ctx'[c]]
    /\ UNCHANGED <<memoryVars, lockGen, viewVars, dispatchVars, txn, faultVars>>

Attach(c, level) ==
    /\ Callable("attach")
    /\ level <= ctx[c].integrity
    /\ MoveContext(c, "active", level)

Send(c) == Callable("send") /\ MoveContext(c, "active", ctx[c].integrity)

Complete(c) == Callable("complete") /\ MoveContext(c, "completed", ctx[c].integrity)

\* claimNextMessage, which the secure runtime inherits, takes the lock in another
\* process that had selected the row while it was pending (ExecutionContexts).
TakeOver(c) ==
    /\ txn = NoTxn
    /\ lockGen[c] <= MaxTakeovers
    /\ lockGen' = [lockGen EXCEPT ![c] = @ + 1]
    /\ UNCHANGED <<memoryVars, ctx, durable, viewVars, dispatchVars, txn, faultVars>>

\* Time passes, also while a callback runs; the token of a view is minted just
\* before the view's row and expires just before it.
GrowOld(v) ==
    /\ viewState[v] = "pending"
    /\ \/ age[v] = "fresh" /\ age' = [age EXCEPT ![v] = "token_expired"]
       \/ age[v] = "token_expired" /\ age' = [age EXCEPT ![v] = "expired"]
    /\ UNCHANGED <<memoryVars, contextVars, viewState, binding, tokenUsed, dispatchVars,
                   txn, faultVars>>

-----------------------------------------------------------------------------
(* queryMemory.                                                             *)

\* The agent gets the served records its query selects and, whatever the
\* query, those of every decision; the token binds what the agent gets.
QueryMemory(v, c, effect, records) ==
    LET m == Ctx[c].anchor IN
    /\ Callable("query")
    /\ viewState[v] = "unused"
    /\ ctx[c].state = "active"
    /\ m \in Readers
    /\ records \subseteq Served(m)
    /\ {r \in Served(m) : Rec[r].key # NoKey} \subseteq records
    /\ viewState' = [viewState EXCEPT ![v] = "pending"]
    /\ binding' = [binding EXCEPT ![v] =
          [context |-> c, version |-> ctx[c].version, integrity |-> ctx[c].integrity,
           lockGen |-> lockGen[c], root |-> ViewRoot(m), effect |-> effect,
           records |-> records, epochs |-> EpochsOf(m, records)]]
    /\ UNCHANGED <<memoryVars, contextVars, tokenUsed, age, dispatchVars, txn, faultVars>>

-----------------------------------------------------------------------------
(* executeAuthorizedAction.                                                 *)

\* The checks before the destination policy.
BindingHolds(v, a) ==
    LET b == binding[v]
        c == b.context
    IN  /\ ctx[c].state = "active"
        /\ ctx[c].version = b.version
        /\ ctx[c].integrity = b.integrity
        /\ Tool[a].external => ctx[c].integrity >= Tool[a].minimum
        /\ lockGen[c] = b.lockGen

\* What ROLLBACK restores.
Tables == [viewState |-> viewState, binding |-> binding, durable |-> durable,
           delegations |-> delegations]

\* The idempotency key, derived from the view and the action's digest, has a
\* row: a call reports it and stops, and the unique index refuses another.
NeverRecorded(v, a) == FALSE  \* Mutant: a key that differs from call to call.
Recorded(v, a) == outbox[<<v, a>>] # "none"

BeginExecute(v, a) ==
    /\ txn = NoTxn
    /\ viewState[v] = "pending"
    /\ age[v] # "expired"
    /\ BindingHolds(v, a)
    /\ ~ Recorded(v, a)
    /\ txn' = [phase |-> "policy", view |-> v, action |-> a,
               saved |-> Tables]
    /\ UNCHANGED <<memoryVars, contextVars, viewVars, dispatchVars, faultVars>>

\* The call finds the view past its lifetime and marks it.
ExpireView(v) ==
    /\ txn = NoTxn
    /\ viewState[v] = "pending"
    /\ age[v] = "expired"
    /\ viewState' = [viewState EXCEPT ![v] = "expired"]
    /\ UNCHANGED <<memoryVars, contextVars, binding, tokenUsed, age, dispatchVars, txn, faultVars>>

\* commitMemoryUse.
TokenHolds(v, a) ==
    LET b == binding[v] IN
    /\ age[v] = "fresh"
    /\ Tool[a].effect = b.effect
    /\ policy = b.root.policy
    /\ Len(resolutions) = b.root.resolutionEpoch
    /\ b.epochs = EpochsOf(Anchor(v), b.records)
    /\ b.records \cap retired = {}
    /\ b.root.bounded => Tool[a].effect \in b.root.capability
    /\ v \notin tokenUsed

\* The view is recomputed after the policy returned; a completed context has
\* no view, nor has one whose anchor's reads are refused.
ContextAlive(v) == ctx[binding[v].context].state = "active"  \* Mutant: no root comparison.
ViewHolds(v) ==
    /\ ctx[binding[v].context].state = "active"
    /\ Anchor(v) \in Readers
    /\ ViewRoot(Anchor(v)) = binding[v].root

ActionAllowed(v, a, policyOk) ==
    /\ Permits(Anchor(v), Tool[a].effect, Tool[a].external)
    /\ Tool[a].external => Served(Anchor(v)) # {} /\ Tool[a].known /\ policyOk

\* Mutant: the one-shot records are left as they were.
CommitWithoutConsuming(v, a) ==
    /\ outbox' = [outbox EXCEPT ![<<v, a>>] = "authorized"]
    /\ txn' = [phase |-> "committed", view |-> v, action |-> a]
    /\ UNCHANGED <<memoryVars, contextVars, viewVars, calls, stack, inflight, faultVars>>

\* Mutant: the state of the view's row is not moved.
ConsumeTokenOnly(v, a) ==
    /\ tokenUsed' = tokenUsed \cup {v}
    /\ outbox' = [outbox EXCEPT ![<<v, a>>] = "authorized"]
    /\ txn' = [phase |-> "committed", view |-> v, action |-> a]
    /\ UNCHANGED <<memoryVars, contextVars, viewState, binding, age, calls, stack, inflight, faultVars>>

Commit(v, a) ==
    /\ viewState' = [viewState EXCEPT ![v] = "consumed"]
    /\ tokenUsed' = tokenUsed \cup {v}
    /\ outbox' = [outbox EXCEPT ![<<v, a>>] = "authorized"]
    /\ txn' = [phase |-> "committed", view |-> v, action |-> a]
    /\ UNCHANGED <<memoryVars, contextVars, binding, age, calls, stack, inflight, faultVars>>

\* ROLLBACK: the tables return to what they were, the memory does not.
RestoreTables ==
    /\ viewState' = txn.saved.viewState
    /\ binding' = txn.saved.binding
    /\ durable' = txn.saved.durable
    /\ delegations' = txn.saved.delegations

Rollback ==
    /\ RestoreTables
    /\ txn' = NoTxn
    /\ UNCHANGED <<clock, msgSeq, writeSeq, retired, resolutions, keyVersion, policy,
                   ctx, lockGen, tokenUsed, age, dispatchVars, faultVars>>

FinishExecute(policyOk) ==
    /\ InPolicy
    /\ LET v == txn.view
           a == txn.action
       IN  IF /\ ViewHolds(v)
               /\ ActionAllowed(v, a, policyOk)
               /\ TokenHolds(v, a)
               /\ viewState[v] = "pending"
               /\ ~ Recorded(v, a)
             THEN Commit(v, a)
             ELSE Rollback

-----------------------------------------------------------------------------
(* After the commit.                                                        *)

\* Mutant: the row is settled before the dispatcher has answered.
SettleThenCall ==
    /\ Committed
    /\ LET va == <<txn.view, txn.action>>
       IN  /\ calls' = [calls EXCEPT ![va] = @ + 1]
           /\ stack' = Append(stack, va)
           /\ outbox' = [outbox EXCEPT ![va] = "dispatched"]
    /\ txn' = NoTxn
    /\ UNCHANGED <<memoryVars, contextVars, viewVars, inflight, faultVars>>

CallDispatcher ==
    /\ Committed
    /\ LET va == <<txn.view, txn.action>>
       IN  /\ calls' = [calls EXCEPT ![va] = @ + 1]
           /\ stack' = Append(stack, va)
    /\ txn' = NoTxn
    /\ UNCHANGED <<memoryVars, contextVars, viewVars, outbox, inflight, faultVars>>

\* Mutant: nobody waits for the promise.
ForgetPromise(status) ==
    /\ txn = NoTxn
    /\ stack # <<>>
    /\ outbox' = [outbox EXCEPT ![stack[Len(stack)]] = status]
    /\ stack' = SubSeq(stack, 1, Len(stack) - 1)
    /\ UNCHANGED <<memoryVars, contextVars, viewVars, calls, inflight, txn, faultVars>>

\* The innermost dispatcher call returns a value, throws, or returns a promise.
DispatcherReturns(status) ==
    /\ txn = NoTxn
    /\ stack # <<>>
    /\ LET va == stack[Len(stack)]
       IN  /\ outbox' = [outbox EXCEPT ![va] = status]
           /\ inflight' = IF status = "pending_dispatch" THEN inflight \cup {va} ELSE inflight
    /\ stack' = SubSeq(stack, 1, Len(stack) - 1)
    /\ UNCHANGED <<memoryVars, contextVars, viewVars, calls, txn, faultVars>>

\* The promise resolves or rejects; its reaction runs on an empty stack.
Settle(va, status) ==
    /\ txn = NoTxn
    /\ stack = <<>>
    /\ va \in inflight
    /\ outbox' = [outbox EXCEPT ![va] = status]
    /\ inflight' = inflight \ {va}
    /\ UNCHANGED <<memoryVars, contextVars, viewVars, calls, stack, txn, faultVars>>

-----------------------------------------------------------------------------
(* Faults.                                                                  *)

\* Something outside the kernel (a retry script, a restored row) sets the view
\* back to pending and its token to unconsumed.
ResetReplayState(v) ==
    /\ txn = NoTxn
    /\ resets < MaxResets
    /\ viewState[v] = "consumed"
    /\ viewState' = [viewState EXCEPT ![v] = "pending"]
    /\ tokenUsed' = tokenUsed \ {v}
    /\ resets' = resets + 1
    /\ UNCHANGED <<memoryVars, contextVars, binding, age, dispatchVars, txn, crashes>>

\* The process dies and starts again on the same files and key: an open
\* transaction is rolled back, callbacks and promises are gone, contexts are
\* seeded from their rows.  No code reads the outbox on start.
Crash(p) ==
    /\ crashes < MaxCrashes
    /\ crashes' = crashes + 1
    /\ IF InPolicy THEN RestoreTables
       ELSE UNCHANGED <<viewState, binding, durable, delegations>>
    /\ ctx' = durable'
    /\ txn' = NoTxn
    /\ stack' = <<>>
    /\ inflight' = {}
    /\ policy' = p
    /\ UNCHANGED <<clock, msgSeq, writeSeq, retired, resolutions, keyVersion,
                   lockGen, tokenUsed, age, outbox, calls, resets>>

-----------------------------------------------------------------------------
KernelNext ==
    \/ MemoryStep
    \/ \E c \in Contexts, level \in 0..2 : Attach(c, level)
    \/ \E c \in Contexts : Send(c) \/ Complete(c) \/ TakeOver(c)
    \/ \E v \in Views : GrowOld(v) \/ ExpireView(v) \/ ResetReplayState(v)
    \/ \E v \in Views, c \in Contexts, e \in Effects, s \in SUBSET Records :
          QueryMemory(v, c, e, s)
    \/ \E v \in Views, a \in Actions : BeginExecute(v, a)
    \/ \E ok \in BOOLEAN : FinishExecute(ok)
    \/ CallDispatcher
    \/ \E status \in Outcomes : DispatcherReturns(status)
    \/ \E va \in Uses, status \in Settled : Settle(va, status)
    \/ \E p \in Policies : Crash(p)

KernelSpec == KernelInit /\ [][KernelNext]_vars

\* The destination policy and the dispatcher are synchronous functions that
\* return, a promise settles and the event loop runs its reaction.  Calls of
\* the kernel made from the callbacks come between, so being enabled again and
\* again has to be enough for a return and for a reaction.
Progress ==
    /\ WF_vars(\E ok \in BOOLEAN : FinishExecute(ok))
    /\ WF_vars(CallDispatcher)
    /\ SF_vars(\E status \in Outcomes : DispatcherReturns(status))
    /\ \A va \in Uses : SF_vars(\E status \in Settled : Settle(va, status))

KernelFairSpec == KernelSpec /\ Progress

-----------------------------------------------------------------------------
(* Correctness.                                                             *)

ContextRows == [state : {"active", "completed"}, version : Nat, integrity : 0..2]

Roots == [exposed : SUBSET Records, bounded : BOOLEAN, capability : SUBSET Effects,
          policy : Policies, resolutionEpoch : Nat]

Bindings == [context : Contexts, version : Nat, integrity : 0..2, lockGen : Nat,
             root : Roots, effect : Effects, records : SUBSET Records,
             epochs : SUBSET (Keys \X (Nat \X Nat \X Nat))]

SavedTables == [viewState : [Views -> ViewStates],
                binding   : [Views -> Bindings \cup {NoBinding}],
                durable   : [Contexts -> ContextRows],
                delegations : SUBSET [record : Records, task : Tasks, policy : Policies]]

PolicyTxns    == [phase : {"policy"}, view : Views, action : Actions, saved : SavedTables]
CommittedTxns == [phase : {"committed"}, view : Views, action : Actions]

KernelTypeOK ==
    /\ TypeOK
    /\ ctx \in [Contexts -> ContextRows]
    /\ durable \in [Contexts -> ContextRows]
    /\ lockGen \in [Contexts -> Nat]
    /\ viewState \in [Views -> ViewStates]
    /\ binding \in [Views -> Bindings \cup {NoBinding}]
    /\ tokenUsed \subseteq Views
    /\ age \in [Views -> {"fresh", "token_expired", "expired"}]
    /\ outbox \in [Uses -> Statuses]
    /\ calls \in [Uses -> Nat]
    /\ txn \in PolicyTxns \cup CommittedTxns \cup {NoTxn}
    /\ stack \in Seq(Uses)
    /\ inflight \subseteq Uses
    /\ resets \in Nat /\ crashes \in Nat

\* One action is handed to the dispatcher at most once for a view, even when
\* its replay state is reset, the process crashes, or a dispatcher re-enters
\* the kernel with the same action.
DispatchedOnce == \A va \in Uses : calls[va] <= 1

\* A view justifies one action: unless its replay state was reset, no two
\* actions of a view are ever authorized.
OneActionPerView ==
    resets = 0 => \A v \in Views : \A a, b \in Actions :
                     Recorded(v, a) /\ Recorded(v, b) => a = b

\* The records that make a use one-shot move together through rollbacks,
\* crashes and resets: a view is consumed exactly when its token is, and then
\* the outbox knows an action of it.
OneShotRecordsAgree ==
    \A v \in Views :
        /\ viewState[v] = "consumed" <=> v \in tokenUsed
        /\ v \in tokenUsed => \E a \in Actions : Recorded(v, a)

\* The outbox row comes before the effect and never claims more than happened:
\* no call without a row, no outcome without a call, no outcome while the
\* dispatcher still runs, no final outcome while its promise is pending.
OutboxTracksEffects ==
    /\ \A va \in Uses :
          /\ calls[va] > 0 => outbox[va] # "none"
          /\ outbox[va] \in Outcomes => calls[va] > 0
          /\ va \in inflight => outbox[va] = "pending_dispatch"
    /\ \A i \in DOMAIN stack : outbox[stack[i]] = "authorized" /\ calls[stack[i]] > 0

\* What the invariants above need to be inductive: a policy does no more to a
\* view than read a new one, the dispatcher does not know the open call's use
\* yet, a row of a view whose replay state was never reset means a consumed
\* view, no use is on the stack twice, and a view with a row binds something.
PolicyOnlyReads ==
    InPolicy => \A v \in Views :
        \/ /\ txn.saved.viewState[v] = viewState[v]
           /\ txn.saved.binding[v] = binding[v]
        \/ txn.saved.viewState[v] = "unused" /\ viewState[v] = "pending"

OpenUseUncalled ==
    Committed => /\ outbox[<<txn.view, txn.action>>] = "authorized"
                 /\ calls[<<txn.view, txn.action>>] = 0

RowMeansConsumed ==
    resets = 0 => \A v \in Views, a \in Actions : Recorded(v, a) => v \in tokenUsed

StackDistinct == \A i, j \in DOMAIN stack : stack[i] = stack[j] => i = j

RowsBind == \A v \in Views : viewState[v] = "unused" \/ binding[v] \in Bindings

UseInv ==
    /\ DispatchedOnce /\ OneActionPerView /\ OneShotRecordsAgree /\ OutboxTracksEffects
    /\ PolicyOnlyReads /\ OpenUseUncalled /\ RowMeansConsumed /\ StackDistinct /\ RowsBind

KernelInv == KernelTypeOK /\ UseInv

Granted(va) == outbox[va] = "none" /\ outbox'[va] = "authorized"

\* What an authorized action does is within the effect ceiling of every record
\* the agent was given and of every record its reader is served now; none of
\* them is retired, and an external effect has a record behind it.
EffectWithinCeilings ==
    [][ \A va \in Uses : Granted(va) =>
          LET b      == binding[va[1]]
              behind == b.records \cup Served(Anchor(va[1]))
          IN  /\ \A r \in behind : r \notin retired /\ \A c \in Rec[r].ceiling : Tool[va[2]].effect \in c
              /\ Tool[va[2]].external => behind # {} ]_vars

\* Every authorized action reaches a recorded outcome, as long as no crash
\* comes between.
EveryGrantSettles ==
    \A va \in Uses : outbox[va] = "authorized" ~> outbox[va] \in Settled

-----------------------------------------------------------------------------
(* A view's read and its use look like one instant.                         *)

RootAllows(root) ==
    {a \in Actions : /\ root.bounded => Tool[a].effect \in root.capability
                     /\ Tool[a].external => root.bounded /\ root.exposed # {} /\ Tool[a].known}

OfferStatus == [pending |-> "open", consumed |-> "spent", expired |-> "gone"]

ReadToUse == INSTANCE AuthorizedUse WITH
    Allows         <- RootAllows,
    ReplayMayReset <- MaxResets > 0,
    authority      <- [c \in Contexts |-> ViewRoot(Ctx[c].anchor)],
    offer          <- [v \in Views |->
                          IF viewState[v] = "unused" THEN [status |-> "none"]
                          ELSE [status    |-> OfferStatus[viewState[v]],
                                context   |-> binding[v].context,
                                authority |-> binding[v].root]],
    granted        <- {va \in Uses : outbox[va] # "none"},
    performed      <- {va \in Uses : calls[va] > 0}

\* Whatever happens between queryMemory and executeAuthorizedAction, an action
\* is authorized only with the authority its context has at that instant, the
\* same it had when the view was read.
ReadToUseIsAtomic == ReadToUse!Spec
=============================================================================
