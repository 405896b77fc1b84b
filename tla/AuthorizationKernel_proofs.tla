--------------------- MODULE AuthorizationKernel_proofs ---------------------
(***************************************************************************)
(* KernelInv is inductive, for every set of contexts, views, actions and    *)
(* records, every destination policy, and any number of crashes and resets. *)
(* Its conjuncts are proved in two halves: the types, and Use, which        *)
(* relates the outbox, the dispatcher's calls and the one-shot records.     *)
(* The last section carries the theorems of SharedMemory_proofs over to     *)
(* KernelSpec.  KernelSpec does not imply MemorySpec: a rollback takes      *)
(* delegations back.  But it keeps TypeOK and ClockIsAhead, and those are   *)
(* all that the read path and a single step need.                           *)
(***************************************************************************)
EXTENDS AuthorizationKernel, SharedMemory_proofs

-----------------------------------------------------------------------------
(* The types.                                                               *)

LEMMA AnchorType == \A c \in Contexts : Ctx[c].anchor \in Messages
  BY KernelConstants

LEMMA RootType == ASSUME TypeOK, NEW m \in Messages PROVE ViewRoot(m) \in Roots
<1>1. Served(m) \subseteq Records /\ Capability(m) \subseteq Effects
  BY DEF Served, Stored, Capability
<1>2. Len(resolutions) \in Nat /\ policy \in Policies /\ Bounded(m) \in BOOLEAN
  BY DEF TypeOK, Bounded
<1> QED BY <1>1, <1>2 DEF ViewRoot, Roots

LEMMA EpochType ==
    ASSUME TypeOK, NEW run \in Runs, NEW k \in Keys
    PROVE  KeyEpoch(run, k) \in Nat \X Nat \X Nat
<1>1. keyVersion[<<run, k>>] \in Nat
  BY DEF TypeOK
<1>2. Cardinality(ConflictSet(run, k)) \in Nat
  BY SignedFields, FS_Subset, FS_CardinalityType DEF ConflictSet, Stored
<1>3. Cardinality({i \in DOMAIN resolutions : resolutions[i].key = k}) \in Nat
  <2>1. DOMAIN resolutions = 1..Len(resolutions) /\ Len(resolutions) \in Nat
    BY DEF TypeOK
  <2>2. IsFiniteSet(DOMAIN resolutions)
    BY <2>1, FS_Interval
  <2> QED BY <2>2, FS_Subset, FS_CardinalityType
<1> QED BY <1>1, <1>2, <1>3 DEF KeyEpoch

LEMMA EpochsType ==
    ASSUME TypeOK, NEW m \in Messages, NEW records \in SUBSET Records
    PROVE  EpochsOf(m, records) \in SUBSET (Keys \X (Nat \X Nat \X Nat))
<1>1. Msg[m].run \in Runs
  BY SignedFields DEF MsgFields
<1>2. \A k \in {Rec[r].key : r \in records} \ {NoKey} : k \in Keys
  BY SignedFields DEF RecFields
<1> QED BY <1>1, <1>2, EpochType DEF EpochsOf

LEMMA TxnTypes ==
    ASSUME KernelTypeOK
    PROVE  /\ InPolicy => txn \in PolicyTxns
           /\ Committed => txn \in CommittedTxns
  BY DEF KernelTypeOK, InPolicy, Committed, PolicyTxns, CommittedTxns

LEMMA InitKernelTypeOK == KernelInit => KernelTypeOK
<1> SUFFICES ASSUME KernelInit PROVE KernelTypeOK
  OBVIOUS
<1>1. TypeOK
  BY InitTypeOK DEF KernelInit
<1>2. \A c \in Contexts : Ctx[c].integrity \in 0..2
  BY KernelConstants
<1>3. ctx \in [Contexts -> ContextRows]
  BY <1>2 DEF KernelInit, ContextRows
<1>4. durable \in [Contexts -> ContextRows] /\ lockGen \in [Contexts -> Nat]
  BY <1>3 DEF KernelInit
<1>5. /\ viewState \in [Views -> ViewStates]
      /\ binding \in [Views -> Bindings \cup {NoBinding}]
      /\ age \in [Views -> {"fresh", "token_expired", "expired"}]
      /\ tokenUsed \subseteq Views
  BY DEF KernelInit, ViewStates
<1>6. outbox \in [Uses -> Statuses] /\ calls \in [Uses -> Nat]
  BY DEF KernelInit, Statuses
<1>7. stack \in Seq(Uses) /\ inflight \subseteq Uses /\ resets \in Nat /\ crashes \in Nat
  BY DEF KernelInit
<1>8. txn \in PolicyTxns \cup CommittedTxns \cup {NoTxn}
  BY DEF KernelInit
<1> QED BY <1>1, <1>3, <1>4, <1>5, <1>6, <1>7, <1>8 DEF KernelTypeOK

\* The store changes only through the actions of SharedMemory, or returns to
\* tables it had before.
LEMMA MemoryKept == ASSUME TypeOK, UNCHANGED memoryVars PROVE TypeOK'
  BY StepTypeOK

LEMMA TypeMemoryStep == ASSUME KernelTypeOK, MemoryStep PROVE KernelTypeOK'
<1>1. MemoryNext
  BY DEF MemoryStep, MemoryNext
<1>2. TypeOK'
  BY <1>1, StepTypeOK DEF KernelTypeOK
<1>3. UNCHANGED kernelVars
  BY DEF MemoryStep
<1> QED BY <1>2, <1>3 DEF KernelTypeOK, kernelVars, contextVars, viewVars, dispatchVars, faultVars

LEMMA TypeMoveContext ==
    ASSUME KernelTypeOK, NEW c \in Contexts, NEW state \in {"active", "completed"},
           NEW integrity \in 0..2, MoveContext(c, state, integrity)
    PROVE  KernelTypeOK'
<1>1. TypeOK'
  BY MemoryKept DEF KernelTypeOK, MoveContext
<1>2. ctx[c].version + 1 \in Nat
  BY DEF KernelTypeOK, ContextRows
<1>3. [state |-> state, version |-> ctx[c].version + 1, integrity |-> integrity] \in ContextRows
  BY <1>2 DEF ContextRows
<1>4. ctx' \in [Contexts -> ContextRows]
  BY <1>3 DEF KernelTypeOK, MoveContext
<1>5. durable' \in [Contexts -> ContextRows]
  BY <1>4 DEF KernelTypeOK, MoveContext
<1> QED BY <1>1, <1>4, <1>5 DEF KernelTypeOK, MoveContext, viewVars, dispatchVars, faultVars

LEMMA TypeContexts ==
    ASSUME KernelTypeOK, NEW c \in Contexts,
           \/ \E level \in 0..2 : Attach(c, level)
           \/ Send(c) \/ Complete(c) \/ TakeOver(c)
    PROVE  KernelTypeOK'
<1>0. ctx[c].integrity \in 0..2
  BY DEF KernelTypeOK, ContextRows
<1>1. ASSUME NEW level \in 0..2, Attach(c, level) PROVE KernelTypeOK'
  BY <1>1, TypeMoveContext DEF Attach
<1>2. CASE Send(c)
  BY <1>0, <1>2, TypeMoveContext DEF Send
<1>3. CASE Complete(c)
  BY <1>0, <1>3, TypeMoveContext DEF Complete
<1>4. CASE TakeOver(c)
  <2>1. TypeOK'
    BY <1>4, MemoryKept DEF KernelTypeOK, TakeOver
  <2>2. lockGen' \in [Contexts -> Nat]
    BY <1>4 DEF KernelTypeOK, TakeOver
  <2> QED BY <1>4, <2>1, <2>2 DEF KernelTypeOK, TakeOver, viewVars, dispatchVars, faultVars
<1> QED BY <1>1, <1>2, <1>3, <1>4

\* The row queryMemory writes.
LEMMA QueriedRow ==
    ASSUME KernelTypeOK, NEW v \in Views, NEW c \in Contexts, NEW effect \in Effects,
           NEW records \in SUBSET Records, QueryMemory(v, c, effect, records)
    PROVE  \E row \in Bindings : binding' = [binding EXCEPT ![v] = row]
<1> DEFINE m == Ctx[c].anchor
           new == [context |-> c, version |-> ctx[c].version, integrity |-> ctx[c].integrity,
                   lockGen |-> lockGen[c], root |-> ViewRoot(m), effect |-> effect,
                   records |-> records, epochs |-> EpochsOf(m, records)]
<1>1. TypeOK
  BY DEF KernelTypeOK
<1>2. m \in Messages
  BY AnchorType
<1>3. ctx[c].version \in Nat /\ ctx[c].integrity \in 0..2 /\ lockGen[c] \in Nat
  BY DEF KernelTypeOK, ContextRows
<1>4. ViewRoot(m) \in Roots
  BY <1>1, <1>2, RootType
<1>5. EpochsOf(m, records) \in SUBSET (Keys \X (Nat \X Nat \X Nat))
  BY <1>1, <1>2, EpochsType
<1>6. new \in Bindings
  BY <1>3, <1>4, <1>5 DEF Bindings
<1>7. binding' = [binding EXCEPT ![v] = new]
  BY DEF QueryMemory
<1> QED BY <1>6, <1>7

LEMMA TypeQuery ==
    ASSUME KernelTypeOK, NEW v \in Views, NEW c \in Contexts, NEW effect \in Effects,
           NEW records \in SUBSET Records, QueryMemory(v, c, effect, records)
    PROVE  KernelTypeOK'
<1>1. TypeOK'
  BY MemoryKept DEF KernelTypeOK, QueryMemory
<1>2. viewState' \in [Views -> ViewStates]
  BY DEF KernelTypeOK, QueryMemory, ViewStates
<1>3. PICK row \in Bindings : binding' = [binding EXCEPT ![v] = row]
  BY QueriedRow
<1>4. binding' \in [Views -> Bindings \cup {NoBinding}]
  BY <1>3 DEF KernelTypeOK
<1> QED BY <1>1, <1>2, <1>4 DEF KernelTypeOK, QueryMemory, contextVars, dispatchVars, faultVars

LEMMA TypeViews ==
    ASSUME KernelTypeOK, NEW v \in Views, GrowOld(v) \/ ExpireView(v) \/ ResetReplayState(v)
    PROVE  KernelTypeOK'
<1>1. TypeOK'
  BY MemoryKept DEF KernelTypeOK, GrowOld, ExpireView, ResetReplayState
<1>2. CASE GrowOld(v)
  BY <1>1, <1>2 DEF KernelTypeOK, GrowOld, contextVars, dispatchVars, faultVars
<1>3. CASE ExpireView(v)
  BY <1>1, <1>3 DEF KernelTypeOK, ExpireView, contextVars, dispatchVars, faultVars, ViewStates
<1>4. CASE ResetReplayState(v)
  BY <1>1, <1>4 DEF KernelTypeOK, ResetReplayState, contextVars, dispatchVars, ViewStates
<1> QED BY <1>2, <1>3, <1>4

LEMMA TypeBegin ==
    ASSUME KernelTypeOK, NEW v \in Views, NEW a \in Actions, BeginExecute(v, a)
    PROVE  KernelTypeOK'
<1>1. TypeOK'
  BY MemoryKept DEF KernelTypeOK, BeginExecute
<1>2. Tables \in SavedTables
  BY DEF KernelTypeOK, TypeOK, Tables, SavedTables
<1>3. txn' \in PolicyTxns
  BY <1>2 DEF BeginExecute, PolicyTxns
<1> QED BY <1>1, <1>3 DEF KernelTypeOK, BeginExecute, contextVars, viewVars, dispatchVars, faultVars

\* A rolled back transaction restores tables of the right types.
LEMMA RestoredTypes ==
    ASSUME KernelTypeOK, InPolicy, RestoreTables
    PROVE  /\ viewState' \in [Views -> ViewStates]
           /\ binding' \in [Views -> Bindings \cup {NoBinding}]
           /\ durable' \in [Contexts -> ContextRows]
           /\ delegations' \subseteq [record : Records, task : Tasks, policy : Policies]
<1>1. txn.saved \in SavedTables
  BY TxnTypes DEF PolicyTxns
<1> QED BY <1>1 DEF SavedTables, RestoreTables

LEMMA TypeRollback == ASSUME KernelTypeOK, InPolicy, Rollback PROVE KernelTypeOK'
<1>1. RestoreTables
  BY DEF Rollback
<1>2. TypeOK'
  BY <1>1, RestoredTypes DEF KernelTypeOK, TypeOK, Rollback
<1>3. txn' = NoTxn
  BY DEF Rollback
<1> QED BY <1>1, <1>2, <1>3, RestoredTypes DEF KernelTypeOK, Rollback, dispatchVars, faultVars

LEMMA TypeCommit ==
    ASSUME KernelTypeOK, NEW v \in Views, NEW a \in Actions, Commit(v, a)
    PROVE  KernelTypeOK'
<1>1. TypeOK'
  BY MemoryKept DEF KernelTypeOK, Commit
<1>2. txn' \in CommittedTxns
  BY DEF Commit, CommittedTxns
<1>3. viewState' \in [Views -> ViewStates] /\ tokenUsed' \subseteq Views
  BY DEF KernelTypeOK, Commit, ViewStates
<1>4. outbox' \in [Uses -> Statuses]
  BY DEF KernelTypeOK, Commit, Statuses
<1> QED BY <1>1, <1>2, <1>3, <1>4 DEF KernelTypeOK, Commit, contextVars, faultVars

LEMMA TypeFinish ==
    ASSUME KernelTypeOK, NEW ok \in BOOLEAN, FinishExecute(ok) PROVE KernelTypeOK'
<1>1. InPolicy /\ txn.view \in Views /\ txn.action \in Actions
  BY TxnTypes DEF FinishExecute, PolicyTxns
<1>2. Commit(txn.view, txn.action) \/ Rollback
  BY DEF FinishExecute
<1> QED BY <1>1, <1>2, TypeCommit, TypeRollback

LEMMA TypeDispatch ==
    ASSUME KernelTypeOK,
           \/ CallDispatcher
           \/ \E status \in Outcomes : DispatcherReturns(status)
           \/ \E va \in Uses, status \in Settled : Settle(va, status)
    PROVE  KernelTypeOK'
<1>1. TypeOK'
  BY MemoryKept DEF KernelTypeOK, CallDispatcher, DispatcherReturns, Settle
<1>2. CASE CallDispatcher
  <2> DEFINE va == <<txn.view, txn.action>>
  <2>1. va \in Uses
    BY <1>2, TxnTypes DEF CallDispatcher, CommittedTxns, Uses
  <2>2. calls' \in [Uses -> Nat] /\ stack' \in Seq(Uses)
    BY <1>2, <2>1 DEF KernelTypeOK, CallDispatcher
  <2> QED BY <1>1, <1>2, <2>2 DEF KernelTypeOK, CallDispatcher, contextVars, viewVars, faultVars
<1>3. ASSUME NEW status \in Outcomes, DispatcherReturns(status) PROVE KernelTypeOK'
  <2> DEFINE va == stack[Len(stack)]
  <2>1. Len(stack) \in Nat /\ Len(stack) > 0 /\ va \in Uses
    BY <1>3 DEF KernelTypeOK, DispatcherReturns
  <2>2. stack' \in Seq(Uses)
    BY <1>3, <2>1 DEF KernelTypeOK, DispatcherReturns
  <2>3. outbox' \in [Uses -> Statuses] /\ inflight' \subseteq Uses
    BY <1>3, <2>1 DEF KernelTypeOK, DispatcherReturns, Statuses
  <2> QED BY <1>1, <1>3, <2>2, <2>3 DEF KernelTypeOK, DispatcherReturns, contextVars, viewVars, faultVars
<1>4. ASSUME NEW va \in Uses, NEW status \in Settled, Settle(va, status) PROVE KernelTypeOK'
  <2>1. outbox' \in [Uses -> Statuses]
    BY <1>4 DEF KernelTypeOK, Settle, Statuses, Outcomes
  <2> QED BY <1>1, <1>4, <2>1 DEF KernelTypeOK, Settle, contextVars, viewVars, faultVars
<1> QED BY <1>2, <1>3, <1>4

LEMMA TypeCrash == ASSUME KernelTypeOK, NEW p \in Policies, Crash(p) PROVE KernelTypeOK'
<1>1. /\ viewState' \in [Views -> ViewStates]
      /\ binding' \in [Views -> Bindings \cup {NoBinding}]
      /\ durable' \in [Contexts -> ContextRows]
      /\ delegations' \subseteq [record : Records, task : Tasks, policy : Policies]
  <2>1. CASE InPolicy
    BY <2>1, RestoredTypes DEF Crash
  <2>2. CASE ~ InPolicy
    BY <2>2 DEF Crash, KernelTypeOK, TypeOK
  <2> QED BY <2>1, <2>2
<1>2. TypeOK'
  BY <1>1 DEF KernelTypeOK, TypeOK, Crash
<1>3. ctx' \in [Contexts -> ContextRows]
  BY <1>1 DEF Crash
<1>4. txn' = NoTxn /\ stack' \in Seq(Uses) /\ inflight' \subseteq Uses /\ crashes' \in Nat
  BY DEF Crash, KernelTypeOK
<1> QED BY <1>1, <1>2, <1>3, <1>4 DEF KernelTypeOK, Crash

LEMMA StepKernelTypeOK == KernelTypeOK /\ [KernelNext]_vars => KernelTypeOK'
<1> SUFFICES ASSUME KernelTypeOK, [KernelNext]_vars PROVE KernelTypeOK'
  OBVIOUS
<1>1. CASE UNCHANGED vars
  <2>1. TypeOK'
    BY <1>1, MemoryKept DEF KernelTypeOK, vars
  <2> QED BY <1>1, <2>1 DEF KernelTypeOK, vars, kernelVars, contextVars, viewVars, dispatchVars, faultVars
<1>2. CASE KernelNext
  BY <1>2, TypeMemoryStep, TypeContexts, TypeViews, TypeQuery, TypeBegin, TypeFinish,
     TypeDispatch, TypeCrash DEF KernelNext
<1> QED BY <1>1, <1>2

\* Every reachable state of the kernel has the types its tables give it.
THEOREM KernelTypeCorrect == KernelSpec => []KernelTypeOK
  BY InitKernelTypeOK, StepKernelTypeOK, PTL DEF KernelSpec

-----------------------------------------------------------------------------
(* The outbox, the calls and the one-shot records.                          *)

LEMMA InitUseInv == KernelInit => UseInv
<1> SUFFICES ASSUME KernelInit PROVE UseInv
  OBVIOUS
<1>1. /\ \A va \in Uses : outbox[va] = "none" /\ calls[va] = 0
      /\ \A v \in Views : viewState[v] = "unused"
      /\ tokenUsed = {} /\ inflight = {} /\ stack = <<>> /\ txn = NoTxn
  BY DEF KernelInit
<1>2. \A v \in Views, a \in Actions : ~ Recorded(v, a)
  BY <1>1 DEF Recorded, Uses
<1>3. DispatchedOnce /\ OutboxTracksEffects /\ StackDistinct
  BY <1>1 DEF DispatchedOnce, OutboxTracksEffects, StackDistinct, Outcomes, Settled
<1>4. OneActionPerView /\ OneShotRecordsAgree /\ RowMeansConsumed
  BY <1>1, <1>2 DEF OneActionPerView, OneShotRecordsAgree, RowMeansConsumed
<1>5. PolicyOnlyReads /\ OpenUseUncalled
  BY <1>1 DEF PolicyOnlyReads, OpenUseUncalled, InPolicy, Committed
<1>6. RowsBind
  BY <1>1 DEF RowsBind
<1> QED BY <1>3, <1>4, <1>5, <1>6 DEF UseInv

useVars == <<viewState, binding, tokenUsed, dispatchVars, txn, resets>>

\* Steps of the store, the contexts and the clock touch none of these.
LEMMA UseFrame == ASSUME UseInv, UNCHANGED useVars PROVE UseInv'
  BY DEF UseInv, useVars, dispatchVars, DispatchedOnce, OneActionPerView, OneShotRecordsAgree,
     OutboxTracksEffects, PolicyOnlyReads, OpenUseUncalled, RowMeansConsumed,
     StackDistinct, RowsBind, Recorded, InPolicy, Committed

\* What depends on the dispatcher's side alone.
LEMMA DispatchFrame ==
    ASSUME UseInv, UNCHANGED dispatchVars
    PROVE  DispatchedOnce' /\ OutboxTracksEffects' /\ StackDistinct'
  BY DEF UseInv, dispatchVars, DispatchedOnce, OutboxTracksEffects, StackDistinct

\* A view that is not consumed becomes another such view.
LEMMA Unconsumed ==
    ASSUME KernelTypeOK, UseInv, NEW v \in Views, NEW s \in ViewStates \ {"consumed"},
           viewState[v] # "consumed", viewState' = [viewState EXCEPT ![v] = s],
           UNCHANGED <<tokenUsed, dispatchVars, txn, resets>>
    PROVE  /\ DispatchedOnce' /\ OutboxTracksEffects' /\ StackDistinct'
           /\ OneActionPerView' /\ RowMeansConsumed' /\ OpenUseUncalled'
           /\ OneShotRecordsAgree'
<1>1. \A q \in Views : viewState'[q] = "consumed" <=> viewState[q] = "consumed"
  BY DEF KernelTypeOK
<1>2. DispatchedOnce' /\ OutboxTracksEffects' /\ StackDistinct'
  BY DispatchFrame
<1>3. OneActionPerView' /\ RowMeansConsumed' /\ OpenUseUncalled'
  BY DEF UseInv, dispatchVars, OneActionPerView, RowMeansConsumed, OpenUseUncalled, Recorded, Committed
<1>4. OneShotRecordsAgree'
  BY <1>1 DEF UseInv, dispatchVars, OneShotRecordsAgree, Recorded
<1> QED BY <1>2, <1>3, <1>4

LEMMA UseExpire ==
    ASSUME KernelTypeOK, UseInv, NEW v \in Views, ExpireView(v) PROVE UseInv'
<1>1. /\ DispatchedOnce' /\ OutboxTracksEffects' /\ StackDistinct'
      /\ OneActionPerView' /\ RowMeansConsumed' /\ OpenUseUncalled'
      /\ OneShotRecordsAgree'
  BY Unconsumed DEF ExpireView, ViewStates, faultVars
<1>2. PolicyOnlyReads'
  BY DEF ExpireView, PolicyOnlyReads, InPolicy
<1>3. RowsBind'
  BY DEF UseInv, RowsBind, ExpireView, KernelTypeOK
<1> QED BY <1>1, <1>2, <1>3 DEF UseInv

LEMMA UseQuery ==
    ASSUME KernelTypeOK, KernelTypeOK', UseInv, NEW v \in Views, NEW c \in Contexts,
           NEW effect \in Effects, NEW records \in SUBSET Records,
           QueryMemory(v, c, effect, records)
    PROVE  UseInv'
<1>1. /\ DispatchedOnce' /\ OutboxTracksEffects' /\ StackDistinct'
      /\ OneActionPerView' /\ RowMeansConsumed' /\ OpenUseUncalled'
      /\ OneShotRecordsAgree'
  BY Unconsumed DEF QueryMemory, ViewStates, faultVars
<1>2. /\ viewState[v] = "unused" /\ viewState'[v] = "pending"
      /\ \A q \in Views \ {v} : viewState'[q] = viewState[q] /\ binding'[q] = binding[q]
  BY DEF KernelTypeOK, QueryMemory
<1>3. PolicyOnlyReads'
  BY <1>2 DEF UseInv, QueryMemory, PolicyOnlyReads, InPolicy
<1>4. binding'[v] \in Bindings
  <2>1. PICK row \in Bindings : binding' = [binding EXCEPT ![v] = row]
    BY QueriedRow
  <2> QED BY <2>1 DEF KernelTypeOK
<1>5. RowsBind'
  BY <1>2, <1>4 DEF UseInv, RowsBind
<1> QED BY <1>1, <1>3, <1>5 DEF UseInv

LEMMA UseReset ==
    ASSUME KernelTypeOK, UseInv, NEW v \in Views, ResetReplayState(v)
    PROVE  UseInv'
<1>1. DispatchedOnce' /\ OutboxTracksEffects' /\ StackDistinct'
  BY DispatchFrame DEF ResetReplayState
<1>2. resets' # 0 /\ txn' = NoTxn
  BY DEF ResetReplayState, KernelTypeOK
<1>3. OneActionPerView' /\ RowMeansConsumed' /\ OpenUseUncalled' /\ PolicyOnlyReads'
  BY <1>2 DEF OneActionPerView, RowMeansConsumed, OpenUseUncalled, PolicyOnlyReads,
     InPolicy, Committed
<1>4. OneShotRecordsAgree'
  BY DEF UseInv, ResetReplayState, dispatchVars, OneShotRecordsAgree, Recorded, KernelTypeOK
<1>5. RowsBind'
  BY DEF UseInv, RowsBind, ResetReplayState, KernelTypeOK
<1> QED BY <1>1, <1>3, <1>4, <1>5 DEF UseInv

LEMMA UseBegin ==
    ASSUME KernelTypeOK, UseInv, NEW v \in Views, NEW a \in Actions, BeginExecute(v, a)
    PROVE  UseInv'
<1>1. DispatchedOnce' /\ OutboxTracksEffects' /\ StackDistinct'
  BY DispatchFrame DEF BeginExecute
<1>2. UNCHANGED <<viewState, binding, tokenUsed, outbox, resets>>
  BY DEF BeginExecute, viewVars, dispatchVars, faultVars
<1>3. OneActionPerView' /\ RowMeansConsumed' /\ OneShotRecordsAgree' /\ RowsBind'
  BY <1>2 DEF UseInv, OneActionPerView, RowMeansConsumed, OneShotRecordsAgree, RowsBind, Recorded
<1>4. txn'.phase = "policy" /\ txn'.saved.viewState = viewState /\ txn'.saved.binding = binding
  BY DEF BeginExecute, Tables
<1>5. OpenUseUncalled' /\ PolicyOnlyReads'
  BY <1>2, <1>4 DEF OpenUseUncalled, PolicyOnlyReads, InPolicy, Committed
<1> QED BY <1>1, <1>3, <1>5 DEF UseInv

\* A rollback, or a crash in its place, restores as many consumed views as
\* there are, and forgets the open call.
LEMMA UseEnds ==
    ASSUME UseInv, txn' = NoTxn, UNCHANGED <<tokenUsed, outbox, resets>>,
           InPolicy => viewState' = txn.saved.viewState /\ binding' = txn.saved.binding,
           ~ InPolicy => UNCHANGED <<viewState, binding>>
    PROVE  /\ OneActionPerView' /\ RowMeansConsumed' /\ OneShotRecordsAgree'
           /\ OpenUseUncalled' /\ PolicyOnlyReads' /\ RowsBind'
<1>1. \A q \in Views : viewState'[q] = "consumed" <=> viewState[q] = "consumed"
  BY DEF UseInv, PolicyOnlyReads
<1>2. OneActionPerView' /\ RowMeansConsumed' /\ OneShotRecordsAgree'
  BY <1>1 DEF UseInv, OneActionPerView, RowMeansConsumed, OneShotRecordsAgree, Recorded
<1>3. OpenUseUncalled' /\ PolicyOnlyReads'
  BY DEF OpenUseUncalled, PolicyOnlyReads, InPolicy, Committed
<1>4. RowsBind'
  BY DEF UseInv, PolicyOnlyReads, RowsBind
<1> QED BY <1>2, <1>3, <1>4

LEMMA UseRollback == ASSUME UseInv, InPolicy, Rollback PROVE UseInv'
<1>1. DispatchedOnce' /\ OutboxTracksEffects' /\ StackDistinct'
  BY DispatchFrame DEF Rollback
<1>2. /\ txn' = NoTxn /\ viewState' = txn.saved.viewState /\ binding' = txn.saved.binding
      /\ UNCHANGED <<tokenUsed, outbox, resets>>
  BY DEF Rollback, RestoreTables, dispatchVars, faultVars
<1> QED BY <1>1, <1>2, UseEnds DEF UseInv

LEMMA UseCrash == ASSUME UseInv, NEW p \in Policies, Crash(p) PROVE UseInv'
<1>1. /\ UNCHANGED <<tokenUsed, outbox, calls, resets>>
      /\ txn' = NoTxn /\ stack' = <<>> /\ inflight' = {}
      /\ InPolicy => viewState' = txn.saved.viewState /\ binding' = txn.saved.binding
      /\ ~ InPolicy => UNCHANGED <<viewState, binding>>
  BY DEF Crash, RestoreTables
<1>2. DispatchedOnce' /\ OutboxTracksEffects' /\ StackDistinct'
  BY <1>1 DEF UseInv, DispatchedOnce, OutboxTracksEffects, StackDistinct
<1> QED BY <1>1, <1>2, UseEnds DEF UseInv

LEMMA UseCommit ==
    ASSUME KernelTypeOK, UseInv, NEW v \in Views, NEW a \in Actions,
           Commit(v, a), viewState[v] = "pending", v \notin tokenUsed, ~ Recorded(v, a)
    PROVE  UseInv'
<1> DEFINE use == <<v, a>>
<1>0. use \in Uses
  BY DEF Uses
<1>1. /\ outbox' = [outbox EXCEPT ![use] = "authorized"]
      /\ viewState' = [viewState EXCEPT ![v] = "consumed"]
      /\ tokenUsed' = tokenUsed \cup {v}
      /\ txn'.phase = "committed" /\ txn'.view = v /\ txn'.action = a
      /\ UNCHANGED <<binding, calls, stack, inflight, resets>>
  BY DEF Commit, faultVars
<1>2. outbox[use] = "none" /\ calls[use] = 0
  BY <1>0 DEF Recorded, UseInv, OutboxTracksEffects, KernelTypeOK
<1>3. /\ outbox'[use] = "authorized"
      /\ \A va \in Uses : va # use => outbox'[va] = outbox[va]
  BY <1>0, <1>1 DEF KernelTypeOK
<1>4. \A q \in Views, b \in Actions :
         Recorded(q, b)' <=> Recorded(q, b) \/ (q = v /\ b = a)
  BY <1>3 DEF Recorded, Uses
<1>5. \A q \in Views : viewState'[q] = "consumed" <=> viewState[q] = "consumed" \/ q = v
  BY <1>1 DEF KernelTypeOK
<1>6. DispatchedOnce' /\ StackDistinct'
  BY <1>1 DEF UseInv, DispatchedOnce, StackDistinct
<1>7. OutboxTracksEffects'
  <2>0. \A i \in DOMAIN stack : stack[i] \in Uses
    BY DEF KernelTypeOK
  <2>1. \A i \in DOMAIN stack : stack[i] \in Uses /\ stack[i] # use
    BY <1>2, <2>0 DEF UseInv, OutboxTracksEffects
  <2>2. \A i \in DOMAIN stack' : outbox'[stack'[i]] = "authorized" /\ calls'[stack'[i]] > 0
    BY <1>1, <1>3, <2>1 DEF UseInv, OutboxTracksEffects
  <2>3. use \notin inflight
    BY <1>0, <1>2 DEF UseInv, OutboxTracksEffects
  <2>4. \A va \in Uses :
             /\ calls'[va] > 0 => outbox'[va] # "none"
             /\ outbox'[va] \in Outcomes => calls'[va] > 0
             /\ va \in inflight' => outbox'[va] = "pending_dispatch"
    BY <1>1, <1>2, <1>3, <2>3 DEF UseInv, OutboxTracksEffects, Outcomes, Settled
  <2> QED BY <2>2, <2>4 DEF OutboxTracksEffects, Outcomes, Settled
<1>8. RowMeansConsumed'
  BY <1>1, <1>4 DEF UseInv, RowMeansConsumed
<1>9. OneActionPerView'
  BY <1>1, <1>4 DEF UseInv, OneActionPerView, RowMeansConsumed
<1>10. OneShotRecordsAgree'
  BY <1>1, <1>4, <1>5 DEF UseInv, OneShotRecordsAgree, Recorded
<1>11. PolicyOnlyReads' /\ OpenUseUncalled'
  BY <1>1, <1>2, <1>3 DEF PolicyOnlyReads, OpenUseUncalled, InPolicy
<1>12. RowsBind'
  BY <1>1 DEF UseInv, RowsBind, KernelTypeOK
<1> QED BY <1>6, <1>7, <1>8, <1>9, <1>10, <1>11, <1>12 DEF UseInv

LEMMA UseFinish ==
    ASSUME KernelTypeOK, UseInv, NEW ok \in BOOLEAN, FinishExecute(ok) PROVE UseInv'
<1>1. InPolicy /\ txn.view \in Views /\ txn.action \in Actions
  BY TxnTypes DEF FinishExecute, PolicyTxns
<1>2. \/ /\ Commit(txn.view, txn.action)
         /\ TokenHolds(txn.view, txn.action) /\ ~ Recorded(txn.view, txn.action)
         /\ viewState[txn.view] = "pending"
      \/ Rollback
  BY DEF FinishExecute
<1>3. TokenHolds(txn.view, txn.action) => txn.view \notin tokenUsed
  BY DEF TokenHolds
<1> QED BY <1>1, <1>2, <1>3, UseCommit, UseRollback

\* The dispatcher's side never records a use that had no row, and leaves the
\* one-shot records alone.
LEMMA OneShotFrame ==
    ASSUME KernelTypeOK, UseInv, txn' = NoTxn, UNCHANGED <<viewState, binding, tokenUsed, resets>>,
           \A va \in Uses : outbox'[va] = "none" <=> outbox[va] = "none"
    PROVE  /\ OneActionPerView' /\ OneShotRecordsAgree' /\ RowMeansConsumed'
           /\ PolicyOnlyReads' /\ OpenUseUncalled' /\ RowsBind'
<1>1. \A v \in Views, a \in Actions : Recorded(v, a)' <=> Recorded(v, a)
  BY DEF Recorded, Uses
<1>2. OneActionPerView' /\ OneShotRecordsAgree' /\ RowMeansConsumed' /\ RowsBind'
  BY <1>1 DEF UseInv, OneActionPerView, OneShotRecordsAgree, RowMeansConsumed, RowsBind
<1>3. PolicyOnlyReads' /\ OpenUseUncalled'
  BY DEF PolicyOnlyReads, OpenUseUncalled, InPolicy, Committed
<1> QED BY <1>2, <1>3

LEMMA UseCall == ASSUME KernelTypeOK, UseInv, CallDispatcher PROVE UseInv'
<1> DEFINE use == <<txn.view, txn.action>>
<1>1. use \in Uses /\ outbox[use] = "authorized" /\ calls[use] = 0
  BY TxnTypes DEF CallDispatcher, CommittedTxns, Uses, UseInv, OpenUseUncalled
<1>2. /\ calls' = [calls EXCEPT ![use] = calls[use] + 1]
      /\ stack' = Append(stack, use) /\ txn' = NoTxn
      /\ UNCHANGED <<viewState, binding, tokenUsed, outbox, inflight, resets>>
  BY DEF CallDispatcher, viewVars, faultVars
<1> HIDE DEF use
<1>3. calls'[use] = 1 /\ \A va \in Uses : va # use => calls'[va] = calls[va]
  BY <1>1, <1>2 DEF KernelTypeOK
<1>4. /\ OneActionPerView' /\ OneShotRecordsAgree' /\ RowMeansConsumed'
      /\ PolicyOnlyReads' /\ OpenUseUncalled' /\ RowsBind'
  BY <1>2, OneShotFrame
<1>5. DispatchedOnce'
  BY <1>3 DEF UseInv, DispatchedOnce
<1>6. /\ Len(stack) \in Nat
      /\ \A i \in DOMAIN stack : i \in Nat /\ stack[i] \in Uses /\ stack[i] # use
  BY <1>1 DEF UseInv, OutboxTracksEffects, KernelTypeOK
<1>7. \A i \in DOMAIN stack' :
         \/ i \in DOMAIN stack /\ stack'[i] = stack[i]
         \/ i = Len(stack) + 1 /\ stack'[i] = use
  BY <1>1, <1>2 DEF KernelTypeOK
<1>8. StackDistinct'
  BY <1>6, <1>7 DEF UseInv, StackDistinct
<1>9. OutboxTracksEffects'
  <2>1. \A va \in Uses :
             /\ calls'[va] > 0 => outbox'[va] # "none"
             /\ outbox'[va] \in Outcomes => calls'[va] > 0
             /\ va \in inflight' => outbox'[va] = "pending_dispatch"
    BY <1>1, <1>2, <1>3 DEF UseInv, OutboxTracksEffects
  <2>2. \A i \in DOMAIN stack' : outbox'[stack'[i]] = "authorized" /\ calls'[stack'[i]] > 0
    BY <1>1, <1>2, <1>3, <1>6, <1>7 DEF UseInv, OutboxTracksEffects
  <2> QED BY <2>1, <2>2 DEF OutboxTracksEffects, Outcomes, Settled
<1> QED BY <1>4, <1>5, <1>8, <1>9 DEF UseInv

LEMMA UseReturn ==
    ASSUME KernelTypeOK, UseInv, NEW status \in Outcomes, DispatcherReturns(status)
    PROVE  UseInv'
<1> DEFINE use == stack[Len(stack)]
<1>1. /\ Len(stack) \in Nat /\ Len(stack) > 0 /\ Len(stack) \in DOMAIN stack
      /\ use \in Uses /\ outbox[use] = "authorized" /\ calls[use] > 0
  BY DEF DispatcherReturns, KernelTypeOK, UseInv, OutboxTracksEffects
<1>2. /\ outbox' = [outbox EXCEPT ![use] = status]
      /\ inflight' = IF status = "pending_dispatch" THEN inflight \cup {use} ELSE inflight
      /\ txn' = NoTxn
      /\ UNCHANGED <<viewState, binding, tokenUsed, calls, resets>>
  BY DEF DispatcherReturns, viewVars, faultVars
<1>3. \A i \in DOMAIN stack' : /\ i \in DOMAIN stack /\ stack'[i] = stack[i]
                               /\ stack[i] \in Uses /\ stack[i] # use
  <2>1. stack' = SubSeq(stack, 1, Len(stack) - 1)
    BY DEF DispatcherReturns
  <2>2. \A i \in DOMAIN stack' : /\ i \in DOMAIN stack /\ stack'[i] = stack[i]
                                 /\ stack[i] \in Uses /\ i # Len(stack)
    BY <1>1, <2>1 DEF KernelTypeOK
  <2> QED BY <1>1, <2>2 DEF UseInv, StackDistinct
<1> HIDE DEF use
<1>4. outbox'[use] = status /\ \A va \in Uses : va # use => outbox'[va] = outbox[va]
  BY <1>1, <1>2 DEF KernelTypeOK
<1>5. status # "none" /\ status # "authorized"
  BY DEF Outcomes, Settled
<1>6. /\ OneActionPerView' /\ OneShotRecordsAgree' /\ RowMeansConsumed'
      /\ PolicyOnlyReads' /\ OpenUseUncalled' /\ RowsBind'
  BY <1>1, <1>2, <1>4, <1>5, OneShotFrame
<1>7. DispatchedOnce' /\ StackDistinct'
  BY <1>2, <1>3 DEF UseInv, DispatchedOnce, StackDistinct
<1>8. OutboxTracksEffects'
  <2>1. use \notin inflight
    BY <1>1 DEF UseInv, OutboxTracksEffects
  <2>2. \A va \in Uses :
             /\ calls'[va] > 0 => outbox'[va] # "none"
             /\ outbox'[va] \in Outcomes => calls'[va] > 0
             /\ va \in inflight' => outbox'[va] = "pending_dispatch"
    BY <1>1, <1>2, <1>4, <1>5, <2>1 DEF UseInv, OutboxTracksEffects
  <2>3. \A i \in DOMAIN stack' : outbox'[stack'[i]] = "authorized" /\ calls'[stack'[i]] > 0
    BY <1>2, <1>3, <1>4 DEF UseInv, OutboxTracksEffects
  <2> QED BY <2>2, <2>3 DEF OutboxTracksEffects, Outcomes, Settled
<1> QED BY <1>6, <1>7, <1>8 DEF UseInv

LEMMA UseSettle ==
    ASSUME KernelTypeOK, UseInv, NEW va \in Uses, NEW status \in Settled, Settle(va, status)
    PROVE  UseInv'
<1>1. /\ outbox' = [outbox EXCEPT ![va] = status] /\ inflight' = inflight \ {va}
      /\ stack = <<>> /\ txn' = NoTxn
      /\ UNCHANGED <<viewState, binding, tokenUsed, calls, stack, resets>>
  BY DEF Settle, viewVars, faultVars
<1>2. outbox[va] = "pending_dispatch" /\ calls[va] > 0
  BY DEF Settle, UseInv, OutboxTracksEffects, Outcomes
<1>3. outbox'[va] = status /\ \A q \in Uses : q # va => outbox'[q] = outbox[q]
  BY <1>1 DEF KernelTypeOK
<1>4. status # "none" /\ status \in Outcomes
  BY DEF Outcomes, Settled
<1>5. /\ OneActionPerView' /\ OneShotRecordsAgree' /\ RowMeansConsumed'
      /\ PolicyOnlyReads' /\ OpenUseUncalled' /\ RowsBind'
  BY <1>1, <1>2, <1>3, <1>4, OneShotFrame
<1>6. DispatchedOnce' /\ StackDistinct'
  BY <1>1 DEF UseInv, DispatchedOnce, StackDistinct
<1>7. OutboxTracksEffects'
  <2>1. \A q \in Uses :
             /\ calls'[q] > 0 => outbox'[q] # "none"
             /\ outbox'[q] \in Outcomes => calls'[q] > 0
             /\ q \in inflight' => outbox'[q] = "pending_dispatch"
    BY <1>1, <1>2, <1>3, <1>4 DEF UseInv, OutboxTracksEffects
  <2> QED BY <1>1, <2>1 DEF OutboxTracksEffects, Outcomes, Settled
<1> QED BY <1>5, <1>6, <1>7 DEF UseInv

LEMMA StepUseInv == KernelInv /\ [KernelNext]_vars => UseInv'
<1> SUFFICES ASSUME KernelTypeOK, UseInv, [KernelNext]_vars PROVE UseInv'
  BY DEF KernelInv
<1>1. CASE UNCHANGED vars \/ MemoryStep
  BY <1>1, UseFrame DEF vars, kernelVars, viewVars, faultVars, useVars, MemoryStep
<1>2. ASSUME NEW c \in Contexts,
             (\E level \in 0..2 : Attach(c, level)) \/ Send(c) \/ Complete(c) \/ TakeOver(c)
      PROVE  UseInv'
  BY <1>2, UseFrame DEF Attach, Send, Complete, TakeOver, MoveContext, viewVars, faultVars, useVars
<1>3. ASSUME NEW v \in Views, GrowOld(v) PROVE UseInv'
  BY <1>3, UseFrame DEF GrowOld, faultVars, useVars
<1>4. ASSUME NEW v \in Views, NEW c \in Contexts, NEW e \in Effects,
             NEW s \in SUBSET Records, QueryMemory(v, c, e, s)
      PROVE  UseInv'
  BY <1>4, TypeQuery, UseQuery
<1>5. CASE KernelNext
  BY <1>1, <1>2, <1>3, <1>4, <1>5, UseExpire, UseReset, UseBegin, UseFinish, UseCall, UseReturn,
     UseSettle, UseCrash DEF KernelNext
<1> QED BY <1>1, <1>5

\* The types and the relations between outbox, calls and one-shot records hold
\* in every reachable state.
THEOREM KernelCorrect == KernelSpec => []KernelInv
<1>1. KernelInit => KernelInv
  BY InitKernelTypeOK, InitUseInv DEF KernelInv
<1>2. KernelInv /\ [KernelNext]_vars => KernelInv'
  BY StepKernelTypeOK, StepUseInv DEF KernelInv
<1> QED BY <1>1, <1>2, PTL DEF KernelSpec

\* No action is handed to the dispatcher twice for one view.
THEOREM AtMostOneDispatch == KernelSpec => []DispatchedOnce
<1>1. KernelInv => DispatchedOnce
  BY DEF KernelInv, UseInv
<1> QED BY <1>1, KernelCorrect, PTL

\* A view whose replay state is not reset authorizes one action.
THEOREM OneAuthorization == KernelSpec => []OneActionPerView
<1>1. KernelInv => OneActionPerView
  BY DEF KernelInv, UseInv
<1> QED BY <1>1, KernelCorrect, PTL

\* The view's row, its token and the outbox never disagree about its use.
THEOREM OneShotAgreement == KernelSpec => []OneShotRecordsAgree
<1>1. KernelInv => OneShotRecordsAgree
  BY DEF KernelInv, UseInv
<1> QED BY <1>1, KernelCorrect, PTL

\* The outbox records each effect before it happens and no outcome too early.
THEOREM OutboxIsTruthful == KernelSpec => []OutboxTracksEffects
<1>1. KernelInv => OutboxTracksEffects
  BY DEF KernelInv, UseInv
<1> QED BY <1>1, KernelCorrect, PTL

-----------------------------------------------------------------------------
(* The kernel's store.  A rollback and a crash take delegations back, which *)
(* no action of SharedMemory does, so KernelSpec does not imply MemorySpec  *)
(* and what readers rely on is proved again, from the same lemmas.          *)

\* A step of the kernel moves the clock, the messages and the records by an
\* action of SharedMemory or not at all.
LEMMA KernelMovesMemory ==
    ASSUME KernelNext
    PROVE  (MemoryStep /\ MemoryNext) \/ UNCHANGED <<clock, msgSeq, writeSeq>>
<1>1. CASE MemoryStep
  BY <1>1 DEF MemoryStep, MemoryNext
<1>2. ASSUME NEW c \in Contexts,
             (\E level \in 0..2 : Attach(c, level)) \/ Send(c) \/ Complete(c) \/ TakeOver(c)
      PROVE  UNCHANGED <<clock, msgSeq, writeSeq>>
  BY <1>2 DEF Attach, Send, Complete, TakeOver, MoveContext, memoryVars
<1>3. ASSUME NEW v \in Views, GrowOld(v) \/ ExpireView(v) \/ ResetReplayState(v)
      PROVE  UNCHANGED <<clock, msgSeq, writeSeq>>
  BY <1>3 DEF GrowOld, ExpireView, ResetReplayState, memoryVars
<1>4. ASSUME NEW v \in Views, NEW c \in Contexts, NEW e \in Effects,
             NEW s \in SUBSET Records, QueryMemory(v, c, e, s)
      PROVE  UNCHANGED <<clock, msgSeq, writeSeq>>
  BY <1>4 DEF QueryMemory, memoryVars
<1>5. ASSUME NEW v \in Views, NEW a \in Actions, BeginExecute(v, a)
      PROVE  UNCHANGED <<clock, msgSeq, writeSeq>>
  BY <1>5 DEF BeginExecute, memoryVars
<1>6. ASSUME NEW ok \in BOOLEAN, FinishExecute(ok)
      PROVE  UNCHANGED <<clock, msgSeq, writeSeq>>
  BY <1>6 DEF FinishExecute, Commit, Rollback, memoryVars
<1>7. ASSUME \/ CallDispatcher
             \/ \E status \in Outcomes : DispatcherReturns(status)
             \/ \E va \in Uses, status \in Settled : Settle(va, status)
             \/ \E p \in Policies : Crash(p)
      PROVE  UNCHANGED <<clock, msgSeq, writeSeq>>
  BY <1>7 DEF CallDispatcher, DispatcherReturns, Settle, Crash, memoryVars
<1> QED BY <1>1, <1>2, <1>3, <1>4, <1>5, <1>6, <1>7 DEF KernelNext

LEMMA KernelClock == KernelSpec => []ClockIsAhead
<1>1. KernelInit => ClockIsAhead
  BY InitClockIsAhead DEF KernelInit
<1>2. TypeOK /\ ClockIsAhead /\ [KernelNext]_vars => ClockIsAhead'
  <2> SUFFICES ASSUME TypeOK, ClockIsAhead, [KernelNext]_vars PROVE ClockIsAhead'
    OBVIOUS
  <2>1. CASE MemoryNext
    BY <2>1, StepClockIsAhead
  <2>2. CASE UNCHANGED <<clock, msgSeq, writeSeq>>
    BY <2>2 DEF ClockIsAhead, Sent
  <2>3. CASE UNCHANGED vars
    BY <2>2, <2>3 DEF vars, memoryVars
  <2> QED BY <2>1, <2>2, <2>3, KernelMovesMemory
<1>3. KernelTypeOK => TypeOK
  BY DEF KernelTypeOK
<1> QED BY <1>1, <1>2, <1>3, KernelTypeCorrect, PTL DEF KernelSpec

\* A view's row was written by the query that read it: nothing else makes one or
\* changes what it binds, rollbacks and restarts included.
LEMMA RowsComeFromReads ==
    ASSUME KernelInv, [KernelNext]_vars, NEW v \in Views, viewState'[v] # "unused"
    PROVE  \/ viewState[v] # "unused" /\ binding'[v] = binding[v]
           \/ \E c \in Contexts, e \in Effects, s \in SUBSET Records : QueryMemory(v, c, e, s)
<1> DEFINE Kept == viewState[v] # "unused" /\ binding'[v] = binding[v]
<1>0. KernelTypeOK /\ PolicyOnlyReads
  BY DEF KernelInv, UseInv
<1>1. ASSUME UNCHANGED <<viewState, binding>> PROVE Kept
  BY <1>1
<1>2. ASSUME InPolicy, RestoreTables PROVE Kept
  BY <1>0, <1>2 DEF RestoreTables, PolicyOnlyReads
<1>3. ASSUME NEW c \in Contexts,
             (\E level \in 0..2 : Attach(c, level)) \/ Send(c) \/ Complete(c) \/ TakeOver(c)
      PROVE  Kept
  BY <1>1, <1>3 DEF Attach, Send, Complete, TakeOver, MoveContext, viewVars
<1>4. ASSUME NEW w \in Views, GrowOld(w) \/ ExpireView(w) \/ ResetReplayState(w) PROVE Kept
  BY <1>0, <1>4 DEF GrowOld, ExpireView, ResetReplayState, KernelTypeOK
<1>5. ASSUME NEW w \in Views, NEW c \in Contexts, NEW e \in Effects, NEW s \in SUBSET Records,
             QueryMemory(w, c, e, s), w # v
      PROVE  Kept
  BY <1>0, <1>5 DEF QueryMemory, KernelTypeOK
<1>6. ASSUME NEW w \in Views, NEW a \in Actions, BeginExecute(w, a) PROVE Kept
  BY <1>1, <1>6 DEF BeginExecute, viewVars
<1>7. ASSUME NEW ok \in BOOLEAN, FinishExecute(ok) PROVE Kept
  <2>1. CASE Rollback
    BY <1>2, <1>7, <2>1 DEF Rollback, FinishExecute
  <2>2. CASE ~ Rollback
    <3>1. /\ viewState[txn.view] = "pending" /\ UNCHANGED binding
          /\ viewState' = [viewState EXCEPT ![txn.view] = "consumed"]
      BY <1>7, <2>2 DEF FinishExecute, Commit
    <3> QED BY <1>0, <3>1 DEF KernelTypeOK
  <2> QED BY <2>1, <2>2
<1>8. ASSUME \/ CallDispatcher
             \/ \E status \in Outcomes : DispatcherReturns(status)
             \/ \E va \in Uses, status \in Settled : Settle(va, status)
      PROVE  Kept
  BY <1>1, <1>8 DEF CallDispatcher, DispatcherReturns, Settle, viewVars
<1>9. ASSUME NEW p \in Policies, Crash(p) PROVE Kept
  BY <1>1, <1>2, <1>9 DEF Crash
<1>10. ASSUME UNCHANGED vars \/ MemoryStep PROVE Kept
  BY <1>1, <1>10 DEF vars, kernelVars, viewVars, MemoryStep
<1> DEFINE Queried(w) == \E c \in Contexts, e \in Effects, s \in SUBSET Records :
                             QueryMemory(w, c, e, s)
<1>11. ASSUME NEW w \in Views, Queried(w) PROVE Kept \/ Queried(v)
  BY <1>5, <1>11
<1> HIDE DEF Kept, Queried
<1>12. ASSUME KernelNext PROVE Kept \/ Queried(v)
  <2>1. (\E w \in Views : Queried(w)) => Kept \/ Queried(v)
    BY <1>11
  <2> QED BY <1>3, <1>4, <1>6, <1>7, <1>8, <1>9, <1>10, <1>12, <2>1 DEF KernelNext, Queried
<1> QED BY <1>10, <1>12 DEF Kept, Queried

\* No step of the kernel refuses a read that went through before it.
LEMMA KernelReadersStay ==
    ASSUME TypeOK, ClockIsAhead, [KernelNext]_vars, NEW m \in Readers
    PROVE  m \in Readers'
<1>1. CASE MemoryNext /\ (msgSeq' # msgSeq \/ writeSeq' # writeSeq)
  BY <1>1, StepPastIsSettled
<1>2. CASE UNCHANGED msgSeq
  BY <1>2 DEF Readers, InOrder, Sent
<1> QED BY <1>1, <1>2, KernelMovesMemory DEF vars, memoryVars

\* The reads of the message behind a view's row go through: the query that wrote
\* the row was one.
AnchorsReadable == \A v \in Views : viewState[v] # "unused" => Anchor(v) \in Readers

LEMMA KernelAnchorsReadable == KernelSpec => []AnchorsReadable
<1>1. KernelInit => AnchorsReadable
  BY DEF KernelInit, AnchorsReadable
<1>2. KernelInv /\ ClockIsAhead /\ AnchorsReadable /\ [KernelNext]_vars => AnchorsReadable'
  <2> SUFFICES ASSUME KernelInv, ClockIsAhead, AnchorsReadable, [KernelNext]_vars,
                      NEW v \in Views, viewState'[v] # "unused"
               PROVE  Anchor(v)' \in Readers'
    BY DEF AnchorsReadable
  <2>1. KernelTypeOK /\ TypeOK
    BY DEF KernelInv, KernelTypeOK
  <2>2. Anchor(v)' \in Readers
    <3>1. CASE viewState[v] # "unused" /\ binding'[v] = binding[v]
      BY <3>1 DEF AnchorsReadable, Anchor
    <3>2. ASSUME NEW c \in Contexts, NEW e \in Effects, NEW s \in SUBSET Records,
                 QueryMemory(v, c, e, s)
          PROVE  Anchor(v)' \in Readers
      BY <2>1, <3>2 DEF QueryMemory, KernelTypeOK, Anchor
    <3> QED BY <3>1, <3>2, RowsComeFromReads
  <2> QED BY <2>1, <2>2, KernelReadersStay
<1> QED BY <1>1, <1>2, KernelCorrect, KernelClock, PTL DEF KernelSpec

\* Every read the kernel can make, whatever was rolled back or lost in a crash
\* before it, serves one version of a decision, stays within the ceilings of
\* what it exposes, keeps restrictions and obeys the resolution in force.
THEOREM KernelReads ==
    KernelSpec => [](OneVersionServed /\ ViewWithinCeilings /\ RestrictionsHold /\ ResolutionGoverns)
<1>1. KernelTypeOK => OneVersionServed /\ ViewWithinCeilings /\ RestrictionsHold /\ ResolutionGoverns
  BY ReadPathOneVersion, ReadPathCeilings, ReadPathRestrictions, ReadPathResolution
     DEF KernelTypeOK
<1> QED BY <1>1, KernelTypeCorrect, PTL

\* In whatever state of views and transactions, no message and no write refuses
\* a read that went through, changes what it returns or widens its capability.
THEOREM KernelPast == KernelSpec => PastIsSettled /\ WritesNeverWiden
<1>1. KernelTypeOK => TypeOK
  BY DEF KernelTypeOK
<1>2. TypeOK /\ ClockIsAhead /\ [KernelNext]_vars
        => [(msgSeq' # msgSeq \/ writeSeq' # writeSeq)
              => \A m \in Readers : m \in Readers' /\ Served(m)' = Served(m)]_memoryVars
  <2> SUFFICES ASSUME TypeOK, ClockIsAhead, KernelNext, msgSeq' # msgSeq \/ writeSeq' # writeSeq
               PROVE  \A m \in Readers : m \in Readers' /\ Served(m)' = Served(m)
    BY DEF vars, memoryVars
  <2> QED BY KernelMovesMemory, StepPastIsSettled
<1>3. TypeOK /\ ClockIsAhead /\ [KernelNext]_vars
        => [writeSeq' # writeSeq
              => \A m \in Readers : /\ Capability(m)' \subseteq Capability(m)
                                    /\ Bounded(m) => Bounded(m)']_memoryVars
  <2> SUFFICES ASSUME TypeOK, ClockIsAhead, KernelNext, writeSeq' # writeSeq
               PROVE  \A m \in Readers :
                         Capability(m)' \subseteq Capability(m) /\ (Bounded(m) => Bounded(m)')
    BY DEF vars, memoryVars
  <2> QED BY KernelMovesMemory, StepWritesNeverWiden
<1> QED BY <1>1, <1>2, <1>3, KernelTypeCorrect, KernelClock, PTL
        DEF KernelSpec, PastIsSettled, WritesNeverWiden

-----------------------------------------------------------------------------
(* Calls a destination policy may make that this module leaves out.         *)

\* Sending a message, or writing a record of no decision and no ceiling, is
\* seen by no view: its root stays what it was.
LEMMA PlainCallsKeepRoots ==
    ASSUME TypeOK, ClockIsAhead, NEW m \in Readers,
           \/ \E n \in Messages, seq \in Int : SendMessage(n, seq)
           \/ \E w \in Records : Rec[w].key = NoKey /\ Rec[w].ceiling = {} /\ WriteMemory(w)
    PROVE  m \in Readers' /\ ViewRoot(m)' = ViewRoot(m)
<1> DEFINE run == Msg[m].run
<1>1. /\ m \in Readers' /\ Served(m)' = Served(m) /\ Stored \subseteq Stored'
      /\ \A r \in Stored : Verdict(m, r)' = Verdict(m, r)
  BY PastSettled
<1>2. /\ UNCHANGED <<resolutions, policy>>
      /\ \A r \in Stored' \ Stored : Rec[r].key = NoKey /\ Rec[r].ceiling = {}
  <2>1. CASE \E n \in Messages, seq \in Int : SendMessage(n, seq)
    BY <2>1 DEF SendMessage, Stored
  <2>2. CASE \E w \in Records : Rec[w].key = NoKey /\ Rec[w].ceiling = {} /\ WriteMemory(w)
    <3>1. PICK w \in Records : Rec[w].key = NoKey /\ Rec[w].ceiling = {} /\ WriteMemory(w)
      BY <2>2
    <3>2. /\ UNCHANGED <<resolutions, policy>>
          /\ writeSeq' = [writeSeq EXCEPT ![w] = clock[RunOf(w)]]
      BY <3>1 DEF WriteMemory
    <3>3. Stored' \ Stored \subseteq {w}
      BY <3>2 DEF Stored, TypeOK
    <3> QED BY <3>1, <3>2, <3>3
  <2> QED BY <2>1, <2>2
<1>3. \A k : /\ CertInForce(run, k)' = CertInForce(run, k)
             /\ Accepted(run, k)' = Accepted(run, k) /\ Covered(run, k)' = Covered(run, k)
  BY <1>2, CertFrame
<1>4. Certified(m)' = Certified(m) /\ \A k : ServedKey(m, k)' <=> ServedKey(m, k)
  BY <1>1, <1>3 DEF Certified, ServedKey
<1>5. ASSUME NEW k \in Keys PROVE CertCeilings(m, k)' = CertCeilings(m, k)
  <2>1. CertStale(m, k)' <=> CertStale(m, k)
    BY SignedFields, <1>1, <1>2, <1>3 DEF CertStale
  <2>2. CASE CertStale(m, k) \/ ~ (Accepted(run, k) \subseteq Served(m))
    BY <1>1, <1>3, <2>1, <2>2 DEF CertCeilings
  <2>3. CASE ~ CertStale(m, k) /\ Accepted(run, k) \subseteq Served(m)
    BY <1>1, <1>3, <2>1, <2>3 DEF CertCeilings
  <2> QED BY <2>2, <2>3
<1>6. \A r \in Stored : Caps(m, r)' <=> Caps(m, r)
  BY <1>1, <1>4 DEF Caps
<1>7. (UNION {CertCeilings(m, k) : k \in Certified(m)})'
         = UNION {CertCeilings(m, k) : k \in Certified(m)}
  BY <1>4, <1>5 DEF Certified
<1>8. (UNION {Rec[r].ceiling : r \in {s \in Stored : Caps(m, s)}})'
         = UNION {Rec[r].ceiling : r \in {s \in Stored : Caps(m, s)}}
  BY <1>1, <1>2, <1>6
<1>9. Ceilings(m)' = Ceilings(m)
  BY <1>7, <1>8 DEF Ceilings
<1>10. Capability(m)' = Capability(m) /\ Bounded(m)' = Bounded(m)
  BY <1>9 DEF Capability, Bounded
<1> QED BY <1>1, <1>2, <1>10 DEF ViewRoot

\* Nor does it move an epoch that a read token remembers.
LEMMA PlainCallsKeepEpochs ==
    ASSUME TypeOK, NEW m \in Messages, NEW records \in SUBSET Records,
           \/ \E n \in Messages, seq \in Int : SendMessage(n, seq)
           \/ \E w \in Records : Rec[w].key = NoKey /\ WriteMemory(w)
    PROVE  EpochsOf(m, records)' = EpochsOf(m, records)
<1>1. UNCHANGED <<resolutions, keyVersion>>
  BY DEF SendMessage, WriteMemory, BumpKey
<1>2. Stored \subseteq Stored' /\ \A r \in Stored' \ Stored : Rec[r].key = NoKey
  <2>1. CASE \E n \in Messages, seq \in Int : SendMessage(n, seq)
    BY <2>1 DEF SendMessage, Stored
  <2>2. CASE \E w \in Records : Rec[w].key = NoKey /\ WriteMemory(w)
    <3>1. PICK w \in Records : Rec[w].key = NoKey /\ WriteMemory(w)
      BY <2>2
    <3>2. w \notin Stored /\ writeSeq' = [writeSeq EXCEPT ![w] = clock[RunOf(w)]]
      BY <3>1 DEF WriteMemory
    <3>3. Stored \subseteq Stored' /\ Stored' \ Stored \subseteq {w}
      BY <3>2 DEF Stored, TypeOK
    <3> QED BY <3>1, <3>3
  <2> QED BY <2>1, <2>2
<1>3. \A run : \A k \in Keys : ConflictSet(run, k)' = ConflictSet(run, k)
  BY <1>2, SignedFields DEF ConflictSet
<1>4. \A run : \A k \in Keys : KeyEpoch(run, k)' = KeyEpoch(run, k)
  BY <1>1, <1>3 DEF KeyEpoch
<1>5. \A k \in {Rec[r].key : r \in records} \ {NoKey} : k \in Keys
  BY SignedFields DEF RecFields
<1> QED BY <1>4, <1>5 DEF EpochsOf

\* What lets this module leave out the messages and plain records a policy
\* may write inside the transaction: the open call that made them decides the
\* same with them and without.
THEOREM PlainCallsUnseen ==
    ASSUME KernelInv, ClockIsAhead, AnchorsReadable, NEW v \in Views, viewState[v] # "unused",
           UNCHANGED <<ctx, viewVars>>,
           \/ \E n \in Messages, seq \in Int : SendMessage(n, seq)
           \/ \E w \in Records : Rec[w].key = NoKey /\ Rec[w].ceiling = {} /\ WriteMemory(w)
    PROVE  /\ ViewHolds(v)' <=> ViewHolds(v)
           /\ \A a \in Actions : /\ TokenHolds(v, a)' <=> TokenHolds(v, a)
                                 /\ \A ok \in BOOLEAN :
                                      ActionAllowed(v, a, ok)' <=> ActionAllowed(v, a, ok)
<1> DEFINE m == Anchor(v)
<1>1. /\ TypeOK /\ m \in Readers /\ m \in Messages /\ m' = m
      /\ UNCHANGED <<binding, tokenUsed, age>> /\ binding[v].records \in SUBSET Records
  <2>1. TypeOK /\ m \in Readers /\ m' = m /\ UNCHANGED <<binding, tokenUsed, age>>
    BY DEF KernelInv, KernelTypeOK, AnchorsReadable, Anchor, viewVars
  <2>2. binding[v].records \in SUBSET Records
    BY DEF KernelInv, UseInv, RowsBind, Bindings
  <2> QED BY <2>1, <2>2, ReaderType
<1>2. m \in Readers' /\ ViewRoot(m)' = ViewRoot(m)
  BY <1>1, PlainCallsKeepRoots
<1>3. EpochsOf(m, binding[v].records)' = EpochsOf(m, binding[v].records)
  BY <1>1, PlainCallsKeepEpochs
<1>4. UNCHANGED <<policy, resolutions, retired>>
  BY DEF SendMessage, WriteMemory
<1>5. \A a \in Actions : TokenHolds(v, a)' <=> TokenHolds(v, a)
  BY <1>1, <1>3, <1>4 DEF TokenHolds
<1>6. Served(m)' = Served(m) /\ Capability(m)' = Capability(m) /\ Bounded(m)' = Bounded(m)
  BY <1>1, <1>2 DEF ViewRoot
<1>7. \A a \in Actions, ok \in BOOLEAN : ActionAllowed(v, a, ok)' <=> ActionAllowed(v, a, ok)
  BY <1>1, <1>6 DEF ActionAllowed, Permits
<1> QED BY <1>1, <1>2, <1>5, <1>7 DEF ViewHolds
=============================================================================
