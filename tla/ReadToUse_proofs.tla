-------------------------- MODULE ReadToUse_proofs --------------------------
(***************************************************************************)
(* Two results about a view's read and its use.  The kernel implements      *)
(* AuthorizedUse: each of its steps is a step of the abstract specification *)
(* or leaves it alone.  And an authorized effect is within the ceilings of  *)
(* all the memory behind it.  The first half shows that a view's root moves *)
(* only when the store moves; KernelInv does the rest.                      *)
(***************************************************************************)
EXTENDS AuthorizationKernel_proofs

-----------------------------------------------------------------------------
(* The read path depends on nothing but the store.                           *)

LEMMA StoreFrame ==
    ASSUME UNCHANGED memoryVars
    PROVE  /\ Stored' = Stored /\ Sent' = Sent
           /\ \A run \in Runs, k \in Keys : CertInForce(run, k)' = CertInForce(run, k)
           /\ \A m \in Messages : DelegatedTo(m)' = DelegatedTo(m)
<1>0. /\ writeSeq' = writeSeq /\ msgSeq' = msgSeq /\ retired' = retired
      /\ resolutions' = resolutions /\ delegations' = delegations /\ policy' = policy
  BY DEF memoryVars
<1>1. Stored' = Stored /\ Sent' = Sent
  BY <1>0 DEF Stored, Sent
<1>2. ASSUME NEW run \in Runs, NEW k \in Keys PROVE CertInForce(run, k)' = CertInForce(run, k)
  <2>1. CertsFor(run, k)' = CertsFor(run, k)
    BY <1>0 DEF CertsFor
  <2> QED BY <1>0, <2>1 DEF CertInForce
<1>3. ASSUME NEW m \in Messages PROVE DelegatedTo(m)' = DelegatedTo(m)
  BY <1>0 DEF DelegatedTo
<1> QED BY <1>1, <1>2, <1>3

LEMMA GateFrame ==
    ASSUME UNCHANGED memoryVars, NEW m \in Messages
    PROVE  /\ \A r \in Records : GateReason(m, r)' = GateReason(m, r)
           /\ Admitted(m)' = Admitted(m)
           /\ \A k \in Keys : Rivals(m, k)' = Rivals(m, k)
           /\ AdoptedBy(m)' = AdoptedBy(m)
<1>1. /\ writeSeq' = writeSeq /\ msgSeq' = msgSeq /\ retired' = retired
      /\ Stored' = Stored /\ Sent' = Sent /\ DelegatedTo(m)' = DelegatedTo(m)
  BY StoreFrame DEF memoryVars
<1>2. ASSUME NEW r \in Records PROVE GateReason(m, r)' = GateReason(m, r)
  BY <1>1 DEF GateReason, RunOf, TaskOf
<1>3. Stored \subseteq Records
  BY DEF Stored
<1>4. Admitted(m)' = Admitted(m)
  BY <1>1, <1>2, <1>3 DEF Admitted
<1>5. AdoptedBy(m)' = AdoptedBy(m)
  BY <1>1 DEF AdoptedBy
<1> QED BY <1>2, <1>4, <1>5 DEF Rivals

LEMMA VersionsFrame ==
    ASSUME UNCHANGED memoryVars, NEW m \in Messages, NEW k \in Keys
    PROVE  /\ Dominated(m, k)' = Dominated(m, k)
           /\ Maximal(m, k)' = Maximal(m, k)
           /\ AdoptWinners(m, k)' = AdoptWinners(m, k)
<1>1. Rivals(m, k)' = Rivals(m, k) /\ AdoptedBy(m)' = AdoptedBy(m)
  BY GateFrame
<1>2. Dominated(m, k)' = Dominated(m, k)
  BY <1>1 DEF Dominated, Dominates
<1>3. Maximal(m, k)' = Maximal(m, k)
  BY <1>1, <1>2 DEF Maximal
<1> QED BY <1>1, <1>2, <1>3 DEF AdoptWinners

LEMMA VerdictFrame ==
    ASSUME UNCHANGED memoryVars, NEW m \in Messages
    PROVE  /\ \A r \in Records : Verdict(m, r)' = Verdict(m, r)
           /\ Served(m)' = Served(m)
<1>1. ASSUME NEW r \in Records PROVE CoherentReason(m, r)' = CoherentReason(m, r)
  <2>1. CASE Rec[r].key = NoKey
    BY <2>1 DEF CoherentReason
  <2>2. CASE Rec[r].key # NoKey
    <3> DEFINE k == Rec[r].key
               run == Msg[m].run
    <3>1. k \in Keys /\ run \in Runs
      BY <2>2, SignedFields DEF RecFields, MsgFields
    <3>2. CertInForce(run, k)' = CertInForce(run, k)
      BY <3>1, StoreFrame
    <3>3. Accepted(run, k)' = Accepted(run, k) /\ Covered(run, k)' = Covered(run, k)
      BY <3>2 DEF Accepted, Covered
    <3>4. Rivals(m, k)' = Rivals(m, k)
      BY <3>1, GateFrame
    <3>5. /\ Dominated(m, k)' = Dominated(m, k) /\ Maximal(m, k)' = Maximal(m, k)
          /\ AdoptWinners(m, k)' = AdoptWinners(m, k)
      BY <3>1, VersionsFrame
    <3> QED BY <3>2, <3>3, <3>4, <3>5 DEF CoherentReason
  <2> QED BY <2>1, <2>2
<1>2. ASSUME NEW r \in Records PROVE Verdict(m, r)' = Verdict(m, r)
  BY <1>1, GateFrame DEF Verdict
<1>3. Stored' = Stored /\ Stored \subseteq Records
  BY StoreFrame DEF Stored
<1> QED BY <1>2, <1>3 DEF Served

LEMMA CeilingsFrame ==
    ASSUME UNCHANGED memoryVars, NEW m \in Messages
    PROVE  Ceilings(m)' = Ceilings(m)
<1>1. Stored' = Stored /\ Stored \subseteq Records /\ Served(m)' = Served(m)
  BY StoreFrame, VerdictFrame DEF Stored
<1>2. Msg[m].run \in Runs
  BY SignedFields DEF MsgFields
<1>3. ASSUME NEW k \in Keys
      PROVE  /\ Accepted(Msg[m].run, k)' = Accepted(Msg[m].run, k)
             /\ Covered(Msg[m].run, k)' = Covered(Msg[m].run, k)
  BY <1>2, StoreFrame DEF Accepted, Covered
<1>4. Certified(m)' = Certified(m) /\ Certified(m) \subseteq Keys
  BY <1>2, StoreFrame DEF Certified
<1>5. ASSUME NEW k \in Keys PROVE CertCeilings(m, k)' = CertCeilings(m, k)
  <2>1. CertStale(m, k)' = CertStale(m, k)
    BY <1>1, <1>3 DEF CertStale
  <2> QED BY <1>1, <1>3, <2>1 DEF CertCeilings
<1>6. ASSUME NEW r \in Records PROVE Caps(m, r)' = Caps(m, r)
  <2>1. Verdict(m, r)' = Verdict(m, r)
    BY VerdictFrame
  <2>2. ServedKey(m, Rec[r].key)' = ServedKey(m, Rec[r].key)
    BY <1>1 DEF ServedKey
  <2> QED BY <1>4, <2>1, <2>2 DEF Caps
<1>7. {s \in Stored : Caps(m, s)}' = {s \in Stored : Caps(m, s)}
  BY <1>1, <1>6
<1>8. (UNION {CertCeilings(m, k) : k \in Certified(m)})'
        = UNION {CertCeilings(m, k) : k \in Certified(m)}
  BY <1>4, <1>5
<1> QED BY <1>7, <1>8 DEF Ceilings

LEMMA ViewRootFrame ==
    ASSUME UNCHANGED memoryVars, NEW m \in Messages
    PROVE  ViewRoot(m)' = ViewRoot(m)
<1>1. Ceilings(m)' = Ceilings(m) /\ Served(m)' = Served(m)
  BY CeilingsFrame, VerdictFrame
<1>2. Bounded(m)' = Bounded(m) /\ Capability(m)' = Capability(m)
  BY <1>1 DEF Bounded, Capability
<1> QED BY <1>1, <1>2 DEF ViewRoot, memoryVars

-----------------------------------------------------------------------------
(* Every step of the kernel maps to a step of AuthorizedUse or to none.      *)

Offers ==
    [v \in Views |-> IF viewState[v] = "unused" THEN [status |-> "none"]
                     ELSE [status    |-> OfferStatus[viewState[v]],
                           context   |-> binding[v].context,
                           authority |-> binding[v].root]]

AbstractStep == [ReadToUse!Next]_ReadToUse!vars

LEMMA Elsewhere ==
    ASSUME UNCHANGED <<viewState, binding>>,
           {va \in Uses : outbox[va] # "none"}' = {va \in Uses : outbox[va] # "none"},
           {va \in Uses : calls[va] > 0}' = {va \in Uses : calls[va] > 0}
    PROVE  AbstractStep
<1>1. ReadToUse!WorldMoves
  BY DEF ReadToUse!WorldMoves
<1> QED BY <1>1 DEF AbstractStep, ReadToUse!Next

LEMMA AuthorityFrame ==
    ASSUME UNCHANGED memoryVars
    PROVE  [c \in Contexts |-> ViewRoot(Ctx[c].anchor)]'
              = [c \in Contexts |-> ViewRoot(Ctx[c].anchor)]
<1>1. ASSUME NEW c \in Contexts PROVE ViewRoot(Ctx[c].anchor)' = ViewRoot(Ctx[c].anchor)
  BY AnchorType, ViewRootFrame
<1> QED BY <1>1

LEMMA QueryOffers ==
    ASSUME KernelInv, NEW v \in Views, NEW c \in Contexts, NEW effect \in Effects,
           NEW records \in SUBSET Records, QueryMemory(v, c, effect, records)
    PROVE  AbstractStep
<1>1. ReadToUse!Offer(v, c)
  BY AuthorityFrame DEF ReadToUse!Offer, ReadToUse!NoOffer, QueryMemory, KernelInv, KernelTypeOK, dispatchVars, OfferStatus
<1> QED BY <1>1 DEF AbstractStep, ReadToUse!Next

\* A view that was read moves on, and its offer with it.
LEMMA OfferMoves ==
    ASSUME KernelTypeOK, NEW v \in Views, NEW s \in ViewStates \ {"unused"},
           viewState[v] # "unused", viewState' = [viewState EXCEPT ![v] = s],
           UNCHANGED binding
    PROVE  /\ Offers' = [Offers EXCEPT ![v].status = OfferStatus[s]]
           /\ Offers' = [w \in Views |-> IF w = v THEN [Offers[w] EXCEPT !.status = OfferStatus[s]]
                                         ELSE Offers[w]]
<1>1. ASSUME NEW w \in Views, w # v PROVE Offers'[w] = Offers[w]
  BY <1>1 DEF Offers, KernelTypeOK
<1>2. Offers'[v] = [Offers[v] EXCEPT !.status = OfferStatus[s]]
  BY DEF Offers, KernelTypeOK
<1>3. /\ Offers = [w \in Views |-> Offers[w]]
      /\ Offers' = [w \in Views |-> Offers'[w]]
  BY DEF Offers
<1> QED BY <1>1, <1>2, <1>3

LEMMA ExpireWithdraws ==
    ASSUME KernelInv, NEW v \in Views, ExpireView(v)
    PROVE  AbstractStep
<1>1. /\ viewState[v] = "pending" /\ viewState' = [viewState EXCEPT ![v] = "expired"]
      /\ UNCHANGED <<binding, outbox, calls>>
  BY DEF ExpireView, dispatchVars
<1>2. Offers' = [w \in Views |-> IF w = v THEN [Offers[w] EXCEPT !.status = "gone"]
                                 ELSE Offers[w]]
  <2>1. "expired" \in ViewStates \ {"unused"} /\ OfferStatus["expired"] = "gone"
    BY DEF ViewStates, OfferStatus
  <2>2. KernelTypeOK
    BY DEF KernelInv
  <2>3. Offers' = [w \in Views |-> IF w = v THEN [Offers[w] EXCEPT !.status = OfferStatus["expired"]]
                                   ELSE Offers[w]]
    BY <1>1, <2>1, <2>2, OfferMoves
  <2> QED BY <2>1, <2>3
<1>3. ReadToUse!IsOpen(v)
  BY <1>1 DEF ReadToUse!IsOpen, OfferStatus
<1>4. ReadToUse!Withdraw({v}, {})
  BY <1>1, <1>2, <1>3 DEF ReadToUse!Withdraw, Offers
<1> QED BY <1>4 DEF AbstractStep, ReadToUse!Next

\* A rolled back transaction unmakes the views its policy read.
LEMMA RestoreWithdraws ==
    ASSUME KernelInv, InPolicy, RestoreTables, UNCHANGED <<outbox, calls>>
    PROVE  AbstractStep
<1>0. PICK unmade \in SUBSET Views :
         unmade = {v \in Views : txn.saved.viewState[v] = "unused" /\ viewState[v] = "pending"}
  OBVIOUS
<1>1. /\ viewState' = txn.saved.viewState /\ binding' = txn.saved.binding
      /\ \A v \in Views : \/ /\ txn.saved.viewState[v] = viewState[v]
                             /\ txn.saved.binding[v] = binding[v]
                          \/ v \in unmade
  BY <1>0 DEF RestoreTables, KernelInv, UseInv, PolicyOnlyReads
<1>2. ReadToUse!Withdraw({}, unmade)
  BY <1>0, <1>1 DEF ReadToUse!Withdraw, ReadToUse!IsOpen, ReadToUse!NoOffer, OfferStatus
<1> QED BY <1>2 DEF AbstractStep, ReadToUse!Next

LEMMA CommitGrants ==
    ASSUME KernelInv, NEW v \in Views, NEW a \in Actions, NEW ok \in BOOLEAN,
           viewState[v] = "pending", ViewHolds(v), ActionAllowed(v, a, ok),
           ~ Recorded(v, a), Commit(v, a)
    PROVE  AbstractStep
<1>1. binding[v] \in Bindings /\ binding[v].context \in Contexts
  BY DEF KernelInv, UseInv, RowsBind, Bindings
<1>2. binding[v].root = ViewRoot(Anchor(v))
  BY DEF ViewHolds
<1>3. a \in RootAllows(binding[v].root)
  BY <1>2 DEF RootAllows, ActionAllowed, Permits, ViewRoot
<1>4. /\ UNCHANGED <<binding, calls>>
      /\ viewState' = [viewState EXCEPT ![v] = "consumed"]
      /\ outbox' = [outbox EXCEPT ![<<v, a>>] = "authorized"]
      /\ UNCHANGED memoryVars
  BY DEF Commit
<1>5. {va \in Uses : outbox[va] # "none"}' = {va \in Uses : outbox[va] # "none"} \cup {<<v, a>>}
  BY <1>4 DEF KernelInv, KernelTypeOK, Uses
<1>6. ReadToUse!Grant(v, a)
  <2>1. ReadToUse!IsOpen(v)
    BY DEF ReadToUse!IsOpen, OfferStatus
  <2>2. Offers' = [Offers EXCEPT ![v].status = "spent"]
    BY <1>4, OfferMoves DEF KernelInv, ViewStates, OfferStatus
  <2>3. <<v, a>> \notin {va \in Uses : outbox[va] # "none"}
    BY DEF Recorded
  <2> QED BY <1>1, <1>2, <1>3, <1>4, <1>5, <2>1, <2>2, <2>3, AuthorityFrame
        DEF ReadToUse!Grant, Anchor, Offers
<1> QED BY <1>6 DEF AbstractStep, ReadToUse!Next

LEMMA FinishGrants ==
    ASSUME KernelInv, NEW ok \in BOOLEAN, FinishExecute(ok)
    PROVE  AbstractStep
<1>1. InPolicy /\ txn.view \in Views /\ txn.action \in Actions
  BY TxnTypes DEF FinishExecute, PolicyTxns, KernelInv
<1>v. PICK v \in Views, a \in Actions : v = txn.view /\ a = txn.action
  BY <1>1
<1>2. CASE Rollback
  BY <1>1, <1>2, RestoreWithdraws DEF Rollback, dispatchVars
<1>3. CASE ~ Rollback
  <2>1. /\ ViewHolds(v) /\ ActionAllowed(v, a, ok) /\ viewState[v] = "pending"
        /\ ~ Recorded(v, a) /\ Commit(v, a)
    BY <1>v, <1>3 DEF FinishExecute
  <2> QED BY <2>1, CommitGrants
<1> QED BY <1>2, <1>3

LEMMA CallPerforms ==
    ASSUME KernelInv, CallDispatcher
    PROVE  AbstractStep
<1>1. Committed /\ txn.view \in Views /\ txn.action \in Actions
  BY TxnTypes DEF CallDispatcher, CommittedTxns, KernelInv
<1>v. PICK v \in Views, a \in Actions : v = txn.view /\ a = txn.action
  BY <1>1
<1>2. outbox[<<v, a>>] = "authorized" /\ calls[<<v, a>>] = 0
  BY <1>1, <1>v DEF KernelInv, UseInv, OpenUseUncalled
<1>3. /\ UNCHANGED <<viewState, binding, outbox, memoryVars>>
      /\ calls' = [calls EXCEPT ![<<v, a>>] = @ + 1]
  BY <1>v DEF CallDispatcher, viewVars
<1>4. {va \in Uses : calls[va] > 0}' = {va \in Uses : calls[va] > 0} \cup {<<v, a>>}
  BY <1>1, <1>2, <1>3 DEF KernelInv, KernelTypeOK, Uses
<1>5. <<v, a>> \in {va \in Uses : outbox[va] # "none"} \ {va \in Uses : calls[va] > 0}
  BY <1>1, <1>2 DEF Uses
<1>6. ReadToUse!Perform(v, a)
  BY <1>3, <1>4, <1>5, AuthorityFrame DEF ReadToUse!Perform
<1> QED BY <1>6 DEF AbstractStep, ReadToUse!Next

\* A row that is known stays known when its outcome is written.
LEMMA OutcomeKeepsRows ==
    ASSUME KernelInv, NEW va \in Uses, NEW status \in Outcomes, outbox[va] # "none",
           outbox' = [outbox EXCEPT ![va] = status],
           UNCHANGED <<viewState, binding, calls>>
    PROVE  AbstractStep
<1>1. {ub \in Uses : outbox[ub] # "none"}' = {ub \in Uses : outbox[ub] # "none"}
  BY DEF KernelInv, KernelTypeOK, Outcomes, Settled
<1> QED BY <1>1, Elsewhere

LEMMA ReturnKeepsRows ==
    ASSUME KernelInv, NEW status \in Outcomes, DispatcherReturns(status)
    PROVE  AbstractStep
<1>1. /\ stack[Len(stack)] \in Uses
      /\ Len(stack) \in DOMAIN stack
  BY DEF DispatcherReturns, KernelInv, KernelTypeOK
<1>2. outbox[stack[Len(stack)]] = "authorized"
  BY <1>1 DEF KernelInv, UseInv, OutboxTracksEffects
<1> QED BY <1>1, <1>2, OutcomeKeepsRows DEF DispatcherReturns, viewVars

LEMMA SettleKeepsRows ==
    ASSUME KernelInv, NEW va \in Uses, NEW status \in Settled, Settle(va, status)
    PROVE  AbstractStep
<1>1. outbox[va] = "pending_dispatch"
  BY DEF Settle, KernelInv, UseInv, OutboxTracksEffects
<1> QED BY <1>1, OutcomeKeepsRows DEF Settle, viewVars, Outcomes

LEMMA ResetReopens ==
    ASSUME KernelInv, NEW v \in Views, ResetReplayState(v)
    PROVE  AbstractStep
<1>1. MaxResets > 0
  BY KernelConstants DEF ResetReplayState, KernelInv, KernelTypeOK
<1>2. /\ viewState[v] = "consumed" /\ viewState' = [viewState EXCEPT ![v] = "pending"]
      /\ UNCHANGED <<binding, outbox, calls, memoryVars>>
  BY DEF ResetReplayState, dispatchVars
<1>3. Offers' = [Offers EXCEPT ![v].status = "open"]
  BY <1>2, OfferMoves DEF KernelInv, ViewStates, OfferStatus
<1>4. Offers[v].status = "spent"
  BY <1>2 DEF Offers, OfferStatus
<1>5. ReadToUse!Reopen(v)
  BY <1>1, <1>2, <1>3, <1>4, AuthorityFrame DEF ReadToUse!Reopen, Offers
<1> QED BY <1>5 DEF AbstractStep, ReadToUse!Next

LEMMA CrashWithdraws ==
    ASSUME KernelInv, NEW p \in Policies, Crash(p)
    PROVE  AbstractStep
<1>1. CASE InPolicy
  BY <1>1, RestoreWithdraws DEF Crash
<1>2. CASE ~ InPolicy
  BY <1>2, Elsewhere DEF Crash
<1> QED BY <1>1, <1>2

LEMMA RefineInit == KernelInit => ReadToUse!Init
  BY DEF KernelInit, ReadToUse!Init, ReadToUse!NoOffer

LEMMA RefineStep == KernelInv /\ [KernelNext]_vars => AbstractStep
<1> SUFFICES ASSUME KernelInv, [KernelNext]_vars PROVE AbstractStep
  OBVIOUS
<1>1. CASE UNCHANGED vars \/ MemoryStep
  BY <1>1, Elsewhere DEF vars, kernelVars, viewVars, dispatchVars, MemoryStep
<1>2. ASSUME NEW c \in Contexts,
             (\E level \in 0..2 : Attach(c, level)) \/ Send(c) \/ Complete(c) \/ TakeOver(c)
      PROVE  AbstractStep
  BY <1>2, Elsewhere DEF Attach, Send, Complete, TakeOver, MoveContext, viewVars, dispatchVars
<1>3. ASSUME NEW v \in Views, GrowOld(v) PROVE AbstractStep
  BY <1>3, Elsewhere DEF GrowOld, dispatchVars
<1>4. ASSUME NEW v \in Views, NEW a \in Actions, BeginExecute(v, a) PROVE AbstractStep
  BY <1>4, Elsewhere DEF BeginExecute, viewVars, dispatchVars
<1>5. CASE KernelNext
  BY <1>1, <1>2, <1>3, <1>4, <1>5, QueryOffers, ExpireWithdraws, FinishGrants, CallPerforms,
     ReturnKeepsRows, SettleKeepsRows, ResetReopens, CrashWithdraws DEF KernelNext
<1> QED BY <1>1, <1>5

\* Whatever happens between a view's read and its use, the use is authorized
\* only with the authority its context has at that instant, equal to the one
\* read: the kernel implements AuthorizedUse.
THEOREM KernelImplementsAuthorizedUse == KernelSpec => ReadToUseIsAtomic
<1>1. KernelInit => ReadToUse!Init
  BY RefineInit
<1>2. KernelInv /\ [KernelNext]_vars => [ReadToUse!Next]_ReadToUse!vars
  BY RefineStep DEF AbstractStep
<1> QED BY <1>1, <1>2, KernelCorrect, PTL DEF KernelSpec, ReadToUseIsAtomic, ReadToUse!Spec

-----------------------------------------------------------------------------
(* What an authorized action may do.                                        *)

\* The agent was given only records its view exposes.
GivenWasExposed ==
    \A v \in Views : viewState[v] # "unused" => binding[v].records \subseteq binding[v].root.exposed

LEMMA StepGiven ==
    ASSUME KernelInv, GivenWasExposed, [KernelNext]_vars
    PROVE  GivenWasExposed'
<1> SUFFICES ASSUME NEW v \in Views, viewState'[v] # "unused"
             PROVE  binding'[v].records \subseteq binding'[v].root.exposed
  BY DEF GivenWasExposed
<1>1. CASE viewState[v] # "unused" /\ binding'[v] = binding[v]
  BY <1>1 DEF GivenWasExposed
<1>2. ASSUME NEW c \in Contexts, NEW e \in Effects, NEW s \in SUBSET Records,
             QueryMemory(v, c, e, s)
      PROVE  binding'[v].records \subseteq binding'[v].root.exposed
  BY <1>2 DEF QueryMemory, KernelInv, KernelTypeOK, ViewRoot
<1> QED BY <1>1, <1>2, RowsComeFromReads

\* Only a commit turns a use from unknown to authorized.
LEMMA OnlyCommitGrants ==
    ASSUME KernelInv, [KernelNext]_vars, NEW va \in Uses, Granted(va)
    PROVE  \E v \in Views, a \in Actions, ok \in BOOLEAN :
              /\ va = <<v, a>>
              /\ ViewHolds(v) /\ ActionAllowed(v, a, ok) /\ viewState[v] = "pending"
              /\ Commit(v, a)
<1>0. outbox \in [Uses -> Statuses] /\ "authorized" \notin Outcomes /\ outbox' # outbox
  BY DEF KernelInv, KernelTypeOK, Granted, Outcomes, Settled
<1>1. CASE UNCHANGED vars \/ MemoryStep
  BY <1>0, <1>1 DEF vars, kernelVars, dispatchVars, MemoryStep
<1>2. ASSUME NEW c \in Contexts,
             (\E level \in 0..2 : Attach(c, level)) \/ Send(c) \/ Complete(c) \/ TakeOver(c)
      PROVE  FALSE
  BY <1>0, <1>2 DEF Attach, Send, Complete, TakeOver, MoveContext, dispatchVars
<1>3. ASSUME NEW v \in Views, GrowOld(v) \/ ExpireView(v) \/ ResetReplayState(v)
      PROVE  FALSE
  BY <1>0, <1>3 DEF GrowOld, ExpireView, ResetReplayState, dispatchVars
<1>4. ASSUME NEW v \in Views, NEW c \in Contexts, NEW e \in Effects, NEW s \in SUBSET Records,
             QueryMemory(v, c, e, s)
      PROVE  FALSE
  BY <1>0, <1>4 DEF QueryMemory, dispatchVars
<1>5. ASSUME NEW v \in Views, NEW a \in Actions, BeginExecute(v, a) PROVE FALSE
  BY <1>0, <1>5 DEF BeginExecute, dispatchVars
<1>6. CASE CallDispatcher \/ (\E p \in Policies : Crash(p))
  BY <1>0, <1>6 DEF CallDispatcher, Crash
<1>7. ASSUME NEW status \in Outcomes, NEW ub, outbox' = [outbox EXCEPT ![ub] = status] PROVE FALSE
  BY <1>0, <1>7 DEF Granted
<1>8. ASSUME NEW status \in Outcomes, DispatcherReturns(status) PROVE FALSE
  BY <1>7, <1>8 DEF DispatcherReturns
<1>9. ASSUME NEW ub \in Uses, NEW status \in Settled, Settle(ub, status) PROVE FALSE
  BY <1>7, <1>9 DEF Settle, Outcomes
<1>10. ASSUME NEW ok \in BOOLEAN, FinishExecute(ok)
       PROVE  \E v \in Views, a \in Actions :
                 /\ va = <<v, a>>
                 /\ ViewHolds(v) /\ ActionAllowed(v, a, ok) /\ viewState[v] = "pending"
                 /\ Commit(v, a)
  <2>1. txn.view \in Views /\ txn.action \in Actions
    BY <1>10, TxnTypes DEF FinishExecute, PolicyTxns, KernelInv
  <2>2. PICK v \in Views, a \in Actions : v = txn.view /\ a = txn.action
    BY <2>1
  <2>3. ~ Rollback
    BY <1>0 DEF Rollback, dispatchVars
  <2>4. /\ ViewHolds(v) /\ ActionAllowed(v, a, ok) /\ viewState[v] = "pending"
        /\ Commit(v, a)
    BY <1>10, <2>2, <2>3 DEF FinishExecute
  <2>5. va = <<v, a>>
    BY <1>0, <2>4 DEF Commit, Granted
  <2> QED BY <2>4, <2>5
<1>11. CASE KernelNext
  BY <1>1, <1>2, <1>3, <1>4, <1>5, <1>6, <1>8, <1>9, <1>10, <1>11 DEF KernelNext
<1> QED BY <1>1, <1>11

LEMMA CommitWithinCeilings ==
    ASSUME KernelInv, GivenWasExposed, NEW v \in Views, NEW a \in Actions, NEW ok \in BOOLEAN,
           ViewHolds(v), ActionAllowed(v, a, ok), viewState[v] = "pending"
    PROVE  LET behind == binding[v].records \cup Served(Anchor(v))
           IN  /\ \A r \in behind : r \notin retired /\ \A c \in Rec[r].ceiling : Tool[a].effect \in c
               /\ Tool[a].external => behind # {}
<1>1. Anchor(v) \in Messages
  BY AnchorType DEF KernelInv, UseInv, RowsBind, Bindings, Anchor
<1>2. binding[v].records \subseteq Served(Anchor(v))
  BY DEF GivenWasExposed, ViewHolds, ViewRoot
<1>3. ASSUME NEW r \in Served(Anchor(v)) PROVE r \notin retired
  BY <1>3 DEF Served, Verdict, GateReason
<1>4. ASSUME NEW r \in Served(Anchor(v)), NEW c \in Rec[r].ceiling PROVE Tool[a].effect \in c
  <2>1. c \in Ceilings(Anchor(v)) \/ {} \in Ceilings(Anchor(v))
    BY <1>1, ServedIsMet DEF KernelInv, KernelTypeOK
  <2>2. Bounded(Anchor(v))
    BY <2>1 DEF Bounded
  <2>3. Tool[a].effect \in Capability(Anchor(v))
    BY <2>2 DEF ActionAllowed, Permits
  <2> QED BY <2>1, <2>3 DEF Capability
<1>5. Tool[a].external => Served(Anchor(v)) # {}
  BY DEF ActionAllowed
<1> QED BY <1>2, <1>3, <1>4, <1>5

\* An authorized effect is within the ceiling of every record the agent was
\* given and of every record its reader is served at that moment.
THEOREM EffectsWithinCeilings == KernelSpec => EffectWithinCeilings
<1>1. KernelInit => GivenWasExposed
  BY DEF KernelInit, GivenWasExposed
<1>2. KernelInv /\ GivenWasExposed /\ [KernelNext]_vars => GivenWasExposed'
  BY StepGiven
<1>3. KernelInv /\ GivenWasExposed /\ [KernelNext]_vars
        => [\A va \in Uses : Granted(va) =>
              LET b      == binding[va[1]]
                  behind == b.records \cup Served(Anchor(va[1]))
              IN  /\ \A r \in behind : r \notin retired /\ \A c \in Rec[r].ceiling : Tool[va[2]].effect \in c
                  /\ Tool[va[2]].external => behind # {}]_vars
  <2> SUFFICES ASSUME KernelInv, GivenWasExposed, [KernelNext]_vars, NEW va \in Uses, Granted(va)
               PROVE  LET b      == binding[va[1]]
                          behind == b.records \cup Served(Anchor(va[1]))
                      IN  /\ \A r \in behind : r \notin retired
                                /\ \A c \in Rec[r].ceiling : Tool[va[2]].effect \in c
                          /\ Tool[va[2]].external => behind # {}
    OBVIOUS
  <2>1. PICK v \in Views, a \in Actions, ok \in BOOLEAN :
           /\ va = <<v, a>>
           /\ ViewHolds(v) /\ ActionAllowed(v, a, ok) /\ viewState[v] = "pending"
    BY OnlyCommitGrants
  <2> QED BY <2>1, CommitWithinCeilings
<1> QED BY <1>1, <1>2, <1>3, KernelCorrect, PTL DEF KernelSpec, EffectWithinCeilings
=============================================================================
