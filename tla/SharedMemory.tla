---------------------------- MODULE SharedMemory ----------------------------
(***************************************************************************)
(* The shared memory of one deployment of SecureMemoryRuntime               *)
(* (src/benchmarks/coupled_memory/runtime.mjs): the messages of each run,   *)
(* the records written under them, the lifecycle log, the merge             *)
(* resolutions, the delegation certificates, and what a reader anchored at  *)
(* a message is served out of them.                                         *)
(*                                                                          *)
(* The module has two halves.  The operators translate the read path: the   *)
(* per-record gate (evaluateSecureGate), the set-level pass (_coherentView) *)
(* and the effect capability (_computeView).  The actions translate the     *)
(* mutators of the store.  A message or record is a member of a set; its    *)
(* signed, immutable fields are the constants Msg and Rec, and only its     *)
(* position in the run's sequence is state.  The append logs are atomic     *)
(* here, because the JavaScript that appends runs to completion; what a     *)
(* crash between two of its SQL statements does is AuthorityLogs' subject.  *)
(***************************************************************************)
EXTENDS Integers, FiniteSets, Sequences

CONSTANTS
    Messages,        \* message ids
    Records,         \* memory ids
    Runs,            \* run ids
    Tasks,           \* task ids
    Keys,            \* logical decision keys
    NoKey,           \* the logical_key of a record that carries none
    Effects,         \* effect classes
    Policies,        \* values of ControlPlane.policyVersion
    Msg,             \* the signed fields of each message
    Rec,             \* the receipt-covered fields of each record
    FirstClock,      \* the next sequence of each run at the start
    FirstMsgSeq,     \* sequence of the messages already sent, 0 for the rest
    FirstWriteSeq,   \* write_seq of the records already written, 0 for the rest
    MaxSkip,         \* bound: how far an ingress sequence may run ahead of the clock
    MaxLag,          \* bound: how far it may lag behind
    MaxRetired,      \* bound: memory ids the lifecycle log names
    MaxDelegations,  \* bound: delegation certificates
    MaxResolutions,  \* bound: certificates issued in a behaviour
    MaxKeyVersion    \* bound: value of a key's security version

(* A message's run, task, integrity and parents are in its signed envelope  *)
(* and never change; closure is what following parents from it reaches,     *)
(* itself included, stored or not.  adopts are the records its adopt and    *)
(* resolve edges bind.  A record's run and task are those of its source     *)
(* (attestWrite refuses anything else).  ceiling holds the record's         *)
(* effect_ceiling, or nothing when it has none; supersedes is what          *)
(* writeMemory keeps of the writer's claim; readableBy are the messages     *)
(* whose receiver, intent and policy_context the record admits.             *)
MsgFields == [run : Runs, task : Tasks, integrity : 0..2,
              parents : SUBSET Messages, closure : SUBSET Messages,
              adopts : SUBSET Records]
RecFields == [source : Messages, key : Keys \cup {NoKey},
              ceiling : SUBSET SUBSET Effects, integrity : 0..2,
              frontier : SUBSET Messages, supersedes : SUBSET Records,
              readableBy : SUBSET Messages]

ASSUME SignedFields ==
    /\ Msg \in [Messages -> MsgFields]
    /\ Rec \in [Records -> RecFields]
    /\ NoKey \notin Keys
    /\ IsFiniteSet(Records)

ASSUME Bounds == MaxSkip \in Nat /\ MaxLag \in Nat

\* What closure means.  A parent is named by its id, so nothing here says that
\* it is stored, of the same run or earlier: Readers decides that.
ASSUME SignedAncestry ==
    \A m \in Messages :
        /\ m \notin Msg[m].parents
        /\ Msg[m].closure = {m} \cup UNION {Msg[p].closure : p \in Msg[m].parents}
        /\ \A n \in Msg[m].closure : Msg[n].closure \subseteq Msg[m].closure

\* A behaviour may start from a deployment with a past: sources were sent before
\* their records, and the clock is past both.
ASSUME FirstHistory ==
    /\ FirstClock \in [Runs -> Nat \ {0}]
    /\ FirstMsgSeq \in [Messages -> Nat]
    /\ FirstWriteSeq \in [Records -> Nat]
    /\ \A m \in Messages : FirstMsgSeq[m] > 0 => FirstMsgSeq[m] < FirstClock[Msg[m].run]
    /\ \A r \in Records : FirstWriteSeq[r] > 0 =>
          /\ FirstWriteSeq[r] < FirstClock[Msg[Rec[r].source].run]
          /\ FirstMsgSeq[Rec[r].source] > 0

VARIABLES
    clock,        \* max of runs.next_sequence and kernel.run_clock, per run
    msgSeq,       \* sequence of each message, 0 while it is not sent
    writeSeq,     \* write_seq of each record, 0 while it is not written
    retired,      \* memory ids named by the lifecycle log
    resolutions,  \* the merge_resolutions chain
    delegations,  \* delegation certificates: record, target task, policy
    keyVersion,   \* kernel.security_versions of each (run, key)
    policy        \* policyVersion of the running control plane

memoryVars == <<clock, msgSeq, writeSeq, retired, resolutions, delegations,
                keyVersion, policy>>

-----------------------------------------------------------------------------
(* The store.                                                               *)

RunOf(r)  == Msg[Rec[r].source].run
TaskOf(r) == Msg[Rec[r].source].task
Sent      == {m \in Messages : msgSeq[m] > 0}
Stored    == {r \in Records : writeSeq[r] > 0}

\* verifyCausalEdge, along every path of m's ancestry that is stored.
InOrder(n, ancestors) ==
    \A p \in ancestors \ {n} : Msg[p].run = Msg[n].run /\ msgSeq[p] < msgSeq[n]

\* Mutant: the lenient ancestry, which skips a parent that is not stored.
LenientReaders == {m \in Sent : \A n \in Msg[m].closure \cap Sent : InOrder(n, Msg[n].closure \cap Sent)}

\* verifiedCausalClosure: a read anchored at m throws unless all its ancestors
\* are stored and every edge between them goes forward in one run.
Readers == {m \in Sent : \A n \in Msg[m].closure : n \in Sent /\ InOrder(n, Msg[n].closure)}

\* _conflictSetFor: every record of one run that carries the key.
ConflictSet(run, k) == {r \in Stored : RunOf(r) = run /\ Rec[r].key = k}

\* _resolutionFor: the certificate with the highest seq among those of this
\* key and run, if the current policy issued it.  A set of at most one.
CertsFor(run, k) ==
    {i \in DOMAIN resolutions : resolutions[i].key = k /\ resolutions[i].run = run}

CertInForce(run, k) ==
    {c \in {resolutions[i] : i \in {j \in CertsFor(run, k) :
                                       \A h \in CertsFor(run, k) : h <= j}} :
        c.policy = policy}

\* The records the certificate in force accepts, and those it names at all.
Accepted(run, k) == {c.accepted : c \in CertInForce(run, k)}
Covered(run, k)  == UNION {c.rejected \cup {c.accepted} : c \in CertInForce(run, k)}

\* _delegationsFor: records a current-policy certificate shows to m's task.  A
\* certificate can also name a receiver; those here are for any receiver of the
\* task, and a certificate for several records is one per record.
DelegatedTo(m) ==
    {r \in Records : [record |-> r, task |-> Msg[m].task, policy |-> policy] \in delegations}

\* _keyEpoch: what a read token remembers of a key.
KeyEpoch(run, k) ==
    <<keyVersion[<<run, k>>],
      Cardinality(ConflictSet(run, k)),
      Cardinality({i \in DOMAIN resolutions : resolutions[i].key = k})>>

-----------------------------------------------------------------------------
(* The per-record gate, in the order of its checks.  The receipt and hash   *)
(* checks are left out: no record of this module is altered after its write.*)

GateReason(m, r) ==
    IF RunOf(r) # Msg[m].run
      THEN "run_id_mismatch"
    ELSE IF TaskOf(r) # Msg[m].task /\ r \notin DelegatedTo(m)
      THEN "task_scope_mismatch"
    ELSE IF r \in retired
      THEN "inactive_memory"
    ELSE IF Rec[r].source \notin Msg[m].closure
      THEN "provenance_not_in_causal_graph"
    ELSE IF writeSeq[r] > msgSeq[m]
      THEN "write_after_active"
    ELSE IF ~ (Rec[r].frontier \subseteq Msg[m].closure)
      THEN "input_not_in_causal_graph"
    ELSE IF Rec[r].integrity < Msg[m].integrity
      THEN "integrity_below_context"
    ELSE IF m \notin Rec[r].readableBy
      THEN "reader_not_authorized"
    ELSE "allow"

Admitted(m) == {r \in Stored : GateReason(m, r) = "allow"}

-----------------------------------------------------------------------------
(* The set-level pass over the admitted records of one key.                 *)

Rivals(m, k) == {r \in Admitted(m) : Rec[r].key = k}

\* An authorized supersedes claim, from a causal descendant, that does not
\* write down in integrity.
Dominates(s, r) ==
    /\ Rec[s].source # Rec[r].source
    /\ Rec[s].integrity >= Rec[r].integrity
    /\ r \in Rec[s].supersedes
    /\ Rec[r].source \in Msg[Rec[s].source].closure

Dominated(m, k) == {r \in Rivals(m, k) : \E s \in Rivals(m, k) : s # r /\ Dominates(s, r)}
Maximal(m, k)   == Rivals(m, k) \ Dominated(m, k)

\* _adoptedRecords: an adopt edge in the closure names the record's digest and
\* write event, so it can only adopt a record written before the edge's node.
AdoptedBy(m) ==
    {r \in Stored : \E n \in Msg[m].closure :
        /\ n \in Sent
        /\ r \in Msg[n].adopts
        /\ writeSeq[r] <= msgSeq[n]}

\* Mutant: any adopted maximal version wins.
EveryAdoptedWins(m, k) ==
    {w \in Maximal(m, k) \cap AdoptedBy(m) :
        \A r \in Maximal(m, k) : Rec[w].integrity >= Rec[r].integrity}

\* The unique adopted maximal version, if it outranks every loser.
AdoptWinners(m, k) ==
    {w \in Maximal(m, k) \cap AdoptedBy(m) :
        /\ Maximal(m, k) \cap AdoptedBy(m) = {w}
        /\ \A r \in Maximal(m, k) : Rec[w].integrity >= Rec[r].integrity}

CoherentReason(m, r) ==
    LET k   == Rec[r].key
        run == Msg[m].run
    IN  IF k = NoKey
          THEN "allow"
        ELSE IF CertInForce(run, k) # {}
          THEN IF ~ (Rivals(m, k) \subseteq Covered(run, k)) THEN "conflict_set_changed"
               ELSE IF r \in Accepted(run, k) THEN "allow"
               ELSE "resolution_rejected"
        ELSE IF r \in Dominated(m, k)
          THEN "superseded_in_lineage"
        ELSE IF Maximal(m, k) = {r} \/ r \in AdoptWinners(m, k)
          THEN "allow"
        ELSE IF AdoptWinners(m, k) # {}
          THEN "not_adopted"
        ELSE "unresolved_conflict"

Verdict(m, r) ==
    IF GateReason(m, r) = "allow" THEN CoherentReason(m, r) ELSE GateReason(m, r)

\* The records a read anchored at m exposes.
Served(m) == {r \in Stored : Verdict(m, r) = "allow"}

-----------------------------------------------------------------------------
(* The effect capability: the meet of every ceiling that caps the action.   *)
(* Every stored record is a candidate (queryMemory reads with no filter).   *)

\* Keys with a certificate in the reader's run are capped by the winner alone.
Certified(m) == {k \in Keys : CertInForce(Msg[m].run, k) # {}}

\* Mutant: staleness judged by the reader's own branch alone.
StaleOnBranch(m, k) == \E r \in Rivals(m, k) : r \notin Covered(Msg[m].run, k)

\* The certificate does not name a candidate that carries its key.
CertStale(m, k) == \E r \in Stored : Rec[r].key = k /\ r \notin Covered(Msg[m].run, k)

\* Mutants: a stale certificate caps nothing; the winner's ceiling is dropped.
NoCapWhenStale(m, k) ==
    IF CertStale(m, k) THEN {} ELSE UNION {Rec[r].ceiling : r \in Accepted(Msg[m].run, k)}
WinnerUncapped(m, k) ==
    IF CertStale(m, k) \/ ~ (Accepted(Msg[m].run, k) \subseteq Served(m)) THEN {{}} ELSE {}

CertCeilings(m, k) ==
    IF CertStale(m, k) \/ ~ (Accepted(Msg[m].run, k) \subseteq Served(m))
      THEN {{}}
      ELSE UNION {Rec[r].ceiling : r \in Accepted(Msg[m].run, k)}

\* Mutants: an off-branch or another task's restriction is dropped.
StopsOffBranch == {"superseded_in_lineage", "inactive_memory", "run_id_mismatch",
                   "resolution_rejected", "provenance_not_in_causal_graph"}
StopsOffTask   == {"superseded_in_lineage", "inactive_memory", "run_id_mismatch",
                   "resolution_rejected", "task_scope_mismatch"}

StopsCappingKeyed == {"superseded_in_lineage", "inactive_memory",
                      "run_id_mismatch", "resolution_rejected"}
UnkeyedCaps == {"unresolved_conflict", "conflict_set_changed", "integrity_below_context"}

ServedKey(m, k) == \E r \in Served(m) : Rec[r].key = k

Caps(m, r) ==
    LET v == Verdict(m, r) IN
    IF Rec[r].key = NoKey
      THEN v \in UnkeyedCaps \cup {"allow"}
      ELSE /\ Rec[r].key \notin Certified(m)
           /\ v \notin StopsCappingKeyed
           /\ ~ (v = "not_adopted" /\ ServedKey(m, Rec[r].key))

Ceilings(m) == (UNION {CertCeilings(m, k) : k \in Certified(m)})
               \cup (UNION {Rec[r].ceiling : r \in {s \in Stored : Caps(m, s)}})

\* Mutant: any one ceiling suffices.
AnyCeiling(m) == {e \in Effects : Ceilings(m) = {} \/ \E c \in Ceilings(m) : e \in c}

\* capability: null (unbounded) when nothing caps, else the meet.
Bounded(m)    == Ceilings(m) # {}
Capability(m) == {e \in Effects : \A c \in Ceilings(m) : e \in c}

\* viewRoot: what executeAuthorizedAction recomputes and compares.
ViewRoot(m) == [exposed |-> Served(m), bounded |-> Bounded(m),
                capability |-> Capability(m), policy |-> policy,
                resolutionEpoch |-> Len(resolutions)]

\* The capability test of executeAuthorizedAction: an external effect needs a
\* positive grant, any other is only checked against an existing bound.
Permits(m, effect, external) ==
    /\ Bounded(m) => effect \in Capability(m)
    /\ external => Bounded(m)

-----------------------------------------------------------------------------
(* The mutators.                                                            *)

Certificates == [key : Keys, run : Runs, accepted : Records,
                 rejected : SUBSET Records, policy : Policies]

TypeOK ==
    /\ clock \in [Runs -> Nat \ {0}]
    /\ msgSeq \in [Messages -> Nat]
    /\ writeSeq \in [Records -> Nat]
    /\ retired \subseteq Records
    /\ resolutions \in Seq(Certificates)
    /\ delegations \subseteq [record : Records, task : Tasks, policy : Policies]
    /\ keyVersion \in [Runs \X Keys -> Nat]
    /\ policy \in Policies

\* The state after the past that the First constants describe.
MemoryInit ==
    /\ clock = FirstClock
    /\ msgSeq = FirstMsgSeq
    /\ writeSeq = FirstWriteSeq
    /\ retired = {}
    /\ resolutions = <<>>
    /\ delegations = {}
    /\ keyVersion = [rk \in Runs \X Keys |->
                        Cardinality({r \in Records : /\ FirstWriteSeq[r] > 0
                                                     /\ RunOf(r) = rk[1]
                                                     /\ Rec[r].key = rk[2]})]
    /\ policy \in Policies

\* Mutant: an ingress sequence does not move the clock.
Stays(a, b) == a

Larger(a, b) == IF a >= b THEN a ELSE b

BumpKey(run, k) ==
    IF k = NoKey THEN UNCHANGED keyVersion
    ELSE /\ keyVersion[<<run, k>>] < MaxKeyVersion
         /\ keyVersion' = [keyVersion EXCEPT ![<<run, k>>] = @ + 1]

\* sendMessage and send, with attestSend: a stored parent must precede the new
\* message in its run and bounds its integrity; one that is not stored leaves it
\* no integrity, and the message is stored all the same.  send takes the clock's
\* value, an ingress envelope brings its own sequence; both leave the clock past
\* it.
SendMessage(m, seq) ==
    LET run == Msg[m].run IN
    /\ m \notin Sent
    /\ seq > 0
    /\ \A p \in Msg[m].parents :
          IF p \in Sent
            THEN /\ Msg[p].run = run /\ msgSeq[p] < seq
                 /\ Msg[m].integrity <= Msg[p].integrity
            ELSE Msg[m].integrity = 0
    /\ msgSeq' = [msgSeq EXCEPT ![m] = seq]
    /\ clock' = [clock EXCEPT ![run] = Larger(@, seq + 1)]
    /\ UNCHANGED <<writeSeq, retired, resolutions, delegations, keyVersion, policy>>

\* writeMemory: stamps the next value of the clock that also numbers messages.
WriteMemory(r) ==
    LET run == RunOf(r) IN
    /\ r \notin Stored
    /\ {Rec[r].source} \cup Rec[r].frontier \subseteq Sent
    /\ writeSeq' = [writeSeq EXCEPT ![r] = clock[run]]
    /\ clock' = [clock EXCEPT ![run] = @ + 1]
    /\ BumpKey(run, Rec[r].key)
    /\ UNCHANGED <<msgSeq, retired, resolutions, delegations, policy>>

\* supersede, expire and revoke: the log takes any memory id, written or not.
Retire(r) ==
    /\ retired' = retired \cup {r}
    /\ Cardinality(retired') <= MaxRetired
    /\ IF r \in Stored THEN BumpKey(RunOf(r), Rec[r].key) ELSE UNCHANGED keyVersion
    /\ UNCHANGED <<clock, msgSeq, writeSeq, resolutions, delegations, policy>>

\* Mutant: the certificate does not bind its run.
Runless(run, k, winner) ==
    [key |-> k, accepted |-> winner, rejected |-> ConflictSet(run, k) \ {winner},
     policy |-> policy]

\* issueResolution: the certificate names the whole conflict set that exists
\* now, and accepts exactly one of it.
Certificate(run, k, winner) ==
    [key |-> k, run |-> run, accepted |-> winner,
     rejected |-> ConflictSet(run, k) \ {winner}, policy |-> policy]

\* resolveConflict.
ResolveConflict(run, k, winner) ==
    /\ winner \in ConflictSet(run, k)
    /\ Len(resolutions) < MaxResolutions
    /\ resolutions' = Append(resolutions, Certificate(run, k, winner))
    /\ BumpKey(run, k)
    /\ UNCHANGED <<clock, msgSeq, writeSeq, retired, delegations, policy>>

\* delegate: shows records to a task of their run or of any other.
Delegate(r, task) ==
    /\ delegations' = delegations \cup {[record |-> r, task |-> task, policy |-> policy]}
    /\ Cardinality(delegations') <= MaxDelegations
    /\ UNCHANGED <<clock, msgSeq, writeSeq, retired, resolutions, keyVersion, policy>>

\* The process is started again on the same stores and key, possibly with
\* another policy version (an option of the ControlPlane constructor).
Redeploy(p) ==
    /\ policy' = p
    /\ UNCHANGED <<clock, msgSeq, writeSeq, retired, resolutions, delegations, keyVersion>>

MemoryNext ==
    \/ \E m \in Messages : \E seq \in (clock[Msg[m].run] - MaxLag)..(clock[Msg[m].run] + MaxSkip) :
          SendMessage(m, seq)
    \/ \E r \in Records : WriteMemory(r)
    \/ \E r \in Records : Retire(r)
    \/ \E run \in Runs, k \in Keys, w \in Records : ResolveConflict(run, k, w)
    \/ \E r \in Records, t \in Tasks : Delegate(r, t)
    \/ \E p \in Policies : Redeploy(p)

MemorySpec == MemoryInit /\ [][MemoryNext]_memoryVars

-----------------------------------------------------------------------------
(* What a reader may rely on: every message whose reads go through.         *)

\* The set a read exposes never holds two versions of one decision
\* (_coherentView): conflicting records are resolved, adopted, superseded or
\* all withheld, whatever each of them is allowed on its own.
OneVersionServed ==
    \A m \in Readers : \A r, s \in Served(m) :
        Rec[r].key = Rec[s].key /\ Rec[r].key # NoKey => r = s

\* The action a view justifies stays within the effect ceiling of every record
\* the view exposes (_computeView), whichever rule let each record in.
ViewWithinCeilings ==
    \A m \in Readers : \A r \in Served(m) : \A c \in Rec[r].ceiling : Capability(m) \subseteq c

\* A restriction on a decision is lost to a reader only by authority: while it
\* is not retired and no certificate governs its key, either it caps the
\* reader itself or a version at least as trusted caps in its place.  Branches,
\* tasks, readers and unresolved conflicts drop no restriction.
RestrictionsHold ==
    \A m \in Readers : \A r \in Stored \ retired :
        /\ RunOf(r) = Msg[m].run
        /\ Rec[r].key \notin Certified(m) \cup {NoKey}
        => \E s \in Stored : /\ Rec[s].key = Rec[r].key
                            /\ Rec[s].integrity >= Rec[r].integrity
                            /\ Caps(m, s)

\* A resolution in force binds every branch of its run: no reader is served a
\* version it did not accept, and once a version it does not name is written
\* no reader of the run is left any effect until the conflict is resolved anew.
ResolutionGoverns ==
    \A m \in Readers : \A k \in Certified(m) :
        /\ \A r \in Served(m) : Rec[r].key = k => r \in Accepted(Msg[m].run, k)
        /\ ~ (ConflictSet(Msg[m].run, k) \subseteq Covered(Msg[m].run, k))
           => Bounded(m) /\ Capability(m) = {}

\* Once a read anchored at a message goes through, later messages and writes
\* never refuse it and never add or remove a record: not a parent that came late
\* by ingress, not a write under an old source, and not an ingress envelope whose
\* sequence lies ahead of the clock or behind it.
PastIsSettled ==
    [][ (msgSeq' # msgSeq \/ writeSeq' # writeSeq)
        => \A m \in Readers : m \in Readers' /\ Served(m)' = Served(m) ]_memoryVars

\* What PastIsSettled rests on: the clock of a run is ahead of every message of
\* the run, so the next write comes after all of them.
ClockIsAhead == \A m \in Sent : msgSeq[m] < clock[Msg[m].run]

\* A write never widens the capability of a reader.
WritesNeverWiden ==
    [][ writeSeq' # writeSeq
        => \A m \in Readers : /\ Capability(m)' \subseteq Capability(m)
                              /\ Bounded(m) => Bounded(m)' ]_memoryVars

-----------------------------------------------------------------------------
(* What a comment of the source says of it.                                 *)

\* "The cert is STALE if ANY same-run keyed candidate for this key is OUTSIDE
\* the conflict it resolved": a write in one run leaves the capability of the
\* readers of another run as it was.
RunIsolation ==
    [][ \A r \in Records : r \in Stored' \ Stored =>
          \A m \in Readers : Msg[m].run # RunOf(r) => Capability(m)' = Capability(m) ]_memoryVars
=============================================================================
