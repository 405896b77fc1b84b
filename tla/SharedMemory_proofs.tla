------------------------- MODULE SharedMemory_proofs -------------------------
(***************************************************************************)
(* Theorems about the shared memory, for every set of messages, records,    *)
(* keys, tasks and policies:                                                *)
(*                                                                          *)
(*   TypeCorrect                    type correctness                        *)
(*   OneVersion, WithinCeilings,    OneVersionServed, ViewWithinCeilings,   *)
(*   ResolutionsBind,               ResolutionGoverns, RestrictionsHold     *)
(*   RestrictionsStand                                                      *)
(*   ThePastIsSettled,              PastIsSettled, WritesNeverWiden         *)
(*   NoWriteWidens                                                          *)
(*                                                                          *)
(* All six are about the messages whose reads go through.  The four of a    *)
(* read are facts of the read path alone: they hold in every state of the   *)
(* right type, so the type invariant is all the induction they need.  The   *)
(* two of a step need ClockIsAhead as well.                                 *)
(***************************************************************************)
EXTENDS SharedMemory, FiniteSetTheorems, TLAPS

LEMMA InitTypeOK == MemoryInit => TypeOK
<1> SUFFICES ASSUME MemoryInit PROVE TypeOK
  OBVIOUS
<1>1. keyVersion \in [Runs \X Keys -> Nat]
  <2> DEFINE Old(rk) == {r \in Records : /\ FirstWriteSeq[r] > 0
                                         /\ RunOf(r) = rk[1]
                                         /\ Rec[r].key = rk[2]}
  <2>1. \A rk \in Runs \X Keys : Cardinality(Old(rk)) \in Nat
    <3> TAKE rk \in Runs \X Keys
    <3>1. IsFiniteSet(Old(rk))
      BY FS_Subset, SignedFields
    <3> QED BY <3>1, FS_CardinalityType
  <2>2. keyVersion = [rk \in Runs \X Keys |-> Cardinality(Old(rk))]
    BY DEF MemoryInit
  <2> HIDE DEF Old
  <2> QED BY <2>1, <2>2
<1> QED BY <1>1, FirstHistory DEF MemoryInit, TypeOK, Certificates

LEMMA RunType == \A r \in Records : RunOf(r) \in Runs
  BY SignedFields DEF RunOf, RecFields, MsgFields

LEMMA BumpType ==
    ASSUME NEW run \in Runs, NEW k \in Keys \cup {NoKey},
           keyVersion \in [Runs \X Keys -> Nat], BumpKey(run, k)
    PROVE  keyVersion' \in [Runs \X Keys -> Nat]
<1>1. CASE k = NoKey
  BY <1>1 DEF BumpKey
<1>2. CASE k # NoKey
  <2>1. keyVersion' = [keyVersion EXCEPT ![<<run, k>>] = keyVersion[<<run, k>>] + 1]
    BY <1>2 DEF BumpKey
  <2>2. <<run, k>> \in Runs \X Keys
    BY <1>2
  <2> QED BY <2>1, <2>2
<1> QED BY <1>1, <1>2

LEMMA StepTypeOK == TypeOK /\ [MemoryNext]_memoryVars => TypeOK'
<1> SUFFICES ASSUME TypeOK, [MemoryNext]_memoryVars PROVE TypeOK'
  OBVIOUS
<1> USE DEF TypeOK
<1>1. ASSUME NEW m \in Messages,
             NEW seq \in (clock[Msg[m].run] - MaxLag)..(clock[Msg[m].run] + MaxSkip),
             SendMessage(m, seq)
      PROVE  TypeOK'
  <2>1. Msg[m].run \in Runs
    BY SignedFields DEF MsgFields
  <2>2. seq \in Nat /\ seq > 0
    BY <1>1, <2>1, Bounds DEF SendMessage
  <2>3. clock' \in [Runs -> Nat \ {0}]
    BY <1>1, <2>1, <2>2 DEF SendMessage, Larger
  <2> QED BY <1>1, <2>2, <2>3 DEF SendMessage
<1>2. ASSUME NEW r \in Records, WriteMemory(r) PROVE TypeOK'
  <2>1. RunOf(r) \in Runs /\ Rec[r].key \in Keys \cup {NoKey}
    BY RunType, SignedFields DEF RecFields
  <2>2. keyVersion' \in [Runs \X Keys -> Nat]
    BY <1>2, <2>1, BumpType DEF WriteMemory
  <2>3. clock[RunOf(r)] \in Nat \ {0} /\ clock[RunOf(r)] + 1 \in Nat \ {0}
    BY <2>1
  <2>4. /\ writeSeq' = [writeSeq EXCEPT ![r] = clock[RunOf(r)]]
        /\ clock' = [clock EXCEPT ![RunOf(r)] = clock[RunOf(r)] + 1]
        /\ UNCHANGED <<msgSeq, retired, resolutions, delegations, policy>>
    BY <1>2 DEF WriteMemory
  <2> QED BY <2>2, <2>3, <2>4
<1>3. ASSUME NEW r \in Records, Retire(r) PROVE TypeOK'
  <2>1. RunOf(r) \in Runs /\ Rec[r].key \in Keys \cup {NoKey}
    BY RunType, SignedFields DEF RecFields
  <2>2. keyVersion' \in [Runs \X Keys -> Nat]
    BY <1>3, <2>1, BumpType DEF Retire
  <2> QED BY <1>3, <2>2 DEF Retire
<1>4. ASSUME NEW run \in Runs, NEW k \in Keys, NEW w \in Records, ResolveConflict(run, k, w)
      PROVE  TypeOK'
  <2>1. Certificate(run, k, w) \in Certificates
    BY DEF Certificate, Certificates, ConflictSet, Stored
  <2>2. resolutions' \in Seq(Certificates)
    BY <1>4, <2>1 DEF ResolveConflict
  <2>3. keyVersion' \in [Runs \X Keys -> Nat]
    BY <1>4, BumpType DEF ResolveConflict
  <2> QED BY <1>4, <2>2, <2>3 DEF ResolveConflict
<1>5. ASSUME NEW r \in Records, NEW t \in Tasks, Delegate(r, t) PROVE TypeOK'
  BY <1>5 DEF Delegate
<1>6. ASSUME NEW p \in Policies, Redeploy(p) PROVE TypeOK'
  BY <1>6 DEF Redeploy
<1>7. CASE UNCHANGED memoryVars
  BY <1>7 DEF memoryVars
<1> QED BY <1>1, <1>2, <1>3, <1>4, <1>5, <1>6, <1>7 DEF MemoryNext

\* Every reachable state of the store has the types its tables give it.
THEOREM TypeCorrect == MemorySpec => []TypeOK
  BY InitTypeOK, StepTypeOK, PTL DEF MemorySpec

-----------------------------------------------------------------------------
(* The read path.                                                           *)

\* All that a reader's ancestry reaches is stored, and in order.
LEMMA ReaderType ==
    ASSUME NEW m \in Readers
    PROVE  /\ m \in Messages /\ m \in Sent /\ m \in Msg[m].closure
           /\ Msg[m].closure \subseteq Sent /\ Sent \subseteq Messages
           /\ \A n \in Msg[m].closure : /\ Msg[n].closure \subseteq Msg[m].closure
                                       /\ InOrder(n, Msg[n].closure)
<1>1. m \in Messages /\ m \in Sent /\ Sent \subseteq Messages
  BY DEF Readers, Sent
<1> QED BY <1>1, SignedAncestry DEF Readers

\* _resolutionFor returns at most one certificate.
LEMMA OneCertificate ==
    ASSUME NEW run, NEW k, TypeOK,
           NEW c \in CertInForce(run, k), NEW e \in CertInForce(run, k)
    PROVE  c = e
<1>1. CertsFor(run, k) \subseteq Nat
  BY DEF CertsFor, TypeOK
<1>2. PICK i \in CertsFor(run, k) : c = resolutions[i] /\ \A h \in CertsFor(run, k) : h <= i
  BY DEF CertInForce
<1>3. PICK j \in CertsFor(run, k) : e = resolutions[j] /\ \A h \in CertsFor(run, k) : h <= j
  BY DEF CertInForce
<1>4. i \in Nat /\ j \in Nat /\ i <= j /\ j <= i
  BY <1>1, <1>2, <1>3
<1> QED BY <1>2, <1>3, <1>4

\* A served version of a key is the one the certificate accepts, or else the
\* only maximal or the only adopted maximal one.
LEMMA ServedVersion ==
    ASSUME NEW m, NEW r \in Served(m), Rec[r].key # NoKey
    PROVE  IF CertInForce(Msg[m].run, Rec[r].key) # {}
             THEN r \in Accepted(Msg[m].run, Rec[r].key)
             ELSE Maximal(m, Rec[r].key) = {r} \/ r \in AdoptWinners(m, Rec[r].key)
<1>1. CoherentReason(m, r) = "allow"
  BY DEF Served, Verdict
<1> QED BY <1>1 DEF CoherentReason

LEMMA ReadPathOneVersion == TypeOK => OneVersionServed
<1> SUFFICES ASSUME TypeOK, NEW m \in Readers, NEW r \in Served(m), NEW s \in Served(m),
                    Rec[r].key = Rec[s].key, Rec[r].key # NoKey
             PROVE  r = s
  BY DEF OneVersionServed
<1> DEFINE k == Rec[r].key
           run == Msg[m].run
<1>1. CASE CertInForce(run, k) # {}
  <2>1. r \in Accepted(run, k) /\ s \in Accepted(run, k)
    BY <1>1, ServedVersion
  <2>2. PICK c \in CertInForce(run, k), e \in CertInForce(run, k) : r = c.accepted /\ s = e.accepted
    BY <2>1 DEF Accepted
  <2> QED BY <2>2, OneCertificate
<1>2. CASE CertInForce(run, k) = {}
  <2>1. /\ Maximal(m, k) = {r} \/ r \in AdoptWinners(m, k)
        /\ Maximal(m, k) = {s} \/ s \in AdoptWinners(m, k)
    BY <1>2, ServedVersion
  <2> QED BY <2>1 DEF AdoptWinners
<1> QED BY <1>1, <1>2

\* No reader is ever served two versions of one decision.
THEOREM OneVersion == MemorySpec => []OneVersionServed
  BY TypeCorrect, ReadPathOneVersion, PTL

\* Every ceiling of a served record is met by the capability: it caps itself,
\* or it is the winner's, or a stale certificate has left no effect at all.
LEMMA ServedIsMet ==
    ASSUME TypeOK, NEW m \in Messages, NEW r \in Served(m), NEW c \in Rec[r].ceiling
    PROVE  c \in Ceilings(m) \/ {} \in Ceilings(m)
<1> DEFINE k == Rec[r].key
           run == Msg[m].run
<1>1. Verdict(m, r) = "allow" /\ r \in Stored /\ r \in Records
  BY DEF Served, Stored
<1>2. k \in Keys \cup {NoKey}
  BY <1>1, SignedFields DEF RecFields
<1>3. CASE k \in Certified(m)
  <2>1. k # NoKey
    BY <1>3, SignedFields DEF Certified
  <2>2. r \in Accepted(run, k)
    BY <1>3, <2>1, ServedVersion DEF Certified
  <2>3. c \in UNION {Rec[w].ceiling : w \in Accepted(run, k)}
    BY <2>2
  <2>4. c \in CertCeilings(m, k) \/ {} \in CertCeilings(m, k)
    BY <2>3 DEF CertCeilings
  <2>5. CertCeilings(m, k) \subseteq Ceilings(m)
    BY <1>3 DEF Ceilings
  <2> QED BY <2>4, <2>5
<1>4. CASE k \notin Certified(m)
  <2>1. Caps(m, r)
    BY <1>1, <1>4 DEF Caps, StopsCappingKeyed, UnkeyedCaps
  <2>2. c \in UNION {Rec[q].ceiling : q \in {s \in Stored : Caps(m, s)}}
    BY <1>1, <2>1
  <2> QED BY <2>2 DEF Ceilings
<1> QED BY <1>3, <1>4

LEMMA ReadPathCeilings == TypeOK => ViewWithinCeilings
  BY ServedIsMet, ReaderType DEF ViewWithinCeilings, Capability

\* An action a view justifies is within the ceiling of every record it exposes.
THEOREM WithinCeilings == MemorySpec => []ViewWithinCeilings
  BY TypeCorrect, ReadPathCeilings, PTL

\* A certificate in force decides its key for every reader of the run, and one
\* that does not name all of the conflict leaves no effect.
LEMMA ReadPathResolution == TypeOK => ResolutionGoverns
<1> SUFFICES ASSUME TypeOK, NEW m \in Readers, NEW k \in Certified(m)
             PROVE  /\ \A r \in Served(m) : Rec[r].key = k => r \in Accepted(Msg[m].run, k)
                    /\ ~ (ConflictSet(Msg[m].run, k) \subseteq Covered(Msg[m].run, k))
                         => Bounded(m) /\ Capability(m) = {}
  BY DEF ResolutionGoverns
<1>1. k \in Keys /\ k # NoKey /\ CertInForce(Msg[m].run, k) # {}
  BY SignedFields DEF Certified
<1>2. ASSUME NEW r \in Served(m), Rec[r].key = k PROVE r \in Accepted(Msg[m].run, k)
  BY <1>1, <1>2, ServedVersion
<1>3. ASSUME ~ (ConflictSet(Msg[m].run, k) \subseteq Covered(Msg[m].run, k))
      PROVE  Bounded(m) /\ Capability(m) = {}
  <2>1. CertStale(m, k)
    BY <1>3 DEF CertStale, ConflictSet
  <2>2. {} \in CertCeilings(m, k)
    BY <2>1 DEF CertCeilings
  <2>3. {} \in Ceilings(m)
    BY <2>2 DEF Ceilings
  <2> QED BY <2>3 DEF Bounded, Capability
<1> QED BY <1>2, <1>3

\* No reader of a run is served what its resolution did not accept, and a
\* version written later leaves no effect until the conflict is resolved anew.
THEOREM ResolutionsBind == MemorySpec => []ResolutionGoverns
  BY TypeCorrect, ReadPathResolution, PTL

-----------------------------------------------------------------------------
(* Restrictions.                                                            *)

\* The records whose source is outside a record's past: fewer, the later the
\* record was written.
NotBehind(s) == {t \in Records : Rec[t].source \notin Msg[Rec[s].source].closure}

\* Of two records a reader has behind it, one that dominates the other has more
\* behind it: the edges between them go forward.
LEMMA DominatorHasMoreBehind ==
    ASSUME TypeOK, NEW m \in Readers, NEW s \in Records, NEW t \in Records, Dominates(t, s),
           Rec[s].source \in Msg[m].closure, Rec[t].source \in Msg[m].closure
    PROVE  NotBehind(t) \subseteq NotBehind(s) /\ NotBehind(t) # NotBehind(s)
<1> DEFINE a == Rec[s].source
           b == Rec[t].source
<1>1. /\ a \in Messages /\ b \in Messages /\ a # b /\ a \in Msg[b].closure
      /\ InOrder(a, Msg[a].closure) /\ InOrder(b, Msg[b].closure)
  BY ReaderType DEF Dominates
<1>2. msgSeq[a] < msgSeq[b] /\ msgSeq[a] \in Nat /\ msgSeq[b] \in Nat
  BY <1>1 DEF InOrder, TypeOK
<1>3. b \notin Msg[a].closure
  <2> SUFFICES ASSUME b \in Msg[a].closure PROVE FALSE
    OBVIOUS
  <2>1. msgSeq[b] < msgSeq[a]
    BY <1>1 DEF InOrder
  <2> QED BY <1>2, <2>1
<1>4. Msg[a].closure \subseteq Msg[b].closure /\ b \in Msg[b].closure
  BY <1>1, SignedAncestry
<1>5. t \in NotBehind(s) /\ t \notin NotBehind(t)
  BY <1>3, <1>4 DEF NotBehind
<1> QED BY <1>4, <1>5 DEF NotBehind

\* Domination ends: above every admitted version there is, or it is itself, a
\* maximal one at least as trusted.
LEMMA MaximalAbove ==
    ASSUME TypeOK, NEW m \in Readers, NEW k \in Keys, NEW r \in Rivals(m, k)
    PROVE  \E s \in Maximal(m, k) : Rec[s].integrity >= Rec[r].integrity
<1> DEFINE Above == {s \in Rivals(m, k) : /\ Rec[s].integrity >= Rec[r].integrity
                                          /\ NotBehind(s) \subseteq NotBehind(r)}
           Sizes == {NotBehind(s) : s \in Above}
<1>1. Rivals(m, k) \subseteq Records /\ \A s \in Records : Rec[s].integrity \in 0..2
  BY SignedFields DEF RecFields, Rivals, Admitted, Stored
<1>2. r \in Above
  BY <1>1
<1>3. IsWellFoundedOn(StrictSubsetOrdering(Records), SUBSET Records)
  BY SignedFields, FS_StrictSubsetOrderingWellFounded, FS_FiniteSubsetsOfFinite
<1>4. Sizes \subseteq SUBSET Records /\ Sizes # {}
  BY <1>2 DEF NotBehind
<1>5. PICK least \in Sizes : \A other \in Sizes : <<other, least>> \notin StrictSubsetOrdering(Records)
  <2> HIDE DEF Sizes
  <2> QED BY <1>3, <1>4, WFMin
<1>6. PICK s \in Above : NotBehind(s) = least
  BY <1>5
<1>7. ASSUME s \in Dominated(m, k) PROVE FALSE
  <2>1. PICK t \in Rivals(m, k) : Dominates(t, s)
    BY <1>7 DEF Dominated
  <2>2. NotBehind(t) \subseteq NotBehind(s) /\ NotBehind(t) # NotBehind(s)
    <3>1. Rec[s].source \in Msg[m].closure /\ Rec[t].source \in Msg[m].closure
      BY <2>1 DEF Rivals, Admitted, GateReason
    <3> QED BY <2>1, <3>1, <1>1, DominatorHasMoreBehind
  <2>3. Rec[t].integrity >= Rec[r].integrity
    <3>1. Rec[t].integrity >= Rec[s].integrity /\ Rec[s].integrity >= Rec[r].integrity
      BY <2>1 DEF Dominates
    <3>2. Rec[t].integrity \in 0..2 /\ Rec[s].integrity \in 0..2 /\ Rec[r].integrity \in 0..2
      BY <1>1
    <3> QED BY <3>1, <3>2
  <2>4. NotBehind(t) \in Sizes
    BY <2>2, <2>3
  <2>5. <<NotBehind(t), NotBehind(s)>> \in StrictSubsetOrdering(Records)
    BY <2>2 DEF StrictSubsetOrdering, NotBehind
  <2> QED BY <1>5, <1>6, <2>4, <2>5
<1> QED BY <1>6, <1>7 DEF Maximal

\* A maximal version caps the reader, or the adopted winner does.
LEMMA MaximalCaps ==
    ASSUME NEW m \in Messages, NEW k \in Keys, k \notin Certified(m), NEW s \in Maximal(m, k)
    PROVE  \E w \in Rivals(m, k) : Rec[w].integrity >= Rec[s].integrity /\ Caps(m, w)
<1>1. /\ k # NoKey /\ CertInForce(Msg[m].run, k) = {}
      /\ Maximal(m, k) \subseteq Rivals(m, k) /\ Maximal(m, k) \cap Dominated(m, k) = {}
  BY SignedFields DEF Certified, Maximal
<1>2. \A w \in Rivals(m, k) : Rec[w].key = k /\ w \in Stored /\ Verdict(m, w) = CoherentReason(m, w)
  BY DEF Rivals, Admitted, Verdict
<1>3. \A w \in Maximal(m, k) :
        Verdict(m, w) = IF Maximal(m, k) = {w} \/ w \in AdoptWinners(m, k) THEN "allow"
                        ELSE IF AdoptWinners(m, k) # {} THEN "not_adopted"
                        ELSE "unresolved_conflict"
  BY <1>1, <1>2 DEF CoherentReason
<1>4. CASE Verdict(m, s) = "not_adopted"
  <2>1. PICK w \in AdoptWinners(m, k) : TRUE
    BY <1>3, <1>4
  <2>2. w \in Maximal(m, k) /\ Rec[w].integrity >= Rec[s].integrity
    BY <2>1 DEF AdoptWinners
  <2>3. Verdict(m, w) = "allow"
    BY <1>3, <2>1, <2>2
  <2> QED BY <1>1, <1>2, <2>2, <2>3 DEF Caps, StopsCappingKeyed
<1>5. CASE Verdict(m, s) \in {"allow", "unresolved_conflict"}
  <2>1. Caps(m, s)
    BY <1>1, <1>2, <1>5 DEF Caps, StopsCappingKeyed
  <2>2. Rec[s].integrity \in 0..2
    BY <1>2, <1>1, SignedFields DEF RecFields, Stored
  <2> QED BY <1>1, <2>1, <2>2
<1> QED BY <1>3, <1>4, <1>5

LEMMA ReadPathRestrictions == TypeOK => RestrictionsHold
<1> SUFFICES ASSUME TypeOK, NEW m \in Readers, NEW r \in Stored \ retired, RunOf(r) = Msg[m].run,
                    Rec[r].key \notin Certified(m) \cup {NoKey}
             PROVE  \E s \in Stored : /\ Rec[s].key = Rec[r].key
                                      /\ Rec[s].integrity >= Rec[r].integrity
                                      /\ Caps(m, s)
  BY DEF RestrictionsHold
<1> DEFINE k == Rec[r].key
<1>1. m \in Messages /\ r \in Records /\ k \in Keys /\ Rec[r].integrity \in 0..2
  BY ReaderType, SignedFields DEF Stored, RecFields
\* What the gate refuses for another reason than retirement or run still caps.
<1>2. CASE GateReason(m, r) # "allow"
  <2>1. Verdict(m, r) = GateReason(m, r)
    BY <1>2 DEF Verdict
  <2>2. GateReason(m, r) \in {"task_scope_mismatch", "provenance_not_in_causal_graph",
           "write_after_active", "input_not_in_causal_graph", "integrity_below_context",
           "reader_not_authorized"}
    BY <1>2 DEF GateReason
  <2>3. Caps(m, r)
    BY <2>1, <2>2 DEF Caps, StopsCappingKeyed
  <2> QED BY <1>1, <2>3
<1>3. CASE GateReason(m, r) = "allow"
  <2>1. r \in Rivals(m, k)
    BY <1>3 DEF Rivals, Admitted
  <2>2. PICK s \in Maximal(m, k) : Rec[s].integrity >= Rec[r].integrity
    BY <1>1, <2>1, MaximalAbove
  <2>3. PICK w \in Rivals(m, k) : Rec[w].integrity >= Rec[s].integrity /\ Caps(m, w)
    BY <1>1, <2>2, MaximalCaps
  <2>4. /\ w \in Stored /\ Rec[w].key = k /\ s \in Records /\ w \in Records
    BY <2>2, <2>3 DEF Maximal, Rivals, Admitted, Stored
  <2>5. Rec[w].integrity \in 0..2 /\ Rec[s].integrity \in 0..2
    BY <2>4, SignedFields DEF RecFields
  <2> QED BY <1>1, <2>2, <2>3, <2>4, <2>5
<1> QED BY <1>2, <1>3

\* A restriction is lost to a reader only by authority: it caps the reader
\* itself or a version at least as trusted caps in its place.
THEOREM RestrictionsStand == MemorySpec => []RestrictionsHold
  BY TypeCorrect, ReadPathRestrictions, PTL

-----------------------------------------------------------------------------
(* The past.                                                                *)

LEMMA InitClockIsAhead == MemoryInit => ClockIsAhead
  BY FirstHistory DEF MemoryInit, ClockIsAhead, Sent

\* Nothing but a send stores a message, and no step sets a clock back.
LEMMA ClockStaysAhead ==
    ASSUME TypeOK, ClockIsAhead, UNCHANGED msgSeq, clock' \in [Runs -> Nat],
           \A run \in Runs : clock[run] <= clock'[run]
    PROVE  ClockIsAhead'
<1> SUFFICES ASSUME NEW m \in Sent
             PROVE  msgSeq[m] < clock'[Msg[m].run]
  BY DEF ClockIsAhead, Sent
<1>1. m \in Messages /\ Msg[m].run \in Runs /\ msgSeq[m] \in Nat
  BY SignedFields DEF Sent, MsgFields, TypeOK
<1>2. msgSeq[m] < clock[Msg[m].run] /\ clock[Msg[m].run] \in Nat
  BY <1>1 DEF ClockIsAhead, TypeOK
<1>3. clock[Msg[m].run] <= clock'[Msg[m].run] /\ clock'[Msg[m].run] \in Nat
  BY <1>1
<1> QED BY <1>1, <1>2, <1>3

LEMMA SendKeepsClockAhead ==
    ASSUME TypeOK, ClockIsAhead, NEW n \in Messages, NEW seq \in Int, SendMessage(n, seq)
    PROVE  ClockIsAhead'
<1> SUFFICES ASSUME NEW m \in Sent'
             PROVE  msgSeq'[m] < clock'[Msg[m].run]
  BY DEF ClockIsAhead
<1>1. /\ seq > 0 /\ msgSeq' = [msgSeq EXCEPT ![n] = seq]
      /\ clock' = [clock EXCEPT ![Msg[n].run] = Larger(clock[Msg[n].run], seq + 1)]
      /\ n \notin Sent
  BY DEF SendMessage
<1>2. m \in Messages /\ Msg[m].run \in Runs /\ Msg[n].run \in Runs
  BY SignedFields DEF Sent, MsgFields
<1>3. \A run \in Runs : clock[run] \in Nat /\ clock'[run] \in Int /\ clock[run] <= clock'[run]
  BY <1>1, <1>2 DEF TypeOK, Larger
<1>4. Sent' = Sent \cup {n}
  BY <1>1 DEF Sent, TypeOK
<1>5. CASE m = n
  <2>1. msgSeq'[m] = seq /\ clock'[Msg[m].run] > seq
    BY <1>1, <1>2, <1>5 DEF TypeOK, Larger
  <2> QED BY <1>1, <1>2, <1>5, <2>1 DEF TypeOK, Larger
<1>6. CASE m # n
  <2>1. m \in Sent /\ msgSeq'[m] = msgSeq[m] /\ msgSeq[m] \in Nat
    BY <1>1, <1>2, <1>4, <1>6 DEF TypeOK
  <2>2. msgSeq[m] < clock[Msg[m].run]
    BY <2>1 DEF ClockIsAhead
  <2> QED BY <1>2, <1>3, <2>1, <2>2
<1> QED BY <1>5, <1>6

LEMMA WriteKeepsClockAhead ==
    ASSUME TypeOK, ClockIsAhead, NEW r \in Records, WriteMemory(r)
    PROVE  ClockIsAhead'
<1>1. /\ UNCHANGED msgSeq /\ RunOf(r) \in Runs
      /\ clock' = [clock EXCEPT ![RunOf(r)] = clock[RunOf(r)] + 1]
  BY RunType DEF WriteMemory
<1>2. clock' \in [Runs -> Nat] /\ \A run \in Runs : clock[run] <= clock'[run]
  BY <1>1 DEF TypeOK
<1> QED BY <1>1, <1>2, ClockStaysAhead

LEMMA StepClockIsAhead == TypeOK /\ ClockIsAhead /\ [MemoryNext]_memoryVars => ClockIsAhead'
<1> SUFFICES ASSUME TypeOK, ClockIsAhead, [MemoryNext]_memoryVars PROVE ClockIsAhead'
  OBVIOUS
<1>1. ASSUME NEW m \in Messages,
             NEW seq \in (clock[Msg[m].run] - MaxLag)..(clock[Msg[m].run] + MaxSkip),
             SendMessage(m, seq)
      PROVE  ClockIsAhead'
  <2>1. seq \in Int
    OBVIOUS
  <2> QED BY <1>1, <2>1, SendKeepsClockAhead
<1>2. ASSUME NEW r \in Records, WriteMemory(r) PROVE ClockIsAhead'
  BY <1>2, WriteKeepsClockAhead
<1>3. CASE UNCHANGED <<clock, msgSeq>>
  BY <1>3 DEF ClockIsAhead, Sent
<1> QED BY <1>1, <1>2, <1>3 DEF MemoryNext, memoryVars, Retire, ResolveConflict, Delegate, Redeploy

\* The clock of a run is ahead of all that happened in it.
LEMMA ClockCorrect == MemorySpec => []ClockIsAhead
  BY InitClockIsAhead, StepClockIsAhead, TypeCorrect, PTL DEF MemorySpec

\* The certificates in force depend on their log and the policy alone.
LEMMA CertFrame ==
    ASSUME UNCHANGED <<resolutions, policy>>, NEW run, NEW k
    PROVE  /\ CertInForce(run, k)' = CertInForce(run, k)
           /\ Accepted(run, k)' = Accepted(run, k) /\ Covered(run, k)' = Covered(run, k)
<1>1. CertInForce(run, k)' = CertInForce(run, k)
  BY DEF CertInForce, CertsFor
<1> QED BY <1>1 DEF Accepted, Covered

\* What the set-level pass says of the records of a key depends on those
\* admitted and on those adopted among them.
LEMMA VersionsSettled ==
    ASSUME NEW m, NEW k, Admitted(m)' = Admitted(m),
           (Admitted(m) \cap AdoptedBy(m))' = Admitted(m) \cap AdoptedBy(m)
    PROVE  /\ Rivals(m, k)' = Rivals(m, k) /\ Dominated(m, k)' = Dominated(m, k)
           /\ Maximal(m, k)' = Maximal(m, k) /\ AdoptWinners(m, k)' = AdoptWinners(m, k)
<1>1. Rivals(m, k)' = Rivals(m, k)
  BY DEF Rivals
<1>2. Dominated(m, k)' = Dominated(m, k)
  BY <1>1 DEF Dominated, Dominates
<1>3. Maximal(m, k)' = Maximal(m, k) /\ Maximal(m, k) \subseteq Admitted(m)
  BY <1>1, <1>2 DEF Maximal, Rivals
<1>4. (Maximal(m, k) \cap AdoptedBy(m))' = Maximal(m, k) \cap AdoptedBy(m)
  BY <1>3
<1>5. AdoptWinners(m, k)' = AdoptWinners(m, k)
  BY <1>3, <1>4 DEF AdoptWinners
<1> QED BY <1>1, <1>2, <1>3, <1>5

LEMMA CoherenceSettled ==
    ASSUME UNCHANGED <<resolutions, policy>>, NEW m, NEW r, Admitted(m)' = Admitted(m),
           (Admitted(m) \cap AdoptedBy(m))' = Admitted(m) \cap AdoptedBy(m)
    PROVE  CoherentReason(m, r)' = CoherentReason(m, r)
<1> DEFINE k == Rec[r].key
           run == Msg[m].run
<1>1. /\ CertInForce(run, k)' = CertInForce(run, k)
      /\ Accepted(run, k)' = Accepted(run, k) /\ Covered(run, k)' = Covered(run, k)
  BY CertFrame
<1>2. /\ Rivals(m, k)' = Rivals(m, k) /\ Dominated(m, k)' = Dominated(m, k)
      /\ Maximal(m, k)' = Maximal(m, k) /\ AdoptWinners(m, k)' = AdoptWinners(m, k)
  BY VersionsSettled
<1> QED BY <1>1, <1>2 DEF CoherentReason

\* The gate sees of the moving store a record's and its reader's position only.
LEMMA GateSettled ==
    ASSUME UNCHANGED <<retired, delegations, policy>>, NEW m, NEW r,
           msgSeq'[m] = msgSeq[m], writeSeq'[r] = writeSeq[r]
    PROVE  GateReason(m, r)' = GateReason(m, r)
<1>1. DelegatedTo(m)' = DelegatedTo(m)
  BY DEF DelegatedTo
<1> QED BY <1>1 DEF GateReason, RunOf, TaskOf

\* A new message is not among the ancestors of a reader: those are all stored.
LEMMA SendSettles ==
    ASSUME TypeOK, NEW n \in Messages, NEW seq \in Int, SendMessage(n, seq), NEW m \in Readers
    PROVE  /\ m \in Readers'
           /\ \A r \in Records : GateReason(m, r)' = GateReason(m, r)
           /\ Admitted(m)' = Admitted(m) /\ AdoptedBy(m)' = AdoptedBy(m)
<1>1. /\ UNCHANGED <<writeSeq, retired, resolutions, delegations, policy>> /\ n \notin Sent
      /\ msgSeq' = [msgSeq EXCEPT ![n] = seq] /\ seq > 0 /\ Stored' = Stored
  BY DEF SendMessage, Stored
<1>2. /\ m \in Messages /\ m \in Msg[m].closure /\ msgSeq'[m] = msgSeq[m]
      /\ \A a \in Msg[m].closure : a \in Sent /\ a \in Messages /\ msgSeq'[a] = msgSeq[a]
  BY <1>1, ReaderType DEF TypeOK
<1>3. \A r \in Records : GateReason(m, r)' = GateReason(m, r)
  BY <1>1, <1>2, GateSettled
<1>4. Admitted(m)' = Admitted(m)
  BY <1>1, <1>3 DEF Admitted, Stored
<1>5. \A a \in Msg[m].closure : (a \in Sent)' /\ a \in Sent
  BY <1>2 DEF Sent
<1>6. AdoptedBy(m)' = AdoptedBy(m)
  BY <1>1, <1>2, <1>5 DEF AdoptedBy
<1>7. m \in Readers'
  <2>1. ASSUME NEW a \in Msg[m].closure PROVE InOrder(a, Msg[a].closure)'
    <3>1. Msg[a].closure \subseteq Msg[m].closure /\ InOrder(a, Msg[a].closure)
      BY ReaderType
    <3> QED BY <1>2, <3>1 DEF InOrder
  <2> QED BY <1>2, <1>5, <2>1 DEF Readers
<1> QED BY <1>3, <1>4, <1>6, <1>7

\* A write is stamped later than every message of its run, so no message that
\* is there admits it, adopted or not, and it stores no message.
LEMMA WriteSettles ==
    ASSUME TypeOK, ClockIsAhead, NEW w \in Records, WriteMemory(w), NEW m \in Readers
    PROVE  /\ m \in Readers'
           /\ \A r \in Records \ {w} : GateReason(m, r)' = GateReason(m, r)
           /\ GateReason(m, w)' # "allow"
           /\ Admitted(m)' = Admitted(m)
           /\ (Admitted(m) \cap AdoptedBy(m))' = Admitted(m) \cap AdoptedBy(m)
<1>1. /\ UNCHANGED <<msgSeq, retired, resolutions, delegations, policy>> /\ w \notin Stored
      /\ writeSeq' = [writeSeq EXCEPT ![w] = clock[RunOf(w)]]
      /\ m \in Messages /\ m \in Sent /\ Msg[m].run \in Runs
  BY ReaderType, SignedFields DEF WriteMemory, MsgFields
<1>2. \A r \in Records \ {w} : writeSeq'[r] = writeSeq[r]
  BY <1>1 DEF TypeOK
<1>3. \A r \in Records \ {w} : GateReason(m, r)' = GateReason(m, r)
  BY <1>1, <1>2, GateSettled
<1>4. GateReason(m, w)' # "allow"
  <2>1. CASE RunOf(w) # Msg[m].run
    BY <2>1 DEF GateReason, RunOf
  <2>2. CASE RunOf(w) = Msg[m].run
    <3>1. msgSeq[m] < clock[RunOf(w)] /\ writeSeq'[w] = clock[RunOf(w)] /\ msgSeq'[m] = msgSeq[m]
      BY <1>1, <2>2 DEF ClockIsAhead, TypeOK
    <3>2. msgSeq[m] \in Nat /\ clock[RunOf(w)] \in Nat
      BY <1>1, <2>2 DEF TypeOK
    <3>3. writeSeq'[w] > msgSeq'[m]
      BY <3>1, <3>2
    <3> QED BY <3>3 DEF GateReason
  <2> QED BY <2>1, <2>2
<1>5. Stored' \ {w} = Stored /\ Stored \subseteq Records /\ Stored' \subseteq Records
  BY <1>1, <1>2 DEF Stored
<1>6. Admitted(m)' = Admitted(m)
  BY <1>3, <1>4, <1>5 DEF Admitted
<1>7. Sent' = Sent /\ \A r \in Stored : r \in AdoptedBy(m)' <=> r \in AdoptedBy(m)
  BY <1>1, <1>2, <1>5 DEF AdoptedBy, Sent
<1>8. Admitted(m) \subseteq Stored
  BY DEF Admitted
<1>9. m \in Readers'
  BY <1>1 DEF Readers, InOrder, Sent
<1> QED BY <1>3, <1>4, <1>6, <1>7, <1>8, <1>9

\* Whatever is sent or written, a message whose reads went through is served the
\* same, and gives every record that was there the same verdict.
LEMMA PastSettled ==
    ASSUME TypeOK, ClockIsAhead, NEW m \in Readers,
           \/ \E n \in Messages, seq \in Int : SendMessage(n, seq)
           \/ \E w \in Records : WriteMemory(w)
    PROVE  /\ m \in Readers' /\ Served(m)' = Served(m) /\ Stored \subseteq Stored'
           /\ \A r \in Stored : Verdict(m, r)' = Verdict(m, r)
<1>1. /\ UNCHANGED <<resolutions, policy>> /\ Admitted(m)' = Admitted(m)
      /\ (Admitted(m) \cap AdoptedBy(m))' = Admitted(m) \cap AdoptedBy(m)
      /\ \A r \in Stored : GateReason(m, r)' = GateReason(m, r)
      /\ Stored \subseteq Stored' /\ m \in Readers'
  <2>1. CASE \E n \in Messages, seq \in Int : SendMessage(n, seq)
    BY <2>1, SendSettles DEF SendMessage, Stored
  <2>2. CASE \E w \in Records : WriteMemory(w)
    <3>1. PICK w \in Records : WriteMemory(w)
      BY <2>2
    <3>2. /\ UNCHANGED <<resolutions, policy>> /\ w \notin Stored /\ Stored \subseteq Records
          /\ writeSeq' = [writeSeq EXCEPT ![w] = clock[RunOf(w)]]
      BY <3>1 DEF WriteMemory, Stored
    <3>3. Stored \subseteq Stored'
      BY <3>2 DEF Stored, TypeOK
    <3> QED BY <3>1, <3>2, <3>3, WriteSettles
  <2> QED BY <2>1, <2>2
<1>2. \A r : CoherentReason(m, r)' = CoherentReason(m, r)
  BY <1>1, CoherenceSettled
<1>3. \A r \in Stored : Verdict(m, r)' = Verdict(m, r)
  BY <1>1, <1>2 DEF Verdict
<1>4. Served(m) = {r \in Admitted(m) : CoherentReason(m, r) = "allow"}
  BY DEF Served, Verdict, Admitted
<1>5. Served(m)' = {r \in Admitted(m)' : CoherentReason(m, r)' = "allow"}
  BY DEF Served, Verdict, Admitted
<1> QED BY <1>1, <1>2, <1>3, <1>4, <1>5

\* Which step moves a message or a record.
LEMMA MovesAreSendsAndWrites ==
    ASSUME TypeOK, MemoryNext
    PROVE  /\ msgSeq' # msgSeq \/ writeSeq' # writeSeq =>
                  \/ \E n \in Messages, seq \in Int : SendMessage(n, seq)
                  \/ \E w \in Records : WriteMemory(w)
           /\ writeSeq' # writeSeq => \E w \in Records : WriteMemory(w)
<1>1. ASSUME NEW m \in Messages,
             NEW seq \in (clock[Msg[m].run] - MaxLag)..(clock[Msg[m].run] + MaxSkip),
             SendMessage(m, seq)
      PROVE  UNCHANGED writeSeq /\ \E n \in Messages, s \in Int : SendMessage(n, s)
  <2>1. seq \in Int
    OBVIOUS
  <2> QED BY <1>1, <2>1 DEF SendMessage
<1>2. ASSUME \/ \E r \in Records : Retire(r)
             \/ \E run \in Runs, k \in Keys, w \in Records : ResolveConflict(run, k, w)
             \/ \E r \in Records, t \in Tasks : Delegate(r, t)
             \/ \E p \in Policies : Redeploy(p)
      PROVE  UNCHANGED <<msgSeq, writeSeq>>
  BY <1>2 DEF Retire, ResolveConflict, Delegate, Redeploy
<1> QED BY <1>1, <1>2 DEF MemoryNext

LEMMA StepPastIsSettled ==
    ASSUME TypeOK, ClockIsAhead, MemoryNext, msgSeq' # msgSeq \/ writeSeq' # writeSeq
    PROVE  \A m \in Readers : m \in Readers' /\ Served(m)' = Served(m)
  BY MovesAreSendsAndWrites, PastSettled

\* Once a message's reads go through, no later message and no later write
\* refuses them or changes what they return.
THEOREM ThePastIsSettled == MemorySpec => PastIsSettled
<1>1. TypeOK /\ ClockIsAhead /\ [MemoryNext]_memoryVars
        => [(msgSeq' # msgSeq \/ writeSeq' # writeSeq)
              => \A m \in Readers : m \in Readers' /\ Served(m)' = Served(m)]_memoryVars
  BY StepPastIsSettled
<1> QED BY <1>1, TypeCorrect, ClockCorrect, PTL DEF MemorySpec, PastIsSettled

\* A record that capped still does, and a certificate's ceilings stay or give
\* way to none.
LEMMA WriteKeepsCeilings ==
    ASSUME TypeOK, ClockIsAhead, NEW w \in Records, WriteMemory(w), NEW m \in Readers,
           NEW c \in Ceilings(m)
    PROVE  c \in Ceilings(m)' \/ {} \in Ceilings(m)'
<1> DEFINE run == Msg[m].run
<1>1. /\ Served(m)' = Served(m) /\ Stored \subseteq Stored'
      /\ \A r \in Stored : Verdict(m, r)' = Verdict(m, r)
      /\ UNCHANGED <<resolutions, policy>>
  BY PastSettled DEF WriteMemory
<1>2. \A k : /\ CertInForce(run, k)' = CertInForce(run, k)
             /\ Accepted(run, k)' = Accepted(run, k) /\ Covered(run, k)' = Covered(run, k)
  BY <1>1, CertFrame
<1>3. Certified(m)' = Certified(m)
  BY <1>2 DEF Certified
<1>4. ASSUME NEW k \in Certified(m), c \in CertCeilings(m, k)
      PROVE  c \in CertCeilings(m, k)' \/ {} \in CertCeilings(m, k)'
  <2>1. CertStale(m, k) => CertStale(m, k)'
    BY <1>1, <1>2 DEF CertStale
  <2> QED BY <1>1, <1>2, <1>4, <2>1 DEF CertCeilings
<1>5. \A k : ServedKey(m, k)' <=> ServedKey(m, k)
  BY <1>1 DEF ServedKey
<1>6. \A r \in Stored : Caps(m, r) => Caps(m, r)'
  BY <1>1, <1>3, <1>5 DEF Caps
<1>7. CASE \E k \in Certified(m) : c \in CertCeilings(m, k)
  BY <1>3, <1>4, <1>7 DEF Ceilings
<1>8. CASE \E r \in Stored : Caps(m, r) /\ c \in Rec[r].ceiling
  <2>1. PICK r \in Stored' : Caps(m, r)' /\ c \in Rec[r].ceiling
    BY <1>1, <1>6, <1>8
  <2> QED BY <2>1 DEF Ceilings
<1> QED BY <1>7, <1>8 DEF Ceilings

LEMMA StepWritesNeverWiden ==
    ASSUME TypeOK, ClockIsAhead, MemoryNext, writeSeq' # writeSeq, NEW m \in Readers
    PROVE  Capability(m)' \subseteq Capability(m) /\ (Bounded(m) => Bounded(m)')
<1>1. PICK w \in Records : WriteMemory(w)
  BY MovesAreSendsAndWrites
<1>2. \A c \in Ceilings(m) : c \in Ceilings(m)' \/ {} \in Ceilings(m)'
  BY <1>1, WriteKeepsCeilings
<1> QED BY <1>2 DEF Capability, Bounded

\* No write widens the capability of a reader.
THEOREM NoWriteWidens == MemorySpec => WritesNeverWiden
<1>1. TypeOK /\ ClockIsAhead /\ [MemoryNext]_memoryVars
        => [writeSeq' # writeSeq
              => \A m \in Readers : /\ Capability(m)' \subseteq Capability(m)
                                    /\ Bounded(m) => Bounded(m)']_memoryVars
  BY StepWritesNeverWiden
<1> QED BY <1>1, TypeCorrect, ClockCorrect, PTL DEF MemorySpec, WritesNeverWiden
=============================================================================
