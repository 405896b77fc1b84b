---------------------------- MODULE AuthorityLogs ----------------------------
(***************************************************************************)
(* What the control plane keeps in memory and the runtime keeps in tables   *)
(* about one key of one run: the chained lifecycle and resolution logs, the *)
(* membership ledger of the authority-bearing records, and the audit of     *)
(* reads (runtime.mjs, control_plane.mjs).                                  *)
(*                                                                          *)
(* Every call here is JavaScript that runs to completion, so nothing else   *)
(* happens inside one; but it is a row of SQL statements, each committed by *)
(* itself unless a transaction is open, and a statement may fail (the       *)
(* database is locked) or be the last one before the process dies.  An      *)
(* action therefore has a parameter `reached`, the number of its statements *)
(* that took effect, and a parameter `dies`.                                *)
(***************************************************************************)
EXTENDS Integers, Sequences, FiniteSets, SequencesExt

CONSTANTS
    Records,       \* the authority-bearing records of the key
    Policies,      \* values of ControlPlane.policyVersion
    NoTxn,         \* no executeAuthorizedAction is open
    MaxAppends,    \* bound: rows of the two append logs together
    MaxReads,      \* bound: reads begun
    MaxFaults      \* bound: failed statements and deaths

ASSUME LogsConstants == IsFiniteSet(Records) /\ MaxReads \in Nat /\ MaxFaults \in Nat

AppendLogs == {"lifecycle", "resolution"}
Chains     == AppendLogs \cup {"membership"}

\* A chained MAC covers its event and, through prev_mac, all before it: it is
\* the sequence of the events it covers.
Certificates == [accepted : Records, named : SUBSET Records, policy : Policies]
Contents     == Records \cup Certificates
Macs         == Seq(Contents)

VARIABLES
    \* The control plane's memory, lost when the process dies.
    head,       \* per chain: count, last sequence number, last MAC
    members,    \* the membership Map: ids of the ledger
    policy,     \* policyVersion of the running control plane
    \* The tables.
    rows,       \* per chain, its rows in the order of seq
    anchor,     \* per chain, its anchor row
    stored,     \* authority-bearing rows of shared_memory
    version,    \* kernel.security_versions of the key
    counted,    \* kernel.audit_anchor
    decisions,  \* reads that have rows in memory_access_decisions
    manifests,  \* memory_reads
    \* The open transaction, and history.
    txn,        \* NoTxn, or what a ROLLBACK brings back
    acked,      \* per chain, the MACs of the appends that returned
    returned,   \* reads whose records were handed out, outside a transaction
                \* that was rolled back
    reads,      \* reads begun
    faults      \* failed statements and deaths so far

memory  == <<head, members, policy>>
logged  == <<rows, anchor, stored, version>>
audit   == <<counted, decisions, manifests>>
vars    == <<memory, logged, audit, txn, acked, returned, reads, faults>>

-----------------------------------------------------------------------------
(* Chains.                                                                  *)

Empty == [count |-> 0, seq |-> 0, mac |-> <<>>]

\* lifecycleAppend, resolutionAppend, nextAuthorityMember: the next row comes
\* from the head in memory.
NextRow(c, e) == [seq |-> head[c].seq + 1, prev |-> head[c].mac, mac |-> Append(head[c].mac, e)]

Advanced(c, row) == [head EXCEPT ![c] = [count |-> @.count + 1, seq |-> row.seq, mac |-> row.mac]]

\* _verifiedLifecycleEvents, _verifiedResolutionEvents, _verifiedMembership: as
\* many rows as the head counts, each the successor of the one before, and the
\* last one the head.
ChainOK(rs, h) ==
    LET n == Len(rs) IN
    /\ n = h.count
    /\ \A i \in 1..n : rs[i].prev = (IF i = 1 THEN <<>> ELSE rs[i - 1].mac)
    /\ h.mac = (IF n = 0 THEN <<>> ELSE rs[n].mac)
    /\ n > 0 => h.seq = rs[n].seq

Verifies(c) == ChainOK(rows[c], head[c])

Events(c) == {Last(rows[c][i].mac) : i \in DOMAIN rows[c]}

\* retiredMemoryIds, and _resolutionFor: the last certificate, if the current
\* policy issued it.
Retired == Events("lifecycle")

CertInForce ==
    LET n == Len(rows["resolution"]) IN
    {c \in {Last(rows["resolution"][n].mac) : i \in {j \in {n} : j > 0}} : c.policy = policy}

\* _storeTamperReason: the ledger in memory, its rows and the store agree.
StoreSound ==
    /\ Verifies("membership")
    /\ stored = members
    /\ Events("membership") = members

\* The coherent view asks for the certificate of a key only when a record of the
\* key was admitted: that alone verifies the resolution log.
Consults == stored \ Retired # {}

Consulted == IF Consults THEN CertInForce ELSE {}

\* A read throws before it writes anything unless all of this holds.
Readable == Verifies("lifecycle") /\ StoreSound /\ (Consults => Verifies("resolution"))

\* Mutant: the epoch is the version of the key alone.
VersionAlone == <<version>>

\* _keyEpoch.
KeyEpoch == <<version, Cardinality(stored), Len(rows["resolution"])>>

-----------------------------------------------------------------------------
(* What a read decides about the rival versions of the key, from what it    *)
(* consulted (_gateCandidates; SharedMemory has it in full).                *)

Decide(candidates, retired, certs) ==
    LET active == candidates \ retired IN
    IF certs # {}
      THEN {r \in active : \A c \in certs : active \subseteq c.named /\ r = c.accepted}
      ELSE {r \in active : active = {r}}

\* The manifest of a read snapshots the certificates it consulted.
Manifest(id) ==
    [id |-> id, candidates |-> stored, retired |-> Retired, certs |-> Consulted,
     admitted |-> Decide(stored, Retired, Consulted), policy |-> policy]

\* Mutant: the replay takes the certificates of today.
ReplayedToday(m) == Decide(m.candidates, m.retired, CertInForce)

\* replaySecureMemoryReads: a read is decided again from its manifest, with
\* the certificates that the policy of the replay still honours.
Replayed(m) == Decide(m.candidates, m.retired, {c \in m.certs : c.policy = policy})

\* Its other issues: fewer manifests than reads were counted, decisions of a
\* read without a manifest, a manifest without decisions.
CountsAgree ==
    /\ counted <= Cardinality(manifests)
    /\ decisions \subseteq {m.id : m \in manifests}
    /\ \A m \in manifests : m.candidates # {} => m.id \in decisions

ReplayClean == CountsAgree /\ \A m \in manifests : Replayed(m) = m.admitted

-----------------------------------------------------------------------------
(* Steps.                                                                   *)

LogsInit ==
    /\ head = [c \in Chains |-> Empty] /\ members = {} /\ policy \in Policies
    /\ rows = [c \in Chains |-> <<>>] /\ anchor = [c \in Chains |-> Empty]
    /\ stored = {} /\ version = 0
    /\ counted = 0 /\ decisions = {} /\ manifests = {}
    /\ txn = NoTxn
    /\ acked = [c \in Chains |-> {}] /\ returned = {} /\ reads = 0 /\ faults = 0

\* Mutant: a restart takes no notice of the anchor.
NoSeed == /\ head' = [c \in Chains |-> Empty]
          /\ members' = {Last(rows'["membership"][i].mac) : i \in DOMAIN rows'["membership"]}
          /\ policy' \in Policies

\* Mutant: a restart fills the Map with the rows' MACs instead of their ids.
KeyedByMac == /\ head' = anchor'
              /\ members' = {rows'["membership"][i].mac : i \in DOMAIN rows'["membership"]}
              /\ policy' \in Policies

\* The constructor on an existing store: every head from its anchor, the Map
\* from the ledger's rows.
Restore ==
    /\ head' = anchor'
    /\ members' = {Last(rows'["membership"][i].mac) : i \in DOMAIN rows'["membership"]}
    /\ policy' \in Policies

\* A call that reached all its statements and lives returns; any other is a
\* fault, and a dead process is started again.
Outcome(complete, dies) ==
    /\ ~ complete \/ dies => faults < MaxFaults
    /\ faults' = IF ~ complete \/ dies THEN faults + 1 ELSE faults

\* Mutant: the policy of an open transaction may append.
AnyTime == TRUE

\* _assertNotInExec: no authority moves inside executeAuthorizedAction.
NotInExec == txn = NoTxn

\* Mutant: the head moves whether or not the transaction committed.
HeadFirst(r, row, committed) ==
    /\ head' = Advanced("membership", row)
    /\ members' = IF committed THEN members \cup {r} ELSE members

\* commitAuthorityMember: only after the COMMIT.
CommitMember(r, row, committed) ==
    /\ head' = IF committed THEN Advanced("membership", row) ELSE head
    /\ members' = IF committed THEN members \cup {r} ELSE members

\* _appendLifecycle and resolveConflict: the head in memory, then the row, the
\* anchor, and the version of the key, each committed by itself.
AppendEvent(l, e, reached, dies) ==
    LET row == NextRow(l, e)
        bumps == IF l = "resolution" THEN TRUE ELSE e \in stored
    IN
    /\ NotInExec
    /\ Len(rows["lifecycle"]) + Len(rows["resolution"]) < MaxAppends
    /\ Outcome(reached = 3, dies)
    /\ rows' = IF reached >= 1 THEN [rows EXCEPT ![l] = Append(@, row)] ELSE rows
    /\ anchor' = IF reached >= 2
                   THEN [anchor EXCEPT ![l] = [count |-> @.count + 1, seq |-> row.seq, mac |-> row.mac]]
                   ELSE anchor
    /\ version' = IF reached = 3 /\ bumps THEN version + 1 ELSE version
    /\ acked' = IF reached = 3 /\ ~ dies THEN [acked EXCEPT ![l] = @ \cup {row.mac}] ELSE acked
    /\ IF dies THEN Restore ELSE head' = Advanced(l, row) /\ UNCHANGED <<members, policy>>
    /\ UNCHANGED <<stored, audit, txn, returned, reads>>

\* supersede, expire and revoke.
Retire(r, reached, dies) == AppendEvent("lifecycle", r, reached, dies)

\* resolveConflict names the whole conflict set that exists now.
ResolveConflict(r, reached, dies) ==
    /\ r \in stored
    /\ AppendEvent("resolution", [accepted |-> r, named |-> stored, policy |-> policy], reached, dies)

\* writeMemory of a record with a key or a ceiling: row, ledger and anchor in
\* one transaction, then the head in memory, then the version of the key, then
\* the event and the output of the context.
WriteMember(r, reached, dies) ==
    LET row == NextRow("membership", r) IN
    /\ NotInExec
    /\ r \notin stored
    /\ Outcome(reached = 3, dies)
    /\ rows' = IF reached >= 1 THEN [rows EXCEPT !["membership"] = Append(@, row)] ELSE rows
    /\ anchor' = IF reached >= 1
                   THEN [anchor EXCEPT !["membership"] =
                            [count |-> head["membership"].count + 1, seq |-> row.seq, mac |-> row.mac]]
                   ELSE anchor
    /\ stored' = IF reached >= 1 THEN stored \cup {r} ELSE stored
    /\ version' = IF reached >= 2 THEN version + 1 ELSE version
    /\ acked' = IF reached = 3 /\ ~ dies THEN [acked EXCEPT !["membership"] = @ \cup {row.mac}] ELSE acked
    /\ IF dies THEN Restore ELSE CommitMember(r, row, reached >= 1) /\ UNCHANGED policy
    /\ UNCHANGED <<audit, txn, returned, reads>>

\* Mutant: the counter of reads is outside the transaction.
CounterStays ==
    /\ rows' = txn.rows /\ anchor' = txn.anchor /\ stored' = txn.stored /\ version' = txn.version
    /\ counted' = counted /\ decisions' = txn.decisions /\ manifests' = txn.manifests
    /\ returned' = txn.returned
    /\ txn' = NoTxn

\* What a ROLLBACK, or a death inside the transaction, brings back.
RestoreTables ==
    /\ rows' = txn.rows /\ anchor' = txn.anchor /\ stored' = txn.stored /\ version' = txn.version
    /\ counted' = txn.counted /\ decisions' = txn.decisions /\ manifests' = txn.manifests
    /\ returned' = txn.returned
    /\ txn' = NoTxn

\* recordSecureRead: the decisions, the counter, the manifest.
RecordRead(id, reached) ==
    /\ decisions' = IF reached >= 1 /\ stored # {} THEN decisions \cup {id} ELSE decisions
    /\ counted' = IF reached >= 2 THEN counted + 1 ELSE counted
    /\ manifests' = IF reached >= 3 THEN manifests \cup {Manifest(id)} ELSE manifests

\* A read (readMemory, queryMemory, and the recomputed view of
\* executeAuthorizedAction) and its audit.
Read(reached, dies) ==
    LET id == reads + 1 IN
    /\ Readable
    /\ reads < MaxReads
    /\ dies => txn = NoTxn
    /\ Outcome(reached = 3, dies)
    /\ reads' = id
    /\ RecordRead(id, reached)
    /\ returned' = IF reached = 3 /\ ~ dies THEN returned \cup {id} ELSE returned
    /\ UNCHANGED <<logged, txn, acked>>
    /\ IF dies THEN Restore ELSE UNCHANGED memory

\* executeAuthorizedAction: BEGIN IMMEDIATE, with reads of its own and of the
\* destination policy inside, then COMMIT or ROLLBACK.
BeginExec ==
    /\ txn = NoTxn
    /\ txn' = [rows |-> rows, anchor |-> anchor, stored |-> stored, version |-> version,
               counted |-> counted, decisions |-> decisions, manifests |-> manifests,
               returned |-> returned]
    /\ UNCHANGED <<memory, logged, audit, acked, returned, reads, faults>>

CommitExec ==
    /\ txn # NoTxn
    /\ txn' = NoTxn
    /\ UNCHANGED <<memory, logged, audit, acked, returned, reads, faults>>

RollbackExec ==
    /\ txn # NoTxn
    /\ RestoreTables
    /\ UNCHANGED <<memory, acked, reads, faults>>

\* The process ends between two calls, or inside a transaction, and is started
\* again on the same store and key, perhaps with another policy version.
Restart ==
    /\ IF txn = NoTxn THEN UNCHANGED <<logged, audit, returned, txn>> ELSE RestoreTables
    /\ Restore
    /\ UNCHANGED <<acked, reads, faults>>

LogsNext ==
    \/ \E r \in Records, n \in 0..3, dies \in BOOLEAN :
          Retire(r, n, dies) \/ ResolveConflict(r, n, dies) \/ WriteMember(r, n, dies)
    \/ \E n \in 0..3, dies \in BOOLEAN : Read(n, dies)
    \/ BeginExec \/ CommitExec \/ RollbackExec \/ Restart

LogsSpec == LogsInit /\ [][LogsNext]_vars

-----------------------------------------------------------------------------
(* What is promised.                                                        *)

Rows == [seq : Nat, prev : Macs, mac : Macs]
Heads == [count : Nat, seq : Nat, mac : Macs]
ReadIds == 1..MaxReads
ManifestRecords == [id : ReadIds, candidates : SUBSET Records, retired : SUBSET Records,
                    certs : SUBSET Certificates, admitted : SUBSET Records, policy : Policies]

LogsTypeOK ==
    /\ head \in [Chains -> Heads] /\ members \subseteq Records /\ policy \in Policies
    /\ rows \in [Chains -> Seq(Rows)] /\ anchor \in [Chains -> Heads]
    /\ stored \subseteq Records /\ version \in Nat
    /\ counted \in Nat /\ decisions \subseteq ReadIds /\ manifests \subseteq ManifestRecords
    /\ acked \in [Chains -> SUBSET Macs] /\ returned \subseteq ReadIds
    /\ reads \in 0..MaxReads /\ faults \in 0..MaxFaults

\* Whichever statement fails and wherever the process dies, the store, the
\* ledger, its anchor and the control plane agree as soon as the call is over:
\* a write of a record that restricts authority is never half done
\* (writeMemory, nextAuthorityMember, commitAuthorityMember).
MembershipSurvivesFaults == StoreSound /\ anchor["membership"] = head["membership"]

\* Whatever was acknowledged is still in its log: no failed statement, rollback
\* or restart makes a write, a retirement or a resolution unhappen, also one that
\* a destination policy asked for (_appendLifecycle, resolveConflict,
\* writeMemory, _assertNotInExec).
AcknowledgedIsKept ==
    \A c \in Chains : \A m \in acked[c] : \E i \in DOMAIN rows[c] : rows[c][i].mac = m

\* Readers are refused only after a fault: rollbacks and restarts between
\* calls part no head from its log (_assertNotInExec).
RefusedOnlyAfterFault == faults = 0 => Readable

\* What changes the authority over the key moves the epoch that a read token
\* remembers: a write and a resolution as soon as their rows are there, even
\* if the process dies before the version moves, a retirement by the time the
\* call returns (_keyEpoch).
EpochFollowsAuthority ==
    [][ \/ stored' # stored
        \/ rows'["resolution"] # rows["resolution"]
        \/ acked'["lifecycle"] # acked["lifecycle"] /\ (Retired \cap stored)' # Retired \cap stored
        => KeyEpoch' # KeyEpoch ]_vars

\* A read is decided again as it was decided, whatever was written, retired or
\* resolved since, as long as the policy is the one it was read under
\* (replaySecureMemoryReads).
ReplayReproduces == \A m \in manifests : m.policy = policy => Replayed(m) = m.admitted

\* Without faults an audit finds nothing under one policy, whatever was rolled
\* back and restarted; every read handed out and not rolled back is in it; and
\* the counter never falls behind the manifests, so that one that is missing
\* later is missed (_recordSecureRead, replaySecureMemoryReads).
AuditIsClean ==
    /\ faults = 0 => CountsAgree
    /\ returned \subseteq {m.id : m \in manifests}
    /\ Cardinality(manifests) <= counted

=============================================================================
