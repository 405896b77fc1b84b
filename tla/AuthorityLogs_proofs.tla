------------------------ MODULE AuthorityLogs_proofs ------------------------
(***************************************************************************)
(* The authority logs keep their promises for every number of records,      *)
(* policies, appends, reads and faults.  One invariant, LogsInv, carries    *)
(* them: an open transaction would bring back exactly the log tables that   *)
(* are there (nothing moves authority inside one), the membership chain is  *)
(* sound in every state, the append chains until a fault, and the audit is  *)
(* in order both now and after a rollback.                                  *)
(***************************************************************************)
EXTENDS AuthorityLogs, FiniteSetTheorems, TLAPS

USE LogsConstants

MacsOf(rs) == {rs[i].mac : i \in DOMAIN rs}

\* A rollback brings back the log tables as they are.
TxnRemembers ==
    txn # NoTxn => /\ txn.rows = rows /\ txn.anchor = anchor
                   /\ txn.stored = stored /\ txn.version = version

\* A manifest of one of the first n reads says what was decided and from what.
Faithful(m, n) ==
    /\ m \in ManifestRecords /\ m.id \in 1..n
    /\ m.admitted = Decide(m.candidates, m.retired, m.certs)
    /\ \A c \in m.certs : c.policy = m.policy

Ids(man) == {m.id : m \in man}

\* The audit tables after n reads, and f faults.
AuditSound(cnt, dec, man, ret, n, f) ==
    /\ cnt \in Nat /\ IsFiniteSet(man) /\ Cardinality(man) <= cnt
    /\ dec \subseteq 1..n
    /\ \A m \in man : Faithful(m, n)
    /\ ret \subseteq Ids(man)
    /\ f = 0 => /\ cnt <= Cardinality(man)
                /\ dec \subseteq Ids(man)
                /\ \A m \in man : m.candidates # {} => m.id \in dec

AuditHolds ==
    /\ AuditSound(counted, decisions, manifests, returned, reads, faults)
    /\ txn # NoTxn =>
         AuditSound(txn.counted, txn.decisions, txn.manifests, txn.returned, reads, faults)

ChainsUntilFault == faults = 0 => \A c \in Chains : Verifies(c) /\ anchor[c] = head[c]

\* Types of what the transaction does not bring back.
LogTypes ==
    /\ head \in [Chains -> Heads] /\ members \subseteq Records /\ policy \in Policies
    /\ rows \in [Chains -> Seq(Rows)] /\ anchor \in [Chains -> Heads]
    /\ stored \subseteq Records /\ version \in Nat
    /\ acked \in [Chains -> SUBSET Macs]
    /\ reads \in 0..MaxReads /\ faults \in 0..MaxFaults

LedgerContents ==
    /\ \A i \in DOMAIN rows["membership"] : Last(rows["membership"][i].mac) \in Records
    /\ \A i \in DOMAIN rows["resolution"] : Last(rows["resolution"][i].mac) \in Certificates
    /\ \A i \in DOMAIN rows["lifecycle"] : Last(rows["lifecycle"][i].mac) \in Records

LogsInv ==
    /\ LogTypes
    /\ LedgerContents
    /\ TxnRemembers
    /\ MembershipSurvivesFaults
    /\ AcknowledgedIsKept
    /\ ChainsUntilFault
    /\ AuditHolds

-----------------------------------------------------------------------------
(* Sequences and chains.                                                    *)

\* The last element of a sequence that was appended to is what was appended.
LEMMA LastOfAppend ==
    ASSUME NEW S, NEW s \in Seq(S), NEW e \in S
    PROVE  /\ Append(s, e) \in Seq(S)
           /\ Last(Append(s, e)) = e
           /\ Len(Append(s, e)) = Len(s) + 1
           /\ DOMAIN Append(s, e) = 1..(Len(s) + 1)
           /\ \A i \in 1..Len(s) : Append(s, e)[i] = s[i]
           /\ Append(s, e)[Len(s) + 1] = e
  BY DEF Last

\* The row a head yields, appended to a chain that verifies, verifies against
\* the head moved to that row.
LEMMA ChainExtends ==
    ASSUME NEW rs \in Seq(Rows), NEW h \in Heads, ChainOK(rs, h),
           NEW row \in Rows, row.prev = h.mac
    PROVE  ChainOK(Append(rs, row), [count |-> h.count + 1, seq |-> row.seq, mac |-> row.mac])
<1> DEFINE rs1 == Append(rs, row)
           h1 == [count |-> h.count + 1, seq |-> row.seq, mac |-> row.mac]
<1>1. /\ Len(rs1) = Len(rs) + 1
      /\ \A i \in 1..Len(rs) : rs1[i] = rs[i]
      /\ rs1[Len(rs) + 1] = row
  OBVIOUS
<1>2. Len(rs) \in Nat /\ h.count = Len(rs)
  BY DEF ChainOK
<1>3. \A i \in 1..Len(rs1) : rs1[i].prev = (IF i = 1 THEN <<>> ELSE rs1[i - 1].mac)
  <2> SUFFICES ASSUME NEW i \in 1..Len(rs1)
               PROVE  rs1[i].prev = (IF i = 1 THEN <<>> ELSE rs1[i - 1].mac)
    OBVIOUS
  <2>1. CASE i = Len(rs) + 1
    <3>1. h.mac = (IF Len(rs) = 0 THEN <<>> ELSE rs[Len(rs)].mac)
      BY DEF ChainOK
    <3>2. i # 1 => rs1[i - 1] = rs[Len(rs)] /\ Len(rs) # 0
      BY <1>1, <1>2, <2>1
    <3> QED BY <1>1, <1>2, <2>1, <3>1, <3>2
  <2>2. CASE i \in 1..Len(rs)
    <3>1. rs[i].prev = (IF i = 1 THEN <<>> ELSE rs[i - 1].mac)
      BY <2>2 DEF ChainOK
    <3>2. i # 1 => rs1[i - 1] = rs[i - 1]
      BY <1>1, <1>2, <2>2
    <3> QED BY <1>1, <2>2, <3>1, <3>2
  <2> QED BY <1>1, <1>2, <2>1, <2>2
<1>4. /\ Len(rs1) = h1.count
      /\ h1.mac = (IF Len(rs1) = 0 THEN <<>> ELSE rs1[Len(rs1)].mac)
      /\ h1.seq = rs1[Len(rs1)].seq
  BY <1>1, <1>2
<1> QED BY <1>3, <1>4 DEF ChainOK

\* The row an append takes from the head in memory.
LEMMA NextRowIsRow ==
    ASSUME LogTypes, NEW c \in Chains, NEW e \in Contents
    PROVE  /\ NextRow(c, e) \in Rows
           /\ NextRow(c, e).prev = head[c].mac
           /\ NextRow(c, e).mac \in Macs
           /\ Last(NextRow(c, e).mac) = e
           /\ NextRow(c, e).seq = head[c].seq + 1
<1>1. head[c] \in Heads /\ head[c].mac \in Seq(Contents)
  BY DEF LogTypes, Heads, Macs
<1>2. Append(head[c].mac, e) \in Seq(Contents) /\ Last(Append(head[c].mac, e)) = e
  BY <1>1, LastOfAppend
<1>3. head[c].seq + 1 \in Nat
  BY <1>1 DEF Heads
<1> QED BY <1>1, <1>2, <1>3 DEF NextRow, Rows, Macs

-----------------------------------------------------------------------------
(* What moves in an append.                                                 *)

\* An outcome is a fault or not, and faults only grow.
LEMMA FaultsGrow ==
    ASSUME LogTypes, NEW complete \in BOOLEAN, NEW dies \in BOOLEAN, Outcome(complete, dies)
    PROVE  /\ faults' \in 0..MaxFaults /\ faults <= faults'
           /\ faults' = 0 => faults = 0 /\ complete /\ ~ dies
  BY DEF LogTypes, Outcome

\* The audit stays in order when more reads have begun and more has failed.
LEMMA AuditGrows ==
    ASSUME NEW cnt, NEW dec, NEW man, NEW ret, NEW n \in Nat, NEW k \in Nat, n <= k,
           NEW f \in Nat, NEW g \in Nat, g = 0 => f = 0,
           AuditSound(cnt, dec, man, ret, n, f)
    PROVE  AuditSound(cnt, dec, man, ret, k, g)
<1>1. 1..n \subseteq 1..k
  OBVIOUS
<1> QED BY <1>1 DEF AuditSound, Faithful

\* Steps that leave the audit tables alone keep them in order.
LEMMA AuditFrame ==
    ASSUME LogTypes, AuditHolds, UNCHANGED <<audit, returned, txn, reads>>,
           faults' \in Nat, faults' = 0 => faults = 0
    PROVE  AuditHolds'
<1>1. reads \in Nat /\ faults \in Nat
  BY DEF LogTypes
<1>2. AuditSound(counted, decisions, manifests, returned, reads, faults')
  BY <1>1, AuditGrows DEF AuditHolds
<1>3. txn # NoTxn =>
        AuditSound(txn.counted, txn.decisions, txn.manifests, txn.returned, reads, faults')
  BY <1>1, AuditGrows DEF AuditHolds
<1> QED BY <1>2, <1>3 DEF AuditHolds, audit

\* Appending changes no row that was there and adds one.
LEMMA AppendKeeps ==
    ASSUME NEW rs \in Seq(Rows), NEW row \in Rows
    PROVE  /\ \A i \in DOMAIN rs : i \in DOMAIN Append(rs, row) /\ Append(rs, row)[i] = rs[i]
           /\ \A i \in DOMAIN Append(rs, row) :
                 (i \in DOMAIN rs /\ Append(rs, row)[i] = rs[i]) \/ Append(rs, row)[i] = row
           /\ \E i \in DOMAIN Append(rs, row) : Append(rs, row)[i] = row
<1>1. /\ DOMAIN rs = 1..Len(rs) /\ Len(rs) \in Nat
      /\ DOMAIN Append(rs, row) = 1..(Len(rs) + 1)
      /\ \A i \in 1..Len(rs) : Append(rs, row)[i] = rs[i]
      /\ Append(rs, row)[Len(rs) + 1] = row
  OBVIOUS
<1>2. 1..(Len(rs) + 1) = 1..Len(rs) \cup {Len(rs) + 1}
  BY <1>1
<1> QED BY <1>1, <1>2

\* The ledger's ids after a step that adds at most the row of r.
LEMMA LedgerGrows ==
    ASSUME NEW rs \in Seq(Rows), NEW row \in Rows
    PROVE  /\ {Last(Append(rs, row)[i].mac) : i \in DOMAIN Append(rs, row)}
                = {Last(rs[i].mac) : i \in DOMAIN rs} \cup {Last(row.mac)}
           /\ MacsOf(Append(rs, row)) = MacsOf(rs) \cup {row.mac}
<1>1. /\ DOMAIN rs = 1..Len(rs) /\ Len(rs) \in Nat
      /\ DOMAIN Append(rs, row) = 1..(Len(rs) + 1)
      /\ \A i \in 1..Len(rs) : Append(rs, row)[i] = rs[i]
      /\ Append(rs, row)[Len(rs) + 1] = row
  OBVIOUS
<1>2. 1..(Len(rs) + 1) = 1..Len(rs) \cup {Len(rs) + 1}
  BY <1>1
<1> QED BY <1>1, <1>2 DEF MacsOf

-----------------------------------------------------------------------------
(* The log part of the invariant, action by action.                         *)

LogPart == LogTypes /\ LedgerContents /\ TxnRemembers /\ MembershipSurvivesFaults
           /\ AcknowledgedIsKept /\ ChainsUntilFault

LEMMA AppendPart ==
    ASSUME LogPart, NEW l \in AppendLogs, NEW e \in Contents,
           l = "lifecycle" => e \in Records, l = "resolution" => e \in Certificates,
           NEW reached \in 0..3, NEW dies \in BOOLEAN, AppendEvent(l, e, reached, dies)
    PROVE  LogPart'
<1> DEFINE row == NextRow(l, e)
<1> USE DEF LogPart
<1>0. l \in Chains /\ l # "membership" /\ "membership" \in Chains
  BY DEF AppendLogs, Chains
<1>1. /\ row \in Rows /\ row.prev = head[l].mac /\ row.mac \in Macs
      /\ Last(row.mac) = e /\ row.seq = head[l].seq + 1
  BY <1>0, NextRowIsRow
<1>2. /\ rows' = IF reached >= 1 THEN [rows EXCEPT ![l] = Append(@, row)] ELSE rows
      /\ anchor' = IF reached >= 2
           THEN [anchor EXCEPT ![l] = [count |-> @.count + 1, seq |-> row.seq, mac |-> row.mac]]
           ELSE anchor
      /\ acked' = IF reached = 3 /\ ~ dies THEN [acked EXCEPT ![l] = @ \cup {row.mac}] ELSE acked
      /\ txn = NoTxn /\ UNCHANGED <<stored, txn, reads>>
      /\ Outcome(reached = 3, dies)
  BY DEF AppendEvent, NotInExec
<1>3. /\ faults' \in 0..MaxFaults
      /\ faults' = 0 => faults = 0 /\ reached = 3 /\ ~ dies
  BY <1>2, FaultsGrow
<1>4. /\ rows' \in [Chains -> Seq(Rows)]
      /\ \A c \in Chains \ {l} : rows'[c] = rows[c] /\ anchor'[c] = anchor[c]
      /\ rows'[l] = rows[l] \/ rows'[l] = Append(rows[l], row)
      /\ reached = 3 => rows'[l] = Append(rows[l], row)
  BY <1>0, <1>1, <1>2 DEF LogTypes
<1>5. row.seq \in Nat /\ \A c \in Chains : anchor[c] \in Heads /\ head[c] \in Heads
  BY <1>1 DEF LogTypes, Rows
<1>6. anchor' \in [Chains -> Heads]
  <2>1. [count |-> anchor[l].count + 1, seq |-> row.seq, mac |-> row.mac] \in Heads
    BY <1>0, <1>1, <1>5 DEF Heads
  <2> QED BY <1>0, <1>2, <2>1 DEF LogTypes
<1>7. Events("membership")' = Events("membership")
  BY <1>0, <1>4 DEF Events
<1> DEFINE longer == Append(rows[l], row)
<1>8. /\ \A i \in DOMAIN rows[l] : i \in DOMAIN longer /\ longer[i] = rows[l][i]
      /\ \A i \in DOMAIN longer : (i \in DOMAIN rows[l] /\ longer[i] = rows[l][i]) \/ longer[i] = row
      /\ \E i \in DOMAIN longer : longer[i] = row
  <2>1. rows[l] \in Seq(Rows)
    BY <1>0 DEF LogTypes
  <2> HIDE DEF row
  <2> QED BY <1>1, <2>1, AppendKeeps
<1>9. /\ head' \in [Chains -> Heads] /\ members' = members /\ policy' \in Policies
      /\ head'["membership"] = head["membership"]
      /\ ~ dies => head' = [head EXCEPT ![l] = [count |-> @.count + 1, seq |-> row.seq, mac |-> row.mac]]
  <2>1. CASE dies
    <3>1. head' = anchor' /\ members' = Events("membership")' /\ policy' \in Policies
      BY <2>1 DEF AppendEvent, Restore, Events
    <3> QED BY <1>0, <1>4, <1>6, <1>7, <2>1, <3>1 DEF MembershipSurvivesFaults, StoreSound
  <2>2. CASE ~ dies
    <3>1. head' = Advanced(l, row) /\ UNCHANGED <<members, policy>>
      BY <2>2 DEF AppendEvent
    <3>2. [count |-> head[l].count + 1, seq |-> row.seq, mac |-> row.mac] \in Heads
      BY <1>0, <1>1, <1>5 DEF Heads
    <3> QED BY <1>0, <2>2, <3>1, <3>2 DEF Advanced, LogTypes
  <2> QED BY <2>1, <2>2
<1>10. LogTypes'
  <2>1. acked' \in [Chains -> SUBSET Macs]
    BY <1>0, <1>1, <1>2 DEF LogTypes
  <2>2. version' \in Nat
    BY DEF LogTypes, AppendEvent
  <2>3. members' \subseteq Records /\ stored' \subseteq Records /\ reads' \in 0..MaxReads
    BY <1>2, <1>9 DEF LogTypes
  <2> QED BY <1>3, <1>4, <1>6, <1>9, <2>1, <2>2, <2>3 DEF LogTypes
<1>11. LedgerContents'
  <2>1. \A i \in DOMAIN rows'[l] :
           \/ i \in DOMAIN rows[l] /\ rows'[l][i] = rows[l][i]
           \/ rows'[l][i] = row
    BY <1>8, <1>4
  <2>2. CASE l = "lifecycle"
    BY <1>1, <1>4, <2>1, <2>2 DEF LedgerContents, Chains, AppendLogs
  <2>3. CASE l = "resolution"
    BY <1>1, <1>4, <2>1, <2>3 DEF LedgerContents, Chains, AppendLogs
  <2> QED BY <2>2, <2>3 DEF AppendLogs
<1>12. TxnRemembers'
  BY <1>2 DEF TxnRemembers
<1>13. MembershipSurvivesFaults'
  BY <1>0, <1>2, <1>4, <1>7, <1>9 DEF MembershipSurvivesFaults, StoreSound, Verifies
<1>14. AcknowledgedIsKept'
  <2>1. \A c \in Chains : \A i \in DOMAIN rows[c] :
           i \in DOMAIN rows'[c] /\ rows'[c][i] = rows[c][i]
    <3>1. \A i \in DOMAIN rows[l] : i \in DOMAIN rows'[l] /\ rows'[l][i] = rows[l][i]
      BY <1>8, <1>4
    <3> QED BY <1>4, <3>1
  <2>2. reached = 3 => \E i \in DOMAIN rows'[l] : rows'[l][i].mac = row.mac
    BY <1>8, <1>4
  <2>3. \A c \in Chains : \A m \in acked'[c] :
           m \in acked[c] \/ (c = l /\ m = row.mac /\ reached = 3)
    BY <1>0, <1>2 DEF LogTypes
  <2>4. SUFFICES ASSUME NEW c \in Chains, NEW m \in acked'[c]
                 PROVE  \E i \in DOMAIN rows'[c] : rows'[c][i].mac = m
    BY DEF AcknowledgedIsKept
  <2>5. CASE m \in acked[c]
    BY <2>1, <2>5 DEF AcknowledgedIsKept
  <2>6. CASE c = l /\ m = row.mac /\ reached = 3
    BY <2>2, <2>6
  <2> QED BY <2>3, <2>5, <2>6
<1>15. ChainsUntilFault'
  <2> SUFFICES ASSUME faults' = 0, NEW c \in Chains
               PROVE  Verifies(c)' /\ anchor'[c] = head'[c]
    BY DEF ChainsUntilFault
  <2>1. reached = 3 /\ ~ dies /\ \A d \in Chains : Verifies(d) /\ anchor[d] = head[d]
    BY <1>3 DEF ChainsUntilFault
  <2>2. head' = [head EXCEPT ![l] = [count |-> @.count + 1, seq |-> row.seq, mac |-> row.mac]]
    BY <1>9, <2>1
  <2>3. CASE c = l
    <3>1. rows[l] \in Seq(Rows) /\ head[l] \in Heads
      BY <1>0 DEF LogTypes
    <3>2. ChainOK(Append(rows[l], row), [count |-> head[l].count + 1, seq |-> row.seq, mac |-> row.mac])
      BY <1>0, <1>1, <2>1, <3>1, ChainExtends DEF Verifies
    <3>3. head'[l] = [count |-> head[l].count + 1, seq |-> row.seq, mac |-> row.mac]
      BY <1>0, <2>2 DEF LogTypes
    <3>4. anchor'[l] = head'[l]
      BY <1>0, <1>2, <2>1, <3>3 DEF LogTypes
    <3> QED BY <1>4, <2>1, <2>3, <3>2, <3>3, <3>4 DEF Verifies
  <2>4. CASE c # l
    <3>1. head'[c] = head[c]
      BY <1>0, <2>2, <2>4 DEF LogTypes
    <3> QED BY <1>4, <2>1, <2>4, <3>1 DEF Verifies
  <2> QED BY <2>3, <2>4
<1> QED BY <1>10, <1>11, <1>12, <1>13, <1>14, <1>15

LEMMA WritePart ==
    ASSUME LogPart, NEW r \in Records, NEW reached \in 0..3, NEW dies \in BOOLEAN,
           WriteMember(r, reached, dies)
    PROVE  LogPart'
<1> USE DEF LogPart
<1> DEFINE M == "membership"
           row == NextRow(M, r)
           moved == [count |-> head[M].count + 1, seq |-> row.seq, mac |-> row.mac]
           longer == Append(rows[M], row)
<1>0. M \in Chains /\ r \in Contents /\ rows[M] \in Seq(Rows) /\ head[M] \in Heads
      /\ anchor[M] = head[M]
  BY DEF Chains, Contents, LogTypes, MembershipSurvivesFaults
<1>1. /\ row \in Rows /\ row.prev = head[M].mac /\ row.mac \in Macs
      /\ Last(row.mac) = r /\ row.seq = head[M].seq + 1
  BY <1>0, NextRowIsRow
<1>2. /\ rows' = IF reached >= 1 THEN [rows EXCEPT ![M] = longer] ELSE rows
      /\ anchor' = IF reached >= 1 THEN [anchor EXCEPT ![M] = moved] ELSE anchor
      /\ stored' = IF reached >= 1 THEN stored \cup {r} ELSE stored
      /\ acked' = IF reached = 3 /\ ~ dies THEN [acked EXCEPT ![M] = @ \cup {row.mac}] ELSE acked
      /\ txn = NoTxn /\ UNCHANGED <<txn, reads>>
      /\ Outcome(reached = 3, dies)
      /\ version' \in Nat
  BY DEF WriteMember, NotInExec, LogTypes
<1>3. /\ faults' \in 0..MaxFaults
      /\ faults' = 0 => faults = 0 /\ reached = 3 /\ ~ dies
  BY <1>2, FaultsGrow
<1>4. moved \in Heads /\ longer \in Seq(Rows)
  BY <1>0, <1>1 DEF Heads, Rows
<1>5. /\ rows' \in [Chains -> Seq(Rows)] /\ anchor' \in [Chains -> Heads]
      /\ \A c \in Chains \ {M} : rows'[c] = rows[c] /\ anchor'[c] = anchor[c]
      /\ reached >= 1 => rows'[M] = longer /\ anchor'[M] = moved
      /\ reached = 0 => rows'[M] = rows[M] /\ anchor'[M] = head[M]
  <2> HIDE DEF moved, longer
  <2> QED BY <1>0, <1>2, <1>4 DEF LogTypes
<1>6. /\ \A i \in DOMAIN rows[M] : i \in DOMAIN longer /\ longer[i] = rows[M][i]
      /\ \A i \in DOMAIN longer : (i \in DOMAIN rows[M] /\ longer[i] = rows[M][i]) \/ longer[i] = row
      /\ \E i \in DOMAIN longer : longer[i] = row
      /\ {Last(longer[i].mac) : i \in DOMAIN longer} = Events(M) \cup {r}
  <2>1. /\ \A i \in DOMAIN rows[M] : i \in DOMAIN longer /\ longer[i] = rows[M][i]
        /\ \A i \in DOMAIN longer : (i \in DOMAIN rows[M] /\ longer[i] = rows[M][i]) \/ longer[i] = row
        /\ \E i \in DOMAIN longer : longer[i] = row
    <3> HIDE DEF row
    <3> QED BY <1>0, <1>1, AppendKeeps
  <2>2. {Last(longer[i].mac) : i \in DOMAIN longer}
          = {Last(rows[M][i].mac) : i \in DOMAIN rows[M]} \cup {Last(row.mac)}
    <3> HIDE DEF row
    <3> QED BY <1>0, <1>1, LedgerGrows
  <2> QED BY <1>1, <2>1, <2>2 DEF Events
<1>7. ChainOK(longer, moved)
  <2>1. ChainOK(rows[M], head[M])
    BY DEF MembershipSurvivesFaults, StoreSound, Verifies
  <2> HIDE DEF row
  <2> QED BY <1>0, <1>1, <2>1, ChainExtends
<1> HIDE DEF row, moved, longer
<1>8. Events(M)' = IF reached >= 1 THEN Events(M) \cup {r} ELSE Events(M)
  <2>1. CASE reached >= 1
    BY <1>5, <1>6, <2>1 DEF Events
  <2>2. CASE reached = 0
    BY <1>5, <2>2 DEF Events
  <2> QED BY <2>1, <2>2
<1>9. Events(M) = members /\ stored = members
  BY DEF MembershipSurvivesFaults, StoreSound
<1>10. /\ head' \in [Chains -> Heads] /\ policy' \in Policies
       /\ members' = stored' /\ head'[M] = anchor'[M]
       /\ ~ dies => \A c \in Chains \ {M} : head'[c] = head[c]
  <2>1. CASE dies
    <3>1. head' = anchor' /\ members' = Events(M)' /\ policy' \in Policies
      BY <2>1 DEF WriteMember, Restore, Events
    <3> QED BY <1>2, <1>5, <1>8, <1>9, <2>1, <3>1
  <2>2. CASE ~ dies
    <3>1. /\ head' = IF reached >= 1 THEN [head EXCEPT ![M] = moved] ELSE head
          /\ members' = IF reached >= 1 THEN members \cup {r} ELSE members
          /\ policy' = policy
      BY <2>2 DEF WriteMember, CommitMember, Advanced, row, moved
    <3> QED BY <1>0, <1>2, <1>4, <1>5, <1>9, <2>2, <3>1 DEF LogTypes
  <2> QED BY <2>1, <2>2
<1>11. LogTypes'
  <2>1. acked' \in [Chains -> SUBSET Macs]
    BY <1>0, <1>1, <1>2 DEF LogTypes
  <2> QED BY <1>2, <1>3, <1>5, <1>10, <2>1 DEF LogTypes
<1>12. LedgerContents'
  <2>1. \A i \in DOMAIN rows'[M] :
           (i \in DOMAIN rows[M] /\ rows'[M][i] = rows[M][i]) \/ rows'[M][i] = row
    BY <1>5, <1>6
  <2> QED BY <1>1, <1>5, <2>1 DEF LedgerContents, Chains, AppendLogs
<1>13. TxnRemembers'
  BY <1>2 DEF TxnRemembers
<1>14. MembershipSurvivesFaults'
  <2>1. ChainOK(rows'[M], head'[M])
    <3>1. CASE reached >= 1
      BY <1>5, <1>7, <1>10, <3>1
    <3>2. CASE reached = 0
      BY <1>5, <1>10, <3>2 DEF MembershipSurvivesFaults, StoreSound, Verifies
    <3> QED BY <3>1, <3>2
  <2> QED BY <1>2, <1>8, <1>9, <1>10, <2>1 DEF MembershipSurvivesFaults, StoreSound, Verifies
<1>15. AcknowledgedIsKept'
  <2>1. \A c \in Chains : \A i \in DOMAIN rows[c] :
           i \in DOMAIN rows'[c] /\ rows'[c][i] = rows[c][i]
    BY <1>5, <1>6
  <2>2. reached = 3 => \E i \in DOMAIN rows'[M] : rows'[M][i].mac = row.mac
    BY <1>5, <1>6
  <2>3. \A c \in Chains : \A m \in acked'[c] :
           m \in acked[c] \/ (c = M /\ m = row.mac /\ reached = 3)
    BY <1>0, <1>2 DEF LogTypes
  <2> QED BY <2>1, <2>2, <2>3 DEF AcknowledgedIsKept
<1>16. ChainsUntilFault'
  <2> SUFFICES ASSUME faults' = 0, NEW c \in Chains
               PROVE  Verifies(c)' /\ anchor'[c] = head'[c]
    BY DEF ChainsUntilFault
  <2>1. ~ dies /\ \A d \in Chains : Verifies(d) /\ anchor[d] = head[d]
    BY <1>3 DEF ChainsUntilFault
  <2>2. CASE c = M
    BY <1>10, <1>14, <2>2 DEF MembershipSurvivesFaults, StoreSound
  <2>3. CASE c # M
    BY <1>5, <1>10, <2>1, <2>3 DEF Verifies
  <2> QED BY <2>2, <2>3
<1> QED BY <1>11, <1>12, <1>13, <1>14, <1>15, <1>16

\* Steps that leave the logs alone; the memory may be restored from them.
LEMMA StillPart ==
    ASSUME LogPart, UNCHANGED <<logged, acked>>, UNCHANGED memory \/ Restore,
           reads' \in 0..MaxReads, faults' \in 0..MaxFaults, faults <= faults',
           TxnRemembers'
    PROVE  LogPart'
<1> USE DEF LogPart, logged
<1>1. Events("membership")' = Events("membership")
  BY DEF Events
<1>2. CASE UNCHANGED memory
  <2>1. LogTypes' /\ LedgerContents' /\ AcknowledgedIsKept'
    BY <1>2 DEF LogTypes, LedgerContents, AcknowledgedIsKept, memory
  <2>2. MembershipSurvivesFaults' /\ ChainsUntilFault'
    BY <1>1, <1>2 DEF MembershipSurvivesFaults, ChainsUntilFault, StoreSound, Verifies, memory, LogTypes
  <2> QED BY <2>1, <2>2
<1>3. CASE Restore
  <2>1. head' = anchor /\ members' = Events("membership") /\ policy' \in Policies
    BY <1>3 DEF Restore, Events
  <2>2. LogTypes' /\ LedgerContents' /\ AcknowledgedIsKept'
    BY <2>1 DEF LogTypes, LedgerContents, AcknowledgedIsKept, MembershipSurvivesFaults, StoreSound
  <2>3. MembershipSurvivesFaults'
    BY <1>1, <2>1 DEF MembershipSurvivesFaults, StoreSound, Verifies
  <2>4. ChainsUntilFault'
    BY <2>1 DEF ChainsUntilFault, Verifies, LogTypes
  <2> QED BY <2>2, <2>3, <2>4
<1> QED BY <1>2, <1>3

-----------------------------------------------------------------------------
(* The audit part.                                                          *)

\* The manifest of the next read says what is decided and from what.
LEMMA ManifestFaithful ==
    ASSUME LogTypes, LedgerContents, reads < MaxReads
    PROVE  Faithful(Manifest(reads + 1), reads + 1) /\ Manifest(reads + 1).id = reads + 1
           /\ Manifest(reads + 1).candidates = stored
<1> DEFINE n == Len(rows["resolution"])
<1>1. rows["resolution"] \in Seq(Rows) /\ n \in Nat /\ DOMAIN rows["resolution"] = 1..n
  BY DEF LogTypes, Chains, AppendLogs
<1>2. Consulted \subseteq Certificates /\ \A c \in Consulted : c.policy = policy
  BY <1>1 DEF Consulted, CertInForce, LedgerContents
<1>3. Retired \subseteq Records
  BY DEF Retired, Events, LedgerContents
<1>4. Decide(stored, Retired, Consulted) \subseteq Records
  BY DEF Decide, LogTypes
<1>5. reads + 1 \in 1..MaxReads /\ reads + 1 \in 1..(reads + 1)
  BY DEF LogTypes
<1>6. stored \subseteq Records /\ policy \in Policies
  BY DEF LogTypes
<1>7. Manifest(reads + 1) \in ManifestRecords
  BY <1>2, <1>3, <1>4, <1>5, <1>6 DEF Manifest, ManifestRecords, ReadIds
<1> QED BY <1>2, <1>5, <1>7 DEF Manifest, Faithful

-----------------------------------------------------------------------------
(* The invariant, action by action.                                         *)

LEMMA InvSplit == LogsInv <=> LogPart /\ AuditHolds
  BY DEF LogsInv, LogPart

LEMMA LogsInitInv == LogsInit => LogsInv
<1> SUFFICES ASSUME LogsInit PROVE LogsInv
  OBVIOUS
<1> USE DEF LogsInit
<1>0. "membership" \in Chains /\ "resolution" \in Chains /\ "lifecycle" \in Chains
  BY DEF Chains, AppendLogs
<1>1. Empty \in Heads /\ <<>> \in Seq(Rows)
  BY DEF Heads, Empty, Macs
<1>2. LogTypes
  BY <1>1 DEF LogTypes
<1>3. \A c \in Chains : Len(rows[c]) = 0 /\ DOMAIN rows[c] = {} /\ Verifies(c)
  BY DEF Verifies, ChainOK, Empty
<1>4. LedgerContents /\ AcknowledgedIsKept /\ ChainsUntilFault
  BY <1>0, <1>3 DEF LedgerContents, AcknowledgedIsKept, ChainsUntilFault
<1>5. TxnRemembers
  BY DEF TxnRemembers
<1>6. MembershipSurvivesFaults
  BY <1>0, <1>3 DEF MembershipSurvivesFaults, StoreSound, Events
<1>7. IsFiniteSet(manifests) /\ Cardinality(manifests) = 0
  BY FS_EmptySet
<1>8. AuditHolds
  BY <1>7 DEF AuditHolds, AuditSound, Ids
<1> QED BY <1>2, <1>4, <1>5, <1>6, <1>8 DEF LogsInv

LEMMA AppendInv ==
    ASSUME LogsInv, NEW l \in AppendLogs, NEW e \in Contents,
           l = "lifecycle" => e \in Records, l = "resolution" => e \in Certificates,
           NEW reached \in 0..3, NEW dies \in BOOLEAN, AppendEvent(l, e, reached, dies)
    PROVE  LogsInv'
<1>1. LogPart'
  BY InvSplit, AppendPart
<1>2. Outcome(reached = 3, dies) /\ UNCHANGED <<audit, returned, txn, reads>>
  BY DEF AppendEvent
<1>3. faults' \in Nat /\ (faults' = 0 => faults = 0)
  BY <1>2 DEF LogsInv, LogTypes, Outcome
<1>4. AuditHolds'
  BY <1>2, <1>3, InvSplit, AuditFrame DEF LogPart
<1> QED BY <1>1, <1>4 DEF LogsInv, LogPart

LEMMA WriteInv ==
    ASSUME LogsInv, NEW r \in Records, NEW reached \in 0..3, NEW dies \in BOOLEAN,
           WriteMember(r, reached, dies)
    PROVE  LogsInv'
<1>1. LogPart'
  BY InvSplit, WritePart
<1>2. Outcome(reached = 3, dies) /\ UNCHANGED <<audit, returned, txn, reads>>
  BY DEF WriteMember
<1>3. faults' \in Nat /\ (faults' = 0 => faults = 0)
  BY <1>2 DEF LogsInv, LogTypes, Outcome
<1>4. AuditHolds'
  BY <1>2, <1>3, InvSplit, AuditFrame DEF LogPart
<1> QED BY <1>1, <1>4 DEF LogsInv, LogPart

LEMMA ReadInv ==
    ASSUME LogsInv, NEW reached \in 0..3, NEW dies \in BOOLEAN, Read(reached, dies)
    PROVE  LogsInv'
<1> DEFINE m == Manifest(reads + 1)
<1>1. LogPart /\ AuditHolds
  BY InvSplit
<1>2. /\ reads < MaxReads /\ reads' = reads + 1 /\ reads \in Nat /\ faults \in Nat
      /\ Outcome(reached = 3, dies)
      /\ UNCHANGED <<logged, txn, acked>> /\ (UNCHANGED memory \/ Restore)
      /\ RecordRead(reads + 1, reached)
      /\ returned' = IF reached = 3 /\ ~ dies THEN returned \cup {reads + 1} ELSE returned
  BY <1>1 DEF Read, LogPart, LogTypes
<1>3. /\ faults' \in 0..MaxFaults /\ faults <= faults'
      /\ faults' = 0 => faults = 0 /\ reached = 3
  BY <1>1, <1>2, FaultsGrow DEF LogPart
<1>4. reads' \in 0..MaxReads
  BY <1>2
<1>5. TxnRemembers'
  BY <1>1, <1>2 DEF LogPart, TxnRemembers, logged
<1>6. LogPart'
  BY <1>1, <1>2, <1>3, <1>4, <1>5, StillPart
<1>7. /\ Faithful(m, reads + 1) /\ m.id = reads + 1 /\ m.candidates = stored
  BY <1>1, <1>2, ManifestFaithful DEF LogPart
<1>8. AuditSound(counted', decisions', manifests', returned', reads + 1, faults')
  <2>1. /\ decisions' = IF reached >= 1 /\ m.candidates # {} THEN decisions \cup {reads + 1} ELSE decisions
        /\ counted' = IF reached >= 2 THEN counted + 1 ELSE counted
        /\ manifests' = IF reached >= 3 THEN manifests \cup {m} ELSE manifests
        /\ returned' = returned \/ (reached = 3 /\ returned' = returned \cup {reads + 1})
    BY <1>2, <1>7 DEF RecordRead
  <2>2. AuditSound(counted, decisions, manifests, returned, reads, faults)
    BY <1>1 DEF AuditHolds
  <2> HIDE DEF m
  <2>3. /\ counted \in Nat /\ IsFiniteSet(manifests) /\ Cardinality(manifests) \in Nat
        /\ Cardinality(manifests) <= counted
        /\ \A x \in manifests : Faithful(x, reads) /\ x.id \in 1..reads
    BY <2>2, FS_CardinalityType DEF AuditSound, Faithful
  <2>4. m \notin manifests
    BY <1>2, <1>7, <2>3
  <2>5. /\ IsFiniteSet(manifests \cup {m})
        /\ Cardinality(manifests \cup {m}) = Cardinality(manifests) + 1
    BY <2>3, <2>4, FS_AddElement
  <2>6. 1..reads \subseteq 1..(reads + 1) /\ reads + 1 \in 1..(reads + 1)
    BY <1>2
  <2>7. counted' \in Nat /\ IsFiniteSet(manifests') /\ Cardinality(manifests') <= counted'
    BY <2>1, <2>3, <2>5
  <2>8. decisions' \subseteq 1..(reads + 1)
    BY <2>1, <2>2, <2>6 DEF AuditSound
  <2>9. \A x \in manifests' : Faithful(x, reads + 1)
    <3>1. \A x \in manifests : Faithful(x, reads + 1)
      BY <2>3, <2>6 DEF Faithful
    <3> QED BY <1>7, <2>1, <3>1
  <2>10. returned' \subseteq Ids(manifests')
    BY <1>7, <2>1, <2>2 DEF AuditSound, Ids
  <2>11. ASSUME faults' = 0
         PROVE  /\ counted' <= Cardinality(manifests')
                /\ decisions' \subseteq Ids(manifests')
                /\ \A x \in manifests' : x.candidates # {} => x.id \in decisions'
    <3>1. reached = 3 /\ faults = 0
      BY <1>3, <2>11
    <3>2. /\ counted <= Cardinality(manifests) /\ decisions \subseteq Ids(manifests)
          /\ \A x \in manifests : x.candidates # {} => x.id \in decisions
      BY <2>2, <3>1 DEF AuditSound
    <3>3. manifests' = manifests \cup {m} /\ counted' = counted + 1
          /\ decisions \subseteq decisions' /\ decisions' \subseteq decisions \cup {reads + 1}
          /\ (m.candidates # {} => reads + 1 \in decisions')
      BY <2>1, <3>1
    <3>4. counted' <= Cardinality(manifests')
      BY <2>3, <2>5, <3>2, <3>3
    <3>5. decisions' \subseteq Ids(manifests')
      BY <1>7, <3>2, <3>3 DEF Ids
    <3>6. \A x \in manifests' : x.candidates # {} => x.id \in decisions'
      BY <1>7, <3>2, <3>3
    <3> QED BY <3>4, <3>5, <3>6
  <2> QED BY <2>7, <2>8, <2>9, <2>10, <2>11 DEF AuditSound
<1>9. txn # NoTxn =>
        AuditSound(txn.counted, txn.decisions, txn.manifests, txn.returned, reads + 1, faults')
  <2>1. faults' \in Nat /\ (faults' = 0 => faults = 0)
    BY <1>3
  <2> QED BY <1>1, <1>2, <2>1, AuditGrows DEF AuditHolds
<1>10. AuditHolds'
  BY <1>2, <1>8, <1>9 DEF AuditHolds
<1> QED BY <1>6, <1>10 DEF LogsInv, LogPart

LEMMA BeginInv == LogsInv /\ BeginExec => LogsInv'
<1> SUFFICES ASSUME LogsInv, BeginExec PROVE LogsInv'
  OBVIOUS
<1>1. LogPart /\ AuditHolds
  BY InvSplit
<1>2. TxnRemembers'
  BY DEF BeginExec, TxnRemembers, logged
<1>3. LogPart'
  BY <1>1, <1>2, StillPart DEF BeginExec, LogPart, LogTypes
<1>4. AuditHolds'
  BY <1>1 DEF AuditHolds, BeginExec, audit
<1> QED BY <1>3, <1>4 DEF LogsInv, LogPart

LEMMA CommitInv == LogsInv /\ CommitExec => LogsInv'
<1> SUFFICES ASSUME LogsInv, CommitExec PROVE LogsInv'
  OBVIOUS
<1>1. LogPart /\ AuditHolds
  BY InvSplit
<1>2. TxnRemembers'
  BY DEF CommitExec, TxnRemembers
<1>3. LogPart'
  BY <1>1, <1>2, StillPart DEF CommitExec, LogPart, LogTypes
<1>4. AuditHolds'
  BY <1>1 DEF AuditHolds, CommitExec, audit
<1> QED BY <1>3, <1>4 DEF LogsInv, LogPart

\* A rollback leaves the logs as they are and brings an orderly audit back.
LEMMA RollbackKeeps ==
    ASSUME LogsInv, txn # NoTxn, RestoreTables, UNCHANGED <<reads, faults>>
    PROVE  UNCHANGED logged /\ TxnRemembers' /\ AuditHolds'
<1>1. LogPart /\ AuditHolds
  BY InvSplit
<1> QED BY <1>1 DEF LogPart, TxnRemembers, RestoreTables, logged, AuditHolds

LEMMA RollbackInv == LogsInv /\ RollbackExec => LogsInv'
<1> SUFFICES ASSUME LogsInv, RollbackExec PROVE LogsInv'
  OBVIOUS
<1>1. UNCHANGED logged /\ TxnRemembers' /\ AuditHolds'
  BY RollbackKeeps DEF RollbackExec
<1>2. LogPart'
  BY <1>1, InvSplit, StillPart DEF RollbackExec, LogPart, LogTypes
<1> QED BY <1>1, <1>2 DEF LogsInv, LogPart

LEMMA RestartInv == LogsInv /\ Restart => LogsInv'
<1> SUFFICES ASSUME LogsInv, Restart PROVE LogsInv'
  OBVIOUS
<1>1. UNCHANGED logged /\ TxnRemembers' /\ AuditHolds'
  <2>1. CASE txn = NoTxn
    BY <2>1, InvSplit DEF Restart, LogPart, TxnRemembers, AuditHolds, logged, audit
  <2>2. CASE txn # NoTxn
    BY <2>2, RollbackKeeps DEF Restart
  <2> QED BY <2>1, <2>2
<1>2. LogPart'
  BY <1>1, InvSplit, StillPart DEF Restart, LogPart, LogTypes
<1> QED BY <1>1, <1>2 DEF LogsInv, LogPart

LEMMA LogsNextInv == LogsInv /\ [LogsNext]_vars => LogsInv'
<1> SUFFICES ASSUME LogsInv, [LogsNext]_vars PROVE LogsInv'
  OBVIOUS
<1>1. ASSUME NEW r \in Records, NEW n \in 0..3, NEW dies \in BOOLEAN, Retire(r, n, dies)
      PROVE  LogsInv'
  BY <1>1, AppendInv DEF Retire, AppendLogs, Contents
<1>2. ASSUME NEW r \in Records, NEW n \in 0..3, NEW dies \in BOOLEAN, ResolveConflict(r, n, dies)
      PROVE  LogsInv'
  <2>1. [accepted |-> r, named |-> stored, policy |-> policy] \in Certificates
    BY DEF LogsInv, LogTypes, Certificates
  <2> QED BY <1>2, <2>1, AppendInv DEF ResolveConflict, AppendLogs, Contents
<1>3. ASSUME NEW r \in Records, NEW n \in 0..3, NEW dies \in BOOLEAN, WriteMember(r, n, dies)
      PROVE  LogsInv'
  BY <1>3, WriteInv
<1>4. ASSUME NEW n \in 0..3, NEW dies \in BOOLEAN, Read(n, dies)
      PROVE  LogsInv'
  BY <1>4, ReadInv
<1>5. CASE UNCHANGED vars
  <2>1. LogPart'
    BY <1>5, InvSplit, StillPart DEF vars, LogPart, LogTypes, TxnRemembers, logged, memory
  <2>2. AuditHolds'
    BY <1>5, InvSplit DEF vars, AuditHolds, audit
  <2> QED BY <2>1, <2>2 DEF LogsInv, LogPart
<1> QED BY <1>1, <1>2, <1>3, <1>4, <1>5, BeginInv, CommitInv, RollbackInv, RestartInv DEF LogsNext

-----------------------------------------------------------------------------
(* What follows.                                                            *)

\* LogsInv holds in every state the runtime and its control plane reach.
THEOREM LogsInvariant == LogsSpec => []LogsInv
  BY LogsInitInv, LogsNextInv, PTL DEF LogsSpec

LEMMA LogsInvTypeOK == LogsInv => LogsTypeOK
<1> SUFFICES ASSUME LogsInv PROVE LogsTypeOK
  OBVIOUS
<1>1. LogTypes /\ AuditSound(counted, decisions, manifests, returned, reads, faults)
  BY DEF LogsInv, AuditHolds
<1>2. 1..reads \subseteq 1..MaxReads
  BY <1>1 DEF LogTypes
<1>3. decisions \subseteq ReadIds /\ manifests \subseteq ManifestRecords /\ returned \subseteq ReadIds
  BY <1>1, <1>2 DEF AuditSound, Faithful, Ids, ReadIds
<1> QED BY <1>1, <1>3 DEF LogTypes, LogsTypeOK, AuditSound

\* Type correctness.
THEOREM LogsTypeCorrect == LogsSpec => []LogsTypeOK
  BY LogsInvariant, LogsInvTypeOK, PTL

\* The store, the ledger, its anchor and the control plane agree in every state.
THEOREM MembershipHolds == LogsSpec => []MembershipSurvivesFaults
<1>1. LogsInv => MembershipSurvivesFaults
  BY DEF LogsInv
<1> QED BY <1>1, LogsInvariant, PTL

\* What was acknowledged stays in its log.
THEOREM NothingAcknowledgedIsLost == LogsSpec => []AcknowledgedIsKept
<1>1. LogsInv => AcknowledgedIsKept
  BY DEF LogsInv
<1> QED BY <1>1, LogsInvariant, PTL

\* Readers are refused only after a fault.
THEOREM FaultlessIsReadable == LogsSpec => []RefusedOnlyAfterFault
<1>1. LogsInv => RefusedOnlyAfterFault
  BY DEF LogsInv, ChainsUntilFault, RefusedOnlyAfterFault, Readable, Chains, AppendLogs,
         MembershipSurvivesFaults
<1> QED BY <1>1, LogsInvariant, PTL

\* Audited reads replay to what they decided.
THEOREM ReplayHolds == LogsSpec => []ReplayReproduces
<1>1. LogsInv => ReplayReproduces
  <2> SUFFICES ASSUME LogsInv, NEW m \in manifests, m.policy = policy
               PROVE  Replayed(m) = m.admitted
    BY DEF ReplayReproduces
  <2>1. Faithful(m, reads)
    BY DEF LogsInv, AuditHolds, AuditSound
  <2>2. {c \in m.certs : c.policy = policy} = m.certs
    BY <2>1 DEF Faithful
  <2> QED BY <2>1, <2>2 DEF Faithful, Replayed
<1> QED BY <1>1, LogsInvariant, PTL

\* Without faults an audit finds nothing; it misses no read that was served,
\* and there are never more manifests than reads counted.
THEOREM AuditHoldsUp == LogsSpec => []AuditIsClean
<1>1. LogsInv => AuditIsClean
  <2> SUFFICES ASSUME LogsInv PROVE AuditIsClean
    OBVIOUS
  <2>1. AuditSound(counted, decisions, manifests, returned, reads, faults)
    BY DEF LogsInv, AuditHolds
  <2> QED BY <2>1 DEF AuditSound, AuditIsClean, CountsAgree, Ids
<1> QED BY <1>1, LogsInvariant, PTL

-----------------------------------------------------------------------------
(* The epoch of the key.                                                    *)

\* A step of one append log: a resolution lengthens its log, a retirement of a
\* stored record moves the version.
LEMMA AppendMovesEpoch ==
    ASSUME LogsInv, NEW l \in AppendLogs, NEW e \in Contents,
           NEW reached \in 0..3, NEW dies \in BOOLEAN, AppendEvent(l, e, reached, dies),
           \/ rows'["resolution"] # rows["resolution"]
           \/ acked'["lifecycle"] # acked["lifecycle"] /\ (Retired \cap stored)' # Retired \cap stored
    PROVE  KeyEpoch' # KeyEpoch
<1> DEFINE row == NextRow(l, e)
<1>1. LogTypes /\ l \in Chains
  BY DEF LogsInv, Chains
<1>2. row \in Rows /\ Last(row.mac) = e
  BY <1>1, NextRowIsRow
<1>3. /\ rows' = IF reached >= 1 THEN [rows EXCEPT ![l] = Append(@, row)] ELSE rows
      /\ acked' = IF reached = 3 /\ ~ dies THEN [acked EXCEPT ![l] = @ \cup {row.mac}] ELSE acked
      /\ stored' = stored
      /\ version' = IF reached = 3 /\ (IF l = "resolution" THEN TRUE ELSE e \in stored)
                      THEN version + 1 ELSE version
      /\ version \in Nat /\ version' \in Nat
  BY <1>1 DEF AppendEvent, LogTypes
<1>4. CASE l = "resolution"
  <2>1. rows["resolution"] \in Seq(Rows)
    BY <1>1, <1>4 DEF LogTypes
  <2>2. acked'["lifecycle"] = acked["lifecycle"]
    BY <1>1, <1>3, <1>4 DEF LogTypes
  <2>3. rows'["resolution"] = Append(rows["resolution"], row)
    BY <1>1, <1>3, <1>4, <2>2 DEF LogTypes
  <2>4. Len(rows'["resolution"]) = Len(rows["resolution"]) + 1 /\ Len(rows["resolution"]) \in Nat
    BY <1>2, <2>1, <2>3
  <2> QED BY <2>4 DEF KeyEpoch
<1>5. CASE l = "lifecycle"
  <2>1. rows'["resolution"] = rows["resolution"]
    BY <1>1, <1>3, <1>5 DEF LogTypes
  <2>2. acked'["lifecycle"] # acked["lifecycle"] /\ (Retired \cap stored)' # Retired \cap stored
    BY <2>1
  <2>3. reached = 3
    BY <1>3, <2>2
  <2>4. rows'["lifecycle"] = Append(rows["lifecycle"], row) /\ rows["lifecycle"] \in Seq(Rows)
    BY <1>1, <1>3, <1>5, <2>3 DEF LogTypes
  <2>5. Retired' = Retired \cup {e}
    <3> HIDE DEF row
    <3>1. {Last(Append(rows["lifecycle"], row)[i].mac) : i \in DOMAIN Append(rows["lifecycle"], row)}
            = {Last(rows["lifecycle"][i].mac) : i \in DOMAIN rows["lifecycle"]} \cup {Last(row.mac)}
      BY <1>2, <2>4, LedgerGrows
    <3> QED BY <1>2, <2>4, <3>1 DEF Retired, Events
  <2>6. e \in stored
    BY <1>3, <2>2, <2>5
  <2> QED BY <1>3, <1>5, <2>3, <2>6 DEF KeyEpoch
<1> QED BY <1>4, <1>5 DEF AppendLogs

\* A write adds a record to a finite store.
LEMMA WriteMovesEpoch ==
    ASSUME LogsInv, NEW r \in Records, NEW reached \in 0..3, NEW dies \in BOOLEAN,
           WriteMember(r, reached, dies), stored' # stored
    PROVE  KeyEpoch' # KeyEpoch
<1>1. stored \subseteq Records /\ r \notin stored /\ stored' = stored \cup {r}
  BY DEF LogsInv, LogTypes, WriteMember
<1>2. IsFiniteSet(stored)
  BY <1>1, FS_Subset
<1>3. Cardinality(stored') = Cardinality(stored) + 1 /\ Cardinality(stored) \in Nat
  BY <1>1, <1>2, FS_AddElement, FS_CardinalityType
<1> QED BY <1>3 DEF KeyEpoch

\* Whatever changes the authority over the key moves the epoch of the key.
THEOREM EpochMoves == LogsSpec => EpochFollowsAuthority
<1> DEFINE changes == \/ stored' # stored
                      \/ rows'["resolution"] # rows["resolution"]
                      \/ acked'["lifecycle"] # acked["lifecycle"] /\ (Retired \cap stored)' # Retired \cap stored
<1>1. LogsInv /\ [LogsNext]_vars => [changes => KeyEpoch' # KeyEpoch]_vars
  <2> SUFFICES ASSUME LogsInv, LogsNext, changes PROVE KeyEpoch' # KeyEpoch
    OBVIOUS
  <2>1. ASSUME NEW r \in Records, NEW n \in 0..3, NEW dies \in BOOLEAN, Retire(r, n, dies)
        PROVE  KeyEpoch' # KeyEpoch
    <3>1. stored' = stored
      BY <2>1 DEF Retire, AppendEvent
    <3> QED BY <2>1, <3>1, AppendMovesEpoch DEF Retire, AppendLogs, Contents
  <2>2. ASSUME NEW r \in Records, NEW n \in 0..3, NEW dies \in BOOLEAN, ResolveConflict(r, n, dies)
        PROVE  KeyEpoch' # KeyEpoch
    <3>1. stored' = stored
      BY <2>2 DEF ResolveConflict, AppendEvent
    <3>2. [accepted |-> r, named |-> stored, policy |-> policy] \in Contents
      BY DEF LogsInv, LogTypes, Certificates, Contents
    <3> QED BY <2>2, <3>1, <3>2, AppendMovesEpoch DEF ResolveConflict, AppendLogs
  <2>3. ASSUME NEW r \in Records, NEW n \in 0..3, NEW dies \in BOOLEAN, WriteMember(r, n, dies)
        PROVE  KeyEpoch' # KeyEpoch
    <3>1. rows'["resolution"] = rows["resolution"] /\ acked'["lifecycle"] = acked["lifecycle"]
      BY <2>3 DEF WriteMember, LogsInv, LogTypes, Chains, AppendLogs
    <3> QED BY <2>3, <3>1, WriteMovesEpoch
  <2>4. ASSUME UNCHANGED <<logged, acked>> PROVE FALSE
    BY <2>4 DEF logged
  <2>5. \/ \E n \in 0..3, dies \in BOOLEAN : Read(n, dies)
        \/ BeginExec \/ CommitExec \/ RollbackExec \/ Restart
        => UNCHANGED <<logged, acked>>
    <3>1. RestoreTables /\ txn # NoTxn => UNCHANGED logged
      BY DEF RestoreTables, LogsInv, TxnRemembers, logged
    <3> QED BY <3>1 DEF Read, BeginExec, CommitExec, RollbackExec, Restart, logged
  <2> QED BY <2>1, <2>2, <2>3, <2>4, <2>5 DEF LogsNext
<1> QED BY <1>1, LogsInvariant, PTL DEF LogsSpec, EpochFollowsAuthority
=============================================================================
