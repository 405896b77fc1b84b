---------------------- MODULE ExecutionContexts_proofs ----------------------
(***************************************************************************)
(* What is proved of ExecutionContexts, for every value of its constants:   *)
(* its types, that nothing is laundered, that a record binds what its       *)
(* context consumed, that a closed context is silent, that an attach stays  *)
(* current, and that a stale lease stays stale.  Nothing is assumed of the  *)
(* faults: where some of them break a promise, the theorem excepts the      *)
(* states in which they have, by the history (a context restored from a row *)
(* that a rollback set back; a crash, for the frozen marks).                *)
(***************************************************************************)
EXTENDS ExecutionContexts, TLAPS

\* Meet is the least member of a set of levels.
LEMMA MeetIsLeast ==
    ASSUME NEW S \in SUBSET Levels, S # {}
    PROVE  Meet(S) \in S /\ Meet(S) \in Levels /\ \A k \in S : Meet(S) <= k
<1>1. \E l \in S : \A k \in S : l <= k
  <2>1. CASE 0 \in S BY <2>1 DEF Levels
  <2>2. CASE 0 \notin S /\ 1 \in S BY <2>2 DEF Levels
  <2>3. CASE 0 \notin S /\ 1 \notin S
    <3>1. \A k \in S : k = 2 BY <2>3 DEF Levels
    <3>2. PICK l \in S : TRUE OBVIOUS
    <3> QED BY <3>1, <3>2
  <2> QED BY <2>1, <2>2, <2>3
<1>2. Meet(S) \in S /\ \A k \in S : Meet(S) <= k
  BY <1>1 DEF Meet
<1> QED BY <1>2

\* A new context is well formed and bounded by its message.
LEMMA OpenedFacts ==
    ASSUME ContextTypeOK, NEW p \in Principals, NEW m \in Messages
    PROVE  /\ Opened(p, m) \in ContextRecord
           /\ Opened(p, m).state = "active" /\ Opened(p, m).principal = p
           /\ Opened(p, m).claimed = m /\ Opened(p, m).inputs = {m}
           /\ Opened(p, m).integrity <= label[m]
<1>1. {Clearance[p], label[m]} \in SUBSET Levels
  BY ContextConstants DEF ContextTypeOK
<1>2. Meet({Clearance[p], label[m]}) \in Levels /\ Meet({Clearance[p], label[m]}) <= label[m]
  BY <1>1, MeetIsLeast
<1> QED BY <1>2 DEF Opened, ContextRecord

\* Folding d into c keeps c's identity, adds d's inputs, and lowers c's
\* integrity to what it adds.
LEMMA FoldedFacts ==
    ASSUME ContextTypeOK, NEW c \in Contexts, NEW d \in Contexts
    PROVE  /\ Folded(c, d) \in ContextRecord
           /\ Folded(c, d).state = ctx[c].state /\ Folded(c, d).principal = ctx[c].principal
           /\ Folded(c, d).claimed = ctx[c].claimed
           /\ Folded(c, d).inputs = ctx[c].inputs \cup ctx[d].inputs
           /\ Folded(c, d).integrity <= ctx[c].integrity
           /\ Folded(c, d).integrity <= ctx[d].integrity
           /\ \A m \in ctx[d].inputs \ ctx[c].inputs : Folded(c, d).integrity <= label[m]
<1> DEFINE S == {ctx[c].integrity, ctx[d].integrity}
                   \cup {label[m] : m \in ctx[d].inputs \ ctx[c].inputs}
<1>1. ctx[c] \in ContextRecord /\ ctx[d] \in ContextRecord /\ label \in [Messages -> Levels]
  BY DEF ContextTypeOK
<1>2. S \in SUBSET Levels /\ S # {}
  BY <1>1 DEF ContextRecord
<1>3. Meet(S) \in Levels /\ \A k \in S : Meet(S) <= k
  <2> HIDE DEF S
  <2> QED BY <1>2, MeetIsLeast
<1>4. Folded(c, d) = [ctx[c] EXCEPT !.inputs = ctx[c].inputs \cup ctx[d].inputs, !.integrity = Meet(S)]
  BY <1>1 DEF Folded, ContextRecord
<1>5. /\ Meet(S) <= ctx[c].integrity /\ Meet(S) <= ctx[d].integrity
      /\ \A m \in ctx[d].inputs \ ctx[c].inputs : Meet(S) <= label[m]
  BY <1>3
<1> HIDE DEF S
<1> QED BY <1>1, <1>3, <1>4, <1>5 DEF ContextRecord

\* Moving the current event, or closing, changes nothing else of a context.
LEMMA MovedFacts ==
    ASSUME NEW k \in ContextRecord, NEW m \in Messages
    PROVE  LET e == [k EXCEPT !.event = m] IN
           /\ e \in ContextRecord /\ e.state = k.state /\ e.principal = k.principal
           /\ e.claimed = k.claimed /\ e.inputs = k.inputs /\ e.integrity = k.integrity
BY DEF ContextRecord

LEMMA ClosedFacts ==
    ASSUME NEW k \in ContextRecord
    PROVE  LET e == [k EXCEPT !.state = "closed"] IN
           /\ e \in ContextRecord /\ e.state = "closed" /\ e.principal = k.principal
           /\ e.claimed = k.claimed /\ e.inputs = k.inputs /\ e.integrity = k.integrity
BY DEF ContextRecord

-----------------------------------------------------------------------------
(* Types.                                                                   *)

LEMMA TypesInit == ContextInit => ContextTypeOK
<1> SUFFICES ASSUME ContextInit PROVE ContextTypeOK OBVIOUS
<1>1. row \in [Contexts -> ContextRecord] /\ ctx \in [Contexts -> ContextRecord]
  BY DEF ContextInit, Unused, ContextRecord, Levels
<1>2. \A c \in Contexts : WellFormed(ctx[c]) /\ WellFormed(row[c])
  BY DEF ContextInit, Unused, WellFormed
<1>3. label \in [Messages -> Levels]
  BY ContextConstants DEF ContextInit, Levels
<1>4. stored \subseteq Messages /\ queue \in Queue
  BY ContextConstants DEF ContextInit, Queue
<1>5. lease \in [Contexts -> [live : BOOLEAN, generation : Nat]]
  BY DEF ContextInit, NoLease
<1> QED BY <1>1, <1>2, <1>3, <1>4, <1>5 DEF ContextInit, ContextTypeOK

\* Every step keeps every variable's type.
LEMMA TypesStep == ContextTypeOK /\ [ContextNext]_contextVars => ContextTypeOK'
<1> SUFFICES ASSUME ContextTypeOK, [ContextNext]_contextVars PROVE ContextTypeOK' OBVIOUS
<1> USE DEF durableVars, memoryVars, historyVars, WellFormed
<1>0. /\ stored \subseteq Messages /\ lost \subseteq Messages
      /\ label \in [Messages -> Levels] /\ parents \in [Messages -> SUBSET Messages]
      /\ queue \in Queue /\ records \subseteq Record
      /\ row \in [Contexts -> ContextRecord] /\ ctx \in [Contexts -> ContextRecord]
      /\ lease \in [Contexts -> [live : BOOLEAN, generation : Nat]]
      /\ consumed \in [Contexts -> SUBSET Messages] /\ carries \in [Messages -> SUBSET Messages]
      /\ attached \subseteq Contexts \X Contexts /\ closed \subseteq Contexts
      /\ faults \in [{"takeovers", "failed", "refused", "policies", "crashes"} -> Nat]
      /\ \A k \in Contexts : WellFormed(ctx[k]) /\ WellFormed(row[k])
  BY DEF ContextTypeOK
<1>1. ASSUME NEW p \in Principals, NEW m \in Messages, NEW c \in Contexts, Claim(p, m, c)
      PROVE  ContextTypeOK'
  <2>1. Opened(p, m) \in ContextRecord /\ WellFormed(Opened(p, m))
    BY OpenedFacts DEF WellFormed
  <2>2. queue' \in Queue
    BY <1>0, <1>1 DEF Claim, LockFor, Relocked, Queue
  <2>3. /\ ctx' \in [Contexts -> ContextRecord] /\ row' \in [Contexts -> ContextRecord]
        /\ \A k \in Contexts : WellFormed(ctx'[k]) /\ WellFormed(row'[k])
    BY <1>0, <1>1, <2>1 DEF Claim
  <2>4. lease' \in [Contexts -> [live : BOOLEAN, generation : Nat]]
    BY <1>0, <1>1, <2>2 DEF Claim, Queue
  <2> QED BY <1>1, <2>2, <2>3, <2>4 DEF Claim, ContextTypeOK
<1>2. ASSUME NEW p \in Principals, NEW m \in Messages, ClaimCutShort(p, m)
      PROVE  ContextTypeOK'
  <2>1. queue' \in Queue
    BY <1>0, <1>2 DEF ClaimCutShort, LockFor, Relocked, Queue
  <2> QED BY <1>2, <2>1 DEF ClaimCutShort, Happens, ContextTypeOK
<1>3. ASSUME NEW c \in Contexts, NEW d \in Contexts, NEW saved \in BOOLEAN, Attach(c, d, saved)
      PROVE  ContextTypeOK'
  <2>1. Folded(c, d) \in ContextRecord /\ WellFormed(Folded(c, d))
    <3>1. ctx[c].claimed \in Folded(c, d).inputs \/ ctx[c].state = "none"
      BY <1>0, FoldedFacts DEF WellFormed
    <3> QED BY <1>0, <3>1, FoldedFacts DEF WellFormed
  <2>2. /\ ctx' \in [Contexts -> ContextRecord] /\ row' \in [Contexts -> ContextRecord]
        /\ \A k \in Contexts : WellFormed(ctx'[k]) /\ WellFormed(row'[k])
        /\ faults' \in [{"takeovers", "failed", "refused", "policies", "crashes"} -> Nat]
    <3>1. /\ ctx' \in [Contexts -> ContextRecord] /\ \A k \in Contexts : WellFormed(ctx'[k])
      BY <1>0, <1>3, <2>1 DEF Attach
    <3>2. CASE saved
      BY <1>0, <1>3, <3>1, <3>2 DEF Attach, Persist, SavedRow
    <3>3. CASE ~saved
      <4>1. row' = row /\ Happens("failed", MaxFaults)
        BY <1>3, <3>3 DEF Attach, Persist
      <4>2. faults' \in [{"takeovers", "failed", "refused", "policies", "crashes"} -> Nat]
        BY <1>0, <4>1 DEF Happens
      <4> QED BY <1>0, <3>1, <4>1, <4>2
    <3> QED BY <3>2, <3>3
  <2>3. consumed' \in [Contexts -> SUBSET Messages] /\ attached' \subseteq Contexts \X Contexts
    BY <1>0, <1>3 DEF Attach
  <2>4. setBack' \subseteq Contexts
    BY <1>3 DEF Attach, Persist, ContextTypeOK
  <2> QED BY <1>3, <2>2, <2>3, <2>4 DEF Attach, ContextTypeOK
<1>4. ASSUME NEW c \in Contexts, NEW m \in Messages, NEW level \in Requested, Send(c, m, level)
      PROVE  ContextTypeOK'
  <2>1. SentLabel(c, level) \in Levels
    <3>1. {ctx[c].integrity, level} \in SUBSET Levels
      BY <1>0, ContextConstants DEF ContextRecord
    <3> QED BY <3>1, MeetIsLeast DEF SentLabel
  <2>2. /\ ctx' \in [Contexts -> ContextRecord] /\ row' \in [Contexts -> ContextRecord]
        /\ \A k \in Contexts : WellFormed(ctx'[k]) /\ WellFormed(row'[k])
    <3>1. [ctx[c] EXCEPT !.event = m] \in ContextRecord /\ WellFormed([ctx[c] EXCEPT !.event = m])
      <4>1. ctx[c] \in ContextRecord /\ WellFormed(ctx[c]) BY <1>0
      <4> QED BY <4>1, MovedFacts
    <3> QED BY <1>0, <1>4, <3>1 DEF Send
  <2>3. /\ label' \in [Messages -> Levels] /\ parents' \in [Messages -> SUBSET Messages]
        /\ carries' \in [Messages -> SUBSET Messages] /\ stored' \subseteq Messages
    BY <1>0, <1>4, <2>1 DEF Send, Carried
  <2> QED BY <1>4, <2>2, <2>3 DEF Send, ContextTypeOK
<1>5. ASSUME NEW c \in Contexts, NEW m \in Messages, SendRefused(c, m)
      PROVE  ContextTypeOK'
  <2>1. ctx' \in [Contexts -> ContextRecord] /\ \A k \in Contexts : WellFormed(ctx'[k])
    <3>1. [ctx[c] EXCEPT !.event = m] \in ContextRecord /\ WellFormed([ctx[c] EXCEPT !.event = m])
      <4>1. ctx[c] \in ContextRecord /\ WellFormed(ctx[c]) BY <1>0
      <4> QED BY <4>1, MovedFacts
    <3> QED BY <1>0, <1>5, <3>1 DEF SendRefused
  <2> QED BY <1>5, <2>1 DEF SendRefused, Happens, ContextTypeOK
<1>6. ASSUME NEW p \in Principals, NEW m \in Messages, NEW from \in SUBSET Messages,
             NEW via \in Contexts \cup {NoContext}, NEW level \in Requested,
             SendMessage(p, m, from, via, level)
      PROVE  ContextTypeOK'
  <2> DEFINE S == {Clearance[p], level} \cup {IF n \in stored THEN label[n] ELSE 0 : n \in from}
                     \cup {ctx[c].integrity : c \in {via} \cap Contexts}
  <2>1. S \in SUBSET Levels /\ S # {}
    <3>1. {Clearance[p], level} \subseteq Levels
      BY ContextConstants
    <3>2. {IF n \in stored THEN label[n] ELSE 0 : n \in from} \subseteq Levels
      BY <1>0 DEF Levels
    <3>3. {ctx[c].integrity : c \in {via} \cap Contexts} \subseteq Levels
      BY <1>0 DEF ContextRecord
    <3> QED BY <3>1, <3>2, <3>3
  <2>2. Meet(S) \in Levels
    <3> HIDE DEF S
    <3> QED BY <2>1, MeetIsLeast
  <2>3. label' \in [Messages -> Levels] /\ stored' \subseteq Messages
    BY <1>0, <1>6, <2>2 DEF SendMessage
  <2>4. parents' \in [Messages -> SUBSET Messages] /\ carries' \in [Messages -> SUBSET Messages]
    <3>1. (from \cap stored) \cup Taken(via) \subseteq Messages
      BY <1>0 DEF Taken
    <3>2. {m} \cup Carried((from \cap stored) \cup Taken(via)) \subseteq Messages
      BY <1>0, <3>1 DEF Carried
    <3> QED BY <1>0, <1>6, <3>2 DEF SendMessage
  <2> QED BY <1>6, <2>3, <2>4 DEF SendMessage, ContextTypeOK
<1>7. ASSUME NEW c \in Contexts, Write(c)
      PROVE  ContextTypeOK'
  <2>1. [source |-> ctx[c].claimed, frontier |-> Frontier(c),
         integrity |-> ctx[c].integrity, consumed |-> consumed[c]] \in Record
    BY <1>0, <1>7 DEF Write, Active, Frontier, ContextRecord, WellFormed, Record
  <2> QED BY <1>7, <2>1 DEF Write, ContextTypeOK
<1>8. ASSUME NEW c \in Contexts, NEW saved \in BOOLEAN, Close(c, saved)
      PROVE  ContextTypeOK'
  <2>1. /\ ctx' \in [Contexts -> ContextRecord] /\ row' \in [Contexts -> ContextRecord]
        /\ \A k \in Contexts : WellFormed(ctx'[k]) /\ WellFormed(row'[k])
        /\ faults' \in [{"takeovers", "failed", "refused", "policies", "crashes"} -> Nat]
    <3>1. /\ [ctx[c] EXCEPT !.state = "closed"] \in ContextRecord
          /\ WellFormed([ctx[c] EXCEPT !.state = "closed"])
      <4>1. ctx[c] \in ContextRecord /\ WellFormed(ctx[c]) /\ ctx[c].state = "active"
        BY <1>0, <1>8 DEF Close, Active
      <4> QED BY <4>1, ClosedFacts
    <3>2. /\ ctx' \in [Contexts -> ContextRecord] /\ \A k \in Contexts : WellFormed(ctx'[k])
      <4> DEFINE e == [ctx[c] EXCEPT !.state = "closed"]
      <4>1. ctx' = [ctx EXCEPT ![c] = e] BY <1>8 DEF Close
      <4>2. e \in ContextRecord /\ WellFormed(e) BY <3>1
      <4> HIDE DEF e
      <4> QED BY <1>0, <4>1, <4>2
    <3>3. CASE saved
      BY <1>0, <1>8, <3>2, <3>3 DEF Close, Persist, SavedRow
    <3>4. CASE ~saved
      <4>1. row' = row /\ Happens("failed", MaxFaults)
        BY <1>8, <3>4 DEF Close, Persist
      <4>2. faults' \in [{"takeovers", "failed", "refused", "policies", "crashes"} -> Nat]
        BY <1>0, <4>1 DEF Happens
      <4> QED BY <1>0, <3>2, <4>1, <4>2
    <3> QED BY <3>3, <3>4
  <2>2. lease' \in [Contexts -> [live : BOOLEAN, generation : Nat]] /\ closed' \subseteq Contexts
    BY <1>0, <1>8 DEF Close, Revoked
  <2>3. setBack' \subseteq Contexts
    BY <1>8 DEF Close, Persist, ContextTypeOK
  <2> QED BY <1>8, <2>1, <2>2, <2>3 DEF Close, ContextTypeOK
<1>9. ASSUME NEW m \in Messages, NEW q \in Principals, TakeOver(m, q)
      PROVE  ContextTypeOK'
  <2>1. queue' \in Queue
    BY <1>0, <1>9 DEF TakeOver, Relocked, Queue
  <2> QED BY <1>9, <2>1 DEF TakeOver, Happens, ContextTypeOK
<1>10. CASE BeginPolicy
  BY <1>10 DEF BeginPolicy, Happens, ContextTypeOK
<1>11. CASE CommitPolicy
  BY <1>11 DEF CommitPolicy, ContextTypeOK
<1>12. CASE RollbackPolicy
  BY <1>12 DEF RollbackPolicy, ContextTypeOK
<1>13. CASE Crash
  BY <1>13 DEF Crash, Happens, NoLease, ContextTypeOK
<1>14. CASE UNCHANGED contextVars
  BY <1>14 DEF contextVars, ContextTypeOK, WellFormed
<1> QED BY <1>1, <1>2, <1>3, <1>4, <1>5, <1>6, <1>7, <1>8, <1>9, <1>10, <1>11, <1>12, <1>13, <1>14
        DEF ContextNext

\* Every variable has its type, always.
THEOREM ContextTypeCorrect == ContextSpec => []ContextTypeOK
<1> QED BY TypesInit, TypesStep, PTL DEF ContextSpec

-----------------------------------------------------------------------------
(* Labels bound what flows.                                                 *)

\* A signed label never changes, and what was signed stays signed.
LEMMA LabelsStay ==
    ASSUME ContextTypeOK, [ContextNext]_contextVars
    PROVE  /\ stored \cup lost \subseteq stored' \cup lost'
           /\ \A n \in stored \cup lost : label'[n] = label[n]
<1> USE DEF durableVars, memoryVars, historyVars
<1>1. label \in [Messages -> Levels] /\ stored \cup lost \subseteq Messages
  BY DEF ContextTypeOK
<1>2. ASSUME NEW p \in Principals, NEW m \in Messages
      PROVE  /\ \A c \in Contexts : Claim(p, m, c) => UNCHANGED <<stored, lost, label>>
             /\ ClaimCutShort(p, m) => UNCHANGED <<stored, lost, label>>
             /\ TakeOver(m, p) => UNCHANGED <<stored, lost, label>>
  BY DEF Claim, ClaimCutShort, TakeOver
<1>3. ASSUME NEW c \in Contexts
      PROVE  /\ \A d \in Contexts, saved \in BOOLEAN :
                    Attach(c, d, saved) => UNCHANGED <<stored, lost, label>>
             /\ Write(c) => UNCHANGED <<stored, lost, label>>
             /\ \A saved \in BOOLEAN : Close(c, saved) => UNCHANGED <<stored, lost, label>>
  BY DEF Attach, Write, Close
<1>4. ASSUME NEW p \in Principals, NEW m \in Messages, NEW from \in SUBSET Messages,
             NEW via \in Contexts \cup {NoContext}, NEW level \in Requested,
             SendMessage(p, m, from, via, level)
      PROVE  /\ stored' = stored \cup {m} /\ lost' = lost
             /\ \A n \in stored \cup lost : label'[n] = label[n]
  BY <1>1, <1>4 DEF SendMessage
<1>5. ASSUME NEW c \in Contexts, NEW m \in Messages, NEW level \in Requested, Send(c, m, level)
      PROVE  /\ stored' = stored \cup {m} /\ lost' = lost
             /\ \A n \in stored \cup lost : label'[n] = label[n]
  BY <1>1, <1>5 DEF Send
<1>6. ASSUME NEW c \in Contexts, NEW m \in Messages, SendRefused(c, m)
      PROVE  stored' = stored /\ lost' = lost \cup {m} /\ label' = label
  BY <1>6 DEF SendRefused
<1>7. BeginPolicy \/ CommitPolicy \/ Crash => UNCHANGED <<stored, lost, label>>
  BY DEF BeginPolicy, CommitPolicy, Crash
<1>8. RollbackPolicy => stored \cup lost \subseteq stored' \cup lost' /\ label' = label
  BY DEF RollbackPolicy
<1>9. UNCHANGED contextVars => UNCHANGED <<stored, lost, label>>
  BY DEF contextVars
<1> QED BY <1>2, <1>3, <1>4, <1>5, <1>6, <1>7, <1>8, <1>9 DEF ContextNext

\* A step keeps every label below what its message carries, every context below
\* its inputs, and every record below what its context had consumed.
LEMMA FlowStep ==
    ASSUME ContextTypeOK, ClaimedOnce, MemoryKeeps, FlowIsBounded, [ContextNext]_contextVars
    PROVE  FlowIsBounded'
<1> USE DEF durableVars, memoryVars, historyVars, Signed
<1>0. /\ stored \subseteq Messages /\ lost \subseteq Messages
      /\ label \in [Messages -> Levels] /\ records \subseteq Record
      /\ row \in [Contexts -> ContextRecord] /\ ctx \in [Contexts -> ContextRecord]
      /\ consumed \in [Contexts -> SUBSET Messages] /\ carries \in [Messages -> SUBSET Messages]
      /\ policy # NoPolicy => /\ policy.records \subseteq Record
                              /\ policy.row \in [Contexts -> ContextRecord]
  BY DEF ContextTypeOK
<1>a. CarriedBounded /\ ContextsSound /\ RecordsSound /\ RollbackSound
  BY DEF FlowIsBounded
<1>b. /\ stored \cup lost \subseteq stored' \cup lost'
      /\ \A n \in stored \cup lost : label'[n] = label[n]
  BY LabelsStay
<1>c. ASSUME NEW k \in ContextRecord, Sound(k) PROVE Sound(k)'
  BY <1>b, <1>c DEF Sound
<1>d. ASSUME NEW r \in Record, SoundRecord(r) PROVE SoundRecord(r)'
  BY <1>b, <1>d DEF SoundRecord
<1>e. UNCHANGED <<label, carries>> => CarriedBounded'
  BY <1>a, <1>b DEF CarriedBounded
<1>f. UNCHANGED <<ctx, row, consumed>> => ContextsSound'
  BY <1>0, <1>a, <1>b, <1>c DEF ContextsSound
<1>g. UNCHANGED records => RecordsSound'
  BY <1>0, <1>a, <1>d DEF RecordsSound
<1>h. UNCHANGED policy => RollbackSound'
  BY <1>0, <1>a, <1>c, <1>d DEF RollbackSound
<1>i. ASSUME NEW m \in Messages \ Signed, NEW S \in SUBSET Signed, NEW l \in Levels,
             \A n \in S : l <= label[n], stored' = stored \cup {m}, lost' = lost,
             label' = [label EXCEPT ![m] = l],
             carries' = [carries EXCEPT ![m] = {m} \cup Carried(S)]
      PROVE  CarriedBounded'
  <2> SUFFICES ASSUME NEW k \in Messages
               PROVE  /\ carries'[k] \subseteq (Signed \cup {k})'
                      /\ \A o \in carries'[k] : label'[k] <= label'[o]
    BY DEF CarriedBounded
  <2>1. CASE k # m
    BY <1>0, <1>a, <1>b, <1>i, <2>1 DEF CarriedBounded
  <2>2. CASE k = m
    <3>1. carries'[m] = {m} \cup Carried(S) /\ label'[m] = l
      BY <1>0, <1>i
    <3>2. \A n \in S : carries[n] \subseteq Signed /\ \A o \in carries[n] : label[n] <= label[o]
      BY <1>0, <1>a DEF CarriedBounded
    <3>3. ASSUME NEW o \in Carried(S) PROVE o \in Signed /\ l <= label'[o]
      <4>1. PICK n \in S : o \in carries[n] BY DEF Carried
      <4>2. o \in Signed /\ label[n] <= label[o] /\ label'[o] = label[o] /\ l <= label[n]
        BY <1>b, <1>i, <3>2, <4>1
      <4>3. l \in Int /\ label[n] \in Int /\ label[o] \in Int
        BY <1>0, <4>2 DEF Levels
      <4> QED BY <4>2, <4>3
    <3> QED BY <1>i, <2>2, <3>1, <3>3 DEF Levels
  <2> QED BY <2>1, <2>2
<1>1. ASSUME NEW p \in Principals, NEW m \in Messages, NEW c \in Contexts, Claim(p, m, c)
      PROVE  FlowIsBounded'
  <2> DEFINE e == Opened(p, m)
  <2>1. e \in ContextRecord /\ Sound(e) /\ m \in Signed
    BY <1>1, OpenedFacts DEF Claim, Sound
  <2>2. ctx' = [ctx EXCEPT ![c] = e] /\ row' = [row EXCEPT ![c] = ctx'[c]]
    BY <1>1 DEF Claim
  <2>3. ContextsSound'
    <3> HIDE DEF e
    <3> QED BY <1>0, <1>1, <1>a, <1>b, <1>c, <2>1, <2>2 DEF Claim, ContextsSound
  <2> QED BY <1>1, <1>e, <1>g, <1>h, <2>3 DEF Claim, FlowIsBounded
<1>2. ASSUME NEW p \in Principals, NEW m \in Messages, ClaimCutShort(p, m)
      PROVE  FlowIsBounded'
  BY <1>2, <1>e, <1>f, <1>g, <1>h DEF ClaimCutShort, FlowIsBounded
<1>3. ASSUME NEW c \in Contexts, NEW d \in Contexts, NEW saved \in BOOLEAN, Attach(c, d, saved)
      PROVE  FlowIsBounded'
  <2> DEFINE e == Folded(c, d)
  <2>1. /\ Sound(ctx[c]) /\ Sound(ctx[d]) /\ ctx[c].state = "active" /\ ctx[d].state = "active"
        /\ ctx[c] \in ContextRecord /\ ctx[d] \in ContextRecord
    BY <1>0, <1>3, <1>a DEF Attach, Active, Fresh, ClaimedOnce, ContextsSound
  <2>2. e \in ContextRecord /\ Sound(e)
    <3>1. /\ e \in ContextRecord /\ e.inputs = ctx[c].inputs \cup ctx[d].inputs
          /\ e.integrity <= ctx[c].integrity
          /\ \A m \in ctx[d].inputs \ ctx[c].inputs : e.integrity <= label[m]
      BY FoldedFacts
    <3> HIDE DEF e
    <3> QED BY <1>0, <2>1, <3>1 DEF Sound, ContextRecord, Levels
  <2>3. /\ ctx' = [ctx EXCEPT ![c] = e] /\ row' \in {row, [row EXCEPT ![c] = ctx'[c]]}
        /\ consumed' \in {consumed, [consumed EXCEPT ![c] = @ \cup consumed[d]]}
    BY <1>3 DEF Attach, Persist, SavedRow
  <2>4. ContextsSound'
    <3> HIDE DEF e
    <3> QED BY <1>0, <1>a, <1>b, <1>c, <2>2, <2>3 DEF ContextsSound
  <2> QED BY <1>3, <1>e, <1>g, <1>h, <2>4 DEF Attach, FlowIsBounded
<1>4. ASSUME NEW c \in Contexts, NEW m \in Messages, NEW level \in Requested, Send(c, m, level)
      PROVE  FlowIsBounded'
  <2> DEFINE e == [ctx[c] EXCEPT !.event = m]
  <2>1. e \in ContextRecord /\ Sound(e)
    <3>1. ctx[c] \in ContextRecord /\ Sound(ctx[c]) BY <1>0, <1>a DEF ContextsSound
    <3> QED BY <3>1, MovedFacts DEF Sound
  <2>0. ctx' = [ctx EXCEPT ![c] = e] /\ row' = [row EXCEPT ![c] = ctx'[c]]
    BY <1>4 DEF Send
  <2>2. ContextsSound'
    <3> HIDE DEF e
    <3> QED BY <1>0, <1>4, <1>a, <1>b, <1>c, <2>1, <2>0 DEF Send, ContextsSound
  <2>3. SentLabel(c, level) \in Levels /\ SentLabel(c, level) <= ctx[c].integrity
    <3>1. {ctx[c].integrity, level} \in SUBSET Levels
      BY <1>0, ContextConstants DEF ContextRecord
    <3> QED BY <3>1, MeetIsLeast DEF SentLabel
  <2>4. \A n \in consumed[c] : n \in Signed /\ ctx[c].integrity <= label[n]
    BY <1>0, <1>4, <1>a DEF Send, Active, ContextsSound, Sound, MemoryKeeps
  <2>5. \A n \in consumed[c] : SentLabel(c, level) <= label[n]
    BY <1>0, <2>3, <2>4 DEF ContextRecord, Levels
  <2>6. CarriedBounded'
    BY <1>4, <1>i, <2>3, <2>4, <2>5 DEF Send
  <2> QED BY <1>4, <1>g, <1>h, <2>2, <2>6 DEF Send, FlowIsBounded
<1>5. ASSUME NEW c \in Contexts, NEW m \in Messages, SendRefused(c, m)
      PROVE  FlowIsBounded'
  <2> DEFINE e == [ctx[c] EXCEPT !.event = m]
  <2>1. e \in ContextRecord /\ Sound(e)
    <3>1. ctx[c] \in ContextRecord /\ Sound(ctx[c]) BY <1>0, <1>a DEF ContextsSound
    <3> QED BY <3>1, MovedFacts DEF Sound
  <2>0. ctx' = [ctx EXCEPT ![c] = e] /\ row' = row
    BY <1>5 DEF SendRefused
  <2>2. ContextsSound'
    <3> HIDE DEF e
    <3> QED BY <1>0, <1>5, <1>a, <1>b, <1>c, <2>1, <2>0 DEF SendRefused, ContextsSound
  <2> QED BY <1>5, <1>e, <1>g, <1>h, <2>2 DEF SendRefused, FlowIsBounded
<1>6. ASSUME NEW p \in Principals, NEW m \in Messages, NEW from \in SUBSET Messages,
             NEW via \in Contexts \cup {NoContext}, NEW level \in Requested,
             SendMessage(p, m, from, via, level)
      PROVE  FlowIsBounded'
  <2> DEFINE S == {Clearance[p], level} \cup {IF n \in stored THEN label[n] ELSE 0 : n \in from}
                     \cup {ctx[c].integrity : c \in {via} \cap Contexts}
  <2>1. S \in SUBSET Levels /\ S # {}
    <3>1. {Clearance[p], level} \subseteq Levels
      BY ContextConstants
    <3>2. {IF n \in stored THEN label[n] ELSE 0 : n \in from} \subseteq Levels
      BY <1>0 DEF Levels
    <3>3. {ctx[c].integrity : c \in {via} \cap Contexts} \subseteq Levels
      BY <1>0 DEF ContextRecord
    <3> QED BY <3>1, <3>2, <3>3
  <2>2. Meet(S) \in Levels /\ \A l \in S : Meet(S) <= l
    <3> HIDE DEF S
    <3> QED BY <2>1, MeetIsLeast
  <2>3. (from \cap stored) \cup Taken(via) \subseteq Signed
    BY <1>6, <1>a DEF SendMessage, Taken, ContextsSound
  <2>4. ASSUME NEW n \in (from \cap stored) \cup Taken(via) PROVE Meet(S) <= label[n]
    <3>1. CASE n \in from \cap stored BY <2>2, <3>1
    <3>2. CASE n \in Taken(via)
      <4>1. via \in Contexts /\ n \in consumed[via] BY <3>2 DEF Taken
      <4>2. n \in ctx[via].inputs /\ ctx[via].integrity <= label[n]
        BY <1>0, <1>6, <1>a, <4>1, ContextConstants
           DEF SendMessage, Active, MemoryKeeps, ContextsSound, Sound
      <4>3. Meet(S) <= ctx[via].integrity BY <2>2, <4>1
      <4> QED BY <1>0, <2>2, <2>3, <4>1, <4>2, <4>3 DEF ContextRecord, Levels
    <3> QED BY <3>1, <3>2
  <2>5. label' = [label EXCEPT ![m] = Meet(S)]
    BY <1>6 DEF SendMessage
  <2>6. CarriedBounded'
    <3> HIDE DEF S
    <3> QED BY <1>6, <1>i, <2>2, <2>3, <2>4, <2>5 DEF SendMessage
  <2> QED BY <1>6, <1>f, <1>g, <1>h, <2>6 DEF SendMessage, FlowIsBounded
<1>7. ASSUME NEW c \in Contexts, Write(c)
      PROVE  FlowIsBounded'
  <2> DEFINE r == [source |-> ctx[c].claimed, frontier |-> Frontier(c),
                   integrity |-> ctx[c].integrity, consumed |-> consumed[c]]
  <2>1. r \in Record /\ SoundRecord(r)
    <3>1. /\ ctx[c] \in ContextRecord /\ WellFormed(ctx[c]) /\ Sound(ctx[c]) /\ ctx[c].state = "active"
          /\ consumed[c] \subseteq ctx[c].inputs /\ consumed[c] \subseteq Signed
      BY <1>0, <1>7, <1>a DEF Write, Active, MemoryKeeps, ContextsSound, ContextTypeOK
    <3> QED BY <3>1 DEF WellFormed, Frontier, Sound, SoundRecord, ContextRecord, Record
  <2>2. records' = records \cup {r} BY <1>7 DEF Write
  <2>3. RecordsSound'
    <3> HIDE DEF r
    <3> QED BY <1>0, <1>a, <1>d, <2>1, <2>2 DEF RecordsSound
  <2> QED BY <1>7, <1>e, <1>f, <1>h, <2>3 DEF Write, FlowIsBounded
<1>8. ASSUME NEW c \in Contexts, NEW saved \in BOOLEAN, Close(c, saved)
      PROVE  FlowIsBounded'
  <2> DEFINE e == [ctx[c] EXCEPT !.state = "closed"]
  <2>1. e \in ContextRecord /\ Sound(e)
    <3>1. ctx[c] \in ContextRecord /\ Sound(ctx[c]) /\ ctx[c].state = "active"
      BY <1>0, <1>8, <1>a DEF Close, Active, ContextsSound
    <3> QED BY <3>1, ClosedFacts DEF Sound
  <2>2. ctx' = [ctx EXCEPT ![c] = e] /\ row' \in {row, [row EXCEPT ![c] = ctx'[c]]}
    BY <1>8 DEF Close, Persist, SavedRow
  <2>3. ContextsSound'
    <3> HIDE DEF e
    <3> QED BY <1>0, <1>8, <1>a, <1>b, <1>c, <2>1, <2>2 DEF Close, ContextsSound
  <2> QED BY <1>8, <1>e, <1>g, <1>h, <2>3 DEF Close, FlowIsBounded
<1>9. ASSUME NEW m \in Messages, NEW q \in Principals, TakeOver(m, q)
      PROVE  FlowIsBounded'
  BY <1>9, <1>e, <1>f, <1>g, <1>h DEF TakeOver, FlowIsBounded
<1>10. CASE BeginPolicy
  <2>1. RollbackSound'
    BY <1>10, <1>a DEF BeginPolicy, RollbackSound, ContextsSound, RecordsSound, Sound, SoundRecord
  <2> QED BY <1>10, <1>e, <1>f, <1>g, <2>1 DEF BeginPolicy, FlowIsBounded
<1>11. CASE CommitPolicy
  BY <1>11, <1>e, <1>f, <1>g DEF CommitPolicy, FlowIsBounded, RollbackSound
<1>12. CASE RollbackPolicy
  <2>1. RecordsSound' /\ RollbackSound'
    BY <1>0, <1>12, <1>a, <1>d DEF RollbackPolicy, RecordsSound, RollbackSound
  <2>2. ContextsSound'
    BY <1>0, <1>12, <1>a, <1>b, <1>c DEF RollbackPolicy, RollbackSound, ContextsSound
  <2> QED BY <1>12, <1>e, <2>1, <2>2 DEF RollbackPolicy, FlowIsBounded
<1>13. CASE Crash
  <2>1. ContextsSound'
    BY <1>0, <1>13, <1>a, <1>b, <1>c DEF Crash, ContextsSound
  <2> QED BY <1>13, <1>e, <1>g, <1>h, <2>1 DEF Crash, FlowIsBounded
<1>14. CASE UNCHANGED contextVars
  BY <1>14, <1>e, <1>f, <1>g, <1>h DEF contextVars, FlowIsBounded
<1> QED BY <1>1, <1>2, <1>3, <1>4, <1>5, <1>6, <1>7, <1>8, <1>9, <1>10, <1>11, <1>12, <1>13, <1>14
        DEF ContextNext

-----------------------------------------------------------------------------
(* What was consumed stays.                                                 *)

LEMMA KeepsInit ==
    ContextInit => FlowIsBounded /\ ClaimedOnce /\ MemoryKeeps /\ RowsKeep /\ FrozenHolds
<1> SUFFICES ASSUME ContextInit
             PROVE  FlowIsBounded /\ ClaimedOnce /\ MemoryKeeps /\ RowsKeep /\ FrozenHolds
  OBVIOUS
<1>1. /\ label \in [Messages -> Levels] /\ carries = [m \in Messages |-> {m}] /\ records = {}
      /\ row = ctx /\ ctx = [c \in Contexts |-> Unused] /\ policy = NoPolicy
      /\ consumed = [c \in Contexts |-> {}] /\ lease = [c \in Contexts |-> NoLease]
      /\ attached = {} /\ closed = {}
  BY TypesInit DEF ContextInit, ContextTypeOK
<1>2. CarriedBounded
  BY <1>1 DEF CarriedBounded, Signed, Levels
<1>3. ContextsSound /\ RecordsSound /\ RollbackSound
  BY <1>1 DEF ContextsSound, RecordsSound, RollbackSound, Sound, Unused
<1>4. ClaimedOnce /\ MemoryKeeps /\ RowsKeep /\ FrozenHolds
  BY <1>1 DEF ClaimedOnce, MemoryKeeps, RowsKeep, FrozenHolds, Unused, NoLease, Active
<1> QED BY <1>2, <1>3, <1>4 DEF FlowIsBounded

\* A step opens only a context nobody claimed before, keeps a closed one closed,
\* and makes a lease live only with its context.
LEMMA OnceStep ==
    ASSUME ContextTypeOK, ClaimedOnce, [ContextNext]_contextVars
    PROVE  ClaimedOnce'
<1> USE DEF durableVars, memoryVars, historyVars, Active
<1>0. /\ row \in [Contexts -> ContextRecord] /\ ctx \in [Contexts -> ContextRecord]
      /\ lease \in [Contexts -> [live : BOOLEAN, generation : Nat]]
      /\ consumed \in [Contexts -> SUBSET Messages]
      /\ closed \subseteq Contexts
  BY DEF ContextTypeOK
<1>a. UNCHANGED <<ctx, row, lease, policy, consumed, closed, setBack, torn>> => ClaimedOnce'
  BY DEF ClaimedOnce
<1>b. ASSUME NEW c \in Contexts, NEW e, ctx' = [ctx EXCEPT ![c] = e],
             row' \in {row, [row EXCEPT ![c] = ctx'[c]]}, setBack' \in {setBack, setBack \ {c}},
             ctx[c].state = "active", e.state = "active", e.principal = ctx[c].principal,
             \A k \in Contexts : consumed[k] \subseteq consumed'[k],
             UNCHANGED <<lease, policy, closed, torn>>
      PROVE  ClaimedOnce'
  <2> SUFFICES ASSUME NEW k \in Contexts
               PROVE  /\ consumed'[k] = {} =>
                            /\ ctx'[k].state = "none" /\ row'[k].state = "none" /\ k \notin closed
                            /\ policy # NoPolicy => policy.row[k].state = "none"
                      /\ lease[k].live => ctx'[k].state = "active" /\ ctx'[k].principal \in Principals
                      /\ k \in closed \ torn =>
                            /\ ctx'[k].state # "active"
                            /\ k \notin setBack' => row'[k].state # "active"
    BY <1>b DEF ClaimedOnce
  <2>1. CASE k # c
    BY <1>0, <1>b, <2>1 DEF ClaimedOnce
  <2>2. CASE k = c
    <3>1. ctx'[k] = e /\ c \notin closed \ torn /\ consumed[c] # {}
      BY <1>0, <1>b, <2>2 DEF ClaimedOnce
    <3> QED BY <1>b, <2>2, <3>1 DEF ClaimedOnce
  <2> QED BY <2>1, <2>2
<1>1. ASSUME NEW p \in Principals, NEW m \in Messages, NEW c \in Contexts, Claim(p, m, c)
      PROVE  ClaimedOnce'
  <2> DEFINE e == Opened(p, m)
  <2>1. e.state = "active" /\ e.principal \in Principals
    BY OpenedFacts
  <2>2. /\ ctx' = [ctx EXCEPT ![c] = e] /\ row' = [row EXCEPT ![c] = ctx'[c]]
        /\ consumed[c] = {} /\ consumed' = [consumed EXCEPT ![c] = {m}]
        /\ UNCHANGED <<policy, closed, setBack, torn>>
        /\ \A k \in Contexts : k # c => lease'[k] = lease[k]
    BY <1>0, <1>1 DEF Claim
  <2> HIDE DEF e
  <2> QED BY <1>0, <2>1, <2>2 DEF ClaimedOnce
<1>2. ASSUME NEW c \in Contexts, NEW d \in Contexts, NEW saved \in BOOLEAN, Attach(c, d, saved)
      PROVE  ClaimedOnce'
  <2> DEFINE e == Folded(c, d)
  <2>1. e.state = ctx[c].state /\ e.principal = ctx[c].principal
    BY FoldedFacts
  <2>2. /\ ctx' = [ctx EXCEPT ![c] = e] /\ ctx[c].state = "active"
        /\ row' \in {row, [row EXCEPT ![c] = ctx'[c]]} /\ setBack' \in {setBack, setBack \ {c}}
        /\ consumed' \in {consumed, [consumed EXCEPT ![c] = @ \cup consumed[d]]}
        /\ UNCHANGED <<lease, policy, closed, torn>>
    BY <1>2 DEF Attach, Persist, SavedRow
  <2>3. \A k \in Contexts : consumed[k] \subseteq consumed'[k]
    BY <1>0, <2>2
  <2> HIDE DEF e
  <2> QED BY <1>b, <2>1, <2>2, <2>3
<1>3. ASSUME NEW c \in Contexts, NEW m \in Messages,
             SendRefused(c, m) \/ \E level \in Requested : Send(c, m, level)
      PROVE  ClaimedOnce'
  <2> DEFINE e == [ctx[c] EXCEPT !.event = m]
  <2>1. e.state = ctx[c].state /\ e.principal = ctx[c].principal
    BY <1>0, MovedFacts
  <2>2. /\ ctx' = [ctx EXCEPT ![c] = e] /\ ctx[c].state = "active"
        /\ row' \in {row, [row EXCEPT ![c] = ctx'[c]]} /\ setBack' \in {setBack, setBack \ {c}}
        /\ UNCHANGED <<consumed, lease, policy, closed, torn>>
    BY <1>3 DEF Send, SendRefused
  <2> HIDE DEF e
  <2> QED BY <1>b, <2>1, <2>2
<1>4. ASSUME NEW c \in Contexts, NEW saved \in BOOLEAN, Close(c, saved)
      PROVE  ClaimedOnce'
  <2> DEFINE e == [ctx[c] EXCEPT !.state = "closed"]
  <2>1. e.state = "closed"
    BY <1>0, ClosedFacts
  <2>2. /\ ctx' = [ctx EXCEPT ![c] = e] /\ ctx[c].state = "active"
        /\ lease' = [lease EXCEPT ![c].live = FALSE]
        /\ UNCHANGED <<policy, consumed, torn>>
        /\ \/ /\ row' = [row EXCEPT ![c] = ctx'[c]] /\ closed' = closed \cup {c}
              /\ setBack' = setBack \ {c}
           \/ UNCHANGED <<row, closed, setBack>>
    BY <1>4 DEF Close, Revoked, Persist, SavedRow
  <2> HIDE DEF e
  <2> QED BY <1>0, <2>1, <2>2 DEF ClaimedOnce
<1>5. CASE BeginPolicy \/ CommitPolicy
  BY <1>5 DEF BeginPolicy, CommitPolicy, ClaimedOnce
<1>6. CASE RollbackPolicy
  <2>1. /\ policy # NoPolicy /\ policy' = NoPolicy /\ row' = policy.row
        /\ setBack' = setBack \cup {k \in Contexts : row'[k].state # "none" /\ row'[k] # row[k]}
        /\ UNCHANGED <<ctx, lease, consumed, closed, torn>>
    BY <1>6 DEF RollbackPolicy
  <2> QED BY <2>1 DEF ClaimedOnce
<1>7. CASE Crash
  <2>1. /\ ctx' = row /\ lease' = [c \in Contexts |-> NoLease]
        /\ torn' = torn \cup setBack /\ UNCHANGED <<row, policy, consumed, closed>>
    BY <1>7 DEF Crash
  <2> QED BY <2>1 DEF ClaimedOnce, NoLease
<1>8. ASSUME NEW p \in Principals, NEW m \in Messages,
             \/ ClaimCutShort(p, m)
             \/ TakeOver(m, p)
             \/ \E from \in SUBSET Messages, via \in Contexts \cup {NoContext}, level \in Requested :
                   SendMessage(p, m, from, via, level)
      PROVE  UNCHANGED <<ctx, row, lease, policy, consumed, closed, setBack, torn>>
  BY <1>8 DEF ClaimCutShort, TakeOver, SendMessage
<1>9. ASSUME NEW c \in Contexts, Write(c)
      PROVE  UNCHANGED <<ctx, row, lease, policy, consumed, closed, setBack, torn>>
  BY <1>9 DEF Write
<1>10. UNCHANGED contextVars
         => UNCHANGED <<ctx, row, lease, policy, consumed, closed, setBack, torn>>
  BY DEF contextVars
<1> QED BY <1>a, <1>1, <1>2, <1>3, <1>4, <1>5, <1>6, <1>7, <1>8, <1>9, <1>10 DEF ContextNext

\* A context torn once stays torn, and a crash tears those set back.
LEMMA TornStays ==
    ASSUME [ContextNext]_contextVars
    PROVE  torn \subseteq torn' /\ (Crash => setBack \subseteq torn')
<1> USE DEF durableVars, memoryVars, historyVars
<1>1. ASSUME NEW p \in Principals, NEW m \in Messages,
             \/ \E c \in Contexts : Claim(p, m, c)
             \/ ClaimCutShort(p, m)
             \/ TakeOver(m, p)
             \/ \E from \in SUBSET Messages, via \in Contexts \cup {NoContext}, level \in Requested :
                   SendMessage(p, m, from, via, level)
      PROVE  torn' = torn
  BY <1>1 DEF Claim, ClaimCutShort, TakeOver, SendMessage
<1>2. ASSUME NEW c \in Contexts,
             \/ \E d \in Contexts, saved \in BOOLEAN : Attach(c, d, saved)
             \/ \E m \in Messages : SendRefused(c, m) \/ \E level \in Requested : Send(c, m, level)
             \/ Write(c)
             \/ \E saved \in BOOLEAN : Close(c, saved)
      PROVE  torn' = torn
  BY <1>2 DEF Attach, SendRefused, Send, Write, Close
<1>3. BeginPolicy \/ CommitPolicy \/ RollbackPolicy \/ UNCHANGED contextVars => torn' = torn
  BY DEF BeginPolicy, CommitPolicy, RollbackPolicy, contextVars
<1>4. Crash => torn' = torn \cup setBack
  BY DEF Crash
<1> QED BY <1>1, <1>2, <1>3, <1>4 DEF ContextNext

\* As long as it tears no context, a step keeps what a context was told it
\* consumed among its inputs, in memory and in a row that was not set back.
LEMMA KeepsStep ==
    ASSUME ContextTypeOK, ClaimedOnce, MemoryKeeps, RowsKeep, [ContextNext]_contextVars, torn' = {}
    PROVE  MemoryKeeps' /\ RowsKeep'
<1> USE DEF durableVars, memoryVars, historyVars, Active
<1>0. /\ row \in [Contexts -> ContextRecord] /\ ctx \in [Contexts -> ContextRecord]
      /\ consumed \in [Contexts -> SUBSET Messages]
  BY DEF ContextTypeOK
<1>a. UNCHANGED <<ctx, row, consumed, setBack>> => MemoryKeeps' /\ RowsKeep'
  BY DEF MemoryKeeps, RowsKeep
<1>b. ASSUME NEW c \in Contexts, NEW e, ctx' = [ctx EXCEPT ![c] = e],
             \/ UNCHANGED <<row, setBack, consumed>>
             \/ row' = [row EXCEPT ![c] = ctx'[c]] /\ setBack' = setBack \ {c},
             consumed'[c] \subseteq e.inputs,
             \A k \in Contexts \ {c} : consumed'[k] = consumed[k]
      PROVE  MemoryKeeps' /\ RowsKeep'
  <2>1. MemoryKeeps' BY <1>0, <1>b DEF MemoryKeeps
  <2>2. RowsKeep' BY <1>0, <1>b DEF RowsKeep
  <2> QED BY <2>1, <2>2
<1>1. ASSUME NEW p \in Principals, NEW m \in Messages, NEW c \in Contexts, Claim(p, m, c)
      PROVE  MemoryKeeps' /\ RowsKeep'
  <2> DEFINE e == Opened(p, m)
  <2>1. e.inputs = {m}
    BY OpenedFacts
  <2>2. /\ ctx' = [ctx EXCEPT ![c] = e] /\ row' = [row EXCEPT ![c] = ctx'[c]]
        /\ consumed' = [consumed EXCEPT ![c] = {m}] /\ setBack' = setBack
    BY <1>1 DEF Claim
  <2> HIDE DEF e
  <2>3. MemoryKeeps' BY <1>0, <2>1, <2>2 DEF MemoryKeeps
  <2>4. RowsKeep' BY <1>0, <2>1, <2>2 DEF RowsKeep
  <2> QED BY <2>3, <2>4
<1>2. ASSUME NEW c \in Contexts, NEW d \in Contexts, NEW saved \in BOOLEAN, Attach(c, d, saved)
      PROVE  MemoryKeeps' /\ RowsKeep'
  <2> DEFINE e == Folded(c, d)
  <2>1. e.inputs = ctx[c].inputs \cup ctx[d].inputs
    BY FoldedFacts
  <2>2. /\ ctx' = [ctx EXCEPT ![c] = e] /\ ctx[c].state = "active" /\ ctx[d].state = "active"
        /\ \/ /\ row' = [row EXCEPT ![c] = ctx'[c]] /\ setBack' = setBack \ {c}
              /\ consumed' = [consumed EXCEPT ![c] = @ \cup consumed[d]]
           \/ UNCHANGED <<row, setBack, consumed>>
    BY <1>2 DEF Attach, Fresh, ClaimedOnce, Persist, SavedRow
  <2> HIDE DEF e
  <2>3. consumed'[c] \subseteq e.inputs /\ \A k \in Contexts \ {c} : consumed'[k] = consumed[k]
    BY <1>0, <2>1, <2>2 DEF MemoryKeeps
  <2> QED BY <1>b, <2>2, <2>3
<1>3. ASSUME NEW c \in Contexts, NEW m \in Messages,
             SendRefused(c, m) \/ \E level \in Requested : Send(c, m, level)
      PROVE  MemoryKeeps' /\ RowsKeep'
  <2> DEFINE e == [ctx[c] EXCEPT !.event = m]
  <2>1. e.inputs = ctx[c].inputs
    BY <1>0, MovedFacts
  <2>2. /\ ctx' = [ctx EXCEPT ![c] = e] /\ ctx[c].state = "active" /\ UNCHANGED consumed
        /\ \/ row' = [row EXCEPT ![c] = ctx'[c]] /\ setBack' = setBack \ {c}
           \/ UNCHANGED <<row, setBack>>
    BY <1>3 DEF Send, SendRefused
  <2> HIDE DEF e
  <2>3. consumed'[c] \subseteq e.inputs
    BY <2>1, <2>2 DEF MemoryKeeps
  <2> QED BY <1>b, <2>2, <2>3
<1>4. ASSUME NEW c \in Contexts, NEW saved \in BOOLEAN, Close(c, saved)
      PROVE  MemoryKeeps' /\ RowsKeep'
  <2> DEFINE e == [ctx[c] EXCEPT !.state = "closed"]
  <2>1. e.inputs = ctx[c].inputs
    BY <1>0, ClosedFacts
  <2>2. /\ ctx' = [ctx EXCEPT ![c] = e] /\ ctx[c].state = "active" /\ UNCHANGED consumed
        /\ \/ row' = [row EXCEPT ![c] = ctx'[c]] /\ setBack' = setBack \ {c}
           \/ UNCHANGED <<row, setBack>>
    BY <1>4 DEF Close, Persist, SavedRow
  <2> HIDE DEF e
  <2>3. consumed'[c] \subseteq e.inputs
    BY <2>1, <2>2 DEF MemoryKeeps
  <2> QED BY <1>b, <2>2, <2>3
<1>5. CASE RollbackPolicy
  <2>1. /\ setBack' = setBack \cup {k \in Contexts : row'[k].state # "none" /\ row'[k] # row[k]}
        /\ UNCHANGED <<ctx, consumed>>
    BY <1>5 DEF RollbackPolicy
  <2> QED BY <2>1 DEF MemoryKeeps, RowsKeep
<1>6. CASE Crash
  <2>1. ctx' = row /\ UNCHANGED <<row, consumed>> /\ setBack = {}
    BY <1>6, TornStays DEF Crash
  <2> QED BY <2>1 DEF MemoryKeeps, RowsKeep
<1>7. BeginPolicy \/ CommitPolicy \/ UNCHANGED contextVars => UNCHANGED <<ctx, row, consumed, setBack>>
  BY DEF BeginPolicy, CommitPolicy, contextVars
<1>8. ASSUME NEW p \in Principals, NEW m \in Messages,
             \/ ClaimCutShort(p, m)
             \/ TakeOver(m, p)
             \/ \E from \in SUBSET Messages, via \in Contexts \cup {NoContext}, level \in Requested :
                   SendMessage(p, m, from, via, level)
      PROVE  UNCHANGED <<ctx, row, consumed, setBack>>
  BY <1>8 DEF ClaimCutShort, TakeOver, SendMessage
<1>9. ASSUME NEW c \in Contexts, Write(c)
      PROVE  UNCHANGED <<ctx, row, consumed, setBack>>
  BY <1>9 DEF Write
<1> QED BY <1>a, <1>1, <1>2, <1>3, <1>4, <1>5, <1>6, <1>7, <1>8, <1>9 DEF ContextNext

\* Until a crash, a step keeps what was attached frozen and every attach current.
LEMMA FrozenStep ==
    ASSUME ContextTypeOK, ClaimedOnce, FrozenHolds, [ContextNext]_contextVars
    PROVE  FrozenHolds'
<1> USE DEF durableVars, memoryVars, historyVars, Active
<1>0. /\ ctx \in [Contexts -> ContextRecord]
      /\ consumed \in [Contexts -> SUBSET Messages]
      /\ attached \subseteq Contexts \X Contexts
      /\ faults \in [{"takeovers", "failed", "refused", "policies", "crashes"} -> Nat]
  BY DEF ContextTypeOK
<1>a. ASSUME NEW fault \in {"takeovers", "failed", "refused", "policies"}, NEW bound,
             Happens(fault, bound) \/ UNCHANGED faults
      PROVE  faults'["crashes"] = faults["crashes"]
  BY <1>0, <1>a DEF Happens
<1>b. faults'["crashes"] = faults["crashes"] /\ UNCHANGED <<ctx, frozen, consumed, attached>>
         => FrozenHolds'
  BY DEF FrozenHolds
<1>c. ASSUME NEW c \in Contexts, NEW e \in ContextRecord, ctx' = [ctx EXCEPT ![c] = e],
             e.inputs = ctx[c].inputs, e.integrity = ctx[c].integrity,
             faults'["crashes"] = faults["crashes"], UNCHANGED <<frozen, consumed, attached>>
      PROVE  FrozenHolds'
  <2>1. \A k \in Contexts : ctx'[k].inputs = ctx[k].inputs /\ ctx'[k].integrity = ctx[k].integrity
    BY <1>0, <1>c
  <2> QED BY <1>0, <1>c, <2>1 DEF FrozenHolds
<1>1. ASSUME NEW p \in Principals, NEW m \in Messages, NEW c \in Contexts, Claim(p, m, c)
      PROVE  FrozenHolds'
  <2>1. /\ \A k \in Contexts \ {c} : ctx'[k] = ctx[k] /\ consumed'[k] = consumed[k]
        /\ consumed[c] = {} /\ UNCHANGED <<frozen, attached, faults>>
    BY <1>0, <1>1 DEF Claim
  <2> QED BY <1>0, <2>1 DEF FrozenHolds
<1>2. ASSUME NEW c \in Contexts, NEW d \in Contexts, NEW saved \in BOOLEAN, Attach(c, d, saved)
      PROVE  FrozenHolds'
  <2> DEFINE e == Folded(c, d)
  <2>1. /\ e \in ContextRecord
        /\ e.inputs = ctx[c].inputs \cup ctx[d].inputs
        /\ e.integrity <= ctx[c].integrity /\ e.integrity <= ctx[d].integrity
    BY FoldedFacts
  <2>2. /\ ctx' = [ctx EXCEPT ![c] = e] /\ ctx[c].state = "active" /\ ctx[d].state = "active"
        /\ c \notin frozen /\ frozen' = frozen \cup {d}
        /\ \/ /\ consumed' = [consumed EXCEPT ![c] = @ \cup consumed[d]]
              /\ attached' = attached \cup {<<c, d>>}
           \/ UNCHANGED <<consumed, attached>>
        /\ Happens("failed", MaxFaults) \/ UNCHANGED faults
    BY <1>2 DEF Attach, Accepts, Fresh, ClaimedOnce, Persist
  <2> HIDE DEF e
  <2> SUFFICES ASSUME faults["crashes"] = 0, NEW pair \in attached'
               PROVE  /\ pair[2] \in frozen' /\ consumed'[pair[1]] # {} /\ consumed'[pair[2]] # {}
                      /\ ctx'[pair[2]].inputs \subseteq ctx'[pair[1]].inputs
                      /\ ctx'[pair[1]].integrity <= ctx'[pair[2]].integrity
    BY <1>a, <2>2 DEF FrozenHolds
  <2>3. \A k \in Contexts : consumed[k] # {} => consumed'[k] # {}
    BY <1>0, <2>2
  <2>4. consumed[c] # {} /\ consumed[d] # {}
    BY <2>2 DEF ClaimedOnce
  <2>5. CASE pair \in attached
    <3>1. /\ pair[1] \in Contexts /\ pair[2] \in Contexts /\ pair[2] # c
          /\ ctx[pair[2]].inputs \subseteq ctx[pair[1]].inputs
          /\ ctx[pair[1]].integrity <= ctx[pair[2]].integrity
          /\ pair[2] \in frozen /\ consumed[pair[1]] # {} /\ consumed[pair[2]] # {}
      BY <1>0, <2>2, <2>5 DEF FrozenHolds
    <3>2. ctx'[pair[2]] = ctx[pair[2]] /\ pair[2] \in frozen'
      BY <1>0, <2>2, <3>1
    <3>3. /\ ctx[pair[1]].inputs \subseteq ctx'[pair[1]].inputs
          /\ ctx'[pair[1]].integrity <= ctx[pair[1]].integrity
      <4>1. CASE pair[1] = c
        <5>1. ctx'[pair[1]] = e BY <1>0, <2>2, <4>1
        <5> QED BY <2>1, <4>1, <5>1
      <4>2. CASE pair[1] # c
        <5>1. ctx'[pair[1]] = ctx[pair[1]] BY <1>0, <2>2, <3>1, <4>2
        <5>2. ctx[pair[1]].integrity \in Int BY <1>0, <3>1 DEF ContextRecord, Levels
        <5> QED BY <5>1, <5>2
      <4> QED BY <4>1, <4>2
    <3>4. /\ ctx[pair[1]].integrity \in Int /\ ctx[pair[2]].integrity \in Int
          /\ ctx'[pair[1]].integrity \in Int
      BY <1>0, <2>1, <2>2, <3>1 DEF ContextRecord, Levels
    <3> QED BY <2>3, <3>1, <3>2, <3>3, <3>4
  <2>6. CASE pair \notin attached
    <3>1. pair = <<c, d>> BY <2>2, <2>6
    <3> QED BY <1>0, <2>1, <2>2, <2>3, <2>4, <3>1 DEF ContextRecord, Levels
  <2> QED BY <2>5, <2>6
<1>3. ASSUME NEW c \in Contexts, NEW m \in Messages,
             SendRefused(c, m) \/ \E level \in Requested : Send(c, m, level)
      PROVE  FrozenHolds'
  <2> DEFINE e == [ctx[c] EXCEPT !.event = m]
  <2>1. e \in ContextRecord /\ e.inputs = ctx[c].inputs /\ e.integrity = ctx[c].integrity
    BY <1>0, MovedFacts
  <2>2. /\ ctx' = [ctx EXCEPT ![c] = e] /\ UNCHANGED <<frozen, consumed, attached>>
        /\ Happens("refused", MaxRefused) \/ UNCHANGED faults
    BY <1>3 DEF Send, SendRefused
  <2>3. faults'["crashes"] = faults["crashes"] BY <1>a, <2>2
  <2> HIDE DEF e
  <2> QED BY <1>c, <2>1, <2>2, <2>3
<1>4. ASSUME NEW c \in Contexts, NEW saved \in BOOLEAN, Close(c, saved)
      PROVE  FrozenHolds'
  <2> DEFINE e == [ctx[c] EXCEPT !.state = "closed"]
  <2>1. e \in ContextRecord /\ e.inputs = ctx[c].inputs /\ e.integrity = ctx[c].integrity
    BY <1>0, ClosedFacts
  <2>2. /\ ctx' = [ctx EXCEPT ![c] = e] /\ UNCHANGED <<frozen, consumed, attached>>
        /\ Happens("failed", MaxFaults) \/ UNCHANGED faults
    BY <1>4 DEF Close, Persist
  <2>3. faults'["crashes"] = faults["crashes"] BY <1>a, <2>2
  <2> HIDE DEF e
  <2> QED BY <1>c, <2>1, <2>2, <2>3
<1>5. CASE Crash
  <2>1. faults'["crashes"] # 0 BY <1>0, <1>5 DEF Crash, Happens
  <2> QED BY <2>1 DEF FrozenHolds
<1>6. CASE BeginPolicy \/ CommitPolicy \/ RollbackPolicy \/ UNCHANGED contextVars
  <2>1. /\ UNCHANGED <<ctx, frozen, consumed, attached>>
        /\ Happens("policies", MaxPolicies) \/ UNCHANGED faults
    BY <1>6 DEF BeginPolicy, CommitPolicy, RollbackPolicy, contextVars
  <2> QED BY <1>a, <1>b, <2>1
<1>7. ASSUME NEW p \in Principals, NEW m \in Messages,
             \/ ClaimCutShort(p, m)
             \/ TakeOver(m, p)
             \/ \E from \in SUBSET Messages, via \in Contexts \cup {NoContext}, level \in Requested :
                   SendMessage(p, m, from, via, level)
      PROVE  FrozenHolds'
  <2>1. /\ UNCHANGED <<ctx, frozen, consumed, attached>>
        /\ Happens("failed", MaxFaults) \/ Happens("takeovers", MaxTakeovers) \/ UNCHANGED faults
    BY <1>7 DEF ClaimCutShort, TakeOver, SendMessage
  <2> QED BY <1>a, <1>b, <2>1
<1>8. ASSUME NEW c \in Contexts, Write(c) PROVE FrozenHolds'
  BY <1>8, <1>b DEF Write
<1> QED BY <1>1, <1>2, <1>3, <1>4, <1>5, <1>6, <1>7, <1>8 DEF ContextNext

-----------------------------------------------------------------------------
(* The promises.                                                            *)

\* The invariant holds, whatever fails: what a crash after a rolled-back policy
\* takes away is only what torn contexts had.
THEOREM ContextInvariant == ContextSpec => []ContextInv
<1>1. ContextInit => ContextInv
  BY TypesInit, KeepsInit DEF ContextInv
<1>2. ContextInv /\ [ContextNext]_contextVars => ContextInv'
  <2> SUFFICES ASSUME ContextInv, [ContextNext]_contextVars PROVE ContextInv' OBVIOUS
  <2>1. ContextTypeOK' /\ ClaimedOnce' /\ FrozenHolds'
    BY TypesStep, OnceStep, FrozenStep DEF ContextInv
  <2>2. ASSUME torn' = {} PROVE FlowIsBounded' /\ MemoryKeeps' /\ RowsKeep'
    <3>1. torn = {} BY <2>2, TornStays
    <3>2. FlowIsBounded' BY <3>1, FlowStep DEF ContextInv
    <3>3. MemoryKeeps' /\ RowsKeep' BY <2>2, <3>1, KeepsStep DEF ContextInv
    <3> QED BY <3>2, <3>3
  <2> QED BY <2>1, <2>2 DEF ContextInv
<1> QED BY <1>1, <1>2, PTL DEF ContextSpec

\* Nothing a context puts out is trusted more than anything that flowed into
\* it, until a context is restored from a row that a rollback set back.
THEOREM NothingIsLaundered == ContextSpec => [](torn = {} => NoLaundering)
<1>1. ContextInv => (torn = {} => NoLaundering)
  <2> SUFFICES ASSUME ContextInv, torn = {} PROVE NoLaundering OBVIOUS
  <2>0. /\ CarriedBounded /\ RecordsSound /\ label \in [Messages -> Levels] /\ stored \subseteq Messages
        /\ lost \subseteq Messages /\ records \subseteq Record
        /\ carries \in [Messages -> SUBSET Messages]
    BY DEF ContextInv, ContextTypeOK, FlowIsBounded
  <2>1. \A m \in stored : \A o \in carries[m] : label[m] <= label[o]
    BY <2>0 DEF CarriedBounded
  <2>2. ASSUME NEW r \in records, NEW m \in r.consumed, NEW o \in carries[m]
        PROVE  r.integrity <= label[o]
    <3>1. m \in Messages /\ r.integrity \in Levels /\ r.integrity <= label[m]
      BY <2>0, <2>2 DEF RecordsSound, SoundRecord, Record, Signed
    <3>2. label[m] <= label[o] /\ o \in Messages
      BY <2>0, <2>2, <3>1 DEF CarriedBounded
    <3> QED BY <2>0, <3>1, <3>2 DEF Levels
  <2> QED BY <2>1, <2>2 DEF NoLaundering
<1> QED BY <1>1, ContextInvariant, PTL

\* A record binds every message its context had consumed, until a context is
\* restored from a row that a rollback set back.
THEOREM RecordsBindTheirInputs == ContextSpec => [](torn = {} => RecordsBindInputs)
<1>1. ContextInv => (torn = {} => RecordsBindInputs)
  BY DEF ContextInv, FlowIsBounded, RecordsSound, SoundRecord, RecordsBindInputs
<1> QED BY <1>1, ContextInvariant, PTL

\* What a context was told it consumed bounds it as long as it is active, over
\* every crash but one that finds a row set back.
THEOREM ConsumedIsBound == ContextSpec => [](torn = {} => ConsumedStaysBound)
<1>1. ContextInv => (torn = {} => ConsumedStaysBound)
  BY DEF ContextInv, FlowIsBounded, ContextsSound, Sound, MemoryKeeps, Active, ConsumedStaysBound
<1> QED BY <1>1, ContextInvariant, PTL

\* A context that was closed stays closed and its lease dead, whatever fails.
THEOREM ClosedStaysSilent == ContextSpec => []ClosedIsSilent
<1>1. ContextInv => ClosedIsSilent
  BY DEF ContextInv, ContextTypeOK, ClaimedOnce, ClosedIsSilent
<1> QED BY <1>1, ContextInvariant, PTL

\* Until a crash, an attach stays current, also when a policy around it was
\* rolled back.
THEOREM AttachesStayCurrent == ContextSpec => [](faults["crashes"] = 0 => FoldIsCurrent)
<1>1. ContextInv => (faults["crashes"] = 0 => FoldIsCurrent)
  BY DEF ContextInv, FrozenHolds, FoldIsCurrent
<1> QED BY <1>1, ContextInvariant, PTL

-----------------------------------------------------------------------------
(* Leases and locks.                                                        *)

\* Unless a rollback sets it back, a lock's generation never falls, and it rises
\* whenever the owner changes.
LEMMA LocksStep ==
    ASSUME ContextTypeOK, [ContextNext]_contextVars
    PROVE  \A m \in Messages :
              \/ queue'[m] = queue[m]
              \/ queue'[m].generation = queue[m].generation + 1
              \/ m \in unlocked'
<1> USE DEF durableVars, memoryVars, historyVars
<1>1. queue \in Queue
  BY DEF ContextTypeOK
<1>2. ASSUME NEW p \in Principals, NEW n \in Messages, queue' \in {queue, Relocked(n, p)}
      PROVE  \A m \in Messages : \/ queue'[m] = queue[m]
                                 \/ queue'[m].generation = queue[m].generation + 1
  BY <1>1, <1>2 DEF Relocked, Queue
<1>3. ASSUME NEW p \in Principals, NEW n \in Messages,
             \/ \E c \in Contexts : Claim(p, n, c)
             \/ ClaimCutShort(p, n)
             \/ TakeOver(n, p)
      PROVE  queue' \in {queue, Relocked(n, p)}
  BY <1>3 DEF Claim, ClaimCutShort, TakeOver, LockFor
<1>4. ASSUME NEW p \in Principals, NEW n \in Messages, NEW from \in SUBSET Messages,
             NEW via \in Contexts \cup {NoContext}, NEW level \in Requested,
             SendMessage(p, n, from, via, level)
      PROVE  UNCHANGED queue
  BY <1>4 DEF SendMessage
<1>5. ASSUME NEW c \in Contexts,
             \/ \E d \in Contexts, saved \in BOOLEAN : Attach(c, d, saved)
             \/ \E m \in Messages : SendRefused(c, m) \/ \E level \in Requested : Send(c, m, level)
             \/ Write(c)
             \/ \E saved \in BOOLEAN : Close(c, saved)
      PROVE  UNCHANGED queue
  BY <1>5 DEF Attach, SendRefused, Send, Write, Close
<1>6. BeginPolicy \/ CommitPolicy \/ Crash => UNCHANGED queue
  BY DEF BeginPolicy, CommitPolicy, Crash
<1>7. RollbackPolicy => \A m \in Messages : queue'[m] = queue[m] \/ m \in unlocked'
  BY DEF RollbackPolicy
<1>8. UNCHANGED contextVars => UNCHANGED queue
  BY DEF contextVars
<1> QED BY <1>2, <1>3, <1>4, <1>5, <1>6, <1>7, <1>8 DEF ContextNext

\* A lock set back once counts as set back from then on.
LEMMA UnlockedStays ==
    ASSUME [ContextNext]_contextVars
    PROVE  unlocked \subseteq unlocked'
<1> USE DEF durableVars, memoryVars, historyVars
<1>1. ASSUME NEW p \in Principals, NEW m \in Messages,
             \/ \E c \in Contexts : Claim(p, m, c)
             \/ ClaimCutShort(p, m)
             \/ TakeOver(m, p)
             \/ \E from \in SUBSET Messages, via \in Contexts \cup {NoContext}, level \in Requested :
                   SendMessage(p, m, from, via, level)
      PROVE  unlocked' = unlocked
  BY <1>1 DEF Claim, ClaimCutShort, TakeOver, SendMessage
<1>2. ASSUME NEW c \in Contexts,
             \/ \E d \in Contexts, saved \in BOOLEAN : Attach(c, d, saved)
             \/ \E m \in Messages : SendRefused(c, m) \/ \E level \in Requested : Send(c, m, level)
             \/ Write(c)
             \/ \E saved \in BOOLEAN : Close(c, saved)
      PROVE  unlocked' = unlocked
  BY <1>2 DEF Attach, SendRefused, Send, Write, Close
<1>3. BeginPolicy \/ CommitPolicy \/ Crash \/ UNCHANGED contextVars => unlocked' = unlocked
  BY DEF BeginPolicy, CommitPolicy, Crash, contextVars
<1>4. RollbackPolicy => unlocked \subseteq unlocked'
  BY DEF RollbackPolicy
<1> QED BY <1>1, <1>2, <1>3, <1>4 DEF ContextNext

\* A context that exists is not claimed again, and while its lease lives its
\* principal and message stay; only a claim makes a lease live.
LEMMA LeaseStep ==
    ASSUME ContextTypeOK, ClaimedOnce, [ContextNext]_contextVars, NEW c \in Contexts, lease'[c].live
    PROVE  \/ /\ lease'[c] = lease[c] /\ ctx'[c].claimed = ctx[c].claimed
              /\ ctx'[c].principal = ctx[c].principal /\ consumed[c] # {}
           \/ /\ consumed[c] = {} /\ ctx'[c].claimed \in Messages
              /\ lease'[c].generation = queue'[ctx'[c].claimed].generation
              /\ queue'[ctx'[c].claimed].owner = ctx'[c].principal
<1> USE DEF durableVars, memoryVars, historyVars
<1> DEFINE Same == /\ lease'[c] = lease[c] /\ ctx'[c].claimed = ctx[c].claimed
                   /\ ctx'[c].principal = ctx[c].principal
<1>0. /\ ctx \in [Contexts -> ContextRecord] /\ queue \in Queue
      /\ lease \in [Contexts -> [live : BOOLEAN, generation : Nat]]
  BY DEF ContextTypeOK
<1>1. Same => lease[c].live /\ consumed[c] # {}
  BY DEF ClaimedOnce, Active
<1>2. ASSUME NEW p \in Principals, NEW m \in Messages, NEW d \in Contexts, Claim(p, m, d)
      PROVE  \/ Same
             \/ /\ consumed[c] = {} /\ ctx'[c].claimed \in Messages
                /\ lease'[c].generation = queue'[ctx'[c].claimed].generation
                /\ queue'[ctx'[c].claimed].owner = ctx'[c].principal
  <2>1. CASE d # c
    BY <1>0, <1>2, <2>1 DEF Claim
  <2>2. CASE d = c
    <3>1. ctx'[c].claimed = m /\ ctx'[c].principal = p /\ consumed[c] = {}
      BY <1>0, <1>2, <2>2, OpenedFacts DEF Claim
    <3>2. queue'[m].owner = p /\ lease'[c].generation = queue'[m].generation
      BY <1>0, <1>2, <2>2 DEF Claim, LockFor, Relocked, Queue
    <3> QED BY <3>1, <3>2
  <2> QED BY <2>1, <2>2
<1>3. ASSUME NEW d \in Contexts, NEW e \in Contexts, NEW saved \in BOOLEAN, Attach(d, e, saved)
      PROVE  Same
  BY <1>0, <1>3, FoldedFacts DEF Attach
<1>4. ASSUME NEW d \in Contexts, NEW m \in Messages,
             SendRefused(d, m) \/ \E level \in Requested : Send(d, m, level)
      PROVE  Same
  <2>1. ctx' = [ctx EXCEPT ![d] = [ctx[d] EXCEPT !.event = m]] /\ lease' = lease
    BY <1>4 DEF SendRefused, Send
  <2> QED BY <1>0, <2>1, MovedFacts
<1>5. ASSUME NEW d \in Contexts, NEW saved \in BOOLEAN, Close(d, saved)
      PROVE  Same
  <2>1. /\ ctx' = [ctx EXCEPT ![d] = [ctx[d] EXCEPT !.state = "closed"]]
        /\ lease' = [lease EXCEPT ![d].live = FALSE]
    BY <1>5 DEF Close, Revoked
  <2> QED BY <1>0, <2>1, ClosedFacts
<1>6. ~Crash
  BY DEF Crash, NoLease
<1>7. ASSUME NEW p \in Principals, NEW m \in Messages,
             \/ ClaimCutShort(p, m)
             \/ TakeOver(m, p)
             \/ \E from \in SUBSET Messages, via \in Contexts \cup {NoContext}, level \in Requested :
                   SendMessage(p, m, from, via, level)
      PROVE  Same
  BY <1>7 DEF ClaimCutShort, TakeOver, SendMessage
<1>8. ASSUME NEW d \in Contexts, Write(d) PROVE Same
  BY <1>8 DEF Write
<1>9. BeginPolicy \/ CommitPolicy \/ RollbackPolicy => Same
  BY DEF BeginPolicy, CommitPolicy, RollbackPolicy
<1>10. UNCHANGED contextVars => Same
  BY DEF contextVars
<1> QED BY <1>1, <1>2, <1>3, <1>4, <1>5, <1>6, <1>7, <1>8, <1>9, <1>10 DEF ContextNext

\* What a live lease says of its lock, unless a rollback sets the lock back: its
\* generation is not ahead, and at the lock's own generation its principal is
\* the owner.
LEMMA LocksStay ==
    ASSUME ContextTypeOK, ClaimedOnce, LocksMoveOn, [ContextNext]_contextVars
    PROVE  LocksMoveOn'
<1> SUFFICES ASSUME NEW c \in Contexts, lease'[c].live, ctx'[c].claimed \notin unlocked'
             PROVE  /\ lease'[c].generation <= queue'[ctx'[c].claimed].generation
                    /\ lease'[c].generation = queue'[ctx'[c].claimed].generation =>
                          queue'[ctx'[c].claimed].owner = ctx'[c].principal
  BY DEF LocksMoveOn
<1>0. /\ lease \in [Contexts -> [live : BOOLEAN, generation : Nat]] /\ queue \in Queue /\ queue' \in Queue
  BY TypesStep DEF ContextTypeOK
<1>1. CASE consumed[c] # {}
  <2>1. /\ lease'[c] = lease[c] /\ ctx'[c].claimed = ctx[c].claimed
        /\ ctx'[c].principal = ctx[c].principal /\ lease[c].live
    BY <1>1, LeaseStep
  <2>2. ctx[c].claimed \in Messages
    BY <2>1 DEF ClaimedOnce, Active, ContextTypeOK, WellFormed, ContextRecord
  <2>3. ctx[c].claimed \notin unlocked
    BY <2>1, UnlockedStays
  <2>4. \/ queue'[ctx[c].claimed] = queue[ctx[c].claimed]
        \/ queue'[ctx[c].claimed].generation = queue[ctx[c].claimed].generation + 1
    BY <2>1, <2>2, LocksStep
  <2>5. lease[c].generation \in Nat /\ queue[ctx[c].claimed].generation \in Nat
    BY <1>0, <2>2 DEF Queue
  <2> QED BY <2>1, <2>3, <2>4, <2>5 DEF LocksMoveOn
<1>2. CASE consumed[c] = {}
  <2>1. /\ ctx'[c].claimed \in Messages
        /\ lease'[c].generation = queue'[ctx'[c].claimed].generation
        /\ queue'[ctx'[c].claimed].owner = ctx'[c].principal
    BY <1>2, LeaseStep
  <2>2. queue'[ctx'[c].claimed].generation \in Nat
    BY <1>0, <2>1 DEF Queue
  <2> QED BY <2>1, <2>2
<1> QED BY <1>1, <1>2

\* A live lease whose lock no rollback set back is at most at the lock's
\* generation, and at it its principal owns the lock.
THEOREM LeasesFollowLocks == ContextSpec => []LocksMoveOn
<1>1. ContextInit => LocksMoveOn
  BY DEF ContextInit, LocksMoveOn, NoLease
<1>2. ContextInv /\ LocksMoveOn /\ [ContextNext]_contextVars => LocksMoveOn'
  BY LocksStay DEF ContextInv
<1> QED BY <1>1, <1>2, ContextInvariant, PTL DEF ContextSpec

\* A lease that lost its lock never counts as holding it again, over any number
\* of takeovers, claims and crashes, unless a rollback set the lock back.
THEOREM StaleLeasesStayStale == ContextSpec => StaleStaysStale
<1>1. ContextInv /\ LocksMoveOn /\ [ContextNext]_contextVars =>
         \A c \in Contexts : consumed[c] # {} /\ ~Fresh(c) =>
            ~Fresh(c)' \/ ctx[c].claimed \in unlocked'
  <2> SUFFICES ASSUME ContextInv, LocksMoveOn, [ContextNext]_contextVars,
                      NEW c \in Contexts, consumed[c] # {}, Fresh(c)',
                      ctx[c].claimed \notin unlocked'
               PROVE  Fresh(c)
    OBVIOUS
  <2>0. /\ ContextTypeOK /\ ClaimedOnce /\ lease'[c].live
        /\ queue'[ctx'[c].claimed].owner = ctx'[c].principal
        /\ queue'[ctx'[c].claimed].generation = lease'[c].generation
    BY DEF ContextInv, Fresh
  <2>1. /\ lease'[c] = lease[c] /\ ctx'[c].claimed = ctx[c].claimed
        /\ ctx'[c].principal = ctx[c].principal /\ lease[c].live
    BY <2>0, LeaseStep
  <2>2. ctx[c].claimed \in Messages /\ ctx[c].claimed \notin unlocked
    BY <2>0, <2>1, UnlockedStays DEF ClaimedOnce, Active, ContextTypeOK, WellFormed, ContextRecord
  <2>3. \/ queue'[ctx[c].claimed] = queue[ctx[c].claimed]
        \/ queue'[ctx[c].claimed].generation = queue[ctx[c].claimed].generation + 1
    BY <2>0, <2>2, LocksStep
  <2>4. lease[c].generation \in Nat /\ queue[ctx[c].claimed].generation \in Nat
    BY <2>0, <2>2 DEF ContextTypeOK, Queue
  <2>5. lease[c].generation <= queue[ctx[c].claimed].generation
    BY <2>1, <2>2 DEF LocksMoveOn
  <2> QED BY <2>0, <2>1, <2>3, <2>4, <2>5 DEF Fresh
<1> QED BY <1>1, ContextInvariant, LeasesFollowLocks, PTL DEF ContextSpec, StaleStaysStale

=============================================================================
