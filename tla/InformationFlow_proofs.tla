------------------------ MODULE InformationFlow_proofs ------------------------
(***************************************************************************)
(* ExecutionContexts implements InformationFlow, for every value of its     *)
(* constants, as long as no context is restored from a row that a rollback  *)
(* set back.  Each action maps to one step or to none:                      *)
(*     Claim -> Open              Write -> Note                             *)
(*     Attach, saved -> Merge     Close, saved -> Silence                   *)
(*     Send, SendMessage -> Release                                         *)
(*     SendRefused -> Spoil       RollbackPolicy -> Withdraw                *)
(***************************************************************************)
EXTENDS ExecutionContexts_proofs

\* What is under way is a step of InformationFlow or none.
FlowAllows == [Flow!Next]_Flow!flowVars

\* What the mapping makes of what the contexts took in and of the records.
Holding  == [c \in Contexts |-> Carried(consumed[c])]
NoteOf(r) == [binds |-> {r.source} \cup r.frontier, trust |-> r.integrity]
Noted    == {NoteOf(r) : r \in records}

\* The tables a rollback restores hold nothing that is not stored by then.
RollbackTakesBack ==
    policy # NoPolicy => policy.stored \subseteq stored /\ policy.records \subseteq records

-----------------------------------------------------------------------------
(* What the steps need.                                                     *)

\* Only a rollback takes a message or a record back.
LEMMA RollbackStep ==
    RollbackTakesBack /\ [ContextNext]_contextVars => RollbackTakesBack'
<1> SUFFICES ASSUME RollbackTakesBack, [ContextNext]_contextVars PROVE RollbackTakesBack' OBVIOUS
<1> USE DEF durableVars, memoryVars, historyVars, RollbackTakesBack
<1>1. ASSUME NEW p \in Principals, NEW m \in Messages,
             \/ \E c \in Contexts : Claim(p, m, c)
             \/ ClaimCutShort(p, m)
             \/ TakeOver(m, p)
             \/ \E from \in SUBSET Messages, via \in Contexts \cup {NoContext}, level \in Requested :
                   SendMessage(p, m, from, via, level)
      PROVE  policy' = policy /\ stored \subseteq stored' /\ records' = records
  BY <1>1 DEF Claim, ClaimCutShort, TakeOver, SendMessage
<1>2. ASSUME NEW c \in Contexts,
             \/ \E d \in Contexts, saved \in BOOLEAN : Attach(c, d, saved)
             \/ \E m \in Messages : SendRefused(c, m) \/ \E level \in Requested : Send(c, m, level)
             \/ Write(c)
             \/ \E saved \in BOOLEAN : Close(c, saved)
      PROVE  policy' = policy /\ stored \subseteq stored' /\ records \subseteq records'
  BY <1>2 DEF Attach, SendRefused, Send, Write, Close
<1>3. CASE BeginPolicy
  BY <1>3 DEF BeginPolicy
<1>4. CASE CommitPolicy \/ RollbackPolicy
  BY <1>4 DEF CommitPolicy, RollbackPolicy
<1>5. CASE Crash
  BY <1>5 DEF Crash
<1>6. CASE UNCHANGED contextVars
  BY <1>6 DEF contextVars
<1> QED BY <1>1, <1>2, <1>3, <1>4, <1>5, <1>6 DEF ContextNext

\* A context that can act was not closed, and what it was told it took in,
\* with all that brought along, bounds its integrity and is signed.
LEMMA ActiveHolds ==
    ASSUME ContextInv, torn = {}, NEW c \in Contexts, Active(c)
    PROVE  /\ c \notin closed
           /\ ctx[c].integrity \in Levels
           /\ \A o \in Carried(consumed[c]) : o \in Signed /\ ctx[c].integrity <= label[o]
<1>0. /\ ctx[c] \in ContextRecord /\ label \in [Messages -> Levels] /\ Signed \subseteq Messages
      /\ CarriedBounded /\ ContextsSound /\ MemoryKeeps
  BY DEF ContextInv, ContextTypeOK, FlowIsBounded, Signed
<1>1. c \notin closed BY DEF ContextInv, ClaimedOnce, ContextTypeOK
<1>2. ASSUME NEW o \in Carried(consumed[c]) PROVE o \in Signed /\ ctx[c].integrity <= label[o]
  <2>1. PICK m \in consumed[c] : o \in carries[m] BY DEF Carried
  <2>2. m \in Signed /\ ctx[c].integrity <= label[m]
    BY <1>0, <2>1 DEF Active, MemoryKeeps, ContextsSound, Sound
  <2>3. o \in Signed /\ label[m] <= label[o]
    BY <1>0, <2>1, <2>2 DEF CarriedBounded
  <2> QED BY <1>0, <2>2, <2>3 DEF ContextRecord, Levels
<1> QED BY <1>0, <1>1, <1>2 DEF ContextRecord

\* A new message changes nothing of what was taken in already.
LEMMA NewMessageIsNotHeld ==
    ASSUME ContextInv, torn = {}, NEW m \in Messages \ Signed, NEW held,
           carries' = [carries EXCEPT ![m] = held], consumed' = consumed
    PROVE  Holding' = Holding
<1>1. ASSUME NEW c \in Contexts PROVE Carried(consumed[c])' = Carried(consumed[c])
  <2>1. m \notin consumed[c]
    BY DEF ContextInv, FlowIsBounded, ContextsSound
  <2>2. consumed[c] \subseteq Messages /\ carries \in [Messages -> SUBSET Messages]
    BY DEF ContextInv, ContextTypeOK
  <2>3. \A n \in consumed[c] : carries'[n] = carries[n]
    BY <2>1, <2>2
  <2> QED BY <2>3 DEF Carried
<1> QED BY <1>1 DEF Holding

-----------------------------------------------------------------------------
(* Step by step.                                                            *)

\* A deployment starts with nobody holding anything.
LEMMA FlowInit == ContextInit => Flow!Init
<1> SUFFICES ASSUME ContextInit PROVE Flow!Init OBVIOUS
<1>1. label \in [Messages -> Levels]
  BY TypesInit DEF ContextTypeOK
<1>2. Holding = [c \in Contexts |-> {}]
  BY DEF ContextInit, Holding, Carried
<1> QED BY <1>1, <1>2, ContextConstants DEF ContextInit, Flow!Init, Holding, Signed

\* A claim opens a context on a stored message, and the context holds nothing
\* but what that message carries.
LEMMA ClaimOpens ==
    ASSUME ContextInv, NEW p \in Principals, NEW m \in Messages, NEW c \in Contexts, Claim(p, m, c)
    PROVE  FlowAllows
<1>0. consumed \in [Contexts -> SUBSET Messages]
  BY DEF ContextInv, ContextTypeOK
<1>1. consumed[c] = {} /\ consumed' = [consumed EXCEPT ![c] = {m}] /\ carries' = carries
  BY DEF Claim
<1>2. Holding' = [Holding EXCEPT ![c] = carries[m]] /\ Holding[c] = {}
  BY <1>0, <1>1 DEF Holding, Carried
<1>3. c \notin closed
  BY <1>1 DEF ContextInv, ClaimedOnce
<1>4. Flow!Open(c, m)
  BY <1>2, <1>3 DEF Flow!Open, Claim, Holding, Signed
<1>5. m \in stored
  BY DEF Claim
<1> QED BY <1>4, <1>5 DEF FlowAllows, Flow!Next

\* An attach that is saved merges what the other context holds; one whose row
\* fails tells the caller nothing.
LEMMA AttachMerges ==
    ASSUME ContextInv, torn = {}, NEW c \in Contexts, NEW d \in Contexts, NEW saved \in BOOLEAN,
           Attach(c, d, saved)
    PROVE  FlowAllows
<1>0. consumed \in [Contexts -> SUBSET Messages]
  BY DEF ContextInv, ContextTypeOK
<1>1. UNCHANGED <<stored, lost, carries, label, records, closed>>
  BY DEF Attach
<1>2. CASE ~saved
  <2>1. consumed' = consumed BY <1>2 DEF Attach
  <2>2. UNCHANGED Flow!flowVars BY <1>1, <2>1 DEF Flow!flowVars, Signed, Carried
  <2> QED BY <2>2 DEF FlowAllows
<1>3. CASE saved
  <2>1. consumed' = [consumed EXCEPT ![c] = consumed[c] \cup consumed[d]]
    BY <1>3 DEF Attach
  <2>2. Holding' = [Holding EXCEPT ![c] = Holding[c] \cup Holding[d]]
    BY <1>0, <1>1, <2>1 DEF Holding, Carried
  <2>3. c \notin closed /\ d \notin closed
    BY DEF Attach, Fresh, ContextInv, ClaimedOnce
  <2>4. Flow!Merge(c, d)
    BY <1>1, <2>2, <2>3 DEF Flow!Merge, Holding, Signed
  <2> QED BY <2>4 DEF FlowAllows, Flow!Next
<1> QED BY <1>2, <1>3

\* What a context sends carries all the context holds, and the signed integrity
\* is no more than any of it allows.
LEMMA SendReleases ==
    ASSUME ContextInv, torn = {}, NEW c \in Contexts, NEW m \in Messages, NEW level \in Requested,
           Send(c, m, level)
    PROVE  FlowAllows
<1>0. /\ label \in [Messages -> Levels] /\ Requested \subseteq Levels /\ Active(c)
      /\ m \notin Signed
  BY ContextConstants DEF ContextInv, ContextTypeOK, Send, Signed
<1>1. SentLabel(c, level) \in Levels /\ SentLabel(c, level) <= ctx[c].integrity
  <2>1. {ctx[c].integrity, level} \in SUBSET Levels
    BY <1>0, ActiveHolds
  <2> QED BY <2>1, MeetIsLeast DEF SentLabel
<1>2. \A o \in Holding[c] : SentLabel(c, level) <= label[o]
  <2>1. TAKE o \in Holding[c]
  <2>2. o \in Carried(consumed[c]) BY <2>1 DEF Holding
  <2>3. o \in Messages /\ ctx[c].integrity <= label[o] /\ ctx[c].integrity \in Levels
    BY <1>0, <2>2, ActiveHolds DEF ContextInv, ContextTypeOK, Signed
  <2> QED BY <1>0, <1>1, <2>3 DEF Levels
<1>3. Flow!Together({}, {c}) = Carried(consumed[c])
  BY DEF Flow!Together
<1>4. Flow!TrustedUpTo(SentLabel(c, level), Flow!Together({}, {c}))
  BY <1>2, <1>3 DEF Flow!TrustedUpTo, Holding
<1>5. Flow!Release(m, {}, {c}, SentLabel(c, level))
  <2>1. /\ stored' = stored \cup {m} /\ label' = [label EXCEPT ![m] = SentLabel(c, level)]
        /\ carries' = [carries EXCEPT ![m] = {m} \cup Carried(consumed[c])]
        /\ UNCHANGED <<lost, records, consumed, closed>>
    BY DEF Send
  <2>2. Holding' = Holding
    BY <1>0, <2>1, NewMessageIsNotHeld
  <2>3. {c} \cap closed = {}
    BY <1>0, ActiveHolds
  <2> QED BY <1>0, <1>3, <1>4, <2>1, <2>2, <2>3 DEF Flow!Release, Signed, Holding
<1> QED BY <1>0, <1>1, <1>5 DEF FlowAllows, Flow!Next

\* A send that is refused leaves a message that will never come out.
LEMMA RefusalSpoils ==
    ASSUME NEW c \in Contexts, NEW m \in Messages, SendRefused(c, m)
    PROVE  FlowAllows
<1>1. Flow!Spoil(m)
  BY DEF Flow!Spoil, SendRefused, Signed, Carried, durableVars, historyVars
<1>2. m \notin Signed
  BY DEF SendRefused, Signed
<1> QED BY <1>1, <1>2 DEF FlowAllows, Flow!Next

\* An operator's message carries what its stored parents and the named context
\* bring, and meets with all of their labels.
LEMMA IngressReleases ==
    ASSUME ContextInv, torn = {}, NEW p \in Principals, NEW m \in Messages,
           NEW from \in SUBSET Messages, NEW via \in Contexts \cup {NoContext}, NEW level \in Requested,
           SendMessage(p, m, from, via, level)
    PROVE  FlowAllows
<1> DEFINE S == {Clearance[p], level} \cup {IF n \in stored THEN label[n] ELSE 0 : n \in from}
                   \cup {ctx[c].integrity : c \in {via} \cap Contexts}
           by == {via} \cap Contexts
           given == from \cap stored
<1>0. /\ label \in [Messages -> Levels] /\ ctx \in [Contexts -> ContextRecord]
      /\ stored \subseteq Messages /\ m \notin Signed /\ CarriedBounded
  BY DEF ContextInv, ContextTypeOK, FlowIsBounded, SendMessage, Signed
<1>1. \A c \in by : Active(c)
  BY ContextConstants DEF SendMessage
<1>2. S \in SUBSET Levels /\ S # {}
  <2>1. {Clearance[p], level} \subseteq Levels
    BY ContextConstants
  <2>2. {IF n \in stored THEN label[n] ELSE 0 : n \in from} \subseteq Levels
    BY <1>0 DEF Levels
  <2>3. {ctx[c].integrity : c \in {via} \cap Contexts} \subseteq Levels
    BY <1>0 DEF ContextRecord
  <2> QED BY <2>1, <2>2, <2>3
<1>3. Meet(S) \in Levels /\ \A l \in S : Meet(S) <= l
  <2> HIDE DEF S
  <2> QED BY <1>2, MeetIsLeast
<1>4. Flow!Together(given, by) = Carried(given \cup Taken(via))
  BY DEF Flow!Together, Carried, Taken
<1>5. ASSUME NEW o \in Flow!Together(given, by) PROVE Meet(S) <= label[o]
  <2>1. CASE \E n \in given : o \in carries[n]
    <3>1. PICK n \in given : o \in carries[n] BY <2>1
    <3>2. label[n] \in S /\ label[n] <= label[o] /\ n \in Messages /\ o \in Messages
      BY <1>0, <3>1 DEF CarriedBounded, ContextInv, ContextTypeOK
    <3>3. Meet(S) <= label[n] BY <1>3, <3>2
    <3> HIDE DEF S
    <3> QED BY <1>0, <1>3, <3>2, <3>3 DEF Levels
  <2>2. CASE \E c \in by : o \in Carried(consumed[c])
    <3>1. PICK c \in by : o \in Carried(consumed[c]) BY <2>2
    <3>2. /\ o \in Signed /\ ctx[c].integrity <= label[o] /\ ctx[c].integrity \in Levels
      BY <1>1, <3>1, ActiveHolds
    <3>3. Meet(S) <= ctx[c].integrity BY <1>3, <3>1
    <3>4. o \in Messages BY <3>2 DEF Signed, ContextInv, ContextTypeOK
    <3> HIDE DEF S
    <3> QED BY <1>0, <1>3, <3>2, <3>3, <3>4 DEF Levels
  <2> QED BY <2>1, <2>2 DEF Flow!Together
<1>6. Flow!TrustedUpTo(Meet(S), Flow!Together(given, by))
  <2> HIDE DEF S, by, given
  <2> QED BY <1>5 DEF Flow!TrustedUpTo
<1>7. by \cap closed = {}
  BY <1>1, ActiveHolds
<1>8. /\ stored' = stored \cup {m} /\ label' = [label EXCEPT ![m] = Meet(S)]
      /\ carries' = [carries EXCEPT ![m] = {m} \cup Carried(given \cup Taken(via))]
      /\ UNCHANGED <<lost, records, consumed, closed>>
  BY DEF SendMessage
<1>9. Flow!Release(m, given, by, Meet(S))
  <2>1. Holding' = Holding
    BY <1>0, <1>8, NewMessageIsNotHeld
  <2>2. given \subseteq stored OBVIOUS
  <2> HIDE DEF S, by, given
  <2> QED BY <1>0, <1>4, <1>6, <1>7, <1>8, <2>1, <2>2 DEF Flow!Release, Signed, Holding
<1>10. m \in Messages \ Signed /\ given \subseteq stored /\ by \subseteq Contexts
  BY <1>0
<1> HIDE DEF S, by, given
<1> QED BY <1>3, <1>9, <1>10 DEF FlowAllows, Flow!Next

\* A record's source and frontier together carry all its context holds.
LEMMA WriteNotes ==
    ASSUME ContextInv, torn = {}, NEW c \in Contexts, Write(c)
    PROVE  FlowAllows
<1> DEFINE r == [source |-> ctx[c].claimed, frontier |-> Frontier(c),
                 integrity |-> ctx[c].integrity, consumed |-> consumed[c]]
           bound == {ctx[c].claimed} \cup Frontier(c)
<1>0. /\ ctx[c] \in ContextRecord /\ WellFormed(ctx[c]) /\ Active(c)
      /\ consumed[c] \subseteq ctx[c].inputs
  BY DEF ContextInv, ContextTypeOK, MemoryKeeps, Write, Active
<1>1. bound = ctx[c].inputs /\ bound \in SUBSET Messages
  BY <1>0 DEF WellFormed, Active, Frontier, ContextRecord
<1>2. Holding[c] \subseteq UNION {carries[i] : i \in bound}
  BY <1>0, <1>1 DEF Holding, Carried
<1>3. Flow!TrustedUpTo(ctx[c].integrity, Holding[c])
  BY <1>0, ActiveHolds DEF Flow!TrustedUpTo, Holding
<1>4. Noted' = Noted \cup {[binds |-> bound, trust |-> ctx[c].integrity]}
  <2>1. records' = records \cup {r} BY DEF Write
  <2>2. NoteOf(r) = [binds |-> bound, trust |-> ctx[c].integrity]
    BY DEF NoteOf
  <2> HIDE DEF r, bound
  <2> QED BY <2>1, <2>2 DEF Noted
<1>5. c \notin closed /\ ctx[c].integrity \in Levels
  BY <1>0, ActiveHolds
<1>6. UNCHANGED <<stored, lost, carries, label, consumed, closed>>
  BY DEF Write, historyVars
<1>7. PICK b \in SUBSET Messages, level \in Levels : b = bound /\ level = ctx[c].integrity
  BY <1>1, <1>5
<1>8. Flow!Note(c, b, level)
  <2> HIDE DEF bound
  <2> QED BY <1>2, <1>3, <1>4, <1>5, <1>6, <1>7 DEF Flow!Note, Holding, Noted, NoteOf, Signed, Carried
<1> QED BY <1>8 DEF FlowAllows, Flow!Next

\* A close that is saved silences the context; one whose row fails tells the
\* caller nothing.
LEMMA CloseSilences ==
    ASSUME NEW c \in Contexts, NEW saved \in BOOLEAN, Close(c, saved)
    PROVE  FlowAllows
<1>1. UNCHANGED <<stored, lost, carries, label, records, consumed>>
  BY DEF Close
<1>2. CASE saved
  <2>1. Flow!Silence(c) BY <1>1, <1>2 DEF Flow!Silence, Close, Signed, Carried
  <2> QED BY <2>1 DEF FlowAllows, Flow!Next
<1>3. CASE ~saved
  <2>1. UNCHANGED Flow!flowVars
    BY <1>1, <1>3 DEF Flow!flowVars, Close, Signed, Carried
  <2> QED BY <2>1 DEF FlowAllows
<1> QED BY <1>2, <1>3

\* A rollback takes back messages and records and changes nothing of what was
\* taken in.
LEMMA RollbackWithdraws ==
    ASSUME RollbackTakesBack, RollbackPolicy
    PROVE  FlowAllows
<1>1. /\ stored' \subseteq stored /\ stored' \cup lost' = stored \cup lost
      /\ records' \subseteq records /\ UNCHANGED <<carries, label, consumed, closed>>
  BY DEF RollbackTakesBack, RollbackPolicy, historyVars
<1>2. Noted' \subseteq Noted
  BY <1>1 DEF Noted, NoteOf
<1>3. Flow!Withdraw
  BY <1>1, <1>2 DEF Flow!Withdraw, Signed, Carried, Noted, NoteOf
<1> QED BY <1>3 DEF FlowAllows, Flow!Next

\* The mapping sees nothing of the rest.
LEMMA TheRestIsUnseen ==
    ASSUME \/ \E p \in Principals, m \in Messages : ClaimCutShort(p, m) \/ TakeOver(m, p)
           \/ BeginPolicy
           \/ CommitPolicy
           \/ Crash
           \/ UNCHANGED contextVars
    PROVE  FlowAllows
<1>1. UNCHANGED <<stored, lost, carries, label, records, consumed, closed>>
  BY DEF ClaimCutShort, TakeOver, BeginPolicy, CommitPolicy, Crash, contextVars,
         durableVars, memoryVars, historyVars
<1>2. UNCHANGED Flow!flowVars
  BY <1>1 DEF Flow!flowVars, Signed, Carried
<1> QED BY <1>2 DEF FlowAllows

-----------------------------------------------------------------------------
(* The refinement.                                                          *)

\* Whatever fails, is refused, is rolled back or restarts, the contexts do with
\* information only what InformationFlow allows: a claim takes in, an attach
\* merges, what is sent is trusted no more than all that was taken in, a record
\* binds it all, and a closed context gives nothing on.  Only a context restored
\* from a row that a rollback set back can do more.
THEOREM FlowControlled == ContextSpec /\ [](torn = {}) => FlowIsControlled
<1>1. ContextInit => Flow!Init /\ RollbackTakesBack
  BY FlowInit DEF ContextInit, RollbackTakesBack
<1>2. ContextInv /\ torn = {} /\ RollbackTakesBack /\ [ContextNext]_contextVars
         => [Flow!Next]_Flow!flowVars
  <2> SUFFICES ASSUME ContextInv, torn = {}, RollbackTakesBack, [ContextNext]_contextVars
               PROVE  FlowAllows
    BY DEF FlowAllows
  <2> QED BY ClaimOpens, AttachMerges, SendReleases, RefusalSpoils, IngressReleases, WriteNotes,
             CloseSilences, RollbackWithdraws, TheRestIsUnseen DEF ContextNext
<1> QED BY <1>1, <1>2, RollbackStep, ContextInvariant, PTL
        DEF ContextSpec, FlowIsControlled, Flow!Spec
=============================================================================
