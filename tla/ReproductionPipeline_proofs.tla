--------------------- MODULE ReproductionPipeline_proofs ---------------------
(***************************************************************************)
(* Theorems about ReproductionPipeline, for any scripts and chains:        *)
(*                                                                         *)
(*   PipelineTypeCorrect   type correctness                                *)
(*   FixpointFromOrder     if no chain rewrites what it read, running a    *)
(*                         script of an undisturbed green run again        *)
(*                         changes nothing                                 *)
(*   ManifestHolds         a green run that ends with the evidence check   *)
(*                         leaves every figure with its recorded hash,     *)
(*                         whoever wrote while it ran                      *)
(*                                                                         *)
(* The second needs more than the state at the end shows: while a run is   *)
(* at script i every script before i has to be settled (Settled), which is *)
(* what the order of the chain keeps true when script i writes.            *)
(***************************************************************************)
EXTENDS ReproductionFlow, TLAPS

Disk == [Files -> SUBSET Facts]
Current == Chains[run.mode][run.at]

\* What the chain needs to know of a script it is at.
LEMMA ChainedScript ==
    ASSUME NEW m \in Modes, NEW i \in 1 .. Len(Chains[m])
    PROVE  Chains[m][i] \in Chained /\ IsScript(Chains[m][i])
<1>1. Chains[m] \in Seq(Chained)
  BY PipelineConstants
<1>2. i \in DOMAIN Chains[m]
  BY <1>1
<1>3. Chains[m][i] \in Chained
  BY <1>1
<1> QED
  BY <1>3, PipelineConstants

LEMMA ChainLength ==
    ASSUME NEW m \in Modes
    PROVE  Len(Chains[m]) \in Nat /\ Len(Chains[m]) > 0
<1>1. Chains[m] \in Seq(Chained) /\ Len(Chains[m]) > 0
  BY PipelineConstants
<1> QED
  BY <1>1

\* What an output shows are facts.
LEMMA ContentFacts ==
    ASSUME NEW d \in Disk, NEW from \in SUBSET Files
    PROVE  Content(d, from) \subseteq Facts
<1> SUFFICES ASSUME NEW f \in from
             PROVE  (IF Has(d, f) THEN d[f] ELSE {<<f, 0>>}) \subseteq Facts
  BY DEF Content
<1>1. 0 \in Versions
  BY PipelineConstants DEF Versions
<1>2. <<f, 0>> \in Facts
  BY <1>1 DEF Facts
<1>3. d[f] \subseteq Facts
  BY DEF Disk
<1> QED
  BY <1>2, <1>3

\* A script turns a disk into a disk.
LEMMA AfterDisk ==
    ASSUME NEW s, IsScript(s), NEW d \in Disk
    PROVE  After(s, d) \in Disk
<1> SUFFICES ASSUME NEW f \in Files
             PROVE  After(s, d)[f] \in SUBSET Facts
  BY DEF After, Disk
<1>1. CASE f = Quotes /\ s.audits
  <2>1. After(s, d)[f] = Leaks(d)
    BY <1>1 DEF After, IsScript
  <2>2. \A g \in Scanned \cup {Quotes} : d[g] \subseteq Facts
    BY PipelineConstants DEF Disk
  <2>3. Leaks(d) \subseteq Facts
    BY <2>2 DEF Leaks
  <2> QED
    BY <2>1, <2>3
<1>2. CASE ~(f = Quotes /\ s.audits) /\ f \in DOMAIN s.writes /\ WritesNow(s, d)
  <2>1. After(s, d)[f] = Content(d, s.writes[f])
    BY <1>2 DEF After
  <2>2. s.writes[f] \in SUBSET Files
    BY <1>2 DEF IsScript
  <2> QED
    BY <2>1, <2>2, ContentFacts
<1>3. CASE ~(f = Quotes /\ s.audits) /\ ~(f \in DOMAIN s.writes /\ WritesNow(s, d))
  <2>1. After(s, d)[f] = d[f]
    BY <1>3 DEF After
  <2> QED
    BY <2>1 DEF Disk
<1> QED
  BY <1>1, <1>2, <1>3

-----------------------------------------------------------------------------
(* Type correctness *)

\* A version somebody writes is one of the bound.
LEMMA NewFact ==
    ASSUME NEW f \in Files, PipelineTypeOK, events < MaxEvents
    PROVE  <<f, events + 2>> \in Facts
<1>1. events + 2 \in Versions
  BY PipelineConstants DEF PipelineTypeOK, Versions
<1> QED
  BY <1>1 DEF Facts

\* The type of the counters and of the marker after an event.
LEMMA EventTypes ==
    ASSUME PipelineTypeOK, Event
    PROVE  /\ events' \in 0 .. MaxEvents
           /\ touched' \in {"no", "during", "since"}
           /\ UNCHANGED <<run, last, runs>>
  BY PipelineConstants DEF PipelineTypeOK, Event

\* The exit of a run is a verdict on one of the modes.
LEMMA StepTypes ==
    ASSUME PipelineTypeOK, Step
    PROVE  PipelineTypeOK'
<1> DEFINE m == run.mode
<1> DEFINE s == Chains[run.mode][run.at]
<1>1. m \in Modes /\ run = [mode |-> m, at |-> run.at] /\ run.at \in 1 .. Len(Chains[m])
  BY DEF PipelineTypeOK, Step
<1>2. IsScript(s)
  BY <1>1, ChainedScript
<1>3. Len(Chains[m]) \in Nat
  BY <1>1, ChainLength
<1>4. disk' = After(s, disk) /\ UNCHANGED <<broken, touched, events, runs>>
  BY DEF Step
<1>5. disk' \in Disk
  BY <1>2, <1>4, AfterDisk DEF PipelineTypeOK, Disk
<1>6. /\ \/ run' = Idle
         \/ /\ run'.mode \in Modes
            /\ run' = [mode |-> run'.mode, at |-> run'.at]
            /\ run'.at \in 1 .. Len(Chains[run'.mode])
      /\ last' \in [mode : Modes \cup {"none"}, green : BOOLEAN]
      /\ last'.green => last'.mode \in Modes
  <2>1. CASE ~AtEnd /\ run' = [run EXCEPT !.at = @ + 1] /\ UNCHANGED last
    <3>1. run' = [mode |-> m, at |-> run.at + 1]
      BY <1>1, <2>1
    <3>2. run.at + 1 \in 1 .. Len(Chains[m])
      BY <1>1, <1>3, <2>1 DEF AtEnd
    <3> QED
      BY <1>1, <2>1, <3>1, <3>2 DEF PipelineTypeOK
  <2>2. CASE run' = Idle /\ last' = [mode |-> m, green |-> TRUE]
    BY <1>1, <2>2
  <2>3. CASE run' = Idle /\ last' = [mode |-> m, green |-> FALSE]
    BY <1>1, <2>3
  <2> QED
    BY <2>1, <2>2, <2>3 DEF Step
<1> QED
  BY <1>4, <1>5, <1>6 DEF PipelineTypeOK, Disk

\* The variables keep their types, whatever the scripts and the chains are.
THEOREM PipelineTypeCorrect == PipelineSpec => []PipelineTypeOK
<1>1. Init => PipelineTypeOK
  BY PipelineConstants DEF Init, PipelineTypeOK, NoVerdict
<1>2. PipelineTypeOK /\ [Next]_vars => PipelineTypeOK'
  <2> SUFFICES ASSUME PipelineTypeOK, [Next]_vars
               PROVE  PipelineTypeOK'
    OBVIOUS
  <2>1. CASE \E m \in Modes : Start(m)
    <3> PICK m \in Modes : Start(m)
      BY <2>1
    <3>1. 1 \in 1 .. Len(Chains[m])
      BY ChainLength
    <3>2. run' = [mode |-> m, at |-> 1] /\ last' = NoVerdict /\ touched' = "no"
          /\ runs' = runs + 1 /\ UNCHANGED <<disk, broken, events>>
      BY DEF Start
    <3>3. runs' \in 0 .. MaxRuns
      BY PipelineConstants DEF Start, PipelineTypeOK
    <3> QED
      BY <3>1, <3>2, <3>3 DEF PipelineTypeOK, NoVerdict
  <2>2. CASE Step
    BY <2>2, StepTypes
  <2>3. ASSUME NEW f \in Inputs, NEW gs \in SUBSET Guarantees, Edit(f, gs)
        PROVE  PipelineTypeOK'
    <3>1. f \in Files
      BY PipelineConstants
    <3>2. <<f, events + 2>> \in Facts
      BY <2>3, <3>1, NewFact DEF Edit, Event
    <3>3. disk' \in [Files -> SUBSET Facts] /\ broken' \subseteq Facts \X Guarantees
      BY <2>3, <3>2 DEF Edit, PipelineTypeOK
    <3> QED
      BY <2>3, <3>3, EventTypes DEF Edit, PipelineTypeOK
  <2>4. ASSUME NEW f \in Touchable, Replace(f)
        PROVE  PipelineTypeOK'
    <3>1. f \in Files
      BY PipelineConstants
    <3>2. <<f, events + 2>> \in Facts
      BY <2>4, <3>1, NewFact DEF Replace, Event
    <3>3. disk' \in [Files -> SUBSET Facts] /\ UNCHANGED broken
      BY <2>4, <3>2 DEF Replace, PipelineTypeOK
    <3> QED
      BY <2>4, <3>3, EventTypes DEF Replace, PipelineTypeOK
  <2>5. ASSUME NEW s \in Loose, RunAlone(s)
        PROVE  PipelineTypeOK'
    <3>1. IsScript(s)
      BY PipelineConstants
    <3>2. disk' \in [Files -> SUBSET Facts] /\ UNCHANGED broken
      BY <2>5, <3>1, AfterDisk DEF RunAlone, PipelineTypeOK, Disk
    <3> QED
      BY <2>5, <3>2, EventTypes DEF RunAlone, PipelineTypeOK
  <2>6. CASE Interrupt
    BY <2>6, PipelineConstants DEF Interrupt, PipelineTypeOK
  <2>7. CASE UNCHANGED vars
    BY <2>7 DEF vars, PipelineTypeOK
  <2>8. \A b \in Breaks : b[1] \in Inputs /\ {} \in SUBSET Guarantees /\ {b[2]} \in SUBSET Guarantees
    BY PipelineConstants
  <2> QED
    BY <2>1, <2>2, <2>3, <2>4, <2>5, <2>6, <2>7, <2>8 DEF Next
<1> QED
  BY <1>1, <1>2, PTL DEF PipelineSpec

-----------------------------------------------------------------------------
(* The fixpoint *)

\* Running s again would change nothing, nor would it miss a file.
Settled(s, d) ==
    /\ ~Throws(s, d)
    /\ \A f \in s.expects : Has(d, f)
    /\ WritesNow(s, d) => \A f \in DOMAIN s.writes : d[f] = Content(d, s.writes[f])
    /\ s.audits => Leaks(d) = {} /\ d[Quotes] = {}

\* The script t does not rewrite what e computed something from, and gives an
\* output of e the same content.
Respects(t, e) ==
    /\ Reads(e) \cap DOMAIN t.writes = {}
    /\ \A f \in DOMAIN e.writes \cap DOMAIN t.writes : e.writes[f] = t.writes[f]

LEMMA SettledIsFixed ==
    ASSUME NEW s, IsScript(s), NEW d \in Disk, Settled(s, d)
    PROVE  After(s, d) = d
<1>1. ASSUME NEW f \in Files
      PROVE  After(s, d)[f] = d[f]
  <2>1. CASE f = Quotes /\ s.audits
    BY <2>1 DEF After, IsScript, Settled
  <2>2. CASE ~(f = Quotes /\ s.audits) /\ f \in DOMAIN s.writes /\ WritesNow(s, d)
    <3>1. After(s, d)[f] = Content(d, s.writes[f])
      BY <2>2 DEF After
    <3> QED
      BY <2>2, <3>1 DEF Settled
  <2>3. CASE ~(f = Quotes /\ s.audits) /\ ~(f \in DOMAIN s.writes /\ WritesNow(s, d))
    BY <2>3 DEF After
  <2> QED
    BY <2>1, <2>2, <2>3
<1>2. After(s, d) = [f \in Files |-> After(s, d)[f]]
  BY DEF After
<1>3. d = [f \in Files |-> d[f]]
  BY DEF Disk
<1> QED
  BY <1>1, <1>2, <1>3

\* What a script leaves alone, and what it writes.
LEMMA AfterElsewhere ==
    ASSUME NEW t, IsScript(t), NEW d, NEW f \in Files, f # Quotes,
           f \notin DOMAIN t.writes \/ ~WritesNow(t, d)
    PROVE  After(t, d)[f] = d[f]
  BY DEF After

LEMMA AfterWritten ==
    ASSUME NEW t, IsScript(t), NEW d, NEW f \in DOMAIN t.writes, WritesNow(t, d)
    PROVE  After(t, d)[f] = Content(d, t.writes[f])
<1>1. f \in Files /\ f # Quotes
  BY DEF IsScript
<1> QED
  BY <1>1 DEF After

\* What e reads is the same after a script that respects it.
LEMMA RespectedReads ==
    ASSUME NEW e, IsScript(e), NEW t, IsScript(t), Respects(t, e), NEW d
    PROVE  /\ Throws(e, After(t, d)) <=> Throws(e, d)
           /\ \A f \in e.expects : Has(After(t, d), f) <=> Has(d, f)
           /\ WritesNow(e, After(t, d)) <=> WritesNow(e, d)
           /\ \A f \in DOMAIN e.writes :
                  Content(After(t, d), e.writes[f]) = Content(d, e.writes[f])
<1> DEFINE after == After(t, d)
<1>1. \A f \in Reads(e) : f \in Files /\ f # Quotes /\ f \notin DOMAIN t.writes
  BY DEF Respects, Reads, IsScript
<1>2. \A f \in Reads(e) : after[f] = d[f]
  BY <1>1, AfterElsewhere
<1>3. e.needs \subseteq Reads(e) /\ e.expects \subseteq Reads(e) /\ e.given \subseteq Reads(e)
  BY DEF Reads
<1>4. \A f \in DOMAIN e.writes : e.writes[f] \subseteq Reads(e)
  BY DEF Reads
<1> HIDE DEF after
<1>5. Throws(e, after) <=> Throws(e, d)
  BY <1>2, <1>3 DEF Throws, Has
<1>6. WritesNow(e, after) <=> WritesNow(e, d)
  BY <1>2, <1>3, <1>5 DEF WritesNow, Has
<1>7. \A f \in e.expects : Has(after, f) <=> Has(d, f)
  BY <1>2, <1>3 DEF Has
<1>8. ASSUME NEW f \in DOMAIN e.writes
      PROVE  Content(after, e.writes[f]) = Content(d, e.writes[f])
  <2>1. \A g \in e.writes[f] : after[g] = d[g]
    BY <1>2, <1>4
  <2> QED
    BY <2>1 DEF Content, Has
<1> QED
  BY <1>5, <1>6, <1>7, <1>8 DEF after

\* A script that passed leaves no leak in what the audit scans, if there was
\* none for it to write into its report.
LEMMA NoLeakAfter ==
    ASSUME NEW t, IsScript(t), NEW d \in Disk, Leaks(d) = {},
           t.audits \/ d[Quotes] = {}
    PROVE  Leaks(After(t, d)) = {} /\ After(t, d)[Quotes] = {}
<1> DEFINE after == After(t, d)
<1>1. Quotes \in Files /\ Scanned \subseteq Files /\ Scanned \subseteq Inputs /\ Quotes \notin Inputs
  BY PipelineConstants
<1>2. after[Quotes] = {}
  <2>1. CASE t.audits
    BY <1>1, <2>1 DEF After, IsScript
  <2>2. CASE ~t.audits /\ d[Quotes] = {}
    <3>1. Quotes \notin DOMAIN t.writes
      BY DEF IsScript
    <3> QED
      BY <1>1, <2>2, <3>1 DEF After
  <2> QED
    BY <2>1, <2>2
<1>3. ASSUME NEW f \in Scanned
      PROVE  after[f] = d[f]
  <2>1. f \in Files /\ f # Quotes
    BY <1>1
  <2>2. f \notin DOMAIN t.writes
    BY <1>1 DEF IsScript
  <2> QED
    BY <2>1, <2>2, AfterElsewhere
<1> HIDE DEF after
<1>4. Leaks(after) \subseteq Leaks(d)
  BY <1>2, <1>3 DEF Leaks
<1> QED
  BY <1>2, <1>4 DEF after

\* A script that respects a settled one keeps it settled.
LEMMA SettledStays ==
    ASSUME NEW e, IsScript(e), NEW t, IsScript(t), NEW d \in Disk,
           Respects(t, e), Settled(e, d)
    PROVE  Settled(e, After(t, d))
<1>1. ~Throws(e, After(t, d)) /\ \A f \in e.expects : Has(After(t, d), f)
  BY RespectedReads DEF Settled
<1>2. ASSUME WritesNow(e, After(t, d)), NEW f \in DOMAIN e.writes
      PROVE  After(t, d)[f] = Content(After(t, d), e.writes[f])
  <2>1. d[f] = Content(d, e.writes[f])
    BY <1>2, RespectedReads DEF Settled
  <2>2. Content(After(t, d), e.writes[f]) = Content(d, e.writes[f])
    BY RespectedReads
  <2>3. f \in Files /\ f # Quotes
    BY DEF IsScript
  <2>4. CASE f \in DOMAIN t.writes /\ WritesNow(t, d)
    <3>1. After(t, d)[f] = Content(d, t.writes[f])
      BY <2>4, AfterWritten
    <3>2. t.writes[f] = e.writes[f]
      BY <2>4 DEF Respects
    <3> QED
      BY <2>2, <3>1, <3>2
  <2>5. CASE f \notin DOMAIN t.writes \/ ~WritesNow(t, d)
    <3>1. After(t, d)[f] = d[f]
      BY <2>3, <2>5, AfterElsewhere
    <3> QED
      BY <2>1, <2>2, <3>1
  <2> QED
    BY <2>4, <2>5
<1>3. ASSUME e.audits
      PROVE  Leaks(After(t, d)) = {} /\ After(t, d)[Quotes] = {}
  <2>1. Leaks(d) = {} /\ d[Quotes] = {}
    BY <1>3 DEF Settled
  <2> QED
    BY <2>1, NoLeakAfter
<1> QED
  BY <1>1, <1>2, <1>3 DEF Settled

\* A script that passed and does not rewrite what it reads is settled.
LEMMA SettledOnce ==
    ASSUME NEW t, IsScript(t), NEW d \in Disk, Respects(t, t), Passes(t, d)
    PROVE  Settled(t, After(t, d))
<1>1. ~Throws(t, After(t, d)) /\ \A f \in t.expects : Has(After(t, d), f)
  BY RespectedReads DEF Passes
<1>2. ASSUME WritesNow(t, After(t, d)), NEW f \in DOMAIN t.writes
      PROVE  After(t, d)[f] = Content(After(t, d), t.writes[f])
  <2>1. WritesNow(t, d) /\ Content(After(t, d), t.writes[f]) = Content(d, t.writes[f])
    BY <1>2, RespectedReads
  <2> QED
    BY <2>1, AfterWritten
<1>3. ASSUME t.audits
      PROVE  Leaks(After(t, d)) = {} /\ After(t, d)[Quotes] = {}
  <2>1. Leaks(d) = {}
    BY <1>3 DEF Passes
  <2> QED
    BY <1>3, <2>1, NoLeakAfter
<1> QED
  BY <1>1, <1>2, <1>3 DEF Settled

-----------------------------------------------------------------------------
(* Runs nobody disturbs *)

\* A run of m that nobody has disturbed has passed i scripts: it is going on,
\* or it was green.
Past(m, i) ==
    /\ touched = "no"
    /\ \/ run = [mode |-> m, at |-> i + 1]
       \/ Green(m) /\ i = Len(Chains[m])

\* It has just started, it stands still, or it has passed one more script.
LEMMA UndisturbedStep ==
    ASSUME PipelineTypeOK, [Next]_vars, NEW m \in Modes, NEW i \in 0 .. Len(Chains[m]), Past(m, i)'
    PROVE  \/ i = 0 /\ UNCHANGED <<disk, broken>>
           \/ Past(m, i) /\ UNCHANGED <<disk, broken>>
           \/ /\ i \in 1 .. Len(Chains[m]) /\ Past(m, i - 1)
              /\ Passes(Chains[m][i], disk)
              /\ disk' = After(Chains[m][i], disk) /\ UNCHANGED broken
<1>0. touched' = "no" /\ m # "none" /\ Len(Chains[m]) \in Nat
  BY PipelineConstants, ChainLength DEF Past
<1>1. CASE \E k \in Modes : Start(k)
  <2> PICK k \in Modes : Start(k)
    BY <1>1
  <2>1. run' = [mode |-> k, at |-> 1] /\ last' = NoVerdict /\ UNCHANGED <<disk, broken>>
    BY DEF Start
  <2>2. ~ Green(m)'
    BY <2>1 DEF Green, NoVerdict
  <2>3. run'.at = i + 1
    BY <2>2 DEF Past
  <2> QED BY <2>1, <2>3
<1>2. CASE Step
  <2> DEFINE s == Chains[run.mode][run.at]
  <2>1. /\ run.mode \in Modes /\ run.at \in 1 .. Len(Chains[run.mode])
        /\ run = [mode |-> run.mode, at |-> run.at]
        /\ disk' = After(s, disk) /\ UNCHANGED <<broken, touched>>
    BY <1>2 DEF PipelineTypeOK, Step
  <2>2. Len(Chains[run.mode]) \in Nat
    BY <2>1, ChainLength
  <2>3. CASE Passes(s, disk) /\ ~ AtEnd /\ run' = [run EXCEPT !.at = @ + 1]
    <3>1. run' = [mode |-> run.mode, at |-> run.at + 1] /\ run' # Idle
      BY <2>1, <2>3, PipelineConstants DEF Idle
    <3>2. run.mode = m /\ run.at + 1 = i + 1
      BY <3>1 DEF Past, Green
    <3>3. i = run.at /\ run = [mode |-> m, at |-> i - 1 + 1]
      BY <2>1, <3>2
    <3> QED BY <1>0, <2>1, <2>3, <3>2, <3>3 DEF Past
  <2>4. CASE Passes(s, disk) /\ AtEnd /\ run' = Idle /\ last' = [mode |-> run.mode, green |-> TRUE]
    <3>1. run.mode = m /\ i = Len(Chains[m])
      BY <1>0, <2>4 DEF Past, Green, Idle
    <3>2. run.at = i /\ run = [mode |-> m, at |-> i - 1 + 1]
      BY <2>1, <2>2, <2>4, <3>1 DEF AtEnd
    <3> QED BY <1>0, <2>1, <2>4, <3>1, <3>2 DEF Past
  <2>5. CASE run' = Idle /\ last' = [mode |-> run.mode, green |-> FALSE]
    BY <1>0, <2>5 DEF Past, Green, Idle
  <2> QED BY <1>2, <2>3, <2>4, <2>5 DEF Step
<1>3. CASE Event \/ Interrupt
  BY <1>0, <1>3 DEF Event, Interrupt
<1>4. CASE UNCHANGED vars
  BY <1>4 DEF vars, Past, Green
<1> QED BY <1>1, <1>2, <1>3, <1>4 DEF Next, Edit, Replace, RunAlone

\* Nothing is undisturbed before the first run.
LEMMA NothingPast == Init => \A m \in Modes, i \in Nat : ~ Past(m, i)
<1>1. Init => run = Idle /\ last.green = FALSE
  BY DEF Init, NoVerdict
<1>2. "none" \notin Modes
  BY PipelineConstants
<1> QED BY <1>1, <1>2 DEF Past, Green, Idle

\* A green run that nobody disturbed is past its chain.
LEMMA GreenIsPast ==
    ASSUME NEW m \in Modes, Green(m), touched = "no"
    PROVE  Past(m, Len(Chains[m]))
  BY DEF Past

-----------------------------------------------------------------------------
(* The fixpoint of the whole chain *)

\* Every script a run is past is settled.
SettledSoFar ==
    \A m \in Modes : \A i \in 0 .. Len(Chains[m]) :
        Past(m, i) => \A j \in 1 .. i : Settled(Chains[m][j], disk)

\* A script that passes is settled after it, with those before it.
LEMMA PassSettles ==
    ASSUME NEW m \in Modes, InOrder(m), NEW d \in Disk, NEW i \in 1 .. Len(Chains[m]),
           \A j \in 1 .. i - 1 : Settled(Chains[m][j], d), Passes(Chains[m][i], d)
    PROVE  \A j \in 1 .. i : Settled(Chains[m][j], After(Chains[m][i], d))
<1> SUFFICES ASSUME NEW j \in 1 .. i
             PROVE  Settled(Chains[m][j], After(Chains[m][i], d))
  OBVIOUS
<1>1. Len(Chains[m]) \in Nat /\ j \in 1 .. Len(Chains[m])
  BY ChainLength
<1>2. IsScript(Chains[m][i]) /\ IsScript(Chains[m][j])
  BY <1>1, ChainedScript
<1>3. Respects(Chains[m][i], Chains[m][j])
  BY DEF InOrder, Positions, Respects
<1>4. CASE j = i
  BY <1>2, <1>3, <1>4, SettledOnce
<1>5. CASE j # i
  <2>1. j \in 1 .. i - 1
    BY <1>1, <1>5
  <2> QED BY <1>2, <1>3, <2>1, SettledStays
<1> QED BY <1>4, <1>5

LEMMA SettledAlong ==
    ASSUME \A m \in Modes : InOrder(m)
    PROVE  PipelineSpec => []SettledSoFar
<1>1. Init => SettledSoFar
  <2>1. \A m \in Modes : \A i \in 0 .. Len(Chains[m]) : i \in Nat
    BY ChainLength
  <2> QED BY <2>1, NothingPast DEF SettledSoFar
<1>2. PipelineTypeOK /\ SettledSoFar /\ [Next]_vars => SettledSoFar'
  <2> SUFFICES ASSUME PipelineTypeOK, SettledSoFar, [Next]_vars,
                      NEW m \in Modes, NEW i \in 0 .. Len(Chains[m]), Past(m, i)',
                      NEW j \in 1 .. i
               PROVE  Settled(Chains[m][j], disk)'
    BY DEF SettledSoFar
  <2>1. CASE Past(m, i) /\ UNCHANGED <<disk, broken>>
    BY <2>1 DEF SettledSoFar, Settled, Leaks
  <2>2. CASE /\ i \in 1 .. Len(Chains[m]) /\ Past(m, i - 1) /\ Passes(Chains[m][i], disk)
             /\ disk' = After(Chains[m][i], disk) /\ UNCHANGED broken
    <3>1. i - 1 \in 0 .. Len(Chains[m])
      BY <2>2
    <3>2. disk \in Disk /\ \A k \in 1 .. i - 1 : Settled(Chains[m][k], disk)
      BY <2>2, <3>1 DEF SettledSoFar, PipelineTypeOK, Disk
    <3>3. Settled(Chains[m][j], disk')
      BY <2>2, <3>2, PassSettles
    <3> QED BY <2>2, <3>3 DEF Settled, Leaks
  <2> QED BY <2>1, <2>2, UndisturbedStep
<1> QED
  BY <1>1, <1>2, PipelineTypeCorrect, PTL DEF PipelineSpec

\* The order of the chains is what makes a green run a fixpoint.
THEOREM FixpointFromOrder ==
    ASSUME \A m \in Modes : InOrder(m)
    PROVE  PipelineSpec => []GreenIsFixpoint
<1>1. PipelineTypeOK /\ SettledSoFar => GreenIsFixpoint
  <2> SUFFICES ASSUME PipelineTypeOK, SettledSoFar,
                      NEW m \in Modes, Green(m), touched = "no", NEW i \in DOMAIN Chains[m]
               PROVE  After(Chains[m][i], disk) = disk
    BY DEF GreenIsFixpoint
  <2>1. i \in 1 .. Len(Chains[m]) /\ Len(Chains[m]) \in 0 .. Len(Chains[m])
    <3>1. Chains[m] \in Seq(Chained)
      BY PipelineConstants
    <3> QED
      BY <3>1
  <2>2. Settled(Chains[m][i], disk)
    BY <2>1, GreenIsPast DEF SettledSoFar
  <2>3. IsScript(Chains[m][i]) /\ disk \in Disk
    BY <2>1, ChainedScript DEF PipelineTypeOK, Disk
  <2> QED
    BY <2>2, <2>3, SettledIsFixed
<1> QED
  BY <1>1, SettledAlong, PipelineTypeCorrect, PTL

-----------------------------------------------------------------------------
(* The manifest *)

\* The last script of an audited run is green only if every hash matches, and
\* the hashes and the figures are after it what they were before.
LEMMA AuditedStep ==
    ASSUME AuditIsLast, PipelineTypeOK, Step, AtEnd, run.mode \in Audited,
           Passes(Current, disk)
    PROVE  \A h \in Manifest : Has(disk', h[1]) => disk'[h[1]] = disk'[h[2]]
<1> DEFINE m == run.mode
<1>1. m \in Modes /\ run.at \in 1 .. Len(Chains[m])
  BY DEF PipelineTypeOK, Step
<1>2. run.at = Len(Chains[m])
  BY <1>1, ChainLength DEF AtEnd
<1>3. /\ Current.matches = Manifest
      /\ \A h \in Manifest : {h[1], h[2]} \cap (DOMAIN Current.writes \cup {Quotes}) = {}
  BY <1>2 DEF AuditIsLast, Current
<1>4. IsScript(Current)
  BY <1>1, ChainedScript DEF Current
<1>5. disk' = After(Current, disk)
  BY DEF Step, Current
<1> SUFFICES ASSUME NEW h \in Manifest
             PROVE  Has(disk', h[1]) => disk'[h[1]] = disk'[h[2]]
  OBVIOUS
<1>6. h[1] \in Files /\ h[2] \in Files
  BY PipelineConstants
<1>7. disk'[h[1]] = disk[h[1]] /\ disk'[h[2]] = disk[h[2]]
  BY <1>3, <1>4, <1>5, <1>6, AfterElsewhere
<1>8. Has(disk, h[1]) => disk[h[1]] = disk[h[2]]
  BY <1>3 DEF Passes, HashesMatch
<1> QED
  BY <1>7, <1>8 DEF Has

\* A green run that ends with the evidence check leaves every figure with its
\* recorded hash until somebody writes, whoever wrote during the run.
THEOREM ManifestHolds ==
    ASSUME AuditIsLast
    PROVE  PipelineSpec => []GreenMatchesManifest
<1>1. Init => GreenMatchesManifest
  <2>1. Init => last.green = FALSE
    BY DEF Init, NoVerdict
  <2> QED
    BY <2>1 DEF GreenMatchesManifest, Green
<1>2. PipelineTypeOK /\ GreenMatchesManifest /\ [Next]_vars => GreenMatchesManifest'
  <2> SUFFICES ASSUME PipelineTypeOK, GreenMatchesManifest, [Next]_vars
               PROVE  GreenMatchesManifest'
    OBVIOUS
  <2>1. CASE \E m \in Modes : Start(m)
    <3>1. last'.green = FALSE
      BY <2>1 DEF Start, NoVerdict
    <3> QED
      BY <3>1 DEF GreenMatchesManifest, Green
  <2>2. CASE Step
    <3>1. CASE AtEnd /\ Passes(Current, disk) /\ run.mode \in Audited
      BY <2>2, <3>1, AuditedStep DEF GreenMatchesManifest
    <3>2. CASE AtEnd /\ Passes(Current, disk) /\ run.mode \notin Audited
      <4>1. last' = [mode |-> run.mode, green |-> TRUE]
        BY <2>2, <3>2 DEF Step, Current
      <4> QED
        BY <3>2, <4>1 DEF GreenMatchesManifest, Green
    <3>3. CASE ~Passes(Current, disk)
      <4>1. last'.green = FALSE
        BY <2>2, <3>3 DEF Step, Current
      <4> QED
        BY <4>1 DEF GreenMatchesManifest, Green
    <3>4. CASE ~AtEnd /\ Passes(Current, disk)
      <4>1. run' = [run EXCEPT !.at = @ + 1]
        BY <2>2, <3>4 DEF Step, Current
      <4>2. run.mode \in Modes /\ run = [mode |-> run.mode, at |-> run.at]
        BY <2>2 DEF PipelineTypeOK, Step
      <4>3. run'.mode \in Modes
        BY <4>1, <4>2
      <4>4. run' # Idle
        BY <4>3, PipelineConstants DEF Idle
      <4> QED
        BY <4>4 DEF GreenMatchesManifest, Green
    <3> QED
      BY <3>1, <3>2, <3>3, <3>4
  <2>3. CASE Event
    BY <2>3 DEF Event, GreenMatchesManifest, Green
  <2>4. CASE Interrupt
    BY <2>4 DEF Interrupt, GreenMatchesManifest, Green
  <2>5. CASE UNCHANGED vars
    BY <2>5 DEF vars, GreenMatchesManifest, Green
  <2> QED
    BY <2>1, <2>2, <2>3, <2>4, <2>5 DEF Next, Edit, Replace, RunAlone
<1> QED
  BY <1>1, <1>2, PipelineTypeCorrect, PTL DEF PipelineSpec
=============================================================================
