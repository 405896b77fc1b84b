----------------------- MODULE ReproductionFlow_proofs -----------------------
(***************************************************************************)
(* What the conditions of ReproductionFlow imply for PipelineSpec, for any *)
(* scripts, any number of runs and any number of edits:                    *)
(*                                                                         *)
(*   GatesStayGreen        Vouches   gives GreenStaysGreen                 *)
(*   PublicationsCurrent   Refreshes gives PublishedIsCurrent              *)
(*   NumbersMeasured       Measures  gives NoHandTypedNumbers              *)
(*   FullRunsSound         Exposes   gives GreenFullIsSound                *)
(*                                                                         *)
(* Each is an induction over the scripts a run nobody disturbs is past     *)
(* (Past): a label of a labelling is a claim about the disk at that point, *)
(* and CleanKept, StaysThere and ShowsKept say that a script that passes   *)
(* takes the label before it to the label after it.  What the labels start *)
(* from holds in every state, whoever has written before the run.          *)
(***************************************************************************)
EXTENDS ReproductionPipeline_proofs

-----------------------------------------------------------------------------
(* One script.                                                              *)

\* What CleanAfter says of a script that does not throw, for facts Bad.
LEMMA CleanKept ==
    ASSUME NEW s, IsScript(s), NEW d, ~ Throws(s, d), NEW known, NEW absent, NEW Bad,
           \A f \in known : d[f] \cap Bad = {},
           \A f \in Files : ~ Has(d, f) /\ <<f, 0>> \in Bad => f \in absent
    PROVE  \A f \in CleanAfter(s, known, absent) : After(s, d)[f] \cap Bad = {}
<1> SUFFICES ASSUME NEW f \in CleanAfter(s, known, absent)
             PROVE  After(s, d)[f] \cap Bad = {}
  OBVIOUS
<1>1. /\ f \in Files /\ f # Quotes
      /\ f \notin DOMAIN s.writes \/ s.given # {} => f \in known
      /\ f \in DOMAIN s.writes => s.writes[f] \subseteq known /\ s.writes[f] \cap absent \subseteq s.needs
  BY DEF CleanAfter
<1>2. CASE f \in DOMAIN s.writes /\ WritesNow(s, d)
  <2>1. After(s, d)[f] = Content(d, s.writes[f])
    BY <1>2, AfterWritten
  <2>2. ASSUME NEW h \in s.writes[f]
        PROVE  (IF Has(d, h) THEN d[h] ELSE {<<h, 0>>}) \cap Bad = {}
    <3>1. h \in Files /\ h \in known
      BY <1>1, <1>2 DEF IsScript
    <3>2. ~ Has(d, h) => <<h, 0>> \notin Bad
      BY <1>1, <1>2, <3>1 DEF Throws
    <3> QED BY <3>1, <3>2
  <2> QED BY <2>1, <2>2 DEF Content
<1>3. CASE f \notin DOMAIN s.writes \/ ~ WritesNow(s, d)
  <2>1. After(s, d)[f] = d[f]
    BY <1>1, <1>3, AfterElsewhere
  <2>2. f \in known
    BY <1>1, <1>3 DEF WritesNow
  <2> QED BY <2>1, <2>2
<1> QED BY <1>2, <1>3

\* A file that is there is not emptied by a script.
LEMMA StaysThere ==
    ASSUME NEW s, IsScript(s), NEW d, NEW f \in Files \ {Quotes},
           Has(d, f) \/ (f \in DOMAIN s.writes /\ WritesNow(s, d))
    PROVE  Has(After(s, d), f)
<1>1. CASE f \in DOMAIN s.writes /\ WritesNow(s, d)
  <2>1. After(s, d)[f] = Content(d, s.writes[f])
    BY <1>1, AfterWritten
  <2>2. PICK h \in s.writes[f] : TRUE
    BY <1>1 DEF IsScript
  <2>3. PICK fact \in (IF Has(d, h) THEN d[h] ELSE {<<h, 0>>}) : TRUE
    BY DEF Has
  <2>4. fact \in Content(d, s.writes[f])
    BY <2>2, <2>3 DEF Content
  <2> QED BY <2>1, <2>4 DEF Has
<1>2. CASE Has(d, f) /\ (f \notin DOMAIN s.writes \/ ~ WritesNow(s, d))
  BY <1>2, AfterElsewhere DEF Has
<1> QED BY <1>1, <1>2

\* No script writes an input.
LEMMA InputsKept ==
    ASSUME NEW s, IsScript(s), NEW d, NEW f \in Inputs
    PROVE  After(s, d)[f] = d[f]
<1>1. f \in Files /\ f # Quotes /\ f \notin DOMAIN s.writes
  BY PipelineConstants DEF IsScript
<1> QED BY <1>1, AfterElsewhere

\* What ShowsAfter says of a script that does not throw.
LEMMA ShowsKept ==
    ASSUME NEW s, IsScript(s), NEW d, ~ Throws(s, d), NEW shows,
           \A p \in shows : d[p[1]] \subseteq d[p[2]]
    PROVE  \A p \in ShowsAfter(s, shows) : After(s, d)[p[1]] \subseteq After(s, d)[p[2]]
<1> SUFFICES ASSUME NEW p \in ShowsAfter(s, shows)
             PROVE  After(s, d)[p[1]] \subseteq After(s, d)[p[2]]
  OBVIOUS
<1>1. /\ p[1] \in Inputs /\ p[2] \in Files /\ p[2] # Quotes
      /\ p[2] \notin DOMAIN s.writes \/ s.given # {} => p \in shows
      /\ p[2] \in DOMAIN s.writes => \E h \in s.writes[p[2]] : <<p[1], h>> \in shows
  BY DEF ShowsAfter
<1>2. After(s, d)[p[1]] = d[p[1]]
  BY <1>1, InputsKept
<1>3. CASE p[2] \in DOMAIN s.writes /\ WritesNow(s, d)
  <2>1. After(s, d)[p[2]] = Content(d, s.writes[p[2]])
    BY <1>3, AfterWritten
  <2>2. PICK h \in s.writes[p[2]] : <<p[1], h>> \in shows
    BY <1>1, <1>3
  <2>3. d[p[1]] \subseteq d[h]
    BY <2>2
  <2>4. d[h] \subseteq Content(d, s.writes[p[2]])
    BY <2>2 DEF Content, Has
  <2> QED BY <1>2, <2>1, <2>3, <2>4
<1>4. CASE p[2] \notin DOMAIN s.writes \/ ~ WritesNow(s, d)
  <2>1. After(s, d)[p[2]] = d[p[2]]
    BY <1>1, <1>4, AfterElsewhere
  <2>2. p \in shows
    BY <1>1, <1>4 DEF WritesNow
  <2> QED BY <1>2, <2>1, <2>2
<1> QED BY <1>3, <1>4

-----------------------------------------------------------------------------
(* What holds whoever writes.                                               *)

\* A step leaves the disk alone, executes a script, or gives one file, not the
\* audit's report, a new version; a version of an input breaks what Breaks has.
LEMMA DiskMoves ==
    ASSUME PipelineTypeOK, [Next]_vars
    PROVE  \/ UNCHANGED <<disk, broken>>
           \/ UNCHANGED broken /\ \E s \in Chained \cup Loose :
                 IsScript(s) /\ disk' = After(s, disk)
           \/ \E f \in Files \ {Quotes} : \E gs \in SUBSET Guarantees :
                 /\ disk' = [disk EXCEPT ![f] = {<<f, events + 2>>}]
                 /\ broken' = broken \cup ({<<f, events + 2>>} \X gs)
                 /\ f \in Inputs \/ f \in Touchable
                 /\ \A g \in gs : <<f, g>> \in Breaks
<1>1. CASE (\E m \in Modes : Start(m)) \/ Interrupt \/ UNCHANGED vars
  BY <1>1 DEF Start, Interrupt, vars
<1>2. CASE Step
  <2>1. run.mode \in Modes /\ run.at \in 1 .. Len(Chains[run.mode])
    BY <1>2 DEF PipelineTypeOK, Step
  <2>2. Current \in Chained /\ IsScript(Current)
    BY <2>1, ChainedScript DEF Current
  <2> QED BY <1>2, <2>2 DEF Step, Current
<1>3. ASSUME NEW s \in Loose, RunAlone(s)
      PROVE  UNCHANGED broken /\ IsScript(s) /\ disk' = After(s, disk)
  BY <1>3, PipelineConstants DEF RunAlone
<1>4. ASSUME NEW f \in Touchable, Replace(f)
      PROVE  /\ f \in Files \ {Quotes}
             /\ disk' = [disk EXCEPT ![f] = {<<f, events + 2>>}]
             /\ broken' = broken \cup ({<<f, events + 2>>} \X {})
  BY <1>4, PipelineConstants DEF Replace
<1>5. ASSUME NEW b \in Breaks, NEW gs \in SUBSET {b[2]}, Edit(b[1], gs)
      PROVE  /\ b[1] \in Files \ {Quotes} /\ b[1] \in Inputs /\ gs \in SUBSET Guarantees
             /\ disk' = [disk EXCEPT ![b[1]] = {<<b[1], events + 2>>}]
             /\ broken' = broken \cup ({<<b[1], events + 2>>} \X gs)
             /\ \A g \in gs : <<b[1], g>> \in Breaks
  <2>1. b[1] \in Inputs /\ b[2] \in Guarantees /\ <<b[1], b[2]>> \in Breaks
    BY PipelineConstants
  <2> QED BY <1>5, <2>1, PipelineConstants DEF Edit
<1>6. CASE \E b \in Breaks : Edit(b[1], {}) \/ Edit(b[1], {b[2]})
  <2>1. PICK b \in Breaks : \E gs \in SUBSET {b[2]} : Edit(b[1], gs)
    BY <1>6
  <2>2. PICK gs \in SUBSET {b[2]} : Edit(b[1], gs)
    BY <2>1
  <2> QED BY <1>5, <2>2
<1> QED BY <1>1, <1>2, <1>3, <1>4, <1>6 DEF Next

\* A version that breaks something was written by an edit that may break it.
BrokenByEdits ==
    \A p \in broken : p[1][2] >= 2 /\ <<p[1][1], p[2]>> \in Breaks

\* The audit quotes leaks only.
QuotesAreLeaks == \A fact \in disk[Quotes] : <<fact, Leak>> \in broken

\* An input shows a version of itself, and one that was there stays.
InputsShowThemselves ==
    /\ \A f \in Inputs : \A fact \in disk[f] : fact[1] = f
    /\ \A f \in Replayed : Has(disk, f)

\* Nothing of R is in the files of apart.
KeptApart(apart, R) == \A f \in apart : \A fact \in disk[f] : fact[1] \notin R

LEMMA BrokenAlways == PipelineSpec => []BrokenByEdits
<1>1. Init => BrokenByEdits
  BY DEF Init, BrokenByEdits
<1>2. PipelineTypeOK /\ BrokenByEdits /\ [Next]_vars => BrokenByEdits'
  <2> SUFFICES ASSUME PipelineTypeOK, BrokenByEdits, [Next]_vars PROVE BrokenByEdits'
    OBVIOUS
  <2>1. CASE UNCHANGED broken
    BY <2>1 DEF BrokenByEdits
  <2>2. ASSUME NEW f \in Files, NEW gs \in SUBSET Guarantees,
               broken' = broken \cup ({<<f, events + 2>>} \X gs),
               \A g \in gs : <<f, g>> \in Breaks
        PROVE  BrokenByEdits'
    <3>1. events + 2 >= 2
      BY DEF PipelineTypeOK
    <3>2. ASSUME NEW p \in broken'
          PROVE  p[1][2] >= 2 /\ <<p[1][1], p[2]>> \in Breaks
      <4>1. CASE p \in broken
        BY <4>1 DEF BrokenByEdits
      <4>2. CASE p \in {<<f, events + 2>>} \X gs
        <5>1. p[1] = <<f, events + 2>> /\ p[2] \in gs
          BY <4>2
        <5> QED BY <2>2, <3>1, <5>1
      <4> QED BY <2>2, <3>2, <4>1, <4>2
    <3> QED BY <3>2 DEF BrokenByEdits
  <2> QED BY <2>1, <2>2, DiskMoves
<1> QED BY <1>1, <1>2, PipelineTypeCorrect, PTL DEF PipelineSpec

LEMMA QuotesAlways == PipelineSpec => []QuotesAreLeaks
<1>1. Init => QuotesAreLeaks
  BY PipelineConstants DEF Init, QuotesAreLeaks
<1>2. PipelineTypeOK /\ QuotesAreLeaks /\ [Next]_vars => QuotesAreLeaks'
  <2> SUFFICES ASSUME PipelineTypeOK, QuotesAreLeaks, [Next]_vars PROVE QuotesAreLeaks'
    OBVIOUS
  <2>0. Quotes \in Files
    BY PipelineConstants
  <2>1. CASE UNCHANGED <<disk, broken>>
    BY <2>1 DEF QuotesAreLeaks
  <2>2. ASSUME NEW s, IsScript(s), disk' = After(s, disk), UNCHANGED broken
        PROVE  QuotesAreLeaks'
    <3>1. disk'[Quotes] = IF s.audits THEN Leaks(disk) ELSE disk[Quotes]
      BY <2>0, <2>2 DEF After, IsScript
    <3> QED BY <2>2, <3>1 DEF QuotesAreLeaks, Leaks
  <2>3. ASSUME NEW f \in Files \ {Quotes}, NEW v, NEW more,
               disk' = [disk EXCEPT ![f] = {<<f, v>>}], broken' = broken \cup more
        PROVE  QuotesAreLeaks'
    <3>1. disk'[Quotes] = disk[Quotes]
      BY <2>0, <2>3 DEF PipelineTypeOK
    <3> QED BY <2>3, <3>1 DEF QuotesAreLeaks
  <2> QED BY <2>1, <2>2, <2>3, DiskMoves
<1> QED BY <1>1, <1>2, PipelineTypeCorrect, PTL DEF PipelineSpec

LEMMA InputsAlways ==
    ASSUME InputsAreThere
    PROVE  PipelineSpec => []InputsShowThemselves
<1>1. Init => InputsShowThemselves
  BY DEF Init, InputsAreThere, InputsShowThemselves, Has
<1>2. PipelineTypeOK /\ InputsShowThemselves /\ [Next]_vars => InputsShowThemselves'
  <2> SUFFICES ASSUME PipelineTypeOK, InputsShowThemselves, [Next]_vars
               PROVE  InputsShowThemselves'
    OBVIOUS
  <2>0. Inputs \subseteq Files /\ Replayed \subseteq Inputs
    BY PipelineConstants
  <2>1. CASE UNCHANGED <<disk, broken>>
    BY <2>1 DEF InputsShowThemselves, Has
  <2>2. ASSUME NEW s, IsScript(s), disk' = After(s, disk) PROVE InputsShowThemselves'
    BY <2>0, <2>2, InputsKept DEF InputsShowThemselves, Has
  <2>3. ASSUME NEW f \in Files \ {Quotes}, NEW v, disk' = [disk EXCEPT ![f] = {<<f, v>>}]
        PROVE  InputsShowThemselves'
    <3>1. \A h \in Files : disk'[h] = disk[h] \/ (h = f /\ disk'[h] = {<<f, v>>})
      BY <2>3 DEF PipelineTypeOK
    <3>2. \A h \in Inputs : \A fact \in disk'[h] : fact[1] = h
      BY <2>0, <3>1 DEF InputsShowThemselves
    <3>3. \A h \in Replayed : disk'[h] # {}
      BY <2>0, <3>1 DEF InputsShowThemselves, Has
    <3> QED BY <3>2, <3>3 DEF InputsShowThemselves, Has
  <2> QED BY <2>1, <2>2, <2>3, DiskMoves
<1> QED BY <1>1, <1>2, PipelineTypeCorrect, PTL DEF PipelineSpec

LEMMA ApartKept ==
    ASSUME NEW apart, NEW R, StayApart(apart, R)
    PROVE  /\ Init => KeptApart(apart, R)
           /\ PipelineTypeOK /\ KeptApart(apart, R) /\ [Next]_vars => KeptApart(apart, R)'
<1>0. /\ apart \subseteq Files \ {Quotes} /\ apart \cap R = {}
      /\ \A f \in apart : \A fact \in Committed[f] : fact[1] \notin R
      /\ \A s \in Chained \cup Loose : \A f \in DOMAIN s.writes \cap apart : s.writes[f] \subseteq apart
  BY DEF StayApart
<1>1. Init => KeptApart(apart, R)
  BY <1>0 DEF Init, KeptApart
<1>2. PipelineTypeOK /\ KeptApart(apart, R) /\ [Next]_vars => KeptApart(apart, R)'
  <2> SUFFICES ASSUME PipelineTypeOK, KeptApart(apart, R), [Next]_vars
               PROVE  KeptApart(apart, R)'
    OBVIOUS
  <2>1. CASE UNCHANGED <<disk, broken>>
    BY <2>1 DEF KeptApart
  <2>2. ASSUME NEW s \in Chained \cup Loose, IsScript(s), disk' = After(s, disk),
               NEW f \in apart, NEW fact \in disk'[f]
        PROVE  fact[1] \notin R
    <3>1. CASE f \in DOMAIN s.writes /\ WritesNow(s, disk)
      <4>1. disk'[f] = Content(disk, s.writes[f]) /\ s.writes[f] \subseteq apart
        BY <1>0, <2>2, <3>1, AfterWritten
      <4>2. PICK h \in s.writes[f] : fact \in (IF Has(disk, h) THEN disk[h] ELSE {<<h, 0>>})
        BY <2>2, <4>1 DEF Content
      <4> QED BY <1>0, <4>1, <4>2 DEF KeptApart
    <3>2. CASE f \notin DOMAIN s.writes \/ ~ WritesNow(s, disk)
      <4>1. disk'[f] = disk[f]
        BY <1>0, <2>2, <3>2, AfterElsewhere
      <4> QED BY <2>2, <4>1 DEF KeptApart
    <3> QED BY <3>1, <3>2
  <2>3. ASSUME NEW f \in Files \ {Quotes}, NEW v, disk' = [disk EXCEPT ![f] = {<<f, v>>}]
        PROVE  KeptApart(apart, R)'
    <3>1. \A h \in Files : disk'[h] = disk[h] \/ (h = f /\ disk'[h] = {<<f, v>>})
      BY <2>3 DEF PipelineTypeOK
    <3> QED BY <1>0, <3>1 DEF KeptApart
  <2>4. CASE \E s \in Chained \cup Loose : IsScript(s) /\ disk' = After(s, disk)
    BY <2>2, <2>4 DEF KeptApart
  <2> QED BY <2>1, <2>3, <2>4, DiskMoves
<1> QED BY <1>1, <1>2

-----------------------------------------------------------------------------
(* Gates stay green *)

\* What is vouched for so far breaks nothing it is vouched for.
VouchedSoFar(V) ==
    \A m \in Modes : \A i \in 0 .. Len(Chains[m]) :
        Past(m, i) => \A p \in V[m][i] : \A fact \in disk[p[1]] : <<fact, p[2]>> \notin broken

\* The hashes that were compared so far match.
MatchedSoFar ==
    \A m \in Modes : \A i \in 0 .. Len(Chains[m]) :
        Past(m, i) => \A j \in 1 .. i : HashesMatch(Chains[m][j], disk)

\* A script that passes keeps what is vouched for, and adds what it judged.
LEMMA VouchKept ==
    ASSUME BrokenByEdits, NEW s, IsScript(s), Passes(s, disk), NEW known,
           \A p \in known : \A fact \in disk[p[1]] : <<fact, p[2]>> \notin broken
    PROVE  \A p \in VouchedAfter(s, known) :
               \A fact \in After(s, disk)[p[1]] : <<fact, p[2]>> \notin broken
<1>0. SUFFICES ASSUME NEW g \in Guarantees,
                      NEW f \in CleanAfter(s, {h \in Files : <<h, g>> \in known \cup s.judges}, {}),
                      NEW fact \in After(s, disk)[f], <<fact, g>> \in broken
               PROVE  FALSE
  <2> SUFFICES ASSUME NEW p \in VouchedAfter(s, known),
                      NEW fact \in After(s, disk)[p[1]], <<fact, p[2]>> \in broken
               PROVE  FALSE
    OBVIOUS
  <2>1. PICK g \in Guarantees :
            p \in CleanAfter(s, {h \in Files : <<h, g>> \in known \cup s.judges}, {}) \X {g}
    BY DEF VouchedAfter
  <2>2. p[2] = g /\ p[1] \in CleanAfter(s, {h \in Files : <<h, g>> \in known \cup s.judges}, {})
    BY <2>1
  <2> QED BY <2>2
<1> DEFINE Bad == {b \in {p[1] : p \in broken} : <<b, g>> \in broken}
<1> DEFINE judged == {h \in Files : <<h, g>> \in known \cup s.judges}
<1>1. ~ Throws(s, disk)
  BY DEF Passes
<1>2. \A h \in judged : disk[h] \cap Bad = {}
  <2> SUFFICES ASSUME NEW h \in judged, NEW b \in disk[h], <<b, g>> \in broken
               PROVE  FALSE
    OBVIOUS
  <2>1. CASE <<h, g>> \in known
    BY <2>1
  <2>2. CASE <<h, g>> \in s.judges
    BY <2>2 DEF Passes
  <2> QED BY <2>1, <2>2
<1>3. ASSUME NEW h \in Files, <<h, 0>> \in Bad
      PROVE  FALSE
  <2>1. <<<<h, 0>>, g>> \in broken
    BY <1>3
  <2>2. <<<<h, 0>>, g>>[1][2] >= 2
    BY <2>1 DEF BrokenByEdits
  <2> QED BY <2>2
<1>4. fact \in Bad
  <2>1. <<fact, g>>[1] = fact
    OBVIOUS
  <2> QED BY <1>0, <2>1
<1> HIDE DEF Bad, judged
<1>5. \A h \in CleanAfter(s, judged, {}) : After(s, disk)[h] \cap Bad = {}
  BY <1>1, <1>2, <1>3, CleanKept
<1> QED BY <1>4, <1>5 DEF judged

\* A script that passes leaves the hashes alone that were compared with a file.
LEMMA MatchKept ==
    ASSUME NEW m \in Modes, HashesComeLast(m), NEW i \in 1 .. Len(Chains[m]), NEW j \in 1 .. i,
           NEW d, HashesMatch(Chains[m][j], d)
    PROVE  HashesMatch(Chains[m][j], After(Chains[m][i], d))
<1>1. Len(Chains[m]) \in Nat /\ j \in 1 .. Len(Chains[m])
  BY ChainLength
<1>2. IsScript(Chains[m][i]) /\ IsScript(Chains[m][j])
  BY <1>1, ChainedScript
<1> SUFFICES ASSUME NEW h \in Chains[m][j].matches
             PROVE  Has(After(Chains[m][i], d), h[1]) =>
                        After(Chains[m][i], d)[h[1]] = After(Chains[m][i], d)[h[2]]
  BY DEF HashesMatch
<1>3. h[1] \in Files /\ h[2] \in Files
  BY <1>2 DEF IsScript
<1>4. {h[1], h[2]} \cap (DOMAIN Chains[m][i].writes \cup {Quotes}) = {}
  BY DEF HashesComeLast, Positions
<1>5. After(Chains[m][i], d)[h[1]] = d[h[1]] /\ After(Chains[m][i], d)[h[2]] = d[h[2]]
  BY <1>2, <1>3, <1>4, AfterElsewhere
<1> QED BY <1>5 DEF HashesMatch, Has

\* Nothing is undisturbed at the start, whatever the position.
LEMMA NothingPastIn ==
    Init => \A m \in Modes : \A i \in 0 .. Len(Chains[m]) : ~ Past(m, i)
<1>1. \A m \in Modes : \A i \in 0 .. Len(Chains[m]) : i \in Nat
  BY ChainLength
<1> QED BY <1>1, NothingPast

LEMMA VouchedAlways ==
    ASSUME NEW V, \A m \in Modes : Vouches(m, V[m])
    PROVE  PipelineSpec => []VouchedSoFar(V)
<1>1. Init => VouchedSoFar(V)
  BY NothingPastIn DEF VouchedSoFar
<1>2. PipelineTypeOK /\ BrokenByEdits /\ VouchedSoFar(V) /\ [Next]_vars => VouchedSoFar(V)'
  <2> SUFFICES ASSUME PipelineTypeOK, BrokenByEdits, VouchedSoFar(V), [Next]_vars,
                      NEW m \in Modes, NEW i \in 0 .. Len(Chains[m]), Past(m, i)',
                      NEW p \in V[m][i], NEW fact \in disk'[p[1]]
               PROVE  <<fact, p[2]>> \notin broken'
    BY DEF VouchedSoFar
  <2>1. CASE i = 0
    BY <2>1 DEF Vouches
  <2>2. CASE Past(m, i) /\ UNCHANGED <<disk, broken>>
    BY <2>2 DEF VouchedSoFar
  <2>3. CASE /\ i \in 1 .. Len(Chains[m]) /\ Past(m, i - 1) /\ Passes(Chains[m][i], disk)
             /\ disk' = After(Chains[m][i], disk) /\ UNCHANGED broken
    <3>1. i - 1 \in 0 .. Len(Chains[m]) /\ IsScript(Chains[m][i])
      BY <2>3, ChainedScript
    <3>2. \A q \in V[m][i - 1] : \A b \in disk[q[1]] : <<b, q[2]>> \notin broken
      BY <2>3, <3>1 DEF VouchedSoFar
    <3>3. p \in VouchedAfter(Chains[m][i], V[m][i - 1])
      BY <2>3 DEF Vouches, Positions
    <3> QED BY <2>3, <3>1, <3>2, <3>3, VouchKept
  <2> QED BY <2>1, <2>2, <2>3, UndisturbedStep
<1> QED BY <1>1, <1>2, BrokenAlways, PipelineTypeCorrect, PTL DEF PipelineSpec

LEMMA MatchedAlways ==
    ASSUME \A m \in Modes : HashesComeLast(m)
    PROVE  PipelineSpec => []MatchedSoFar
<1>1. Init => MatchedSoFar
  BY NothingPastIn DEF MatchedSoFar
<1>2. PipelineTypeOK /\ MatchedSoFar /\ [Next]_vars => MatchedSoFar'
  <2> SUFFICES ASSUME PipelineTypeOK, MatchedSoFar, [Next]_vars,
                      NEW m \in Modes, NEW i \in 0 .. Len(Chains[m]), Past(m, i)',
                      NEW j \in 1 .. i
               PROVE  HashesMatch(Chains[m][j], disk')
    BY DEF MatchedSoFar
  <2>1. CASE Past(m, i) /\ UNCHANGED <<disk, broken>>
    BY <2>1 DEF MatchedSoFar
  <2>2. CASE /\ i \in 1 .. Len(Chains[m]) /\ Past(m, i - 1) /\ Passes(Chains[m][i], disk)
             /\ disk' = After(Chains[m][i], disk)
    <3>1. i - 1 \in 0 .. Len(Chains[m])
      BY <2>2
    <3>2. HashesMatch(Chains[m][j], disk)
      <4>1. CASE j = i
        BY <2>2, <4>1 DEF Passes
      <4>2. CASE j # i
        <5>1. j \in 1 .. i - 1
          BY <4>2, <2>2
        <5> QED BY <2>2, <3>1, <5>1 DEF MatchedSoFar
      <4> QED BY <4>1, <4>2
    <3> QED BY <2>2, <3>2, MatchKept
  <2> QED BY <2>1, <2>2, UndisturbedStep
<1> QED BY <1>1, <1>2, PipelineTypeCorrect, PTL DEF PipelineSpec

\* If whatever a gate judged stays vouched for along its chain, and no chain
\* rewrites what it read or compared, no gate of an undisturbed green run would
\* be red on what the run left.
THEOREM GatesStayGreen ==
    ASSUME \A m \in Modes : InOrder(m) /\ HashesComeLast(m),
           NEW V, \A m \in Modes : Vouches(m, V[m])
    PROVE  PipelineSpec => []GreenStaysGreen
<1>1. PipelineTypeOK /\ SettledSoFar /\ VouchedSoFar(V) /\ MatchedSoFar => GreenStaysGreen
  <2> SUFFICES ASSUME PipelineTypeOK, SettledSoFar, VouchedSoFar(V), MatchedSoFar,
                      NEW m \in Modes, Green(m), touched = "no", NEW i \in DOMAIN Chains[m]
               PROVE  Passes(Chains[m][i], disk)
    BY DEF GreenStaysGreen
  <2>1. i \in 1 .. Len(Chains[m]) /\ Len(Chains[m]) \in 0 .. Len(Chains[m])
    <3>1. Chains[m] \in Seq(Chained)
      BY PipelineConstants
    <3> QED BY <3>1
  <2>2. Past(m, Len(Chains[m]))
    BY GreenIsPast
  <2>3. Settled(Chains[m][i], disk) /\ HashesMatch(Chains[m][i], disk)
    BY <2>1, <2>2 DEF SettledSoFar, MatchedSoFar
  <2>4. ASSUME NEW j \in Chains[m][i].judges, NEW fact \in disk[j[1]]
        PROVE  <<fact, j[2]>> \notin broken
    <3>1. j \in V[m][Len(Chains[m])]
      BY <2>1 DEF Vouches, Positions
    <3> QED BY <2>1, <2>2, <2>4, <3>1 DEF VouchedSoFar
  <2> QED BY <2>3, <2>4 DEF Passes, Settled
<1>2. PipelineSpec => []SettledSoFar
  BY SettledAlong
<1>3. PipelineSpec => []VouchedSoFar(V)
  BY VouchedAlways
<1>4. PipelineSpec => []MatchedSoFar
  BY MatchedAlways
<1> QED BY <1>1, <1>2, <1>3, <1>4, PipelineTypeCorrect, PTL

-----------------------------------------------------------------------------
(* What is published is current *)

\* What a run has refreshed so far shows no old version of a replayed input.
RefreshedSoFar(L) ==
    \A m \in Modes : \A i \in 0 .. Len(Chains[m]) :
        Past(m, i) => \A f \in L[m][i] : \A fact \in disk[f] :
            fact[1] \in Replayed => fact \in disk[fact[1]]

\* A script that passes keeps current what CleanAfter says.
LEMMA CurrentKept ==
    ASSUME NEW s, IsScript(s), NEW d \in Disk, ~ Throws(s, d), NEW known,
           \A f \in known : \A fact \in d[f] : fact[1] \in Replayed => fact \in d[fact[1]],
           \A f \in Replayed : Has(d, f)
    PROVE  \A f \in CleanAfter(s, known, {}) : \A fact \in After(s, d)[f] :
               fact[1] \in Replayed => fact \in After(s, d)[fact[1]]
<1> DEFINE Bad == {fact \in Facts : fact[1] \in Replayed /\ fact \notin d[fact[1]]}
<1>1. \A f \in known : d[f] \cap Bad = {}
  OBVIOUS
<1>2. \A f \in Files : ~ Has(d, f) /\ <<f, 0>> \in Bad => f \in {}
  OBVIOUS
<1>3. \A f \in CleanAfter(s, known, {}) : After(s, d)[f] \cap Bad = {}
  <2> HIDE DEF Bad
  <2> QED BY <1>1, <1>2, CleanKept
<1> SUFFICES ASSUME NEW f \in CleanAfter(s, known, {}), NEW fact \in After(s, d)[f],
                    fact[1] \in Replayed
             PROVE  fact \in After(s, d)[fact[1]]
  OBVIOUS
<1>4. f \in Files /\ fact[1] \in Inputs
  BY PipelineConstants DEF CleanAfter
<1>5. fact \in Facts
  BY <1>4, AfterDisk DEF Disk
<1>6. fact \in d[fact[1]]
  BY <1>3, <1>5
<1> QED BY <1>4, <1>6, InputsKept

LEMMA RefreshedAlways ==
    ASSUME NEW apart, NEW L, StayApart(apart, Replayed), InputsAreThere,
           \A m \in Modes : Refreshes(m, L[m], apart)
    PROVE  PipelineSpec => []RefreshedSoFar(L)
<1>1. Init => RefreshedSoFar(L)
  BY NothingPastIn DEF RefreshedSoFar
<1>2. /\ PipelineTypeOK /\ InputsShowThemselves /\ KeptApart(apart, Replayed)
      /\ RefreshedSoFar(L) /\ [Next]_vars
      => RefreshedSoFar(L)'
  <2> SUFFICES ASSUME PipelineTypeOK, InputsShowThemselves, KeptApart(apart, Replayed),
                      RefreshedSoFar(L), [Next]_vars,
                      NEW m \in Modes, NEW i \in 0 .. Len(Chains[m]), Past(m, i)',
                      NEW f \in L[m][i], NEW fact \in disk'[f], fact[1] \in Replayed
               PROVE  fact \in disk'[fact[1]]
    BY DEF RefreshedSoFar
  <2>1. CASE i = 0 /\ UNCHANGED disk
    <3>1. f \in Inputs \cup apart
      BY <2>1 DEF Refreshes
    <3> QED BY <2>1, <3>1 DEF InputsShowThemselves, KeptApart
  <2>2. CASE Past(m, i) /\ UNCHANGED disk
    BY <2>2 DEF RefreshedSoFar
  <2>3. CASE /\ i \in 1 .. Len(Chains[m]) /\ Past(m, i - 1) /\ Passes(Chains[m][i], disk)
             /\ disk' = After(Chains[m][i], disk)
    <3>1. i - 1 \in 0 .. Len(Chains[m]) /\ IsScript(Chains[m][i])
      BY <2>3, ChainedScript
    <3>2. \A h \in L[m][i - 1] : \A b \in disk[h] : b[1] \in Replayed => b \in disk[b[1]]
      BY <2>3, <3>1 DEF RefreshedSoFar
    <3>3. f \in CleanAfter(Chains[m][i], L[m][i - 1], {})
      BY <2>3 DEF Refreshes, Positions
    <3>4. disk \in Disk /\ ~ Throws(Chains[m][i], disk) /\ \A h \in Replayed : Has(disk, h)
      BY <2>3 DEF PipelineTypeOK, Disk, Passes, InputsShowThemselves
    <3>5. \A h \in CleanAfter(Chains[m][i], L[m][i - 1], {}) :
              \A b \in After(Chains[m][i], disk)[h] :
                  b[1] \in Replayed => b \in After(Chains[m][i], disk)[b[1]]
      BY <3>1, <3>2, <3>4, CurrentKept
    <3> QED BY <2>3, <3>3, <3>5
  <2> QED BY <2>1, <2>2, <2>3, UndisturbedStep
<1>3. PipelineSpec => []InputsShowThemselves
  BY InputsAlways
<1>4. /\ Init => KeptApart(apart, Replayed)
      /\ PipelineTypeOK /\ KeptApart(apart, Replayed) /\ [Next]_vars => KeptApart(apart, Replayed)'
  BY ApartKept
<1> QED BY <1>1, <1>2, <1>3, <1>4, PipelineTypeCorrect, PTL DEF PipelineSpec

\* If each mode computes what it publishes again, on every way from a replayed
\* input, what an undisturbed green run publishes shows the current versions of
\* the replayed inputs and no other.
THEOREM PublicationsCurrent ==
    ASSUME NEW apart, NEW L, StayApart(apart, Replayed), InputsAreThere,
           \A m \in Modes : Refreshes(m, L[m], apart)
    PROVE  PipelineSpec => []PublishedIsCurrent
<1>1. RefreshedSoFar(L) => PublishedIsCurrent
  <2> SUFFICES ASSUME RefreshedSoFar(L), NEW m \in Modes, Green(m), touched = "no",
                      NEW f \in Published[m], NEW fact \in disk[f], fact[1] \in Replayed
               PROVE  fact \in disk[fact[1]]
    BY DEF PublishedIsCurrent
  <2>1. Len(Chains[m]) \in 0 .. Len(Chains[m]) /\ Past(m, Len(Chains[m]))
    BY ChainLength, GreenIsPast
  <2>2. f \in L[m][Len(Chains[m])]
    BY DEF Refreshes
  <2> QED BY <2>1, <2>2 DEF RefreshedSoFar
<1>2. PipelineSpec => []RefreshedSoFar(L)
  BY RefreshedAlways
<1> QED BY <1>1, <1>2, PTL

-----------------------------------------------------------------------------
(* Numbers are measured *)

\* What a full run has measured so far is there, and what it has computed from
\* it shows no number typed into a script.
MeasuredSoFar(L, there) ==
    \A m \in Modes : \A i \in 0 .. Len(Chains[m]) :
        m = "full" /\ Past(m, i) =>
            /\ \A f \in there[i] : f \in Files \ {Quotes} /\ Has(disk, f)
            /\ \A f \in L[i] : \A h \in HandTyped : <<h, 0>> \notin disk[f]

\* A script that passes leaves there what ThereAfter says.
LEMMA ThereKept ==
    ASSUME NEW s, IsScript(s), NEW d, ~ Throws(s, d), NEW there,
           \A f \in there : f \in Files \ {Quotes} /\ Has(d, f)
    PROVE  \A f \in ThereAfter(s, there) : f \in Files \ {Quotes} /\ Has(After(s, d), f)
<1> SUFFICES ASSUME NEW f \in ThereAfter(s, there)
             PROVE  f \in Files \ {Quotes} /\ Has(After(s, d), f)
  OBVIOUS
<1>1. CASE f \in there \cup s.needs
  <2>1. f \in Files \ {Quotes} /\ Has(d, f)
    BY <1>1 DEF IsScript, Throws
  <2> QED BY <2>1, StaysThere
<1>2. CASE f \in DOMAIN s.writes /\ s.given = {}
  <2>1. f \in Files \ {Quotes} /\ WritesNow(s, d)
    BY <1>2 DEF IsScript, WritesNow
  <2> QED BY <1>2, <2>1, StaysThere
<1> QED BY <1>1, <1>2 DEF ThereAfter

\* A script that passes keeps free of typed numbers what CleanAfter says.
LEMMA MeasuredKept ==
    ASSUME NEW s, IsScript(s), NEW d, ~ Throws(s, d), NEW known, NEW there,
           \A f \in there : Has(d, f),
           \A f \in known : \A h \in HandTyped : <<h, 0>> \notin d[f]
    PROVE  \A f \in CleanAfter(s, known, HandTyped \ there) :
               \A h \in HandTyped : <<h, 0>> \notin After(s, d)[f]
<1> DEFINE Bad == {<<h, 0>> : h \in HandTyped}
<1>1. \A f \in known : d[f] \cap Bad = {}
  OBVIOUS
<1>2. \A f \in Files : ~ Has(d, f) /\ <<f, 0>> \in Bad => f \in HandTyped \ there
  OBVIOUS
<1>3. \A f \in CleanAfter(s, known, HandTyped \ there) : After(s, d)[f] \cap Bad = {}
  <2> HIDE DEF Bad
  <2> QED BY <1>1, <1>2, CleanKept
<1> QED BY <1>3

LEMMA MeasuredAlways ==
    ASSUME NEW apart, NEW L, NEW there, StayApart(apart, HandTyped),
           Measures("full", L, there, apart)
    PROVE  PipelineSpec => []MeasuredSoFar(L, there)
<1>1. Init => MeasuredSoFar(L, there)
  BY NothingPastIn DEF MeasuredSoFar
<1>2. /\ PipelineTypeOK /\ KeptApart(apart, HandTyped) /\ MeasuredSoFar(L, there) /\ [Next]_vars
      => MeasuredSoFar(L, there)'
  <2> SUFFICES ASSUME PipelineTypeOK, KeptApart(apart, HandTyped), MeasuredSoFar(L, there),
                      [Next]_vars,
                      NEW m \in Modes, NEW i \in 0 .. Len(Chains[m]), m = "full", Past(m, i)'
               PROVE  /\ \A f \in there[i] : f \in Files \ {Quotes} /\ Has(disk', f)
                      /\ \A f \in L[i] : \A h \in HandTyped : <<h, 0>> \notin disk'[f]
    BY DEF MeasuredSoFar, Has
  <2>1. CASE i = 0 /\ UNCHANGED disk
    <3>1. there[i] = {} /\ L[i] \subseteq apart
      BY <2>1 DEF Measures
    <3>2. \A h \in HandTyped : <<h, 0>>[1] = h
      OBVIOUS
    <3> QED BY <2>1, <3>1, <3>2 DEF KeptApart
  <2>2. CASE Past(m, i) /\ UNCHANGED disk
    BY <2>2 DEF MeasuredSoFar
  <2>3. CASE /\ i \in 1 .. Len(Chains[m]) /\ Past(m, i - 1) /\ Passes(Chains[m][i], disk)
             /\ disk' = After(Chains[m][i], disk)
    <3> DEFINE s == Chains[m][i]
    <3>1. i - 1 \in 0 .. Len(Chains[m]) /\ IsScript(s) /\ ~ Throws(s, disk)
      BY <2>3, ChainedScript DEF Passes
    <3>2. /\ \A f \in there[i - 1] : f \in Files \ {Quotes} /\ Has(disk, f)
          /\ \A f \in L[i - 1] : \A h \in HandTyped : <<h, 0>> \notin disk[f]
      BY <2>3, <3>1 DEF MeasuredSoFar
    <3>3. /\ there[i] \subseteq ThereAfter(s, there[i - 1])
          /\ L[i] \subseteq CleanAfter(s, L[i - 1], HandTyped \ there[i - 1])
      BY <2>3 DEF Measures, Positions
    <3> HIDE DEF s
    <3>4. \A f \in ThereAfter(s, there[i - 1]) : f \in Files \ {Quotes} /\ Has(After(s, disk), f)
      BY <3>1, <3>2, ThereKept
    <3>5. \A f \in CleanAfter(s, L[i - 1], HandTyped \ there[i - 1]) :
              \A h \in HandTyped : <<h, 0>> \notin After(s, disk)[f]
      BY <3>1, <3>2, MeasuredKept
    <3> QED BY <2>3, <3>3, <3>4, <3>5 DEF s
  <2> QED BY <2>1, <2>2, <2>3, UndisturbedStep
<1>3. /\ Init => KeptApart(apart, HandTyped)
      /\ PipelineTypeOK /\ KeptApart(apart, HandTyped) /\ [Next]_vars => KeptApart(apart, HandTyped)'
  BY ApartKept
<1> QED BY <1>1, <1>2, <1>3, PipelineTypeCorrect, PTL DEF PipelineSpec

\* If the full chain measures before it computes macros, and computes all of
\* them again, an undisturbed green full run leaves no number that was typed
\* into a script.
THEOREM NumbersMeasured ==
    ASSUME NEW apart, NEW L, NEW there, StayApart(apart, HandTyped),
           Measures("full", L, there, apart)
    PROVE  PipelineSpec => []NoHandTypedNumbers
<1>1. /\ PipelineTypeOK /\ BrokenByEdits /\ QuotesAreLeaks /\ MeasuredSoFar(L, there)
      => NoHandTypedNumbers
  <2> SUFFICES ASSUME PipelineTypeOK, BrokenByEdits, QuotesAreLeaks, MeasuredSoFar(L, there),
                      Green("full"), touched = "no",
                      NEW f \in Files, NEW h \in HandTyped, <<h, 0>> \in disk[f]
               PROVE  FALSE
    BY DEF NoHandTypedNumbers
  <2>1. "full" \in Modes
    BY DEF PipelineTypeOK, Green
  <2>2. CASE f = Quotes
    <3>1. <<<<h, 0>>, Leak>> \in broken
      BY <2>2 DEF QuotesAreLeaks
    <3>2. <<<<h, 0>>, Leak>>[1][2] >= 2
      BY <3>1 DEF BrokenByEdits
    <3> QED BY <3>2
  <2>3. CASE f # Quotes
    <3>1. f \in L[Len(Chains["full"])]
      BY <2>3 DEF Measures
    <3>2. Len(Chains["full"]) \in 0 .. Len(Chains["full"]) /\ Past("full", Len(Chains["full"]))
      BY <2>1, ChainLength, GreenIsPast
    <3> QED BY <2>1, <3>1, <3>2 DEF MeasuredSoFar
  <2> QED BY <2>2, <2>3
<1>2. PipelineSpec => []MeasuredSoFar(L, there)
  BY MeasuredAlways
<1> QED BY <1>1, <1>2, BrokenAlways, QuotesAlways, PipelineTypeCorrect, PTL

-----------------------------------------------------------------------------
(* Every break reaches a gate *)

\* The files of S show the inputs as they are, and the inputs break nothing
\* that has been judged on such a file, or audited, so far.
ExposedSoFar(S) ==
    \A m \in Modes : \A i \in 0 .. Len(Chains[m]) :
        m = "full" /\ Past(m, i) =>
            /\ \A p \in S[i] : disk[p[1]] \subseteq disk[p[2]]
            /\ \A j \in 1 .. i :
                  /\ \A p \in S[j - 1] : \A g \in Guarantees :
                        <<p[2], g>> \in Chains[m][j].judges =>
                            \A fact \in disk[p[1]] : <<fact, g>> \notin broken
                  /\ Chains[m][j].audits =>
                        \A f \in Scanned : \A fact \in disk[f] : <<fact, Leak>> \notin broken

\* The files of S are inputs and what may show them.
LEMMA ExposesInputs ==
    ASSUME NEW m, NEW S, NEW breaks, Exposes(m, S, breaks), NEW i \in 0 .. Len(Chains[m])
    PROVE  \A p \in S[i] : p[1] \in Inputs
<1>1. CASE i = 0
  BY <1>1 DEF Exposes
<1>2. CASE i \in Positions(m)
  BY <1>2 DEF Exposes, ShowsAfter
<1> QED BY <1>1, <1>2 DEF Positions

LEMMA ExposedAlways ==
    ASSUME NEW S, Exposes("full", S, Breaks)
    PROVE  PipelineSpec => []ExposedSoFar(S)
<1>1. Init => ExposedSoFar(S)
  BY NothingPastIn DEF ExposedSoFar
<1>2. PipelineTypeOK /\ ExposedSoFar(S) /\ [Next]_vars => ExposedSoFar(S)'
  <2> SUFFICES ASSUME PipelineTypeOK, ExposedSoFar(S), [Next]_vars,
                      NEW m \in Modes, NEW i \in 0 .. Len(Chains[m]), m = "full", Past(m, i)'
               PROVE  /\ \A p \in S[i] : disk'[p[1]] \subseteq disk'[p[2]]
                      /\ \A j \in 1 .. i :
                            /\ \A p \in S[j - 1] : \A g \in Guarantees :
                                  <<p[2], g>> \in Chains[m][j].judges =>
                                      \A fact \in disk'[p[1]] : <<fact, g>> \notin broken'
                            /\ Chains[m][j].audits =>
                                  \A f \in Scanned : \A fact \in disk'[f] :
                                      <<fact, Leak>> \notin broken'
    BY DEF ExposedSoFar
  <2>1. CASE i = 0 /\ UNCHANGED <<disk, broken>>
    <3>1. S[i] \subseteq {<<f, f>> : f \in Inputs}
      BY <2>1 DEF Exposes
    <3> QED BY <2>1, <3>1
  <2>2. CASE Past(m, i) /\ UNCHANGED <<disk, broken>>
    BY <2>2 DEF ExposedSoFar
  <2>3. CASE /\ i \in 1 .. Len(Chains[m]) /\ Past(m, i - 1) /\ Passes(Chains[m][i], disk)
             /\ disk' = After(Chains[m][i], disk) /\ UNCHANGED broken
    <3> DEFINE s == Chains[m][i]
    <3>1. /\ i - 1 \in 0 .. Len(Chains[m]) /\ Len(Chains[m]) \in Nat
          /\ IsScript(s) /\ ~ Throws(s, disk)
      BY <2>3, ChainedScript, ChainLength DEF Passes
    <3>2. \A p \in S[i - 1] : disk[p[1]] \subseteq disk[p[2]]
      BY <2>3, <3>1 DEF ExposedSoFar
    <3>3. \A f \in Inputs : disk'[f] = disk[f]
      BY <2>3, <3>1, InputsKept
    <3>4. ASSUME NEW p \in S[i]
          PROVE  disk'[p[1]] \subseteq disk'[p[2]]
      <4>1. p \in ShowsAfter(s, S[i - 1])
        BY <2>3 DEF Exposes, Positions
      <4> HIDE DEF s
      <4>2. \A q \in ShowsAfter(s, S[i - 1]) : After(s, disk)[q[1]] \subseteq After(s, disk)[q[2]]
        BY <3>1, <3>2, ShowsKept
      <4> QED BY <2>3, <4>1, <4>2 DEF s
    <3>5. ASSUME NEW j \in 1 .. i, NEW p \in S[j - 1], NEW g \in Guarantees,
                 <<p[2], g>> \in Chains[m][j].judges, NEW fact \in disk'[p[1]]
          PROVE  <<fact, g>> \notin broken
      <4>1. j - 1 \in 0 .. Len(Chains[m])
        BY <3>1
      <4>2. p[1] \in Inputs
        BY <4>1, ExposesInputs
      <4>3. fact \in disk[p[1]]
        BY <3>3, <3>5, <4>2
      <4>4. CASE j = i
        <5>1. fact \in disk[p[2]]
          BY <3>2, <4>3, <4>4
        <5> QED BY <2>3, <3>5, <4>4, <5>1 DEF Passes
      <4>5. CASE j # i
        <5>1. j \in 1 .. i - 1
          BY <2>3, <4>5
        <5> QED BY <2>3, <3>1, <3>5, <4>3, <5>1 DEF ExposedSoFar
      <4> QED BY <4>4, <4>5
    <3>6. ASSUME NEW j \in 1 .. i, Chains[m][j].audits, NEW f \in Scanned, NEW fact \in disk'[f]
          PROVE  <<fact, Leak>> \notin broken
      <4>1. fact \in disk[f]
        BY <3>3, <3>6, PipelineConstants
      <4>2. CASE j = i
        BY <2>3, <3>6, <4>1, <4>2 DEF Passes, Leaks
      <4>3. CASE j # i
        <5>1. j \in 1 .. i - 1
          BY <2>3, <4>3
        <5> QED BY <2>3, <3>1, <3>6, <4>1, <5>1 DEF ExposedSoFar
      <4> QED BY <4>2, <4>3
    <3> QED BY <2>3, <3>4, <3>5, <3>6
  <2> QED BY <2>1, <2>2, <2>3, UndisturbedStep
<1> QED BY <1>1, <1>2, PipelineTypeCorrect, PTL DEF PipelineSpec

\* If the full chain judges every guarantee that an edit may break on a file
\* that then shows the edited input, or audits the input, an undisturbed green
\* full run means that no current input breaks what its gates are there for.
THEOREM FullRunsSound ==
    ASSUME InputsAreThere, NEW S, Exposes("full", S, Breaks)
    PROVE  PipelineSpec => []GreenFullIsSound
<1>1. /\ PipelineTypeOK /\ BrokenByEdits /\ InputsShowThemselves /\ ExposedSoFar(S)
      => GreenFullIsSound
  <2> SUFFICES ASSUME PipelineTypeOK, BrokenByEdits, InputsShowThemselves, ExposedSoFar(S),
                      Green("full"), touched = "no",
                      NEW f \in Inputs, NEW fact \in disk[f], NEW g \in Regenerated,
                      <<fact, g>> \in broken
               PROVE  FALSE
    BY DEF GreenFullIsSound
  <2>1. "full" \in Modes
    BY DEF PipelineTypeOK, Green
  <2>2. Len(Chains["full"]) \in 0 .. Len(Chains["full"]) /\ Past("full", Len(Chains["full"]))
    BY <2>1, ChainLength, GreenIsPast
  <2>3. fact[1] = f
    BY DEF InputsShowThemselves
  <2>4. <<f, g>> \in Breaks
    <3>1. <<fact, g>>[1][1] = f /\ <<fact, g>>[2] = g
      BY <2>3
    <3> QED BY <3>1 DEF BrokenByEdits
  <2>5. g \in Guarantees
    BY <2>4, PipelineConstants
  <2>6. PICK i \in Positions("full") :
            \/ \E h \in Files : <<h, g>> \in Chains["full"][i].judges /\ <<f, h>> \in S[i - 1]
            \/ Chains["full"][i].audits /\ g = Leak /\ f \in Scanned
    <3>1. <<f, g>>[1] = f /\ <<f, g>>[2] = g
      OBVIOUS
    <3> QED BY <2>4, <3>1 DEF Exposes
  <2>7. i \in 1 .. Len(Chains["full"])
    BY DEF Positions
  <2>8. CASE Chains["full"][i].audits /\ g = Leak /\ f \in Scanned
    BY <2>1, <2>2, <2>7, <2>8 DEF ExposedSoFar
  <2>9. ASSUME NEW h \in Files, <<h, g>> \in Chains["full"][i].judges, <<f, h>> \in S[i - 1]
        PROVE  FALSE
    <3>1. <<f, h>>[1] = f /\ <<f, h>>[2] = h
      OBVIOUS
    <3> QED BY <2>1, <2>2, <2>5, <2>7, <2>9, <3>1 DEF ExposedSoFar
  <2> QED BY <2>6, <2>8, <2>9
<1>2. PipelineSpec => []InputsShowThemselves
  BY InputsAlways
<1>3. PipelineSpec => []ExposedSoFar(S)
  BY ExposedAlways
<1> QED BY <1>1, <1>2, <1>3, BrokenAlways, PipelineTypeCorrect, PTL
=============================================================================
