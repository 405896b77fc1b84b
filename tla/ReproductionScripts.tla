------------------------ MODULE ReproductionScripts ------------------------
(***************************************************************************)
(* The scripts the reproduction driver chains (src/scripts, src/tools) and *)
(* the chains themselves (src/package.json).  A script is what it does to  *)
(* the disk and to the exit code of its chain:                             *)
(*                                                                         *)
(*   needs    files it throws without                                      *)
(*   expects  files without which it does all it does and then exits 1     *)
(*   given    it leaves with 0 and writes nothing unless one of these      *)
(*            exists ({}: no such test)                                    *)
(*   writes   each output, and the files its content is computed from      *)
(*   judges   <<file, guarantee>>: it exits 1 if the file, when it is      *)
(*            there, shows the guarantee broken; <<"code", g>> is a test   *)
(*            executed against the code itself                             *)
(*   matches  <<hash, file>>: it exits 1 if the recorded hash, when there  *)
(*            is one, is not that of the file                              *)
(*   audits   it scans the result logs and its own last report for         *)
(*            identity leaks, and quotes what it finds in its report       *)
(*                                                                         *)
(* What a number is, how a table looks and which counterexample a test     *)
(* replays are left out; the modules SharedMemory, AuthorizationKernel,    *)
(* ExecutionContexts and AuthorityLogs are about the guarantees tested.    *)
(***************************************************************************)
EXTENDS Integers, Sequences, FiniteSets, TLC

Nothing == [needs |-> {}, expects |-> {}, given |-> {}, writes |-> << >>,
            judges |-> {}, matches |-> {}, audits |-> FALSE]

Judging(gs) == [Nothing EXCEPT !.judges = {"code"} \X gs]

Writing(outs, from) == [Nothing EXCEPT !.writes = [f \in outs |-> from]]

\* One process that does what both do, or two in a row neither of which the
\* other can stop or feed.
Both(s, t) ==
    [needs   |-> s.needs \cup t.needs,
     expects |-> s.expects \cup t.expects,
     given   |-> s.given \cup t.given,
     writes  |-> s.writes @@ t.writes,
     judges  |-> s.judges \cup t.judges,
     matches |-> s.matches \cup t.matches,
     audits  |-> s.audits \/ t.audits]

\* A proof of concept: attacks the runtime, writes its report, exits 1 when a
\* check failed.
Trial(report, gs) == Both(Writing({report}, {"code"}), Judging(gs))

-----------------------------------------------------------------------------
(* Guarantees of the runtime the scripts test, by the part that gives them *)

CodeGuarantees ==
    {"admission", "attestation", "lifecycle", "replay", "integrity",
     "contexts", "views", "dispatch", "membership", "mediation", "separation",
     "combined", "equivalence", "cedar", "harness"}

(* node --test over tests/.  The Cedar test compares the engine with the   *)
(* gate and with the conventional comparator, on the code.                 *)
NpmTestWithoutCedar == Judging(CodeGuarantees \ {"equivalence", "cedar"})
NpmTest == Judging(CodeGuarantees)

-----------------------------------------------------------------------------
(* scripts/check_review_gates.mjs: every gate runs, the script fails if    *)
(* one did.  A gate that reads a report judges the one that is there and   *)
(* is PENDING, which does not fail, when there is none.                    *)

\* RG1 and RG11 read the comparators' reports of an earlier run.
GateComparator == [Nothing EXCEPT !.judges = {<<"policy-comparator", "equivalence">>}]
GateCedar == [Nothing EXCEPT
    !.judges = {"cedar-policy-comparator"} \X {"cedar", "equivalence"}]

\* RG2, RG3: source text.  RG4-RG9: causal order, the replay self-test, parity
\* of the prompts and of the standalone gate, source text again.
GatesOnSource == Judging({"harness"})
GatesEarly == Judging({"admission", "replay", "harness"})

\* RG10, RG12, RG13 read committed inputs; the first two fail without them.
GatesOnInputs == [Nothing EXCEPT
    !.expects = {"mast-family-mapping", "e3", "e5", "e7"},
    !.judges = {<<"mast-family-mapping", "nine-families">>}
                    \cup ({"e3", "e5", "e7"} \X {"two-models"})]

\* RG14, RG16, RG22, RG23 run a proof of concept and judge the report it wrote.
MemoryInjection == Trial("poc-memory-injection", {"admission", "replay"})
LangGraphInjection == Trial("poc-langgraph-injection", {"admission"})
IntegrityFlow == Trial("poc-integrity-flow", {"integrity", "replay"})
Assistants == Trial("poc-personal-assistant", {"integrity"})

\* RG15, RG17-RG21: signed messages, the write boundary, no way around it.
GatesSignedMessage == Judging({"attestation", "replay"})
GatesWriteBoundary == Judging({"attestation", "lifecycle", "replay"})
GatesSoundness == Judging({"attestation", "replay"})
\* RG24-RG44, by the review whose counterexamples they replay: derived
\* integrity and no signing oracle, signed edges, identity and lifecycle
\* chains, sends bound to a context, full envelopes.
GatesIntegrity == Judging({"attestation", "integrity"})
GatesThirdReview == Judging({"attestation", "integrity", "admission", "replay"})
GatesFourthReview == Judging({"attestation", "lifecycle", "admission", "contexts"})
GatesFifthReview == Judging({"contexts", "admission", "lifecycle", "replay"})
GatesSixthReview == Judging({"attestation", "contexts", "admission", "replay"})
\* RG49-RG56: the invariants of the execution contexts.
GatesContexts == Judging({"contexts", "integrity"})
GatesContextsRestart == Judging({"contexts", "integrity", "replay"})
\* RG57-RG70: coherent view, resolution, ceilings, delegation, adoption.
GatesCoherentView == Judging({"views", "dispatch", "replay"})
GatesFollowOns == Judging({"views", "dispatch", "replay"})
GatesVerification == Judging({"views", "dispatch", "lifecycle", "replay"})
\* RG68-RG77: read to use, and what an action is bound to when dispatched.
GatesReadToUse == Judging({"views", "dispatch"})
GatesKernel == Judging({"dispatch", "contexts"})

ReviewGates ==
    LET gates == <<GateComparator, GateCedar, GatesOnSource, GatesEarly, GatesOnInputs,
                   MemoryInjection, LangGraphInjection, IntegrityFlow, Assistants,
                   GatesSignedMessage, GatesWriteBoundary, GatesSoundness, GatesIntegrity,
                   GatesThirdReview, GatesFourthReview, GatesFifthReview, GatesSixthReview,
                   GatesContexts, GatesContextsRestart, GatesCoherentView, GatesFollowOns,
                   GatesVerification, GatesReadToUse, GatesKernel>>
        upto[n \in 0 .. Len(gates)] ==
            IF n = 0 THEN Nothing ELSE Both(upto[n - 1], gates[n])
    IN  upto[Len(gates)]

-----------------------------------------------------------------------------
(* The other scripts of secure:verify.                                     *)

AttestationTests == Judging({"attestation", "mediation"})
SecureCoverage == Both(Writing({"secure-coverage-main", "secure-coverage-integrity-flow"},
                               {"code"}),
                       Judging({"mediation", "integrity"}))
ScheduleEval == Trial("gate2-schedule-eval", {"views", "dispatch"})
GateModel == Judging({"views", "dispatch"})
HardSeparation == Trial("hard-separation-eval", {"admission", "integrity", "views", "dispatch"})

AuditV17 == Judging({"dispatch", "views", "contexts"})
ReproV18 == Judging({"views", "dispatch", "membership"})
ReproV18Certificate == Judging({"views"})
ReproV18Lineage == Judging({"views"})
ReproV18Facade == Judging({"contexts", "dispatch"})
ReproV18Widen == Judging({"views", "dispatch"})
ReproV18Supersede == Judging({"views", "dispatch"})
ReproV18Mirror == Judging({"membership"})
ReproV18Floor == Judging({"views", "integrity"})
ReproMembership == Judging({"membership"})
\* Items 1-6, 7-12, 13-18 and 19-21 of the v19 review.
ReproV19First == Judging({"membership", "views", "lifecycle", "dispatch"})
ReproV19Second == Judging({"views", "dispatch", "membership"})
ReproV19Third == Judging({"views", "dispatch", "integrity"})
ReproV19Last == Judging({"views", "integrity", "membership"})
\* CE20-00 to CE20-05 and CE20-06 to CE20-12.
ReproV20First == Judging({"admission", "views", "contexts"})
ReproV20Second == Judging({"admission", "views", "contexts"})
ProbeFacade == Judging({"contexts", "admission", "dispatch"})
ProbeEmptyView == Judging({"dispatch"})

\* audit:v17, regress:v18 and the probes write nothing: one step of the chain.
Regressions ==
    LET judged == UNION {s.judges : s \in
            {AuditV17, ReproV18, ReproV18Certificate, ReproV18Lineage, ReproV18Facade,
             ReproV18Widen, ReproV18Supersede, ReproV18Mirror, ReproV18Floor, ReproMembership,
             ReproV19First, ReproV19Second, ReproV19Third, ReproV19Last,
             ReproV20First, ReproV20Second, ProbeFacade, ProbeEmptyView}}
    IN  [Nothing EXCEPT !.judges = judged]

Filesystem == Trial("poc-filesystem", {"admission", "attestation"})
FilesystemGit == Trial("poc-filesystem-git", {"admission", "views"})
Attestation == Trial("poc-attestation", {"attestation", "contexts"})
LangGraphGate2 == Trial("poc-langgraph-gate2", {"views"})
AgentSecurityBench == Trial("poc-asb", {"admission", "integrity"})
Minja == Trial("poc-minja-memory-injection", {"admission", "integrity"})
AuditSelfTest == Judging({"replay"})

CombinedBaseline == Both(Writing({"combined-baseline-residual", "combined_macros"}, {"code"}),
                         Judging({"combined"}))

-----------------------------------------------------------------------------
(* The analyses.                                                           *)

ContextProtocols == [Writing({"e4-protocol-family-analysis"}, {"sota-frontier-analysis"})
                     EXCEPT !.given = {"sota-frontier-analysis"}]
ContextFrameworks ==
    LET checks == {"langgraph-native-check", "autogen-native-check"}
    IN  [Writing({"native-framework-integration"}, checks) EXCEPT !.given = checks]

BestBaselineLogs == {"main40", "dropin", "e3", "e5", "e7"}
BestBaseline == Writing({"best-baseline-analysis"}, BestBaselineLogs)
Separation == Trial("baseline-separation-check", {"separation"})
\* Leaves with 0 whatever it found.
PolicyComparator == Writing({"policy-comparator"}, {"code"})
CedarComparator == Trial("cedar-policy-comparator", {"cedar"})
AblationSplit == [Writing({"ablation-family-split-analysis"}, {"e9-nano", "e9-mini"})
                  EXCEPT !.given = {"e9-nano", "e9-mini"}]

\* Analyses no chain runs.
NegativeControls == [Writing({"negative-controls-analysis"}, {"e9-nano"})
                     EXCEPT !.given = {"e9-nano"}]
StressScaling == [Writing({"stress-scaling-analysis"}, {"e10"}) EXCEPT !.given = {"e10"}]
CostPareto == [Writing({"cost-pareto-analysis"}, {"e10"}) EXCEPT !.given = {"e10"}]
AnalyzeRedesign == Both(Writing({"e13-etc-analysis"}, {"e13"}),
                        Writing({"e14-best-effort-analysis"}, {"e14"}))
AnalyzeLongrun == Writing({"e18-longrun-analysis"}, {"e18"})
FailurePrevalence ==
    LET logs == {"mast-family-mapping", "main40", "e3"}
    IN  [Writing({"failure-prevalence-analysis"}, logs) EXCEPT !.needs = logs]
BenchCost == Writing({"gate2-cost"}, {"code"})
BenchScale == Writing({"gate2-scale"}, {"code"})

-----------------------------------------------------------------------------
(* Tables and macros.  table1-table3 are fixed text; table5 also counts    *)
(* the entries of both manifests, of which there is a fixed number.        *)

Table4 == Writing({"table4"}, {"best-baseline-analysis", "e13-etc-analysis",
                               "e14-best-effort-analysis"})
Table5 == Writing({"table5"}, {"cost-call-accounting"})
GeneratedMacros == Writing({"generated_macros"},
    {"best-baseline-analysis", "e4-protocol-family-analysis",
     "native-framework-integration", "negative-controls-analysis"})
ExportTables == Both(Table4, Both(Table5, GeneratedMacros))

\* What the redesign macros replace by numbers in the source when it is absent.
Measured == {"poc-filesystem", "poc-filesystem-git", "secure-coverage-main",
             "secure-coverage-integrity-flow"}
RedesignMacros ==
    LET required == {"e13-etc-analysis", "e14-best-effort-analysis",
                     "failure-prevalence-analysis", "e16-locomo-analysis",
                     "e18-longrun-analysis", "ablation-family-split-analysis",
                     "cross-model-analyses"}
    IN  [Writing({"redesign_macros"}, required \cup Measured \cup {"gate2-cost", "gate2-scale"}) EXCEPT !.needs = required]
PolicyMacros == [Writing({"policy_macros"}, {"cedar-policy-comparator"})
                 EXCEPT !.needs = {"cedar-policy-comparator"}]
OssMacros == [Writing({"oss_macros"}, {"oss-shared-store-analysis"})
              EXCEPT !.needs = {"oss-shared-store-analysis"}]

-----------------------------------------------------------------------------
(* tools/build_figures.py: an invocation draws its figures, taking the     *)
(* hash of each one as it is saved, and then updates the manifest once,    *)
(* keeping the entries of the figures it did not draw.  A source that is   *)
(* absent is drawn as pending.                                             *)

Entry(f) == f \o ".entry"
Sha(f) == f \o ".sha"

\* Draw, save and hash.
Drawing(f, from) == Writing({f, Entry(f)}, from)

Fig4 == Drawing("fig4", {"negative-controls-analysis", "stress-scaling-analysis",
                         "cost-pareto-analysis", "ablation-family-split-analysis"})
Fig7 == Drawing("fig7", {"e18-longrun-analysis", "e16-locomo-analysis",
                         "poc-langgraph-injection"})
Fig8 == Drawing("fig8", {"best-baseline-analysis"})
Fig12 == Drawing("fig12", {"gate2-schedule-eval"})
Fig13 == Drawing("fig13", {"hard-separation-eval"})

S03 == Drawing("s03", {"main40"})
S04 == Drawing("s04", {"dropin"})
S06 == Drawing("s06", {"e5"})
S07 == Drawing("s07", {"e7"})
S12 == Drawing("s12", {"e5-nano", "e5-mini"})
S13 == Drawing("s13", {"native-framework-integration"})

\* Drawn by hand: only hashed, by every --main.
StaticFigures == {"fig1", "fig2", "fig10"}
MainFigures == {"fig4", "fig7", "fig8", "fig12", "fig13"} \cup StaticFigures
SupplementFigures == {"s03", "s04", "s06", "s07", "s12", "s13"}
HashedFigures == MainFigures \cup SupplementFigures

StaticEntries ==
    [Nothing EXCEPT !.writes = [e \in {Entry(f) : f \in StaticFigures} |->
                                    {CHOOSE f \in StaticFigures : Entry(f) = e}]]

DrawMain == Both(StaticEntries, Both(Both(Fig4, Fig7), Both(Fig8, Both(Fig12, Fig13))))
DrawSupplement == Both(Both(S03, S04), Both(Both(S06, S07), Both(S12, S13)))

UpdateManifest(figures) ==
    [Nothing EXCEPT !.writes = [h \in {Sha(f) : f \in figures} |->
                                    {Entry(CHOOSE f \in figures : Sha(f) = h)}]]
ManifestMain == UpdateManifest(MainFigures)
ManifestSupplement == UpdateManifest(SupplementFigures)

-----------------------------------------------------------------------------
(* scripts/check_evidence.mjs                                              *)

AuditFigureHashes == [Nothing EXCEPT !.matches = {<<Sha(f), f>> : f \in HashedFigures}]

SeparationGateOnly == [Nothing EXCEPT !.judges = {<<"baseline-separation-check", "separation">>}]
AuditEvidenceGates ==
    [Nothing EXCEPT !.judges = {<<"best-baseline-analysis", "selection">>,
                                <<"baseline-separation-check", "separation">>}]
GateFromNegativeControls ==
    [Nothing EXCEPT !.judges = {<<"negative-controls-analysis", "controls">>}]

AuditAnonymization == [Nothing EXCEPT !.audits = TRUE]

CheckEvidence ==
    Both(Both(AuditFigureHashes, AuditAnonymization),
         Both(Both(AuditEvidenceGates, GateFromNegativeControls),
              Writing({"evidence-check"},
                      {"best-baseline-analysis", "baseline-separation-check",
                       "negative-controls-analysis"} \cup {Sha(f) : f \in HashedFigures})))

-----------------------------------------------------------------------------
(* The chains of package.json and the modes of reproduce.mjs.              *)

SecureWithoutFilesystem ==
    <<AttestationTests, ReviewGates, SecureCoverage, ScheduleEval, GateModel, HardSeparation,
      Regressions, FilesystemGit, Attestation, LangGraphInjection, LangGraphGate2,
      AgentSecurityBench, Minja, CombinedBaseline, AuditSelfTest>>
SecureVerify ==
    <<AttestationTests, ReviewGates, SecureCoverage, ScheduleEval, GateModel, HardSeparation,
      Regressions, Filesystem, FilesystemGit, Attestation, LangGraphInjection, LangGraphGate2,
      AgentSecurityBench, Minja, CombinedBaseline, AuditSelfTest>>

EvalTables == <<ExportTables, RedesignMacros, PolicyMacros, CombinedBaseline, OssMacros>>
EvalFigures == <<DrawMain, ManifestMain, DrawSupplement, ManifestSupplement>>
EvalContext == <<ContextProtocols, ContextFrameworks>>

TablesBeforeAnalyses ==
    EvalTables \o EvalContext
        \o <<BestBaseline, Separation, PolicyComparator, AblationSplit, CheckEvidence>>

EvalValues ==
    EvalContext \o <<BestBaseline, Separation, PolicyComparator, AblationSplit>>
        \o EvalTables \o <<CheckEvidence>>

ArtifactWithoutCedar ==
    <<NpmTest>> \o SecureVerify \o EvalContext
        \o <<BestBaseline, Separation, PolicyComparator, AblationSplit>>
        \o EvalTables \o EvalFigures \o <<CheckEvidence>>
ArtifactCheck ==
    <<NpmTest>> \o SecureVerify \o EvalContext
        \o <<BestBaseline, Separation, PolicyComparator, CedarComparator, AblationSplit>>
        \o EvalTables \o EvalFigures \o <<CheckEvidence>>

ModeChains == [full |-> ArtifactCheck, values |-> EvalValues,
               check |-> <<CheckEvidence>>, secure |-> SecureVerify]

LooseScripts == {NegativeControls, StressScaling, CostPareto, AnalyzeRedesign, AnalyzeLongrun,
                 FailurePrevalence, BenchCost, BenchScale, CedarComparator, PolicyComparator}

-----------------------------------------------------------------------------
(* What is committed.                                                      *)

Logs == {"main40", "dropin", "e3", "e5", "e7", "e5-nano", "e5-mini", "e9-nano", "e9-mini",
         "e10", "e13", "e14", "e18"}
CloneInputs == Logs \cup StaticFigures \cup
    {"code", "sota-frontier-analysis", "langgraph-native-check", "autogen-native-check",
     "mast-family-mapping", "cross-model-analyses", "cost-call-accounting",
     "e16-locomo-analysis", "oss-shared-store-analysis"}

Outputs(s) == DOMAIN s.writes
Derived == (UNION {Outputs(ArtifactCheck[i]) : i \in DOMAIN ArtifactCheck})
               \cup (UNION {Outputs(s) : s \in LooseScripts})

\* Neither committed nor to be had from a clone without running something.
NotCommitted ==
    {"sota-frontier-analysis", "autogen-native-check", "poc-filesystem", "poc-filesystem-git",
     "secure-coverage-main", "secure-coverage-integrity-flow", "hard-separation-eval",
     "poc-integrity-flow", "poc-personal-assistant", "poc-asb"}
        \cup {Entry(f) : f \in HashedFigures}
=============================================================================
