----------------------- MODULE MCReproductionPipeline -----------------------
(***************************************************************************)
(* The pipeline with the scripts and the chains of the repository, over    *)
(* the files of a fresh clone.                                             *)
(***************************************************************************)
EXTENDS ReproductionScripts, ReproductionFlow

\* Written with its elements, so that TLC computes the union once.
MCFiles == {f : f \in CloneInputs \cup Derived \cup NotCommitted
                         \cup {Sha(g) : g \in StaticFigures} \cup {"evidence-quotes"}}

MCGuarantees == CodeGuarantees
    \cup {"selection", "controls", "two-models", "nine-families", "identity"}

\* The derived files were computed once from the first version of every input.
Rounds == <<NegativeControls, StressScaling, CostPareto, AnalyzeRedesign, AnalyzeLongrun,
            FailurePrevalence, BenchCost, BenchScale>> \o ArtifactCheck
Shown[n \in 0 .. Len(Rounds)] ==
    IF n = 0
    THEN [f \in MCFiles |-> IF f \in CloneInputs THEN {<<f, 1>>} ELSE {}]
    ELSE LET d == Shown[n - 1]
         IN  [f \in MCFiles |-> IF f \in Outputs(Rounds[n])
                                THEN UNION {d[g] : g \in Rounds[n].writes[f]}
                                ELSE d[f]]
MCCommitted == [f \in MCFiles |-> IF f \in NotCommitted THEN {} ELSE Shown[Len(Rounds)][f]]

MCManifest == {<<Sha(f), f>> : f \in HashedFigures}

MCPublished ==
    [full   |-> {"table4", "generated_macros", "combined_macros", "policy_macros",
                 "fig7", "fig8", "fig12", "fig13", "s03", "s04", "s06", "s07"},
     values |-> {"table4", "generated_macros", "combined_macros"},
     check  |-> {},
     secure |-> {"combined_macros", "gate2-schedule-eval", "poc-langgraph-injection"}]
MCReplayed == {"code", "main40", "dropin", "e3", "e5", "e7"}

MCRegenerated == CodeGuarantees \cup {"selection", "two-models", "nine-families", "identity"}

MCBreaks == {<<"code", "equivalence">>, <<"code", "dispatch">>, <<"main40", "selection">>,
             <<"e3", "identity">>, <<"e9-nano", "controls">>}

ASSUME AuditEndsTheChains == AuditIsLast

-----------------------------------------------------------------------------
(* The labellings of ReproductionFlow, computed along each chain.           *)

Along(chain, first, Pass(_, _, _)) ==
    LET upto[n \in 0 .. Len(chain)] ==
            IF n = 0 THEN 0 :> first
            ELSE LET sofar == upto[n - 1]
                 IN  sofar @@ (n :> {x : x \in Pass(n, chain[n], sofar[n - 1])})
    IN  upto[Len(chain)]

\* What no script carries anything of R into: drop what may show it, until
\* nothing is dropped.
Without(R) ==
    LET scripts == Chained \cup LooseScripts
        rest[n \in 0 .. Cardinality(scripts)] ==
            IF n = 0
            THEN {f \in MCFiles \ (R \cup {Quotes}) : \A fact \in MCCommitted[f] : fact[1] \notin R}
            ELSE LET left == {f : f \in rest[n - 1]}
                     kept == {f \in left : \A s \in scripts :
                                f \in Outputs(s) => s.writes[f] \subseteq left}
                 IN  {f : f \in kept}
    IN  rest[Cardinality(scripts)]

\* The labels of one chain: what is vouched for, refreshed, there, measured and
\* exposed after each number of its scripts.
VouchedBy(chain) ==
    LET Pass(n, s, known) == VouchedAfter(s, known)
    IN  Along(chain, {}, Pass)
RefreshedBy(chain, apart) ==
    LET Pass(n, s, known) == CleanAfter(s, known, {})
    IN  Along(chain, CloneInputs \cup apart, Pass)
ThereAlong(chain) ==
    LET Pass(n, s, known) == ThereAfter(s, known)
    IN  Along(chain, {}, Pass)
MeasuredBy(chain, there, apart) ==
    LET Pass(n, s, known) == CleanAfter(s, known, Measured \ there[n - 1])
    IN  Along(chain, apart, Pass)
ExposedBy(chain) ==
    LET Pass(n, s, known) == ShowsAfter(s, known)
    IN  Along(chain, {<<f, f>> : f \in CloneInputs}, Pass)

\* Every edit that a gate of a full run is there to find.
AllBreaks == ({"code"} \X CodeGuarantees) \cup (BestBaselineLogs \X {"selection"})
    \cup ({"e3", "e5", "e7"} \X {"two-models"}) \cup {<<"mast-family-mapping", "nine-families">>}
    \cup (Logs \X {"identity"})

\* The chains whose order and labellings meet the conditions.
SoundChains ==
    {m \in Modes :
        /\ InOrder(m) /\ HashesComeLast(m)
        /\ Vouches(m, VouchedBy(Chains[m]))
        /\ InputsAreThere
        /\ \E apart \in {Without(MCReplayed)} :
              StayApart(apart, Replayed) /\ Refreshes(m, RefreshedBy(Chains[m], apart), apart)
        /\ m = "full" =>
              /\ \E apart \in {Without(Measured)}, there \in {ThereAlong(ArtifactCheck)} :
                    /\ StayApart(apart, HandTyped)
                    /\ Measures(m, MeasuredBy(ArtifactCheck, there, apart), there, apart)
              /\ Exposes(m, ExposedBy(ArtifactCheck), Breaks \cup AllBreaks)}

\* The order of the && chains of package.json, with what each script reads,
\* writes and judges, is enough: no script rewrites what was read, every report
\* a gate judged is vouched for at the end, what is published or measured is
\* computed in time, and every break reaches a gate.
ChainsSuffice == run # Idle => run.mode \in SoundChains
=============================================================================
