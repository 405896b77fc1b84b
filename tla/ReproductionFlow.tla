--------------------------- MODULE ReproductionFlow ---------------------------
(***************************************************************************)
(* What the scripts and the chains alone say of a run nobody disturbs: a   *)
(* dataflow analysis along each chain of src/package.json.  A labelling    *)
(* gives each chain, after each number of its scripts, a set of files (or  *)
(* pairs) of which something is known then; the conditions below say that  *)
(* it follows script by script, from what is known before the first one,   *)
(* and that enough is known at the end.  ReproductionFlow_proofs shows     *)
(* what each condition implies for PipelineSpec, and                       *)
(* MCReproductionPipeline computes the labellings of the repository.       *)
(***************************************************************************)
EXTENDS ReproductionPipeline

Positions(m) == 1 .. Len(Chains[m])

-----------------------------------------------------------------------------
(* The order of a chain.                                                    *)

\* No script rewrites what it or an earlier script of its chain computed
\* something from, and one that writes an output of an earlier one computes it
\* from the same files.
InOrder(m) ==
    \A j \in Positions(m) : \A i \in 1 .. j :
        LET s == Chains[m][j]
            e == Chains[m][i]
        IN  /\ Reads(e) \cap DOMAIN s.writes = {}
            /\ \A f \in DOMAIN e.writes \cap DOMAIN s.writes : e.writes[f] = s.writes[f]

\* A recorded hash that was compared with a file is not written any more, nor
\* is the file.
HashesComeLast(m) ==
    \A j \in Positions(m) : \A i \in 1 .. j : \A h \in Chains[m][i].matches :
        {h[1], h[2]} \cap (DOMAIN Chains[m][j].writes \cup {Quotes}) = {}

-----------------------------------------------------------------------------
(* What is known after a script that passed.                                *)

\* Files that show nothing of some kind, if those of known did not before s: s
\* leaves them alone or computes them from such files.  The absence of a file
\* of the set absent would itself show, so s has to need it.
CleanAfter(s, known, absent) ==
    {f \in Files \ {Quotes} :
        /\ f \notin DOMAIN s.writes \/ s.given # {} => f \in known
        /\ f \in DOMAIN s.writes => /\ s.writes[f] \subseteq known
                                   /\ s.writes[f] \cap absent \subseteq s.needs}

\* Files that exist: what s needs and what it writes without a condition.
ThereAfter(s, there) ==
    there \cup s.needs \cup (IF s.given = {} THEN DOMAIN s.writes ELSE {})

\* <<input, file>>: the file shows all that the input shows.
ShowsAfter(s, shows) ==
    {p \in Inputs \X (Files \ {Quotes}) :
        /\ p[2] \notin DOMAIN s.writes \/ s.given # {} => p \in shows
        /\ p[2] \in DOMAIN s.writes => \E h \in s.writes[p[2]] : <<p[1], h>> \in shows}

\* <<file, guarantee>>: the file shows nothing that breaks the guarantee.
VouchedAfter(s, vouched) ==
    UNION {CleanAfter(s, {f \in Files : <<f, g>> \in vouched \cup s.judges}, {}) \X {g} :
              g \in Guarantees}

\* No script, in a chain or by hand, ever carries anything of the inputs or
\* outputs R into the files of apart.
StayApart(apart, R) ==
    /\ apart \subseteq Files \ (R \cup {Quotes})
    /\ \A f \in apart : \A fact \in Committed[f] : fact[1] \notin R
    /\ \A s \in Chained \cup Loose : \A f \in DOMAIN s.writes \cap apart : s.writes[f] \subseteq apart

-----------------------------------------------------------------------------
(* The labellings.                                                          *)

\* Whatever a script of the chain judged is still, or again, vouched for at the
\* end, also where a later script wrote the report anew.
Vouches(m, V) ==
    /\ V[0] = {}
    /\ \A i \in Positions(m) : /\ V[i] \subseteq VouchedAfter(Chains[m][i], V[i - 1])
                               /\ Chains[m][i].judges \subseteq V[Len(Chains[m])]

\* The inputs show themselves, and those that are replayed are there.
InputsAreThere ==
    /\ \A f \in Inputs : \A fact \in Committed[f] : fact[1] = f
    /\ \A f \in Replayed : Committed[f] # {}

\* Every published output has been computed, on every way from a replayed
\* input, from the version that is there.
Refreshes(m, L, apart) ==
    /\ L[0] \subseteq Inputs \cup apart
    /\ \A i \in Positions(m) : L[i] \subseteq CleanAfter(Chains[m][i], L[i - 1], {})
    /\ Published[m] \subseteq L[Len(Chains[m])]

\* Whatever may show a number typed into a script is computed again, after
\* what is measured was.
Measures(m, L, there, apart) ==
    /\ L[0] \subseteq apart /\ there[0] = {}
    /\ \A i \in Positions(m) :
          /\ there[i] \subseteq ThereAfter(Chains[m][i], there[i - 1])
          /\ L[i] \subseteq CleanAfter(Chains[m][i], L[i - 1], HandTyped \ there[i - 1])
    /\ Files \ {Quotes} \subseteq L[Len(Chains[m])]

\* Each guarantee an edit of an input may break is judged on a file that shows
\* the input as it is, or the audit scans the input.
Exposes(m, S, breaks) ==
    /\ S[0] \subseteq {<<f, f>> : f \in Inputs}
    /\ \A i \in Positions(m) : S[i] \subseteq ShowsAfter(Chains[m][i], S[i - 1])
    /\ \A b \in breaks : b[2] \in Regenerated =>
          \E i \in Positions(m) :
              \/ \E f \in Files : <<f, b[2]>> \in Chains[m][i].judges /\ <<b[1], f>> \in S[i - 1]
              \/ Chains[m][i].audits /\ b[2] = Leak /\ b[1] \in Scanned
=============================================================================
