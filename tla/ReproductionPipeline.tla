------------------------ MODULE ReproductionPipeline ------------------------
(***************************************************************************)
(* The reproduction driver (src/reproduce.mjs) over one working tree: a    *)
(* run executes the scripts of its mode one after the other and stops at   *)
(* the first that does not exit with 0.  While it runs, and between runs,  *)
(* people edit the code and the logs, run a script by hand, replace an     *)
(* output, or stop the run.                                                *)
(*                                                                         *)
(* The content of a file is the set of facts it shows: <<f, v>> is version *)
(* v of the input f, <<f, 0>> says that f was missing and something was    *)
(* put in its place.  A file that is not there shows nothing.  What an     *)
(* input breaks is a property of its version, so an output that was not    *)
(* computed again keeps showing what its old inputs showed.                *)
(*                                                                         *)
(* Which scripts and chains there are is a parameter: ReproductionScripts  *)
(* has those of the repository.                                            *)
(***************************************************************************)
EXTENDS Integers, Sequences, FiniteSets

CONSTANTS
    Files,          \* every file a script reads or writes
    Inputs,         \* those no script writes: code, live logs, hand-drawn figures
    Guarantees,     \* what a test or a gate can find broken
    Leak,           \* the guarantee of the anonymisation audit
    Scanned,        \* inputs that audit scans
    Quotes,         \* the part of its report that quotes what it found
    Committed,      \* the files of the clone and what they show
    Chains,         \* the scripts of each mode, in order
    Loose,          \* scripts that are run by hand
    Breaks,         \* <<input, guarantee>>: what an edit may break
    Touchable,      \* outputs that may be replaced by hand
    Manifest,       \* <<hash, figure>>: what a figure manifest records
    Audited,        \* modes that end with the evidence check
    Published,      \* per mode, the outputs it publishes
    Replayed,       \* inputs whose every way to those outputs the mode goes again
    HandTyped,      \* files for which numbers in the source stand in
    Regenerated,    \* guarantees whose gates read what a full run recomputes
    MaxEvents,      \* bound: edits, replacements, scripts by hand, interrupts
    MaxRuns         \* bound: runs of the driver

Versions == 0 .. MaxEvents + 1
Facts == Files \X Versions
Modes == DOMAIN Chains
Idle == [mode |-> "none", at |-> 0]
NoVerdict == [mode |-> "none", green |-> FALSE]

IsScript(s) ==
    /\ s.needs \cup s.expects \cup s.given \subseteq Files \ {Quotes}
    /\ DOMAIN s.writes \subseteq Files \ (Inputs \cup {Quotes})
    /\ \A f \in DOMAIN s.writes : s.writes[f] \in (SUBSET (Files \ {Quotes})) \ {{}}
    /\ s.judges \subseteq Files \X Guarantees
    /\ s.matches \subseteq Files \X Files
    /\ s.audits \in BOOLEAN

Chained == UNION {{Chains[m][i] : i \in DOMAIN Chains[m]} : m \in Modes}

ASSUME PipelineConstants ==
    /\ MaxEvents \in Nat /\ MaxRuns \in Nat
    /\ Inputs \subseteq Files /\ Replayed \subseteq Inputs /\ Scanned \subseteq Inputs
    /\ Quotes \in Files \ Inputs
    /\ Leak \in Guarantees
    /\ Committed \in [Files -> SUBSET Facts]
    /\ Committed[Quotes] = {}
    /\ "none" \notin Modes
    /\ \A m \in Modes : Chains[m] \in Seq(Chained) /\ Len(Chains[m]) > 0
    /\ \A s \in Chained : IsScript(s)
    /\ \A s \in Loose : IsScript(s)
    /\ Audited \subseteq Modes /\ Manifest \subseteq Files \X Files
    /\ Breaks \subseteq Inputs \X Guarantees
    /\ Touchable \subseteq Files \ (Inputs \cup {Quotes})

VARIABLES
    disk,       \* what each file shows
    broken,     \* <<fact, guarantee>>
    run,        \* the mode that runs and the script it is at
    last,       \* the exit of the last run
    touched,    \* someone else wrote since the run started: no, during it, since it ended
    events, runs

vars == <<disk, broken, run, last, touched, events, runs>>

-----------------------------------------------------------------------------
(* What a script does.                                                     *)

Has(d, f) == d[f] # {}

\* What an output shows that is computed from these files.
Content(d, from) == UNION {IF Has(d, f) THEN d[f] ELSE {<<f, 0>>} : f \in from}

Throws(s, d) == \E f \in s.needs : ~Has(d, f)
WritesNow(s, d) == ~Throws(s, d) /\ (s.given = {} \/ \E f \in s.given : Has(d, f))

\* The leaks the audit finds in the logs and in its own last report.
Leaks(d) == {fact \in UNION {d[f] : f \in Scanned \cup {Quotes}} : <<fact, Leak>> \in broken}

After(s, d) ==
    [f \in Files |->
        CASE f = Quotes /\ s.audits -> Leaks(d)
          [] f \in DOMAIN s.writes /\ WritesNow(s, d) -> Content(d, s.writes[f])
          [] OTHER -> d[f]]

HashedFilesExist(s, d) == \A m \in s.matches : Has(d, m[1]) => Has(d, m[2])
HashesMatch(s, d) == \A m \in s.matches : Has(d, m[1]) => d[m[1]] = d[m[2]]

\* Its exit code is 0.
Passes(s, d) ==
    /\ ~Throws(s, d)
    /\ \A f \in s.expects : Has(d, f)
    /\ \A j \in s.judges : \A fact \in d[j[1]] : <<fact, j[2]>> \notin broken
    /\ HashesMatch(s, d)
    /\ s.audits => Leaks(d) = {}

-----------------------------------------------------------------------------
Init ==
    /\ disk = Committed
    /\ broken = {}
    /\ run = Idle
    /\ last = NoVerdict
    /\ touched = "no"
    /\ events = 0
    /\ runs = 0

Start(m) ==
    /\ run = Idle
    /\ runs < MaxRuns
    /\ run' = [mode |-> m, at |-> 1]
    /\ last' = NoVerdict
    /\ touched' = "no"
    /\ runs' = runs + 1
    /\ UNCHANGED <<disk, broken, events>>

PastEnd == run.at > Len(Chains[run.mode])
AtEnd == run.at >= Len(Chains[run.mode])

\* The next script of the chain: && goes on, ends the chain, or stops at a
\* script that does not exit with 0, and the driver exits as that script did.
Step ==
    /\ run # Idle
    /\ LET s == Chains[run.mode][run.at]
       IN  /\ disk' = After(s, disk)
           /\ \/ /\ Passes(s, disk)
                 /\ ~AtEnd
                 /\ run' = [run EXCEPT !.at = @ + 1]
                 /\ UNCHANGED last
              \/ /\ Passes(s, disk)
                 /\ AtEnd
                 /\ run' = Idle
                 /\ last' = [mode |-> run.mode, green |-> TRUE]
              \/ /\ ~Passes(s, disk)
                 /\ run' = Idle
                 /\ last' = [mode |-> run.mode, green |-> FALSE]
    /\ UNCHANGED <<broken, touched, events, runs>>

\* Somebody writes to the working tree.
Event ==
    /\ events < MaxEvents
    /\ events' = events + 1
    /\ touched' = IF run = Idle THEN "since" ELSE "during"
    /\ UNCHANGED <<run, last, runs>>

\* A new version of the code or of a log: it breaks nothing, or one guarantee.
Edit(f, gs) ==
    /\ Event
    /\ disk' = [disk EXCEPT ![f] = {<<f, events + 2>>}]
    /\ broken' = broken \cup ({<<f, events + 2>>} \X gs)

\* An output comes from elsewhere: another checkout, a merge, an editor.
Replace(f) ==
    /\ Event
    /\ disk' = [disk EXCEPT ![f] = {<<f, events + 2>>}]
    /\ UNCHANGED broken

RunAlone(s) ==
    /\ Event
    /\ disk' = After(s, disk)
    /\ UNCHANGED broken

\* A signal stops the run between two scripts.
Interrupt ==
    /\ run # Idle
    /\ events < MaxEvents
    /\ events' = events + 1
    /\ run' = Idle
    /\ last' = [mode |-> run.mode, green |-> FALSE]
    /\ touched' = "since"
    /\ UNCHANGED <<disk, broken, runs>>

Next ==
    \/ \E m \in Modes : Start(m)
    \/ Step
    \/ \E b \in Breaks : Edit(b[1], {}) \/ Edit(b[1], {b[2]})
    \/ \E f \in Touchable : Replace(f)
    \/ \E s \in Loose : RunAlone(s)
    \/ Interrupt

PipelineSpec == Init /\ [][Next]_vars

-----------------------------------------------------------------------------
(* Properties *)

\* The variables have their types.
PipelineTypeOK ==
    /\ disk \in [Files -> SUBSET Facts]
    /\ broken \subseteq Facts \X Guarantees
    /\ \/ run = Idle
       \/ /\ run.mode \in Modes
          /\ run = [mode |-> run.mode, at |-> run.at]
          /\ run.at \in 1 .. Len(Chains[run.mode])
    /\ last \in [mode : Modes \cup {"none"}, green : BOOLEAN]
    /\ last.green => last.mode \in Modes
    /\ touched \in {"no", "during", "since"}
    /\ events \in 0 .. MaxEvents /\ runs \in 0 .. MaxRuns

Green(m) == run = Idle /\ last = [mode |-> m, green |-> TRUE]

Reads(s) == s.needs \cup s.expects \cup s.given \cup UNION {s.writes[f] : f \in DOMAIN s.writes}

\* After a run that was green and that nobody disturbed, executing any of its
\* scripts again changes no file: "regenerated deterministically".
GreenIsFixpoint ==
    \A m \in Modes : Green(m) /\ touched = "no" =>
        \A i \in DOMAIN Chains[m] : After(Chains[m][i], disk) = disk

\* And none of them would now fail: a gate that was judged on the report of
\* an earlier run would not be red on the report this run wrote.
GreenStaysGreen ==
    \A m \in Modes : Green(m) /\ touched = "no" =>
        \A i \in DOMAIN Chains[m] : Passes(Chains[m][i], disk)

\* The last script of an audited mode compares every recorded hash, and writes
\* neither hashes nor figures.
AuditIsLast ==
    \A m \in Audited :
        LET s == Chains[m][Len(Chains[m])]
        IN  /\ s.matches = Manifest
            /\ \A h \in Manifest : {h[1], h[2]} \cap (DOMAIN s.writes \cup {Quotes}) = {}

\* After a green run that ends with the evidence check, and until somebody
\* writes, every figure with a recorded hash has that hash, whatever happened
\* while the run was going on.
GreenMatchesManifest ==
    \A m \in Audited : Green(m) /\ touched # "since" =>
        \A h \in Manifest : Has(disk, h[1]) => disk[h[1]] = disk[h[2]]

\* The published outputs of an undisturbed green run show no version of a
\* replayed input but the current one.
PublishedIsCurrent ==
    \A m \in Modes : Green(m) /\ touched = "no" =>
        \A f \in Published[m] : \A fact \in disk[f] :
            fact[1] \in Replayed => fact \in disk[fact[1]]

\* After an undisturbed green full run no macro shows a number from the source
\* of the script that writes it, where a script of the chain measures it.
NoHandTypedNumbers ==
    Green("full") /\ touched = "no" =>
        \A f \in Files : \A h \in HandTyped : <<h, 0>> \notin disk[f]

\* After an undisturbed green full run no current input breaks a guarantee
\* whose gate reads what the run recomputes.
GreenFullIsSound ==
    Green("full") /\ touched = "no" =>
        \A f \in Inputs : \A fact \in disk[f] :
            \A g \in Regenerated : <<fact, g>> \notin broken

\* A verdict follows from the code and the logs that are there: a run that was
\* red, undisturbed, has a current input that breaks something, or an output
\* that somebody replaced.
RedHasACause ==
    run = Idle /\ last.mode # "none" /\ ~last.green /\ touched = "no" =>
        \/ \E f \in Inputs : \E fact \in disk[f] : \E g \in Guarantees : <<fact, g>> \in broken
        \/ \E f \in Touchable : \E v \in Versions \ {0} : <<f, v>> \in UNION {disk[h] : h \in Files}
=============================================================================
