--------------------------- MODULE InformationFlow ---------------------------
(***************************************************************************)
(* What the execution contexts promise of information, whoever fails:      *)
(* items carry content, a holder takes content in and gives it on, and     *)
(* whatever it gives on is trusted no more than anything it has taken in.  *)
(* A note binds items that together carry all that went into it.  An item  *)
(* gets its content and its trust once; one that is withdrawn does not     *)
(* come back as another, though somebody may hold its content already.  A  *)
(* holder that has been closed gives nothing on.                           *)
(***************************************************************************)
EXTENDS Naturals

CONSTANTS Holders, Items, Levels

VARIABLES
    released,   \* the items that can be taken in
    signed,     \* those that have their content and trust, released or not
    content,    \* whose content each item carries
    trust,      \* how far each item is trusted
    holds,      \* whose content each holder has taken in
    notes,      \* what each note binds and how far it is trusted
    silent      \* the holders that were closed

flowVars == <<released, signed, content, trust, holds, notes, silent>>

Init ==
    /\ released \subseteq Items
    /\ signed = released
    /\ content = [i \in Items |-> {i}]
    /\ trust \in [Items -> Levels]
    /\ holds = [h \in Holders |-> {}]
    /\ notes = {}
    /\ silent = {}

\* What the items from and the holders by bring together.
Together(from, by) == (UNION {content[i] : i \in from}) \cup (UNION {holds[h] : h \in by})

TrustedUpTo(level, origins) == \A o \in origins : level <= trust[o]

Open(h, i) ==
    /\ holds[h] = {}
    /\ h \notin silent
    /\ i \in released
    /\ holds' = [holds EXCEPT ![h] = content[i]]
    /\ UNCHANGED <<released, signed, content, trust, notes, silent>>

Merge(h, k) ==
    /\ {h, k} \cap silent = {}
    /\ holds' = [holds EXCEPT ![h] = @ \cup holds[k]]
    /\ UNCHANGED <<released, signed, content, trust, notes, silent>>

Release(i, from, by, level) ==
    /\ i \notin signed
    /\ from \subseteq released
    /\ by \cap silent = {}
    /\ TrustedUpTo(level, Together(from, by))
    /\ released' = released \cup {i}
    /\ signed' = signed \cup {i}
    /\ content' = [content EXCEPT ![i] = {i} \cup Together(from, by)]
    /\ trust' = [trust EXCEPT ![i] = level]
    /\ UNCHANGED <<holds, notes, silent>>

\* An item that was signed and never came out.
Spoil(i) ==
    /\ i \notin signed
    /\ signed' = signed \cup {i}
    /\ UNCHANGED <<released, content, trust, holds, notes, silent>>

Note(h, bound, level) ==
    /\ h \notin silent
    /\ holds[h] \subseteq UNION {content[i] : i \in bound}
    /\ TrustedUpTo(level, holds[h])
    /\ notes' = notes \cup {[binds |-> bound, trust |-> level]}
    /\ UNCHANGED <<released, signed, content, trust, holds, silent>>

Silence(h) ==
    /\ silent' = silent \cup {h}
    /\ UNCHANGED <<released, signed, content, trust, holds, notes>>

\* Outputs of a transaction that is rolled back.  What was taken in stays in.
Withdraw ==
    /\ released' \subseteq released
    /\ notes' \subseteq notes
    /\ UNCHANGED <<signed, content, trust, holds, silent>>

Next ==
    \/ Withdraw
    \/ \E h \in Holders :
          \/ \E i \in released : Open(h, i)
          \/ \E k \in Holders : Merge(h, k)
          \/ Silence(h)
          \/ \E bound \in SUBSET Items, level \in Levels : Note(h, bound, level)
    \/ \E i \in Items \ signed :
          \/ Spoil(i)
          \/ \E from \in SUBSET released, by \in SUBSET Holders, level \in Levels :
                Release(i, from, by, level)

Spec == Init /\ [][Next]_flowVars
=============================================================================
