--------------------------- MODULE MCSharedMemory ---------------------------
(***************************************************************************)
(* Two branches of one run that merge, and a second run that uses the same  *)
(* key.  b1, b2 and d fork from root a, d for another task; j merges all of *)
(* them and adopts r2 and r3, and claims no integrity, so it may be stored  *)
(* before d; x is the root of the other run.  r1, r2 and r3 are versions of *)
(* one decision: r1 from the root, r3 supersedes it on one branch, r2       *)
(* rivals both on the other.  r4 is a version of the other task, rx a       *)
(* version in the other run, and u a record of no decision.                 *)
(***************************************************************************)
EXTENDS SharedMemory

CONSTANTS a, b1, b2, d, j, x, r1, r2, r3, r4, rx, u

Parents(m) == (CASE m \in {a, x} -> {} [] m = j -> {b1, b2, d} [] OTHER -> {a}) \cap Messages

MCMsg ==
    [m \in Messages |->
        [run       |-> IF m = x THEN "B" ELSE "A",
         task      |-> IF m = d THEN "t2" ELSE "t1",
         integrity |-> IF m \in {a, d, x} THEN 2 ELSE IF m = j THEN 0 ELSE 1,
         parents   |-> Parents(m),
         closure   |-> {m} \cup Parents(m) \cup (IF m = j THEN {a} \cap Messages ELSE {}),
         adopts    |-> (IF m = j THEN {r2, r3} ELSE {}) \cap Records]]

Version(src, ceil, int) ==
    [source |-> src, key |-> "k", ceiling |-> ceil, integrity |-> int,
     frontier |-> {}, supersedes |-> {}, readableBy |-> Messages]

MCRec ==
    [r \in Records |->
        CASE r = r1 -> Version(a, {{"send"}}, 1)
          [] r = r2 -> Version(b2, {{"send", "answer"}}, 1)
          [] r = r3 -> [Version(b1, {}, 1) EXCEPT !.supersedes = {r1} \cap Records]
          [] r = r4 -> [Version(d, {{"answer"}}, 2) EXCEPT !.readableBy = {d, j} \cap Messages]
          [] r = rx -> Version(x, {{}}, 1)
          [] r = u  -> [Version(a, {}, 1) EXCEPT !.key = NoKey]]

\* The root wrote r1 and u, then the branches were sent; the merge is not.
ForkSent  == [m \in Messages |-> CASE m \in {a, x} -> 1 [] m = b1 -> 3 [] m = b2 -> 4
                                   [] m = d -> 5 [] m = j -> 0]
Written   == [r \in Records |-> IF r \in {r1, u} THEN 2 ELSE 0]
AfterFork == [run \in Runs |-> 6]

\* The other branch wrote r2 as well, and the other task's was not sent: the
\* merge may come before it.
LateBranch == [ForkSent EXCEPT ![d] = 0]
WrittenTwo == [r \in Records |-> CASE r = r1 -> 2 [] r = r2 -> 5 [] OTHER -> 0]
=============================================================================
