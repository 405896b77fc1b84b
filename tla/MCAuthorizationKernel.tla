----------------------- MODULE MCAuthorizationKernel ------------------------
(***************************************************************************)
(* A reader anchored at mb, a child of ma and of md; md is of another task, *)
(* and me a child of mb that is not sent yet.                               *)
(* r is a version of a decision that the reader is served, w a stricter one *)
(* that may be written while a view is out, and u a record of md and of no  *)
(* decision, which only a delegation shows to the reader.  send and remit   *)
(* are external actions of one effect, with a minimum integrity; answer is  *)
(* not external.                                                            *)
(***************************************************************************)
EXTENDS AuthorizationKernel

CONSTANTS ma, mb, md, me, c1, r, u, w, send, remit, answer

MCMsg == [m \in Messages |->
             [run |-> "A", task |-> IF m = md THEN "t2" ELSE "t1", integrity |-> 1,
              parents |-> CASE m = mb -> {ma, md} [] m = me -> {mb} [] OTHER -> {},
              closure |-> CASE m = mb -> {ma, md, mb} [] m = me -> {ma, md, mb, me} [] OTHER -> {m},
              adopts  |-> {}]]

MCRec == [m \in Records |->
             [source |-> IF m = u THEN md ELSE ma, key |-> IF m = u THEN NoKey ELSE "k",
              ceiling |-> CASE m = r -> {{"send", "answer"}} [] m = w -> {{"answer"}} [] m = u -> {{"send"}},
              integrity |-> 1, frontier |-> {}, supersedes |-> {}, readableBy |-> Messages]]

MCCtx  == [c \in Contexts |-> [anchor |-> mb, integrity |-> 1]]
MCTool == [t \in Actions |->
              [effect |-> IF t = answer THEN "answer" ELSE "send", external |-> t # answer,
               known |-> TRUE, minimum |-> IF t = answer THEN 0 ELSE 1]]

FirstMessages == [m \in Messages |-> CASE m = ma -> 1 [] m = md -> 2 [] m = mb -> 5 [] m = me -> 0]
FirstRecords  == [m \in Records |-> CASE m = r -> 3 [] m = u -> 4 [] m = w -> 0]
FirstFree     == [run \in Runs |-> 6]
=============================================================================
