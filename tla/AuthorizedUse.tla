---------------------------- MODULE AuthorizedUse ----------------------------
(***************************************************************************)
(* What queryMemory and executeAuthorizedAction promise together: an agent  *)
(* reads a view, thinks, and acts, and the action is authorized as if the   *)
(* read and the use were one instant.  An offer remembers the authority a   *)
(* context had when it was read.  It turns into a grant only while the      *)
(* context still has exactly that authority, a grant spends the offer, no   *)
(* offer grants the same action twice, and a granted action is performed at *)
(* most once.  The world changes freely in between.                         *)
(***************************************************************************)
EXTENDS Naturals

CONSTANTS
    Views, Contexts, Actions,
    Allows(_),                 \* the actions an authority value allows
    ReplayMayReset             \* whether something outside may reopen a spent offer

VARIABLES
    authority,   \* what each context may do now
    offer,       \* each view's offer
    granted,     \* the (view, action) pairs authorized so far
    performed    \* the pairs handed to the dispatcher

vars == <<authority, offer, granted, performed>>

\* The offer of a view that was never read.
NoOffer == [status |-> "none"]

Init ==
    /\ offer = [v \in Views |-> NoOffer]
    /\ granted = {}
    /\ performed = {}

IsOpen(v) == offer[v].status = "open"

Offer(v, c) ==
    /\ offer[v] = NoOffer
    /\ offer' = [offer EXCEPT ![v] =
                    [status |-> "open", context |-> c, authority |-> authority[c]]]
    /\ UNCHANGED <<authority, granted, performed>>

\* Open offers end without a use: views expire, or the transaction that
\* prepared them is rolled back and they were never made.
Withdraw(gone, unmade) ==
    /\ \A v \in gone \cup unmade : IsOpen(v)
    /\ offer' = [v \in Views |->
          IF v \in unmade THEN NoOffer
          ELSE IF v \in gone THEN [offer[v] EXCEPT !.status = "gone"]
          ELSE offer[v]]
    /\ UNCHANGED <<granted, performed>>

Grant(v, a) ==
    /\ IsOpen(v)
    /\ offer[v].authority = authority[offer[v].context]
    /\ a \in Allows(offer[v].authority)
    /\ <<v, a>> \notin granted
    /\ granted' = granted \cup {<<v, a>>}
    /\ offer' = [offer EXCEPT ![v].status = "spent"]
    /\ UNCHANGED <<authority, performed>>

Perform(v, a) ==
    /\ <<v, a>> \in granted \ performed
    /\ performed' = performed \cup {<<v, a>>}
    /\ UNCHANGED <<authority, offer, granted>>

\* The replay state of a spent view is set back by something outside the
\* kernel: the offer is open again, what was granted stays granted.
Reopen(v) ==
    /\ ReplayMayReset
    /\ offer[v].status = "spent"
    /\ offer' = [offer EXCEPT ![v].status = "open"]
    /\ UNCHANGED <<authority, granted, performed>>

WorldMoves == UNCHANGED <<offer, granted, performed>>

Next ==
    \/ \E v \in Views, c \in Contexts : Offer(v, c)
    \/ \E gone, unmade \in SUBSET Views : Withdraw(gone, unmade)
    \/ \E v \in Views, a \in Actions : Grant(v, a) \/ Perform(v, a)
    \/ \E v \in Views : Reopen(v)
    \/ WorldMoves

Spec == Init /\ [][Next]_vars
=============================================================================
