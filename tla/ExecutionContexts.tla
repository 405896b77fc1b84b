------------------------- MODULE ExecutionContexts --------------------------
(***************************************************************************)
(* The execution contexts of one deployment: a worker claims a message,     *)
(* which locks it and opens a context; attaches further contexts of its own *)
(* to it; sends messages and writes records out of it; and closes it        *)
(* (control_plane.mjs 241-683, runtime.mjs 932-1368).  The question is what *)
(* a context's outputs are bound to: what was consumed, how far it was      *)
(* trusted, and who held the lock.                                          *)
(*                                                                          *)
(* The control plane's memory is the authority and the rows are a mirror    *)
(* for a restart, so both are state here and every fault that parts them is *)
(* an action: a statement that fails after the memory moved, a destination  *)
(* policy whose transaction is rolled back, a crash.                        *)
(*                                                                          *)
(* All messages are of one run, every principal may serve every queue, and  *)
(* sequences are left out (SharedMemory has them).  A context's version,    *)
(* MAC and anchor only detect a store altered from outside, which no action *)
(* here does, so a restart takes each row as it is.                         *)
(***************************************************************************)
EXTENDS Integers, FiniteSets

CONSTANTS
    Messages,       \* message ids
    Seeded,         \* messages stored at the start, roots all
    SeededLabel,    \* their signed integrity
    Principals,     \* authenticated principals
    Operators,      \* those who may use the ingress
    Nobody,         \* locked_by of a message nobody has claimed
    Clearance,      \* clearance of each principal
    Contexts,       \* context ids; each is used once
    NoContext,      \* an ingress message sent under no context
    NoMessage,      \* current event of a context that does not exist
    NoPolicy,       \* no destination policy is running
    Requested,      \* integrity levels a sender asks for
    MaxRecords,     \* bound: records written
    MaxTakeovers,   \* bound: locks taken by the unguarded claim
    MaxFaults,      \* bound: SQL statements that fail
    MaxRefused,     \* bound: outputs refused after they were composed
    MaxPolicies,    \* bound: destination policies that run
    MaxCrashes      \* bound: crashes

Levels == 0..2

ASSUME ContextConstants ==
    /\ Seeded \subseteq Messages
    /\ SeededLabel \in [Seeded -> Levels]
    /\ Operators \subseteq Principals
    /\ Clearance \in [Principals -> Levels]
    /\ Requested \subseteq Levels
    /\ Nobody \notin Principals /\ NoContext \notin Contexts /\ NoMessage \notin Messages

VARIABLES
    stored,      \* messages with a row
    lost,        \* message ids composed for a row that was never committed
    label,       \* signed integrity of each message
    parents,     \* signed parents of each message
    queue,       \* message_queue: locked_by and lock_generation
    records,     \* shared_memory rows
    row,         \* execution_contexts and execution_inputs rows
    ctx,         \* the control plane's contexts, in memory
    lease,       \* the lease that opened each context, in memory
    frozen,      \* attachedElsewhere, in memory
    policy,      \* NoPolicy, or the tables a rollback of the open call restores
    consumed,    \* history: messages whose content each context has taken in
    carries,     \* history: messages whose content each message carries
    attached,    \* history: <<c, d>> when attaching d to c succeeded
    closed,      \* history: contexts whose close succeeded
    setBack,     \* history: contexts whose row a rollback set back, not saved since
    torn,        \* history: contexts a restart restored from such a row
    unlocked,    \* history: messages whose lock a rollback set back
    faults       \* how often each fault has happened

durableVars == <<stored, label, parents, queue, records, row>>
memoryVars  == <<ctx, lease, frozen>>
historyVars == <<consumed, carries, attached, closed, setBack, torn, unlocked>>
contextVars == <<durableVars, lost, memoryVars, policy, historyVars, faults>>

-----------------------------------------------------------------------------
(* What the code computes.                                                  *)

\* Math.min over the levels of S; S is never empty.
Meet(S) == CHOOSE l \in S : \A k \in S : l <= k

Unused == [state |-> "none", principal |-> Nobody, claimed |-> NoMessage,
           inputs |-> {}, integrity |-> 0, event |-> NoMessage]

NoLease == [live |-> FALSE, generation |-> 0]

Active(c) == ctx[c].state = "active"

\* Mutant: lock_generation is left alone.
RelockedSame(m, p) == [queue EXCEPT ![m].owner = p]

\* The UPDATE of a claim.
Relocked(m, p) == [queue EXCEPT ![m] = [owner |-> p, generation |-> @.generation + 1]]

\* #assertLeaseFresh of the lease that opened c, and its revoked flag.
Fresh(c) ==
    /\ lease[c].live
    /\ queue[ctx[c].claimed].owner = ctx[c].principal
    /\ queue[ctx[c].claimed].generation = lease[c].generation

\* createExecutionContext.
Opened(p, m) ==
    [state |-> "active", principal |-> p, claimed |-> m, inputs |-> {m},
     integrity |-> Meet({Clearance[p], label[m]}), event |-> m]

\* Mutant: only the primary message is folded.
FoldedPrimary(c, d) ==
    [ctx[c] EXCEPT !.inputs = @ \cup {ctx[d].claimed},
                   !.integrity = Meet({@, label[ctx[d].claimed]})]

\* attachContextInput: the inputs c lacks are folded in one by one, then the
\* accumulated integrity of d.
Folded(c, d) ==
    [ctx[c] EXCEPT !.inputs = @ \cup ctx[d].inputs,
                   !.integrity = Meet({@, ctx[d].integrity}
                                      \cup {label[m] : m \in ctx[d].inputs \ ctx[c].inputs})]

\* Mutant: nothing but the source is bound.
NoFrontier(c) == {}

\* contextInputFrontierForLease, without the record's source.
Frontier(c) == ctx[c].inputs \ {ctx[c].claimed}

\* What the messages of S bring along, and what c was told it took in; nothing
\* for NoContext.
Carried(S) == UNION {carries[m] : m \in S}
Taken(c)   == UNION {consumed[k] : k \in {c} \cap Contexts}

-----------------------------------------------------------------------------
ContextInit ==
    /\ stored = Seeded
    /\ lost = {}
    /\ label = [m \in Messages |-> IF m \in Seeded THEN SeededLabel[m] ELSE 0]
    /\ parents = [m \in Messages |-> {}]
    /\ queue = [m \in Messages |-> [owner |-> Nobody, generation |-> 0]]
    /\ records = {}
    /\ row = [c \in Contexts |-> Unused]
    /\ ctx = row
    /\ lease = [c \in Contexts |-> NoLease]
    /\ frozen = {}
    /\ policy = NoPolicy
    /\ consumed = [c \in Contexts |-> {}]
    /\ carries = [m \in Messages |-> {m}]
    /\ attached = {}
    /\ closed = {}
    /\ setBack = {}
    /\ torn = {}
    /\ unlocked = {}
    /\ faults = [takeovers |-> 0, failed |-> 0, refused |-> 0, policies |-> 0, crashes |-> 0]

Happens(fault, bound) ==
    /\ faults[fault] < bound
    /\ faults' = [faults EXCEPT ![fault] = @ + 1]

\* Mutants: execution_inputs keeps the rows of the first call; the state stays
\* as it was inserted; the integrity does.
SavedFirstInputs(c) == [row EXCEPT ![c] = [ctx'[c] EXCEPT !.inputs = row[c].inputs]]
SavedFirstState(c) == [row EXCEPT ![c] = [ctx'[c] EXCEPT !.state = row[c].state]]
SavedFirstIntegrity(c) == [row EXCEPT ![c] = [ctx'[c] EXCEPT !.integrity = row[c].integrity]]

\* The row _persistContext leaves of c's new state.
SavedRow(c) == [row EXCEPT ![c] = ctx'[c]]

\* _persistContext.  Its own BEGIN IMMEDIATE can fail, when another process
\* holds the database; inside a policy's transaction there is none.  The caller
\* then gets an exception and the memory keeps the new state.
Persist(c, saved) ==
    IF saved THEN row' = SavedRow(c) /\ setBack' = setBack \ {c} /\ UNCHANGED faults
             ELSE policy = NoPolicy /\ Happens("failed", MaxFaults) /\ UNCHANGED <<row, setBack>>

-----------------------------------------------------------------------------
(* The worker's calls.                                                      *)

\* claim and claimSpecific lock a pending message; they and leaseFor lease a
\* message whose lock the caller holds.
LockFor(p, m) ==
    \/ queue[m].owner = Nobody /\ queue' = Relocked(m, p)
    \/ queue[m].owner = p /\ UNCHANGED queue

Claim(p, m, c) ==
    /\ m \in stored
    /\ consumed[c] = {}
    /\ LockFor(p, m)
    /\ ctx' = [ctx EXCEPT ![c] = Opened(p, m)]
    /\ lease' = [lease EXCEPT ![c] = [live |-> TRUE, generation |-> queue'[m].generation]]
    /\ row' = [row EXCEPT ![c] = ctx'[c]]
    /\ consumed' = [consumed EXCEPT ![c] = {m}]
    /\ UNCHANGED <<stored, lost, label, parents, records, frozen, policy, carries,
                   attached, closed, setBack, torn, unlocked, faults>>

\* The lock is committed and the context's row fails: the caller gets an
\* exception and no token, so the context in memory is out of reach.
ClaimCutShort(p, m) ==
    /\ m \in stored
    /\ policy = NoPolicy
    /\ LockFor(p, m)
    /\ Happens("failed", MaxFaults)
    /\ UNCHANGED <<stored, lost, label, parents, records, row, memoryVars, policy, historyVars>>

\* Mutant: the freeze is not looked at.
AcceptsAny(c) == TRUE

\* A context that was attached takes no further input.
Accepts(c) == c \notin frozen

\* attachInput and attachInputByContext: d is named by its lease.
Attach(c, d, saved) ==
    /\ Active(c)
    /\ Accepts(c)
    /\ ctx[d].principal = ctx[c].principal
    /\ Fresh(d)
    /\ ctx' = [ctx EXCEPT ![c] = Folded(c, d)]
    /\ frozen' = frozen \cup {d}
    /\ Persist(c, saved)
    /\ consumed' = IF saved THEN [consumed EXCEPT ![c] = @ \cup consumed[d]] ELSE consumed
    /\ attached' = IF saved THEN attached \cup {<<c, d>>} ELSE attached
    /\ UNCHANGED <<stored, lost, label, parents, queue, records, lease, policy, carries, closed,
                   torn, unlocked>>

\* Mutant: the sender's clearance stands in for what its context took in.
SentByClearance(c, level) == Meet({Clearance[ctx[c].principal], level})

SentLabel(c, level) == Meet({ctx[c].integrity, level})

\* send, composed by composeSend: the child of c's current event, which it
\* replaces.  No lease is asked for.
Send(c, m, level) ==
    /\ Active(c)
    /\ ctx[c].event \in stored
    /\ m \in Messages \ (stored \cup lost)
    /\ stored' = stored \cup {m}
    /\ label' = [label EXCEPT ![m] = SentLabel(c, level)]
    /\ parents' = [parents EXCEPT ![m] = {ctx[c].event}]
    /\ ctx' = [ctx EXCEPT ![c].event = m]
    /\ row' = [row EXCEPT ![c] = ctx'[c]]
    /\ carries' = [carries EXCEPT ![m] = {m} \cup Carried(consumed[c])]
    /\ setBack' = setBack \ {c}
    /\ UNCHANGED <<lost, queue, records, lease, frozen, policy, consumed, attached, closed,
                   torn, unlocked, faults>>

\* The composed envelope is refused by requireEnvelope (an empty state), or
\* its insert fails (a receiver that is not a string), after composeSend has
\* advanced the context.
SendRefused(c, m) ==
    /\ Active(c)
    /\ ctx[c].event \in stored
    /\ m \in Messages \ (stored \cup lost)
    /\ ctx' = [ctx EXCEPT ![c].event = m]
    /\ lost' = lost \cup {m}
    /\ Happens("refused", MaxRefused)
    /\ UNCHANGED <<durableVars, lease, frozen, policy, historyVars>>

\* sendMessage, the ingress of an operator: parents of the caller's choice, a
\* missing one counting as untrusted, and a context's integrity if one is named.
SendMessage(p, m, from, via, level) ==
    /\ p \in Operators
    /\ m \in Messages \ (stored \cup lost)
    /\ via # NoContext => Active(via) /\ ctx[via].principal = p
    /\ stored' = stored \cup {m}
    /\ label' = [label EXCEPT ![m] =
           Meet({Clearance[p], level} \cup {IF n \in stored THEN label[n] ELSE 0 : n \in from}
                \cup {ctx[c].integrity : c \in {via} \cap Contexts})]
    /\ parents' = [parents EXCEPT ![m] = from]
    /\ carries' = [carries EXCEPT ![m] = {m} \cup Carried((from \cap stored) \cup Taken(via))]
    /\ UNCHANGED <<lost, queue, records, row, memoryVars, policy, consumed, attached, closed,
                   setBack, torn, unlocked, faults>>

\* writeMemory under the lease of c.
Write(c) ==
    /\ Fresh(c)
    /\ Active(c)
    /\ Cardinality(records) < MaxRecords
    /\ records' = records \cup {[source |-> ctx[c].claimed, frontier |-> Frontier(c),
                                 integrity |-> ctx[c].integrity, consumed |-> consumed[c]]}
    /\ UNCHANGED <<stored, lost, label, parents, queue, row, memoryVars, policy,
                   historyVars, faults>>

\* Closing a context revokes its lease.
Revoked(c) == [lease EXCEPT ![c].live = FALSE]

\* complete and abort.
Close(c, saved) ==
    /\ Active(c)
    /\ ctx' = [ctx EXCEPT ![c].state = "closed"]
    /\ lease' = Revoked(c)
    /\ Persist(c, saved)
    /\ closed' = IF saved THEN closed \cup {c} ELSE closed
    /\ UNCHANGED <<stored, lost, label, parents, queue, records, frozen, policy,
                   consumed, carries, attached, torn, unlocked>>

-----------------------------------------------------------------------------
(* What happens around the worker.                                          *)

\* claimNextMessage, which the secure runtime inherits, updates the row it
\* selected without asking again whether it is pending: run in another process
\* between the two, it takes the lock from whoever claimed the message since.
TakeOver(m, q) ==
    /\ policy = NoPolicy
    /\ m \in stored
    /\ Happens("takeovers", MaxTakeovers)
    /\ queue' = Relocked(m, q)
    /\ UNCHANGED <<stored, lost, label, parents, records, row, memoryVars, policy, historyVars>>

\* executeAuthorizedAction calls the destination policy inside its transaction,
\* and the policy may call the runtime.
BeginPolicy ==
    /\ policy = NoPolicy
    /\ Happens("policies", MaxPolicies)
    /\ policy' = [stored |-> stored, queue |-> queue, records |-> records, row |-> row]
    /\ UNCHANGED <<durableVars, lost, memoryVars, historyVars>>

CommitPolicy ==
    /\ policy # NoPolicy
    /\ policy' = NoPolicy
    /\ UNCHANGED <<durableVars, lost, memoryVars, historyVars, faults>>

\* The tables are restored; the control plane's memory is not.
RollbackPolicy ==
    /\ policy # NoPolicy
    /\ policy' = NoPolicy
    /\ stored' = policy.stored
    /\ lost' = lost \cup (stored \ policy.stored)
    /\ queue' = policy.queue
    /\ records' = policy.records
    /\ row' = policy.row
    /\ setBack' = setBack \cup {c \in Contexts : row'[c].state # "none" /\ row'[c] # row[c]}
    /\ unlocked' = unlocked \cup {m \in Messages : queue'[m] # queue[m]}
    /\ UNCHANGED <<label, parents, memoryVars, consumed, carries, attached, closed, torn, faults>>

\* The process dies and a new one restores the contexts from their rows
\* (seedContexts); leases and the frozen marks were only in memory.  A crash
\* inside a policy leaves what a rollback and then a crash leave.
Crash ==
    /\ policy = NoPolicy
    /\ Happens("crashes", MaxCrashes)
    /\ ctx' = row
    /\ lease' = [c \in Contexts |-> NoLease]
    /\ frozen' = {}
    /\ torn' = torn \cup setBack
    /\ setBack' = {}
    /\ UNCHANGED <<durableVars, lost, policy, consumed, carries, attached, closed, unlocked>>

ContextNext ==
    \/ \E p \in Principals, m \in Messages :
          \/ \E c \in Contexts : Claim(p, m, c)
          \/ ClaimCutShort(p, m)
          \/ TakeOver(m, p)
          \/ \E from \in SUBSET Messages, via \in Contexts \cup {NoContext}, level \in Requested :
                SendMessage(p, m, from, via, level)
    \/ \E c \in Contexts :
          \/ \E d \in Contexts, saved \in BOOLEAN : Attach(c, d, saved)
          \/ \E m \in Messages : SendRefused(c, m) \/ \E level \in Requested : Send(c, m, level)
          \/ Write(c)
          \/ \E saved \in BOOLEAN : Close(c, saved)
    \/ BeginPolicy
    \/ CommitPolicy
    \/ RollbackPolicy
    \/ Crash

ContextSpec == ContextInit /\ [][ContextNext]_contextVars

-----------------------------------------------------------------------------
(* What the contexts promise.                                               *)

ContextRecord == [state : {"none", "active", "closed"}, principal : Principals \cup {Nobody},
                  claimed : Messages \cup {NoMessage}, inputs : SUBSET Messages,
                  integrity : Levels, event : Messages \cup {NoMessage}]
Queue  == [Messages -> [owner : Principals \cup {Nobody}, generation : Nat]]
Record == [source : Messages, frontier : SUBSET Messages, integrity : Levels,
           consumed : SUBSET Messages]

\* Every variable has its type, and a context has its claimed message among its
\* inputs, where resolveReadContext looks for it (schema.mjs, and
\* control_plane.mjs 500-520 and 632).
WellFormed(k) == k.state # "none" => k.claimed \in k.inputs

ContextTypeOK ==
    /\ \A c \in Contexts :
          /\ WellFormed(ctx[c]) /\ WellFormed(row[c])
          /\ policy # NoPolicy => WellFormed(policy.row[c])
    /\ stored \subseteq Messages /\ lost \subseteq Messages
    /\ label \in [Messages -> Levels] /\ parents \in [Messages -> SUBSET Messages]
    /\ queue \in Queue /\ records \subseteq Record
    /\ row \in [Contexts -> ContextRecord] /\ ctx \in [Contexts -> ContextRecord]
    /\ lease \in [Contexts -> [live : BOOLEAN, generation : Nat]]
    /\ frozen \subseteq Contexts
    /\ policy # NoPolicy =>
          policy \in [stored : SUBSET Messages, queue : Queue, records : SUBSET Record,
                      row : [Contexts -> ContextRecord]]
    /\ consumed \in [Contexts -> SUBSET Messages] /\ carries \in [Messages -> SUBSET Messages]
    /\ attached \subseteq Contexts \X Contexts /\ closed \subseteq Contexts
    /\ setBack \subseteq Contexts /\ torn \subseteq Contexts /\ unlocked \subseteq Messages
    /\ faults \in [{"takeovers", "failed", "refused", "policies", "crashes"} -> Nat]

\* Nothing a context puts out is trusted more than anything that flowed into
\* it, over any number of attaches, messages and further contexts ("a derived
\* message is never more trusted than the inputs the execution consumed",
\* control_plane.mjs 349-350).
NoLaundering ==
    /\ \A m \in stored : \A o \in carries[m] : label[m] <= label[o]
    /\ \A r \in records : \A m \in r.consumed : \A o \in carries[m] : r.integrity <= label[o]

\* A record binds every message its context had consumed when it was written
\* (writeMemory's source_message_id and input_frontier).
RecordsBindInputs ==
    \A r \in records : r.consumed \subseteq {r.source} \cup r.frontier

\* A context that took in another holds all the other holds and is trusted no
\* more, for as long as both can be used: the snapshot of an attach never goes
\* stale (attachContextInput's freeze, control_plane.mjs 527-533).
FoldIsCurrent ==
    \A pair \in attached :
        Active(pair[1]) /\ Active(pair[2]) =>
            /\ ctx[pair[2]].inputs \subseteq ctx[pair[1]].inputs
            /\ ctx[pair[1]].integrity <= ctx[pair[2]].integrity

\* Once complete or abort has returned, the context can neither act nor be
\* attached again, whatever fails or restarts afterwards (runtime.mjs 1203-1204),
\* unless a restart finds its row where a rollback put it.
ClosedIsSilent == \A c \in closed \ torn : ~Active(c) /\ ~lease[c].live

\* What a worker was told its context has taken in stays among the inputs and
\* bounds the integrity, also when the context is restored from its row ("it is
\* monotone non-increasing", "so the durable profile can restore it",
\* control_plane.mjs 432-437).
ConsumedStaysBound ==
    \A c \in Contexts : Active(c) =>
        \A m \in consumed[c] : m \in ctx[c].inputs /\ ctx[c].integrity <= label[m]

\* A lease that has lost its lock never counts as holding it again, although the
\* same worker may claim the message once more (lock_generation, runtime.mjs
\* 379-380), unless a rollback takes the lock itself back.
StaleStaysStale ==
    [][\A c \in Contexts : consumed[c] # {} /\ ~Fresh(c) =>
            ~Fresh(c)' \/ ctx[c].claimed \in unlocked']_contextVars

-----------------------------------------------------------------------------
(* What carries the promises from step to step.                             *)

\* Messages whose envelope was signed; a label never changes afterwards.
Signed == stored \cup lost

\* A context is bounded by the label of every input it names.
Sound(k) ==
    k.state # "none" =>
        /\ k.inputs \subseteq Signed
        /\ \A m \in k.inputs : k.integrity <= label[m]

SoundRecord(r) ==
    /\ r.consumed \subseteq Signed \cap ({r.source} \cup r.frontier)
    /\ \A m \in r.consumed : r.integrity <= label[m]

\* Labels bound what messages carry, what contexts took in, what records bind,
\* and what a rollback would bring back.
CarriedBounded ==
    \A m \in Messages : /\ carries[m] \subseteq Signed \cup {m}
                         /\ \A o \in carries[m] : label[m] <= label[o]
ContextsSound ==
    \A c \in Contexts : Sound(ctx[c]) /\ Sound(row[c]) /\ consumed[c] \subseteq Signed
RecordsSound == \A r \in records : SoundRecord(r)
RollbackSound ==
    policy # NoPolicy => /\ \A c \in Contexts : Sound(policy.row[c])
                         /\ \A r \in policy.records : SoundRecord(r)

FlowIsBounded == CarriedBounded /\ ContextsSound /\ RecordsSound /\ RollbackSound

\* A context that exists anywhere was claimed; its lease lives only as long as it
\* is active; once closed it stays closed, and so does its row until a rollback
\* sets it back.
ClaimedOnce ==
    \A c \in Contexts :
        /\ consumed[c] = {} =>
              /\ ctx[c].state = "none" /\ row[c].state = "none" /\ c \notin closed
              /\ policy # NoPolicy => policy.row[c].state = "none"
        /\ lease[c].live => Active(c) /\ ctx[c].principal \in Principals
        /\ c \in closed \ torn => ~Active(c) /\ (c \notin setBack => row[c].state # "active")

\* A context in memory names all it was told to consume, and so does its row
\* until a rollback sets it back.
MemoryKeeps ==
    \A c \in Contexts : ctx[c].state # "none" => consumed[c] \subseteq ctx[c].inputs
RowsKeep ==
    \A c \in Contexts \ setBack : row[c].state # "none" => consumed[c] \subseteq row[c].inputs

\* Until a crash, what was attached is frozen, and each attach is current.
FrozenHolds ==
    faults["crashes"] = 0 =>
        \A pair \in attached :
            /\ pair[2] \in frozen
            /\ consumed[pair[1]] # {} /\ consumed[pair[2]] # {}
            /\ ctx[pair[2]].inputs \subseteq ctx[pair[1]].inputs
            /\ ctx[pair[1]].integrity <= ctx[pair[2]].integrity

ContextInv ==
    /\ ContextTypeOK /\ ClaimedOnce /\ FrozenHolds
    /\ torn = {} => FlowIsBounded /\ MemoryKeeps /\ RowsKeep

\* As long as its lock was not set back by a rollback, a lease of the lock's
\* generation is its owner's.
LocksMoveOn ==
    \A c \in Contexts : lease[c].live /\ ctx[c].claimed \notin unlocked =>
        /\ lease[c].generation <= queue[ctx[c].claimed].generation
        /\ lease[c].generation = queue[ctx[c].claimed].generation =>
              queue[ctx[c].claimed].owner = ctx[c].principal

-----------------------------------------------------------------------------
(* What the contexts implement.                                             *)

Flow == INSTANCE InformationFlow WITH
    Holders  <- Contexts,
    Items    <- Messages,
    released <- stored,
    signed   <- Signed,
    content  <- carries,
    trust    <- label,
    holds    <- [c \in Contexts |-> Carried(consumed[c])],
    notes    <- {[binds |-> {r.source} \cup r.frontier, trust |-> r.integrity] : r \in records},
    silent   <- closed

\* Claims, attaches, sends, writes and closes do what InformationFlow allows,
\* and failures, refusals, rollbacks and restarts do nothing it does not: what
\* a worker puts out is bounded and bound by all it was told it took in.
FlowIsControlled == Flow!Spec
=============================================================================
