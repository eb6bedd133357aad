------------------------------- MODULE Outbox -------------------------------
(***************************************************************************)
(* Command delivery: engine/command_handler.py (send_command_to_client,    *)
(* broadcast_command, flush_outbox) over the command_log of                *)
(* engine/database.py and the connections of Sessions, down to the command *)
(* listener of the Client Agent.                                           *)
(*                                                                         *)
(* command_log is a sequence: a row's index is its id, and stands for the  *)
(* command_id minted with it.  A broadcast is one Issue per target.        *)
(***************************************************************************)
EXTENDS Sessions, Sequences

CONSTANTS
    Durable,        \* the types in DURABLE_COMMANDS
    Transient,      \* the other command types
    Large,          \* types whose commands may exceed what a transport buffers
    RetentionFirst, \* ENGINE_RETENTION_DAYS is set below ENGINE_OUTBOX_TTL
    MaxLog,         \* bound: commands ever issued
    MaxDamage,      \* bound: rows whose stored parameters become unreadable
    MaxRestarts     \* bound: restarts of the Engine

ASSUME OutboxAssumption ==
    /\ Durable \cap Transient = {}
    /\ RetentionFirst \in BOOLEAN
    /\ MaxLog \in Nat /\ MaxDamage \in Nat /\ MaxRestarts \in Nat

Types == Durable \cup Transient

VARIABLES
    log,        \* command_log
    cutoff,     \* rows 1..cutoff are older than OUTBOX_TTL
    unreadable, \* rows whose command_data is no JSON any more
    writing,    \* direct sends awaiting drain: <<row, connection>>
    flush,      \* rows a handler's flush_outbox has still to send
    via,        \* the connection a flush awaits drain on; its own for a discard
    wire,       \* commands on their way to the client, per connection
    sent,       \* history: rows written to an open or a dead transport
    have,       \* the last command of each type a client has applied
    restarts

queueAges == <<cutoff, unreadable>>
outboxVars == <<log, queueAges, writing, flush, via, wire, sent, have, restarts>>
allVars == <<vars, outboxVars>>

\* "pruned": retention has deleted the row.
Statuses == {"dispatched", "queued", "superseded", "expired", "undeliverable",
             "error", "pruned"}
Rows == [client : Clients, type : Types, status : Statuses]

OutboxTypeOK ==
    /\ log \in Seq(Rows)
    /\ cutoff \in 0..Len(log)
    /\ unreadable \in SUBSET DOMAIN log
    /\ writing \in SUBSET ((DOMAIN log) \X Conns)
    /\ flush \in [Conns -> SUBSET DOMAIN log]
    /\ via \in [Conns -> Conns \cup {None}]
    /\ wire \in [Conns -> Seq(DOMAIN log)]
    /\ sent \in SUBSET DOMAIN log
    /\ have \in [Clients -> [Types -> {0} \cup DOMAIN log]]
    /\ restarts \in 0..MaxRestarts

OutboxInit ==
    /\ Init
    /\ log = <<>>
    /\ cutoff = 0
    /\ unreadable = {}
    /\ writing = {}
    /\ flush = [c \in Conns |-> {}]
    /\ via = [c \in Conns |-> None]
    /\ wire = [c \in Conns |-> <<>>]
    /\ sent = {}
    /\ have = [p \in Clients |-> [t \in Types |-> 0]]
    /\ restarts = 0

-----------------------------------------------------------------------------
\* command_log.

Row(p, t, s) == [client |-> p, type |-> t, status |-> s]

\* An UPDATE finds no row that retention has deleted.
Marked(k, s) ==
    IF log[k].status = "pruned" THEN log[k] ELSE Row(log[k].client, log[k].type, s)

WithStatus(k, s) == [log EXCEPT ![k] = Marked(k, s)]

QueuedFor(p) == {k \in DOMAIN log : log[k].client = p /\ log[k].status = "queued"}

\* A mutated form: nothing gives way.
NoneSuperseded(p, t) == log

\* queue_command: every other queued row of this client and type gives way.
Superseding(p, t) ==
    [k \in DOMAIN log |->
        IF k \in QueuedFor(p) /\ log[k].type = t
        THEN Marked(k, "superseded")
        ELSE log[k]]

\* A mutated form: what is due is marked as sent when it is taken.
TakenAsSent(p) ==
    [k \in DOMAIN log |->
        IF k \in QueuedFor(p)
        THEN Marked(k, IF k <= cutoff THEN "expired" ELSE "dispatched")
        ELSE log[k]]

\* take_queued_commands: the rows past their time expire, the rest is due.
Expiring(p) ==
    [k \in DOMAIN log |->
        IF k \in QueuedFor(p) /\ k <= cutoff
        THEN Marked(k, "expired")
        ELSE log[k]]

\* A mutated form: the comparison with the cutoff inverted.
DuePastTime(p) == {k \in QueuedFor(p) : k <= cutoff}

Due(p) == {k \in QueuedFor(p) : k > cutoff}

\* The oldest of a set of rows (ORDER BY id).
Oldest(list) == CHOOSE k \in list : \A j \in list : k <= j

\* A write on a dead link goes nowhere; nothing on a link outlives it.
Written(d, k) == [wire EXCEPT ![d] = IF link[d] = "up" THEN Append(@, k) ELSE @]
Carried == [c \in Conns |-> IF link'[c] = "up" THEN wire[c] ELSE <<>>]

-----------------------------------------------------------------------------
\* send_command_to_client.

\* The client is absent: queued if durable, otherwise given up.
IssueToAbsent(p, t) ==
    /\ Len(log) < MaxLog
    /\ registry[p] = None
    /\ log' = IF t \in Durable
              THEN Append(Superseding(p, t), Row(p, t, "queued"))
              ELSE Append(log, Row(p, t, "undeliverable"))
    /\ UNCHANGED <<vars, queueAges, writing, flush, via, wire, sent, have, restarts>>

\* More than the high-water mark (64 KiB) waits in the buffer of d.
Congested(d) ==
    \E k \in DOMAIN log :
        /\ log[k].type \in Large
        /\ <<k, d>> \in writing \/ \E c \in Conns : via[c] = d /\ k = Oldest(flush[c])

\* The client has a writer: logged as dispatched, written, then drained,
\* which returns at once unless the transport is congested or broken.
IssueToPresent(p, t) ==
    LET k == Len(log) + 1
        d == registry[p]
    IN
    /\ Len(log) < MaxLog
    /\ d # None
    /\ log' = Append(log, Row(p, t, "dispatched"))
    /\ wire' = Written(d, k)
    /\ sent' = sent \cup {k}
    /\ writing' = IF t \in Large \/ link[d] # "up" \/ Congested(d)
                  THEN writing \cup {<<k, d>>}
                  ELSE writing
    /\ UNCHANGED <<vars, queueAges, flush, via, have, restarts>>

\* drain returns; on a broken connection it may raise instead.
IssueDrained(k, c) ==
    /\ <<k, c>> \in writing
    /\ writing' = writing \ {<<k, c>>}
    /\ \/ UNCHANGED log
       \/ link[c] # "up" /\ log' = WithStatus(k, "undeliverable")
    /\ UNCHANGED <<vars, queueAges, flush, via, wire, sent, have, restarts>>

-----------------------------------------------------------------------------
\* flush_outbox, run by the handler in greet after the ack.

\* The loop body on what is left of the list, with the log as it is by then:
\* a row that cannot be read is to be discarded; any other is written to
\* whatever connection is registered; or the loop ends because nothing is
\* left or nobody is registered.
FlushNext(c, list, rows) ==
    LET p == peer[c]
        d == registry[p]
        k == Oldest(list)
    IN
    /\ log' = rows
    /\ IF list = {} \/ (d = None /\ k \notin unreadable)
       THEN /\ Greet(c)
            /\ flush' = [flush EXCEPT ![c] = {}]
            /\ via' = [via EXCEPT ![c] = None]
            /\ UNCHANGED <<wire, sent>>
       ELSE /\ flush' = [flush EXCEPT ![c] = list]
            /\ IF k \in unreadable
               THEN via' = [via EXCEPT ![c] = c] /\ UNCHANGED <<wire, sent>>
               ELSE /\ via' = [via EXCEPT ![c] = d]
                    /\ wire' = Written(d, k)
                    /\ sent' = sent \cup {k}
            /\ UNCHANGED vars
    /\ UNCHANGED <<queueAges, writing, have, restarts>>

FlushStart(c) ==
    /\ pc[c] = "greet" /\ peer[c] \in Clients
    /\ via[c] = None
    /\ FlushNext(c, Due(peer[c]), Expiring(peer[c]))

\* The write went through: only now is the row marked dispatched.
FlushDrained(c) ==
    LET k == Oldest(flush[c]) IN
    /\ pc[c] = "greet" /\ via[c] # None /\ k \notin unreadable
    /\ FlushNext(c, flush[c] \ {k}, WithStatus(k, "dispatched"))

\* json.loads raises: the row is marked and the loop goes on.
FlushDiscards(c) ==
    LET k == Oldest(flush[c]) IN
    /\ pc[c] = "greet" /\ via[c] # None /\ k \in unreadable
    /\ FlushNext(c, flush[c] \ {k}, WithStatus(k, "error"))

\* The write failed: the loop breaks, the rest stays queued.
FlushBroken(c) ==
    /\ pc[c] = "greet" /\ via[c] # None /\ Oldest(flush[c]) \notin unreadable
    /\ link[via[c]] # "up"
    /\ FlushNext(c, {}, log)

\* The handler of c has not let go of the loop since it registered its
\* client, or since its last suspension: the drain of the ack, some 150 bytes
\* on a fresh connection, and that of a small command return at once.
Running(c) ==
    /\ pc[c] = "greet" /\ peer[c] \in Clients
    /\ IF via[c] = None
       THEN link[c] = "up"
       ELSE Oldest(flush[c]) \in unreadable \/ (link[via[c]] = "up" /\ ~Congested(via[c]))

\* What a handler of c, or a task of none, may only do while no other runs.
Undisturbed(c) == \A x \in Conns \ {c} : ~Running(x)
LoopIsFree == \A x \in Conns : ~Running(x)

-----------------------------------------------------------------------------
\* The Client Agent's command_listener: one reader, in order.
Deliver(c) ==
    LET k == Head(wire[c]) IN
    /\ link[c] = "up" /\ wire[c] # <<>>
    /\ wire' = [wire EXCEPT ![c] = Tail(@)]
    /\ have' = [have EXCEPT ![peer[c]][log[k].type] = k]
    /\ UNCHANGED <<vars, log, queueAges, writing, flush, via, sent, restarts>>

\* A mutated form: off by one.
GrowOldPastEnd ==
    /\ cutoff <= Len(log)
    /\ cutoff' = cutoff + 1
    /\ UNCHANGED <<vars, log, unreadable, writing, flush, via, wire, sent, have, restarts>>

\* OUTBOX_TTL passes for the next row.
GrowOld ==
    /\ cutoff < Len(log)
    /\ cutoff' = cutoff + 1
    /\ UNCHANGED <<vars, log, unreadable, writing, flush, via, wire, sent, have, restarts>>

\* prune_batch, in its thread, takes a row of any status that is older than
\* RETENTION_DAYS: by default 30 of them, against a day of OUTBOX_TTL.
Prune(k) ==
    /\ log[k].status # "pruned"
    /\ RetentionFirst \/ k <= cutoff
    /\ log' = WithStatus(k, "pruned")
    /\ UNCHANGED <<vars, queueAges, writing, flush, via, wire, sent, have, restarts>>

\* The stored parameters of a row are damaged.
Damage(k) ==
    /\ Cardinality(unreadable) < MaxDamage
    /\ log[k].status = "queued" /\ \A c \in Conns : k \notin flush[c]
    /\ unreadable' = unreadable \cup {k}
    /\ UNCHANGED <<vars, log, cutoff, writing, flush, via, wire, sent, have, restarts>>

\* The process dies and starts again on the same database, at worst between
\* log_command and queue_command.
Restart ==
    /\ restarts < MaxRestarts
    /\ restarts' = restarts + 1
    /\ pc' = [c \in Conns |-> IF pc[c] = "none" THEN "none" ELSE "done"]
    /\ link' = [c \in Conns |-> IF link[c] = "up" THEN "eof" ELSE link[c]]
    /\ registry' = [p \in Peers |-> None]
    /\ fresh' = [p \in Peers |-> FALSE]
    /\ reapList' = {} /\ reaping' = "asleep"
    /\ writing' = {}
    /\ flush' = [c \in Conns |-> {}]
    /\ via' = [c \in Conns |-> None]
    /\ wire' = Carried
    /\ \/ UNCHANGED log
       \/ /\ Len(log) < MaxLog
          /\ \E p \in Clients, t \in Types : log' = Append(log, Row(p, t, "dispatched"))
    /\ UNCHANGED <<peer, row, queueAges, sent, have>>

-----------------------------------------------------------------------------
\* A step of the connection lifecycle, or an admin's greeting; a flush dies
\* with its handler.  While a handler runs, only it or the world does a step.
SessionStep ==
    /\ Lifecycle \/ \E c \in Conns : peer[c] \in Admins /\ Greet(c)
    /\ \/ LoopIsFree
       \/ World
       \/ \E c \in Conns : Running(c) /\ Fault(c)
    /\ wire' = Carried
    /\ flush' = [c \in Conns |-> IF pc'[c] = "greet" THEN flush[c] ELSE {}]
    /\ via' = [c \in Conns |-> IF pc'[c] = "greet" THEN via[c] ELSE None]
    /\ UNCHANGED <<log, queueAges, writing, sent, have, restarts>>

FlushStep(c) == FlushStart(c) \/ FlushDrained(c) \/ FlushDiscards(c) \/ FlushBroken(c)

OutboxNext ==
    \/ SessionStep
    \/ \E p \in Clients, t \in Types :
          LoopIsFree /\ (IssueToAbsent(p, t) \/ IssueToPresent(p, t))
    \/ \E k \in DOMAIN log, c \in Conns : LoopIsFree /\ IssueDrained(k, c)
    \/ \E c \in Conns : Undisturbed(c) /\ FlushStep(c)
    \/ \E c \in Conns : Deliver(c)
    \/ GrowOld
    \/ \E k \in DOMAIN log : Prune(k) \/ Damage(k)
    \/ Restart

OutboxSpec == OutboxInit /\ [][OutboxNext]_allVars

-----------------------------------------------------------------------------
\* Properties.

(***************************************************************************)
(* At most one row per client and type waits, whatever way commands,       *)
(* flushes and restarts interleave (docs/protocol.md: "bounds the queue to *)
(* one row per type").                                                     *)
(***************************************************************************)
OneQueuedPerType ==
    \A j, k \in DOMAIN log :
        /\ log[j].status = "queued" /\ log[k].status = "queued"
        /\ log[j].client = log[k].client /\ log[j].type = log[k].type
        => j = k

(***************************************************************************)
(* The outbox implements DeliverySlots: a slot holds the queued rows of    *)
(* its client and type in the command_log.                                 *)
(***************************************************************************)
Held == [p \in Clients |-> [t \in Durable |-> {k \in QueuedFor(p) : log[k].type = t}]]

Slots == INSTANCE DeliverySlots WITH slot <- Held, last <- Len(log)

ImplementsSlots == Slots!SlotSpecification

(***************************************************************************)
(* A queued command leaves the queue for a reason: it was written to a     *)
(* transport before it was marked dispatched, a newer one of its type and  *)
(* client took its place, it is past its TTL, its stored parameters cannot *)
(* be read, or retention deleted it (database.py: "retention prunes both   *)
(* at once"), which unless ENGINE_RETENTION_DAYS is set below              *)
(* ENGINE_OUTBOX_TTL happens only past its TTL.  No crash, no write        *)
(* failure and no second flush loses one.                                  *)
(***************************************************************************)
QueuedAccountedFor ==
    [][\A k \in DOMAIN log : log[k].status = "queued" =>
         \/ log'[k].status = "queued"
         \/ log'[k].status = "dispatched" /\ k \in sent
         \/ log'[k].status = "expired" /\ k <= cutoff
         \/ log'[k].status = "error" /\ k \in unreadable
         \/ log'[k].status = "pruned" /\ (RetentionFirst \/ k <= cutoff)
         \/ /\ log'[k].status = "superseded"
            /\ \E j \in DOMAIN log' : /\ j > k
                                      /\ log'[j] = Marked(k, "queued")
      ]_allVars

(***************************************************************************)
(* A command does not wait behind a connection that could carry it: when a *)
(* client's registered connection is up, a handler of that client is about *)
(* to flush or is flushing, with the command on its list.  The one         *)
(* exception is an entry whose handler a failing store_client killed.      *)
(***************************************************************************)
QueuedReachesConnected ==
    \A p \in Clients :
        /\ registry[p] # None /\ link[registry[p]] = "up"
        /\ pc[registry[p]] # "crashed"
        => \A k \in QueuedFor(p) :
              \E c \in Conns : /\ peer[c] = p /\ pc[c] = "greet"
                               /\ via[c] = None \/ k \in flush[c]

(***************************************************************************)
(* database.take_queued_commands: "Oldest first, so a client that          *)
(* reconnects applies them in the order the operator issued them".  No     *)
(* client applies a command after a newer one of the same type.            *)
(***************************************************************************)
AppliedInOrder ==
    [][\A p \in Clients, t \in Durable : have'[p][t] >= have[p][t]]_allVars
=============================================================================
