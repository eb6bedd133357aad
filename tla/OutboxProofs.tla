---------------------------- MODULE OutboxProofs ----------------------------
(***************************************************************************)
(* Theorems of Outbox, for any number of clients, connections, commands    *)
(* and restarts, with or without database failures.  Everything an action  *)
(* does to the command_log is one of four moves; a move is what the lemmas *)
(* about rows reason about.  What an action does to the connections is a   *)
(* step of Sessions, whose lemmas are reused, or the restart.              *)
(***************************************************************************)
EXTENDS Outbox, SessionsProofs, WellFoundedInduction, TLAPS

LogType == log \in Seq(Rows)

\* The moves: a row is answered for, a command is logged, one is queued, or
\* what is past its time expires.
Settled == {"dispatched", "undeliverable", "error", "pruned"}
Settles == \E k : \E s \in Settled : log' = WithStatus(k, s)
Logs == \E p \in Clients, t \in Types, s \in {"dispatched", "undeliverable"} :
            log' = Append(log, Row(p, t, s))
Queues == \E p \in Clients, t \in Durable :
            log' = Append(Superseding(p, t), Row(p, t, "queued"))
Expires == \E p \in Clients : log' = Expiring(p)

\* Every step of the composed system is one move of the log, or none.
LEMMA LogMoves ==
    ASSUME OutboxNext \/ UNCHANGED allVars
    PROVE  UNCHANGED log \/ Settles \/ Logs \/ Queues \/ Expires
<1>1. CASE SessionStep
  BY <1>1 DEF SessionStep
<1>2. ASSUME NEW p \in Clients, NEW t \in Types, IssueToAbsent(p, t) PROVE Logs \/ Queues
  <2>1. CASE t \in Durable
    BY <1>2, <2>1 DEF IssueToAbsent, Queues
  <2>2. CASE t \notin Durable
    BY <1>2, <2>2 DEF IssueToAbsent, Logs
  <2> QED BY <2>1, <2>2
<1>3. ASSUME NEW p \in Clients, NEW t \in Types, IssueToPresent(p, t) PROVE Logs
  BY <1>3 DEF IssueToPresent, Logs
<1>4. ASSUME NEW k, NEW c \in Conns, IssueDrained(k, c) PROVE UNCHANGED log \/ Settles
  BY <1>4 DEF IssueDrained, Settles, Settled
<1>5. ASSUME NEW c \in Conns, FlushStart(c) PROVE Expires
  <2>1. peer[c] \in Clients /\ FlushNext(c, Due(peer[c]), Expiring(peer[c]))
    BY <1>5 DEF FlushStart
  <2>2. log' = Expiring(peer[c])
    BY <2>1 DEF FlushNext
  <2> QED BY <2>1, <2>2 DEF Expires
<1>6. ASSUME NEW c \in Conns, FlushDrained(c) \/ FlushDiscards(c) PROVE Settles
  <2> DEFINE k == Oldest(flush[c])
  <2>1. PICK s \in {"dispatched", "error"} : FlushNext(c, flush[c] \ {k}, WithStatus(k, s))
    BY <1>6 DEF FlushDrained, FlushDiscards
  <2>2. log' = WithStatus(k, s)
    BY <2>1 DEF FlushNext
  <2> QED BY <2>2 DEF Settles, Settled
<1>7. ASSUME NEW c \in Conns, FlushBroken(c) PROVE UNCHANGED log
  BY <1>7 DEF FlushBroken, FlushNext
<1>8. ASSUME NEW c \in Conns, Deliver(c) PROVE UNCHANGED log
  BY <1>8 DEF Deliver
<1>9. CASE GrowOld
  BY <1>9 DEF GrowOld
<1>10. CASE Restart
  BY <1>10 DEF Restart, Logs
<1>11. CASE UNCHANGED allVars
  BY <1>11 DEF allVars, outboxVars
<1>12. ASSUME NEW k, Prune(k) \/ Damage(k) PROVE UNCHANGED log \/ Settles
  BY <1>12 DEF Prune, Damage, Settles, Settled
<1> QED
  BY <1>1, <1>2, <1>3, <1>4, <1>5, <1>6, <1>7, <1>8, <1>9, <1>10, <1>11, <1>12
     DEF OutboxNext, FlushStep

-----------------------------------------------------------------------------
\* What each move does to the rows.

LEMMA RowIsRow ==
    ASSUME NEW p \in Clients, NEW t \in Types, NEW s \in Statuses
    PROVE  /\ Row(p, t, s) \in Rows
           /\ Row(p, t, s).client = p /\ Row(p, t, s).type = t /\ Row(p, t, s).status = s
BY DEF Row, Rows

LEMMA MarkedIsRow ==
    ASSUME LogType, NEW j \in DOMAIN log, NEW s \in Statuses
    PROVE  /\ Marked(j, s) \in Rows
           /\ Marked(j, s).status = IF log[j].status = "pruned" THEN "pruned" ELSE s
           /\ Marked(j, s).client = log[j].client /\ Marked(j, s).type = log[j].type
<1>1. log[j] \in Rows
  BY DEF LogType
<1>2. log[j].client \in Clients /\ log[j].type \in Types
  BY <1>1 DEF Rows
<1> QED BY <1>1, <1>2, RowIsRow DEF Marked

LEMMA SettlesRows ==
    ASSUME LogType, NEW k, NEW s \in Statuses, log' = WithStatus(k, s)
    PROVE  /\ log' \in Seq(Rows) /\ Len(log') = Len(log) /\ DOMAIN log' = DOMAIN log
           /\ \A j \in DOMAIN log :
                 log'[j] = IF j = k THEN Marked(j, s) ELSE log[j]
<1>1. log \in Seq(Rows)
  BY DEF LogType
<1>2. \A j \in DOMAIN log : log[j] \in Rows /\ Marked(j, s) \in Rows
  BY <1>1, MarkedIsRow
<1>3. DOMAIN log' = DOMAIN log
  BY DEF WithStatus
<1>4. \A j \in DOMAIN log :
         log'[j] = IF j = k THEN Marked(j, s) ELSE log[j]
  BY DEF WithStatus
<1>5. \A j \in DOMAIN log : log'[j] \in Rows
  BY <1>2, <1>4
<1>6. log' = [j \in DOMAIN log |-> IF j = k THEN Marked(k, s) ELSE log[j]]
  BY DEF WithStatus
<1>7. log' \in Seq(Rows) /\ Len(log') = Len(log)
  <2>1. DOMAIN log = 1..Len(log) /\ Len(log) \in Nat
    BY <1>1
  <2> QED BY <1>5, <1>6, <2>1
<1> QED BY <1>3, <1>4, <1>7

LEMMA LogsRows ==
    ASSUME LogType, NEW r \in Rows, log' = Append(log, r)
    PROVE  /\ log' \in Seq(Rows) /\ Len(log') = Len(log) + 1
           /\ DOMAIN log' = 1..(Len(log) + 1)
           /\ log'[Len(log) + 1] = r
           /\ \A j \in 1..Len(log) : log'[j] = log[j]
BY DEF LogType

LEMMA SupersedingRows ==
    ASSUME LogType, NEW p \in Clients, NEW t \in Types
    PROVE  /\ Superseding(p, t) \in Seq(Rows) /\ Len(Superseding(p, t)) = Len(log)
           /\ \A j \in 1..Len(log) :
                 Superseding(p, t)[j] = IF j \in QueuedFor(p) /\ log[j].type = t
                                        THEN Marked(j, "superseded")
                                        ELSE log[j]
<1>1. log \in Seq(Rows) /\ DOMAIN log = 1..Len(log)
  BY DEF LogType
<1>2. \A j \in 1..Len(log) : Marked(j, "superseded") \in Rows
  BY <1>1, MarkedIsRow DEF Settled, Statuses
<1> QED BY <1>1, <1>2 DEF Superseding

LEMMA ExpiringRows ==
    ASSUME LogType, NEW p \in Clients
    PROVE  /\ Expiring(p) \in Seq(Rows) /\ Len(Expiring(p)) = Len(log)
           /\ \A j \in 1..Len(log) :
                 Expiring(p)[j] = IF j \in QueuedFor(p) /\ j <= cutoff
                                  THEN Marked(j, "expired")
                                  ELSE log[j]
<1>1. log \in Seq(Rows) /\ DOMAIN log = 1..Len(log)
  BY DEF LogType
<1>2. \A j \in 1..Len(log) : Marked(j, "expired") \in Rows
  BY <1>1, MarkedIsRow DEF Settled, Statuses
<1> QED BY <1>1, <1>2 DEF Expiring

-----------------------------------------------------------------------------
\* What is queued is durable: the refinement needs it, since a slot exists
\* for a durable type only.
QueuedIsDurable ==
    \A k \in DOMAIN log : log[k].status = "queued" => log[k].type \in Durable

QueueInv == LogType /\ OneQueuedPerType /\ QueuedIsDurable

LEMMA QueueInvInit == OutboxInit => QueueInv
BY DEF OutboxInit, QueueInv, LogType, OneQueuedPerType, QueuedIsDurable

LEMMA QueueInvStep == QueueInv /\ [OutboxNext]_allVars => QueueInv'
<1> SUFFICES ASSUME QueueInv, OutboxNext \/ UNCHANGED allVars PROVE QueueInv'
  OBVIOUS
<1>0. LogType /\ OneQueuedPerType /\ QueuedIsDurable /\ DOMAIN log = 1..Len(log) /\ Len(log) \in Nat
  BY DEF QueueInv, LogType
<1> USE DEF OneQueuedPerType, QueuedIsDurable
<1>1. CASE UNCHANGED log
  BY <1>0, <1>1 DEF QueueInv, LogType
<1>2. CASE Settles
  <2>0. PICK k : \E s \in Settled : log' = WithStatus(k, s)
    BY <1>2 DEF Settles
  <2>1. PICK s \in Settled : log' = WithStatus(k, s)
    BY <2>0
  <2>2. /\ LogType' /\ DOMAIN log' = DOMAIN log
        /\ \A j \in DOMAIN log :
              log'[j] = IF j = k THEN Marked(j, s) ELSE log[j]
    BY <1>0, <2>1, SettlesRows DEF LogType, Settled, Statuses
  <2>3. \A j \in DOMAIN log' : log'[j].status = "queued" => log'[j] = log[j]
    BY <1>0, <2>2, MarkedIsRow DEF Settled, Statuses
  <2> QED BY <1>0, <2>2, <2>3 DEF QueueInv
<1>3. CASE Logs
  <2>1. PICK p \in Clients, t \in Types, s \in {"dispatched", "undeliverable"} :
           log' = Append(log, Row(p, t, s))
    BY <1>3 DEF Logs
  <2>2. Row(p, t, s) \in Rows /\ Row(p, t, s).status # "queued"
    BY RowIsRow DEF Statuses
  <2>3. /\ LogType' /\ DOMAIN log' = 1..(Len(log) + 1)
        /\ log'[Len(log) + 1] = Row(p, t, s)
        /\ \A j \in 1..Len(log) : log'[j] = log[j]
    BY <1>0, <2>1, <2>2, LogsRows DEF LogType
  <2>4. \A j \in DOMAIN log' : log'[j].status = "queued" => j \in DOMAIN log /\ log'[j] = log[j]
    BY <1>0, <2>2, <2>3
  <2> QED BY <1>0, <2>3, <2>4 DEF QueueInv
<1>4. CASE Queues
  <2>1. PICK p \in Clients, t \in Durable :
           log' = Append(Superseding(p, t), Row(p, t, "queued"))
    BY <1>4 DEF Queues
  <2>2. /\ Row(p, t, "queued") \in Rows
        /\ Row(p, t, "queued").client = p /\ Row(p, t, "queued").type = t
    BY RowIsRow DEF Statuses, Types
  <2>3. /\ Superseding(p, t) \in Seq(Rows) /\ Len(Superseding(p, t)) = Len(log)
        /\ \A j \in 1..Len(log) :
              Superseding(p, t)[j] = IF j \in QueuedFor(p) /\ log[j].type = t
                                     THEN Marked(j, "superseded")
                                     ELSE log[j]
    BY <1>0, SupersedingRows DEF Types
  <2>4. /\ LogType' /\ DOMAIN log' = 1..(Len(log) + 1)
        /\ log'[Len(log) + 1] = Row(p, t, "queued")
        /\ \A j \in 1..Len(log) : log'[j] = Superseding(p, t)[j]
    BY <2>1, <2>2, <2>3 DEF LogType
  <2>5. \A j \in 1..Len(log) : log'[j].status = "queued" =>
            log'[j] = log[j] /\ ~(log[j].client = p /\ log[j].type = t)
    BY <1>0, <2>3, <2>4, MarkedIsRow DEF QueuedFor, Settled, Statuses
  <2> QED BY <1>0, <2>2, <2>4, <2>5 DEF QueueInv
<1>5. CASE Expires
  <2>1. PICK p \in Clients : log' = Expiring(p)
    BY <1>5 DEF Expires
  <2>2. /\ LogType' /\ Len(log') = Len(log)
        /\ \A j \in 1..Len(log) :
              log'[j] = IF j \in QueuedFor(p) /\ j <= cutoff
                        THEN Marked(j, "expired")
                        ELSE log[j]
    BY <1>0, <2>1, ExpiringRows DEF LogType
  <2>3. DOMAIN log' = 1..Len(log)
    BY <2>2 DEF LogType
  <2>4. \A j \in DOMAIN log' : log'[j].status = "queued" => log'[j] = log[j]
    BY <1>0, <2>2, <2>3, MarkedIsRow DEF Settled, Statuses
  <2> QED BY <1>0, <2>2, <2>3, <2>4 DEF QueueInv
<1> QED BY <1>1, <1>2, <1>3, <1>4, <1>5, LogMoves

(***************************************************************************)
(* The queue holds at most one row per client and type, whatever the       *)
(* interleaving of commands, flushes, failures and restarts (database.py,  *)
(* queue_command; docs/protocol.md, "The outbox").                         *)
(***************************************************************************)
THEOREM OneQueuedPerTypeAlways == OutboxSpec => []OneQueuedPerType
<1>1. QueueInv => OneQueuedPerType
  BY DEF QueueInv
<1> QED BY <1>1, QueueInvInit, QueueInvStep, PTL DEF OutboxSpec

-----------------------------------------------------------------------------
\* The slots.

LEMMA HeldRows ==
    ASSUME NEW q \in Clients, NEW u \in Durable
    PROVE  Held[q][u] = {j \in DOMAIN log : /\ log[j].status = "queued"
                                            /\ log[j].client = q /\ log[j].type = u}
BY DEF Held, QueuedFor

LEMMA HeldRowsAfter ==
    ASSUME NEW q \in Clients, NEW u \in Durable
    PROVE  Held'[q][u] = {j \in DOMAIN log' : /\ log'[j].status = "queued"
                                              /\ log'[j].client = q /\ log'[j].type = u}
BY DEF Held, QueuedFor

\* Two states with the same queued rows have the same slots.
LEMMA HeldKept ==
    ASSUME \A j : /\ j \in DOMAIN log /\ log[j].status = "queued"
                      => j \in DOMAIN log' /\ log'[j] = log[j]
                  /\ j \in DOMAIN log' /\ log'[j].status = "queued"
                      => j \in DOMAIN log /\ log'[j] = log[j]
    PROVE  Held' = Held
<1>1. ASSUME NEW q \in Clients, NEW u \in Durable
      PROVE  Held'[q][u] = Held[q][u]
  <2>1. Held[q][u] = {j \in DOMAIN log : /\ log[j].status = "queued"
                                         /\ log[j].client = q /\ log[j].type = u}
    BY HeldRows
  <2>2. Held'[q][u] = {j \in DOMAIN log' : /\ log'[j].status = "queued"
                                           /\ log'[j].client = q /\ log'[j].type = u}
    BY HeldRowsAfter
  <2> QED BY <2>1, <2>2
<1> QED BY <1>1 DEF Held

\* Held and Held' are functions of functions, told apart pointwise.
LEMMA HeldIsFunction ==
    /\ Held = [q \in Clients |-> [u \in Durable |-> Held[q][u]]]
    /\ Held' = [q \in Clients |-> [u \in Durable |-> Held'[q][u]]]
BY DEF Held

LEMMA HeldReleased ==
    ASSUME NEW p \in Clients, NEW types,
           \A q \in Clients, u \in Durable :
              Held'[q][u] = IF q = p /\ u \in types THEN {} ELSE Held[q][u]
    PROVE  Held' = [Held EXCEPT ![p] = [u \in Durable |-> IF u \in types THEN {} ELSE @[u]]]
<1>1. ASSUME NEW q \in Clients, q # p PROVE Held'[q] = Held[q]
  BY <1>1, HeldIsFunction
<1>2. Held'[p] = [u \in Durable |-> IF u \in types THEN {} ELSE Held[p][u]]
  BY HeldIsFunction
<1> QED BY <1>1, <1>2, HeldIsFunction

LEMMA HeldFilled ==
    ASSUME NEW p \in Clients, NEW t \in Durable, NEW rows,
           \A q \in Clients, u \in Durable :
              Held'[q][u] = IF q = p /\ u = t THEN rows ELSE Held[q][u]
    PROVE  Held' = [Held EXCEPT ![p][t] = rows]
<1>1. ASSUME NEW q \in Clients, q # p PROVE Held'[q] = Held[q]
  BY <1>1, HeldIsFunction
<1>2. Held'[p] = [Held[p] EXCEPT ![t] = rows]
  BY HeldIsFunction
<1> QED BY <1>1, <1>2, HeldIsFunction

LEMMA SlotsInit == OutboxInit => Slots!SlotInit
<1> SUFFICES ASSUME OutboxInit PROVE Slots!SlotInit
  OBVIOUS
<1>1. log = <<>> /\ DOMAIN log = {} /\ Len(log) = 0
  BY DEF OutboxInit
<1>2. Held = [p \in Clients |-> [t \in Durable |-> {}]]
  BY <1>1 DEF Held, QueuedFor
<1> QED BY <1>1, <1>2 DEF Slots!SlotInit

LEMMA SettlesReleases ==
    ASSUME QueueInv, Settles
    PROVE  Slots!SlotNext \/ UNCHANGED <<Held, Len(log)>>
<1>0. LogType /\ OneQueuedPerType /\ QueuedIsDurable
  BY DEF QueueInv
<1>1. PICK k : \E s \in Settled : log' = WithStatus(k, s)
  BY DEF Settles
<1>2. PICK s \in Settled : log' = WithStatus(k, s)
  BY <1>1
<1>3. /\ DOMAIN log' = DOMAIN log /\ Len(log') = Len(log)
      /\ \A j \in DOMAIN log : log'[j] = IF j = k THEN Marked(j, s) ELSE log[j]
  BY <1>0, <1>2, SettlesRows DEF Settled, Statuses
<1>4. k \in DOMAIN log => log'[k].status # "queued"
  BY <1>0, <1>3, MarkedIsRow DEF Settled, Statuses
<1>5. CASE k \in DOMAIN log /\ log[k].status = "queued"
  <2>0. log[k] \in Rows
    BY <1>0, <1>5 DEF LogType
  <2>1. PICK p \in Clients, t \in Durable : log[k].client = p /\ log[k].type = t
    BY <1>0, <1>5, <2>0 DEF Rows, QueuedIsDurable
  <2> DEFINE types == {t}
  <2>2. ASSUME NEW q \in Clients, NEW u \in Durable
        PROVE  Held'[q][u] = IF q = p /\ u \in types THEN {} ELSE Held[q][u]
    <3>1. Held'[q][u] = Held[q][u] \ {k}
      BY <1>3, <1>4, HeldRows, HeldRowsAfter
    <3>2. q = p /\ u = t => Held[q][u] = {k}
      BY <1>0, <1>5, <2>1, HeldRows DEF OneQueuedPerType
    <3>3. ~(q = p /\ u = t) => k \notin Held[q][u]
      BY <2>1, HeldRows
    <3> QED BY <3>1, <3>2, <3>3
  <2>3. Held' = [Held EXCEPT ![p] = [u \in Durable |-> IF u \in types THEN {} ELSE @[u]]]
    <3> HIDE DEF types
    <3> QED BY <2>2, HeldReleased
  <2>4. Slots!Release(p, types)
    BY <1>3, <2>3 DEF Slots!Release
  <2> QED BY <2>4 DEF Slots!SlotNext
<1>6. CASE ~(k \in DOMAIN log /\ log[k].status = "queued")
  <2>1. Held' = Held
    BY <1>3, <1>4, <1>6, HeldKept
  <2> QED BY <1>3, <2>1
<1> QED BY <1>5, <1>6

LEMMA LogsPasses ==
    ASSUME QueueInv, Logs
    PROVE  Slots!SlotNext
<1>0. LogType /\ DOMAIN log = 1..Len(log) /\ Len(log) \in Nat
  BY DEF QueueInv, LogType
<1>1. PICK p \in Clients, t \in Types, s \in {"dispatched", "undeliverable"} :
         log' = Append(log, Row(p, t, s))
  BY DEF Logs
<1>2. Row(p, t, s) \in Rows /\ Row(p, t, s).status # "queued"
  BY RowIsRow DEF Statuses
<1>3. /\ Len(log') = Len(log) + 1 /\ DOMAIN log' = 1..(Len(log) + 1)
      /\ log'[Len(log) + 1] = Row(p, t, s)
      /\ \A j \in 1..Len(log) : log'[j] = log[j]
  BY <1>0, <1>1, <1>2, LogsRows
<1>4. Held' = Held
  BY <1>0, <1>2, <1>3, HeldKept
<1> QED BY <1>3, <1>4 DEF Slots!SlotNext, Slots!Pass

LEMMA QueuesHolds ==
    ASSUME QueueInv, Queues
    PROVE  Slots!SlotNext
<1>0. LogType /\ DOMAIN log = 1..Len(log) /\ Len(log) \in Nat
  BY DEF QueueInv, LogType
<1>1. PICK p \in Clients, t \in Durable :
         log' = Append(Superseding(p, t), Row(p, t, "queued"))
  BY DEF Queues
<1> DEFINE n == Len(log) + 1
<1>2. /\ Row(p, t, "queued") \in Rows /\ Row(p, t, "queued").status = "queued"
      /\ Row(p, t, "queued").client = p /\ Row(p, t, "queued").type = t
  BY RowIsRow DEF Statuses, Types
<1>3. /\ Superseding(p, t) \in Seq(Rows) /\ Len(Superseding(p, t)) = Len(log)
      /\ \A j \in 1..Len(log) :
            Superseding(p, t)[j] = IF j \in QueuedFor(p) /\ log[j].type = t
                                   THEN Marked(j, "superseded")
                                   ELSE log[j]
  BY <1>0, SupersedingRows DEF Types
<1>4. /\ Len(log') = n /\ DOMAIN log' = 1..n /\ log'[n] = Row(p, t, "queued")
      /\ \A j \in 1..Len(log) : log'[j] = Superseding(p, t)[j]
  BY <1>1, <1>2, <1>3
<1>5. ASSUME NEW q \in Clients, NEW u \in Durable
      PROVE  Held'[q][u] = IF q = p /\ u = t THEN {n} ELSE Held[q][u]
  <2>1. ASSUME NEW j \in 1..Len(log)
        PROVE  j \in Held'[q][u] <=> j \in Held[q][u] /\ ~(q = p /\ u = t)
    <3>1. CASE j \in QueuedFor(p) /\ log[j].type = t
      <4>1. log'[j].status = "superseded"
        BY <1>0, <1>3, <1>4, <3>1, MarkedIsRow DEF QueuedFor, Settled, Statuses
      <4>2. j \notin Held'[q][u]
        BY <4>1, HeldRowsAfter
      <4>3. j \in Held[q][u] => q = p /\ u = t
        BY <3>1, HeldRows DEF QueuedFor
      <4> QED BY <4>2, <4>3
    <3>2. CASE ~(j \in QueuedFor(p) /\ log[j].type = t)
      <4>1. log'[j] = log[j]
        BY <1>3, <1>4, <3>2
      <4>2. j \in Held'[q][u] <=> j \in Held[q][u]
        BY <1>0, <1>4, <4>1, HeldRows, HeldRowsAfter
      <4>3. q = p /\ u = t => j \notin Held[q][u]
        BY <1>0, <3>2, HeldRows DEF QueuedFor
      <4> QED BY <4>2, <4>3
    <3> QED BY <3>1, <3>2
  <2>2. n \in Held'[q][u] <=> q = p /\ u = t
    BY <1>0, <1>2, <1>4, HeldRowsAfter
  <2>3. Held[q][u] \subseteq 1..Len(log)
    BY <1>0, HeldRows
  <2>4. Held'[q][u] \subseteq (1..Len(log)) \cup {n}
    BY <1>0, <1>4, HeldRowsAfter
  <2>5. CASE q = p /\ u = t
    <3>1. Held'[q][u] = {n}
      BY <2>1, <2>2, <2>4, <2>5
    <3> QED BY <2>5, <3>1
  <2>6. CASE ~(q = p /\ u = t)
    <3>1. Held'[q][u] = Held[q][u]
      <4> HIDE DEF n
      <4> QED BY <2>1, <2>2, <2>3, <2>4, <2>6
    <3> QED BY <2>6, <3>1
  <2> QED BY <2>5, <2>6
<1>6. Held' = [Held EXCEPT ![p][t] = {n}]
  BY <1>5, HeldFilled
<1>7. Slots!Hold(p, t)
  BY <1>4, <1>6 DEF Slots!Hold
<1> QED BY <1>7 DEF Slots!SlotNext

LEMMA ExpiresReleases ==
    ASSUME QueueInv, Expires
    PROVE  Slots!SlotNext
<1>0. LogType /\ OneQueuedPerType /\ DOMAIN log = 1..Len(log) /\ Len(log) \in Nat
  BY DEF QueueInv, LogType
<1>1. PICK p \in Clients : log' = Expiring(p)
  BY DEF Expires
<1>2. /\ Len(log') = Len(log) /\ DOMAIN log' = 1..Len(log)
      /\ \A j \in 1..Len(log) :
            log'[j] = IF j \in QueuedFor(p) /\ j <= cutoff
                      THEN Marked(j, "expired")
                      ELSE log[j]
  BY <1>0, <1>1, ExpiringRows
<1> DEFINE past == {u \in Durable : \E j \in Held[p][u] : j <= cutoff}
<1>3. ASSUME NEW q \in Clients, NEW u \in Durable
      PROVE  Held'[q][u] = IF q = p /\ u \in past THEN {} ELSE Held[q][u]
  <2>1. ASSUME NEW j \in 1..Len(log)
        PROVE  j \in Held'[q][u] <=> j \in Held[q][u] /\ ~(q = p /\ j <= cutoff)
    <3>1. CASE j \in QueuedFor(p) /\ j <= cutoff
      <4>1. log'[j].status = "expired"
        BY <1>0, <1>2, <3>1, MarkedIsRow DEF QueuedFor, Settled, Statuses
      <4>2. j \notin Held'[q][u]
        BY <4>1, HeldRowsAfter
      <4>3. j \in Held[q][u] => q = p
        BY <3>1, HeldRows DEF QueuedFor
      <4> QED BY <3>1, <4>2, <4>3
    <3>2. CASE ~(j \in QueuedFor(p) /\ j <= cutoff)
      <4>1. log'[j] = log[j]
        BY <1>2, <3>2
      <4>2. j \in Held'[q][u] <=> j \in Held[q][u]
        BY <1>0, <1>2, <4>1, HeldRows, HeldRowsAfter
      <4>3. q = p /\ j <= cutoff => j \notin Held[q][u]
        BY <1>0, <3>2, HeldRows DEF QueuedFor
      <4> QED BY <4>2, <4>3
    <3> QED BY <3>1, <3>2
  <2>2. Held'[q][u] \subseteq 1..Len(log) /\ Held[q][u] \subseteq 1..Len(log)
    BY <1>0, <1>2, HeldRows, HeldRowsAfter
  <2>3. \A j, k \in Held[q][u] : j = k
    BY <1>0, HeldRows DEF OneQueuedPerType
  <2>4. CASE q = p /\ u \in past
    <3>1. \A j \in Held[q][u] : j <= cutoff
      BY <2>3, <2>4
    <3> QED BY <2>1, <2>2, <2>4, <3>1
  <2>5. CASE ~(q = p /\ u \in past)
    <3>1. \A j \in Held[q][u] : ~(q = p /\ j <= cutoff)
      BY <2>5
    <3> QED BY <2>1, <2>2, <2>5, <3>1
  <2> QED BY <2>4, <2>5
<1>4. Held' = [Held EXCEPT ![p] = [u \in Durable |-> IF u \in past THEN {} ELSE @[u]]]
  <2> HIDE DEF past
  <2> QED BY <1>3, HeldReleased
<1>5. Slots!Release(p, past)
  BY <1>2, <1>4 DEF Slots!Release
<1>6. past \in SUBSET Durable
  OBVIOUS
<1> QED BY <1>5, <1>6 DEF Slots!SlotNext

LEMMA SlotsStep ==
    ASSUME QueueInv, [OutboxNext]_allVars
    PROVE  [Slots!SlotNext]_(Slots!slotVars)
<1>1. CASE UNCHANGED log
  BY <1>1 DEF Slots!slotVars, Held, QueuedFor
<1>2. CASE Settles
  BY <1>2, SettlesReleases DEF Slots!slotVars
<1>3. CASE Logs
  BY <1>3, LogsPasses
<1>4. CASE Queues
  BY <1>4, QueuesHolds
<1>5. CASE Expires
  BY <1>5, ExpiresReleases
<1> QED BY <1>1, <1>2, <1>3, <1>4, <1>5, LogMoves

(***************************************************************************)
(* The outbox implements the delivery slots: whatever handlers, flushes,   *)
(* write failures and restarts do, a slot is only ever filled by a newer   *)
(* command of its type or emptied at its client's turn (queue_command,     *)
(* take_queued_commands, flush_outbox).                                    *)
(***************************************************************************)
THEOREM OutboxImplementsSlots == OutboxSpec => ImplementsSlots
<1>1. QueueInv /\ [OutboxNext]_allVars => [Slots!SlotNext]_(Slots!slotVars)
  BY SlotsStep
<1> QED BY <1>1, SlotsInit, QueueInvInit, QueueInvStep, PTL
        DEF OutboxSpec, ImplementsSlots, Slots!SlotSpecification

-----------------------------------------------------------------------------
\* The connections under the outbox.

\* Every step is a step of Sessions, or the restart.
LEMMA SessionMoves ==
    ASSUME OutboxNext \/ UNCHANGED allVars
    PROVE  [Next]_vars \/ Restart
<1> USE DEF vars
<1>1. CASE SessionStep
  BY <1>1 DEF SessionStep, Next
<1>2. ASSUME NEW p \in Clients, NEW t \in Types, IssueToAbsent(p, t) \/ IssueToPresent(p, t)
      PROVE  UNCHANGED vars
  BY <1>2 DEF IssueToAbsent, IssueToPresent
<1>3. ASSUME NEW k, NEW c \in Conns, IssueDrained(k, c) PROVE UNCHANGED vars
  BY <1>3 DEF IssueDrained
<1>4. ASSUME NEW c \in Conns, NEW list, NEW rows, FlushNext(c, list, rows)
      PROVE  Next \/ UNCHANGED vars
  BY <1>4 DEF FlushNext, Next
<1>5. ASSUME NEW c \in Conns, FlushStep(c)
      PROVE  Next \/ UNCHANGED vars
  BY <1>4, <1>5 DEF FlushStep, FlushStart, FlushDrained, FlushDiscards, FlushBroken
<1>6. ASSUME NEW c \in Conns, Deliver(c) PROVE UNCHANGED vars
  BY <1>6 DEF Deliver
<1>7. ASSUME NEW k, GrowOld \/ Prune(k) \/ Damage(k) PROVE UNCHANGED vars
  BY <1>7 DEF GrowOld, Prune, Damage
<1>8. CASE UNCHANGED allVars
  BY <1>8 DEF allVars
<1> QED BY <1>1, <1>2, <1>3, <1>5, <1>6, <1>7, <1>8 DEF OutboxNext, FlushStep

SessionInv == TypeOK /\ RegistryBacked

LEMMA SessionInvInit == OutboxInit => SessionInv
BY TypeInit, BackedInit DEF OutboxInit, SessionInv

LEMMA SessionInvStep == SessionInv /\ [OutboxNext]_allVars => SessionInv'
<1> SUFFICES ASSUME SessionInv, OutboxNext \/ UNCHANGED allVars PROVE SessionInv'
  OBVIOUS
<1>1. CASE [Next]_vars
  BY <1>1, TypeStep, BackedStep DEF SessionInv
<1>2. CASE Restart
  <2>1. TypeOK'
    BY <1>2, SessionsAssumption DEF SessionInv, TypeOK, Restart, Places, Peers
  <2>2. RegistryBacked'
    BY <1>2 DEF Restart, RegistryBacked
  <2> QED BY <2>1, <2>2 DEF SessionInv
<1> QED BY <1>1, <1>2, SessionMoves

-----------------------------------------------------------------------------
\* Types.

\* A set of row numbers has an oldest one.
LEMMA OldestIsFirst ==
    ASSUME NEW list \in SUBSET Nat, list # {}
    PROVE  Oldest(list) \in list /\ \A j \in list : Oldest(list) <= j
<1> DEFINE R == OpToRel(<, Nat)
<1>1. IsWellFoundedOn(R, Nat)
  BY NatLessThanWellFounded
<1>2. \A i, j \in Nat : i < j => <<i, j>> \in R
  BY DEF OpToRel
<1> HIDE DEF R
<1>3. PICK k \in list : \A j \in list : ~(<<j, k>> \in R)
  BY <1>1, WFMin
<1>4. \A j \in list : k <= j
  <2> SUFFICES ASSUME NEW j \in list PROVE ~(j < k)
    OBVIOUS
  <2>1. j \in Nat /\ k \in Nat
    OBVIOUS
  <2>2. j < k => <<j, k>> \in R
    BY <1>2, <2>1
  <2> QED BY <1>3, <2>2
<1> QED BY <1>3, <1>4 DEF Oldest

\* The log only ever grows.
LEMMA LogGrows ==
    ASSUME LogType, OutboxNext \/ UNCHANGED allVars
    PROVE  /\ log' \in Seq(Rows) /\ Len(log) \in Nat /\ Len(log') \in Nat
           /\ Len(log') >= Len(log)
           /\ DOMAIN log = 1..Len(log) /\ DOMAIN log' = 1..Len(log')
<1>0. log \in Seq(Rows) /\ Len(log) \in Nat
  BY DEF LogType
<1>1. log' \in Seq(Rows) /\ Len(log') >= Len(log)
  <2>1. CASE UNCHANGED log
    BY <1>0, <2>1
  <2>2. CASE Settles
    BY <1>0, <2>2, SettlesRows DEF Settles, Settled, Statuses
  <2>3. CASE Logs
    <3>1. PICK p \in Clients, t \in Types, s \in {"dispatched", "undeliverable"} :
             log' = Append(log, Row(p, t, s))
      BY <2>3 DEF Logs
    <3>2. Row(p, t, s) \in Rows
      BY RowIsRow DEF Statuses
    <3> QED BY <1>0, <3>1, <3>2, LogsRows
  <2>4. CASE Queues
    <3>1. PICK p \in Clients, t \in Durable :
             log' = Append(Superseding(p, t), Row(p, t, "queued"))
      BY <2>4 DEF Queues
    <3>2. Row(p, t, "queued") \in Rows
      BY RowIsRow DEF Statuses, Types
    <3>3. Superseding(p, t) \in Seq(Rows) /\ Len(Superseding(p, t)) = Len(log)
      BY SupersedingRows DEF Types
    <3> QED BY <1>0, <3>1, <3>2, <3>3
  <2>5. CASE Expires
    BY <1>0, <2>5, ExpiringRows DEF Expires
  <2> QED BY <2>1, <2>2, <2>3, <2>4, <2>5, LogMoves
<1> QED BY <1>0, <1>1

LEMMA LongerSequence ==
    ASSUME NEW S, NEW T, S \subseteq T, NEW s \in Seq(S)
    PROVE  s \in Seq(T)
OBVIOUS

OutboxTypes == OutboxTypeOK /\ SessionInv

LEMMA OutboxTypesInit == OutboxInit => OutboxTypes
<1> SUFFICES ASSUME OutboxInit PROVE OutboxTypeOK
  BY SessionInvInit DEF OutboxTypes
<1> QED BY OutboxAssumption DEF OutboxInit, OutboxTypeOK

\* What is not of the log keeps its type when the log grows.
LEMMA TypesWiden ==
    ASSUME OutboxTypes, NEW n \in Nat, n >= Len(log)
    PROVE  /\ cutoff \in 0..n /\ unreadable \in SUBSET (1..n)
           /\ writing \in SUBSET ((1..n) \X Conns)
           /\ flush \in [Conns -> SUBSET (1..n)]
           /\ wire \in [Conns -> Seq(1..n)]
           /\ sent \in SUBSET (1..n)
           /\ have \in [Clients -> [Types -> {0} \cup (1..n)]]
<1>1. /\ log \in Seq(Rows) /\ cutoff \in 0..Len(log) /\ unreadable \in SUBSET DOMAIN log
      /\ writing \in SUBSET ((DOMAIN log) \X Conns)
      /\ flush \in [Conns -> SUBSET DOMAIN log]
      /\ wire \in [Conns -> Seq(DOMAIN log)]
      /\ sent \in SUBSET DOMAIN log
      /\ have \in [Clients -> [Types -> {0} \cup DOMAIN log]]
  BY DEF OutboxTypes, OutboxTypeOK
<1>2. Len(log) \in Nat /\ DOMAIN log \subseteq 1..n
  BY <1>1
<1>3. cutoff \in 0..n /\ unreadable \in SUBSET (1..n)
  BY <1>1, <1>2
<1>4. wire \in [Conns -> Seq(1..n)]
  BY <1>1, <1>2, LongerSequence
<1>5. writing \in SUBSET ((1..n) \X Conns)
  BY <1>1, <1>2
<1>6. flush \in [Conns -> SUBSET (1..n)] /\ sent \in SUBSET (1..n)
  BY <1>1, <1>2
<1>7. have \in [Clients -> [Types -> {0} \cup (1..n)]]
  BY <1>1, <1>2
<1> QED BY <1>3, <1>4, <1>5, <1>6, <1>7

\* What a step may do to a wire.
LEMMA WiresTyped ==
    ASSUME NEW N, wire \in [Conns -> Seq(N)], NEW d \in Conns, NEW k \in N
    PROVE  /\ Written(d, k) \in [Conns -> Seq(N)]
           /\ Carried \in [Conns -> Seq(N)]
           /\ wire[d] # <<>> => [wire EXCEPT ![d] = Tail(@)] \in [Conns -> Seq(N)]
<1>1. Append(wire[d], k) \in Seq(N)
  OBVIOUS
<1>2. wire[d] # <<>> => Tail(wire[d]) \in Seq(N)
  OBVIOUS
<1>3. <<>> \in Seq(N)
  OBVIOUS
<1> QED BY <1>1, <1>2, <1>3 DEF Written, Carried

LEMMA FlushNextTyped ==
    ASSUME OutboxTypes, NEW n \in Nat, DOMAIN log = 1..n,
           NEW c \in Conns, pc[c] = "greet",
           NEW list \in SUBSET (1..n), NEW rows, FlushNext(c, list, rows)
    PROVE  /\ flush' \in [Conns -> SUBSET (1..n)]
           /\ via' \in [Conns -> Conns \cup {None}]
           /\ wire' \in [Conns -> Seq(1..n)]
           /\ sent' \in SUBSET (1..n)
<1> DEFINE d == registry[peer[c]]
           k == Oldest(list)
<1>0. /\ flush \in [Conns -> SUBSET (1..n)] /\ via \in [Conns -> Conns \cup {None}]
      /\ wire \in [Conns -> Seq(1..n)] /\ sent \in SUBSET (1..n)
  BY DEF OutboxTypes, OutboxTypeOK
<1>1. peer[c] \in Peers /\ d \in Conns \cup {None}
  BY DEF OutboxTypes, SessionInv, TypeOK
<1> DEFINE Ends == list = {} \/ (d = None /\ k \notin unreadable)
<1>2. CASE Ends
  BY <1>0, <1>2 DEF FlushNext
<1>4. CASE ~Ends /\ k \in unreadable
  BY <1>0, <1>4 DEF FlushNext
<1>3. CASE ~Ends /\ k \notin unreadable
  <2>0. list \in SUBSET Nat /\ list # {}
    BY <1>3
  <2>1. k \in 1..n
    BY <2>0, OldestIsFirst
  <2>2. /\ flush' = [flush EXCEPT ![c] = list] /\ via' = [via EXCEPT ![c] = d]
        /\ wire' = Written(d, k) /\ sent' = sent \cup {k}
    BY <1>3 DEF FlushNext
  <2>3. wire' \in [Conns -> Seq(1..n)]
    BY <1>0, <1>1, <1>3, <2>1, <2>2, WiresTyped
  <2> QED BY <1>0, <1>1, <1>3, <2>1, <2>2, <2>3
<1> QED BY <1>2, <1>3, <1>4

LEMMA OutboxTypesStep == OutboxTypes /\ [OutboxNext]_allVars => OutboxTypes'
<1> SUFFICES ASSUME OutboxTypes, OutboxNext \/ UNCHANGED allVars PROVE OutboxTypes'
  OBVIOUS
<1> DEFINE n == Len(log')
<1>0. /\ SessionInv /\ OutboxTypeOK /\ LogType /\ TypeOK
      /\ via \in [Conns -> Conns \cup {None}] /\ restarts \in 0..MaxRestarts
  BY DEF OutboxTypes, OutboxTypeOK, LogType, SessionInv
<1>1. /\ log' \in Seq(Rows) /\ Len(log) \in Nat /\ n \in Nat /\ n >= Len(log)
      /\ DOMAIN log = 1..Len(log) /\ DOMAIN log' = 1..n
  BY <1>0, LogGrows
<1>2. /\ cutoff \in 0..n /\ unreadable \in SUBSET (1..n)
      /\ writing \in SUBSET ((1..n) \X Conns)
      /\ flush \in [Conns -> SUBSET (1..n)]
      /\ wire \in [Conns -> Seq(1..n)]
      /\ sent \in SUBSET (1..n)
      /\ have \in [Clients -> [Types -> {0} \cup (1..n)]]
  BY <1>1, TypesWiden
<1> DEFINE Typed ==
           /\ cutoff' \in 0..n /\ unreadable' \in SUBSET (1..n)
           /\ writing' \in SUBSET ((1..n) \X Conns)
           /\ flush' \in [Conns -> SUBSET (1..n)]
           /\ via' \in [Conns -> Conns \cup {None}]
           /\ wire' \in [Conns -> Seq(1..n)]
           /\ sent' \in SUBSET (1..n)
           /\ have' \in [Clients -> [Types -> {0} \cup (1..n)]]
           /\ restarts' \in 0..MaxRestarts
<1>3. SUFFICES Typed
  <2>1. SessionInv'
    BY <1>0, SessionInvStep
  <2> QED BY <1>1, <2>1 DEF OutboxTypes, OutboxTypeOK
<1>c. Carried \in [Conns -> Seq(1..n)]
  <2>1. <<>> \in Seq(1..n)
    OBVIOUS
  <2> HIDE DEF n
  <2> QED BY <1>2, <2>1 DEF Carried
<1>4. CASE SessionStep
  BY <1>0, <1>2, <1>4, <1>c DEF SessionStep, queueAges
<1>5. ASSUME NEW p \in Clients, NEW t \in Types, IssueToAbsent(p, t) PROVE Typed
  BY <1>0, <1>2, <1>5 DEF IssueToAbsent, queueAges
<1>6. ASSUME NEW p \in Clients, NEW t \in Types, IssueToPresent(p, t) PROVE Typed
  <2> DEFINE k == Len(log) + 1
             d == registry[p]
  <2>1. /\ log' = Append(log, Row(p, t, "dispatched")) /\ wire' = Written(d, k)
        /\ sent' = sent \cup {k} /\ writing' \in {writing, writing \cup {<<k, d>>}}
        /\ UNCHANGED <<cutoff, unreadable, flush, via, have, restarts>> /\ d # None
    BY <1>6 DEF IssueToPresent, queueAges
  <2>2. d \in Conns
    BY <1>0, <2>1 DEF TypeOK, Peers
  <2>3. k \in 1..n
    BY <1>0, <1>1, <2>1 DEF LogType
  <2>4. wire' \in [Conns -> Seq(1..n)]
    BY <1>2, <2>1, <2>2, <2>3, WiresTyped
  <2>5. writing' \in SUBSET ((1..n) \X Conns)
    BY <1>2, <2>1, <2>2, <2>3
  <2>6. sent' \in SUBSET (1..n)
    BY <1>2, <2>1, <2>3
  <2> QED BY <1>0, <1>2, <2>1, <2>4, <2>5, <2>6
<1>7. ASSUME NEW k, NEW c \in Conns, IssueDrained(k, c) PROVE Typed
  BY <1>0, <1>2, <1>7 DEF IssueDrained, queueAges
<1>8. ASSUME NEW c \in Conns, FlushStep(c) PROVE Typed
  <2>0. flush[c] \in SUBSET DOMAIN log
    BY <1>0 DEF OutboxTypeOK
  <2>1. PICK list, rows : list \in SUBSET DOMAIN log /\ FlushNext(c, list, rows)
    <3>1. CASE FlushStart(c)
      BY <3>1 DEF FlushStart, Due, QueuedFor
    <3>2. CASE FlushDrained(c) \/ FlushDiscards(c)
      BY <2>0, <3>2 DEF FlushDrained, FlushDiscards
    <3>3. CASE FlushBroken(c)
      BY <3>3 DEF FlushBroken
    <3> QED BY <1>8, <3>1, <3>2, <3>3 DEF FlushStep
  <2>2. pc[c] = "greet"
    BY <1>8 DEF FlushStep, FlushStart, FlushDrained, FlushDiscards, FlushBroken
  <2>3. /\ flush' \in [Conns -> SUBSET (1..Len(log))]
        /\ via' \in [Conns -> Conns \cup {None}]
        /\ wire' \in [Conns -> Seq(1..Len(log))]
        /\ sent' \in SUBSET (1..Len(log))
    BY <1>1, <2>1, <2>2, FlushNextTyped
  <2>4. 1..Len(log) \subseteq 1..n
    BY <1>1
  <2>5. wire' \in [Conns -> Seq(1..n)]
    <3>1. \A x \in Conns : wire'[x] \in Seq(1..Len(log))
      BY <2>3
    <3>2. \A x \in Conns : wire'[x] \in Seq(1..n)
      <4> HIDE DEF n
      <4> QED BY <2>4, <3>1, LongerSequence
    <3> QED BY <2>3, <3>2
  <2>6. flush' \in [Conns -> SUBSET (1..n)] /\ sent' \in SUBSET (1..n)
    BY <2>3, <2>4
  <2>7. UNCHANGED <<cutoff, unreadable, writing, have, restarts>>
    BY <2>1 DEF FlushNext, queueAges
  <2> QED BY <1>0, <1>2, <2>3, <2>5, <2>6, <2>7
<1>9. ASSUME NEW c \in Conns, Deliver(c) PROVE Typed
  <2> DEFINE k == Head(wire[c])
  <2>1. /\ wire[c] # <<>> /\ wire' = [wire EXCEPT ![c] = Tail(@)]
        /\ have' = [have EXCEPT ![peer[c]][log[k].type] = k]
        /\ UNCHANGED <<log, cutoff, unreadable, writing, flush, via, sent, restarts>>
    BY <1>9 DEF Deliver, queueAges
  <2>2. k \in 1..n
    BY <1>2, <2>1
  <2>3. wire' \in [Conns -> Seq(1..n)]
    BY <1>2, <2>1, <2>2, WiresTyped
  <2>4. have' \in [Clients -> [Types -> {0} \cup (1..n)]]
    <3> HIDE DEF k
    <3> QED BY <1>2, <2>1, <2>2
  <2> QED BY <1>0, <1>2, <2>1, <2>3, <2>4
<1>10. CASE GrowOld
  <2>1. cutoff < Len(log) /\ cutoff' = cutoff + 1
    BY <1>10 DEF GrowOld
  <2>2. cutoff' \in 0..n
    BY <1>1, <1>2, <2>1
  <2> QED BY <1>0, <1>2, <1>10, <2>2 DEF GrowOld
<1>11. CASE Restart
  <2>1. restarts' \in 0..MaxRestarts
    BY <1>0, <1>11, OutboxAssumption DEF Restart
  <2> QED BY <1>2, <1>11, <1>c, <2>1 DEF Restart, queueAges
<1>12. CASE UNCHANGED allVars
  BY <1>0, <1>2, <1>12 DEF allVars, outboxVars, queueAges
<1>13. ASSUME NEW k, Prune(k) PROVE Typed
  BY <1>0, <1>2, <1>13 DEF Prune, queueAges
<1>14. ASSUME NEW k \in DOMAIN log, Damage(k) PROVE Typed
  BY <1>0, <1>1, <1>2, <1>14 DEF Damage
<1> QED
  BY <1>4, <1>5, <1>6, <1>7, <1>8, <1>9, <1>10, <1>11, <1>12, <1>13, <1>14 DEF OutboxNext

(***************************************************************************)
(* The log only grows, every row number an action keeps is one of its rows *)
(* and every connection a flush waits on is one (engine/command_handler.py,*)
(* send_command_to_client and flush_outbox).                               *)
(***************************************************************************)
THEOREM OutboxTypeCorrect == OutboxSpec => []OutboxTypeOK
<1>1. OutboxTypes => OutboxTypeOK
  BY DEF OutboxTypes
<1> QED BY <1>1, OutboxTypesInit, OutboxTypesStep, PTL DEF OutboxSpec

-----------------------------------------------------------------------------
\* What leaves the queue.

\* No move but a new durable command queues a row.
LEMMA NothingQueued ==
    ASSUME LogType, UNCHANGED log \/ Settles \/ Logs \/ Expires
    PROVE  \A j \in DOMAIN log' :
              log'[j].status = "queued" => j \in DOMAIN log /\ log'[j] = log[j]
<1>0. DOMAIN log = 1..Len(log) /\ Len(log) \in Nat
  BY DEF LogType
<1>1. CASE UNCHANGED log
  BY <1>1
<1>2. CASE Settles
  <2>0. PICK k : \E s \in Settled : log' = WithStatus(k, s)
    BY <1>2 DEF Settles
  <2>1. PICK s \in Settled : log' = WithStatus(k, s)
    BY <2>0
  <2>2. /\ DOMAIN log' = DOMAIN log
        /\ \A j \in DOMAIN log : log'[j] = IF j = k THEN Marked(j, s) ELSE log[j]
    BY <2>1, SettlesRows DEF Settled, Statuses
  <2> QED BY <2>2, MarkedIsRow DEF Settled, Statuses
<1>3. CASE Logs
  <2>1. PICK p \in Clients, t \in Types, s \in {"dispatched", "undeliverable"} :
           log' = Append(log, Row(p, t, s))
    BY <1>3 DEF Logs
  <2>2. Row(p, t, s) \in Rows /\ Row(p, t, s).status # "queued"
    BY RowIsRow DEF Statuses
  <2>3. /\ DOMAIN log' = 1..(Len(log) + 1) /\ log'[Len(log) + 1] = Row(p, t, s)
        /\ \A j \in 1..Len(log) : log'[j] = log[j]
    BY <2>1, <2>2, LogsRows
  <2> QED BY <1>0, <2>2, <2>3
<1>4. CASE Expires
  <2>1. PICK p \in Clients : log' = Expiring(p)
    BY <1>4 DEF Expires
  <2>2. /\ log' \in Seq(Rows) /\ Len(log') = Len(log)
        /\ \A j \in 1..Len(log) :
              log'[j] = IF j \in QueuedFor(p) /\ j <= cutoff
                        THEN Marked(j, "expired")
                        ELSE log[j]
    BY <2>1, ExpiringRows
  <2>3. DOMAIN log' = 1..Len(log)
    BY <2>2
  <2> QED BY <1>0, <2>2, <2>3, MarkedIsRow DEF Settled, Statuses
<1> QED BY <1>1, <1>2, <1>3, <1>4

\* The move a new durable command makes, row by row.
LEMMA QueuesRows ==
    ASSUME LogType, NEW p \in Clients, NEW t \in Durable,
           log' = Append(Superseding(p, t), Row(p, t, "queued"))
    PROVE  /\ DOMAIN log' = 1..(Len(log) + 1)
           /\ log'[Len(log) + 1] = Row(p, t, "queued")
           /\ \A j \in 1..Len(log) :
                 log'[j] = IF j \in QueuedFor(p) /\ log[j].type = t
                           THEN Marked(j, "superseded")
                           ELSE log[j]
<1>1. Row(p, t, "queued") \in Rows
  BY RowIsRow DEF Statuses, Types
<1>2. /\ Superseding(p, t) \in Seq(Rows) /\ Len(Superseding(p, t)) = Len(log)
      /\ \A j \in 1..Len(log) :
            Superseding(p, t)[j] = IF j \in QueuedFor(p) /\ log[j].type = t
                                   THEN Marked(j, "superseded")
                                   ELSE log[j]
  BY SupersedingRows DEF Types
<1> QED BY <1>1, <1>2

\* Whatever has left the queue stays out of it.
LEMMA SettledStays ==
    ASSUME LogType, OutboxNext \/ UNCHANGED allVars
    PROVE  \A j \in DOMAIN log : log[j].status # "queued" => log'[j].status # "queued"
<1>0. /\ DOMAIN log = 1..Len(log) /\ Len(log) \in Nat
      /\ Len(log') \in Nat /\ Len(log') >= Len(log) /\ DOMAIN log' = 1..Len(log')
  BY LogGrows
<1>1. CASE UNCHANGED log \/ Settles \/ Logs \/ Expires
  BY <1>0, <1>1, NothingQueued
<1>2. CASE Queues
  <2>1. PICK p \in Clients, t \in Durable :
           log' = Append(Superseding(p, t), Row(p, t, "queued"))
    BY <1>2 DEF Queues
  <2>2. \A j \in 1..Len(log) :
           log'[j] = IF j \in QueuedFor(p) /\ log[j].type = t
                     THEN Marked(j, "superseded")
                     ELSE log[j]
    BY <2>1, QueuesRows
  <2> QED BY <1>0, <2>2, MarkedIsRow DEF Settled, Statuses
<1> QED BY <1>1, <1>2, LogMoves

\* A direct send that awaits drain is of a row already answered for, and a
\* flush that awaits drain has written the first row of its list, unless that
\* is to be discarded.
Awaited == \A w \in writing : log[w[1]].status # "queued"
Flushed == \A c \in Conns : via[c] # None => flush[c] # {} /\ Oldest(flush[c]) \in sent \cup unreadable

WrittenInv == OutboxTypes /\ Awaited /\ Flushed

LEMMA WrittenInvInit == OutboxInit => WrittenInv
BY OutboxTypesInit DEF OutboxInit, WrittenInv, Awaited, Flushed

LEMMA AwaitedStep ==
    ASSUME OutboxTypes, Awaited, OutboxNext \/ UNCHANGED allVars
    PROVE  Awaited'
<1>0. LogType /\ writing \in SUBSET ((DOMAIN log) \X Conns)
  BY DEF OutboxTypes, OutboxTypeOK, LogType
<1>1. CASE writing' \subseteq writing
  <2>1. \A w \in writing' : w[1] \in DOMAIN log /\ log[w[1]].status # "queued"
    BY <1>0, <1>1 DEF Awaited
  <2> QED BY <1>0, <2>1, SettledStays DEF Awaited
<1>2. ASSUME NEW p \in Clients, NEW t \in Types, IssueToPresent(p, t) PROVE Awaited'
  <2>1. Row(p, t, "dispatched") \in Rows /\ Row(p, t, "dispatched").status = "dispatched"
    BY RowIsRow DEF Statuses
  <2>2. /\ log' = Append(log, Row(p, t, "dispatched"))
        /\ writing' \subseteq writing \cup {<<Len(log) + 1, registry[p]>>}
    BY <1>2 DEF IssueToPresent
  <2>3. log'[Len(log) + 1].status # "queued"
    BY <1>0, <2>1, <2>2, LogsRows
  <2>4. \A w \in writing : w[1] \in DOMAIN log /\ log[w[1]].status # "queued"
    BY <1>0 DEF Awaited
  <2>5. \A w \in writing : log'[w[1]].status # "queued"
    BY <1>0, <2>4, SettledStays
  <2>6. ASSUME NEW w \in writing' PROVE log'[w[1]].status # "queued"
    <3>1. CASE w \in writing
      BY <2>5, <3>1
    <3>2. CASE w = <<Len(log) + 1, registry[p]>>
      <4>1. w[1] = Len(log) + 1
        BY <3>2
      <4> QED BY <2>3, <4>1
    <3> QED BY <2>2, <3>1, <3>2
  <2> QED BY <2>6 DEF Awaited
<1>3. ASSUME NEW c \in Conns, FlushStep(c)
      PROVE  writing' = writing
  BY <1>3 DEF FlushStep, FlushStart, FlushDrained, FlushDiscards, FlushBroken, FlushNext
<1>4. CASE GrowOld \/ SessionStep
  BY <1>1, <1>4 DEF GrowOld, SessionStep
<1>5. CASE Restart
  BY <1>1, <1>5 DEF Restart
<1>6. CASE UNCHANGED allVars
  BY <1>1, <1>6 DEF allVars, outboxVars
<1>7. ASSUME NEW p \in Clients, NEW t \in Types, IssueToAbsent(p, t) PROVE writing' = writing
  BY <1>7 DEF IssueToAbsent
<1>8. ASSUME NEW k, NEW c \in Conns, IssueDrained(k, c) PROVE writing' \subseteq writing
  BY <1>8 DEF IssueDrained
<1>9. ASSUME NEW c \in Conns, Deliver(c) PROVE writing' = writing
  BY <1>9 DEF Deliver
<1>10. ASSUME NEW k, Prune(k) \/ Damage(k) PROVE writing' = writing
  BY <1>10 DEF Prune, Damage
<1> QED BY <1>1, <1>2, <1>3, <1>4, <1>5, <1>6, <1>7, <1>8, <1>9, <1>10 DEF OutboxNext

LEMMA FlushedStep ==
    ASSUME OutboxTypes, Flushed, OutboxNext \/ UNCHANGED allVars
    PROVE  Flushed'
<1>0. via \in [Conns -> Conns \cup {None}] /\ flush \in [Conns -> SUBSET DOMAIN log]
  BY DEF OutboxTypes, OutboxTypeOK
<1>1. CASE sent \subseteq sent' /\ unreadable \subseteq unreadable' /\ UNCHANGED <<via, flush>>
  BY <1>1 DEF Flushed
<1>2. ASSUME NEW c \in Conns, NEW list, NEW rows, FlushNext(c, list, rows)
      PROVE  Flushed'
  <2> DEFINE k == Oldest(list)
             Ends == list = {} \/ (registry[peer[c]] = None /\ k \notin unreadable)
  <2>0. unreadable' = unreadable
    BY <1>2 DEF FlushNext, queueAges
  <2>1. CASE Ends
    BY <1>0, <1>2, <2>0, <2>1 DEF FlushNext, Flushed
  <2>2. CASE ~Ends
    <3>1. flush' = [flush EXCEPT ![c] = list] /\ list # {}
      BY <1>2, <2>2 DEF FlushNext
    <3>2. /\ via' = [via EXCEPT ![c] = via'[c]]
          /\ sent \subseteq sent' /\ k \in sent' \cup unreadable
      BY <1>0, <1>2, <2>2 DEF FlushNext
    <3>3. \A x \in Conns \ {c} : via'[x] = via[x] /\ flush'[x] = flush[x]
      BY <1>0, <3>1, <3>2
    <3>4. ASSUME NEW x \in Conns, via'[x] # None
          PROVE  flush'[x] # {} /\ Oldest(flush'[x]) \in sent' \cup unreadable'
      <4>1. CASE x = c
        BY <1>0, <2>0, <3>1, <3>2, <4>1
      <4>2. CASE x # c
        BY <2>0, <3>2, <3>3, <3>4, <4>2 DEF Flushed
      <4> QED BY <4>1, <4>2
    <3> QED BY <3>4 DEF Flushed
  <2> QED BY <2>1, <2>2
<1>3. ASSUME NEW c \in Conns, FlushStep(c)
      PROVE  Flushed'
  BY <1>2, <1>3 DEF FlushStep, FlushStart, FlushDrained, FlushDiscards, FlushBroken
<1>4. CASE SessionStep
  <2>1. /\ flush' = [c \in Conns |-> IF pc'[c] = "greet" THEN flush[c] ELSE {}]
        /\ via' = [c \in Conns |-> IF pc'[c] = "greet" THEN via[c] ELSE None]
        /\ sent' = sent /\ unreadable' = unreadable
    BY <1>4 DEF SessionStep, queueAges
  <2> QED BY <2>1 DEF Flushed
<1>5. CASE Restart
  BY <1>5 DEF Restart, Flushed
<1>6. CASE GrowOld \/ UNCHANGED allVars
  BY <1>1, <1>6 DEF GrowOld, allVars, outboxVars, queueAges
<1>7. ASSUME NEW p \in Clients, NEW t \in Types, IssueToAbsent(p, t) \/ IssueToPresent(p, t)
      PROVE  Flushed'
  BY <1>1, <1>7 DEF IssueToAbsent, IssueToPresent, queueAges
<1>8. ASSUME NEW k, NEW c \in Conns, IssueDrained(k, c) PROVE Flushed'
  BY <1>1, <1>8 DEF IssueDrained, queueAges
<1>9. ASSUME NEW c \in Conns, Deliver(c) PROVE Flushed'
  BY <1>1, <1>9 DEF Deliver, queueAges
<1>10. ASSUME NEW k, Prune(k) \/ Damage(k) PROVE Flushed'
  BY <1>1, <1>10 DEF Prune, Damage, queueAges
<1> QED BY <1>3, <1>4, <1>5, <1>6, <1>7, <1>8, <1>9, <1>10 DEF OutboxNext

LEMMA WrittenInvStep == WrittenInv /\ [OutboxNext]_allVars => WrittenInv'
<1> SUFFICES ASSUME WrittenInv, OutboxNext \/ UNCHANGED allVars PROVE WrittenInv'
  OBVIOUS
<1>1. OutboxTypes /\ Awaited /\ Flushed
  BY DEF WrittenInv
<1>2. OutboxTypes'
  BY <1>1, OutboxTypesStep
<1> QED BY <1>1, <1>2, AwaitedStep, FlushedStep DEF WrittenInv

\* The ways a queued row may fare in one step.
LeavesForReason(k) ==
    \/ log'[k].status = "queued"
    \/ log'[k].status = "dispatched" /\ k \in sent
    \/ log'[k].status = "expired" /\ k <= cutoff
    \/ log'[k].status = "error" /\ k \in unreadable
    \/ log'[k].status = "pruned" /\ (RetentionFirst \/ k <= cutoff)
    \/ /\ log'[k].status = "superseded"
       /\ \E j \in DOMAIN log' : j > k /\ log'[j] = Marked(k, "queued")

LEMMA LeavesForReasonStep ==
    ASSUME WrittenInv, OutboxNext \/ UNCHANGED allVars,
           NEW k \in DOMAIN log, log[k].status = "queued"
    PROVE  LeavesForReason(k)
<1>0. /\ LogType /\ DOMAIN log = 1..Len(log) /\ Len(log) \in Nat
      /\ writing \in SUBSET ((DOMAIN log) \X Conns)
  BY DEF WrittenInv, OutboxTypes, OutboxTypeOK, LogType
<1>1. CASE log'[k] = log[k]
  BY <1>1 DEF LeavesForReason
<1>2. CASE Logs
  <2>1. PICK p \in Clients, t \in Types, s \in {"dispatched", "undeliverable"} :
           log' = Append(log, Row(p, t, s))
    BY <1>2 DEF Logs
  <2>2. Row(p, t, s) \in Rows
    BY RowIsRow DEF Statuses
  <2>3. log'[k] = log[k]
    BY <1>0, <2>1, <2>2, LogsRows
  <2> QED BY <1>1, <2>3
<1>3. CASE Queues
  <2>1. PICK p \in Clients, t \in Durable :
           log' = Append(Superseding(p, t), Row(p, t, "queued"))
    BY <1>3 DEF Queues
  <2>2. /\ DOMAIN log' = 1..(Len(log) + 1)
        /\ log'[Len(log) + 1] = Row(p, t, "queued")
        /\ log'[k] = IF k \in QueuedFor(p) /\ log[k].type = t
                     THEN Marked(k, "superseded")
                     ELSE log[k]
    BY <1>0, <2>1, QueuesRows
  <2>3. CASE k \in QueuedFor(p) /\ log[k].type = t
    <3>1. log'[k].status = "superseded"
      BY <1>0, <2>2, <2>3, MarkedIsRow DEF Settled, Statuses
    <3>2. Marked(k, "queued") = Row(p, t, "queued")
      BY <2>3 DEF Marked, QueuedFor
    <3>3. Len(log) + 1 \in DOMAIN log' /\ Len(log) + 1 > k
      BY <1>0, <2>2
    <3> QED BY <2>2, <3>1, <3>2, <3>3 DEF LeavesForReason
  <2>4. CASE ~(k \in QueuedFor(p) /\ log[k].type = t)
    BY <1>1, <2>2, <2>4
  <2> QED BY <2>3, <2>4
<1>4. CASE Expires
  <2>1. PICK p \in Clients : log' = Expiring(p)
    BY <1>4 DEF Expires
  <2>2. log'[k] = IF k \in QueuedFor(p) /\ k <= cutoff THEN Marked(k, "expired") ELSE log[k]
    BY <1>0, <2>1, ExpiringRows
  <2>3. CASE k \in QueuedFor(p) /\ k <= cutoff
    <3>1. log'[k].status = "expired"
      BY <1>0, <2>2, <2>3, MarkedIsRow DEF Settled, Statuses
    <3> QED BY <2>3, <3>1 DEF LeavesForReason
  <2>4. CASE ~(k \in QueuedFor(p) /\ k <= cutoff)
    BY <1>1, <2>2, <2>4
  <2> QED BY <2>3, <2>4
<1>5. ASSUME NEW j, NEW c \in Conns, IssueDrained(j, c) PROVE LeavesForReason(k)
  <2>1. j # k
    BY <1>5 DEF IssueDrained, WrittenInv, Awaited
  <2>2. CASE UNCHANGED log
    BY <1>1, <2>2
  <2>3. CASE log' = WithStatus(j, "undeliverable")
    <3>1. log'[k] = log[k]
      BY <1>0, <2>1, <2>3, SettlesRows DEF Settled, Statuses
    <3> QED BY <1>1, <3>1
  <2> QED BY <1>5, <2>2, <2>3 DEF IssueDrained
<1>6. ASSUME NEW j, NEW s \in Settled, log' = WithStatus(j, s),
             j = k => \/ s = "dispatched" /\ j \in sent
                      \/ s = "error" /\ j \in unreadable
                      \/ s = "pruned" /\ (RetentionFirst \/ j <= cutoff)
      PROVE  LeavesForReason(k)
  <2>1. log'[k] = IF k = j THEN Marked(k, s) ELSE log[k]
    BY <1>0, <1>6, SettlesRows DEF Settled, Statuses
  <2>2. CASE k = j
    <3>1. log'[k].status = s
      BY <1>0, <2>1, <2>2, MarkedIsRow DEF Settled, Statuses
    <3> QED BY <1>6, <2>2, <3>1 DEF LeavesForReason
  <2>3. CASE k # j
    BY <1>1, <2>1, <2>3
  <2> QED BY <2>2, <2>3
<1>12. ASSUME NEW c \in Conns, FlushDrained(c) \/ FlushDiscards(c) PROVE LeavesForReason(k)
  <2> DEFINE j == Oldest(flush[c])
  <2>1. \/ log' = WithStatus(j, "dispatched") /\ j \notin unreadable /\ via[c] # None
        \/ log' = WithStatus(j, "error") /\ j \in unreadable
    BY <1>12 DEF FlushDrained, FlushDiscards, FlushNext
  <2>2. via[c] # None => j \in sent \cup unreadable
    BY DEF WrittenInv, Flushed
  <2> HIDE DEF j
  <2> QED BY <1>6, <2>1, <2>2 DEF Settled
<1>13. ASSUME NEW j \in DOMAIN log, Prune(j) PROVE LeavesForReason(k)
  BY <1>6, <1>13 DEF Prune, Settled
<1>7. ASSUME NEW p \in Clients, NEW t \in Types, IssueToAbsent(p, t) \/ IssueToPresent(p, t)
      PROVE  Logs \/ Queues
  <2>1. CASE IssueToPresent(p, t)
    BY <2>1 DEF IssueToPresent, Logs
  <2>2. CASE IssueToAbsent(p, t) /\ t \in Durable
    BY <2>2 DEF IssueToAbsent, Queues
  <2>3. CASE IssueToAbsent(p, t) /\ t \notin Durable
    BY <2>3 DEF IssueToAbsent, Logs
  <2> QED BY <1>7, <2>1, <2>2, <2>3
<1>8. ASSUME NEW c \in Conns, FlushStart(c) PROVE Expires
  <2>1. peer[c] \in Clients /\ log' = Expiring(peer[c])
    BY <1>8 DEF FlushStart, FlushNext
  <2> QED BY <2>1 DEF Expires
<1>9. ASSUME NEW c \in Conns, FlushBroken(c) \/ Deliver(c) PROVE log' = log
  BY <1>9 DEF FlushBroken, FlushNext, Deliver
<1>10. ASSUME NEW j, SessionStep \/ GrowOld \/ Damage(j) \/ UNCHANGED allVars
       PROVE  LeavesForReason(k)
  BY <1>1, <1>10 DEF SessionStep, GrowOld, Damage, allVars, outboxVars
<1>11. CASE Restart
  <2>1. log' = log \/ Logs
    BY <1>11 DEF Restart, Logs
  <2> QED BY <1>1, <1>2, <2>1
<1> QED
  BY <1>1, <1>2, <1>3, <1>4, <1>5, <1>7, <1>8, <1>9, <1>10, <1>11, <1>12, <1>13
     DEF OutboxNext, FlushStep

(***************************************************************************)
(* Nothing is lost from the queue: a row leaves it written to a transport, *)
(* replaced by a newer one, past its time, unreadable, or deleted by       *)
(* retention, past its time too unless retention is set to be the shorter  *)
(* of the two (database.py, prune_batch).  Inductive with Flushed: the     *)
(* row a flush marks dispatched after its await is the one it wrote before *)
(* (engine/command_handler.py, flush_outbox), and with Awaited: a direct   *)
(* send that fails late can only mark a row that never was queued          *)
(* (send_command_to_client).                                               *)
(***************************************************************************)
THEOREM QueuedAccountedForAlways == OutboxSpec => QueuedAccountedFor
<1>1. WrittenInv /\ [OutboxNext]_allVars =>
         [\A k \in DOMAIN log : log[k].status = "queued" =>
            \/ log'[k].status = "queued"
            \/ log'[k].status = "dispatched" /\ k \in sent
            \/ log'[k].status = "expired" /\ k <= cutoff
            \/ log'[k].status = "error" /\ k \in unreadable
            \/ log'[k].status = "pruned" /\ (RetentionFirst \/ k <= cutoff)
            \/ /\ log'[k].status = "superseded"
               /\ \E j \in DOMAIN log' : /\ j > k
                                         /\ log'[j] = Marked(k, "queued")
         ]_allVars
  BY LeavesForReasonStep DEF LeavesForReason
<1> QED BY <1>1, WrittenInvInit, WrittenInvStep, PTL DEF OutboxSpec, QueuedAccountedFor

-----------------------------------------------------------------------------
\* What waits for a connected client is in hand.

\* An entry that leads to a live handler over a link that is up.
Carries(q, d) == registry[q] = d /\ d # None /\ link[d] = "up" /\ pc[d] # "crashed"

\* The handler of the registered connection itself has everything in hand, and
\* waits for no other connection than its own.
InHand(q, d) ==
    /\ via[d] \in {None, d}
    /\ \A k \in QueuedFor(q) : pc[d] = "greet" /\ (via[d] = None \/ k \in flush[d])

QueueInHand == \A q \in Clients, d \in Conns : Carries(q, d) => InHand(q, d)

\* Only a greeting handler is in a flush.
FlushInGreet == \A c \in Conns : pc[c] # "greet" => via[c] = None

CarrierInv == OutboxTypes /\ FlushInGreet /\ QueueInHand

LEMMA CarrierInvInit == OutboxInit => CarrierInv
<1> SUFFICES ASSUME OutboxInit PROVE FlushInGreet /\ QueueInHand
  BY OutboxTypesInit DEF CarrierInv
<1> QED BY DEF OutboxInit, Init, FlushInGreet, QueueInHand, Carries, Peers

LEMMA FlushInGreetStep ==
    ASSUME OutboxTypes, FlushInGreet, OutboxNext \/ UNCHANGED allVars
    PROVE  FlushInGreet'
<1>0. via \in [Conns -> Conns \cup {None}] /\ pc \in [Conns -> Places]
  BY DEF OutboxTypes, OutboxTypeOK, SessionInv, TypeOK
<1>1. CASE UNCHANGED <<pc, via>>
  BY <1>1 DEF FlushInGreet
<1>2. ASSUME NEW c \in Conns, pc[c] = "greet", NEW list, NEW rows, FlushNext(c, list, rows)
      PROVE  FlushInGreet'
  <2> DEFINE Ends == list = {} \/ (registry[peer[c]] = None /\ Oldest(list) \notin unreadable)
  <2>1. CASE Ends
    BY <1>0, <1>2, <2>1 DEF FlushNext, Greet, FlushInGreet
  <2>2. CASE ~Ends
    BY <1>0, <1>2, <2>2 DEF FlushNext, FlushInGreet, vars
  <2> QED BY <2>1, <2>2
<1>3. ASSUME NEW c \in Conns, FlushStep(c)
      PROVE  FlushInGreet'
  BY <1>2, <1>3 DEF FlushStep, FlushStart, FlushDrained, FlushDiscards, FlushBroken
<1>4. CASE SessionStep
  BY <1>4 DEF SessionStep, FlushInGreet
<1>5. CASE Restart
  BY <1>5 DEF Restart, FlushInGreet
<1>6. CASE GrowOld \/ UNCHANGED allVars
  BY <1>1, <1>6 DEF GrowOld, allVars, outboxVars, vars
<1>7. ASSUME NEW p \in Clients, NEW t \in Types, IssueToAbsent(p, t) \/ IssueToPresent(p, t)
      PROVE  FlushInGreet'
  BY <1>1, <1>7 DEF IssueToAbsent, IssueToPresent, vars
<1>8. ASSUME NEW k, NEW c \in Conns, IssueDrained(k, c) PROVE FlushInGreet'
  BY <1>1, <1>8 DEF IssueDrained, vars
<1>9. ASSUME NEW c \in Conns, Deliver(c) PROVE FlushInGreet'
  BY <1>1, <1>9 DEF Deliver, vars
<1>10. ASSUME NEW k, Prune(k) \/ Damage(k) PROVE FlushInGreet'
  BY <1>1, <1>10 DEF Prune, Damage, vars
<1> QED BY <1>3, <1>4, <1>5, <1>6, <1>7, <1>8, <1>9, <1>10 DEF OutboxNext

\* An entry that carries was carrying before the step, or is of a connection
\* just admitted, whose handler begins to greet.
LEMMA EntryMoves ==
    ASSUME SessionInv, Lifecycle \/ \E c \in Conns : peer[c] \in Admins /\ Greet(c),
           NEW q \in Clients, NEW d \in Conns, Carries(q, d)'
    PROVE  \/ Carries(q, d) /\ (pc[d] = "greet" => pc'[d] = "greet")
           \/ pc[d] # "greet" /\ pc'[d] = "greet"
<1> DEFINE Kept == Carries(q, d) /\ (pc[d] = "greet" => pc'[d] = "greet")
           New == pc[d] # "greet" /\ pc'[d] = "greet"
<1>0. TypeOK /\ RegistryBacked /\ q \in Peers /\ q \notin Admins /\ d # None
  BY SessionsAssumption DEF SessionInv, Peers
<1>a. registry'[q] = d /\ link'[d] = "up" /\ pc'[d] # "crashed"
  BY DEF Carries
<1>b. registry[q] = d => peer[d] = q /\ pc[d] \in {"greet", "serve", "crashed"}
  BY <1>0 DEF RegistryBacked, Live
<1> USE DEF TypeOK
<1>1. ASSUME NEW p \in Peers, NEW c \in Conns, Connect(p, c) PROVE Kept
  <2>1. registry[q] = d /\ pc[c] = "none"
    BY <1>1, <1>a DEF Connect
  <2>2. d # c
    BY <1>b, <2>1
  <2> QED BY <1>0, <1>1, <1>a, <2>1, <2>2 DEF Connect, Carries
<1>2. ASSUME NEW c \in Conns, Disconnect(c, "eof") \/ Disconnect(c, "lost") PROVE Kept
  BY <1>0, <1>2, <1>a DEF Disconnect, Carries
<1>3. ASSUME NEW c \in Conns, Admit(c), pc[c] \in {"hello", "challenge"}, UNCHANGED <<peer, link>>
      PROVE  Kept \/ New
  <2>1. registry' = [registry EXCEPT ![peer[c]] = c]
    BY <1>3 DEF Admit, Registered
  <2>2. CASE peer[c] = q
    <3>1. d = c
      BY <1>0, <1>a, <2>1, <2>2
    <3> QED BY <1>0, <1>3, <1>a, <3>1 DEF Admit
  <2>3. CASE peer[c] # q
    <3>1. registry[q] = d
      BY <1>0, <1>a, <2>1, <2>3
    <3>2. d # c
      BY <1>b, <2>3, <3>1
    <3> QED BY <1>0, <1>3, <1>a, <3>1, <3>2 DEF Admit, Carries
  <2> QED BY <2>2, <2>3
<1>4. ASSUME NEW c \in Conns, Cleanup(c) PROVE Kept
  <2>1. registry' = [registry EXCEPT ![peer[c]] = None]
    BY <1>4 DEF Cleanup, Unregistered
  <2>2. peer[c] # q /\ registry[q] = d
    BY <1>0, <1>a, <2>1
  <2>3. d # c
    BY <1>b, <2>2
  <2> QED BY <1>0, <1>4, <1>a, <2>2, <2>3 DEF Cleanup, Carries
<1>5. ASSUME NEW c \in Conns, HandlerStep(c) PROVE Kept \/ New
  <2>1. CASE Refuse(c)
    BY <1>0, <1>a, <2>1 DEF Refuse, Carries
  <2>2. CASE Hello(c)
    <3>1. CASE Admit(c)
      BY <1>3, <2>2, <3>1 DEF Hello
    <3>2. CASE pc' = [pc EXCEPT ![c] = "challenge"] /\ UNCHANGED <<registry, fresh, row>>
      BY <1>0, <1>a, <2>2, <3>2 DEF Hello, Carries
    <3> QED BY <2>2, <3>1, <3>2 DEF Hello
  <2>3. CASE HelloWhenFull(c)
    BY <1>0, <1>a, <2>3 DEF HelloWhenFull, Carries
  <2>4. CASE Answer(c)
    BY <1>3, <2>4 DEF Answer
  <2>5. CASE Receive(c)
    BY <1>a, <1>0, <2>5 DEF Receive, Carries
  <2>6. CASE Hangup(c) \/ Fault(c)
    BY <1>4, <2>6 DEF Hangup, Fault
  <2>7. CASE Close(c)
    BY <1>0, <1>a, <2>7 DEF Close, Closed, Carries
  <2> QED BY <1>5, <2>1, <2>2, <2>3, <2>4, <2>5, <2>6, <2>7 DEF HandlerStep
<1>6. ASSUME NEW p \in Peers, Age(p) PROVE Kept
  BY <1>0, <1>6, <1>a DEF Age, Carries
<1>7. ASSUME NEW list, ReapNext(list) PROVE Kept
  <2>1. PICK p \in list : /\ registry[p] # None /\ registry' = [registry EXCEPT ![p] = None]
                          /\ link' = Closed(registry[p]) /\ UNCHANGED pc
    BY <1>7 DEF ReapNext, Unregistered
  <2>2. registry[q] = d
    BY <1>0, <1>a, <2>1
  <2>3. link[d] = "up"
    BY <1>0, <1>a, <2>1 DEF Closed
  <2> QED BY <1>0, <1>a, <2>1, <2>2, <2>3 DEF Carries
<1>8. CASE ReapScan
  BY <1>7, <1>8 DEF ReapScan
<1>9. CASE ReapResume \/ ReapFails
  <2>1. CASE UNCHANGED <<peer, pc, link, registry, fresh, row>>
    BY <1>0, <1>a, <2>1 DEF Carries
  <2> QED BY <1>7, <1>9, <2>1 DEF ReapResume, ReapFails
<1>10. ASSUME NEW c \in Conns, peer[c] \in Admins, Greet(c) PROVE Kept
  <2>1. registry[q] = d /\ peer[d] = q
    BY <1>10, <1>a, <1>b DEF Greet
  <2>2. d # c
    BY <1>0, <1>10, <2>1
  <2> QED BY <1>0, <1>10, <1>a, <2>1, <2>2 DEF Greet, Carries
<1> QED BY <1>1, <1>2, <1>5, <1>6, <1>8, <1>9, <1>10 DEF Lifecycle, World

\* Rows that only leave the queue leave the rest in hand.
LEMMA StillInHand ==
    ASSUME NEW q \in Clients, NEW d \in Conns, InHand(q, d), Carries(q, d),
           QueuedFor(q)' \subseteq QueuedFor(q),
           via'[d] = via[d], flush'[d] = flush[d], pc'[d] = pc[d]
    PROVE  InHand(q, d)'
BY DEF InHand

LEMMA QueueShrinks ==
    ASSUME LogType, UNCHANGED log \/ Settles \/ Logs \/ Expires, NEW q \in Clients
    PROVE  QueuedFor(q)' \subseteq QueuedFor(q)
<1>1. \A j \in DOMAIN log' :
         log'[j].status = "queued" => j \in DOMAIN log /\ log'[j] = log[j]
  BY NothingQueued
<1> QED BY <1>1 DEF QueuedFor

\* A command queued for an absent client is queued for no other.
LEMMA QueueOfOthersShrinks ==
    ASSUME LogType, NEW p \in Clients, NEW t \in Durable, NEW q \in Clients, q # p,
           log' = Append(Superseding(p, t), Row(p, t, "queued"))
    PROVE  QueuedFor(q)' \subseteq QueuedFor(q)
<1>0. DOMAIN log = 1..Len(log) /\ Len(log) \in Nat
  BY DEF LogType
<1>1. Row(p, t, "queued").client = p
  BY RowIsRow DEF Statuses, Types
<1>2. /\ DOMAIN log' = 1..(Len(log) + 1)
      /\ log'[Len(log) + 1] = Row(p, t, "queued")
      /\ \A j \in 1..Len(log) :
            log'[j] = IF j \in QueuedFor(p) /\ log[j].type = t
                      THEN Marked(j, "superseded")
                      ELSE log[j]
  BY QueuesRows
<1>3. ASSUME NEW j \in DOMAIN log', log'[j].client = q, log'[j].status = "queued"
      PROVE  j \in DOMAIN log /\ log[j].client = q /\ log[j].status = "queued"
  <2>1. j \in 1..Len(log)
    BY <1>0, <1>1, <1>2, <1>3
  <2>2. log'[j] = log[j]
    BY <1>0, <1>2, <1>3, <2>1, MarkedIsRow DEF Settled, Statuses
  <2> QED BY <1>0, <1>3, <2>1, <2>2
<1> QED BY <1>3 DEF QueuedFor

\* The loop body of a flush, seen by the entry of q: whatever is still queued
\* for q must be on the list if the flush is that of q's own connection.
LEMMA FlushNextInHand ==
    ASSUME CarrierInv, NEW q \in Clients, NEW d \in Conns, Carries(q, d)',
           NEW c \in Conns, pc[c] = "greet", NEW list, NEW rows, FlushNext(c, list, rows),
           QueuedFor(q)' \subseteq QueuedFor(q),
           c = d => QueuedFor(q)' \subseteq list
    PROVE  InHand(q, d)'
<1>0. /\ TypeOK /\ RegistryBacked /\ q \in Peers
      /\ via \in [Conns -> Conns \cup {None}] /\ flush \in [Conns -> SUBSET DOMAIN log]
  BY DEF CarrierInv, OutboxTypes, OutboxTypeOK, SessionInv, Peers
<1>1. /\ UNCHANGED <<peer, link, registry>>
      /\ \A x \in Conns \ {c} : pc'[x] = pc[x] /\ via'[x] = via[x] /\ flush'[x] = flush[x]
  <2> DEFINE Ends == list = {} \/ (registry[peer[c]] = None /\ Oldest(list) \notin unreadable)
  <2>1. CASE Ends
    BY <1>0, <2>1 DEF FlushNext, Greet, TypeOK
  <2>2. CASE ~Ends
    BY <1>0, <2>2 DEF FlushNext, vars
  <2> QED BY <2>1, <2>2
<1>2. registry[q] = d /\ d # None /\ link[d] = "up" /\ pc'[d] # "crashed"
  BY <1>1 DEF Carries
<1>3. CASE d = c
  <2>1. peer[c] = q
    BY <1>0, <1>2, <1>3 DEF RegistryBacked
  <2>2. CASE list = {}
    <3>1. via'[d] = None /\ QueuedFor(q)' = {}
      BY <1>0, <1>3, <2>2 DEF FlushNext
    <3> QED BY <3>1 DEF InHand
  <2>3. CASE list # {}
    <3>1. via'[d] = d /\ flush'[d] = list /\ pc'[d] = "greet"
      BY <1>0, <1>2, <1>3, <2>1, <2>3 DEF FlushNext, vars
    <3> QED BY <1>3, <3>1 DEF InHand
  <2> QED BY <2>2, <2>3
<1>4. CASE d # c
  <2>1. pc'[d] = pc[d] /\ via'[d] = via[d] /\ flush'[d] = flush[d]
    BY <1>1, <1>4
  <2>2. Carries(q, d) /\ InHand(q, d)
    BY <1>2, <2>1 DEF Carries, CarrierInv, QueueInHand
  <2> QED BY <2>1, <2>2, StillInHand
<1> QED BY <1>3, <1>4

LEMMA QueueInHandStep ==
    ASSUME CarrierInv, OutboxNext \/ UNCHANGED allVars
    PROVE  QueueInHand'
<1>0. /\ LogType /\ SessionInv /\ TypeOK /\ RegistryBacked /\ FlushInGreet /\ QueueInHand
      /\ DOMAIN log = 1..Len(log) /\ Len(log) \in Nat
      /\ via \in [Conns -> Conns \cup {None}]
  BY DEF CarrierInv, OutboxTypes, OutboxTypeOK, SessionInv, LogType
<1> SUFFICES ASSUME NEW q \in Clients, NEW d \in Conns, Carries(q, d)'
             PROVE  InHand(q, d)'
  BY DEF QueueInHand
<1>1. CASE UNCHANGED <<vars, via, flush>> /\ QueuedFor(q)' \subseteq QueuedFor(q)
  <2>1. Carries(q, d) /\ pc'[d] = pc[d]
    BY <1>1 DEF Carries, vars
  <2>2. InHand(q, d)
    BY <1>0, <2>1 DEF QueueInHand
  <2> QED BY <1>1, <2>1, <2>2, StillInHand
<1>2. CASE SessionStep
  <2>1. /\ flush' = [c \in Conns |-> IF pc'[c] = "greet" THEN flush[c] ELSE {}]
        /\ via' = [c \in Conns |-> IF pc'[c] = "greet" THEN via[c] ELSE None]
        /\ log' = log
    BY <1>2 DEF SessionStep
  <2>2. QueuedFor(q)' = QueuedFor(q)
    BY <2>1 DEF QueuedFor
  <2>3. CASE pc[d] # "greet" /\ pc'[d] = "greet"
    <3>1. via'[d] = None
      BY <1>0, <2>1, <2>3 DEF FlushInGreet
    <3> QED BY <2>3, <3>1 DEF InHand
  <2>4. CASE Carries(q, d) /\ (pc[d] = "greet" => pc'[d] = "greet")
    <3>1. InHand(q, d)
      BY <1>0, <2>4 DEF QueueInHand
    <3>2. CASE pc[d] = "greet"
      BY <2>1, <2>2, <2>4, <3>1, <3>2 DEF InHand
    <3>3. CASE pc[d] # "greet"
      <4>1. QueuedFor(q)' = {}
        BY <2>2, <3>1, <3>3 DEF InHand
      <4>2. via'[d] \in {None, d}
        BY <2>1, <3>1 DEF InHand
      <4> QED BY <4>1, <4>2 DEF InHand
    <3> QED BY <3>2, <3>3
  <2> QED BY <1>0, <1>2, <2>3, <2>4, EntryMoves DEF SessionStep
<1>3. ASSUME NEW p \in Clients, NEW t \in Types, IssueToAbsent(p, t) PROVE InHand(q, d)'
  <2>1. registry[p] = None /\ registry'[q] = d /\ UNCHANGED <<vars, via, flush>> /\ d # None
    BY <1>3 DEF IssueToAbsent, Carries
  <2>2. q # p
    BY <2>1 DEF vars
  <2>3. CASE t \in Durable
    <3>1. log' = Append(Superseding(p, t), Row(p, t, "queued"))
      BY <1>3, <2>3 DEF IssueToAbsent
    <3> QED BY <1>0, <1>1, <2>1, <2>2, <2>3, <3>1, QueueOfOthersShrinks
  <2>4. CASE t \notin Durable
    <3>1. Logs
      BY <1>3, <2>4 DEF IssueToAbsent, Logs
    <3> QED BY <1>0, <1>1, <2>1, <3>1, QueueShrinks
  <2> QED BY <2>3, <2>4
<1>4. ASSUME NEW p \in Clients, NEW t \in Types, IssueToPresent(p, t) PROVE InHand(q, d)'
  <2>1. Logs /\ UNCHANGED <<vars, via, flush>>
    BY <1>4 DEF IssueToPresent, Logs
  <2> QED BY <1>0, <1>1, <2>1, QueueShrinks
<1>5. ASSUME NEW k, NEW c \in Conns, IssueDrained(k, c) PROVE InHand(q, d)'
  <2>1. (UNCHANGED log \/ Settles) /\ UNCHANGED <<vars, via, flush>>
    BY <1>5 DEF IssueDrained, Settles, Settled
  <2> QED BY <1>0, <1>1, <2>1, QueueShrinks
<1>6. ASSUME NEW c \in Conns, FlushStart(c) PROVE InHand(q, d)'
  <2> DEFINE p == peer[c]
  <2>1. pc[c] = "greet" /\ p \in Clients /\ FlushNext(c, Due(p), Expiring(p))
    BY <1>6 DEF FlushStart
  <2>2. log' = Expiring(p)
    BY <2>1 DEF FlushNext
  <2>3. QueuedFor(q)' \subseteq QueuedFor(q)
    <3>1. Expires
      BY <2>1, <2>2 DEF Expires
    <3> QED BY <1>0, <3>1, QueueShrinks
  <2>4. c = d => QueuedFor(q)' \subseteq Due(p)
    <3> SUFFICES ASSUME c = d, NEW k \in QueuedFor(q)' PROVE k \in Due(p)
      OBVIOUS
    <3>1. p = q
      <4>1. registry[q] = c
        BY <2>1 DEF FlushNext, Carries, Greet, vars
      <4> QED BY <1>0, <4>1, SessionsAssumption DEF RegistryBacked, Peers
    <3>2. k \in QueuedFor(q) /\ k \in 1..Len(log) /\ log'[k].status = "queued"
      BY <1>0, <2>3 DEF QueuedFor
    <3>3. log'[k] = IF k \in QueuedFor(p) /\ k <= cutoff THEN Marked(k, "expired") ELSE log[k]
      BY <1>0, <2>1, <2>2, <3>2, ExpiringRows
    <3>4. ~(k <= cutoff)
      BY <1>0, <3>1, <3>2, <3>3, MarkedIsRow DEF Settled, Statuses
    <3>5. cutoff \in Nat
      BY <1>0 DEF CarrierInv, OutboxTypes, OutboxTypeOK
    <3> QED BY <3>1, <3>2, <3>4, <3>5 DEF Due
  <2> QED BY <2>1, <2>3, <2>4, FlushNextInHand
<1>7. ASSUME NEW c \in Conns, FlushDrained(c) \/ FlushDiscards(c) \/ FlushBroken(c)
      PROVE  /\ pc[c] = "greet" /\ via[c] # None
             /\ c = d => QueuedFor(q) \subseteq flush[c] /\ via[c] = d /\ link[d] = "up"
  <2>1. pc[c] = "greet" /\ via[c] # None
    BY <1>7 DEF FlushDrained, FlushDiscards, FlushBroken
  <2>2. c = d => Carries(q, d)
    BY <1>7, <2>1 DEF FlushDrained, FlushDiscards, FlushBroken, FlushNext, Carries, Greet, vars
  <2>3. c = d => InHand(q, d)
    BY <1>0, <2>2 DEF QueueInHand
  <2> QED BY <2>1, <2>2, <2>3 DEF InHand, Carries
<1>8. ASSUME NEW c \in Conns, FlushDrained(c) \/ FlushDiscards(c) PROVE InHand(q, d)'
  <2> DEFINE k == Oldest(flush[c])
  <2>1. PICK s \in {"dispatched", "error"} : FlushNext(c, flush[c] \ {k}, WithStatus(k, s))
    BY <1>8 DEF FlushDrained, FlushDiscards
  <2>2. log' = WithStatus(k, s) /\ s \in Settled
    BY <2>1 DEF FlushNext, Settled
  <2> HIDE DEF k
  <2>3. QueuedFor(q)' \subseteq QueuedFor(q)
    <3>1. Settles
      BY <2>2 DEF Settles
    <3> QED BY <1>0, <3>1, QueueShrinks
  <2>4. k \notin QueuedFor(q)'
    BY <1>0, <2>2, SettlesRows, MarkedIsRow DEF QueuedFor, Settled, Statuses
  <2>5. c = d => QueuedFor(q)' \subseteq flush[c] \ {k}
    BY <1>7, <1>8, <2>3, <2>4
  <2> QED BY <1>7, <1>8, <2>1, <2>3, <2>5, FlushNextInHand
<1>9. ASSUME NEW c \in Conns, FlushBroken(c) PROVE InHand(q, d)'
  <2>1. FlushNext(c, {}, log) /\ link[via[c]] # "up"
    BY <1>9 DEF FlushBroken
  <2>2. c # d
    BY <1>7, <1>9, <2>1
  <2>3. QueuedFor(q)' \subseteq QueuedFor(q)
    BY <2>1 DEF FlushNext, QueuedFor
  <2> QED BY <1>7, <1>9, <2>1, <2>2, <2>3, FlushNextInHand
<1>10. ASSUME NEW c \in Conns, Deliver(c) PROVE InHand(q, d)'
  BY <1>0, <1>1, <1>10, QueueShrinks DEF Deliver
<1>11. CASE GrowOld
  BY <1>0, <1>1, <1>11, QueueShrinks DEF GrowOld
<1>12. CASE Restart
  BY <1>12, SessionsAssumption DEF Restart, Carries, Peers
<1>13. CASE UNCHANGED allVars
  BY <1>0, <1>1, <1>13, QueueShrinks DEF allVars, outboxVars
<1>14. ASSUME NEW k, Prune(k) \/ Damage(k) PROVE InHand(q, d)'
  <2>1. (UNCHANGED log \/ Settles) /\ UNCHANGED <<vars, via, flush>>
    BY <1>14 DEF Prune, Damage, Settles, Settled
  <2> QED BY <1>0, <1>1, <2>1, QueueShrinks
<1> QED
  BY <1>2, <1>3, <1>4, <1>5, <1>6, <1>8, <1>9, <1>10, <1>11, <1>12, <1>13, <1>14
     DEF OutboxNext, FlushStep

LEMMA CarrierInvStep == CarrierInv /\ [OutboxNext]_allVars => CarrierInv'
<1> SUFFICES ASSUME CarrierInv, OutboxNext \/ UNCHANGED allVars PROVE CarrierInv'
  OBVIOUS
<1>1. OutboxTypes /\ FlushInGreet
  BY DEF CarrierInv
<1>2. OutboxTypes'
  BY <1>1, OutboxTypesStep
<1>3. FlushInGreet'
  BY <1>1, FlushInGreetStep
<1>4. QueueInHand'
  BY QueueInHandStep
<1> QED BY <1>2, <1>3, <1>4 DEF CarrierInv

(***************************************************************************)
(* While a client's registered connection is up, what waits for it is      *)
(* about to be flushed or is on the list of a running flush                *)
(* (engine/main.py, handle_client; engine/command_handler.py,              *)
(* flush_outbox).  The strengthening names the handler: it is that of the  *)
(* registered connection itself, which waits on no connection but its own, *)
(* since a command is queued only while nobody is registered and a         *)
(* connection is registered once.                                          *)
(***************************************************************************)
THEOREM QueuedReachesConnectedAlways == OutboxSpec => []QueuedReachesConnected
<1>1. CarrierInv => QueuedReachesConnected
  <2> SUFFICES ASSUME CarrierInv, NEW p \in Clients, registry[p] # None,
                      link[registry[p]] = "up", pc[registry[p]] # "crashed",
                      NEW k \in QueuedFor(p)
               PROVE  \E c \in Conns : /\ peer[c] = p /\ pc[c] = "greet"
                                       /\ via[c] = None \/ k \in flush[c]
    BY DEF QueuedReachesConnected
  <2> DEFINE d == registry[p]
  <2>1. d \in Conns /\ peer[d] = p
    BY SessionsAssumption
       DEF CarrierInv, OutboxTypes, SessionInv, TypeOK, RegistryBacked, Peers
  <2>2. InHand(p, d)
    BY <2>1 DEF CarrierInv, QueueInHand, Carries
  <2> QED BY <2>1, <2>2 DEF InHand
<1> QED BY <1>1, CarrierInvInit, CarrierInvStep, PTL DEF OutboxSpec
=============================================================================
