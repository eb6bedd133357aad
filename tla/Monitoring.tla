----------------------------- MODULE Monitoring -----------------------------
(***************************************************************************)
(* What one client measures and what the Engine makes of it: the           *)
(* monitoring and network loops of client/main.py over client/monitors,    *)
(* the telemetry routes of engine/command_handler.py, the tables, reports  *)
(* and retention of engine/database.py and the sweep of engine/main.py.    *)
(*                                                                         *)
(* Samples are stamped when they are stored.  Byte counters start at zero  *)
(* with the machine, and usage is what consecutive samples differ by; one  *)
(* counter stands for the two directions.  A handler of a connection the   *)
(* client has left may still be reading it while the next one is served.   *)
(* Relaying to consoles is Watch's and Console's matter.                   *)
(***************************************************************************)
EXTENDS Integers, SequencesExt

CONSTANTS
    Drives,         \* removable drives
    HoursPerDay,    \* 24
    WeekDays,       \* days in the weekly report
    Starts,         \* bound: when programs are started
    RetentionDays,  \* RETENTION_DAYS; 0 disables pruning
    BatchSize,      \* PRUNE_BATCH_SIZE
    MaxTime,        \* bound: the clock, in hours
    MaxTraffic,     \* bound: bytes sent
    MaxMessages,    \* bound: messages and commands sent
    MaxFaults       \* bound: reboots, lost connections, failed writes

ASSUME MonitoringAssumption ==
    /\ IsFiniteSet(Drives)
    /\ Starts \subseteq Nat
    /\ HoursPerDay \in Nat \ {0} /\ WeekDays \in Nat \ {0}
    /\ RetentionDays \in Nat /\ BatchSize \in Nat \ {0}
    /\ MaxTime \in Nat /\ MaxTraffic \in Nat
    /\ MaxMessages \in Nat /\ MaxFaults \in Nat

VARIABLES
    now,        \* the clock, in hours
    counter,    \* the machine's byte counter
    traffic,    \* history: what it has sent altogether
    boots,      \* history: how often it was started
    known,      \* _known_drives
    session,    \* whether the session's loops run
    wire,       \* what its connection carries
    late,       \* what the connections it left still carry
    network,    \* network_usage
    apps,       \* app_logs: the start times of its rows
    usb,        \* usb_events: the timestamps of its rows
    commands,   \* command_log: the timestamps of its rows
    pruner,     \* prune_loop: "idle" or "sweep"
    silent,     \* history: drives known without an event, or by one that was lost
    logged,     \* history: drives that are in by the events stored since
    messages, faults

machine == <<counter, traffic, boots>>
link == <<session, wire, late>>
tables == <<network, apps, usb, commands>>
history == <<silent, logged>>
bounds == <<messages, faults>>
vars == <<now, machine, known, link, tables, pruner, history, bounds>>

Hours == 0..MaxTime

Samples == [says : {"network"}, bytes : Nat, total : Nat, boot : Nat]
Batches == [says : {"apps"}, start : Hours]
Events == [says : {"usb"}, event : {"inserted", "removed"}, drive : Drives]
Messages == Samples \cup Batches \cup Events

Rows == [id : Nat, at : Hours, bytes : Nat, total : Nat, boot : Nat]

MonitoringTypeOK ==
    /\ now \in Hours
    /\ counter \in 0..traffic /\ traffic \in 0..MaxTraffic /\ boots \in Nat
    /\ known \in SUBSET Drives
    /\ session \in BOOLEAN
    /\ wire \in Seq(Messages) /\ late \in Seq(Messages)
    /\ ~session => wire = <<>>
    /\ network \in SUBSET Rows
    /\ \A r, s \in network : r.id = s.id => r = s
    /\ \A r, s \in network : r.id < s.id => r.at <= s.at
    /\ apps \in SUBSET (0..now) /\ usb \in SUBSET (0..now) /\ commands \in SUBSET (0..now)
    /\ pruner \in {"idle", "sweep"}
    /\ silent \in SUBSET Drives /\ logged \in SUBSET Drives
    /\ messages \in 0..MaxMessages /\ faults \in 0..MaxFaults

MonitoringInit ==
    /\ now = 0
    /\ counter = 0 /\ traffic = 0 /\ boots = 0
    /\ known = {}
    /\ session = FALSE /\ wire = <<>> /\ late = <<>>
    /\ network = {} /\ apps = {} /\ usb = {} /\ commands = {}
    /\ pruner = "idle"
    /\ silent = {} /\ logged = {}
    /\ messages = 0 /\ faults = 0

Fault == faults < MaxFaults /\ faults' = faults + 1 /\ UNCHANGED messages

-----------------------------------------------------------------------------
\* The client's loops.

Send(sent) ==
    /\ messages + Len(sent) <= MaxMessages
    /\ messages' = messages + Len(sent)
    /\ wire' = wire \o sent
    /\ UNCHANGED <<session, late, faults>>

\* network_loop: the counter, and what was sent since it was last read.
SampleNetwork(sent) ==
    /\ session
    /\ traffic' = traffic + sent /\ counter' = counter + sent
    /\ Send(<<[says |-> "network", bytes |-> counter', total |-> traffic', boot |-> boots]>>)
    /\ UNCHANGED <<now, boots, known, tables, pruner, history>>

\* monitoring_loop, its first half: what runs, and since when.  One program
\* stands for the batch, whose rows differ in that only.
CollectApps(start) ==
    /\ session
    /\ Send(<<[says |-> "apps", start |-> start]>>)
    /\ UNCHANGED <<now, machine, known, tables, pruner, history>>

Says(event, drives) ==
    SetToSeq({[says |-> "usb", event |-> event, drive |-> d] : d \in drives})

\* poll_usb_events: with no drive known, what is plugged in is adopted.
Baseline(plugged) == known = {} /\ plugged # {}

\* A mutated form: the drives are remembered only when one was plugged in.
RememberedNew(plugged) == IF plugged \subseteq known THEN known ELSE plugged

Remembered(plugged) == plugged

\* monitoring_loop, its second half: whatever is plugged in.
PollUsb(plugged) ==
    /\ session
    /\ known' = Remembered(plugged)
    /\ IF Baseline(plugged)
       THEN silent' = plugged /\ UNCHANGED link /\ UNCHANGED messages
       ELSE /\ Send(Says("inserted", plugged \ known) \o Says("removed", known \ plugged))
            /\ silent' = silent \cap plugged
    /\ UNCHANGED <<now, machine, tables, pruner, logged, faults>>

\* A mutated form: what the connection carries is taken along to the next.
KeptOnWire(kept) == wire' = wire /\ late' = late

\* The end of what the connection carries may be lost with it.
LeftBehind(kept) == wire' = <<>> /\ late' = late \o SubSeq(wire, 1, kept)

\* An event is lost: the account of the events starts again.
AccountAnew == silent' = known' /\ logged' = {}

\* Every loop is cancelled and the connection closed.  A poll that is under
\* way runs on in its thread, and what it finds is sent by nobody.
Disconnect ==
    /\ session /\ session' = FALSE
    /\ Fault
    /\ \E kept \in 0..Len(wire) : LeftBehind(kept)
    /\ \/ UNCHANGED known
       \/ \E plugged \in SUBSET Drives : known' = Remembered(plugged)
    /\ AccountAnew
    /\ UNCHANGED <<now, machine, tables, pruner>>

-----------------------------------------------------------------------------
\* The Engine's handlers: persist, whatever becomes of it.

NextId == 1 + Max({0} \cup {r.id : r \in network})

Stored(m) ==
    CASE m.says = "network" ->
            /\ network' = network \cup {[id |-> NextId, at |-> now, bytes |-> m.bytes,
                                         total |-> m.total, boot |-> m.boot]}
            /\ UNCHANGED <<apps, usb, commands, history>>
      [] m.says = "apps" ->
            /\ apps' = apps \cup {m.start}
            /\ UNCHANGED <<network, usb, commands, history>>
      [] OTHER ->
            /\ usb' = usb \cup {now}
            /\ logged' = IF wire' = wire THEN logged
                         ELSE IF m.event = "inserted" THEN logged \cup {m.drive}
                         ELSE logged \ {m.drive}
            /\ UNCHANGED <<network, apps, commands, silent>>

Read ==
    \/ wire # <<>> /\ wire' = Tail(wire) /\ UNCHANGED <<session, late>>
    \/ late # <<>> /\ late' = Tail(late) /\ UNCHANGED <<session, wire>>

Handled == IF wire' # wire THEN Head(wire) ELSE Head(late)

Handle ==
    /\ Read
    /\ Stored(Handled)
    /\ UNCHANGED <<now, machine, known, pruner, bounds>>

PersistFails ==
    /\ Read
    /\ Fault
    /\ UNCHANGED <<now, machine, known, tables, pruner>>
    /\ AccountAnew

\* log_command: an operator sends one, whether or not the client is there.
LogCommand ==
    /\ messages < MaxMessages /\ messages' = messages + 1
    /\ commands' = commands \cup {now}
    /\ UNCHANGED <<now, machine, known, link, network, apps, usb, pruner, history, faults>>

-----------------------------------------------------------------------------
\* Reports.

\* Not before _window_start.
Within(t, days) == t + days * HoursPerDay >= now

RowsWithin(days) == {r \in network : Within(r.at, days)}

\* ORDER BY timestamp; rows of one time come in the order they were stored.
Earlier(s, r) == s.at < r.at \/ (s.at = r.at /\ s.id < r.id)

\* LAG: the last of those before it, if there is one.
Previous(r, rows) ==
    {s \in rows : Earlier(s, r) /\ \A q \in rows : Earlier(q, r) => ~Earlier(s, q)}

\* A mutated form: the first sample counts from zero.
SinceZero(r, rows) ==
    IF Previous(r, rows) = {} THEN r.bytes
    ELSE Max({0} \cup {r.bytes - s.bytes : s \in Previous(r, rows)})

\* A fall of the counter counts as nothing.
Delta(r, rows) == Max({0} \cup {r.bytes - s.bytes : s \in Previous(r, rows)})

\* _DELTA_SUM
DeltaSum(rows) == MapThenSumSet(LAMBDA r : Delta(r, rows), rows)

DayOf(t) == t \div HoursPerDay

Days == {DayOf(t) : t \in Hours}

Bucket(day) == {r \in RowsWithin(WeekDays) : DayOf(r.at) = day}

NetworkSummary == DeltaSum(RowsWithin(1))
WeeklySummary == [day \in Days |-> DeltaSum(Bucket(day))]
AppUsage == {t \in apps : Within(t, 1)}

\* Those of _REPORT_QUERIES that read a window of time.  The other two list the
\* latest of usb and of commands, however old.
UsageReports == <<NetworkSummary, WeeklySummary, AppUsage>>

-----------------------------------------------------------------------------
\* Retention.

\* A mutated form: what is just as old goes too.
StaleAtLast(t) == t + RetentionDays * HoursPerDay <= now

Stale(t) == ~Within(t, RetentionDays)

\* A bounded batch of a set.
Batch(rows) ==
    LET size == IF Cardinality(rows) < BatchSize THEN Cardinality(rows) ELSE BatchSize
    IN  {b \in SUBSET rows : Cardinality(b) = size}

PruneStart ==
    /\ RetentionDays > 0
    /\ pruner = "idle" /\ pruner' = "sweep"
    /\ UNCHANGED <<now, machine, known, link, tables, history, bounds>>

\* A mutated form: command_log is not among the tables.
PruneTelemetry ==
    \E n \in Batch({r \in network : Stale(r.at)}), a \in Batch({t \in apps : Stale(t)}),
       u \in Batch({t \in usb : Stale(t)}) :
        /\ network' = network \ n /\ apps' = apps \ a /\ usb' = usb \ u
        /\ commands' = commands
        /\ pruner' = IF n = {} /\ a = {} /\ u = {} THEN "idle" ELSE "sweep"

\* _prune_with over PRUNED_TABLES
PruneTables ==
    \E n \in Batch({r \in network : Stale(r.at)}), a \in Batch({t \in apps : Stale(t)}),
       u \in Batch({t \in usb : Stale(t)}), c \in Batch({t \in commands : Stale(t)}) :
        /\ network' = network \ n /\ apps' = apps \ a /\ usb' = usb \ u
        /\ commands' = commands \ c
        /\ pruner' = IF n = {} /\ a = {} /\ u = {} /\ c = {} THEN "idle" ELSE "sweep"

PruneBatch ==
    /\ pruner = "sweep"
    /\ PruneTables
    /\ UNCHANGED <<now, machine, known, link, history, bounds>>

\* The database is locked: the sweep is off until the next interval.
PruneFails ==
    /\ pruner = "sweep" /\ pruner' = "idle"
    /\ Fault
    /\ UNCHANGED <<now, machine, known, link, tables, history>>

-----------------------------------------------------------------------------
\* The environment.

Connect ==
    /\ ~session /\ session' = TRUE
    /\ UNCHANGED <<now, machine, known, wire, late, tables, pruner, history, bounds>>

Tick ==
    /\ now < MaxTime /\ now' = now + 1
    /\ UNCHANGED <<machine, known, link, tables, pruner, history, bounds>>

\* The agent starts anew, or the machine does: its account of drives begins
\* again, and with the machine its counter.
Restart ==
    /\ Fault
    /\ \/ UNCHANGED machine
       \/ counter' = 0 /\ boots' = boots + 1 /\ UNCHANGED traffic
    /\ session' = FALSE /\ known' = {}
    /\ \E kept \in 0..Len(wire) : LeftBehind(kept)
    /\ AccountAnew
    /\ UNCHANGED <<now, tables, pruner>>

MonitoringNext ==
    \/ \E sent \in 0..MaxTraffic - traffic : SampleNetwork(sent)
    \/ \E start \in Starts \cap (0..now) : CollectApps(start)
    \/ \E plugged \in SUBSET Drives : PollUsb(plugged)
    \/ Connect \/ Disconnect \/ Restart
    \/ Handle \/ PersistFails \/ LogCommand
    \/ PruneStart \/ PruneBatch \/ PruneFails
    \/ Tick

MonitoringSpec == MonitoringInit /\ [][MonitoringNext]_vars

(***************************************************************************)
(* prune_loop wakes every PRUNE_INTERVAL, and its thread comes back.  No   *)
(* client owes a sample.                                                   *)
(***************************************************************************)
MonitoringFairSpec ==
    MonitoringSpec /\ WF_vars(PruneStart \/ PruneBatch)

-----------------------------------------------------------------------------
\* Properties.

\* In the order they were taken.
InOrder(rows) == \A r, s \in rows : r.id < s.id => r.total <= s.total /\ r.boot <= s.boot

\* Usage is what was really sent between the first sample and the last, or
\* less if the machine was started in between.
Faithful(rows) ==
    rows # {} /\ InOrder(rows) =>
        LET first == CHOOSE r \in rows : \A s \in rows : r.id <= s.id
            last == CHOOSE r \in rows : \A s \in rows : r.id >= s.id
            sent == last.total - first.total
        IN  IF first.boot = last.boot THEN DeltaSum(rows) = sent ELSE DeltaSum(rows) <= sent

(***************************************************************************)
(* The usage reports never tell of traffic that was not sent, and tell of  *)
(* all that the samples of one run of the machine span, whatever reboots,  *)
(* lost samples and sweeps there were and wherever a day or the window     *)
(* begins ("a bucket never absorbs the previous day's cumulative total").  *)
(* A sample stored after a later one, from a connection the client has     *)
(* left, is excepted: the counter seems to fall and to rise again.         *)
(***************************************************************************)
UsageFaithful ==
    /\ Faithful(RowsWithin(1))
    /\ \A day \in Days : Faithful(Bucket(day))

\* A sweep leaves the usage reports as they are, and takes from the lists of
\* events and of commands only what is old.
RetentionTakesOnlyOld ==
    [][pruner = "sweep" /\ link' = link /\ now' = now =>
          /\ RetentionDays >= WeekDays => UsageReports' = UsageReports
          /\ \A t \in (usb \ usb') \cup (commands \ commands') : Stale(t)]_vars

(***************************************************************************)
(* Retention takes nothing that a usage report still reads, and only what  *)
(* is older than RETENTION_DAYS from the lists of USB events and of        *)
(* commands, which show rows of any age and so do lose some, in whatever   *)
(* order its batches run and wherever a sweep breaks off; and again and    *)
(* again there is no row left that is older, in any of the four tables.    *)
(***************************************************************************)
RetentionHolds ==
    /\ RetentionTakesOnlyOld
    /\ RetentionDays > 0 =>
          []<>~(\E t \in apps \cup usb \cup commands \cup {r.at : r \in network} : Stale(t))

(***************************************************************************)
(* The events stored, applied to the drives that were adopted as being in  *)
(* already, lead to what the client knows: no plugging and unplugging is   *)
(* reported twice or not at all once a drive is known.  Events that are    *)
(* lost are, with a connection or in the database: the client does not     *)
(* send them again, and the account starts from what it knows.             *)
(***************************************************************************)
UsbLogReplays ==
    (\A i \in DOMAIN wire : wire[i].says # "usb") => known = logged \cup silent
=============================================================================
