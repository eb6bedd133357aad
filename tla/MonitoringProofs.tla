--------------------------- MODULE MonitoringProofs -------------------------
(***************************************************************************)
(* Theorems of Monitoring, for any drives, windows, retention and bounds.  *)
(***************************************************************************)
EXTENDS Monitoring, FiniteSetTheorems, TLAPS

-----------------------------------------------------------------------------
\* Sequences and numbers.

LEMMA Concatenated ==
    ASSUME NEW X, NEW q \in Seq(X), NEW s \in Seq(X)
    PROVE  /\ q \o s \in Seq(X)
           /\ Len(q) \in Nat /\ Len(s) \in Nat
           /\ DOMAIN q = 1..Len(q) /\ DOMAIN s = 1..Len(s)
           /\ DOMAIN (q \o s) = 1..(Len(q) + Len(s))
           /\ \A i \in 1..Len(q) : (q \o s)[i] = q[i]
           /\ \A i \in 1..Len(s) : (q \o s)[Len(q) + i] = s[i]
OBVIOUS

LEMMA HeadThenTail ==
    ASSUME NEW X, NEW q \in Seq(X), q # <<>>
    PROVE  /\ Head(q) \in X /\ Tail(q) \in Seq(X) /\ <<Head(q)>> \in Seq(X)
           /\ q = <<Head(q)>> \o Tail(q) /\ Tail(q) # q
<1>1. Head(q) \in X /\ Tail(q) \in Seq(X) /\ <<Head(q)>> \in Seq(X)
  OBVIOUS
<1>2. q = <<Head(q)>> \o Tail(q)
  OBVIOUS
<1>3. Tail(q) # q
  OBVIOUS
<1> QED BY <1>1, <1>2, <1>3

LEMMA Prefix ==
    ASSUME NEW X, NEW q \in Seq(X), NEW n \in 0..Len(q)
    PROVE  SubSeq(q, 1, n) \in Seq(X)
OBVIOUS

LEMMA Wider ==
    ASSUME NEW S, NEW T, S \subseteq T, NEW s \in Seq(S)
    PROVE  s \in Seq(T)
OBVIOUS

\* A bounded set of numbers has a greatest one: its least bound.
LEMMA MaxIsGreatest ==
    ASSUME NEW S \in SUBSET Nat, S # {}, NEW n \in Nat, \A s \in S : s <= n
    PROVE  Max(S) \in S /\ \A s \in S : s <= Max(S)
<1> DEFINE R == OpToRel(<, Nat)
           U == {m \in Nat : \A s \in S : s <= m}
<1>1. IsWellFoundedOn(R, Nat)
  BY NatLessThanWellFounded
<1>2. \A i, j \in Nat : i < j => <<i, j>> \in R
  BY DEF OpToRel
<1> HIDE DEF R
<1>3. U \subseteq Nat /\ U # {}
  OBVIOUS
<1>4. PICK m \in U : \A j \in U : ~(<<j, m>> \in R)
  BY <1>1, <1>3, WFMin
<1>5. m \in S
  <2> SUFFICES ASSUME m \notin S PROVE FALSE
    OBVIOUS
  <2>1. PICK s \in S : TRUE
    OBVIOUS
  <2>2. m \in Nat /\ s \in Nat /\ s <= m /\ s # m
    BY <1>4
  <2>3. m - 1 \in Nat /\ m - 1 < m
    BY <2>2
  <2>4. \A x \in S : x <= m - 1
    BY <1>4, <2>2
  <2>5. m - 1 \in U
    BY <2>3, <2>4
  <2> QED BY <1>2, <1>4, <2>2, <2>3, <2>5
<1>6. m \in S /\ \A x \in S : m >= x
  BY <1>4, <1>5
<1>7. Max(S) \in S /\ \A x \in S : Max(S) >= x
  BY <1>6 DEF Max
<1> QED BY <1>7

-----------------------------------------------------------------------------
\* Types.  A batch in transit tells of a program that had started by now, and
\* ids are bounded, so that there is a greatest one.

Sendable(t) == Samples \cup [says : {"apps"}, start : 0..t] \cup Events

Bounded == \E n \in Nat : \A r \in network : r.id <= n

MonitoringTypes ==
    /\ MonitoringTypeOK
    /\ wire \in Seq(Sendable(now)) /\ late \in Seq(Sendable(now))
    /\ Bounded
    /\ \A r \in network : r.at <= now

LEMMA SendableIsMessage ==
    ASSUME NEW t \in Hours
    PROVE  Sendable(t) \subseteq Messages
BY MonitoringAssumption DEF Sendable, Messages, Batches, Hours

LEMMA TypesUnfolded ==
    ASSUME MonitoringTypes
    PROVE  /\ now \in Hours /\ now \in Nat
           /\ counter \in 0..traffic /\ traffic \in 0..MaxTraffic /\ boots \in Nat
           /\ known \in SUBSET Drives /\ session \in BOOLEAN
           /\ wire \in Seq(Sendable(now)) /\ late \in Seq(Sendable(now))
           /\ ~session => wire = <<>>
           /\ network \in SUBSET Rows
           /\ \A r, s \in network : r.id = s.id => r = s
           /\ \A r, s \in network : r.id < s.id => r.at <= s.at
           /\ apps \in SUBSET (0..now) /\ usb \in SUBSET (0..now)
           /\ commands \in SUBSET (0..now)
           /\ pruner \in {"idle", "sweep"}
           /\ silent \in SUBSET Drives /\ logged \in SUBSET Drives
           /\ messages \in 0..MaxMessages /\ faults \in 0..MaxFaults
           /\ Bounded
           /\ \A r \in network : r.at <= now
BY MonitoringAssumption DEF MonitoringTypes, MonitoringTypeOK, Hours

\* The parts of the type invariant.
LinkTyped == /\ session \in BOOLEAN /\ (~session => wire = <<>>)
             /\ wire \in Seq(Sendable(now)) /\ late \in Seq(Sendable(now))
TablesTyped == /\ network \in SUBSET Rows /\ Bounded
               /\ \A r, s \in network : r.id = s.id => r = s
               /\ \A r, s \in network : r.id < s.id => r.at <= s.at
               /\ \A r \in network : r.at <= now
               /\ apps \in SUBSET (0..now) /\ usb \in SUBSET (0..now)
               /\ commands \in SUBSET (0..now)
MachineTyped == counter \in 0..traffic /\ traffic \in 0..MaxTraffic /\ boots \in Nat
AccountTyped == known \in SUBSET Drives /\ silent \in SUBSET Drives /\ logged \in SUBSET Drives
RestTyped == /\ now \in Hours /\ pruner \in {"idle", "sweep"}
             /\ messages \in 0..MaxMessages /\ faults \in 0..MaxFaults

LEMMA TypesParted ==
    MonitoringTypes <=> LinkTyped /\ TablesTyped /\ MachineTyped /\ AccountTyped /\ RestTyped
<1>1. now \in Hours /\ wire \in Seq(Sendable(now)) /\ late \in Seq(Sendable(now))
         => wire \in Seq(Messages) /\ late \in Seq(Messages)
  BY SendableIsMessage, Wider
<1> QED
  BY <1>1 DEF MonitoringTypes, MonitoringTypeOK,
              LinkTyped, TablesTyped, MachineTyped, AccountTyped, RestTyped

LEMMA TypesInit == MonitoringInit => MonitoringTypes
<1> SUFFICES ASSUME MonitoringInit PROVE MonitoringTypes
  OBVIOUS
<1>1. LinkTyped
  <2>1. <<>> \in Seq(Sendable(now))
    OBVIOUS
  <2> QED BY <2>1 DEF MonitoringInit, LinkTyped
<1>2. TablesTyped
  BY DEF MonitoringInit, TablesTyped, Bounded
<1>3. MachineTyped /\ AccountTyped /\ RestTyped
  BY MonitoringAssumption DEF MonitoringInit, MachineTyped, AccountTyped, RestTyped, Hours
<1> QED BY <1>1, <1>2, <1>3, TypesParted

-----------------------------------------------------------------------------
\* What a poll says.

Event(e, d) == [says |-> "usb", event |-> e, drive |-> d]

\* One event for every drive of the set, and nothing else.
LEMMA SaysEach ==
    ASSUME NEW e \in {"inserted", "removed"}, NEW drives \in SUBSET Drives
    PROVE  /\ Says(e, drives) \in Seq(Events)
           /\ \A i \in DOMAIN Says(e, drives) :
                 \E d \in drives : Says(e, drives)[i] = Event(e, d)
           /\ \A d \in drives : \E i \in DOMAIN Says(e, drives) : Says(e, drives)[i] = Event(e, d)
           /\ \A i, j \in DOMAIN Says(e, drives) :
                 Says(e, drives)[i] = Says(e, drives)[j] => i = j
<1> DEFINE S == {[says |-> "usb", event |-> e, drive |-> d] : d \in drives}
           n == Cardinality(S)
           s == SetToSeq(S)
<1>1. IsFiniteSet(S)
  <2> DEFINE f == [d \in drives |-> [says |-> "usb", event |-> e, drive |-> d]]
  <2>1. f \in Surjection(drives, S)
    BY DEF Surjection
  <2>2. IsFiniteSet(drives)
    BY MonitoringAssumption, FS_Subset
  <2> HIDE DEF f, S
  <2> QED BY <2>1, <2>2, FS_Surjection
<1>2. n \in Nat /\ \E f : f \in Bijection(1..n, S)
  <2> HIDE DEF S
  <2> QED BY <1>1, FS_CardinalityType DEF ExistsBijection
<1>3. \E f \in [1..n -> S] : IsInjective(f)
  <2> HIDE DEF S
  <2> QED BY <1>2 DEF Bijection, Injection
<1>4. s \in [1..n -> S] /\ IsInjective(s)
  <2> HIDE DEF S
  <2> QED BY <1>3 DEF SetToSeq
<1>5. s \in Surjection(1..n, S)
  <2>1. s \in Injection(1..n, S)
    BY <1>4 DEF Injection
  <2>2. IsFiniteSet(1..n) /\ Cardinality(1..n) = n
    <3> HIDE DEF n, S
    <3>1. n \in Int /\ 1 \in Int /\ (1 > n => n = 0) /\ n - 1 + 1 = n
      BY <1>2
    <3> QED BY <3>1, FS_Interval
  <2> HIDE DEF s, S
  <2> QED BY <1>1, <2>1, <2>2, FS_Injection
<1>6. DOMAIN s = 1..n /\ s = Says(e, drives)
  BY <1>4 DEF Says
<1>7. \A x \in S : \E i \in 1..n : s[i] = x
  BY <1>5 DEF Surjection
<1>8. S \subseteq Events
  BY DEF Events
<1>9. s \in Seq(Events)
  <2> HIDE DEF s, S, n
  <2> QED BY <1>2, <1>4, <1>8
<1>10. \A i \in DOMAIN s : \E d \in drives : s[i] = Event(e, d)
  <2> HIDE DEF s, n
  <2> QED BY <1>4, <1>6 DEF Event
<1>11. \A d \in drives : \E i \in DOMAIN s : s[i] = Event(e, d)
  <2> HIDE DEF s, n
  <2> QED BY <1>6, <1>7 DEF Event
<1>12. \A i, j \in DOMAIN s : s[i] = s[j] => i = j
  <2> HIDE DEF s, n, S
  <2> QED BY <1>4 DEF IsInjective
<1> HIDE DEF s
<1> QED BY <1>6, <1>9, <1>10, <1>11, <1>12

-----------------------------------------------------------------------------
\* What a step does to the link.

LEMMA SendTyped ==
    ASSUME LinkTyped, RestTyped, session, NEW sent \in Seq(Sendable(now)), Send(sent),
           now' = now
    PROVE  /\ LinkTyped' /\ messages' \in 0..MaxMessages /\ faults' = faults
           /\ wire' = wire \o sent
<1>1. wire' = wire \o sent /\ UNCHANGED <<session, late, faults>>
  BY DEF Send
<1>2. wire \o sent \in Seq(Sendable(now)) /\ Len(sent) \in Nat
  BY Concatenated DEF LinkTyped
<1>3. messages + Len(sent) <= MaxMessages /\ messages' = messages + Len(sent)
  BY DEF Send
<1>4. messages' \in 0..MaxMessages
  BY <1>2, <1>3, MonitoringAssumption DEF RestTyped
<1>5. Sendable(now)' = Sendable(now)
  BY DEF Sendable
<1> QED BY <1>1, <1>2, <1>4, <1>5 DEF LinkTyped

\* What is read is the head of what is carried, and is gone.
LEMMA ReadTakes ==
    ASSUME LinkTyped, Read, now' = now
    PROVE  /\ LinkTyped' /\ Handled \in Sendable(now)
           /\ \/ /\ wire # <<>> /\ wire' = Tail(wire) /\ wire' # wire
                 /\ Handled = Head(wire)
              \/ /\ wire' = wire /\ late # <<>> /\ late' = Tail(late) /\ late' # late
                 /\ Handled = Head(late)
<1>0. wire \in Seq(Sendable(now)) /\ late \in Seq(Sendable(now)) /\ Sendable(now)' = Sendable(now)
  BY DEF LinkTyped, Sendable
<1>1. CASE wire # <<>> /\ wire' = Tail(wire) /\ UNCHANGED <<session, late>>
  <2>1. Head(wire) \in Sendable(now) /\ Tail(wire) \in Seq(Sendable(now)) /\ Tail(wire) # wire
    BY <1>0, <1>1, HeadThenTail
  <2>2. Handled = Head(wire)
    BY <1>1, <2>1 DEF Handled
  <2>3. LinkTyped'
    BY <1>0, <1>1, <2>1 DEF LinkTyped
  <2> QED BY <1>1, <2>1, <2>2, <2>3
<1>2. CASE late # <<>> /\ late' = Tail(late) /\ UNCHANGED <<session, wire>>
  <2>1. Head(late) \in Sendable(now) /\ Tail(late) \in Seq(Sendable(now)) /\ Tail(late) # late
    BY <1>0, <1>2, HeadThenTail
  <2>2. Handled = Head(late)
    BY <1>2 DEF Handled
  <2>3. LinkTyped'
    BY <1>0, <1>2, <2>1 DEF LinkTyped
  <2> QED BY <1>2, <2>1, <2>2, <2>3
<1> QED BY <1>1, <1>2 DEF Read

\* A connection that ends.
LEMMA LeftBehindTyped ==
    ASSUME LinkTyped, NEW kept \in 0..Len(wire), LeftBehind(kept),
           session' \in BOOLEAN, now' = now
    PROVE  LinkTyped' /\ wire' = <<>>
<1>1. wire \in Seq(Sendable(now)) /\ late \in Seq(Sendable(now)) /\ Sendable(now)' = Sendable(now)
  BY DEF LinkTyped, Sendable
<1>2. SubSeq(wire, 1, kept) \in Seq(Sendable(now))
  BY <1>1, Prefix
<1>3. late \o SubSeq(wire, 1, kept) \in Seq(Sendable(now))
  BY <1>1, <1>2, Concatenated
<1>4. wire' = <<>> /\ late' = late \o SubSeq(wire, 1, kept)
  BY DEF LeftBehind
<1>5. <<>> \in Seq(Sendable(now))
  OBVIOUS
<1> QED BY <1>1, <1>3, <1>4, <1>5 DEF LinkTyped

-----------------------------------------------------------------------------
\* What a step does to the tables.

LEMMA StoredAs ==
    ASSUME NEW m \in Sendable(now), Stored(m)
    PROVE  \/ /\ m \in Samples
              /\ network' = network \cup {[id |-> NextId, at |-> now, bytes |-> m.bytes,
                                           total |-> m.total, boot |-> m.boot]}
              /\ UNCHANGED <<apps, usb, commands, history>>
           \/ /\ m.start \in 0..now /\ apps' = apps \cup {m.start} /\ m \notin Events
              /\ UNCHANGED <<network, usb, commands, history>>
           \/ /\ m \in Events /\ usb' = usb \cup {now}
              /\ logged' = IF wire' = wire THEN logged
                           ELSE IF m.event = "inserted" THEN logged \cup {m.drive}
                           ELSE logged \ {m.drive}
              /\ UNCHANGED <<network, apps, commands, silent>>
<1>1. CASE m \in Samples
  <2>1. m.says = "network"
    BY <1>1 DEF Samples
  <2> QED BY <1>1, <2>1 DEF Stored
<1>2. CASE m \in [says : {"apps"}, start : 0..now]
  <2>1. m.says = "apps" /\ m.start \in 0..now /\ m \notin Events
    BY <1>2 DEF Events
  <2> QED BY <2>1 DEF Stored
<1>3. CASE m \in Events
  <2>1. m.says = "usb"
    BY <1>3 DEF Events
  <2> QED BY <1>3, <2>1 DEF Stored
<1> QED BY <1>1, <1>2, <1>3 DEF Sendable

\* A new row's id is beyond every other.
LEMMA NextIdIsNew ==
    ASSUME TablesTyped
    PROVE  NextId \in Nat /\ \A r \in network : r.id \in Nat /\ r.id < NextId
<1> DEFINE ids == {r.id : r \in network}
           S == {0} \cup ids
<1>1. \A r \in network : r.id \in Nat
  BY DEF TablesTyped, Rows
<1>2. PICK n \in Nat : \A r \in network : r.id <= n
  BY DEF TablesTyped, Bounded
<1>3. S \in SUBSET Nat /\ S # {} /\ \A x \in S : x <= n
  BY <1>1, <1>2
<1>4. Max(S) \in S /\ \A x \in S : x <= Max(S)
  <2> HIDE DEF S
  <2> QED BY <1>3, MaxIsGreatest
<1>5. NextId = 1 + Max(S)
  BY DEF NextId
<1>6. \A r \in network : r.id \in S
  OBVIOUS
<1> HIDE DEF S
<1>7. Max(S) \in Nat
  BY <1>3, <1>4
<1>8. \A r \in network : r.id <= Max(S)
  BY <1>4, <1>6
<1> QED BY <1>1, <1>5, <1>7, <1>8

LEMMA StoredTyped ==
    ASSUME TablesTyped, now \in Nat, now \in Hours, now' = now, AccountTyped,
           NEW m \in Sendable(now), Stored(m)
    PROVE  TablesTyped' /\ logged' \in SUBSET Drives /\ silent' = silent
<1> USE DEF TablesTyped, history
<1>1. CASE /\ m \in Samples
           /\ network' = network \cup {[id |-> NextId, at |-> now, bytes |-> m.bytes,
                                        total |-> m.total, boot |-> m.boot]}
           /\ UNCHANGED <<apps, usb, commands, history>>
  <2> DEFINE new == [id |-> NextId, at |-> now, bytes |-> m.bytes,
                     total |-> m.total, boot |-> m.boot]
  <2>1. NextId \in Nat /\ \A r \in network : r.id \in Nat /\ r.id < NextId
    BY NextIdIsNew
  <2>2. m.bytes \in Nat /\ m.total \in Nat /\ m.boot \in Nat
    BY <1>1 DEF Samples
  <2>3. new \in Rows /\ new.id = NextId /\ new.at = now
    BY <2>1, <2>2 DEF Rows
  <2> HIDE DEF new
  <2>4. network' = network \cup {new}
    BY <1>1 DEF new
  <2>5. network' \in SUBSET Rows /\ \A r \in network' : r.at <= now
    BY <2>3, <2>4
  <2>6. Bounded'
    <3>1. \A r \in network' : r.id <= NextId
      BY <2>1, <2>3, <2>4
    <3> QED BY <2>1, <3>1 DEF Bounded
  <2>7. \A r, s \in network' : r.id = s.id => r = s
    BY <2>1, <2>3, <2>4
  <2>8. \A r, s \in network' : r.id < s.id => r.at <= s.at
    <3>1. ASSUME NEW r \in network', NEW s \in network', r.id < s.id PROVE r.at <= s.at
      <4>1. CASE s = new
        BY <2>3, <2>5, <4>1
      <4>2. CASE s # new /\ r = new
        BY <2>1, <2>3, <2>4, <3>1, <4>2
      <4>3. CASE s # new /\ r # new
        BY <2>4, <3>1, <4>3
      <4> QED BY <4>1, <4>2, <4>3
    <3> QED BY <3>1
  <2> QED BY <1>1, <2>5, <2>6, <2>7, <2>8 DEF AccountTyped
<1>2. CASE /\ m.start \in 0..now /\ apps' = apps \cup {m.start}
           /\ UNCHANGED <<network, usb, commands, history>>
  BY <1>2 DEF AccountTyped, Bounded
<1>3. CASE /\ m \in Events /\ usb' = usb \cup {now}
           /\ logged' = IF wire' = wire THEN logged
                        ELSE IF m.event = "inserted" THEN logged \cup {m.drive}
                        ELSE logged \ {m.drive}
           /\ UNCHANGED <<network, apps, commands, silent>>
  <2>1. m.drive \in Drives
    BY <1>3 DEF Events
  <2> QED BY <1>3, <2>1 DEF AccountTyped, Bounded
<1> QED BY <1>1, <1>2, <1>3, StoredAs

\* Pruning only takes rows away.
LEMMA PrunedTyped ==
    ASSUME TablesTyped, now' = now, PruneTables
    PROVE  TablesTyped' /\ pruner' \in {"idle", "sweep"}
<1>1. PICK n \in Batch({r \in network : Stale(r.at)}),
           a \in Batch({t \in apps : Stale(t)}), u \in Batch({t \in usb : Stale(t)}),
           c \in Batch({t \in commands : Stale(t)}) :
         /\ network' = network \ n /\ apps' = apps \ a /\ usb' = usb \ u
         /\ commands' = commands \ c
         /\ pruner' = IF n = {} /\ a = {} /\ u = {} /\ c = {} THEN "idle" ELSE "sweep"
  BY DEF PruneTables
<1>2. /\ network' \subseteq network /\ apps' \subseteq apps /\ usb' \subseteq usb
      /\ commands' \subseteq commands
  BY <1>1
<1> QED BY <1>1, <1>2 DEF TablesTyped, Bounded

-----------------------------------------------------------------------------
\* Types, step by step.

\* What a poll sends is events.
LEMMA PollSends ==
    ASSUME AccountTyped, NEW plugged \in SUBSET Drives
    PROVE  Says("inserted", plugged \ known) \o Says("removed", known \ plugged)
              \in Seq(Sendable(now))
<1>1. Says("inserted", plugged \ known) \in Seq(Events)
  BY SaysEach
<1>2. known \ plugged \in SUBSET Drives
  BY DEF AccountTyped
<1>3. Says("removed", known \ plugged) \in Seq(Events)
  BY <1>2, SaysEach
<1>4. Events \subseteq Sendable(now)
  BY DEF Sendable
<1>5. /\ Says("inserted", plugged \ known) \in Seq(Sendable(now))
      /\ Says("removed", known \ plugged) \in Seq(Sendable(now))
  BY <1>1, <1>3, <1>4, Wider
<1> QED BY <1>5, Concatenated

LEMMA FaultTyped ==
    ASSUME RestTyped, Fault
    PROVE  messages' \in 0..MaxMessages /\ faults' \in 0..MaxFaults
BY MonitoringAssumption DEF RestTyped, Fault

LEMMA TypesStep == MonitoringTypes /\ [MonitoringNext]_vars => MonitoringTypes'
<1> SUFFICES ASSUME MonitoringTypes, MonitoringNext \/ UNCHANGED vars
             PROVE  MonitoringTypes'
  OBVIOUS
<1> DEFINE Typed == LinkTyped /\ TablesTyped /\ MachineTyped /\ AccountTyped /\ RestTyped
<1>0. /\ LinkTyped /\ TablesTyped /\ MachineTyped /\ AccountTyped /\ RestTyped
      /\ now \in Hours /\ now \in Nat
  BY TypesParted, TypesUnfolded
<1>a. SUFFICES Typed'
  BY TypesParted, PTL
<1>b. UNCHANGED <<link, now>> => LinkTyped'
  BY <1>0 DEF LinkTyped, link, Sendable
<1>c. UNCHANGED <<tables, now>> => TablesTyped'
  BY <1>0 DEF TablesTyped, tables, Bounded
<1>d. UNCHANGED machine => MachineTyped'
  BY <1>0 DEF MachineTyped, machine
<1>e. UNCHANGED <<known, history>> => AccountTyped'
  BY <1>0 DEF AccountTyped, history
<1>f. UNCHANGED <<now, pruner, bounds>> => RestTyped'
  BY <1>0 DEF RestTyped, bounds
<1>g. AccountAnew /\ known' \in SUBSET Drives => AccountTyped'
  BY DEF AccountAnew, AccountTyped
<1>1. ASSUME NEW sent \in 0..MaxTraffic - traffic, SampleNetwork(sent) PROVE Typed'
  <2> DEFINE m == [says |-> "network", bytes |-> counter', total |-> traffic', boot |-> boots]
  <2>1. /\ traffic' = traffic + sent /\ counter' = counter + sent /\ session /\ Send(<<m>>)
        /\ UNCHANGED <<now, boots, known, tables, pruner, history>>
    BY <1>1 DEF SampleNetwork
  <2>2. MachineTyped'
    BY <1>0, <2>1, MonitoringAssumption DEF MachineTyped
  <2>3. m \in Sendable(now)
    <3>1. counter' \in Nat /\ traffic' \in Nat /\ boots \in Nat
      BY <1>0, <2>1, MonitoringAssumption DEF MachineTyped
    <3> QED BY <3>1 DEF Sendable, Samples
  <2> HIDE DEF m
  <2>4. <<m>> \in Seq(Sendable(now))
    BY <2>3
  <2>5. LinkTyped' /\ messages' \in 0..MaxMessages /\ faults' = faults
    BY <1>0, <2>1, <2>4, SendTyped
  <2>6. RestTyped'
    BY <1>0, <2>1, <2>5 DEF RestTyped
  <2> QED BY <1>c, <1>e, <2>1, <2>2, <2>5, <2>6
<1>2. ASSUME NEW start \in Starts \cap (0..now), CollectApps(start) PROVE Typed'
  <2> DEFINE m == [says |-> "apps", start |-> start]
  <2>1. /\ session /\ Send(<<m>>)
        /\ UNCHANGED <<now, machine, known, tables, pruner, history>>
    BY <1>2 DEF CollectApps
  <2>2. m \in Sendable(now)
    BY DEF Sendable
  <2> HIDE DEF m
  <2>3. <<m>> \in Seq(Sendable(now))
    BY <2>2
  <2>4. LinkTyped' /\ messages' \in 0..MaxMessages /\ faults' = faults
    BY <1>0, <2>1, <2>3, SendTyped
  <2>5. RestTyped'
    BY <1>0, <2>1, <2>4 DEF RestTyped
  <2> QED BY <1>c, <1>d, <1>e, <2>1, <2>4, <2>5
<1>3. ASSUME NEW plugged \in SUBSET Drives, PollUsb(plugged) PROVE Typed'
  <2>1. /\ session /\ known' = plugged
        /\ UNCHANGED <<now, machine, tables, pruner, logged, faults>>
    BY <1>3 DEF PollUsb, Remembered
  <2>2. CASE Baseline(plugged)
    <3>1. silent' = plugged /\ UNCHANGED link /\ UNCHANGED messages
      BY <1>3, <2>2 DEF PollUsb
    <3>2. AccountTyped'
      BY <1>0, <2>1, <3>1 DEF AccountTyped
    <3> QED BY <1>b, <1>c, <1>d, <1>f, <2>1, <3>1, <3>2 DEF bounds
  <2>3. CASE ~Baseline(plugged)
    <3>1. /\ Send(Says("inserted", plugged \ known) \o Says("removed", known \ plugged))
          /\ silent' = silent \cap plugged
      BY <1>3, <2>3 DEF PollUsb
    <3>2. LinkTyped' /\ messages' \in 0..MaxMessages /\ faults' = faults
      BY <1>0, <2>1, <3>1, PollSends, SendTyped
    <3>3. AccountTyped'
      BY <1>0, <2>1, <3>1 DEF AccountTyped
    <3>4. RestTyped'
      BY <1>0, <2>1, <3>2 DEF RestTyped
    <3> QED BY <1>c, <1>d, <2>1, <3>2, <3>3, <3>4
  <2> QED BY <2>2, <2>3
<1>4. CASE Connect
  <2>1. /\ ~session /\ session' = TRUE /\ UNCHANGED <<wire, late>>
        /\ UNCHANGED <<now, machine, known, tables, pruner, history, bounds>>
    BY <1>4 DEF Connect
  <2>2. LinkTyped'
    BY <1>0, <2>1 DEF LinkTyped, Sendable
  <2> QED BY <1>c, <1>d, <1>e, <1>f, <2>1, <2>2
<1>5. CASE Disconnect
  <2>1. /\ session' = FALSE /\ Fault /\ \E kept \in 0..Len(wire) : LeftBehind(kept)
        /\ known' = known \/ known' \in SUBSET Drives
        /\ AccountAnew
        /\ UNCHANGED <<now, machine, tables, pruner>>
    BY <1>5 DEF Disconnect, Remembered
  <2>2. LinkTyped'
    BY <1>0, <2>1, LeftBehindTyped
  <2>3. RestTyped'
    BY <1>0, <2>1, FaultTyped DEF RestTyped
  <2>4. AccountTyped'
    BY <1>0, <1>g, <2>1 DEF AccountTyped
  <2> QED BY <1>c, <1>d, <2>1, <2>2, <2>3, <2>4
<1>6. CASE Restart
  <2>1. /\ Fault /\ session' = FALSE /\ known' = {}
        /\ UNCHANGED machine \/ (counter' = 0 /\ boots' = boots + 1 /\ UNCHANGED traffic)
        /\ \E kept \in 0..Len(wire) : LeftBehind(kept)
        /\ AccountAnew
        /\ UNCHANGED <<now, tables, pruner>>
    BY <1>6 DEF Restart
  <2>2. LinkTyped'
    BY <1>0, <2>1, LeftBehindTyped
  <2>3. RestTyped'
    BY <1>0, <2>1, FaultTyped DEF RestTyped
  <2>4. MachineTyped'
    <3>1. CASE UNCHANGED machine
      BY <1>d, <3>1
    <3>2. CASE counter' = 0 /\ boots' = boots + 1 /\ UNCHANGED traffic
      BY <1>0, <3>2, MonitoringAssumption DEF MachineTyped
    <3> QED BY <2>1, <3>1, <3>2
  <2> QED BY <1>c, <1>g, <2>1, <2>2, <2>3, <2>4
<1>7. CASE Handle
  <2>1. Read /\ Stored(Handled) /\ UNCHANGED <<now, machine, known, pruner, bounds>>
    BY <1>7 DEF Handle
  <2>2. LinkTyped' /\ Handled \in Sendable(now)
    BY <1>0, <2>1, ReadTakes
  <2>3. TablesTyped' /\ logged' \in SUBSET Drives /\ silent' = silent
    BY <1>0, <2>1, <2>2, StoredTyped
  <2>4. AccountTyped'
    BY <1>0, <2>1, <2>3 DEF AccountTyped
  <2> QED BY <1>d, <1>f, <2>1, <2>2, <2>3, <2>4
<1>8. CASE PersistFails
  <2>1. Read /\ Fault /\ AccountAnew /\ UNCHANGED <<now, machine, known, tables, pruner>>
    BY <1>8 DEF PersistFails
  <2>2. LinkTyped'
    BY <1>0, <2>1, ReadTakes
  <2>3. RestTyped'
    BY <1>0, <2>1, FaultTyped DEF RestTyped
  <2>4. AccountTyped'
    BY <1>0, <1>g, <2>1 DEF AccountTyped
  <2> QED BY <1>c, <1>d, <2>1, <2>2, <2>3, <2>4
<1>9. CASE PruneStart
  <2>1. /\ pruner' = "sweep"
        /\ UNCHANGED <<now, machine, known, link, tables, history, bounds>>
    BY <1>9 DEF PruneStart
  <2>2. RestTyped'
    BY <1>0, <2>1 DEF RestTyped, bounds
  <2> QED BY <1>b, <1>c, <1>d, <1>e, <2>1, <2>2
<1>10. CASE PruneBatch
  <2>1. PruneTables /\ UNCHANGED <<now, machine, known, link, history, bounds>>
    BY <1>10 DEF PruneBatch
  <2>2. TablesTyped' /\ pruner' \in {"idle", "sweep"}
    BY <1>0, <2>1, PrunedTyped
  <2>3. RestTyped'
    BY <1>0, <2>1, <2>2 DEF RestTyped, bounds
  <2> QED BY <1>b, <1>d, <1>e, <2>1, <2>2, <2>3
<1>11. CASE PruneFails
  <2>1. /\ pruner' = "idle" /\ Fault
        /\ UNCHANGED <<now, machine, known, link, tables, history>>
    BY <1>11 DEF PruneFails
  <2>2. RestTyped'
    BY <1>0, <2>1, FaultTyped DEF RestTyped
  <2> QED BY <1>b, <1>c, <1>d, <1>e, <2>1, <2>2
<1>12. CASE Tick
  <2>1. /\ now < MaxTime /\ now' = now + 1
        /\ UNCHANGED <<machine, known, link, tables, pruner, history, bounds>>
    BY <1>12 DEF Tick
  <2>2. now' \in Hours /\ now <= now' /\ now' \in Nat
    BY <1>0, <2>1, MonitoringAssumption DEF Hours
  <2>3. Sendable(now) \subseteq Sendable(now)'
    BY <1>0, <2>2 DEF Sendable
  <2>4. LinkTyped'
    <3> DEFINE new == Sendable(now)'
    <3>1. wire \in Seq(Sendable(now)) /\ late \in Seq(Sendable(now))
      BY <1>0 DEF LinkTyped
    <3>2. wire \in Seq(new) /\ late \in Seq(new)
      <4> HIDE DEF new
      <4>1. Sendable(now) \subseteq new
        BY <2>3 DEF new
      <4> QED BY <3>1, <4>1, Wider
    <3> QED BY <1>0, <2>1, <3>2 DEF LinkTyped, link
  <2>5. TablesTyped'
    <3>1. UNCHANGED <<network, apps, usb, commands>>
      BY <2>1 DEF tables
    <3>2. \A r \in network : r.at <= now'
      BY <1>0, <2>2 DEF TablesTyped, Rows, Hours
    <3>3. apps \in SUBSET (0..now') /\ usb \in SUBSET (0..now') /\ commands \in SUBSET (0..now')
      BY <1>0, <2>2 DEF TablesTyped
    <3> QED BY <1>0, <3>1, <3>2, <3>3 DEF TablesTyped, Bounded
  <2>6. RestTyped'
    BY <1>0, <2>1, <2>2 DEF RestTyped, bounds
  <2> QED BY <1>d, <1>e, <2>1, <2>4, <2>5, <2>6
<1>13. CASE LogCommand
  <2>1. /\ messages < MaxMessages /\ messages' = messages + 1
        /\ commands' = commands \cup {now}
        /\ UNCHANGED <<now, machine, known, link, network, apps, usb, pruner, history, faults>>
    BY <1>13 DEF LogCommand
  <2>2. TablesTyped'
    BY <1>0, <2>1 DEF TablesTyped, Bounded
  <2>3. RestTyped'
    BY <1>0, <2>1, MonitoringAssumption DEF RestTyped
  <2> QED BY <1>b, <1>d, <1>e, <2>1, <2>2, <2>3
<1>14. CASE UNCHANGED vars
  BY <1>b, <1>c, <1>d, <1>e, <1>f, <1>14 DEF vars
<1> QED
  BY <1>1, <1>2, <1>3, <1>4, <1>5, <1>6, <1>7, <1>8, <1>9, <1>10, <1>11, <1>12, <1>13, <1>14
     DEF MonitoringNext

(***************************************************************************)
(* The tables stay well formed: a new network row's id is beyond every     *)
(* other and its time is not before theirs, whatever is pruned in between, *)
(* and nothing in a table or on its way to one is later than the clock     *)
(* (engine/database.py, store_network_data and prune_batch).               *)
(***************************************************************************)
THEOREM MonitoringTypeCorrect == MonitoringSpec => []MonitoringTypeOK
<1>1. MonitoringTypes => MonitoringTypeOK
  BY DEF MonitoringTypes
<1> QED BY <1>1, TypesInit, TypesStep, PTL DEF MonitoringSpec

-----------------------------------------------------------------------------
\* The account of the drives: what the events on their way to the tables will
\* make of it.

About(d) == {Event("inserted", d), Event("removed", d)}

NoneAbout(q, d) == \A i \in DOMAIN q : q[i] \notin About(d)

LastSays(q, d, e) ==
    \E i \in DOMAIN q : q[i] = Event(e, d) /\ \A j \in DOMAIN q : j > i => q[j] \notin About(d)

\* Whether d is in once the events of q have been stored on top of list.
Told(q, list, d) == IF NoneAbout(q, d) THEN d \in list ELSE LastSays(q, d, "inserted")

Account == \A d \in Drives : d \in known <=> Told(wire, logged, d) \/ d \in silent

LEMMA AboutConcat ==
    ASSUME NEW X, NEW q \in Seq(X), NEW s \in Seq(X), NEW d, NEW e \in {"inserted", "removed"}
    PROVE  /\ NoneAbout(q \o s, d) <=> NoneAbout(q, d) /\ NoneAbout(s, d)
           /\ NoneAbout(s, d) => (LastSays(q \o s, d, e) <=> LastSays(q, d, e))
           /\ ~NoneAbout(s, d) => (LastSays(q \o s, d, e) <=> LastSays(s, d, e))
<1> DEFINE a == q \o s
           n == Len(q)
<1>1. /\ n \in Nat /\ Len(s) \in Nat /\ DOMAIN q = 1..n /\ DOMAIN s = 1..Len(s)
      /\ DOMAIN a = 1..(n + Len(s))
      /\ \A i \in 1..n : a[i] = q[i]
      /\ \A i \in 1..Len(s) : a[n + i] = s[i]
  BY Concatenated
<1> HIDE DEF a, n
<1>2. \A i \in DOMAIN a : i \in DOMAIN q \/ (i > n /\ i - n \in DOMAIN s /\ a[i] = s[i - n])
  <2> SUFFICES ASSUME NEW i \in DOMAIN a, i \notin DOMAIN q
               PROVE  i > n /\ i - n \in DOMAIN s /\ a[i] = s[i - n]
    OBVIOUS
  <2>1. i > n /\ i - n \in 1..Len(s) /\ n + (i - n) = i
    BY <1>1
  <2> QED BY <1>1, <2>1
<1>3. \A i \in DOMAIN q : i \in DOMAIN a /\ a[i] = q[i]
  BY <1>1
<1>4. \A i \in DOMAIN s : n + i \in DOMAIN a /\ a[n + i] = s[i]
  BY <1>1
<1>5. NoneAbout(a, d) <=> NoneAbout(q, d) /\ NoneAbout(s, d)
  <2>1. NoneAbout(a, d) => NoneAbout(q, d) /\ NoneAbout(s, d)
    BY <1>3, <1>4 DEF NoneAbout
  <2>2. NoneAbout(q, d) /\ NoneAbout(s, d) => NoneAbout(a, d)
    BY <1>2, <1>3 DEF NoneAbout
  <2> QED BY <2>1, <2>2
<1>6. Event(e, d) \in About(d)
  BY DEF About
<1>7. ASSUME NoneAbout(s, d) PROVE LastSays(a, d, e) <=> LastSays(q, d, e)
  <2>1. ASSUME LastSays(a, d, e) PROVE LastSays(q, d, e)
    <3>1. PICK i \in DOMAIN a : a[i] = Event(e, d) /\ \A j \in DOMAIN a : j > i => a[j] \notin About(d)
      BY <2>1 DEF LastSays
    <3>2. i \in DOMAIN q
      BY <1>2, <1>6, <1>7, <3>1 DEF NoneAbout
    <3>3. \A j \in DOMAIN q : j > i => q[j] \notin About(d)
      BY <1>3, <3>1
    <3> QED BY <1>3, <3>1, <3>2, <3>3 DEF LastSays
  <2>2. ASSUME LastSays(q, d, e) PROVE LastSays(a, d, e)
    <3>1. PICK i \in DOMAIN q : q[i] = Event(e, d) /\ \A j \in DOMAIN q : j > i => q[j] \notin About(d)
      BY <2>2 DEF LastSays
    <3>2. \A j \in DOMAIN a : j > i => a[j] \notin About(d)
      BY <1>2, <1>3, <1>7, <3>1 DEF NoneAbout
    <3> QED BY <1>3, <3>1, <3>2 DEF LastSays
  <2> QED BY <2>1, <2>2
<1>8. ASSUME ~NoneAbout(s, d) PROVE LastSays(a, d, e) <=> LastSays(s, d, e)
  <2>1. ASSUME LastSays(a, d, e) PROVE LastSays(s, d, e)
    <3>1. PICK i \in DOMAIN a : a[i] = Event(e, d) /\ \A j \in DOMAIN a : j > i => a[j] \notin About(d)
      BY <2>1 DEF LastSays
    <3>2. PICK k \in DOMAIN s : s[k] \in About(d)
      BY <1>8 DEF NoneAbout
    <3>3. ~(n + k > i)
      BY <1>4, <3>1, <3>2
    <3>4. i \notin DOMAIN q
      BY <1>1, <3>2, <3>3
    <3>5. i - n \in DOMAIN s /\ s[i - n] = Event(e, d)
      BY <1>2, <3>1, <3>4
    <3>6. \A j \in DOMAIN s : j > i - n => s[j] \notin About(d)
      <4> SUFFICES ASSUME NEW j \in DOMAIN s, j > i - n PROVE s[j] \notin About(d)
        OBVIOUS
      <4>1. n + j > i
        BY <1>1, <3>1
      <4> QED BY <1>4, <3>1, <4>1
    <3> QED BY <3>5, <3>6 DEF LastSays
  <2>2. ASSUME LastSays(s, d, e) PROVE LastSays(a, d, e)
    <3>1. PICK i \in DOMAIN s : s[i] = Event(e, d) /\ \A j \in DOMAIN s : j > i => s[j] \notin About(d)
      BY <2>2 DEF LastSays
    <3>2. n + i \in DOMAIN a /\ a[n + i] = Event(e, d)
      BY <1>4, <3>1
    <3>3. \A j \in DOMAIN a : j > n + i => a[j] \notin About(d)
      <4> SUFFICES ASSUME NEW j \in DOMAIN a, j > n + i PROVE a[j] \notin About(d)
        OBVIOUS
      <4>1. j \notin DOMAIN q /\ j - n > i
        BY <1>1
      <4> QED BY <1>2, <3>1, <4>1
    <3> QED BY <3>2, <3>3 DEF LastSays
  <2> QED BY <2>1, <2>2
<1> QED BY <1>5, <1>7, <1>8 DEF a

LEMMA ToldConcat ==
    ASSUME NEW X, NEW q \in Seq(X), NEW s \in Seq(X), NEW list, NEW d
    PROVE  Told(q \o s, list, d)
              <=> IF NoneAbout(s, d) THEN Told(q, list, d) ELSE LastSays(s, d, "inserted")
<1>1. /\ NoneAbout(q \o s, d) <=> NoneAbout(q, d) /\ NoneAbout(s, d)
      /\ NoneAbout(s, d) => (LastSays(q \o s, d, "inserted") <=> LastSays(q, d, "inserted"))
      /\ ~NoneAbout(s, d) => (LastSays(q \o s, d, "inserted") <=> LastSays(s, d, "inserted"))
  BY AboutConcat
<1> QED BY <1>1 DEF Told

LEMMA EventsApart ==
    ASSUME NEW c \in {"inserted", "removed"}, NEW e \in {"inserted", "removed"}, NEW b, NEW d
    PROVE  /\ Event(c, b) \in About(d) <=> b = d
           /\ Event(c, d) = Event(e, d) <=> c = e
<1>1. Event(c, b).event = c /\ Event(c, b).drive = b
  BY DEF Event
<1>2. Event(e, d).event = e /\ Event(c, d).event = c
  BY DEF Event
<1>3. \A x \in About(d) : x.drive = d
  BY DEF About, Event
<1>4. Event(c, d) \in About(d)
  BY DEF About
<1> QED BY <1>1, <1>2, <1>3, <1>4

\* Storing the head of what is carried tells nothing new.
LEMMA ToldOnReading ==
    ASSUME NEW X, NEW q \in Seq(X), q # <<>>, NEW list, NEW d, Head(q) \in Events
    PROVE  Told(Tail(q), IF Head(q).event = "inserted" THEN list \cup {Head(q).drive}
                         ELSE list \ {Head(q).drive}, d)
              <=> Told(q, list, d)
<1> DEFINE h == Head(q)
           t == Tail(q)
           l == IF h.event = "inserted" THEN list \cup {h.drive} ELSE list \ {h.drive}
<1>1. <<h>> \in Seq(X) /\ t \in Seq(X) /\ q = <<h>> \o t
  BY HeadThenTail
<1>2. h.event \in {"inserted", "removed"} /\ h = Event(h.event, h.drive)
  BY DEF Events, Event
<1>3. h \in About(d) <=> h.drive = d
  BY <1>2, EventsApart
<1>4. h.drive = d => (h = Event("inserted", d) <=> h.event = "inserted")
  BY <1>2, EventsApart
<1>5. NoneAbout(<<h>>, d) <=> h.drive # d
  BY <1>3 DEF NoneAbout
<1>6. h.drive = d => (LastSays(<<h>>, d, "inserted") <=> h.event = "inserted")
  BY <1>4 DEF LastSays
<1>7. Told(<<h>>, list, d) <=> d \in l
  BY <1>2, <1>5, <1>6 DEF Told
<1>8. Told(<<h>> \o t, list, d)
         <=> IF NoneAbout(t, d) THEN Told(<<h>>, list, d) ELSE LastSays(t, d, "inserted")
  <2> HIDE DEF h, t
  <2> QED BY <1>1, ToldConcat
<1>9. Told(q, list, d) <=> IF NoneAbout(t, d) THEN d \in l ELSE LastSays(t, d, "inserted")
  <2> HIDE DEF h, t, l
  <2> QED BY <1>1, <1>7, <1>8
<1> QED BY <1>9 DEF Told

LEMMA ToldOnPassing ==
    ASSUME NEW X, NEW q \in Seq(X), q # <<>>, NEW list, NEW d \in Drives, Head(q) \notin Events
    PROVE  Told(Tail(q), list, d) <=> Told(q, list, d)
<1> DEFINE h == Head(q)
           t == Tail(q)
<1>1. <<h>> \in Seq(X) /\ t \in Seq(X) /\ q = <<h>> \o t
  BY HeadThenTail
<1>2. h \notin About(d)
  BY DEF About, Event, Events
<1>3. NoneAbout(<<h>>, d)
  BY <1>2 DEF NoneAbout
<1>4. Told(<<h>>, list, d) <=> d \in list
  BY <1>3 DEF Told
<1>5. Told(<<h>> \o t, list, d)
         <=> IF NoneAbout(t, d) THEN Told(<<h>>, list, d) ELSE LastSays(t, d, "inserted")
  <2> HIDE DEF h, t
  <2> QED BY <1>1, ToldConcat
<1>6. Told(q, list, d) <=> IF NoneAbout(t, d) THEN d \in list ELSE LastSays(t, d, "inserted")
  <2> HIDE DEF h, t
  <2> QED BY <1>1, <1>4, <1>5
<1> QED BY <1>6 DEF Told

LEMMA SaysAbout ==
    ASSUME NEW e \in {"inserted", "removed"}, NEW drives \in SUBSET Drives, NEW d
    PROVE  IF d \in drives
           THEN /\ ~NoneAbout(Says(e, drives), d)
                /\ LastSays(Says(e, drives), d, "inserted") <=> e = "inserted"
           ELSE NoneAbout(Says(e, drives), d)
<1> DEFINE s == Says(e, drives)
<1>1. /\ \A i \in DOMAIN s : \E b \in drives : s[i] = Event(e, b)
      /\ \A b \in drives : \E i \in DOMAIN s : s[i] = Event(e, b)
      /\ \A i, j \in DOMAIN s : s[i] = s[j] => i = j
      /\ s \in Seq(Events)
  BY SaysEach
<1> HIDE DEF s
<1>2. \A i \in DOMAIN s : s[i] \in About(d) => s[i] = Event(e, d) /\ d \in drives
  BY <1>1, EventsApart
<1>3. CASE d \notin drives
  BY <1>2, <1>3 DEF NoneAbout, s
<1>4. CASE d \in drives
  <2>1. PICK i \in DOMAIN s : s[i] = Event(e, d)
    BY <1>1, <1>4
  <2>2. s[i] \in About(d)
    BY <2>1, EventsApart
  <2>3. \A j \in DOMAIN s : j > i => s[j] \notin About(d)
    <3> SUFFICES ASSUME NEW j \in DOMAIN s, j > i, s[j] \in About(d) PROVE FALSE
      OBVIOUS
    <3>1. i = j
      BY <1>1, <1>2, <2>1
    <3>2. i \in Nat
      BY <1>1
    <3> QED BY <3>1, <3>2
  <2>4. LastSays(s, d, e)
    BY <2>1, <2>3 DEF LastSays
  <2>5. LastSays(s, d, "inserted") => e = "inserted"
    <3> SUFFICES ASSUME LastSays(s, d, "inserted") PROVE e = "inserted"
      OBVIOUS
    <3>1. PICK j \in DOMAIN s : s[j] = Event("inserted", d)
      BY DEF LastSays
    <3>2. s[j] \in About(d)
      BY <3>1, EventsApart
    <3>3. Event(e, d) = Event("inserted", d)
      BY <1>2, <3>1, <3>2
    <3> QED BY <3>3, EventsApart
  <2>6. ~NoneAbout(s, d)
    BY <2>2 DEF NoneAbout
  <2> QED BY <1>4, <2>4, <2>5, <2>6 DEF s
<1> QED BY <1>3, <1>4

\* What comes after the head tells as much as the whole, if it tells anything.
LEMMA ToldByTail ==
    ASSUME NEW X, NEW q \in Seq(X), q # <<>>, NEW list, NEW d, Told(Tail(q), {}, d)
    PROVE  Told(q, list, d)
<1> DEFINE h == <<Head(q)>>
           t == Tail(q)
<1>1. h \in Seq(X) /\ t \in Seq(X) /\ q = h \o t
  BY HeadThenTail
<1>2. ~NoneAbout(t, d) /\ LastSays(t, d, "inserted")
  BY DEF Told
<1> HIDE DEF h, t
<1>3. Told(h \o t, list, d) <=> LastSays(t, d, "inserted")
  BY <1>1, <1>2, ToldConcat
<1> QED BY <1>1, <1>2, <1>3

\* A message that is no event changes nothing of what is told.
LEMMA ToldOnSending ==
    ASSUME NEW q \in Seq(Sendable(now)), NEW m \in Sendable(now), m \notin Events,
           NEW list, NEW d \in Drives
    PROVE  Told(q \o <<m>>, list, d) <=> Told(q, list, d)
<1>1. m \notin About(d)
  BY DEF About, Event, Events
<1>2. NoneAbout(<<m>>, d)
  BY <1>1 DEF NoneAbout
<1>3. <<m>> \in Seq(Sendable(now))
  OBVIOUS
<1> QED BY <1>2, <1>3, ToldConcat

\* What a poll sends tells of the drives it found, and of no other.
LEMMA ToldOnPolling ==
    ASSUME AccountTyped, NEW q \in Seq(Sendable(now)), NEW plugged \in SUBSET Drives,
           NEW list, NEW d \in Drives
    PROVE  Told(q \o (Says("inserted", plugged \ known) \o Says("removed", known \ plugged)),
                list, d)
              <=> IF d \in plugged <=> d \in known THEN Told(q, list, d) ELSE d \in plugged
<1> DEFINE ins == Says("inserted", plugged \ known)
           rem == Says("removed", known \ plugged)
<1>1. known \ plugged \in SUBSET Drives
  BY DEF AccountTyped
<1>2. ins \in Seq(Events) /\ rem \in Seq(Events)
  BY <1>1, SaysEach
<1>3. ins \o rem \in Seq(Sendable(now))
  BY PollSends
<1>4. IF d \in plugged \ known
      THEN ~NoneAbout(ins, d) /\ LastSays(ins, d, "inserted")
      ELSE NoneAbout(ins, d)
  BY SaysAbout
<1>5. IF d \in known \ plugged
      THEN ~NoneAbout(rem, d) /\ ~LastSays(rem, d, "inserted")
      ELSE NoneAbout(rem, d)
  BY <1>1, SaysAbout
<1> HIDE DEF ins, rem
<1>6. /\ NoneAbout(ins \o rem, d) <=> NoneAbout(ins, d) /\ NoneAbout(rem, d)
      /\ NoneAbout(rem, d) => (LastSays(ins \o rem, d, "inserted") <=> LastSays(ins, d, "inserted"))
      /\ ~NoneAbout(rem, d) => (LastSays(ins \o rem, d, "inserted") <=> LastSays(rem, d, "inserted"))
  BY <1>2, AboutConcat
<1>7. Told(q \o (ins \o rem), list, d)
         <=> IF NoneAbout(ins \o rem, d) THEN Told(q, list, d)
             ELSE LastSays(ins \o rem, d, "inserted")
  BY <1>3, ToldConcat
<1>8. Told(q \o (ins \o rem), list, d)
         <=> IF d \in plugged <=> d \in known THEN Told(q, list, d) ELSE d \in plugged
  BY <1>4, <1>5, <1>6, <1>7
<1> QED BY <1>8 DEF ins, rem

-----------------------------------------------------------------------------
\* The account, step by step.

AccountInv == MonitoringTypes /\ Account

LEMMA AccountInit == MonitoringInit => Account
BY DEF MonitoringInit, Account, Told, NoneAbout

\* Once no connection carries anything, the account starts from what is known.
LEMMA AccountStarts ==
    ASSUME wire' = <<>>, AccountAnew
    PROVE  Account'
BY DEF AccountAnew, Account, Told, LastSays, NoneAbout

LEMMA AccountPolled ==
    ASSUME AccountInv, NEW plugged \in SUBSET Drives, PollUsb(plugged)
    PROVE  Account'
<1>0. /\ wire \in Seq(Sendable(now)) /\ AccountTyped
      /\ \A d \in Drives : d \in known <=> Told(wire, logged, d) \/ d \in silent
  BY TypesParted, TypesUnfolded DEF AccountInv, Account
<1>1. known' = plugged /\ logged' = logged
  BY DEF PollUsb, Remembered
<1>2. CASE Baseline(plugged)
  <2>1. silent' = plugged /\ wire' = wire /\ known = {}
    BY <1>2 DEF PollUsb, Baseline, link
  <2>2. \A d \in Drives : ~Told(wire, logged, d)
    BY <1>0, <2>1
  <2> QED BY <1>1, <2>1, <2>2 DEF Account
<1>3. CASE ~Baseline(plugged)
  <2> DEFINE s == Says("inserted", plugged \ known) \o Says("removed", known \ plugged)
  <2>1. Send(s) /\ silent' = silent \cap plugged
    BY <1>3 DEF PollUsb
  <2>2. wire' = wire \o s
    BY <2>1 DEF Send
  <2>3. ASSUME NEW d \in Drives
        PROVE  Told(wire', logged', d)
                  <=> IF d \in plugged <=> d \in known THEN Told(wire, logged, d)
                      ELSE d \in plugged
    <3>1. Told(wire \o s, logged, d)
             <=> IF d \in plugged <=> d \in known THEN Told(wire, logged, d)
                 ELSE d \in plugged
      BY <1>0, ToldOnPolling
    <3> HIDE DEF s
    <3> QED BY <1>1, <2>2, <3>1
  <2>4. ASSUME NEW d \in Drives
        PROVE  d \in known' <=> Told(wire', logged', d) \/ d \in silent'
    BY <1>0, <1>1, <2>1, <2>3
  <2> QED BY <2>4 DEF Account
<1> QED BY <1>2, <1>3

LEMMA AccountHandled ==
    ASSUME AccountInv, Handle
    PROVE  Account'
<1>0. /\ wire \in Seq(Sendable(now)) /\ LinkTyped
      /\ \A d \in Drives : d \in known <=> Told(wire, logged, d) \/ d \in silent
  BY TypesParted, TypesUnfolded DEF AccountInv, Account
<1>1. Read /\ Stored(Handled) /\ now' = now /\ known' = known
  BY DEF Handle
<1>2. /\ Handled \in Sendable(now)
      /\ \/ wire # <<>> /\ wire' = Tail(wire) /\ wire' # wire /\ Handled = Head(wire)
         \/ wire' = wire
  BY <1>0, <1>1, ReadTakes
<1>3. silent' = silent
  BY <1>1, <1>2, StoredAs DEF history
<1>4. ASSUME NEW d \in Drives PROVE Told(wire', logged', d) <=> Told(wire, logged, d)
  <2>1. CASE wire' = wire
    <3>1. logged' = logged
      BY <1>1, <1>2, <2>1, StoredAs DEF history
    <3> QED BY <2>1, <3>1
  <2>2. CASE wire # <<>> /\ wire' = Tail(wire) /\ wire' # wire /\ Handled = Head(wire)
    <3>1. CASE Head(wire) \in Events
      <4>1. logged' = IF Head(wire).event = "inserted" THEN logged \cup {Head(wire).drive}
                      ELSE logged \ {Head(wire).drive}
        <5>1. Head(wire) \notin Samples
          BY <3>1 DEF Events, Samples
        <5> QED BY <1>1, <1>2, <2>2, <3>1, <5>1, StoredAs
      <4> QED BY <1>0, <2>2, <3>1, <4>1, ToldOnReading
    <3>2. CASE Head(wire) \notin Events
      <4>1. logged' = logged
        BY <1>1, <1>2, <2>2, <3>2, StoredAs DEF history
      <4> QED BY <1>0, <2>2, <3>2, <4>1, ToldOnPassing
    <3> QED BY <3>1, <3>2
  <2> QED BY <1>2, <2>1, <2>2
<1> QED BY <1>0, <1>1, <1>3, <1>4 DEF Account

LEMMA AccountOnFailure ==
    ASSUME AccountInv, PersistFails
    PROVE  Account'
<1>0. /\ wire \in Seq(Sendable(now)) /\ LinkTyped
      /\ \A d \in Drives : d \in known <=> Told(wire, logged, d) \/ d \in silent
  BY TypesParted, TypesUnfolded DEF AccountInv, Account
<1>1. Read /\ AccountAnew /\ now' = now /\ known' = known
  BY DEF PersistFails
<1>2. (wire # <<>> /\ wire' = Tail(wire)) \/ wire' = wire
  BY <1>0, <1>1, ReadTakes
<1>3. ASSUME NEW d \in Drives, Told(wire', {}, d) PROVE Told(wire, logged, d)
  <2>1. CASE wire' = wire
    BY <1>3, <2>1 DEF Told
  <2>2. CASE wire # <<>> /\ wire' = Tail(wire)
    BY <1>0, <1>3, <2>2, ToldByTail
  <2> QED BY <1>2, <2>1, <2>2
<1> QED BY <1>0, <1>1, <1>3 DEF Account, AccountAnew

LEMMA AccountStep == AccountInv /\ [MonitoringNext]_vars => Account'
<1> SUFFICES ASSUME AccountInv, MonitoringNext \/ UNCHANGED vars PROVE Account'
  OBVIOUS
<1>0. wire \in Seq(Sendable(now)) /\ traffic \in Nat /\ counter \in Nat /\ boots \in Nat
  BY TypesUnfolded, MonitoringAssumption DEF AccountInv
<1>a. UNCHANGED <<wire, known, silent, logged>> => Account'
  BY DEF AccountInv, Account
<1>b. ASSUME NEW m \in Sendable(now), m \notin Events, Send(<<m>>),
             UNCHANGED <<known, silent, logged>>
      PROVE  Account'
  <2>1. wire' = wire \o <<m>>
    BY <1>b DEF Send
  <2>2. \A d \in Drives : Told(wire', logged, d) <=> Told(wire, logged, d)
    BY <1>0, <1>b, <2>1, ToldOnSending
  <2> QED BY <1>b, <2>2 DEF AccountInv, Account
<1>1. ASSUME NEW sent \in 0..MaxTraffic - traffic, SampleNetwork(sent) PROVE Account'
  <2> DEFINE m == [says |-> "network", bytes |-> counter', total |-> traffic', boot |-> boots]
  <2>1. traffic' \in Nat /\ counter' \in Nat
    BY <1>0, <1>1, MonitoringAssumption DEF SampleNetwork
  <2>2. m \in Sendable(now) /\ m \notin Events
    BY <1>0, <2>1 DEF Sendable, Samples, Events
  <2>3. Send(<<m>>) /\ UNCHANGED <<known, silent, logged>>
    BY <1>1 DEF SampleNetwork, history
  <2> QED BY <1>b, <2>2, <2>3
<1>2. ASSUME NEW start \in Starts \cap (0..now), CollectApps(start) PROVE Account'
  <2> DEFINE m == [says |-> "apps", start |-> start]
  <2>1. m \in Sendable(now) /\ m \notin Events
    BY DEF Sendable, Events
  <2>2. Send(<<m>>) /\ UNCHANGED <<known, silent, logged>>
    BY <1>2 DEF CollectApps, history
  <2> QED BY <1>b, <2>1, <2>2
<1>3. ASSUME NEW plugged \in SUBSET Drives, PollUsb(plugged) PROVE Account'
  BY <1>3, AccountPolled
<1>4. CASE Connect
  BY <1>a, <1>4 DEF Connect, history
<1>5. CASE Disconnect
  BY <1>5, AccountStarts DEF Disconnect, LeftBehind
<1>6. CASE Restart
  BY <1>6, AccountStarts DEF Restart, LeftBehind
<1>7. CASE Handle
  BY <1>7, AccountHandled
<1>8. CASE PersistFails
  BY <1>8, AccountOnFailure
<1>9. CASE PruneStart
  BY <1>a, <1>9 DEF PruneStart, link, history
<1>10. CASE PruneBatch
  BY <1>a, <1>10 DEF PruneBatch, link, history
<1>11. CASE PruneFails
  BY <1>a, <1>11 DEF PruneFails, link, history
<1>12. CASE Tick
  BY <1>a, <1>12 DEF Tick, link, history
<1>13. CASE LogCommand
  BY <1>a, <1>13 DEF LogCommand, link, history
<1>14. CASE UNCHANGED vars
  BY <1>a, <1>14 DEF vars, link, history
<1> QED
  BY <1>1, <1>2, <1>3, <1>4, <1>5, <1>6, <1>7, <1>8, <1>9, <1>10, <1>11, <1>12, <1>13, <1>14
     DEF MonitoringNext

(***************************************************************************)
(* Once the client's connection carries no event, the events stored lead   *)
(* from the drives it adopted to those it knows, whatever was polled, read *)
(* late, lost or failed to be stored meanwhile (usb_monitor.py,            *)
(* poll_usb_events; engine/command_handler.py, _persist_usb_event).        *)
(***************************************************************************)
THEOREM UsbLogReplaysAlways == MonitoringSpec => []UsbLogReplays
<1>1. MonitoringInit => AccountInv
  BY TypesInit, AccountInit DEF AccountInv
<1>2. AccountInv /\ [MonitoringNext]_vars => AccountInv'
  BY TypesStep, AccountStep DEF AccountInv
<1>3. AccountInv => UsbLogReplays
  <2> SUFFICES ASSUME AccountInv, \A i \in DOMAIN wire : wire[i].says # "usb"
               PROVE  known = logged \cup silent
    BY DEF UsbLogReplays
  <2>1. \A d : \A e : Event(e, d).says = "usb"
    BY DEF Event
  <2>2. \A d \in Drives : NoneAbout(wire, d)
    BY <2>1 DEF NoneAbout, About
  <2>3. \A d \in Drives : d \in known <=> d \in logged \/ d \in silent
    BY <2>2 DEF AccountInv, Account, Told
  <2>4. known \subseteq Drives /\ logged \subseteq Drives /\ silent \subseteq Drives
    BY TypesUnfolded DEF AccountInv
  <2> QED BY <2>3, <2>4
<1> QED BY <1>1, <1>2, <1>3, PTL DEF MonitoringSpec

-----------------------------------------------------------------------------
\* Retention and the reports.

LEMMA ProductMonotone ==
    ASSUME NEW a \in Nat, NEW b \in Nat, NEW h \in Nat, a <= b
    PROVE  a * h \in Nat /\ b * h \in Nat /\ a * h <= b * h
OBVIOUS

\* What retention calls old lies before every window it covers.
LEMMA StaleIsOutside ==
    ASSUME now \in Nat, NEW days \in Nat, days <= RetentionDays, NEW t \in Nat, Stale(t)
    PROVE  ~Within(t, days)
<1> DEFINE short == days * HoursPerDay
           long == RetentionDays * HoursPerDay
<1>1. short \in Nat /\ long \in Nat /\ short <= long
  BY ProductMonotone, MonitoringAssumption
<1>2. ~(t + long >= now)
  BY DEF Stale, Within
<1> HIDE DEF short, long
<1>3. ~(t + short >= now)
  BY <1>1, <1>2
<1> QED BY <1>3 DEF Within, short

\* What the reports are made of.
SameWindows == /\ \A days \in {1, WeekDays} : RowsWithin(days)' = RowsWithin(days)
               /\ AppUsage' = AppUsage

LEMMA SameReports ==
    ASSUME SameWindows
    PROVE  UsageReports' = UsageReports
<1>1. NetworkSummary' = NetworkSummary
  BY DEF SameWindows, NetworkSummary
<1>2. \A day : Bucket(day)' = Bucket(day)
  BY DEF SameWindows, Bucket
<1>3. WeeklySummary' = WeeklySummary
  BY <1>2 DEF WeeklySummary
<1> QED BY <1>1, <1>3 DEF SameWindows, UsageReports

LEMMA UntouchedWindows ==
    ASSUME UNCHANGED <<network, apps, now>>
    PROVE  SameWindows
BY DEF SameWindows, RowsWithin, AppUsage, Within

LEMMA PrunedWindows ==
    ASSUME MonitoringTypes, PruneTables, now' = now, RetentionDays >= WeekDays
    PROVE  SameWindows
<1>0. /\ now \in Nat /\ network \in SUBSET Rows /\ apps \in SUBSET (0..now)
      /\ RetentionDays \in Nat /\ WeekDays \in Nat /\ 1 <= WeekDays
  BY TypesUnfolded, MonitoringAssumption
<1>1. PICK n \in Batch({r \in network : Stale(r.at)}),
           a \in Batch({t \in apps : Stale(t)}), u \in Batch({t \in usb : Stale(t)}),
           c \in Batch({t \in commands : Stale(t)}) :
         network' = network \ n /\ apps' = apps \ a
  BY DEF PruneTables
<1>2. n \subseteq {r \in network : Stale(r.at)} /\ a \subseteq {t \in apps : Stale(t)}
  BY DEF Batch
<1>3. \A t, days : Within(t, days)' <=> Within(t, days)
  BY DEF Within
<1>4. \A r \in network : r.at \in Nat
  <2>1. \A r \in Rows : r.at \in Nat
    BY MonitoringAssumption DEF Rows, Hours
  <2> QED BY <1>0, <2>1
<1>5. ASSUME NEW days \in {1, WeekDays} PROVE RowsWithin(days)' = RowsWithin(days)
  <2>1. days \in Nat /\ days <= RetentionDays
    BY <1>0
  <2>2. \A r \in n : ~Within(r.at, days)
    BY <1>0, <1>2, <1>4, <2>1, StaleIsOutside
  <2> QED BY <1>1, <1>3, <1>4, <2>2 DEF RowsWithin
<1>6. AppUsage' = AppUsage
  <2>1. 1 \in Nat /\ 1 <= RetentionDays
    BY <1>0
  <2>2. \A t \in apps : t \in Nat
    BY <1>0
  <2>3. ASSUME NEW t \in a PROVE ~Within(t, 1)
    <3>1. t \in Nat /\ Stale(t)
      BY <1>2, <2>2
    <3> QED BY <1>0, <2>1, <3>1, StaleIsOutside
  <2> QED BY <1>1, <1>3, <2>2, <2>3 DEF AppUsage
<1> QED BY <1>5, <1>6 DEF SameWindows

LEMMA RetentionStep ==
    ASSUME MonitoringTypes, MonitoringNext \/ UNCHANGED vars,
           link' = link, now' = now, RetentionDays >= WeekDays
    PROVE  UsageReports' = UsageReports
<1>0. LinkTyped
  BY TypesParted
<1>a. SUFFICES SameWindows
  BY SameReports
<1>b. UNCHANGED tables => SameWindows
  BY UntouchedWindows DEF tables
<1>1. ASSUME NEW sent \in 0..MaxTraffic - traffic, SampleNetwork(sent) PROVE SameWindows
  BY <1>b, <1>1 DEF SampleNetwork
<1>2. ASSUME NEW start \in Starts \cap (0..now), CollectApps(start) PROVE SameWindows
  BY <1>b, <1>2 DEF CollectApps
<1>3. ASSUME NEW plugged \in SUBSET Drives, PollUsb(plugged) PROVE SameWindows
  BY <1>b, <1>3 DEF PollUsb
<1>4. CASE Handle
  <2>1. wire' # wire \/ late' # late
    BY <1>0, <1>4, ReadTakes DEF Handle
  <2> QED BY <2>1 DEF link
<1>5. CASE PruneBatch
  BY <1>5, PrunedWindows DEF PruneBatch
<1>6. CASE Connect \/ Disconnect \/ Restart \/ PersistFails \/ PruneStart \/ PruneFails \/ Tick
  BY <1>b, <1>6 DEF Connect, Disconnect, Restart, PersistFails, PruneStart, PruneFails, Tick
<1>7. CASE LogCommand
  BY <1>7, UntouchedWindows DEF LogCommand
<1>8. CASE UNCHANGED vars
  BY <1>b, <1>8 DEF vars
<1> QED BY <1>1, <1>2, <1>3, <1>4, <1>5, <1>6, <1>7, <1>8 DEF MonitoringNext

\* The lists of events and of commands lose what is old.
LEMMA ListsStep ==
    ASSUME MonitoringTypes, MonitoringNext \/ UNCHANGED vars
    PROVE  \A t \in (usb \ usb') \cup (commands \ commands') : Stale(t)
<1>a. SUFFICES \/ usb \subseteq usb' /\ commands \subseteq commands'
               \/ \A t \in (usb \ usb') \cup (commands \ commands') : Stale(t)
  OBVIOUS
<1>1. ASSUME NEW sent \in 0..MaxTraffic - traffic, SampleNetwork(sent)
      PROVE  usb' = usb /\ commands' = commands
  BY <1>1 DEF SampleNetwork, tables
<1>2. ASSUME NEW start \in Starts \cap (0..now), CollectApps(start)
      PROVE  usb' = usb /\ commands' = commands
  BY <1>2 DEF CollectApps, tables
<1>3. ASSUME NEW plugged \in SUBSET Drives, PollUsb(plugged)
      PROVE  usb' = usb /\ commands' = commands
  BY <1>3 DEF PollUsb, tables
<1>4. CASE Handle
  <2>1. Stored(Handled) /\ Handled \in Sendable(now)
    BY <1>4, TypesParted, TypesUnfolded, ReadTakes DEF Handle
  <2> QED BY <2>1, StoredAs
<1>5. CASE PruneBatch
  <2>1. PICK n \in Batch({r \in network : Stale(r.at)}),
             a \in Batch({t \in apps : Stale(t)}), u \in Batch({t \in usb : Stale(t)}),
             c \in Batch({t \in commands : Stale(t)}) :
           usb' = usb \ u /\ commands' = commands \ c
    BY <1>5 DEF PruneBatch, PruneTables
  <2>2. u \subseteq {t \in usb : Stale(t)} /\ c \subseteq {t \in commands : Stale(t)}
    BY DEF Batch
  <2> QED BY <2>1, <2>2
<1>6. CASE Connect \/ Disconnect \/ Restart \/ PersistFails \/ PruneStart \/ PruneFails \/ Tick
  BY <1>6 DEF Connect, Disconnect, Restart, PersistFails, PruneStart, PruneFails, Tick, tables
<1>7. CASE LogCommand
  BY <1>7 DEF LogCommand
<1>8. CASE UNCHANGED vars
  BY <1>8 DEF vars, tables
<1> QED BY <1>1, <1>2, <1>3, <1>4, <1>5, <1>6, <1>7, <1>8 DEF MonitoringNext

(***************************************************************************)
(* While the clock stands and no sample arrives, a sweep changes no usage  *)
(* report wherever it is, provided that RETENTION_DAYS is not less than    *)
(* the weekly report's days: what prune_batch deletes lies outside every   *)
(* window these queries read.  The lists of USB events and of commands     *)
(* have no window: they lose rows, but only those older than               *)
(* RETENTION_DAYS (engine/database.py).                                    *)
(***************************************************************************)
THEOREM RetentionTakesOnlyOldAlways == MonitoringSpec => RetentionTakesOnlyOld
<1>1. MonitoringTypes /\ [MonitoringNext]_vars
         => [pruner = "sweep" /\ link' = link /\ now' = now =>
                /\ RetentionDays >= WeekDays => UsageReports' = UsageReports
                /\ \A t \in (usb \ usb') \cup (commands \ commands') : Stale(t)]_vars
  BY RetentionStep, ListsStep
<1> QED BY <1>1, TypesInit, TypesStep, PTL DEF MonitoringSpec, RetentionTakesOnlyOld

-----------------------------------------------------------------------------
\* Sums over rows.

\* Induction over the numbers, for a set of them.
LEMMA EveryNumber ==
    ASSUME NEW P, 0 \in P, \A n \in Nat : n \in P => n + 1 \in P
    PROVE  Nat \subseteq P
<1> DEFINE R == OpToRel(<, Nat)
           U == Nat \ P
<1> SUFFICES ASSUME U # {} PROVE FALSE
  OBVIOUS
<1>1. IsWellFoundedOn(R, Nat)
  BY NatLessThanWellFounded
<1>2. \A i, j \in Nat : i < j => <<i, j>> \in R
  BY DEF OpToRel
<1> HIDE DEF R
<1>3. PICK m \in U : \A j \in U : ~(<<j, m>> \in R)
  BY <1>1, WFMin
<1>4. m \in Nat /\ m # 0
  BY <1>3
<1>5. m - 1 \in Nat /\ m - 1 < m /\ (m - 1) + 1 = m
  BY <1>4
<1>6. m - 1 \notin U
  BY <1>2, <1>3, <1>4, <1>5
<1> QED BY <1>3, <1>5, <1>6

Pick(s) == CHOOSE x \in s : TRUE

\* What MapThenSumSet unfolds to: one element after the other.
Summed(rows) ==
    CHOOSE sum : sum = [s \in SUBSET rows |->
        IF s = {} THEN 0 ELSE Delta(Pick(s), rows) + sum[s \ {Pick(s)}]]

LEMMA SumIs ==
    ASSUME NEW rows
    PROVE  DeltaSum(rows) = Summed(rows)[rows]
BY DEF DeltaSum, MapThenSumSet, MapThenFoldSet, Summed, Pick

Small(rows, k) == {s \in SUBSET rows : Cardinality(s) <= k}

LEMMA SmallOnes ==
    ASSUME NEW rows, IsFiniteSet(rows), NEW s \in SUBSET rows
    PROVE  /\ IsFiniteSet(s) /\ Cardinality(s) \in Nat /\ Cardinality(s) <= Cardinality(rows)
           /\ Cardinality(s) <= 0 <=> s = {}
           /\ \A x \in s : /\ s \ {x} \in SUBSET rows
                           /\ Cardinality(s \ {x}) = Cardinality(s) - 1
                           /\ Cardinality(s) > 0
           /\ s # {} => Pick(s) \in s
<1>1. IsFiniteSet(s) /\ Cardinality(s) <= Cardinality(rows)
  BY FS_Subset
<1>2. Cardinality(s) \in Nat
  BY <1>1, FS_CardinalityType
<1>3. Cardinality(s) = 0 <=> s = {}
  BY <1>1, FS_EmptySet
<1>4. \A x \in s : Cardinality(s \ {x}) = Cardinality(s) - 1
  BY <1>1, FS_RemoveElement
<1>5. s # {} => Pick(s) \in s
  BY DEF Pick
<1> QED BY <1>1, <1>2, <1>3, <1>4, <1>5

LEMMA SumExists ==
    ASSUME NEW rows, IsFiniteSet(rows)
    PROVE  \E sum : sum = [s \in SUBSET rows |->
              IF s = {} THEN 0 ELSE Delta(Pick(s), rows) + sum[s \ {Pick(s)}]]
<1> DEFINE Sums(f, k) == f = [s \in Small(rows, k) |->
              IF s = {} THEN 0 ELSE Delta(Pick(s), rows) + f[s \ {Pick(s)}]]
           P == {k \in Nat : \E f : Sums(f, k)}
<1>1. 0 \in P
  <2> DEFINE f == [s \in Small(rows, 0) |-> 0]
  <2>1. \A s \in Small(rows, 0) : s = {}
    BY SmallOnes DEF Small
  <2>2. f = [s \in Small(rows, 0) |->
              IF s = {} THEN 0 ELSE Delta(Pick(s), rows) + f[s \ {Pick(s)}]]
    BY <2>1
  <2>3. Sums(f, 0)
    BY <2>2
  <2> HIDE DEF f, Sums
  <2> QED BY <2>3
<1>2. ASSUME NEW k \in Nat, k \in P PROVE k + 1 \in P
  <2>1. PICK f : Sums(f, k)
    BY <1>2
  <2> DEFINE g == [s \in Small(rows, k + 1) |->
                      IF s = {} THEN 0 ELSE Delta(Pick(s), rows) + f[s \ {Pick(s)}]]
  <2>2. \A s \in Small(rows, k) : s \in Small(rows, k + 1) /\ g[s] = f[s]
    <3>1. \A s \in Small(rows, k) : s \in Small(rows, k + 1)
      BY SmallOnes DEF Small
    <3>2. \A s \in Small(rows, k) :
             f[s] = IF s = {} THEN 0 ELSE Delta(Pick(s), rows) + f[s \ {Pick(s)}]
      BY <2>1
    <3> QED BY <3>1, <3>2
  <2>3. \A s \in Small(rows, k + 1) : s # {} => s \ {Pick(s)} \in Small(rows, k)
    <3> SUFFICES ASSUME NEW s \in Small(rows, k + 1), s # {}
                 PROVE  s \ {Pick(s)} \in Small(rows, k)
      OBVIOUS
    <3>1. s \in SUBSET rows /\ Cardinality(s) <= k + 1
      BY DEF Small
    <3>2. /\ Cardinality(s) \in Nat /\ Pick(s) \in s /\ s \ {Pick(s)} \in SUBSET rows
          /\ Cardinality(s \ {Pick(s)}) = Cardinality(s) - 1
      BY <3>1, SmallOnes
    <3>3. Cardinality(s \ {Pick(s)}) <= k
      BY <3>1, <3>2
    <3> QED BY <3>2, <3>3 DEF Small
  <2>4. \A s \in Small(rows, k + 1) : s # {} => f[s \ {Pick(s)}] = g[s \ {Pick(s)}]
    BY <2>2, <2>3
  <2>5. g = [s \in Small(rows, k + 1) |->
               IF s = {} THEN 0 ELSE Delta(Pick(s), rows) + g[s \ {Pick(s)}]]
    BY <2>4
  <2>6. Sums(g, k + 1)
    BY <2>5
  <2> HIDE DEF g, Sums
  <2> QED BY <2>6
<1> HIDE DEF P
<1>3. Nat \subseteq P
  BY <1>1, <1>2, EveryNumber
<1>4. Cardinality(rows) \in Nat
  BY FS_CardinalityType
<1>5. PICK f : Sums(f, Cardinality(rows))
  BY <1>3, <1>4 DEF P
<1>6. Small(rows, Cardinality(rows)) = SUBSET rows
  BY SmallOnes DEF Small
<1> QED BY <1>5, <1>6

LEMMA SumUnfolds ==
    ASSUME NEW rows, IsFiniteSet(rows)
    PROVE  /\ Summed(rows)[{}] = 0
           /\ \A s \in SUBSET rows : s # {} =>
                 Summed(rows)[s] = Delta(Pick(s), rows) + Summed(rows)[s \ {Pick(s)}]
<1> DEFINE F == Summed(rows)
<1>1. F = [s \in SUBSET rows |->
             IF s = {} THEN 0 ELSE Delta(Pick(s), rows) + F[s \ {Pick(s)}]]
  BY SumExists DEF Summed
<1> HIDE DEF F
<1>2. F[{}] = 0
  BY <1>1
<1>3. \A s \in SUBSET rows : s # {} => F[s] = Delta(Pick(s), rows) + F[s \ {Pick(s)}]
  BY <1>1
<1> QED BY <1>2, <1>3 DEF F

LEMMA SumTyped ==
    ASSUME NEW rows, IsFiniteSet(rows), \A r \in rows : Delta(r, rows) \in Int
    PROVE  \A s \in SUBSET rows : Summed(rows)[s] \in Int
<1> DEFINE F == Summed(rows)
           P == {k \in Nat : \A s \in Small(rows, k) : F[s] \in Int}
<1>0. /\ F[{}] = 0
      /\ \A s \in SUBSET rows : s # {} => F[s] = Delta(Pick(s), rows) + F[s \ {Pick(s)}]
  BY SumUnfolds
<1> HIDE DEF F
<1>1. 0 \in P
  <2>1. \A s \in Small(rows, 0) : s = {}
    BY SmallOnes DEF Small
  <2>2. F[{}] \in Int
    BY <1>0
  <2>3. \A s \in Small(rows, 0) : F[s] \in Int
    BY <2>1, <2>2
  <2> QED BY <2>3
<1>2. ASSUME NEW k \in Nat, k \in P PROVE k + 1 \in P
  <2> SUFFICES ASSUME NEW s \in Small(rows, k + 1) PROVE F[s] \in Int
    OBVIOUS
  <2>a. CASE s = {}
    BY <1>0, <2>a
  <2>b. SUFFICES ASSUME s # {} PROVE F[s] \in Int
    BY <2>a
  <2>1. s \in SUBSET rows /\ Cardinality(s) <= k + 1
    BY DEF Small
  <2>2. /\ Cardinality(s) \in Nat /\ Pick(s) \in s /\ s \ {Pick(s)} \in SUBSET rows
        /\ Cardinality(s \ {Pick(s)}) = Cardinality(s) - 1
    BY <2>1, <2>b, SmallOnes
  <2>3. s \ {Pick(s)} \in Small(rows, k)
    BY <2>1, <2>2 DEF Small
  <2>4. F[s \ {Pick(s)}] \in Int
    BY <1>2, <2>3
  <2>5. Delta(Pick(s), rows) \in Int
    BY <2>1, <2>2
  <2>6. F[s] = Delta(Pick(s), rows) + F[s \ {Pick(s)}]
    BY <1>0, <2>1, <2>b
  <2> QED BY <2>4, <2>5, <2>6
<1> HIDE DEF P
<1>3. Nat \subseteq P
  BY <1>1, <1>2, EveryNumber
<1>4. SUFFICES ASSUME NEW s \in SUBSET rows PROVE F[s] \in Int
  BY DEF F
<1>5. Cardinality(s) \in Nat /\ s \in Small(rows, Cardinality(s))
  BY SmallOnes DEF Small
<1> QED BY <1>3, <1>5 DEF P

\* Whichever element is taken first.
LEMMA SumAdds ==
    ASSUME NEW rows, IsFiniteSet(rows), \A r \in rows : Delta(r, rows) \in Int,
           NEW set \in SUBSET rows, NEW row \in set
    PROVE  Summed(rows)[set] = Delta(row, rows) + Summed(rows)[set \ {row}]
<1> DEFINE F == Summed(rows)
           P == {k \in Nat : \A s \in Small(rows, k) : \A x \in s :
                    F[s] = Delta(x, rows) + F[s \ {x}]}
<1>0. /\ F[{}] = 0
      /\ \A s \in SUBSET rows : s # {} => F[s] = Delta(Pick(s), rows) + F[s \ {Pick(s)}]
      /\ \A s \in SUBSET rows : F[s] \in Int
  BY SumUnfolds, SumTyped
<1> HIDE DEF F
<1>1. 0 \in P
  <2>1. \A s \in Small(rows, 0) : s = {}
    BY SmallOnes DEF Small
  <2> QED BY <2>1
<1>2. ASSUME NEW k \in Nat, k \in P PROVE k + 1 \in P
  <2> SUFFICES ASSUME NEW s \in Small(rows, k + 1), NEW x \in s
               PROVE  F[s] = Delta(x, rows) + F[s \ {x}]
    OBVIOUS
  <2> DEFINE c == Pick(s)
  <2>1. s \in SUBSET rows /\ Cardinality(s) <= k + 1
    BY DEF Small
  <2>2. /\ Cardinality(s) \in Nat /\ c \in s
        /\ \A y \in s : s \ {y} \in SUBSET rows /\ Cardinality(s \ {y}) = Cardinality(s) - 1
    BY <2>1, SmallOnes
  <2> HIDE DEF c
  <2>3. \A y \in s : s \ {y} \in Small(rows, k)
    BY <2>1, <2>2 DEF Small
  <2>4. F[s] = Delta(c, rows) + F[s \ {c}]
    BY <1>0, <2>1 DEF c
  <2>5. CASE x # c
    <3>1. F[s \ {c}] = Delta(x, rows) + F[(s \ {c}) \ {x}]
      BY <1>2, <2>2, <2>3, <2>5
    <3>2. F[s \ {x}] = Delta(c, rows) + F[(s \ {x}) \ {c}]
      BY <1>2, <2>2, <2>3, <2>5
    <3>3. (s \ {x}) \ {c} = (s \ {c}) \ {x} /\ (s \ {c}) \ {x} \in SUBSET rows
      BY <2>1
    <3>4. Delta(x, rows) \in Int /\ Delta(c, rows) \in Int /\ F[(s \ {c}) \ {x}] \in Int
      BY <1>0, <2>1, <2>2, <3>3
    <3>5. \A a, b, n \in Int : a + (b + n) = b + (a + n)
      OBVIOUS
    <3>6. F[s] = Delta(c, rows) + (Delta(x, rows) + F[(s \ {c}) \ {x}])
      BY <2>4, <3>1
    <3>7. F[s \ {x}] = Delta(c, rows) + F[(s \ {c}) \ {x}]
      BY <3>2, <3>3
    <3>8. F[s] = Delta(x, rows) + (Delta(c, rows) + F[(s \ {c}) \ {x}])
      BY <3>4, <3>5, <3>6
    <3> QED BY <3>7, <3>8
  <2> QED BY <2>4, <2>5
<1> HIDE DEF P
<1>3. Nat \subseteq P
  BY <1>1, <1>2, EveryNumber
<1>4. Cardinality(set) \in Nat /\ set \in Small(rows, Cardinality(set))
  BY SmallOnes DEF Small
<1>5. F[set] = Delta(row, rows) + F[set \ {row}]
  BY <1>3, <1>4 DEF P
<1> QED BY <1>5 DEF F
-----------------------------------------------------------------------------
\* What consecutive samples differ by.

LEMMA MaxIs ==
    ASSUME NEW S \in SUBSET Int, NEW g \in S, \A s \in S : s <= g
    PROVE  Max(S) = g
<1>1. \A s \in S : g >= s
  OBVIOUS
<1>2. Max(S) \in S /\ \A s \in S : Max(S) >= s
  BY <1>1 DEF Max
<1>3. Max(S) \in Int /\ g \in Int /\ Max(S) >= g /\ Max(S) <= g
  BY <1>2
<1> QED BY <1>3

\* Counters of one run of the machine fall short of what was sent by the same;
\* a counter of a later run counts only what was sent since.
Fits(x, y) ==
    /\ x.boot = y.boot => x.total - x.bytes = y.total - y.bytes
    /\ x.boot < y.boot => x.total <= y.total - y.bytes

\* Rows of a table, in order, whose counters fit.
Consistent(rows) ==
    /\ rows \in SUBSET Rows /\ IsFiniteSet(rows)
    /\ \A r, s \in rows : r.id = s.id => r = s
    /\ \A r, s \in rows : r.id < s.id => r.at <= s.at
    /\ \A r, s \in rows : Fits(r, s)
    /\ InOrder(rows)

LEMMA RowsUnfolded ==
    ASSUME NEW rows, Consistent(rows)
    PROVE  /\ \A r \in rows : r.id \in Nat /\ r.bytes \in Nat /\ r.total \in Nat /\ r.boot \in Nat
           /\ \A r, s \in rows : r.id = s.id => r = s
           /\ \A r, s \in rows : r.id < s.id => r.total <= s.total /\ r.boot <= s.boot
BY DEF Consistent, Rows, InOrder

\* While no row is stored before an earlier time than one already there, the
\* rows are read in the order they were stored.
LEMMA EarlierById ==
    ASSUME NEW rows, Consistent(rows), NEW r \in rows, NEW s \in rows
    PROVE  Earlier(s, r) <=> s.id < r.id
<1>1. /\ r.id \in Int /\ s.id \in Int /\ r.at \in Int /\ s.at \in Int
      /\ r.id < s.id => r.at <= s.at
      /\ s.id < r.id => s.at <= r.at
      /\ r.id = s.id => r = s
  BY MonitoringAssumption DEF Consistent, Rows, Hours
<1> QED BY <1>1 DEF Earlier

\* The first sample tells of no usage.
LEMMA DeltaFirst ==
    ASSUME NEW rows, Consistent(rows), NEW r \in rows, \A s \in rows : r.id <= s.id
    PROVE  Delta(r, rows) = 0
<1> DEFINE S == {0} \cup {r.bytes - s.bytes : s \in Previous(r, rows)}
<1>0. \A s \in rows : s.id \in Nat
  BY RowsUnfolded
<1>1. \A s \in rows : ~(s.id < r.id)
  BY <1>0
<1>2. Previous(r, rows) = {}
  BY <1>1, EarlierById DEF Previous
<1>3. S = {0}
  BY <1>2
<1>4. Max(S) = 0
  <2> HIDE DEF S
  <2>1. S \in SUBSET Int /\ 0 \in S /\ \A x \in S : x <= 0
    BY <1>3
  <2> QED BY <2>1, MaxIs
<1> QED BY <1>4 DEF Delta

\* Of two samples in a row the second tells of the difference, or of nothing.
LEMMA DeltaNext ==
    ASSUME NEW rows, Consistent(rows), NEW p \in rows, NEW r \in rows, p.id < r.id,
           \A s \in rows : s.id < r.id => s.id <= p.id
    PROVE  Delta(r, rows) = IF r.bytes >= p.bytes THEN r.bytes - p.bytes ELSE 0
<1> DEFINE S == {0} \cup {r.bytes - s.bytes : s \in Previous(r, rows)}
           d == IF r.bytes >= p.bytes THEN r.bytes - p.bytes ELSE 0
<1>0. \A s \in rows : s.id \in Nat /\ s.bytes \in Nat
  BY RowsUnfolded
<1>1. p \in Previous(r, rows)
  <2>1. Earlier(p, r)
    BY EarlierById
  <2>2. ASSUME NEW q \in rows, Earlier(q, r) PROVE ~Earlier(p, q)
    <3>1. q.id < r.id
      BY <2>2, EarlierById
    <3>2. q.id <= p.id
      BY <3>1
    <3>3. ~(p.id < q.id)
      BY <1>0, <3>2
    <3> QED BY <3>3, EarlierById
  <2> QED BY <2>1, <2>2 DEF Previous
<1>2. ASSUME NEW s \in Previous(r, rows) PROVE s = p
  <2>1. s \in rows /\ Earlier(s, r) /\ \A q \in rows : Earlier(q, r) => ~Earlier(s, q)
    BY DEF Previous
  <2>2. s.id < r.id /\ s.id <= p.id
    BY <2>1, EarlierById
  <2>3. ~Earlier(s, p)
    BY <2>1, EarlierById
  <2>4. ~(s.id < p.id)
    BY <2>1, <2>3, EarlierById
  <2>5. s.id = p.id
    BY <1>0, <2>1, <2>2, <2>4
  <2> QED BY <2>1, <2>5, RowsUnfolded
<1>5. Previous(r, rows) = {p}
  BY <1>1, <1>2
<1>6. S = {0, r.bytes - p.bytes}
  BY <1>5
<1>7. S \in SUBSET Int /\ d \in S /\ \A x \in S : x <= d
  <2>1. p.bytes \in Int /\ r.bytes \in Int
    BY <1>0
  <2> HIDE DEF S
  <2>2. r.bytes - p.bytes \in Int /\ d \in {0, r.bytes - p.bytes} /\ 0 <= d /\ r.bytes - p.bytes <= d
    BY <2>1
  <2> HIDE DEF d
  <2> QED BY <1>6, <2>2
<1>8. Max(S) = d
  <2> HIDE DEF S, d
  <2> QED BY <1>7, MaxIs
<1> QED BY <1>8 DEF Delta

\* That is what was sent in between, or less if the machine was started there.
LEMMA DeltaFaithful ==
    ASSUME NEW rows, Consistent(rows), NEW p \in rows, NEW r \in rows, p.id < r.id,
           \A s \in rows : s.id < r.id => s.id <= p.id
    PROVE  /\ Delta(r, rows) \in Int
           /\ Delta(r, rows) <= r.total - p.total
           /\ p.boot = r.boot => Delta(r, rows) = r.total - p.total
<1>1. Delta(r, rows) = IF r.bytes >= p.bytes THEN r.bytes - p.bytes ELSE 0
  BY DeltaNext
<1>2. /\ p.bytes \in Nat /\ p.total \in Nat /\ p.boot \in Nat
      /\ r.bytes \in Nat /\ r.total \in Nat /\ r.boot \in Nat
      /\ p.total <= r.total /\ p.boot <= r.boot
  BY RowsUnfolded
<1>3. Fits(p, r)
  BY DEF Consistent
<1>4. CASE p.boot = r.boot
  BY <1>1, <1>2, <1>3, <1>4 DEF Fits
<1>5. CASE p.boot < r.boot
  BY <1>1, <1>2, <1>3, <1>5 DEF Fits
<1> QED BY <1>2, <1>4, <1>5

\* The last of the rows before a given id.
LEMMA LastBefore ==
    ASSUME NEW rows, Consistent(rows), NEW n \in Nat, NEW t \in rows, t.id < n
    PROVE  \E p \in rows : p.id < n /\ \A s \in rows : s.id < n => s.id <= p.id
<1> DEFINE S == {s.id : s \in {q \in rows : q.id < n}}
<1>1. S \in SUBSET Nat /\ S # {} /\ \A x \in S : x <= n
  BY RowsUnfolded
<1>2. Max(S) \in S /\ \A x \in S : x <= Max(S)
  <2> HIDE DEF S
  <2> QED BY <1>1, MaxIsGreatest
<1>3. PICK p \in rows : p.id < n /\ p.id = Max(S)
  BY <1>2
<1>4. \A s \in rows : s.id < n => s.id \in S
  OBVIOUS
<1> QED BY <1>2, <1>3, <1>4

LEMMA FirstExists ==
    ASSUME NEW rows, Consistent(rows), rows # {}
    PROVE  \E r \in rows : \A s \in rows : r.id <= s.id
<1> SUFFICES ASSUME \A r \in rows : \E s \in rows : ~(r.id <= s.id) PROVE FALSE
  OBVIOUS
<1> DEFINE P == {n \in Nat : \A r \in rows : r.id >= n}
<1>0. \A r \in rows : r.id \in Nat
  BY RowsUnfolded
<1>1. 0 \in P
  BY <1>0
<1>2. ASSUME NEW n \in Nat, n \in P PROVE n + 1 \in P
  <2>1. \A r \in rows : r.id # n
    BY <1>0, <1>2
  <2> QED BY <1>0, <1>2, <2>1
<1> HIDE DEF P
<1>3. Nat \subseteq P
  BY <1>1, <1>2, EveryNumber
<1>4. PICK r \in rows : TRUE
  OBVIOUS
<1>5. r.id + 1 \in P /\ r.id \in Nat
  BY <1>0, <1>3, <1>4
<1> QED BY <1>5 DEF P

LEMMA DeltaTyped ==
    ASSUME NEW rows, Consistent(rows), NEW r \in rows
    PROVE  Delta(r, rows) \in Int
<1>1. CASE \A s \in rows : r.id <= s.id
  BY <1>1, DeltaFirst
<1>2. CASE \E s \in rows : ~(r.id <= s.id)
  <2>1. PICK s \in rows : s.id < r.id
    BY <1>2, RowsUnfolded
  <2>2. r.id \in Nat
    BY RowsUnfolded
  <2>3. PICK p \in rows : p.id < r.id /\ \A q \in rows : q.id < r.id => q.id <= p.id
    BY <2>1, <2>2, LastBefore
  <2> QED BY <2>3, DeltaFaithful
<1> QED BY <1>1, <1>2

-----------------------------------------------------------------------------
\* The differences add up.

Older(rows, n) == {r \in rows : r.id < n}

\* What sum tells of the samples from the first to m.
Spans(sum, first, m) ==
    /\ sum \in Int /\ sum <= m.total - first.total
    /\ m.boot = first.boot => sum = m.total - first.total

LEMMA OlderSpans ==
    ASSUME NEW rows, Consistent(rows), NEW first \in rows, \A s \in rows : first.id <= s.id,
           NEW n \in Nat
    PROVE  \/ Older(rows, n) = {}
           \/ \E m \in Older(rows, n) :
                 /\ \A s \in Older(rows, n) : s.id <= m.id
                 /\ Spans(Summed(rows)[Older(rows, n)], first, m)
<1> DEFINE F == Summed(rows)
           Latest(k, m) == \A s \in Older(rows, k) : s.id <= m.id
           Q(k) == \/ Older(rows, k) = {}
                   \/ \E m \in Older(rows, k) : Latest(k, m) /\ Spans(F[Older(rows, k)], first, m)
           P == {k \in Nat : Q(k)}
<1>a. /\ \A r \in rows : r.id \in Nat /\ r.bytes \in Nat /\ r.total \in Nat /\ r.boot \in Nat
      /\ \A r, s \in rows : r.id = s.id => r = s
      /\ \A r, s \in rows : r.id < s.id => r.total <= s.total /\ r.boot <= s.boot
  BY RowsUnfolded
<1>b. IsFiniteSet(rows)
  BY DEF Consistent
<1>c. \A r \in rows : Delta(r, rows) \in Int
  BY DeltaTyped
<1>d. F[{}] = 0
  BY <1>b, SumUnfolds
<1>e. \A s \in SUBSET rows : \A x \in s : F[s] = Delta(x, rows) + F[s \ {x}]
  BY <1>b, <1>c, SumAdds
<1> HIDE DEF F
<1>1. 0 \in P
  BY <1>a DEF Older
<1>2. ASSUME NEW k \in Nat, k \in P PROVE k + 1 \in P
  <2>0. Q(k)
    BY <1>2
  <2>1. CASE \A r \in rows : r.id # k
    <3>1. Older(rows, k + 1) = Older(rows, k)
      BY <1>a, <2>1 DEF Older
    <3> HIDE DEF F
    <3> QED BY <2>0, <3>1
  <2>2. CASE \E r \in rows : r.id = k
    <3>1. PICK r \in rows : r.id = k
      BY <2>2
    <3>2. Older(rows, k + 1) = Older(rows, k) \cup {r} /\ r \notin Older(rows, k)
      BY <1>a, <3>1 DEF Older
    <3>3. r \in Older(rows, k + 1) /\ Latest(k + 1, r)
      BY <1>a, <3>1, <3>2 DEF Older
    <3>4. F[Older(rows, k + 1)] = Delta(r, rows) + F[Older(rows, k)]
      <4>1. Older(rows, k + 1) \in SUBSET rows /\ Older(rows, k + 1) \ {r} = Older(rows, k)
        BY <3>2 DEF Older
      <4> QED BY <1>e, <3>3, <4>1
    <3>5. Spans(F[Older(rows, k + 1)], first, r)
      <4>1. CASE Older(rows, k) = {}
        <5>1. \A s \in rows : r.id <= s.id
          BY <1>a, <3>1, <4>1 DEF Older
        <5>2. r = first
          BY <1>a, <5>1
        <5>3. Delta(r, rows) = 0
          BY <5>1, DeltaFirst
        <5>4. F[Older(rows, k + 1)] = 0
          BY <1>d, <3>4, <4>1, <5>3
        <5> QED BY <1>a, <5>2, <5>4 DEF Spans
      <4>2. CASE \E m \in Older(rows, k) : Latest(k, m) /\ Spans(F[Older(rows, k)], first, m)
        <5>1. PICK m \in Older(rows, k) : Latest(k, m) /\ Spans(F[Older(rows, k)], first, m)
          BY <4>2
        <5>2. m \in rows /\ m.id < r.id /\ \A s \in rows : s.id < r.id => s.id <= m.id
          BY <3>1, <5>1 DEF Older
        <5>3. /\ Delta(r, rows) \in Int
              /\ Delta(r, rows) <= r.total - m.total
              /\ m.boot = r.boot => Delta(r, rows) = r.total - m.total
          BY <5>2, DeltaFaithful
        <5>4. /\ first.id <= m.id /\ first.boot <= m.boot /\ m.boot <= r.boot
              /\ r.total \in Nat /\ m.total \in Nat /\ first.total \in Nat
              /\ r.boot \in Nat /\ m.boot \in Nat /\ first.boot \in Nat
          BY <1>a, <5>2
        <5> HIDE DEF Latest
        <5>5. F[Older(rows, k)] \in Int /\ F[Older(rows, k)] <= m.total - first.total
              /\ (m.boot = first.boot => F[Older(rows, k)] = m.total - first.total)
          BY <5>1 DEF Spans
        <5> QED BY <3>4, <5>3, <5>4, <5>5 DEF Spans
      <4> QED BY <2>0, <4>1, <4>2
    <3> HIDE DEF Latest
    <3> QED BY <3>3, <3>5
  <2> QED BY <2>1, <2>2
<1> HIDE DEF P
<1>3. Nat \subseteq P
  BY <1>1, <1>2, EveryNumber
<1> QED BY <1>3 DEF P, F

LEMMA Telescopes ==
    ASSUME NEW rows, Consistent(rows), NEW first \in rows, NEW last \in rows,
           \A s \in rows : first.id <= s.id /\ s.id <= last.id
    PROVE  Spans(DeltaSum(rows), first, last)
<1>1. last.id \in Nat /\ last.id + 1 \in Nat /\ \A r \in rows : r.id \in Nat
  BY RowsUnfolded
<1>2. Older(rows, last.id + 1) = rows
  BY <1>1 DEF Older
<1>3. PICK m \in rows : (\A s \in rows : s.id <= m.id) /\ Spans(Summed(rows)[rows], first, m)
  BY <1>1, <1>2, OlderSpans
<1>4. m = last
  <2>1. m.id <= last.id /\ last.id <= m.id
    BY <1>3
  <2> QED BY <1>1, <2>1, RowsUnfolded
<1> QED BY <1>3, <1>4, SumIs
-----------------------------------------------------------------------------
\* Every sample there is, in the table or on its way, fits every other and the
\* counter as it stands.

Triple(x) == [bytes |-> x.bytes, total |-> x.total, boot |-> x.boot]

Sent(q) == {Triple(q[i]) : i \in {j \in DOMAIN q : q[j] \in Samples}}

Taken == Sent(wire) \cup Sent(late) \cup {Triple(r) : r \in network}

Measured(x) ==
    /\ x.bytes <= x.total /\ x.total <= traffic /\ x.boot <= boots
    /\ x.boot = boots => x.total - x.bytes = traffic - counter
    /\ x.boot < boots => x.total <= traffic - counter

MeasureInv == /\ \A x \in Taken : Measured(x)
              /\ \A x, y \in Taken : Fits(x, y)

Triples == [bytes : Nat, total : Nat, boot : Nat]

LEMMA TakenTyped ==
    ASSUME MonitoringTypes
    PROVE  Taken \subseteq Triples
<1>1. \A x \in Samples : Triple(x) \in Triples
  BY DEF Samples, Triple, Triples
<1>2. \A x \in Rows : Triple(x) \in Triples
  BY DEF Rows, Triple, Triples
<1>3. network \in SUBSET Rows
  BY TypesUnfolded
<1>4. \A q : Sent(q) \subseteq Triples
  BY <1>1 DEF Sent
<1> QED BY <1>2, <1>3, <1>4 DEF Taken

LEMMA SentConcat ==
    ASSUME NEW X, NEW q \in Seq(X), NEW s \in Seq(X)
    PROVE  Sent(q \o s) \subseteq Sent(q) \cup Sent(s)
<1> DEFINE a == q \o s
           n == Len(q)
<1>1. /\ n \in Nat /\ Len(s) \in Nat /\ DOMAIN q = 1..n /\ DOMAIN s = 1..Len(s)
      /\ DOMAIN a = 1..(n + Len(s))
      /\ \A i \in 1..n : a[i] = q[i]
      /\ \A i \in 1..Len(s) : a[n + i] = s[i]
  BY Concatenated
<1> HIDE DEF a, n
<1>2. \A i \in DOMAIN a : \/ i \in DOMAIN q /\ a[i] = q[i]
                          \/ i - n \in DOMAIN s /\ a[i] = s[i - n]
  <2> SUFFICES ASSUME NEW i \in DOMAIN a, i \notin DOMAIN q
               PROVE  i - n \in DOMAIN s /\ a[i] = s[i - n]
    BY <1>1
  <2>1. i - n \in 1..Len(s) /\ n + (i - n) = i
    BY <1>1
  <2> QED BY <1>1, <2>1
<1>3. Sent(a) \subseteq Sent(q) \cup Sent(s)
  BY <1>2 DEF Sent
<1> QED BY <1>3 DEF a

LEMMA SentOne ==
    ASSUME NEW m
    PROVE  Sent(<<m>>) = IF m \in Samples THEN {Triple(m)} ELSE {}
BY DEF Sent

LEMMA SentTail ==
    ASSUME NEW X, NEW q \in Seq(X), q # <<>>
    PROVE  /\ Sent(Tail(q)) \subseteq Sent(q)
           /\ Head(q) \in Samples => Triple(Head(q)) \in Sent(q)
<1>1. \A i \in DOMAIN Tail(q) : i + 1 \in DOMAIN q /\ Tail(q)[i] = q[i + 1]
  OBVIOUS
<1>2. 1 \in DOMAIN q /\ Head(q) = q[1]
  OBVIOUS
<1> QED BY <1>1, <1>2 DEF Sent

LEMMA SentPrefix ==
    ASSUME NEW X, NEW q \in Seq(X), NEW n \in 0..Len(q)
    PROVE  Sent(SubSeq(q, 1, n)) \subseteq Sent(q)
<1>1. \A i \in DOMAIN SubSeq(q, 1, n) : i \in DOMAIN q /\ SubSeq(q, 1, n)[i] = q[i]
  OBVIOUS
<1> QED BY <1>1 DEF Sent

LEMMA MeasureInit == MonitoringInit => MeasureInv
BY DEF MonitoringInit, MeasureInv, Taken, Sent

\* Nothing new is sampled, and the machine goes on or starts anew.
LEMMA MeasureKept ==
    ASSUME MonitoringTypes, MeasureInv, Taken' \subseteq Taken,
           \/ UNCHANGED machine
           \/ counter' = 0 /\ boots' = boots + 1 /\ UNCHANGED traffic
    PROVE  MeasureInv'
<1>0. Taken \subseteq Triples /\ counter \in Nat /\ traffic \in Nat /\ boots \in Nat
  BY TakenTyped, TypesUnfolded, MonitoringAssumption
<1>1. \A x \in Taken' : Measured(x)'
  <2> SUFFICES ASSUME NEW x \in Taken, Measured(x) PROVE Measured(x)'
    BY DEF MeasureInv
  <2>1. x.bytes \in Nat /\ x.total \in Nat /\ x.boot \in Nat
    BY <1>0 DEF Triples
  <2>2. CASE UNCHANGED machine
    BY <2>2 DEF Measured, machine
  <2>3. CASE counter' = 0 /\ boots' = boots + 1 /\ UNCHANGED traffic
    BY <1>0, <2>1, <2>3 DEF Measured
  <2> QED BY <2>2, <2>3
<1>2. \A x, y \in Taken' : Fits(x, y)
  BY DEF MeasureInv
<1> QED BY <1>1, <1>2 DEF MeasureInv, Fits

\* A sample is taken of the counter as it stands.
LEMMA MeasureSampled ==
    ASSUME MonitoringTypes, MeasureInv, NEW sent \in 0..MaxTraffic - traffic, SampleNetwork(sent)
    PROVE  MeasureInv'
<1> DEFINE m == [says |-> "network", bytes |-> counter', total |-> traffic', boot |-> boots]
           t == Triple(m)
<1>0. /\ Taken \subseteq Triples /\ counter \in Nat /\ traffic \in Nat /\ boots \in Nat
      /\ counter <= traffic /\ wire \in Seq(Sendable(now)) /\ sent \in Nat
  BY TakenTyped, TypesUnfolded, MonitoringAssumption
<1>1. /\ traffic' = traffic + sent /\ counter' = counter + sent /\ boots' = boots
      /\ wire' = wire \o <<m>> /\ UNCHANGED <<late, network>>
  BY DEF SampleNetwork, Send, tables
<1>2. m \in Sendable(now)
  BY <1>0, <1>1 DEF Sendable, Samples
<1>3. Sent(wire') \subseteq Sent(wire) \cup {t}
  <2> HIDE DEF m
  <2>1. <<m>> \in Seq(Sendable(now))
    BY <1>2
  <2>2. Sent(wire \o <<m>>) \subseteq Sent(wire) \cup Sent(<<m>>)
    BY <1>0, <2>1, SentConcat
  <2>3. Sent(<<m>>) \subseteq {t}
    BY SentOne
  <2> QED BY <1>1, <2>2, <2>3
<1>4. Taken' \subseteq Taken \cup {t}
  <2> HIDE DEF t
  <2> QED BY <1>1, <1>3 DEF Taken
<1>5. t.bytes = counter + sent /\ t.total = traffic + sent /\ t.boot = boots
  BY <1>1 DEF Triple
<1> HIDE DEF t
<1>6. \A x : x.bytes = counter + sent /\ x.total = traffic + sent /\ x.boot = boots
               => Measured(x)'
  BY <1>0, <1>1 DEF Measured
<1>7. ASSUME NEW x \in Taken
      PROVE  /\ Measured(x)' /\ Fits(x, t) /\ Fits(t, x)
  <2>1. x.bytes \in Nat /\ x.total \in Nat /\ x.boot \in Nat
    BY <1>0 DEF Triples
  <2>2. Measured(x)
    BY DEF MeasureInv
  <2>3. Measured(x)'
    BY <1>0, <1>1, <2>1, <2>2 DEF Measured
  <2>4. Fits(x, t) /\ Fits(t, x)
    BY <1>0, <1>5, <2>1, <2>2 DEF Measured, Fits
  <2> QED BY <2>3, <2>4
<1>8. Fits(t, t)
  BY <1>0, <1>5 DEF Fits
<1>9. ASSUME NEW x \in Taken' PROVE Measured(x)'
  <2>1. CASE x \in Taken
    BY <1>7, <2>1
  <2>2. CASE x = t
    BY <1>5, <1>6, <2>2
  <2> QED BY <1>4, <2>1, <2>2
<1>10. \A x, y \in Taken' : Fits(x, y)
  BY <1>4, <1>7, <1>8 DEF MeasureInv
<1> QED BY <1>9, <1>10 DEF MeasureInv, Fits

LEMMA TakenOnHandling ==
    ASSUME MonitoringTypes, Handle
    PROVE  Taken' \subseteq Taken
<1>0. LinkTyped /\ wire \in Seq(Sendable(now)) /\ late \in Seq(Sendable(now))
  BY TypesParted, TypesUnfolded
<1>1. Read /\ Stored(Handled) /\ now' = now
  BY DEF Handle
<1>2. Handled \in Sendable(now)
  BY <1>0, <1>1, ReadTakes
<1>3. /\ Sent(wire') \subseteq Sent(wire) /\ Sent(late') \subseteq Sent(late)
      /\ Handled \in Samples => Triple(Handled) \in Sent(wire) \cup Sent(late)
  <2>1. \/ wire # <<>> /\ wire' = Tail(wire) /\ wire' # wire /\ Handled = Head(wire)
        \/ wire' = wire /\ late # <<>> /\ late' = Tail(late) /\ late' # late /\ Handled = Head(late)
    BY <1>0, <1>1, ReadTakes
  <2>2. CASE wire # <<>> /\ wire' = Tail(wire) /\ wire' # wire /\ Handled = Head(wire)
    <3>1. late' = late
      BY <1>1, <2>2 DEF Read
    <3> QED BY <1>0, <2>2, <3>1, SentTail
  <2>3. CASE wire' = wire /\ late # <<>> /\ late' = Tail(late) /\ Handled = Head(late)
    BY <1>0, <2>3, SentTail
  <2> QED BY <2>1, <2>2, <2>3
<1>4. \A r \in network' : r \in network \/ (Handled \in Samples /\ Triple(r) = Triple(Handled))
  <2>1. \/ /\ Handled \in Samples
           /\ network' = network \cup {[id |-> NextId, at |-> now, bytes |-> Handled.bytes,
                                        total |-> Handled.total, boot |-> Handled.boot]}
        \/ network' = network
    BY <1>1, <1>2, StoredAs
  <2> QED BY <2>1 DEF Triple
<1> QED BY <1>3, <1>4 DEF Taken

LEMMA TakenOnLeaving ==
    ASSUME MonitoringTypes, \E kept \in 0..Len(wire) : LeftBehind(kept), network' = network
    PROVE  Taken' \subseteq Taken
<1>0. wire \in Seq(Sendable(now)) /\ late \in Seq(Sendable(now))
  BY TypesUnfolded
<1>1. PICK kept \in 0..Len(wire) : wire' = <<>> /\ late' = late \o SubSeq(wire, 1, kept)
  BY DEF LeftBehind
<1>2. SubSeq(wire, 1, kept) \in Seq(Sendable(now))
  BY <1>0, Prefix
<1>3. Sent(SubSeq(wire, 1, kept)) \subseteq Sent(wire)
  BY <1>0, SentPrefix
<1>4. Sent(late') \subseteq Sent(late) \cup Sent(SubSeq(wire, 1, kept))
  BY <1>0, <1>1, <1>2, SentConcat
<1>5. Sent(wire') = {}
  BY <1>1 DEF Sent
<1> QED BY <1>3, <1>4, <1>5 DEF Taken

LEMMA TakenOnSending ==
    ASSUME MonitoringTypes, NEW s \in Seq(Sendable(now)), Sent(s) = {}, Send(s),
           network' = network
    PROVE  Taken' \subseteq Taken
<1>1. wire' = wire \o s /\ late' = late
  BY DEF Send
<1>2. Sent(wire') \subseteq Sent(wire) \cup Sent(s)
  BY <1>1, TypesUnfolded, SentConcat
<1> QED BY <1>1, <1>2 DEF Taken

LEMMA MeasureStep == MonitoringTypes /\ MeasureInv /\ [MonitoringNext]_vars => MeasureInv'
<1> SUFFICES ASSUME MonitoringTypes, MeasureInv, MonitoringNext \/ UNCHANGED vars
             PROVE  MeasureInv'
  OBVIOUS
<1>0. wire \in Seq(Sendable(now)) /\ late \in Seq(Sendable(now)) /\ LinkTyped /\ AccountTyped
  BY TypesParted, TypesUnfolded
<1>a. UNCHANGED <<wire, late, network>> => Taken' \subseteq Taken
  BY DEF Taken
<1>1. ASSUME NEW sent \in 0..MaxTraffic - traffic, SampleNetwork(sent) PROVE MeasureInv'
  BY <1>1, MeasureSampled
<1>2. ASSUME NEW start \in Starts \cap (0..now), CollectApps(start) PROVE MeasureInv'
  <2> DEFINE m == [says |-> "apps", start |-> start]
  <2>1. m \in Sendable(now) /\ m \notin Samples
    BY DEF Sendable, Samples
  <2>2. Send(<<m>>) /\ UNCHANGED machine /\ network' = network
    BY <1>2 DEF CollectApps, tables
  <2> HIDE DEF m
  <2>3. <<m>> \in Seq(Sendable(now))
    BY <2>1
  <2>4. Sent(<<m>>) = {}
    BY <2>1, SentOne
  <2> QED BY <2>2, <2>3, <2>4, TakenOnSending, MeasureKept
<1>3. ASSUME NEW plugged \in SUBSET Drives, PollUsb(plugged) PROVE MeasureInv'
  <2> DEFINE s == Says("inserted", plugged \ known) \o Says("removed", known \ plugged)
  <2>1. UNCHANGED machine /\ network' = network
    BY <1>3 DEF PollUsb, tables
  <2>2. CASE Baseline(plugged)
    BY <1>3, <1>a, <2>1, <2>2, MeasureKept DEF PollUsb, link
  <2>3. CASE ~Baseline(plugged)
    <3>1. Send(s)
      BY <1>3, <2>3 DEF PollUsb
    <3>2. s \in Seq(Events)
      <4>1. known \ plugged \in SUBSET Drives /\ plugged \ known \in SUBSET Drives
        BY <1>0 DEF AccountTyped
      <4>2. Says("inserted", plugged \ known) \in Seq(Events)
        BY <4>1, SaysEach
      <4>3. Says("removed", known \ plugged) \in Seq(Events)
        BY <4>1, SaysEach
      <4> QED BY <4>2, <4>3, Concatenated
    <3>3. s \in Seq(Sendable(now))
      BY <1>0, PollSends
    <3> HIDE DEF s
    <3>4. \A x \in Events : x \notin Samples
      BY DEF Events, Samples
    <3>5. Sent(s) = {}
      BY <3>2, <3>4 DEF Sent
    <3> QED BY <2>1, <3>1, <3>3, <3>5, TakenOnSending, MeasureKept
  <2> QED BY <2>2, <2>3
<1>4. CASE Disconnect
  BY <1>4, TakenOnLeaving, MeasureKept DEF Disconnect, tables
<1>5. CASE Restart
  BY <1>5, TakenOnLeaving, MeasureKept DEF Restart, tables
<1>6. CASE Handle
  BY <1>6, TakenOnHandling, MeasureKept DEF Handle
<1>7. CASE PersistFails
  <2>1. Read /\ network' = network /\ UNCHANGED machine
    BY <1>7 DEF PersistFails, tables
  <2>2. Sent(wire') \subseteq Sent(wire) /\ Sent(late') \subseteq Sent(late)
    BY <1>0, <2>1, SentTail DEF Read
  <2> QED BY <2>1, <2>2, MeasureKept DEF Taken
<1>8. CASE PruneBatch
  <2>1. UNCHANGED machine /\ UNCHANGED <<wire, late>> /\ network' \subseteq network
    BY <1>8 DEF PruneBatch, PruneTables, link
  <2>2. Taken' \subseteq Taken
    BY <2>1 DEF Taken
  <2> QED BY <2>1, <2>2, MeasureKept
<1>9. CASE Connect \/ PruneStart \/ PruneFails \/ Tick \/ LogCommand
  BY <1>9, <1>a, MeasureKept
     DEF Connect, PruneStart, PruneFails, Tick, LogCommand, tables, link
<1>10. CASE UNCHANGED vars
  BY <1>10, <1>a, MeasureKept DEF vars, tables, link
<1> QED BY <1>1, <1>2, <1>3, <1>4, <1>5, <1>6, <1>7, <1>8, <1>9, <1>10 DEF MonitoringNext

\* Rows that a report reads are consistent if they are in order.
LEMMA ReportedConsistent ==
    ASSUME MonitoringTypes, MeasureInv, NEW rows \in SUBSET network, InOrder(rows)
    PROVE  Consistent(rows)
<1>1. /\ network \in SUBSET Rows
      /\ \A r, s \in network : r.id = s.id => r = s
      /\ \A r, s \in network : r.id < s.id => r.at <= s.at
  BY TypesUnfolded
<1>2. \A r, s \in rows : Fits(r, s)
  <2> SUFFICES ASSUME NEW r \in rows, NEW s \in rows PROVE Fits(r, s)
    OBVIOUS
  <2>1. Triple(r) \in Taken /\ Triple(s) \in Taken
    BY DEF Taken
  <2>2. Fits(Triple(r), Triple(s))
    BY <2>1 DEF MeasureInv
  <2> QED BY <2>2 DEF Fits, Triple
<1>3. IsFiniteSet(rows)
  <2>1. PICK n \in Nat : \A r \in network : r.id <= n
    BY TypesUnfolded DEF Bounded
  <2>2. \A r \in rows : r.id \in 0..n
    BY <1>1, <2>1 DEF Rows
  <2> DEFINE f == [r \in rows |-> r.id]
  <2>3. f \in Injection(rows, 0..n)
    <3>1. f \in [rows -> 0..n]
      BY <2>2
    <3>2. \A r, s \in rows : f[r] = f[s] => r = s
      BY <1>1
    <3> HIDE DEF f
    <3> QED BY <3>1, <3>2 DEF Injection, IsInjective
  <2>4. IsFiniteSet(0..n)
    BY <2>1, FS_Interval
  <2> HIDE DEF f
  <2> QED BY <2>3, <2>4, FS_Injection
<1> QED BY <1>1, <1>2, <1>3 DEF Consistent

LEMMA ReportFaithful ==
    ASSUME MonitoringTypes, MeasureInv, NEW rows \in SUBSET network
    PROVE  Faithful(rows)
<1> DEFINE first == CHOOSE r \in rows : \A s \in rows : r.id <= s.id
           last == CHOOSE r \in rows : \A s \in rows : r.id >= s.id
<1> SUFFICES ASSUME rows # {}, InOrder(rows)
             PROVE  IF first.boot = last.boot THEN DeltaSum(rows) = last.total - first.total
                    ELSE DeltaSum(rows) <= last.total - first.total
  BY DEF Faithful
<1>1. Consistent(rows)
  BY ReportedConsistent
<1>2. \A r \in rows : r.id \in Nat
  BY <1>1, RowsUnfolded
<1>3. first \in rows /\ \A s \in rows : first.id <= s.id
  <2>1. \E r \in rows : \A s \in rows : r.id <= s.id
    BY <1>1, FirstExists
  <2> QED BY <2>1
<1>4. last \in rows /\ \A s \in rows : last.id >= s.id
  <2>1. PICK n \in Nat : \A r \in network : r.id <= n
    BY TypesUnfolded DEF Bounded
  <2>2. n + 1 \in Nat /\ \A r \in rows : r.id < n + 1
    BY <1>2, <2>1
  <2>3. PICK t \in rows : TRUE
    OBVIOUS
  <2>4. PICK p \in rows : \A s \in rows : s.id < n + 1 => s.id <= p.id
    BY <1>1, <2>2, <2>3, LastBefore
  <2>5. \A s \in rows : p.id >= s.id
    BY <1>2, <2>2, <2>4
  <2> QED BY <2>5
<1> HIDE DEF first, last
<1>5. \A s \in rows : first.id <= s.id /\ s.id <= last.id
  BY <1>2, <1>3, <1>4
<1>6. Spans(DeltaSum(rows), first, last)
  BY <1>1, <1>3, <1>4, <1>5, Telescopes
<1> QED BY <1>6 DEF Spans

(***************************************************************************)
(* Every usage report, of a day or of the window, is what was sent between *)
(* its first sample and its last, or less if the machine was started in    *)
(* between, for any drives, traffic, windows and number of rows, whatever  *)
(* was lost, pruned or stored from an old connection                       *)
(* (engine/database.py, _DELTA_SUM, get_network_summary).                  *)
(***************************************************************************)
THEOREM UsageFaithfulAlways == MonitoringSpec => []UsageFaithful
<1>1. MonitoringTypes /\ MeasureInv => UsageFaithful
  <2> SUFFICES ASSUME MonitoringTypes, MeasureInv PROVE UsageFaithful
    OBVIOUS
  <2>1. \A days : RowsWithin(days) \in SUBSET network
    BY DEF RowsWithin
  <2>2. \A day : Bucket(day) \in SUBSET network
    BY <2>1 DEF Bucket
  <2> QED BY <2>1, <2>2, ReportFaithful DEF UsageFaithful
<1> QED BY <1>1, MeasureInit, MeasureStep, TypesInit, TypesStep, PTL DEF MonitoringSpec
=============================================================================
