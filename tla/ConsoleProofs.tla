--------------------------- MODULE ConsoleProofs ----------------------------
(***************************************************************************)
(* Theorems of Console, for any clients, consoles, caps and bounds.        *)
(***************************************************************************)
EXTENDS Console, SequenceTheorems, TLAPS

-----------------------------------------------------------------------------
\* What is, and what is not, the last of its kind in a queue.

NoneIn(q, S) == \A i \in DOMAIN q : q[i] \notin S

LastIn(q, S, V) ==
    \E i \in DOMAIN q : q[i] \in V /\ \A j \in DOMAIN q : j > i => q[j] \notin S

LEMMA QueueEmpty == \A S : NoneIn(<<>>, S)
BY DEF NoneIn

LEMMA QueueAppend ==
    ASSUME NEW X, NEW q \in Seq(X), NEW m \in X, NEW S, NEW V
    PROVE  /\ NoneIn(Append(q, m), S) <=> NoneIn(q, S) /\ m \notin S
           /\ LastIn(q, S, V) /\ m \notin S => LastIn(Append(q, m), S, V)
           /\ m \in V => LastIn(Append(q, m), S, V)
<1> DEFINE a == Append(q, m)
<1>1. /\ Len(q) \in Nat /\ DOMAIN q = 1..Len(q) /\ DOMAIN a = 1..(Len(q) + 1)
      /\ a[Len(q) + 1] = m /\ \A i \in 1..Len(q) : a[i] = q[i]
  BY LenProperties, AppendProperties
<1> HIDE DEF a
<1>2. NoneIn(a, S) <=> NoneIn(q, S) /\ m \notin S
  BY <1>1 DEF NoneIn
<1>3. LastIn(q, S, V) /\ m \notin S => LastIn(a, S, V)
  <2> SUFFICES ASSUME LastIn(q, S, V), m \notin S PROVE LastIn(a, S, V)
    OBVIOUS
  <2>1. PICK i \in DOMAIN q : q[i] \in V /\ \A j \in DOMAIN q : j > i => q[j] \notin S
    BY DEF LastIn
  <2>2. i \in DOMAIN a /\ a[i] \in V
    BY <1>1, <2>1
  <2>3. \A j \in DOMAIN a : j > i => a[j] \notin S
    BY <1>1, <2>1
  <2> QED BY <2>2, <2>3 DEF LastIn
<1>4. m \in V => LastIn(a, S, V)
  <2>1. Len(q) + 1 \in DOMAIN a /\ \A j \in DOMAIN a : ~(j > Len(q) + 1)
    BY <1>1
  <2> QED BY <1>1, <2>1 DEF LastIn
<1> QED BY <1>2, <1>3, <1>4 DEF a

LEMMA QueueTail ==
    ASSUME NEW X, NEW q \in Seq(X), q # <<>>, NEW S, NEW V
    PROVE  /\ Head(q) \in X /\ Tail(q) \in Seq(X)
           /\ NoneIn(q, S) <=> Head(q) \notin S /\ NoneIn(Tail(q), S)
           /\ LastIn(q, S, V) => LastIn(Tail(q), S, V) \/ (Head(q) \in V /\ NoneIn(Tail(q), S))
<1> DEFINE t == Tail(q)
<1>1. /\ Len(q) \in Nat \ {0} /\ DOMAIN q = 1..Len(q) /\ DOMAIN t = 1..(Len(q) - 1)
      /\ Head(q) = q[1] /\ \A i \in 1..(Len(q) - 1) : t[i] = q[i + 1]
      /\ Head(q) \in X /\ t \in Seq(X)
  BY LenProperties, HeadTailProperties
<1> HIDE DEF t
<1>2. NoneIn(q, S) <=> Head(q) \notin S /\ NoneIn(t, S)
  <2>1. ASSUME Head(q) \notin S, NoneIn(t, S), NEW i \in DOMAIN q PROVE q[i] \notin S
    <3>1. CASE i = 1
      BY <1>1, <2>1, <3>1
    <3>2. CASE i # 1
      <4>1. i - 1 \in DOMAIN t /\ t[i - 1] = q[(i - 1) + 1] /\ (i - 1) + 1 = i
        BY <1>1, <3>2
      <4> QED BY <2>1, <4>1 DEF NoneIn
    <3> QED BY <3>1, <3>2
  <2>2. ASSUME NoneIn(q, S) PROVE Head(q) \notin S /\ NoneIn(t, S)
    BY <1>1, <2>2 DEF NoneIn
  <2> QED BY <2>1, <2>2 DEF NoneIn
<1>3. ASSUME LastIn(q, S, V)
      PROVE  LastIn(t, S, V) \/ (Head(q) \in V /\ NoneIn(t, S))
  <2>1. PICK i \in DOMAIN q : q[i] \in V /\ \A j \in DOMAIN q : j > i => q[j] \notin S
    BY <1>3 DEF LastIn
  <2>2. \A j \in DOMAIN t : j + 1 \in DOMAIN q /\ t[j] = q[j + 1]
    BY <1>1
  <2>3. CASE i = 1
    <3>1. \A j \in DOMAIN t : j + 1 > 1
      BY <1>1
    <3> QED BY <1>1, <2>1, <2>2, <2>3, <3>1 DEF NoneIn
  <2>4. CASE i # 1
    <3>1. i - 1 \in DOMAIN t /\ t[i - 1] = q[(i - 1) + 1] /\ (i - 1) + 1 = i
      BY <1>1, <2>4
    <3>2. \A j \in DOMAIN t : j > i - 1 => j + 1 > i
      BY <1>1
    <3> QED BY <2>1, <2>2, <3>1, <3>2 DEF LastIn
  <2> QED BY <2>3, <2>4
<1> QED BY <1>1, <1>2, <1>3 DEF t

-----------------------------------------------------------------------------
\* Types.

Words == [says : UNION {[S -> Times] : S \in SUBSET Clients}, ask : BOOLEAN]

ConsoleTypes ==
    /\ ConsoleTypeOK
    /\ replies \in [Consoles -> Seq(Words)]
    /\ untold \in [Consoles -> SUBSET Clients]
    /\ standing \in [Consoles -> SUBSET Clients]

LEMMA TimesOK ==
    /\ 0 \in Times
    /\ \A t \in 1..MaxTime : t + MaxPause \in Times /\ t \in Int
    /\ \A t \in Times : t \in Nat
    /\ Nobody \notin Times /\ Nobody \notin Clients
BY ConsoleAssumption DEF Times

LEMMA ReportedType ==
    ASSUME ConsoleTypeOK, NEW p \in Clients
    PROVE  Reported(p) \in Times /\ Reported(p) # Nobody
BY TimesOK DEF ConsoleTypeOK, Reported

LEMMA WordType ==
    ASSUME NEW S \in SUBSET Clients, NEW says \in [S -> Times], NEW ask \in BOOLEAN
    PROVE  /\ Word(says, ask) \in Words
           /\ Word(says, ask).says = says /\ DOMAIN says = S /\ Word(says, ask).ask = ask
BY DEF Word, Words

LEMMA RosterType ==
    ASSUME ConsoleTypeOK
    PROVE  Roster \in [Clients -> Times]
BY TimesOK DEF ConsoleTypeOK, Roster

LEMMA WordSays ==
    ASSUME NEW w \in Words
    PROVE  /\ DOMAIN w.says \in SUBSET Clients
           /\ \A p \in DOMAIN w.says : w.says[p] \in Times
BY DEF Words

LEMMA RequestTypes ==
    /\ \A p \in Clients \cup {Nobody} : Request("watch", p) \in Requests
    /\ \A p \in Clients : Request("pause", p) \in Requests /\ Request("resume", p) \in Requests
    /\ Request("list", Nobody) \in Requests
BY DEF Request, Requests

\* A request is added to the console's own queue, or lost.
LEMMA SentType ==
    ASSUME ConsoleTypeOK, NEW k \in Consoles, NEW request \in Requests
    PROVE  /\ Sent(k, request) \in [Consoles -> Seq(Requests)]
           /\ Sent(k, request)[k] = IF link[k] THEN Append(requests[k], request) ELSE requests[k]
           /\ \A j \in Consoles \ {k} : Sent(k, request)[j] = requests[j]
<1>1. requests \in [Consoles -> Seq(Requests)]
  BY DEF ConsoleTypeOK
<1>2. Append(requests[k], request) \in Seq(Requests)
  BY <1>1, AppendProperties
<1> QED BY <1>1, <1>2 DEF Sent

LEMMA SentAt ==
    ASSUME ConsoleTypes, NEW k \in Consoles, NEW j \in Consoles, NEW request \in Requests,
           requests' = Sent(j, request) \/ requests' = requests
    PROVE  \/ requests'[k] = requests[k]
           \/ link[k] /\ requests'[k] = Append(requests[k], request)
<1>1. /\ Sent(j, request)[j] = IF link[j] THEN Append(requests[j], request) ELSE requests[j]
      /\ \A i \in Consoles \ {j} : Sent(j, request)[i] = requests[i]
  BY SentType DEF ConsoleTypes
<1>2. CASE requests' = requests
  BY <1>2
<1>3. CASE requests' = Sent(j, request) /\ j = k
  BY <1>1, <1>3
<1>4. CASE requests' = Sent(j, request) /\ j # k
  BY <1>1, <1>4
<1> QED BY <1>2, <1>3, <1>4

LEMMA ToldType ==
    ASSUME ConsoleTypes, NEW k \in Consoles, NEW word \in Words
    PROVE  Told(k, word) \in Seq(Words)
<1>1. replies[k] \in Seq(Words)
  BY DEF ConsoleTypes
<1> QED BY <1>1, AppendProperties DEF Told

LEMMA HeartbeatWord ==
    ASSUME ConsoleTypes, NEW p \in Clients
    PROVE  /\ Word([q \in {p} |-> Reported(p)], TRUE) \in Words
           /\ Word([q \in {p} |-> Reported(p)], TRUE).says[p] = Reported(p)
           /\ DOMAIN Word([q \in {p} |-> Reported(p)], TRUE).says = {p}
<1> DEFINE said == [q \in {p} |-> Reported(p)]
<1>1. said \in [{p} -> Times] /\ said[p] = Reported(p)
  BY ReportedType DEF ConsoleTypes
<1>2. {p} \in SUBSET Clients /\ TRUE \in BOOLEAN
  OBVIOUS
<1> HIDE DEF said
<1>3. /\ Word(said, TRUE) \in Words /\ Word(said, TRUE).says = said /\ DOMAIN said = {p}
  BY <1>1, <1>2, WordType
<1>4. Word(said, TRUE).says[p] = Reported(p) /\ DOMAIN Word(said, TRUE).says = {p}
  BY <1>1, <1>3
<1> QED BY <1>3, <1>4 DEF said

LEMMA RosterWord ==
    ASSUME ConsoleTypes
    PROVE  /\ Word(Roster, FALSE) \in Words
           /\ Word(Roster, FALSE).says = Roster
           /\ DOMAIN Roster = Clients
<1>1. Roster \in [Clients -> Times] /\ Clients \in SUBSET Clients
  BY RosterType DEF ConsoleTypes
<1> QED BY <1>1, WordType

LEMMA ConsoleTypeInit == ConsoleInit => ConsoleTypes
<1> SUFFICES ASSUME ConsoleInit PROVE ConsoleTypes
  OBVIOUS
<1>1. requests \in [Consoles -> Seq(Requests)] /\ replies \in [Consoles -> Seq(Words)]
  BY DEF ConsoleInit
<1>2. now \in 1..MaxTime /\ commands \in 0..MaxCommands /\ losses \in 0..MaxLosses
  BY ConsoleAssumption DEF ConsoleInit
<1>3. ConsoleTypeOK
  BY <1>1, <1>2, TimesOK DEF ConsoleInit, ConsoleTypeOK
<1> QED BY <1>1, <1>3 DEF ConsoleTypes, ConsoleInit

LEMMA ClientType ==
    ASSUME ConsoleTypes, NEW p \in Clients, ClientConnects(p) \/ ClientLost(p) \/ Heartbeat(p)
    PROVE  ConsoleTypes'
<1> USE DEF network, backend, history, progress, bounds, engine
<1>1. CASE ClientConnects(p)
  <2>1. entry' \in [Clients -> Times \cup {Nobody}] /\ \A q \in Clients : entry[q] # Nobody => entry'[q] # Nobody
    BY <1>1, TimesOK DEF ClientConnects, ConsoleTypes, ConsoleTypeOK
  <2> QED BY <1>1, <2>1 DEF ClientConnects, ConsoleTypes, ConsoleTypeOK
<1>2. CASE ClientLost(p)
  <2>1. losses' \in 0..MaxLosses
    BY <1>2, ConsoleAssumption DEF ClientLost, ConsoleTypes, ConsoleTypeOK
  <2>2. untold' \in [Consoles -> SUBSET Clients]
    BY <1>2 DEF ClientLost, ConsoleTypes
  <2>3. losses \in Nat /\ losses' = losses + 1 /\ lingering \in [Consoles -> 0..losses]
    BY <1>2, ConsoleAssumption DEF ClientLost, ConsoleTypes, ConsoleTypeOK
  <2>4. lingering' \in [Consoles -> 0..losses']
    BY <1>2, <2>3 DEF ClientLost
  <2> QED BY <1>2, <2>1, <2>2, <2>4 DEF ClientLost, ConsoleTypes, ConsoleTypeOK
<1>3. CASE Heartbeat(p)
  <2>1. Reported(p) \in Times /\ Reported(p) # Nobody
    BY ReportedType DEF ConsoleTypes
  <2>2. entry' \in [Clients -> Times \cup {Nobody}]
    BY <1>3, <2>1 DEF Heartbeat, ConsoleTypes, ConsoleTypeOK
  <2>3. untold' \in [Consoles -> SUBSET Clients]
    <3>1. \A k \in Consoles : untold[k] \ {p} \in SUBSET Clients /\ untold[k] \cup {p} \in SUBSET Clients
      BY DEF ConsoleTypes
    <3>2. \/ untold' = [k \in Consoles |-> untold[k] \ {p}]
          \/ untold' = [k \in Consoles |-> IF Moved(p) THEN untold[k] \cup {p} ELSE untold[k]]
      BY <1>3 DEF Heartbeat
    <3> QED BY <3>1, <3>2 DEF ConsoleTypes
  <2>4. replies' \in [Consoles -> Seq(Words)]
    <3> DEFINE word == Word([q \in {p} |-> Reported(p)], TRUE)
    <3>1. CASE Flips(p)
      <4>1. \A k \in Consoles : Told(k, word) \in Seq(Words)
        <5>1. word \in Words
          BY HeartbeatWord
        <5> HIDE DEF word
        <5> QED BY <5>1, ToldType
      <4>2. replies' = [k \in Consoles |-> Told(k, word)]
        BY <1>3, <3>1 DEF Heartbeat
      <4> QED BY <4>1, <4>2
    <3>2. CASE ~Flips(p)
      BY <1>3, <3>2 DEF Heartbeat, ConsoleTypes
    <3> QED BY <3>1, <3>2
  <2>5. beaten' \in SUBSET {q \in Clients : entry'[q] # Nobody}
    BY <1>3, <2>1 DEF Heartbeat, ConsoleTypes, ConsoleTypeOK
  <2> QED BY <1>3, <2>2, <2>3, <2>4, <2>5 DEF Heartbeat, ConsoleTypes, ConsoleTypeOK
<1> QED BY <1>1, <1>2, <1>3

LEMMA HandleType ==
    ASSUME ConsoleTypes, NEW k \in Consoles, Handle(k)
    PROVE  ConsoleTypes'
<1> DEFINE request == Head(requests[k])
<1>1. requests[k] \in Seq(Requests) /\ requests[k] # <<>>
  BY DEF Handle, ConsoleTypes, ConsoleTypeOK
<1>2. request \in Requests /\ Tail(requests[k]) \in Seq(Requests)
  BY <1>1, HeadTailProperties
<1>3. requests' \in [Consoles -> Seq(Requests)]
  BY <1>2 DEF Handle, ConsoleTypes, ConsoleTypeOK
<1>4. watching' \in [Consoles -> Clients \cup {Nobody}]
  <2>1. request.of \in Clients \cup {Nobody}
    BY <1>2 DEF Requests
  <2> QED BY <2>1 DEF Handle, ConsoleTypes, ConsoleTypeOK
<1>5. pause' \in [Clients -> Times]
  <2>1. Applied(request) \in Times
    BY TimesOK DEF Applied, ConsoleTypes, ConsoleTypeOK
  <2> QED BY <2>1 DEF Handle, ConsoleTypes, ConsoleTypeOK
<1>6. beaten' \subseteq beaten
  BY DEF Handle
<1>7. replies' \in [Consoles -> Seq(Words)]
  <2>1. Told(k, Word(Roster, FALSE)) \in Seq(Words)
    BY RosterWord, ToldType
  <2> QED BY <2>1 DEF Handle, ConsoleTypes
<1>8. untold' \in [Consoles -> SUBSET Clients]
  BY DEF Handle, ConsoleTypes
<1> QED BY <1>3, <1>4, <1>5, <1>6, <1>7, <1>8
        DEF Handle, ConsoleTypes, ConsoleTypeOK, backend, bounds

LEMMA SessionType ==
    ASSUME ConsoleTypes, NEW k \in Consoles,
           \/ HandlerEnds(k) \/ Connect(k) \/ Connected(k)
           \/ Lose(k) \/ Notice(k) \/ NoticeFails(k) \/ Disconnect(k)
    PROVE  ConsoleTypes'
<1> USE DEF network, backend, history, progress, engine, bounds
<1>1. CASE HandlerEnds(k)
  <2>1. losses \in Nat /\ lingering[k] \in 0..losses /\ lingering[k] > 0
    BY <1>1, ConsoleAssumption DEF HandlerEnds, ConsoleTypes, ConsoleTypeOK
  <2>2. lingering' \in [Consoles -> 0..losses]
    BY <1>1, <2>1 DEF HandlerEnds, ConsoleTypes, ConsoleTypeOK
  <2> QED BY <1>1, <2>2 DEF HandlerEnds, ConsoleTypes, ConsoleTypeOK
<1>2. CASE Connect(k)
  <2>1. <<Request("list", Nobody)>> \in Seq(Requests)
    BY RequestTypes
  <2>2. requests' \in [Consoles -> Seq(Requests)]
    BY <1>2, <2>1 DEF Connect, ConsoleTypes, ConsoleTypeOK
  <2> QED BY <1>2, <2>2 DEF Connect, ConsoleTypes, ConsoleTypeOK
<1>3. CASE Connected(k)
  <2>1. Request("watch", selected[k]) \in Requests
    BY RequestTypes DEF ConsoleTypes, ConsoleTypeOK
  <2>2. requests' \in [Consoles -> Seq(Requests)]
    BY <1>3, <2>1, SentType DEF Connected, Redeclared, ConsoleTypes, ConsoleTypeOK
  <2> QED BY <1>3, <2>2 DEF Connected, ConsoleTypes, ConsoleTypeOK
<1>4. ASSUME Unplugged(k), losses' = losses + 1
      PROVE  /\ lingering' \in [Consoles -> 0..losses']
             /\ requests' \in [Consoles -> Seq(Requests)]
             /\ replies' \in [Consoles -> Seq(Words)]
             /\ link' \in [Consoles -> BOOLEAN] /\ ~link'[k]
             /\ \A j \in Consoles \ {k} : link'[j] = link[j]
  <2>1. requests' \in [Consoles -> Seq(Requests)]
    BY <1>4 DEF Unplugged, ConsoleTypes, ConsoleTypeOK
  <2>2. replies' \in [Consoles -> Seq(Words)]
    BY <1>4 DEF Unplugged, ConsoleTypes
  <2>3. losses \in Nat /\ lingering \in [Consoles -> 0..losses]
    BY ConsoleAssumption DEF ConsoleTypes, ConsoleTypeOK
  <2>4. lingering' \in [Consoles -> 0..losses']
    BY <1>4, <2>3 DEF Unplugged
  <2> QED BY <1>4, <2>1, <2>2, <2>4 DEF Unplugged, ConsoleTypes, ConsoleTypeOK
<1>5. CASE Lose(k)
  <2>1. losses' \in 0..MaxLosses
    BY <1>5, ConsoleAssumption DEF Lose, ConsoleTypes, ConsoleTypeOK
  <2>2. Unplugged(k) /\ losses' = losses + 1
    BY <1>5 DEF Lose
  <2> QED BY <1>4, <1>5, <2>1, <2>2 DEF Lose, ConsoleTypes, ConsoleTypeOK
<1>6. CASE Notice(k) \/ NoticeFails(k)
  BY <1>6 DEF Notice, NoticeFails, NoticeBy, ConsoleTypes, ConsoleTypeOK
<1>7. CASE Disconnect(k)
  <2>1. losses' \in 0..MaxLosses
    BY <1>7, ConsoleAssumption DEF Disconnect, ConsoleTypes, ConsoleTypeOK
  <2>2. Unplugged(k) /\ losses' = losses + 1
    BY <1>7 DEF Disconnect
  <2> QED BY <1>4, <1>7, <2>1, <2>2 DEF Disconnect, ConsoleTypes, ConsoleTypeOK
<1> QED BY <1>1, <1>2, <1>3, <1>5, <1>6, <1>7

LEMMA OperatorType ==
    ASSUME ConsoleTypes, NEW k \in Consoles,
           \/ \E p \in Clients \cup {Nobody} : Select(k, p)
           \/ \E p \in Clients : Pause(k, p) \/ Resume(k, p) \/ ExtendPause(k, p)
    PROVE  ConsoleTypes'
<1> USE DEF network, backend, history, progress, engine, bounds
<1>1. ASSUME NEW p \in Clients \cup {Nobody}, Select(k, p) PROVE ConsoleTypes'
  <2>1. requests' \in [Consoles -> Seq(Requests)]
    BY <1>1, RequestTypes, SentType DEF Select, ConsoleTypes
  <2> QED BY <1>1, <2>1 DEF Select, ConsoleTypes, ConsoleTypeOK
<1>2. ASSUME NEW p \in Clients, NEW action \in {"pause", "resume"}, SendPause(k, p, action),
             warned' \in [Consoles -> SUBSET Clients], standing' \in [Consoles -> SUBSET Clients]
      PROVE  ConsoleTypes'
  <2>1. requests' \in [Consoles -> Seq(Requests)]
    BY <1>2, RequestTypes, SentType DEF SendPause, ConsoleTypes
  <2>2. commands' \in 0..MaxCommands
    BY <1>2, ConsoleAssumption DEF SendPause, ConsoleTypes, ConsoleTypeOK
  <2> QED BY <1>2, <2>1, <2>2 DEF SendPause, ConsoleTypes, ConsoleTypeOK
<1>3. ASSUME NEW p \in Clients, Pause(k, p) \/ Resume(k, p) \/ ExtendPause(k, p)
      PROVE  /\ \E action \in {"pause", "resume"} : SendPause(k, p, action)
             /\ warned' \in [Consoles -> SUBSET Clients]
             /\ standing' \in [Consoles -> SUBSET Clients]
  <2>1. warned \in [Consoles -> SUBSET Clients] /\ standing \in [Consoles -> SUBSET Clients]
    BY DEF ConsoleTypes, ConsoleTypeOK
  <2>2. CASE Pause(k, p) \/ Resume(k, p)
    BY <2>1, <2>2 DEF Pause, Resume
  <2>3. CASE ExtendPause(k, p)
    BY <2>1, <2>3 DEF ExtendPause
  <2> QED BY <1>3, <2>2, <2>3
<1> QED BY <1>1, <1>2, <1>3

LEMMA ListenType ==
    ASSUME ConsoleTypes, NEW k \in Consoles, Listen(k)
    PROVE  ConsoleTypes'
<1> DEFINE word == Head(replies[k])
<1>1. word \in Words /\ Tail(replies[k]) \in Seq(Words)
  <2>1. replies[k] \in Seq(Words) /\ replies[k] # <<>>
    BY DEF Listen, ConsoleTypes
  <2> QED BY <2>1, HeadTailProperties
<1>2. replies' \in [Consoles -> Seq(Words)]
  BY <1>1 DEF Listen, ConsoleTypes
<1>3. requests' \in [Consoles -> Seq(Requests)]
  BY RequestTypes, SentType DEF Listen, ConsoleTypes, ConsoleTypeOK
<1>4. pauseUntil' \in [Consoles -> [Clients -> Times]]
  <2>1. [p \in Clients |-> IF p \in DOMAIN word.says THEN word.says[p] ELSE pauseUntil[k][p]]
            \in [Clients -> Times]
    BY <1>1, WordSays DEF ConsoleTypes, ConsoleTypeOK
  <2> QED BY <2>1 DEF Listen, ConsoleTypes, ConsoleTypeOK
<1>5. warned' \in [Consoles -> SUBSET Clients] /\ standing' \in [Consoles -> SUBSET Clients]
  BY DEF Listen, ConsoleTypes, ConsoleTypeOK
<1>6. checked' \subseteq checked
  BY DEF Listen
<1> QED BY <1>2, <1>3, <1>4, <1>5, <1>6 DEF Listen, ConsoleTypes, ConsoleTypeOK, engine, bounds

LEMMA CheckType ==
    ASSUME ConsoleTypes, NEW k \in Consoles, CheckPauseExpiry(k)
    PROVE  ConsoleTypes'
<1>1. pauseUntil' \in [Consoles -> [Clients -> Times]]
  <2>1. [p \in Clients |-> IF p \in Over(k) THEN 0 ELSE pauseUntil[k][p]] \in [Clients -> Times]
    BY TimesOK DEF ConsoleTypes, ConsoleTypeOK
  <2> QED BY <2>1 DEF CheckPauseExpiry, ConsoleTypes, ConsoleTypeOK
<1>2. warned' \in [Consoles -> SUBSET Clients] /\ standing' \in [Consoles -> SUBSET Clients]
  <2>1. Over(k) \in SUBSET Clients /\ SoonOver(k) \in SUBSET Clients
    BY DEF Over, SoonOver
  <2> QED BY <2>1 DEF CheckPauseExpiry, ConsoleTypes, ConsoleTypeOK
<1> QED BY <1>1, <1>2 DEF CheckPauseExpiry, ConsoleTypes, ConsoleTypeOK, engine, network, bounds

LEMMA TickType ==
    ASSUME ConsoleTypes, Tick
    PROVE  ConsoleTypes'
<1>1. now' \in 1..MaxTime
  BY ConsoleAssumption DEF Tick, ConsoleTypes, ConsoleTypeOK
<1> QED BY <1>1 DEF Tick, ConsoleTypes, ConsoleTypeOK, engine, network, backend, history, bounds

LEMMA ConsoleTypeStep == ConsoleTypes /\ [ConsoleNext]_vars => ConsoleTypes'
<1> SUFFICES ASSUME ConsoleTypes, [ConsoleNext]_vars PROVE ConsoleTypes'
  OBVIOUS
<1>1. CASE UNCHANGED vars
  <2>1. UNCHANGED <<now, pause, entry, watching, admitted, lingering, link, requests, replies, session,
                    selected, pauseUntil, warned, untold, standing, beaten, checked, commands, losses>>
    BY <1>1 DEF vars, engine, network, backend, history, progress, bounds
  <2> QED BY <2>1 DEF ConsoleTypes, ConsoleTypeOK
<1> QED BY <1>1, ClientType, HandleType, SessionType, OperatorType, ListenType, CheckType, TickType
        DEF ConsoleNext

(***************************************************************************)
(* Every end of a pause that is anywhere, in a file, an entry, a message   *)
(* or a console, is one a capped command can have set, a client that has   *)
(* sent its heartbeat is registered, and a console with a live connection  *)
(* is shown as connected, for any clients, consoles and caps.              *)
(***************************************************************************)
THEOREM ConsoleTypeCorrect == ConsoleSpec => []ConsoleTypeOK
<1>1. ConsoleTypes => ConsoleTypeOK
  BY DEF ConsoleTypes
<1> QED BY <1>1, ConsoleTypeInit, ConsoleTypeStep, PTL DEF ConsoleSpec

-----------------------------------------------------------------------------
\* What is under way goes with the connection, a subscription with the last of
\* its handlers.

Idle(k) ==
    ~link[k] =>
        /\ requests[k] = <<>> /\ replies[k] = <<>>
        /\ lingering[k] = 0 => watching[k] = Nobody

LEMMA IdleStep ==
    ASSUME ConsoleTypes, NEW k \in Consoles, Idle(k), [ConsoleNext]_vars
    PROVE  Idle(k)'
<1> USE DEF Idle, network, backend, engine, history, progress, bounds
<1>1. ASSUME NEW p \in Clients, ClientConnects(p) \/ ClientLost(p) PROVE Idle(k)'
  BY <1>1 DEF ClientConnects, ClientLost
<1>2. ASSUME NEW p \in Clients, Heartbeat(p) PROVE Idle(k)'
  <2>1. ~link[k] => replies'[k] = replies[k]
    BY <1>2 DEF Heartbeat, Told, ConsoleTypes
  <2> QED BY <1>2, <2>1 DEF Heartbeat
<1>3. ASSUME NEW j \in Consoles, Handle(j) PROVE Idle(k)'
  <2>1. requests[j] # <<>> /\ link' = link /\ lingering' = lingering
    BY <1>3 DEF Handle
  <2>2. CASE j = k
    BY <2>1, <2>2
  <2>3. CASE j # k
    BY <1>3, <2>1, <2>3 DEF Handle, ConsoleTypes, ConsoleTypeOK
  <2> QED BY <2>2, <2>3
<1>4. ASSUME NEW j \in Consoles, HandlerEnds(j) \/ CheckPauseExpiry(j) PROVE Idle(k)'
  BY <1>4 DEF HandlerEnds, CheckPauseExpiry, ConsoleTypes, ConsoleTypeOK
<1>5. ASSUME NEW j \in Consoles, Connect(j) PROVE Idle(k)'
  BY <1>5 DEF Connect, ConsoleTypes, ConsoleTypeOK
<1>6. ASSUME NEW j \in Consoles, Lose(j) \/ Disconnect(j) PROVE Idle(k)'
  <2>1. Unplugged(j) /\ watching' = watching
    BY <1>6 DEF Lose, Disconnect
  <2>2. CASE j = k
    <3>1. requests'[k] = <<>> /\ replies'[k] = <<>>
      BY <2>1, <2>2 DEF Unplugged, ConsoleTypes, ConsoleTypeOK
    <3>2. lingering'[k] = IF link[k] THEN lingering[k] + 1 ELSE lingering[k]
      BY <2>1, <2>2 DEF Unplugged, ConsoleTypes, ConsoleTypeOK
    <3>3. lingering[k] \in Nat
      BY ConsoleAssumption DEF ConsoleTypes, ConsoleTypeOK
    <3> QED BY <2>1, <3>1, <3>2, <3>3
  <2>3. CASE j # k
    BY <2>1, <2>3 DEF Unplugged, ConsoleTypes, ConsoleTypeOK
  <2> QED BY <2>2, <2>3
<1>7. ASSUME NEW j \in Consoles, NEW request \in Requests,
             requests' = Sent(j, request) \/ requests' = requests,
             replies' = replies \/ (replies[j] # <<>> /\ replies' = [replies EXCEPT ![j] = Tail(@)]),
             UNCHANGED <<link, lingering, watching>>
      PROVE  Idle(k)'
  <2>1. ~link[k] => requests'[k] = requests[k]
    BY <1>7, SentAt
  <2>2. ~link[k] => replies'[k] = replies[k]
    BY <1>7 DEF ConsoleTypes
  <2> QED BY <1>7, <2>1, <2>2
<1>8. ASSUME NEW j \in Consoles, Connected(j) PROVE Idle(k)'
  <2>1. Request("watch", selected[j]) \in Requests
    BY RequestTypes DEF ConsoleTypes, ConsoleTypeOK
  <2> QED BY <1>7, <1>8, <2>1 DEF Connected, Redeclared
<1>9. ASSUME NEW j \in Consoles, NEW p \in Clients \cup {Nobody}, Select(j, p) PROVE Idle(k)'
  BY <1>7, <1>9, RequestTypes DEF Select
<1>10. ASSUME NEW j \in Consoles, NEW p \in Clients, Pause(j, p) \/ Resume(j, p) \/ ExtendPause(j, p)
       PROVE  Idle(k)'
  BY <1>7, <1>10, RequestTypes DEF Pause, Resume, ExtendPause, SendPause
<1>11. ASSUME NEW j \in Consoles, Listen(j) PROVE Idle(k)'
  BY <1>7, <1>11, RequestTypes DEF Listen
<1>12. CASE Tick \/ UNCHANGED vars
  BY <1>12 DEF Tick, vars
<1>13. ASSUME NEW j \in Consoles, Notice(j) \/ NoticeFails(j) PROVE Idle(k)'
  BY <1>13 DEF Notice, NoticeFails, NoticeBy
<1> QED BY <1>1, <1>2, <1>3, <1>4, <1>5, <1>6, <1>8, <1>9, <1>10, <1>11, <1>12, <1>13 DEF ConsoleNext

-----------------------------------------------------------------------------
\* The last subscription under way, or else the one in force, is the selection,
\* but where an earlier connection's is in force and will go with its handler, and
\* where none is: the console has still to declare it, or its entry is gone.

Watches == {request \in Requests : request.do = "watch"}

Declared(k) ==
    link[k] =>
        \/ NoneIn(requests[k], Watches) /\ watching[k] = selected[k]
        \/ LastIn(requests[k], Watches, {Request("watch", selected[k])})
        \/ /\ NoneIn(requests[k], Watches)
           /\ \/ lingering[k] > 0
              \/ watching[k] = Nobody /\ (session[k] = "listing" \/ k \notin admitted)

\* A request that is no subscription changes nothing of it.
LEMMA SentDeclared ==
    ASSUME ConsoleTypes, NEW k \in Consoles, Declared(k), NEW j \in Consoles,
           NEW request \in Requests \ Watches,
           requests' = Sent(j, request) \/ requests' = requests,
           UNCHANGED <<link, watching, admitted, lingering, selected, session>>
    PROVE  Declared(k)'
<1>1. requests[k] \in Seq(Requests)
  BY DEF ConsoleTypes, ConsoleTypeOK
<1>2. CASE requests'[k] = requests[k]
  BY <1>2 DEF Declared
<1>3. CASE requests'[k] = Append(requests[k], request)
  <2> DEFINE mine == {Request("watch", selected[k])}
  <2>1. NoneIn(requests[k], Watches) => NoneIn(requests'[k], Watches)
    <3>1. request \in Requests /\ request \notin Watches
      OBVIOUS
    <3>2. NoneIn(requests[k], Watches) => NoneIn(Append(requests[k], request), Watches)
      BY <1>1, <3>1, QueueAppend
    <3> QED BY <1>3, <3>2
  <2>2. LastIn(requests[k], Watches, mine) => LastIn(requests'[k], Watches, mine)
    <3>1. request \in Requests /\ request \notin Watches
      OBVIOUS
    <3> HIDE DEF mine
    <3>2. LastIn(requests[k], Watches, mine) => LastIn(Append(requests[k], request), Watches, mine)
      BY <1>1, <3>1, QueueAppend
    <3> QED BY <1>3, <3>2
  <2> QED BY <2>1, <2>2 DEF Declared
<1> QED BY <1>2, <1>3, SentAt

LEMMA HandleDeclared ==
    ASSUME ConsoleTypes, NEW k \in Consoles, Declared(k), Handle(k)
    PROVE  Declared(k)'
<1> DEFINE q == requests[k]
           mine == {Request("watch", selected[k])}
<1>1. q \in Seq(Requests) /\ q # <<>>
  BY DEF Handle, ConsoleTypes, ConsoleTypeOK
<1>2. /\ requests'[k] = Tail(q)
      /\ watching'[k] = IF Head(q).do = "watch" THEN Head(q).of ELSE watching[k]
      /\ UNCHANGED <<link, admitted, lingering, selected, session>>
  BY DEF Handle, ConsoleTypes, ConsoleTypeOK, backend
<1> HIDE DEF q, mine
<1>3. /\ Head(q) \in Requests
      /\ NoneIn(q, Watches) <=> Head(q) \notin Watches /\ NoneIn(Tail(q), Watches)
      /\ LastIn(q, Watches, mine)
             => LastIn(Tail(q), Watches, mine) \/ (Head(q) \in mine /\ NoneIn(Tail(q), Watches))
  BY <1>1, QueueTail
<1>4. CASE NoneIn(q, Watches)
  <2>1. Head(q).do # "watch" /\ NoneIn(Tail(q), Watches)
    BY <1>3, <1>4 DEF Watches
  <2>2. ~LastIn(q, Watches, mine)
    <3>1. mine \subseteq Watches
      BY RequestTypes DEF Watches, mine, Request, ConsoleTypes, ConsoleTypeOK
    <3> QED BY <1>4, <3>1 DEF NoneIn, LastIn
  <2> QED BY <1>2, <1>4, <2>1, <2>2 DEF Declared, q, mine
<1>5. CASE LastIn(q, Watches, mine)
  <2>1. CASE LastIn(Tail(q), Watches, mine)
    BY <1>2, <2>1 DEF Declared, mine
  <2>2. CASE Head(q) \in mine /\ NoneIn(Tail(q), Watches)
    <3>1. Head(q).do = "watch" /\ Head(q).of = selected[k]
      BY <2>2 DEF mine, Request
    <3> QED BY <1>2, <2>2, <3>1 DEF Declared
  <2> QED BY <1>3, <1>5, <2>1, <2>2
<1>6. CASE ~link[k]
  BY <1>2, <1>6 DEF Declared
<1> QED BY <1>4, <1>5, <1>6 DEF Declared, q, mine

LEMMA ConnectedDeclared ==
    ASSUME ConsoleTypes, NEW k \in Consoles, Declared(k), Connected(k)
    PROVE  Declared(k)'
<1>1. UNCHANGED <<link, watching, admitted, lingering, selected>>
  BY DEF Connected, engine
<1>2. CASE selected[k] = Nobody
  BY <1>1, <1>2 DEF Connected, Redeclared, Declared
<1>3. CASE selected[k] # Nobody /\ link[k]
  <2> DEFINE request == Request("watch", selected[k])
  <2>1. request \in Requests /\ requests[k] \in Seq(Requests)
    BY RequestTypes DEF ConsoleTypes, ConsoleTypeOK
  <2>2. requests'[k] = Append(requests[k], request)
    BY <1>3, <2>1, SentType DEF Connected, Redeclared, ConsoleTypes
  <2> HIDE DEF request
  <2>3. LastIn(requests'[k], Watches, {request})
    BY <2>1, <2>2, QueueAppend
  <2> QED BY <1>1, <2>3 DEF Declared, request
<1> QED BY <1>1, <1>2, <1>3 DEF Declared

LEMMA DeclaredStep ==
    ASSUME ConsoleTypes, NEW k \in Consoles, Idle(k), Declared(k), [ConsoleNext]_vars
    PROVE  Declared(k)'
<1> USE DEF network, backend, engine, history, progress, bounds
<1>1. ASSUME /\ link'[k] = link[k] /\ requests'[k] = requests[k] /\ watching'[k] = watching[k]
             /\ selected'[k] = selected[k] /\ session'[k] = session[k]
             /\ lingering'[k] = lingering[k] /\ (k \in admitted' <=> k \in admitted)
      PROVE  Declared(k)'
  BY <1>1 DEF Declared
<1>2. ASSUME NEW p \in Clients, ClientConnects(p) \/ ClientLost(p) \/ Heartbeat(p)
      PROVE  Declared(k)'
  BY <1>1, <1>2 DEF ClientConnects, ClientLost, Heartbeat
<1>3. ASSUME NEW j \in Consoles, Handle(j) PROVE Declared(k)'
  <2>1. CASE j # k
    BY <1>1, <1>3, <2>1 DEF Handle, ConsoleTypes, ConsoleTypeOK
  <2> QED BY <1>3, <2>1, HandleDeclared
<1>4. ASSUME NEW j \in Consoles, HandlerEnds(j) PROVE Declared(k)'
  <2>1. CASE j # k
    BY <1>1, <1>4, <2>1 DEF HandlerEnds, ConsoleTypes, ConsoleTypeOK
  <2>2. CASE j = k
    <3>1. k \notin admitted' /\ watching'[k] = Nobody /\ UNCHANGED <<link, requests, selected>>
      BY <1>4, <2>2 DEF HandlerEnds, ConsoleTypes, ConsoleTypeOK
    <3> QED BY <3>1 DEF Declared
  <2> QED BY <2>1, <2>2
<1>5. ASSUME NEW j \in Consoles, Connect(j) PROVE Declared(k)'
  <2>1. CASE j # k
    BY <1>1, <1>5, <2>1 DEF Connect, ConsoleTypes, ConsoleTypeOK
  <2>2. CASE j = k
    <3>1. requests'[k] = <<Request("list", Nobody)>> /\ session'[k] = "listing"
      BY <1>5, <2>2 DEF Connect, ConsoleTypes, ConsoleTypeOK
    <3>2. NoneIn(requests'[k], Watches)
      BY <3>1 DEF NoneIn, Watches, Request
    <3>3. lingering'[k] > 0 \/ watching'[k] = Nobody
      <4>1. ~link[k] /\ lingering' = lingering /\ watching' = watching
        BY <1>5, <2>2 DEF Connect, ConsoleTypes, ConsoleTypeOK
      <4>2. lingering[k] \in Nat
        BY ConsoleAssumption DEF ConsoleTypes, ConsoleTypeOK
      <4> QED BY <4>1, <4>2 DEF Idle
    <3> QED BY <3>1, <3>2, <3>3 DEF Declared
  <2> QED BY <2>1, <2>2
<1>6. ASSUME NEW j \in Consoles, Connected(j) PROVE Declared(k)'
  <2>1. CASE j # k
    <3>1. Request("watch", selected[j]) \in Requests
      BY RequestTypes DEF ConsoleTypes, ConsoleTypeOK
    <3>2. requests'[k] = requests[k]
      BY <1>6, <2>1, <3>1, SentType DEF Connected, Redeclared, ConsoleTypes
    <3> QED BY <1>1, <1>6, <2>1, <3>2 DEF Connected, ConsoleTypes, ConsoleTypeOK
  <2> QED BY <1>6, <2>1, ConnectedDeclared
<1>7. ASSUME NEW j \in Consoles, Lose(j) \/ Disconnect(j) PROVE Declared(k)'
  <2>1. CASE j # k
    BY <1>1, <1>7, <2>1 DEF Lose, Disconnect, Unplugged, ConsoleTypes, ConsoleTypeOK
  <2>2. CASE j = k
    BY <1>7, <2>2 DEF Lose, Disconnect, Unplugged, ConsoleTypes, ConsoleTypeOK, Declared
  <2> QED BY <2>1, <2>2
<1>8. ASSUME NEW j \in Consoles, Notice(j) \/ NoticeFails(j) PROVE Declared(k)'
  <2>1. CASE j # k
    BY <1>1, <1>8, <2>1 DEF Notice, NoticeFails, NoticeBy, ConsoleTypes, ConsoleTypeOK
  <2>2. CASE j = k
    BY <1>8, <2>2 DEF Notice, NoticeFails, NoticeBy, Declared
  <2> QED BY <2>1, <2>2
<1>9. ASSUME NEW j \in Consoles, NEW p \in Clients \cup {Nobody}, Select(j, p) PROVE Declared(k)'
  <2> DEFINE request == Request("watch", p)
  <2>1. request \in Requests /\ requests[k] \in Seq(Requests)
    BY RequestTypes DEF ConsoleTypes, ConsoleTypeOK
  <2>2. CASE j # k
    <3>1. requests'[k] = requests[k]
      BY <1>9, <2>1, <2>2, SentType DEF Select, ConsoleTypes
    <3> QED BY <1>1, <1>9, <2>2, <3>1 DEF Select, ConsoleTypes, ConsoleTypeOK
  <2>3. CASE j = k /\ link[k]
    <3>1. requests'[k] = Append(requests[k], request) /\ selected'[k] = p
      BY <1>9, <2>1, <2>3, SentType DEF Select, ConsoleTypes, ConsoleTypeOK
    <3> HIDE DEF request
    <3>2. LastIn(requests'[k], Watches, {request})
      BY <2>1, <3>1, QueueAppend
    <3> QED BY <3>1, <3>2 DEF Declared, request
  <2>4. CASE ~link[k]
    BY <1>9, <2>4 DEF Select, Declared
  <2> QED BY <2>2, <2>3, <2>4
<1>10. ASSUME NEW j \in Consoles, NEW p \in Clients, Pause(j, p) \/ Resume(j, p) \/ ExtendPause(j, p)
       PROVE  Declared(k)'
  <2>1. Request("pause", p) \in Requests \ Watches /\ Request("resume", p) \in Requests \ Watches
    BY RequestTypes DEF Watches, Request
  <2> QED BY <1>10, <2>1, SentDeclared DEF Pause, Resume, ExtendPause, SendPause
<1>11. ASSUME NEW j \in Consoles, Listen(j) PROVE Declared(k)'
  <2>1. Request("list", Nobody) \in Requests \ Watches
    BY RequestTypes DEF Watches, Request
  <2> QED BY <1>11, <2>1, SentDeclared DEF Listen
<1>12. CASE Tick \/ UNCHANGED vars \/ \E j \in Consoles : CheckPauseExpiry(j)
  BY <1>1, <1>12 DEF Tick, vars, CheckPauseExpiry
<1> QED BY <1>2, <1>3, <1>4, <1>5, <1>6, <1>7, <1>8, <1>9, <1>10, <1>11, <1>12 DEF ConsoleNext

SelectionInv == \A k \in Consoles : Idle(k) /\ Declared(k)

LEMMA SelectionInit == ConsoleInit => SelectionInv
BY DEF ConsoleInit, SelectionInv, Idle, Declared

LEMMA SelectionStep == ConsoleTypes /\ SelectionInv /\ [ConsoleNext]_vars => SelectionInv'
<1> SUFFICES ASSUME ConsoleTypes, SelectionInv, [ConsoleNext]_vars, NEW k \in Consoles
             PROVE  Idle(k)' /\ Declared(k)'
  BY DEF SelectionInv
<1> QED BY IdleStep, DeclaredStep DEF SelectionInv

(***************************************************************************)
(* Whatever its operator selects, before, during and after a reconnect     *)
(* that may overlap the connection before it, what the Engine relays to a  *)
(* console is what it has selected once nothing is under way; or nothing,  *)
(* where the cleanup of an earlier connection took its entry.              *)
(***************************************************************************)
THEOREM SelectionDeclaredAlways == ConsoleSpec => []SelectionDeclared
<1>1. ConsoleTypes /\ SelectionInv => SelectionDeclared
  <2> SUFFICES ASSUME ConsoleTypes, SelectionInv, NEW k \in Consoles, Settled, link[k]
               PROVE  watching[k] = selected[k] \/ (k \notin admitted /\ watching[k] = Nobody)
    BY DEF SelectionDeclared
  <2>1. requests[k] = <<>> /\ session[k] # "listing" /\ link[k] /\ ~(lingering[k] > 0)
    BY DEF Settled
  <2>2. ~LastIn(requests[k], Watches, {Request("watch", selected[k])})
    BY <2>1 DEF LastIn
  <2> QED BY <2>1, <2>2 DEF SelectionInv, Declared
<1> QED BY <1>1, SelectionInit, SelectionStep, ConsoleTypeInit, ConsoleTypeStep, PTL DEF ConsoleSpec

-----------------------------------------------------------------------------
\* What one console's step leaves alone of another.

Acts(j) ==
    \/ Handle(j) \/ HandlerEnds(j)
    \/ Connect(j) \/ Connected(j) \/ Lose(j) \/ Notice(j) \/ NoticeFails(j) \/ Disconnect(j)
    \/ \E p \in Clients \cup {Nobody} : Select(j, p)
    \/ \E p \in Clients : Pause(j, p) \/ Resume(j, p) \/ ExtendPause(j, p)
    \/ Listen(j) \/ CheckPauseExpiry(j)

Same(k) ==
    /\ link'[k] = link[k] /\ (k \in admitted' <=> k \in admitted)
    /\ requests'[k] = requests[k] /\ replies'[k] = replies[k]
    /\ pauseUntil'[k] = pauseUntil[k] /\ warned'[k] = warned[k]
    /\ untold'[k] = untold[k] /\ standing'[k] = standing[k] /\ (k \in checked' <=> k \in checked)

LEMMA Elsewhere ==
    ASSUME ConsoleTypes, NEW k \in Consoles, NEW j \in Consoles \ {k}, Acts(j)
    PROVE  Same(k)
<1> USE DEF Same, network, backend, engine, history, progress, bounds
<1>1. CASE Handle(j)
  BY <1>1 DEF Handle, ConsoleTypes, ConsoleTypeOK
<1>2. CASE HandlerEnds(j) \/ Notice(j) \/ NoticeFails(j)
  BY <1>2 DEF HandlerEnds, Notice, NoticeFails, NoticeBy
<1>3. CASE Connect(j)
  BY <1>3 DEF Connect, ConsoleTypes, ConsoleTypeOK
<1>4. CASE Lose(j) \/ Disconnect(j)
  BY <1>4 DEF Lose, Disconnect, Unplugged, ConsoleTypes, ConsoleTypeOK
<1>5. ASSUME NEW request \in Requests, requests' = Sent(j, request) \/ requests' = requests
      PROVE  requests'[k] = requests[k]
  <2>1. Sent(j, request)[k] = requests[k]
    BY SentType DEF ConsoleTypes
  <2> QED BY <1>5, <2>1
<1>6. CASE Connected(j)
  <2>1. Request("watch", selected[j]) \in Requests
    BY RequestTypes DEF ConsoleTypes, ConsoleTypeOK
  <2> QED BY <1>5, <1>6, <2>1 DEF Connected, Redeclared
<1>7. ASSUME NEW p \in Clients \cup {Nobody}, Select(j, p) PROVE Same(k)
  BY <1>5, <1>7, RequestTypes DEF Select
<1>8. ASSUME NEW p \in Clients, Pause(j, p) \/ Resume(j, p) PROVE Same(k)
  BY <1>5, <1>8, RequestTypes DEF Pause, Resume, SendPause
<1>9. ASSUME NEW p \in Clients, ExtendPause(j, p) PROVE Same(k)
  BY <1>5, <1>9, RequestTypes DEF ExtendPause, SendPause, ConsoleTypes, ConsoleTypeOK
<1>10. CASE Listen(j)
  <2>1. requests'[k] = requests[k]
    BY <1>5, <1>10, RequestTypes DEF Listen
  <2> QED BY <1>10, <2>1 DEF Listen, ConsoleTypes, ConsoleTypeOK
<1>11. CASE CheckPauseExpiry(j)
  BY <1>11 DEF CheckPauseExpiry, ConsoleTypes, ConsoleTypeOK
<1> QED BY <1>1, <1>2, <1>3, <1>4, <1>6, <1>7, <1>8, <1>9, <1>10, <1>11 DEF Acts

\* A console's step changes no entry, and a pause only to end now or at the cap.
LEMMA ActsPause ==
    ASSUME ConsoleTypes, NEW j \in Consoles, Acts(j)
    PROVE  /\ now' = now /\ entry' = entry
           /\ \A p \in Clients : pause'[p] = pause[p] \/ pause'[p] \in {0, now + MaxPause}
<1> USE DEF network, backend, engine, history, progress, bounds
<1>1. CASE Handle(j)
  BY <1>1 DEF Handle, Applied, ConsoleTypes, ConsoleTypeOK
<1>2. CASE ~Handle(j)
  BY <1>2 DEF Acts, HandlerEnds, Connect, Connected, Lose, Notice, NoticeFails, NoticeBy, Disconnect, Select, Pause, Resume,
              ExtendPause, SendPause, Listen, CheckPauseExpiry
<1> QED BY <1>1, <1>2

-----------------------------------------------------------------------------
\* A heartbeat leaves the entry as the file has it, until time or a command
\* moves on.

BeatenInv == \A p \in beaten : entry[p] = Reported(p)

LEMMA BeatenStep == ConsoleTypes /\ BeatenInv /\ [ConsoleNext]_vars => BeatenInv'
<1> SUFFICES ASSUME ConsoleTypes, BeatenInv, [ConsoleNext]_vars, NEW q \in beaten'
             PROVE  entry'[q] = Reported(q)'
  BY DEF BeatenInv
<1> USE DEF BeatenInv, Reported, network, backend, engine, history, progress, bounds
<1>1. ASSUME NEW p \in Clients, ClientConnects(p) PROVE entry'[q] = Reported(q)'
  BY <1>1 DEF ClientConnects, ConsoleTypes, ConsoleTypeOK
<1>2. ASSUME NEW p \in Clients, ClientLost(p) PROVE entry'[q] = Reported(q)'
  BY <1>2 DEF ClientLost, ConsoleTypes, ConsoleTypeOK
<1>3. ASSUME NEW p \in Clients, Heartbeat(p) PROVE entry'[q] = Reported(q)'
  BY <1>3 DEF Heartbeat, ConsoleTypes, ConsoleTypeOK
<1>4. ASSUME NEW j \in Consoles, Handle(j) PROVE entry'[q] = Reported(q)'
  BY <1>4 DEF Handle, ConsoleTypes, ConsoleTypeOK
<1>5. ASSUME NEW j \in Consoles, Acts(j), ~Handle(j) PROVE entry'[q] = Reported(q)'
  BY <1>5 DEF Acts, HandlerEnds, Connect, Connected, Lose, Notice, NoticeFails, NoticeBy, Disconnect, Select, Pause, Resume,
              ExtendPause, SendPause, Listen, CheckPauseExpiry
<1>6. CASE Tick \/ UNCHANGED vars
  BY <1>6 DEF Tick, vars
<1> QED BY <1>1, <1>2, <1>3, <1>4, <1>5, <1>6 DEF ConsoleNext, Acts

-----------------------------------------------------------------------------
\* What a console knows of a pause, or will when it has heard what is under way:
\* the entry as it is, or that an entry which has run out is over.

Lists == {request \in Requests : request.do = "list"}
About(p) == {word \in Words : p \in DOMAIN word.says}
Says(p, until) == {word \in About(p) : word.says[p] = until}
Shown(p) == IF entry[p] = Nobody THEN 0 ELSE entry[p]

Known(k, p) ==
    link[k] /\ k \in admitted /\ p \notin untold[k] =>
        \/ ~NoneIn(requests[k], Lists)
        \/ LastIn(replies[k], About(p), Says(p, Shown(p)))
        \/ /\ NoneIn(replies[k], About(p))
           /\ pauseUntil[k][p] = Shown(p) \/ (pauseUntil[k][p] = 0 /\ Shown(p) <= now)

LEMMA ShownType ==
    ASSUME ConsoleTypes, NEW p \in Clients
    PROVE  Shown(p) \in Nat /\ Roster[p] = Shown(p) /\ now \in Nat
<1>1. entry[p] \in Times \cup {Nobody}
  BY DEF ConsoleTypes, ConsoleTypeOK
<1>2. \A i \in Times : i \in Nat
  BY TimesOK
<1>3. 0 \in Nat
  OBVIOUS
<1>4. Shown(p) \in Nat
  BY <1>1, <1>2, <1>3 DEF Shown
<1>5. now \in Nat
  BY ConsoleAssumption DEF ConsoleTypes, ConsoleTypeOK
<1> QED BY <1>4, <1>5 DEF Roster, Shown

\* Another request sent keeps what was asked for.
LEMMA SentAsked ==
    ASSUME ConsoleTypes, NEW k \in Consoles, NEW j \in Consoles, NEW request \in Requests,
           requests' = Sent(j, request) \/ requests' = requests, NEW S,
           NoneIn(requests'[k], S)
    PROVE  NoneIn(requests[k], S)
<1>1. requests[k] \in Seq(Requests)
  BY DEF ConsoleTypes, ConsoleTypeOK
<1>2. NoneIn(Append(requests[k], request), S) => NoneIn(requests[k], S)
  BY <1>1, QueueAppend
<1> QED BY <1>2, SentAt

LEMMA KnownKept ==
    ASSUME ConsoleTypes, NEW k \in Consoles, NEW p \in Clients, Known(k, p),
           link'[k] = link[k], k \in admitted' => k \in admitted,
           untold'[k] = untold[k], replies'[k] = replies[k], pauseUntil'[k] = pauseUntil[k],
           NoneIn(requests'[k], Lists) => NoneIn(requests[k], Lists),
           Shown(p)' = Shown(p), now' = now
    PROVE  Known(k, p)'
BY DEF Known

LEMMA HeartbeatKnown ==
    ASSUME ConsoleTypes, NEW k \in Consoles, NEW p \in Clients, Known(k, p),
           NEW q \in Clients, Heartbeat(q)
    PROVE  Known(k, p)'
<1> DEFINE word == Word([i \in {q} |-> Reported(q)], TRUE)
<1>1. /\ word \in Words /\ word.says[q] = Reported(q) /\ DOMAIN word.says = {q}
      /\ replies[k] \in Seq(Words) /\ Reported(q) # Nobody
  BY HeartbeatWord, ReportedType DEF ConsoleTypes
<1>2. /\ UNCHANGED <<now, link, admitted, requests, pauseUntil>>
      /\ entry' = [entry EXCEPT ![q] = Reported(q)]
      /\ entry[q] # Nobody
  BY DEF Heartbeat, Registered, backend
<1>3. Flips(q) /\ link[k] /\ k \in admitted => replies'[k] = Append(replies[k], word)
  BY DEF Heartbeat, Told, ConsoleTypes, ConsoleTypeOK
<1> HIDE DEF word
<1>4. CASE p # q
  <2>1. Shown(p)' = Shown(p)
    BY <1>2, <1>4 DEF Shown, ConsoleTypes, ConsoleTypeOK
  <2>2. p \in untold'[k] <=> p \in untold[k]
    BY <1>4 DEF Heartbeat, ConsoleTypes
  <2>3. CASE Flips(q) /\ link[k] /\ k \in admitted
    <3>1. word \notin About(p)
      BY <1>1, <1>4 DEF About
    <3>2. NoneIn(replies[k], About(p)) => NoneIn(replies'[k], About(p))
      <4>1. NoneIn(replies[k], About(p)) => NoneIn(Append(replies[k], word), About(p))
        BY <1>1, <3>1, QueueAppend
      <4> QED BY <1>3, <2>3, <4>1
    <3>3. LastIn(replies[k], About(p), Says(p, Shown(p)))
              => LastIn(replies'[k], About(p), Says(p, Shown(p)))
      <4> DEFINE V == Says(p, Shown(p))
      <4> HIDE DEF V
      <4>1. LastIn(replies[k], About(p), V) => LastIn(Append(replies[k], word), About(p), V)
        BY <1>1, <3>1, QueueAppend
      <4> QED BY <1>3, <2>3, <4>1 DEF V
    <3> QED BY <1>2, <2>1, <2>2, <3>2, <3>3 DEF Known, Says
  <2>4. CASE ~Flips(q)
    <3>1. replies' = replies
      BY <2>4 DEF Heartbeat
    <3> QED BY <1>2, <2>1, <2>2, <3>1 DEF Known, Says
  <2>5. CASE ~link[k] \/ k \notin admitted
    BY <1>2, <2>5 DEF Known
  <2> QED BY <2>3, <2>4, <2>5
<1>5. CASE p = q
  <2>1. Shown(p)' = Reported(q)
    BY <1>1, <1>2, <1>5 DEF Shown, ConsoleTypes, ConsoleTypeOK
  <2>2. CASE Flips(q) /\ link[k] /\ k \in admitted
    <3>1. word \in Says(p, Reported(q))
      BY <1>1, <1>5 DEF Says, About
    <3>2. LastIn(replies'[k], About(p), Says(p, Reported(q)))
      <4> DEFINE V == Says(p, Reported(q))
      <4> HIDE DEF V
      <4>1. LastIn(Append(replies[k], word), About(p), V)
        BY <1>1, <3>1, QueueAppend DEF V
      <4> QED BY <1>3, <2>2, <4>1 DEF V
    <3> QED BY <2>1, <3>2 DEF Known, Says
  <2>3. CASE ~Flips(q) /\ Moved(q)
    <3>1. p \in untold'[k]
      BY <1>5, <2>3 DEF Heartbeat
    <3> QED BY <3>1 DEF Known
  <2>4. CASE ~Flips(q) /\ ~Moved(q)
    <3>1. Reported(q) = entry[q]
      BY <2>4 DEF Flips, Moved
    <3>2. Shown(p)' = Shown(p)
      BY <1>2, <1>5, <2>1, <3>1 DEF Shown
    <3>3. replies' = replies /\ untold'[k] = untold[k]
      BY <2>4 DEF Heartbeat, ConsoleTypes
    <3> QED BY <1>2, <3>2, <3>3 DEF Known, Says
  <2>5. CASE ~link[k] \/ k \notin admitted
    BY <1>2, <2>5 DEF Known
  <2> QED BY <2>2, <2>3, <2>4, <2>5
<1> QED BY <1>4, <1>5

LEMMA HandleKnown ==
    ASSUME ConsoleTypes, NEW k \in Consoles, NEW p \in Clients, Known(k, p), Handle(k)
    PROVE  Known(k, p)'
<1> DEFINE q == requests[k]
<1>1. q \in Seq(Requests) /\ q # <<>> /\ replies[k] \in Seq(Words)
  BY DEF Handle, ConsoleTypes, ConsoleTypeOK
<1>2. requests'[k] = Tail(q) /\ UNCHANGED <<now, entry, link, admitted, pauseUntil>>
  BY DEF Handle, ConsoleTypes, ConsoleTypeOK, backend
<1>3. Head(q) \in Requests /\ (NoneIn(q, Lists) <=> Head(q) \notin Lists /\ NoneIn(Tail(q), Lists))
  BY <1>1, QueueTail
<1>4. Shown(p)' = Shown(p)
  BY <1>2 DEF Shown
<1>5. CASE Head(q).do = "list" /\ link[k] /\ k \in admitted
  <2> DEFINE word == Word(Roster, FALSE)
             V == Says(p, Shown(p))
  <2>1. word \in Words /\ word \in About(p) /\ word \in V
    BY RosterWord, ShownType DEF About, Says
  <2>2. replies'[k] = Append(replies[k], word)
    BY <1>5 DEF Handle, Told, ConsoleTypes
  <2> HIDE DEF word, V
  <2>3. LastIn(Append(replies[k], word), About(p), V)
    BY <1>1, <2>1, QueueAppend
  <2>4. LastIn(replies'[k], About(p), Says(p, Shown(p)))
    BY <2>2, <2>3 DEF V
  <2> QED BY <1>4, <2>4 DEF Known, Says
<1>6. CASE Head(q).do # "list"
  <2>1. replies' = replies /\ untold' = untold
    BY <1>6 DEF Handle
  <2>2. NoneIn(requests'[k], Lists) => NoneIn(requests[k], Lists)
    BY <1>2, <1>3, <1>6 DEF Lists
  <2> QED BY <1>2, <1>4, <2>1, <2>2, KnownKept
<1>7. CASE ~link[k] \/ k \notin admitted
  BY <1>2, <1>7 DEF Known
<1> QED BY <1>5, <1>6, <1>7

LEMMA ListenKnown ==
    ASSUME ConsoleTypes, NEW k \in Consoles, NEW p \in Clients, Known(k, p), Listen(k)
    PROVE  Known(k, p)'
<1> DEFINE q == replies[k]
           V == Says(p, Shown(p))
<1>1. q \in Seq(Words) /\ q # <<>>
  BY DEF Listen, ConsoleTypes
<1>2. replies'[k] = Tail(q) /\ UNCHANGED <<now, entry, link, admitted, untold>>
  BY DEF Listen, ConsoleTypes, engine
<1>3. Shown(p)' = Shown(p)
  BY <1>2 DEF Shown
<1>4. NoneIn(requests'[k], Lists) => NoneIn(requests[k], Lists)
  BY RequestTypes, SentAsked DEF Listen
<1>5. pauseUntil'[k][p] = IF p \in DOMAIN Head(q).says THEN Head(q).says[p] ELSE pauseUntil[k][p]
  BY DEF Listen, ConsoleTypes, ConsoleTypeOK
<1> HIDE DEF q, V
<1>6. /\ Head(q) \in Words
      /\ NoneIn(q, About(p)) => Head(q) \notin About(p) /\ NoneIn(Tail(q), About(p))
      /\ LastIn(q, About(p), V)
             => LastIn(Tail(q), About(p), V) \/ (Head(q) \in V /\ NoneIn(Tail(q), About(p)))
  BY <1>1, QueueTail
<1>7. CASE LastIn(q, About(p), V)
  <2>1. CASE LastIn(Tail(q), About(p), V)
    BY <1>2, <1>3, <2>1 DEF Known, V, Says
  <2>2. CASE Head(q) \in V /\ NoneIn(Tail(q), About(p))
    <3>1. pauseUntil'[k][p] = Shown(p)
      BY <1>5, <2>2 DEF V, Says, About
    <3> QED BY <1>2, <1>3, <2>2, <3>1 DEF Known
  <2> QED BY <1>6, <1>7, <2>1, <2>2
<1>8. CASE /\ NoneIn(q, About(p))
           /\ pauseUntil[k][p] = Shown(p) \/ (pauseUntil[k][p] = 0 /\ Shown(p) <= now)
  <2>1. pauseUntil'[k][p] = pauseUntil[k][p]
    BY <1>5, <1>6, <1>8 DEF About
  <2> QED BY <1>2, <1>3, <1>6, <1>8, <2>1 DEF Known
<1>9. CASE ~NoneIn(requests[k], Lists) \/ ~link[k] \/ k \notin admitted \/ p \in untold[k]
  BY <1>2, <1>4, <1>9 DEF Known
<1> QED BY <1>7, <1>8, <1>9 DEF Known, q, V

LEMMA ActsKnown ==
    ASSUME ConsoleTypes, NEW k \in Consoles, NEW p \in Clients, Known(k, p), Acts(k)
    PROVE  Known(k, p)'
<1> USE DEF network, backend, engine, history, progress, bounds
<1>1. now' = now /\ Shown(p)' = Shown(p)
  BY ActsPause DEF Shown
<1>2. CASE HandlerEnds(k) \/ Notice(k) \/ NoticeFails(k)
  BY <1>1, <1>2, KnownKept DEF HandlerEnds, Notice, NoticeFails, NoticeBy
<1>3. CASE Connect(k)
  <2>1. requests'[k] = <<Request("list", Nobody)>>
    BY <1>3 DEF Connect, ConsoleTypes, ConsoleTypeOK
  <2>2. Request("list", Nobody) \in Lists
    BY RequestTypes DEF Lists, Request
  <2>3. ~NoneIn(requests'[k], Lists)
    BY <2>1, <2>2 DEF NoneIn
  <2> QED BY <2>3 DEF Known
<1>4. CASE Lose(k) \/ Disconnect(k)
  BY <1>4 DEF Lose, Disconnect, Unplugged, Known, ConsoleTypes, ConsoleTypeOK
<1>5. ASSUME NEW request \in Requests, requests' = Sent(k, request) \/ requests' = requests,
             UNCHANGED <<link, admitted, replies, pauseUntil, untold>>
      PROVE  Known(k, p)'
  <2>1. NoneIn(requests'[k], Lists) => NoneIn(requests[k], Lists)
    BY <1>5, SentAsked
  <2> QED BY <1>1, <1>5, <2>1, KnownKept
<1>6. CASE Connected(k)
  <2>1. Request("watch", selected[k]) \in Requests
    BY RequestTypes DEF ConsoleTypes, ConsoleTypeOK
  <2> QED BY <1>5, <1>6, <2>1 DEF Connected, Redeclared
<1>7. ASSUME NEW q \in Clients \cup {Nobody}, Select(k, q) PROVE Known(k, p)'
  BY <1>5, <1>7, RequestTypes DEF Select
<1>8. ASSUME NEW q \in Clients, Pause(k, q) \/ Resume(k, q) \/ ExtendPause(k, q) PROVE Known(k, p)'
  BY <1>5, <1>8, RequestTypes DEF Pause, Resume, ExtendPause, SendPause
<1>9. CASE CheckPauseExpiry(k)
  <2>1. pauseUntil'[k][p] = IF p \in Over(k) THEN 0 ELSE pauseUntil[k][p]
    BY <1>9 DEF CheckPauseExpiry, ConsoleTypes, ConsoleTypeOK
  <2>2. p \in Over(k) => pauseUntil[k][p] <= now
    BY DEF Over
  <2> QED BY <1>1, <1>9, <2>1, <2>2 DEF CheckPauseExpiry, Known, Says
<1> QED BY <1>2, <1>3, <1>4, <1>6, <1>7, <1>8, <1>9, HandleKnown, ListenKnown DEF Acts

LEMMA KnownStep ==
    ASSUME ConsoleTypes, NEW k \in Consoles, NEW p \in Clients, Known(k, p), [ConsoleNext]_vars
    PROVE  Known(k, p)'
<1> USE DEF network, backend, engine, history, progress, bounds
<1>1. ASSUME NEW q \in Clients, ClientConnects(q) PROVE Known(k, p)'
  <2>1. Shown(p)' = Shown(p)
    BY <1>1, TimesOK DEF ClientConnects, Shown, ConsoleTypes, ConsoleTypeOK
  <2> QED BY <1>1, <2>1, KnownKept DEF ClientConnects
<1>2. ASSUME NEW q \in Clients, ClientLost(q) PROVE Known(k, p)'
  <2>1. CASE p = q /\ entry[q] # 0
    <3>1. p \in untold'[k]
      BY <1>2, <2>1 DEF ClientLost
    <3> QED BY <3>1 DEF Known
  <2>2. CASE p # q \/ entry[q] = 0
    <3>1. Shown(p)' = Shown(p)
      BY <1>2, <2>2, TimesOK DEF ClientLost, Shown, ConsoleTypes, ConsoleTypeOK
    <3>2. p \in untold'[k] <=> p \in untold[k]
      BY <1>2, <2>2 DEF ClientLost, ConsoleTypes
    <3> QED BY <1>2, <3>1, <3>2 DEF ClientLost, Known, Says
  <2> QED BY <2>1, <2>2
<1>3. ASSUME NEW q \in Clients, Heartbeat(q) PROVE Known(k, p)'
  BY <1>3, HeartbeatKnown
<1>4. ASSUME NEW j \in Consoles, Acts(j) PROVE Known(k, p)'
  <2>1. CASE j = k
    BY <1>4, <2>1, ActsKnown
  <2>2. CASE j # k
    <3>1. Same(k) /\ now' = now /\ Shown(p)' = Shown(p)
      BY <1>4, <2>2, Elsewhere, ActsPause DEF Shown
    <3> QED BY <3>1, KnownKept DEF Same
  <2> QED BY <2>1, <2>2
<1>5. CASE Tick
  <2>1. /\ now' = now + 1 /\ Shown(p)' = Shown(p)
        /\ UNCHANGED <<link, admitted, requests, replies, untold, pauseUntil>>
    BY <1>5 DEF Tick, Shown
  <2>2. Shown(p) <= now => Shown(p) <= now'
    BY <2>1, ShownType
  <2> QED BY <2>1, <2>2 DEF Known, Says
<1>6. CASE UNCHANGED vars
  BY <1>6, KnownKept DEF vars, Shown
<1> QED BY <1>1, <1>2, <1>3, <1>4, <1>5, <1>6 DEF ConsoleNext, Acts

KnownInv == BeatenInv /\ \A k \in Consoles, p \in Clients : Known(k, p)

LEMMA KnownInit == ConsoleInit => KnownInv
BY DEF ConsoleInit, KnownInv, BeatenInv, Known

LEMMA KnownInvStep == ConsoleTypes /\ KnownInv /\ [ConsoleNext]_vars => KnownInv'
BY BeatenStep, KnownStep DEF KnownInv

\* When nothing is under way, what a console knows is what the entry and the
\* client's file say.
LEMMA KnownSettled ==
    ASSUME ConsoleTypes, KnownInv, NEW k \in Consoles, UpToDate(k),
           NEW p \in Registered \ untold[k]
    PROVE  pauseUntil[k][p] = Reported(p)
<1>1. /\ p \in Clients /\ p \in beaten /\ entry[p] # Nobody
      /\ requests[k] = <<>> /\ replies[k] = <<>> /\ link[k] /\ k \in admitted
  BY DEF UpToDate, Settled, Registered
<1>2. entry[p] = Reported(p) /\ Shown(p) = Reported(p)
  BY <1>1 DEF KnownInv, BeatenInv, Shown
<1>3. NoneIn(requests[k], Lists) /\ ~LastIn(replies[k], About(p), Says(p, Shown(p)))
  BY <1>1 DEF NoneIn, LastIn
<1>4. pauseUntil[k][p] = Shown(p) \/ (pauseUntil[k][p] = 0 /\ Shown(p) <= now)
  BY <1>1, <1>3 DEF KnownInv, Known
<1>5. Reported(p) <= now => Reported(p) = 0
  <2>1. now \in Nat /\ pause[p] \in Nat
    BY <1>1, ShownType, TimesOK DEF ConsoleTypes, ConsoleTypeOK
  <2> QED BY <2>1 DEF Reported
<1> QED BY <1>2, <1>4, <1>5

(***************************************************************************)
(* With nothing under way a connected console knows of every pause, and    *)
(* until when, save those that changed without a word since its last       *)
(* roster: for any clients, consoles, lost connections and commands.       *)
(***************************************************************************)
THEOREM PausesKnownAlways == ConsoleSpec => []PausesKnown
<1>1. ConsoleTypes /\ KnownInv => PausesKnown
  BY KnownSettled DEF PausesKnown
<1> QED BY <1>1, KnownInit, KnownInvStep, ConsoleTypeInit, ConsoleTypeStep, PTL DEF ConsoleSpec

-----------------------------------------------------------------------------
\* The timer warns of what the console knows; what it could not warn of is on
\* its way, or will be.

Extending(p) == {Request("pause", p)}

\* A console whose timer has seen what it knows has warned of the pause, has asked
\* for more of it, or will hear otherwise.
Warned(k, p) ==
    k \in checked /\ link[k] /\ k \in admitted /\ p \in SoonOver(k) =>
        \/ p \in warned[k]
        \/ ~NoneIn(requests[k], Extending(p) \cup Lists)
        \/ replies[k] # <<>>
        \/ p \in untold[k]
        \/ pause[p] # now + 1

LEMMA WarnedKept ==
    ASSUME NEW k \in Consoles, NEW p \in Clients, Warned(k, p),
           k \in checked' => k \in checked, link'[k] => link[k],
           k \in admitted' => k \in admitted,
           p \in SoonOver(k)' => p \in SoonOver(k),
           p \in warned[k] => p \in warned'[k],
           NoneIn(requests'[k], Extending(p) \cup Lists) => NoneIn(requests[k], Extending(p) \cup Lists),
           replies'[k] = <<>> => replies[k] = <<>>,
           p \in untold[k] => p \in untold'[k],
           pause[p] # now + 1 => pause'[p] # now' + 1
    PROVE  Warned(k, p)'
BY DEF Warned, Extending, Request

LEMMA HeartbeatWarned ==
    ASSUME ConsoleTypes, NEW k \in Consoles, NEW p \in Clients, Warned(k, p),
           NEW q \in Clients, Heartbeat(q)
    PROVE  Warned(k, p)'
<1>1. /\ UNCHANGED <<now, pause, link, admitted, requests, pauseUntil, warned, checked>>
      /\ replies[k] \in Seq(Words)
  BY DEF Heartbeat, backend, ConsoleTypes
<1>2. CASE Flips(q) /\ link[k] /\ k \in admitted
  <2> DEFINE word == Word([i \in {q} |-> Reported(q)], TRUE)
  <2>1. replies'[k] = Append(replies[k], word)
    BY <1>2 DEF Heartbeat, Told, ConsoleTypes, ConsoleTypeOK
  <2>2. word \in Words
    BY HeartbeatWord
  <2> HIDE DEF word
  <2>3. replies'[k] # <<>>
    BY <1>1, <2>1, <2>2, AppendProperties
  <2> QED BY <2>3 DEF Warned
<1>3. CASE ~Flips(q)
  <2>1. replies' = replies /\ (p \in untold[k] => p \in untold'[k])
    BY <1>3 DEF Heartbeat, ConsoleTypes
  <2>2. SoonOver(k)' = SoonOver(k)
    BY <1>1 DEF SoonOver
  <2> QED BY <1>1, <2>1, <2>2, WarnedKept
<1>4. CASE ~link[k] \/ k \notin admitted
  BY <1>1, <1>4 DEF Warned
<1> QED BY <1>2, <1>3, <1>4

LEMMA HandleWarned ==
    ASSUME ConsoleTypes, NEW k \in Consoles, NEW p \in Clients, Warned(k, p), Known(k, p), Handle(k)
    PROVE  Warned(k, p)'
<1> DEFINE q == requests[k]
           S == Extending(p) \cup Lists
<1>1. q \in Seq(Requests) /\ q # <<>> /\ replies[k] \in Seq(Words)
  BY DEF Handle, ConsoleTypes, ConsoleTypeOK
<1>2. requests'[k] = Tail(q) /\ UNCHANGED <<now, entry, link, admitted, pauseUntil, warned, checked>>
  BY DEF Handle, ConsoleTypes, ConsoleTypeOK, backend
<1> HIDE DEF q, S
<1>3. Head(q) \in Requests /\ (NoneIn(q, S) <=> Head(q) \notin S /\ NoneIn(Tail(q), S))
  BY <1>1, QueueTail
<1>4. SoonOver(k)' = SoonOver(k)
  BY <1>2 DEF SoonOver
<1>5. pause[p] # now + 1 => pause'[p] # now + 1
  <2>1. pause'[p] = pause[p] \/ pause'[p] \in {0, now + MaxPause}
    BY ActsPause DEF Acts
  <2>2. now \in Nat /\ MaxPause \in Nat \ {0, 1}
    BY ShownType, ConsoleAssumption
  <2> QED BY <2>1, <2>2
<1>6. CASE Head(q) \in Lists /\ link[k] /\ k \in admitted
  <2> DEFINE word == Word(Roster, FALSE)
  <2>1. replies'[k] = Append(replies[k], word)
    BY <1>6 DEF Handle, Told, ConsoleTypes, Lists, q
  <2>2. word \in Words
    BY RosterWord
  <2> HIDE DEF word
  <2>3. replies'[k] # <<>>
    BY <1>1, <2>1, <2>2, AppendProperties
  <2> QED BY <2>3 DEF Warned
<1>7. Head(q) \notin Lists => replies' = replies /\ untold' = untold
  BY <1>3 DEF Handle, Lists, q
<1>8. CASE Head(q) \notin S
  <2>1. Head(q) \notin Lists
    BY <1>8 DEF S
  <2> QED BY <1>2, <1>3, <1>4, <1>5, <1>7, <1>8, <2>1, WarnedKept DEF S, q
<1>9. CASE Head(q) \in Extending(p) \ Lists
  <2>1. Head(q).do = "pause" /\ Head(q).of = p
    BY <1>9 DEF Extending, Request
  <2>2. CASE p \in Registered
    <3>1. pause'[p] = now + MaxPause
      BY <2>1, <2>2 DEF Handle, Applied, ConsoleTypes, ConsoleTypeOK, q
    <3>2. pause'[p] # now' + 1
      BY <1>2, <3>1, ConsoleAssumption DEF ConsoleTypes, ConsoleTypeOK
    <3> QED BY <3>2 DEF Warned
\* The Engine drops it: then the console knows of no pause, or will hear.
  <2>3. CASE p \notin Registered
    <3>1. Shown(p) = 0
      BY <2>3 DEF Shown, Registered
    <3>2. ~NoneIn(q, Lists) => ~NoneIn(requests'[k], S)
      <4>1. NoneIn(q, Lists) <=> Head(q) \notin Lists /\ NoneIn(Tail(q), Lists)
        BY <1>1, QueueTail
      <4>2. NoneIn(Tail(q), S) => NoneIn(Tail(q), Lists)
        BY DEF NoneIn, S
      <4> QED BY <1>2, <1>9, <4>1, <4>2
    <3>3. LastIn(replies[k], About(p), Says(p, Shown(p))) => replies[k] # <<>>
      BY DEF LastIn
    <3>4. p \in SoonOver(k) => pauseUntil[k][p] # 0
      BY DEF SoonOver, ConsoleTypes, ConsoleTypeOK
    <3> QED BY <1>2, <1>4, <1>7, <1>9, <3>1, <3>2, <3>3, <3>4 DEF Known, Warned, S, q, Extending, Request
  <2> QED BY <2>2, <2>3
<1>10. CASE ~link[k] \/ k \notin admitted
  BY <1>2, <1>10 DEF Warned
<1> QED BY <1>6, <1>8, <1>9, <1>10 DEF S

LEMMA ActsWarned ==
    ASSUME ConsoleTypes, NEW k \in Consoles, NEW p \in Clients, Warned(k, p), Known(k, p), Acts(k)
    PROVE  Warned(k, p)'
<1> USE DEF network, backend, engine, history, progress, bounds
<1> DEFINE S == Extending(p) \cup Lists
<1>1. CASE HandlerEnds(k) \/ Notice(k) \/ NoticeFails(k)
  BY <1>1, WarnedKept DEF HandlerEnds, Notice, NoticeFails, NoticeBy, SoonOver
<1>2. CASE Connect(k)
  <2>1. requests'[k] = <<Request("list", Nobody)>>
    BY <1>2 DEF Connect, ConsoleTypes, ConsoleTypeOK
  <2>2. Request("list", Nobody) \in Lists
    BY RequestTypes DEF Lists, Request
  <2>3. ~NoneIn(requests'[k], S)
    BY <2>1, <2>2 DEF NoneIn
  <2> QED BY <2>3 DEF Warned, Extending, Request
<1>3. CASE Lose(k) \/ Disconnect(k)
  BY <1>3 DEF Lose, Disconnect, Unplugged, Warned, ConsoleTypes, ConsoleTypeOK
<1>4. ASSUME NEW request \in Requests, requests' = Sent(k, request) \/ requests' = requests,
             UNCHANGED <<now, pause, link, admitted, replies, pauseUntil, untold, checked, warned>>
      PROVE  Warned(k, p)'
  <2>1. NoneIn(requests'[k], S) => NoneIn(requests[k], S)
    BY <1>4, SentAsked
  <2> QED BY <1>4, <2>1, WarnedKept DEF SoonOver
<1>5. CASE Connected(k)
  <2>1. Request("watch", selected[k]) \in Requests
    BY RequestTypes DEF ConsoleTypes, ConsoleTypeOK
  <2> QED BY <1>4, <1>5, <2>1 DEF Connected, Redeclared
<1>6. ASSUME NEW q \in Clients \cup {Nobody}, Select(k, q) PROVE Warned(k, p)'
  BY <1>4, <1>6, RequestTypes DEF Select
<1>7. ASSUME NEW q \in Clients, Pause(k, q) \/ Resume(k, q) PROVE Warned(k, p)'
  BY <1>4, <1>7, RequestTypes DEF Pause, Resume, SendPause
\* The warning is withdrawn, for the extension is on its way.
<1>8. ASSUME NEW q \in Clients, ExtendPause(k, q) PROVE Warned(k, p)'
  <2> DEFINE request == Request("pause", q)
  <2>1. /\ requests' = Sent(k, request) /\ request \in Requests
        /\ UNCHANGED <<now, pause, link, admitted, replies, pauseUntil, untold, checked>>
        /\ warned'[k] = warned[k] \ {q}
    BY <1>8, RequestTypes DEF ExtendPause, SendPause, ConsoleTypes, ConsoleTypeOK
  <2>2. CASE p = q /\ link[k]
    <3>1. requests[k] \in Seq(Requests) /\ requests'[k] = Append(requests[k], request)
      BY <2>1, <2>2, SentType DEF ConsoleTypes, ConsoleTypeOK
    <3>2. request \in S
      BY <2>2 DEF Extending
    <3> HIDE DEF request, S
    <3>3. ~NoneIn(Append(requests[k], request), S)
      BY <2>1, <3>1, <3>2, QueueAppend
    <3>4. ~NoneIn(requests'[k], S)
      BY <3>1, <3>3
    <3> QED BY <3>4 DEF Warned, S, Extending, Request
  <2>3. CASE p # q
    <3>1. NoneIn(requests'[k], S) => NoneIn(requests[k], S)
      BY <2>1, SentAsked
    <3>2. SoonOver(k)' = SoonOver(k)
      BY <2>1 DEF SoonOver
    <3> QED BY <2>1, <2>3, <3>1, <3>2, WarnedKept
  <2>4. CASE ~link[k]
    BY <2>1, <2>4 DEF Warned
  <2> QED BY <2>2, <2>3, <2>4
<1>9. CASE Listen(k)
  BY <1>9 DEF Listen, Warned
<1>10. CASE CheckPauseExpiry(k)
  <2>1. now \in Nat
    BY ShownType
  <2>2. SoonOver(k)' \subseteq SoonOver(k)
    <3>1. \A q \in Clients : pauseUntil'[k][q] = IF q \in Over(k) THEN 0 ELSE pauseUntil[k][q]
      BY <1>10 DEF CheckPauseExpiry, ConsoleTypes, ConsoleTypeOK
    <3> QED BY <1>10, <2>1, <3>1 DEF CheckPauseExpiry, SoonOver
  <2>3. SoonOver(k) \subseteq warned'[k]
    BY <1>10 DEF CheckPauseExpiry, ConsoleTypes, ConsoleTypeOK
  <2> QED BY <2>2, <2>3 DEF Warned
<1> QED BY <1>1, <1>2, <1>3, <1>5, <1>6, <1>7, <1>8, <1>9, <1>10, HandleWarned DEF Acts

LEMMA WarnedStep ==
    ASSUME ConsoleTypes, NEW k \in Consoles, NEW p \in Clients, Warned(k, p), Known(k, p),
           [ConsoleNext]_vars
    PROVE  Warned(k, p)'
<1> USE DEF network, backend, engine, history, progress, bounds
<1>1. ASSUME NEW q \in Clients, ClientConnects(q) PROVE Warned(k, p)'
  BY <1>1, WarnedKept DEF ClientConnects, SoonOver
<1>2. ASSUME NEW q \in Clients, ClientLost(q) PROVE Warned(k, p)'
  <2>1. p \in untold[k] => p \in untold'[k]
    BY <1>2 DEF ClientLost, ConsoleTypes
  <2> QED BY <1>2, <2>1, WarnedKept DEF ClientLost, SoonOver
<1>3. ASSUME NEW q \in Clients, Heartbeat(q) PROVE Warned(k, p)'
  BY <1>3, HeartbeatWarned
<1>4. ASSUME NEW j \in Consoles, Acts(j) PROVE Warned(k, p)'
  <2>1. CASE j = k
    BY <1>4, <2>1, ActsWarned
  <2>2. CASE j # k
    <3>1. Same(k) /\ now' = now
      BY <1>4, <2>2, Elsewhere, ActsPause
    <3>2. pause[p] # now + 1 => pause'[p] # now' + 1
      <4>1. pause'[p] = pause[p] \/ pause'[p] \in {0, now + MaxPause}
        BY <1>4, ActsPause
      <4>2. now \in Nat /\ MaxPause \in Nat \ {0, 1}
        BY ShownType, ConsoleAssumption
      <4> QED BY <3>1, <4>1, <4>2
    <3>3. SoonOver(k)' = SoonOver(k)
      BY <3>1 DEF Same, SoonOver
    <3> QED BY <3>1, <3>2, <3>3, WarnedKept DEF Same
  <2> QED BY <2>1, <2>2
<1>5. CASE Tick
  BY <1>5 DEF Tick, Warned
<1>6. CASE UNCHANGED vars
  BY <1>6, WarnedKept DEF vars, SoonOver
<1> QED BY <1>1, <1>2, <1>3, <1>4, <1>5, <1>6 DEF ConsoleNext, Acts

\* A warning stands exactly where the console has it noted.
StandingInv == \A k \in Consoles : standing[k] = warned[k]

LEMMA StandingStep == ConsoleTypes /\ StandingInv /\ [ConsoleNext]_vars => StandingInv'
<1> SUFFICES ASSUME ConsoleTypes, StandingInv, [ConsoleNext]_vars, NEW k \in Consoles
             PROVE  standing'[k] = warned'[k]
  BY DEF StandingInv
<1>1. standing[k] = warned[k]
  BY DEF StandingInv
<1> USE DEF network, backend, engine, history, progress, bounds
<1>2. ASSUME NEW j \in Consoles, Acts(j) PROVE standing'[k] = warned'[k]
  <2>1. CASE j # k
    BY <1>1, <1>2, <2>1, Elsewhere DEF Same
  <2>2. CASE j = k /\ CheckPauseExpiry(k)
    <3>1. now \in Nat
      BY ConsoleAssumption DEF ConsoleTypes, ConsoleTypeOK
    <3>2. SoonOver(k) \cap Over(k) = {}
      <4> SUFFICES ASSUME NEW q \in Clients, q \in SoonOver(k), q \in Over(k) PROVE FALSE
        BY DEF SoonOver
      <4>1. pauseUntil[k][q] \in Times
        BY DEF ConsoleTypes, ConsoleTypeOK
      <4>2. pauseUntil[k][q] \in Nat
        BY <4>1, TimesOK
      <4> QED BY <3>1, <4>2 DEF SoonOver, Over
    <3>3. /\ warned'[k] = (warned[k] \ Over(k)) \cup SoonOver(k)
          /\ standing'[k] = (standing[k] \ Over(k)) \cup (SoonOver(k) \ warned[k])
      BY <2>2 DEF CheckPauseExpiry, ConsoleTypes, ConsoleTypeOK
    <3> QED BY <1>1, <3>2, <3>3
  <2>3. CASE j = k /\ Listen(k)
    BY <1>1, <2>3 DEF Listen, ConsoleTypes, ConsoleTypeOK
  <2>4. ASSUME NEW q \in Clients, ExtendPause(k, q) PROVE standing'[k] = warned'[k]
    BY <1>1, <2>4 DEF ExtendPause, ConsoleTypes, ConsoleTypeOK
  <2>5. CASE \/ Handle(k) \/ HandlerEnds(k) \/ Connect(k) \/ Connected(k)
             \/ Lose(k) \/ Notice(k) \/ NoticeFails(k) \/ Disconnect(k)
             \/ \E q \in Clients \cup {Nobody} : Select(k, q)
             \/ \E q \in Clients : Pause(k, q) \/ Resume(k, q)
    BY <1>1, <2>5 DEF Handle, HandlerEnds, Connect, Connected, Lose, Notice, NoticeFails, NoticeBy, Disconnect, Select,
                      Pause, Resume
  <2> QED BY <1>2, <2>1, <2>2, <2>3, <2>4, <2>5 DEF Acts
<1>3. CASE \/ \E p \in Clients : ClientConnects(p) \/ ClientLost(p) \/ Heartbeat(p)
           \/ Tick \/ UNCHANGED vars
  BY <1>1, <1>3 DEF ClientConnects, ClientLost, Heartbeat, Tick, vars
<1> QED BY <1>2, <1>3 DEF ConsoleNext, Acts

WarnedInv == StandingInv /\ \A k \in Consoles, p \in Clients : Warned(k, p)

LEMMA WarnedInit == ConsoleInit => WarnedInv
BY DEF ConsoleInit, WarnedInv, StandingInv, Warned

LEMMA WarnedInvStep == ConsoleTypes /\ KnownInv /\ WarnedInv /\ [ConsoleNext]_vars => WarnedInv'
BY StandingStep, WarnedStep DEF WarnedInv, KnownInv

(***************************************************************************)
(* When less than the warning time of a client's pause is left, and        *)
(* nothing is under way, a connected console has warned of it, unless the  *)
(* pause changed without a word since its last roster.                     *)
(***************************************************************************)
THEOREM LapseAnnouncedAlways == ConsoleSpec => []LapseAnnounced
<1>1. ConsoleTypes /\ KnownInv /\ WarnedInv => LapseAnnounced
  <2> SUFFICES ASSUME ConsoleTypes, KnownInv, WarnedInv, NEW k \in Consoles, UpToDate(k),
                      NEW p \in Registered \ (untold[k] \cup standing[k]), Reported(p) = now + 1
               PROVE  FALSE
    BY DEF LapseAnnounced
  <2>1. /\ p \in Clients /\ p \in Registered \ untold[k] /\ p \notin warned[k] /\ link[k]
        /\ k \in admitted /\ k \in checked /\ requests[k] = <<>> /\ replies[k] = <<>>
    BY DEF Registered, UpToDate, Settled, WarnedInv, StandingInv
  <2>2. now \in Nat
    BY <2>1, ShownType
  <2>3. pause[p] = now + 1
    BY <2>2 DEF Reported
  <2>4. p \in SoonOver(k)
    BY <2>1, <2>2, KnownSettled DEF SoonOver
  <2>5. NoneIn(requests[k], Extending(p) \cup Lists)
    BY <2>1, QueueEmpty
  <2> QED BY <2>1, <2>3, <2>4, <2>5 DEF WarnedInv, Warned
<1> QED BY <1>1, WarnedInit, WarnedInvStep, KnownInit, KnownInvStep, ConsoleTypeInit,
           ConsoleTypeStep, PTL DEF ConsoleSpec
=============================================================================
