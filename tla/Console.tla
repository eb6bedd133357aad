------------------------------ MODULE Console ------------------------------
(***************************************************************************)
(* What a console knows and asks for: selection and pause tracking of      *)
(* admin/backend.py over admin/connection.py, the heartbeats of            *)
(* client/main.py that report a pause, and what the Engine makes of them   *)
(* (handle_heartbeat, handle_client_list_request, engine/routing.py).      *)
(*                                                                         *)
(* A unit of the clock is PAUSE_WARN_SECONDS.  Heartbeats (15 s), the      *)
(* console's timer (10 s), deliveries and the end of a dead connection     *)
(* take less: Tick waits for them.  A heartbeat and a relay to the         *)
(* consoles are one step each: their sender's handler does nothing else    *)
(* meanwhile.  The handshake, and the cleanup of a handler, are one step   *)
(* each; Sessions and Watch take them apart.                               *)
(***************************************************************************)
EXTENDS Naturals, Sequences

CONSTANTS
    Clients, Consoles,
    Nobody,         \* no client; no registry entry
    MaxPause,       \* PAUSE_MAX_SECONDS, in units: longer than one, the warning
    MaxTime,        \* bound: the clock
    MaxCommands,    \* bound: commands sent
    MaxLosses,      \* bound: connections lost
    MaxRequests     \* bound: requests under way from one console

ASSUME ConsoleAssumption ==
    /\ Nobody \notin Clients \cup Nat
    /\ MaxPause \in Nat \ {0, 1}
    /\ MaxTime \in Nat \ {0} /\ MaxCommands \in Nat /\ MaxLosses \in Nat /\ MaxRequests \in Nat

VARIABLES
    now,
    pause,          \* a client's PAUSE_FILE: when its pause ends; 0: never paused
    entry,          \* pause_until of a client's registry entry; 0: not paused
    beaten,         \* clients whose last heartbeat is up to date
    watching,       \* the Engine's _watching
    admitted,       \* consoles with a registry entry, which replies and relays go by
    lingering,      \* the Engine's handlers of a console's earlier connections
    link,           \* a console's connection is up
    requests,       \* from a console to the Engine
    replies,        \* from the Engine to a console
    session,        \* "down", "listing" (_connect awaits a drain), "up", "deaf" (shown as up)
    selected,       \* _selected_client
    pauseUntil,     \* _pause_until; 0: no entry
    warned,         \* _warned
    checked,        \* consoles whose timer has seen what they know
    untold,         \* history: clients whose entry changed without a word to a console
    standing,       \* history: clients warned of, whose pause has not ended for all it heard
    commands, losses

engine == <<entry, watching, admitted, lingering>>
network == <<link, requests, replies>>
backend == <<session, selected, pauseUntil, warned>>
history == <<untold, standing>>
progress == <<beaten, checked>>
bounds == <<commands, losses>>
vars == <<now, pause, engine, network, backend, history, progress, bounds>>

Times == 0..(MaxTime + MaxPause)
Requests == [do : {"list", "pause", "resume", "watch"}, of : Clients \cup {Nobody}]

ConsoleTypeOK ==
    /\ now \in 1..MaxTime
    /\ pause \in [Clients -> Times]
    /\ entry \in [Clients -> Times \cup {Nobody}]
    /\ beaten \in SUBSET {p \in Clients : entry[p] # Nobody}
    /\ watching \in [Consoles -> Clients \cup {Nobody}]
    /\ admitted \in SUBSET Consoles
    /\ link \in [Consoles -> BOOLEAN]
    /\ lingering \in [Consoles -> 0..losses]
    /\ \A k \in Consoles : link[k] => session[k] \in {"listing", "up"}
    /\ requests \in [Consoles -> Seq(Requests)]
    /\ session \in [Consoles -> {"down", "listing", "up", "deaf"}]
    /\ selected \in [Consoles -> Clients \cup {Nobody}]
    /\ pauseUntil \in [Consoles -> [Clients -> Times]]
    /\ warned \in [Consoles -> SUBSET Clients]
    /\ checked \in SUBSET Consoles
    /\ commands \in 0..MaxCommands /\ losses \in 0..MaxLosses

ConsoleInit ==
    /\ now = 1
    /\ pause = [p \in Clients |-> 0]
    /\ entry = [p \in Clients |-> Nobody]
    /\ beaten = {} /\ checked = {}
    /\ watching = [k \in Consoles |-> Nobody]
    /\ admitted = {}
    /\ lingering = [k \in Consoles |-> 0]
    /\ link = [k \in Consoles |-> FALSE]
    /\ requests = [k \in Consoles |-> <<>>]
    /\ replies = [k \in Consoles |-> <<>>]
    /\ session = [k \in Consoles |-> "down"]
    /\ selected = [k \in Consoles |-> Nobody]
    /\ pauseUntil = [k \in Consoles |-> [p \in Clients |-> 0]]
    /\ warned = [k \in Consoles |-> {}]
    /\ untold = [k \in Consoles |-> {}]
    /\ standing = [k \in Consoles |-> {}]
    /\ commands = 0 /\ losses = 0

-----------------------------------------------------------------------------
\* Client Agents and what the Engine hears of them.

\* pause_expires_at
Reported(p) == IF now < pause[p] THEN pause[p] ELSE 0

Registered == {p \in Clients : entry[p] # Nobody}

\* A new entry has no pause, whatever the last one had.
ClientConnects(p) ==
    /\ entry[p] = Nobody
    /\ entry' = [entry EXCEPT ![p] = 0]
    /\ UNCHANGED <<now, pause, watching, admitted, lingering, network, backend, history, progress,
                   bounds>>

\* The client's connection is lost, or closed, and its entry removed.
ClientLost(p) ==
    /\ entry[p] # Nobody /\ losses < MaxLosses
    /\ losses' = losses + 1
    /\ entry' = [entry EXCEPT ![p] = Nobody]
    /\ beaten' = beaten \ {p}
    /\ untold' = [k \in Consoles |-> IF entry[p] = 0 THEN untold[k] ELSE untold[k] \cup {p}]
    /\ UNCHANGED <<now, pause, watching, admitted, lingering, network, backend, standing,
                   checked, commands>>

\* A pause got another end: nobody is told.
Moved(p) == entry[p] # 0 /\ Reported(p) \notin {0, entry[p]}

\* A mutated form: only a pause that begins is announced.
Begins(p) == entry[p] = 0 /\ Reported(p) # 0

Flips(p) == (entry[p] = 0) # (Reported(p) = 0)

Word(says, ask) == [says |-> says, ask |-> ask]

\* What is written goes by the registry entry, whoever's cleanup took it.
Told(k, word) ==
    IF link[k] /\ k \in admitted THEN Append(replies[k], word) ELSE replies[k]

Heartbeat(p) ==
    /\ p \in Registered \ beaten
    /\ beaten' = beaten \cup {p}
    /\ entry' = [entry EXCEPT ![p] = Reported(p)]
    /\ IF Flips(p)
       THEN LET word == Word([q \in {p} |-> Reported(p)], TRUE) IN
            /\ replies' = [k \in Consoles |-> Told(k, word)]
            /\ untold' = [k \in Consoles |-> untold[k] \ {p}]
       ELSE /\ untold' = [k \in Consoles |->
                    IF Moved(p) THEN untold[k] \cup {p} ELSE untold[k]]
            /\ UNCHANGED replies
    /\ UNCHANGED <<now, pause, watching, admitted, lingering, link, requests, backend, standing,
                   checked, bounds>>

-----------------------------------------------------------------------------
\* The Engine and a console's requests.

\* handle_client_list_request
Roster == [p \in Clients |-> IF entry[p] = Nobody THEN 0 ELSE entry[p]]

\* A mutated form: the cap is not applied to what is asked for.
Uncapped(request) == IF request.do = "pause" THEN now + MaxPause + 1 ELSE 0

\* apply_pause_command, for the seconds every console asks for.
Applied(request) == IF request.do = "pause" THEN now + MaxPause ELSE 0

\* A command for an absent client is undeliverable: SET_PAUSE is not durable.
Handle(k) ==
    /\ requests[k] # <<>>
    /\ LET request == Head(requests[k])
           reaches == request.do \in {"pause", "resume"} /\ request.of \in Registered
       IN
       /\ requests' = [requests EXCEPT ![k] = Tail(@)]
       /\ watching' = IF request.do = "watch" THEN [watching EXCEPT ![k] = request.of] ELSE watching
       /\ pause' = IF reaches THEN [pause EXCEPT ![request.of] = Applied(request)] ELSE pause
       /\ beaten' = IF reaches THEN beaten \ {request.of} ELSE beaten
       /\ IF request.do = "list"
          THEN /\ replies' = [replies EXCEPT ![k] = Told(k, Word(Roster, FALSE))]
               /\ untold' = [untold EXCEPT ![k] = {}]
          ELSE UNCHANGED <<replies, untold>>
    /\ UNCHANGED <<now, entry, admitted, lingering, link, backend, standing, checked, bounds>>

\* The handler of a connection that is over ends.  Its cleanup goes by the name
\* of the console: the entry and the subscription may be of a later connection.
HandlerEnds(k) ==
    /\ lingering[k] > 0
    /\ lingering' = [lingering EXCEPT ![k] = @ - 1]
    /\ admitted' = admitted \ {k}
    /\ watching' = [watching EXCEPT ![k] = Nobody]
    /\ UNCHANGED <<now, pause, entry, network, backend, history, progress, bounds>>

-----------------------------------------------------------------------------
\* The console's session.

Request(what, whom) == [do |-> what, of |-> whom]

Sent(k, request) == IF link[k] THEN [requests EXCEPT ![k] = Append(@, request)] ELSE requests

RoomFor(k) == Len(requests[k]) < MaxRequests

\* _connect up to the request for the roster; a connect that fails changes nothing.
Connect(k) ==
    /\ session[k] = "down"
    /\ session' = [session EXCEPT ![k] = "listing"]
    /\ link' = [link EXCEPT ![k] = TRUE]
    /\ admitted' = admitted \cup {k}
    /\ requests' = [requests EXCEPT ![k] = <<Request("list", Nobody)>>]
    /\ UNCHANGED <<now, pause, entry, watching, lingering, replies, selected, pauseUntil, warned,
                   history, progress, bounds>>

\* A mutated form: a selection that survived is not declared again.
Undeclared(k) == requests

Redeclared(k) == IF selected[k] # Nobody THEN Sent(k, Request("watch", selected[k])) ELSE requests

Connected(k) ==
    /\ session[k] = "listing" /\ RoomFor(k)
    /\ session' = [session EXCEPT ![k] = "up"]
    /\ requests' = Redeclared(k)
    /\ UNCHANGED <<now, pause, engine, link, replies, selected, pauseUntil, warned,
                   history, progress, bounds>>

\* Its handler at the Engine lives on until it reads that, or times out.
Unplugged(k) ==
    /\ lingering' = [lingering EXCEPT ![k] = IF link[k] THEN @ + 1 ELSE @]
    /\ link' = [link EXCEPT ![k] = FALSE]
    /\ requests' = [requests EXCEPT ![k] = <<>>]
    /\ replies' = [replies EXCEPT ![k] = <<>>]

\* The connection dies, with what is under way on it.
Lose(k) ==
    /\ link[k] /\ losses < MaxLosses
    /\ losses' = losses + 1
    /\ Unplugged(k)
    /\ UNCHANGED <<now, pause, entry, watching, admitted, backend, history, progress, commands>>

NoticeBy(k, how) ==
    /\ session[k] \in {"listing", "up"} /\ ~link[k]
    /\ session' = [session EXCEPT ![k] = how]
    /\ UNCHANGED <<now, pause, engine, network, selected, pauseUntil, warned,
                   history, progress, bounds>>

\* _on_disconnect: selection and pauses stay.
Notice(k) == NoticeBy(k, "down")

\* An OSError that is no ConnectionError ends _listen without a word, and every
\* close() of this connection after it: the window shows it as up for good.
NoticeFails(k) == NoticeBy(k, "deaf")

\* _disconnect: the models are cleared, which these are not.
Disconnect(k) ==
    /\ session[k] = "up" /\ losses < MaxLosses
    /\ losses' = losses + 1
    /\ session' = [session EXCEPT ![k] = "down"]
    /\ Unplugged(k)
    /\ UNCHANGED <<now, pause, entry, watching, admitted, selected, pauseUntil, warned,
                   history, progress, commands>>

-----------------------------------------------------------------------------
\* What an operator does.

Select(k, p) ==
    /\ p # selected[k] /\ RoomFor(k)
    /\ selected' = [selected EXCEPT ![k] = p]
    /\ requests' = Sent(k, Request("watch", p))
    /\ UNCHANGED <<now, pause, engine, link, replies, session, pauseUntil, warned,
                   history, progress, bounds>>

SendPause(k, p, action) ==
    /\ commands < MaxCommands /\ RoomFor(k)
    /\ commands' = commands + 1
    /\ requests' = Sent(k, Request(action, p))
    /\ UNCHANGED <<now, pause, engine, link, replies, session, selected, pauseUntil,
                   untold, progress, losses>>

Pause(k, p) == SendPause(k, p, "pause") /\ UNCHANGED <<warned, standing>>

Resume(k, p) == SendPause(k, p, "resume") /\ UNCHANGED <<warned, standing>>

ExtendPause(k, p) ==
    /\ SendPause(k, p, "pause")
    /\ warned' = [warned EXCEPT ![k] = @ \ {p}]
    /\ standing' = [standing EXCEPT ![k] = @ \ {p}]

-----------------------------------------------------------------------------
\* What a console makes of what it hears.

\* PAUSE_STATE, which asks for the roster, and the roster itself.
Listen(k) ==
    /\ replies[k] # <<>> /\ RoomFor(k)
    /\ LET word == Head(replies[k])
           over == {p \in DOMAIN word.says : word.says[p] = 0}
       IN
       /\ pauseUntil' = [pauseUntil EXCEPT ![k] =
              [p \in Clients |-> IF p \in DOMAIN word.says THEN word.says[p] ELSE @[p]]]
       /\ warned' = [warned EXCEPT ![k] = @ \ over]
       /\ standing' = [standing EXCEPT ![k] = @ \ over]
       /\ requests' = IF word.ask THEN Sent(k, Request("list", Nobody)) ELSE requests
    /\ replies' = [replies EXCEPT ![k] = Tail(@)]
    /\ checked' = checked \ {k}
    /\ UNCHANGED <<now, pause, engine, link, session, selected, untold, beaten, bounds>>

\* A mutated form: the operator is warned of the selected client only.
SoonOverHere(k) ==
    {p \in Clients : p = selected[k] /\ now < pauseUntil[k][p] /\ pauseUntil[k][p] <= now + 1}

SoonOver(k) == {p \in Clients : now < pauseUntil[k][p] /\ pauseUntil[k][p] <= now + 1}

Over(k) == {p \in Clients : pauseUntil[k][p] # 0 /\ pauseUntil[k][p] <= now}

\* _check_pause_expiry, connected or not.
CheckPauseExpiry(k) ==
    /\ k \notin checked
    /\ checked' = checked \cup {k}
    /\ pauseUntil' = [pauseUntil EXCEPT ![k] = [p \in Clients |-> IF p \in Over(k) THEN 0 ELSE @[p]]]
    /\ warned' = [warned EXCEPT ![k] = (@ \ Over(k)) \cup SoonOver(k)]
    /\ standing' = [standing EXCEPT ![k] = (@ \ Over(k)) \cup (SoonOver(k) \ warned[k])]
    /\ UNCHANGED <<now, pause, engine, network, session, selected, untold, beaten, bounds>>

-----------------------------------------------------------------------------
\* What is due within a unit of the clock has been done.
Settled ==
    /\ Registered \subseteq beaten
    /\ checked = Consoles
    /\ \A k \in Consoles :
          /\ requests[k] = <<>> /\ replies[k] = <<>>
          /\ lingering[k] = 0
          /\ IF link[k] THEN session[k] = "up" ELSE session[k] \in {"down", "deaf"}

Tick ==
    /\ Settled /\ now < MaxTime
    /\ now' = now + 1
    /\ beaten' = {} /\ checked' = {}
    /\ UNCHANGED <<pause, engine, network, backend, history, bounds>>

ConsoleNext ==
    \/ \E p \in Clients : ClientConnects(p) \/ ClientLost(p) \/ Heartbeat(p)
    \/ \E k \in Consoles :
          \/ Handle(k) \/ HandlerEnds(k)
          \/ Connect(k) \/ Connected(k) \/ Lose(k) \/ Notice(k) \/ NoticeFails(k)
          \/ Disconnect(k)
          \/ \E p \in Clients \cup {Nobody} : Select(k, p)
          \/ \E p \in Clients : Pause(k, p) \/ Resume(k, p) \/ ExtendPause(k, p)
          \/ Listen(k) \/ CheckPauseExpiry(k)
    \/ Tick

ConsoleSpec == ConsoleInit /\ [][ConsoleNext]_vars

-----------------------------------------------------------------------------
\* Properties.

(***************************************************************************)
(* What the Engine relays to a console is what its operator has selected,  *)
(* through reconnects and selections made while they happen ("a selection  *)
(* that survived on this side has to be stated again").  Excepted is a     *)
(* connection whose entry the cleanup of an earlier one removed: it gets   *)
(* nothing until it reconnects, but is never relayed another client's.     *)
(***************************************************************************)
SelectionDeclared ==
    \A k \in Consoles : Settled /\ link[k] =>
        \/ watching[k] = selected[k]
        \/ k \notin admitted /\ watching[k] = Nobody

UpToDate(k) == Settled /\ link[k] /\ k \in admitted

(***************************************************************************)
(* A console the Engine serves knows which connected clients are paused,   *)
(* and until when, whoever paused them.  Exempt is a client whose entry    *)
(* was replaced or got another end without a PAUSE_STATE, until the next   *)
(* roster.                                                                 *)
(***************************************************************************)
PausesKnown ==
    \A k \in Consoles : UpToDate(k) =>
        \A p \in Registered \ untold[k] : pauseUntil[k][p] = Reported(p)

(***************************************************************************)
(* No pause lapses unannounced on a console that is served ("the Admin GUI *)
(* warns").  Exempt is, besides, a client it has warned of and heard no    *)
(* end of since: a pause that another command extended, or that a new one  *)
(* followed while the console was away.                                    *)
(***************************************************************************)
LapseAnnounced ==
    \A k \in Consoles : UpToDate(k) =>
        \A p \in Registered \ (untold[k] \cup standing[k]) : Reported(p) # now + 1
=============================================================================
