------------------------------ MODULE Sessions ------------------------------
(***************************************************************************)
(* The Engine's connection lifecycle: engine/main.py (perform_registration,*)
(* handle_client, reap_stale_connections) over the live registry of        *)
(* engine/connection_manager.py and the clients table's status column.     *)
(*                                                                         *)
(* A connection is one TCP connection, used once.  The Engine is a single  *)
(* asyncio loop, so an action is what runs between two awaits; every await *)
(* is a value of pc.  The peer and the network are environment actions.    *)
(***************************************************************************)
EXTENDS Naturals, FiniteSets

CONSTANTS
    Clients,        \* ids of Client Agents
    Admins,         \* ids of Admin consoles
    Conns,          \* connections the peers may open, each at most once
    None,           \* "no connection", "no peer"
    MaxClients,     \* engine.config.MAX_CLIENTS
    MaxAdmins,      \* engine.config.MAX_ADMINS
    Bypass,         \* engine.auth.is_auth_bypassed()
    DbFails,        \* whether a database call may raise
    CloseFails      \* whether close_writer may raise

ASSUME SessionsAssumption ==
    /\ None \notin Clients \cup Admins \cup Conns
    /\ Clients \cap Admins = {}
    /\ IsFiniteSet(Clients) /\ IsFiniteSet(Admins)
    /\ MaxClients \in Nat /\ MaxAdmins \in Nat
    /\ Bypass \in BOOLEAN /\ DbFails \in BOOLEAN /\ CloseFails \in BOOLEAN

Peers == Clients \cup Admins

VARIABLES
    peer,       \* the peer id a connection's REGISTER carries
    pc,         \* where handle_client is on that connection
    link,       \* the transport: "up", "eof" (either end closed), "lost" (silent)
    registry,   \* _connections and _peer_info: peer id -> connection
    fresh,      \* last_seen is younger than CLIENT_HEARTBEAT_TIMEOUT
    row,        \* clients.status of every client
    reapList,   \* stale peers the reaper has still to visit
    reaping     \* the reaper: "asleep", "closing" (in close_writer) or "dead"

handlerVars == <<peer, pc, link>>
vars == <<peer, pc, link, registry, fresh, row, reapList, reaping>>

(***************************************************************************)
(* hello, challenge: awaiting REGISTER and REGISTER_RESPONSE;  greet:      *)
(* writing the ack and flushing the outbox;  serve: awaiting the next      *)
(* message;  closing: in close_writer;  crashed: an exception left         *)
(* handle_client before close_writer ran.                                  *)
(***************************************************************************)
Places == {"none", "hello", "challenge", "greet", "serve", "closing", "done", "crashed"}

TypeOK ==
    /\ peer \in [Conns -> Peers \cup {None}]
    /\ pc \in [Conns -> Places]
    /\ \A c \in Conns : pc[c] = "none" <=> peer[c] = None
    /\ link \in [Conns -> {"none", "up", "eof", "lost"}]
    /\ registry \in [Peers -> Conns \cup {None}]
    /\ fresh \in [Peers -> BOOLEAN]
    /\ row \in [Clients -> {"absent", "active", "offline"}]
    /\ reapList \in SUBSET Peers
    /\ reaping \in {"asleep", "closing", "dead"}

Init ==
    /\ peer = [c \in Conns |-> None]
    /\ pc = [c \in Conns |-> "none"]
    /\ link = [c \in Conns |-> "none"]
    /\ registry = [p \in Peers |-> None]
    /\ fresh = [p \in Peers |-> FALSE]
    /\ row = [p \in Clients |-> "absent"]
    /\ reapList = {}
    /\ reaping = "asleep"

-----------------------------------------------------------------------------
\* Peers and the network.

\* An agent or a console holds one connection at a time: it opens the next
\* only once the last is closed or has gone silent.
Connect(p, c) ==
    /\ pc[c] = "none"
    /\ \A d \in Conns : peer[d] = p => link[d] # "up"
    /\ peer' = [peer EXCEPT ![c] = p]
    /\ pc' = [pc EXCEPT ![c] = "hello"]
    /\ link' = [link EXCEPT ![c] = "up"]
    /\ UNCHANGED <<registry, fresh, row, reapList, reaping>>

\* The peer closes its end, or the path dies without a word.
Disconnect(c, how) ==
    /\ link[c] = "up"
    /\ link' = [link EXCEPT ![c] = how]
    /\ UNCHANGED <<peer, pc, registry, fresh, row, reapList, reaping>>

-----------------------------------------------------------------------------
\* The registry (connection_manager).

Registered(p, c) == [registry EXCEPT ![p] = c]

\* By peer id, whichever connection the entry names.
Unregistered(p) == [registry EXCEPT ![p] = None]

Forgotten(p) == [fresh EXCEPT ![p] = FALSE]

\* A no-op for a peer without an entry.
Touched(p) == [fresh EXCEPT ![p] = registry[p] # None]

\* A mutated form: the comparison with the cutoff inverted.
FreshOnes == {p \in Peers : registry[p] # None /\ fresh[p]}

Stale == {p \in Peers : registry[p] # None /\ ~fresh[p]}

RegisteredOf(role) == {p \in role : registry[p] # None}

\* Counted per role.
Full(p) ==
    \/ p \in Clients /\ Cardinality(RegisteredOf(Clients)) >= MaxClients
    \/ p \in Admins /\ Cardinality(RegisteredOf(Admins)) >= MaxAdmins

\* A mutated form: the entry goes, the connection stays open.
LeftOpen(c) == link

\* close_writer: a connection either end closes is at its end.
Closed(c) == [link EXCEPT ![c] = IF @ = "up" THEN "eof" ELSE @]

-----------------------------------------------------------------------------
\* perform_registration.

\* A malformed, mistyped, refused, late or missing message: _reject, then
\* close_writer.
Refuse(c) ==
    /\ pc[c] \in {"hello", "challenge"}
    /\ pc' = [pc EXCEPT ![c] = "closing"]
    /\ UNCHANGED <<peer, link, registry, fresh, row, reapList, reaping>>

\* register() and store_client(), in one step with the return of
\* perform_registration.
Admit(c) ==
    LET p == peer[c] IN
    /\ registry' = Registered(p, c)
    /\ fresh' = [fresh EXCEPT ![p] = TRUE]
    /\ \/ /\ pc' = [pc EXCEPT ![c] = "greet"]
          /\ row' = IF p \in Clients THEN [row EXCEPT ![p] = "active"] ELSE row
       \/ \* store_client raises: outside the try, nothing unregisters
          /\ DbFails /\ p \in Clients
          /\ pc' = [pc EXCEPT ![c] = "crashed"]
          /\ UNCHANGED row

\* With the bypass there is no await between the capacity check and Admit;
\* without it the answer to the challenge is awaited in between.  A challenge
\* to a peer already gone is never answered: that wait ends as Refuse does.
Hello(c) ==
    /\ pc[c] = "hello"
    /\ ~Full(peer[c])
    /\ \/ Bypass /\ Admit(c)
       \/ /\ ~Bypass /\ link[c] = "up"
          /\ pc' = [pc EXCEPT ![c] = "challenge"]
          /\ UNCHANGED <<registry, fresh, row>>
    /\ UNCHANGED <<peer, link, reapList, reaping>>

HelloWhenFull(c) ==
    /\ pc[c] = "hello"
    /\ Full(peer[c])
    /\ pc' = [pc EXCEPT ![c] = "closing"]
    /\ UNCHANGED <<peer, link, registry, fresh, row, reapList, reaping>>

Answer(c) ==
    /\ pc[c] = "challenge"
    /\ Admit(c)
    /\ UNCHANGED <<peer, link, reapList, reaping>>

-----------------------------------------------------------------------------
\* handle_client after registration.

\* The ack and the outbox flush are written (or fail to be).
Greet(c) ==
    /\ pc[c] = "greet"
    /\ pc' = [pc EXCEPT ![c] = "serve"]
    /\ UNCHANGED <<peer, link, registry, fresh, row, reapList, reaping>>

\* One message is read: touch, then the route's persist step.  A heartbeat
\* rewrites the client's row; any other message, or a heartbeat whose UPDATE
\* fails, leaves it.  Bytes already under way arrive on a dead link too.
Receive(c) ==
    LET p == peer[c] IN
    /\ pc[c] = "serve"
    /\ fresh' = Touched(p)
    /\ \/ UNCHANGED row
       \/ p \in Clients /\ row' = [row EXCEPT ![p] = "active"]
    /\ UNCHANGED <<peer, pc, link, registry, reapList, reaping>>

\* A mutated form: only a peer that still had an entry is marked.
OfflineIfRegistered(p) ==
    IF p \in Clients /\ registry[p] # None THEN [row EXCEPT ![p] = "offline"] ELSE row

\* The rows mark_client_offline leaves.
Offline(p) == IF p \in Clients THEN [row EXCEPT ![p] = "offline"] ELSE row

\* The finally clause: unregister, then mark_client_offline.
Cleanup(c) ==
    LET p == peer[c] IN
    /\ registry' = Unregistered(p)
    /\ fresh' = Forgotten(p)
    /\ \/ /\ pc' = [pc EXCEPT ![c] = "closing"]
          /\ row' = Offline(p)
       \/ \* the finally clause's own database call raises
          /\ DbFails
          /\ pc' = [pc EXCEPT ![c] = "crashed"]
          /\ UNCHANGED row
    /\ UNCHANGED <<peer, link, reapList, reaping>>

\* A mutated form: read_message without its timeout.
HangupOnEof(c) == pc[c] = "serve" /\ link[c] = "eof" /\ Cleanup(c)

\* EOF, a reset, or 60 seconds without a message.  A peer whose link is up
\* heartbeats every 15.
Hangup(c) == pc[c] = "serve" /\ link[c] # "up" /\ Cleanup(c)

\* An exception from the flush or from a handler's database call.
Fault(c) == DbFails /\ pc[c] \in {"greet", "serve"} /\ Cleanup(c)

\* A mutated form: the slot is freed without forgetting its peer.
CloseWithoutReset(c) ==
    /\ pc[c] = "closing"
    /\ pc' = [pc EXCEPT ![c] = "none"]
    /\ link' = Closed(c)
    /\ UNCHANGED <<peer, registry, fresh, row, reapList, reaping>>

\* close_writer returns, or raises: it was the last call either way.
Close(c) ==
    /\ pc[c] = "closing"
    /\ pc' = [pc EXCEPT ![c] = "done"]
    /\ link' = Closed(c)
    /\ UNCHANGED <<peer, registry, fresh, row, reapList, reaping>>

-----------------------------------------------------------------------------
\* reap_stale_connections.

Heartbeating(p) == \E c \in Conns : peer[c] = p /\ pc[c] = "serve" /\ link[c] = "up"

\* HEARTBEAT_TIMEOUT passes without a touch.
Age(p) ==
    /\ registry[p] # None /\ fresh[p]
    /\ ~Heartbeating(p)
    /\ fresh' = Forgotten(p)
    /\ UNCHANGED <<peer, pc, link, registry, row, reapList, reaping>>

\* The loop body for the next listed peer that still has an entry; those
\* passed over on the way have none, and cost no await.
ReapNext(list) ==
    \E p \in list :
        /\ registry[p] # None
        /\ \E gone \in SUBSET {q \in list : registry[q] = None} :
              reapList' = list \ (gone \cup {p})
        /\ registry' = Unregistered(p)
        /\ fresh' = Forgotten(p)
        /\ link' = Closed(registry[p])
        /\ reaping' = "closing"
        /\ UNCHANGED <<peer, pc, row>>

\* The timer fires and find_stale lists the peers to drop.
ReapScan == reaping = "asleep" /\ ReapNext(Stale)

\* close_writer returns and the loop goes on with the list made at the scan.
ReapResume ==
    /\ reaping = "closing"
    /\ \/ ReapNext(reapList)
       \/ /\ \A p \in reapList : registry[p] = None
          /\ reapList' = {}
          /\ reaping' = "asleep"
          /\ UNCHANGED <<peer, pc, link, registry, fresh, row>>

\* close_writer catches ConnectionError and RuntimeError.  The connection may
\* have died of another OSError (a timeout, an unreachable host); nothing
\* catches that one, and the task ends in the middle of its list.
ReapFails ==
    /\ CloseFails /\ reaping = "closing"
    /\ reapList' = {}
    /\ reaping' = "dead"
    /\ UNCHANGED <<peer, pc, link, registry, fresh, row>>

-----------------------------------------------------------------------------
\* Every step but the end of greet, which Outbox refines.
HandlerStep(c) ==
    \/ Refuse(c) \/ Hello(c) \/ HelloWhenFull(c) \/ Answer(c)
    \/ Receive(c) \/ Hangup(c) \/ Fault(c) \/ Close(c)

\* The peers, the network and the passing of time.
World ==
    \/ \E p \in Peers, c \in Conns : Connect(p, c)
    \/ \E c \in Conns : Disconnect(c, "eof") \/ Disconnect(c, "lost")
    \/ \E p \in Peers : Age(p)

Lifecycle ==
    \/ World
    \/ \E c \in Conns : HandlerStep(c)
    \/ ReapScan
    \/ ReapResume
    \/ ReapFails

Next == Lifecycle \/ \E c \in Conns : Greet(c)

Spec == Init /\ [][Next]_vars

(***************************************************************************)
(* Every wait of a handler is bounded (30 s per handshake message, 60 s    *)
(* per read, a write ends with its connection) and so are the reaper's     *)
(* period, while it lives, and the age of an entry nobody touches.         *)
(* Nothing obliges a peer to connect, to stay, or to send, or a close_-    *)
(* writer to raise.                                                        *)
(***************************************************************************)
Fairness ==
    /\ \A c \in Conns :
          /\ WF_vars(Refuse(c) \/ Hello(c) \/ HelloWhenFull(c) \/ Answer(c))
          /\ WF_vars(Greet(c))
          /\ WF_vars(Hangup(c))
          /\ WF_vars(Close(c))
    /\ \A p \in Peers : WF_vars(Age(p))
    /\ WF_vars(ReapScan)
    /\ WF_vars(ReapResume)

FairSpec == Spec /\ Fairness

-----------------------------------------------------------------------------
\* Properties.

Live == {"greet", "serve"}

(***************************************************************************)
(* A registry entry names a connection of that very peer whose handler has *)
(* not yet cleaned up: no command is ever written to a torn-down session,  *)
(* although unregister() does not look at the connection it drops.  The    *)
(* one exception is a handler that a failing store_client killed.          *)
(***************************************************************************)
RegistryBacked ==
    \A p \in Peers : registry[p] # None =>
        /\ peer[registry[p]] = p
        /\ pc[registry[p]] \in Live \cup (IF DbFails THEN {"crashed"} ELSE {})

(***************************************************************************)
(* A client whose row says "active" has a handler that will mark it        *)
(* offline: no sequence of reconnects, late heartbeats and reaps leaves a  *)
(* machine shown active that nobody serves (engine/main.py, finally).  The *)
(* one exception is again a handler that a failing database call killed.   *)
(***************************************************************************)
NoPhantomActive ==
    \A p \in Clients : row[p] = "active" =>
        \E c \in Conns : peer[c] = p /\ pc[c] \in Live \cup {"crashed"}

(***************************************************************************)
(* With the handshake bypassed, the per-role ceilings of engine.config are *)
(* never exceeded: the check and register() happen in one step.            *)
(***************************************************************************)
CapacityRespected ==
    /\ Cardinality(RegisteredOf(Clients)) <= MaxClients
    /\ Cardinality(RegisteredOf(Admins)) <= MaxAdmins

CapacityUnderBypass == Bypass => CapacityRespected

(***************************************************************************)
(* A served connection whose link is up can only be missing from the       *)
(* registry if another connection of the same peer went through its own    *)
(* cleanup: a peer that never reconnected is always reachable.             *)
(***************************************************************************)
SoleSessionReachable ==
    \A c \in Conns :
        /\ pc[c] \in Live /\ link[c] = "up"
        /\ \A d \in Conns \ {c} : peer[d] # peer[c]
        => registry[peer[c]] = c

(***************************************************************************)
(* connection_manager.register: "Add a peer to the registry, replacing any *)
(* prior connection for it".  What a console or a client relies on: while  *)
(* one of its connections is up and served, it counts as connected.        *)
(***************************************************************************)
LiveSessionRegistered ==
    \A c \in Conns :
        pc[c] = "serve" /\ link[c] = "up" => registry[peer[c]] # None

(***************************************************************************)
(* Every handler whose peer is gone comes to an end, whether the peer      *)
(* closed the connection or fell silent in any phase of it.                *)
(***************************************************************************)
DeadHandlersEnd ==
    \A c \in Conns : link[c] \in {"eof", "lost"} ~> pc[c] \in {"done", "crashed"}

(***************************************************************************)
(* An entry whose link is dead is removed by its handler or by the reaper, *)
(* even when the handler died without cleaning up; only the heartbeats of  *)
(* another connection of the same peer, which touch() credits to whatever  *)
(* entry stands under that id, may keep it.  Once an OSError out of        *)
(* close_writer has ended the reaper (engine/main.py, reap_stale_-         *)
(* connections has no try), the entry of a crashed handler stays for good; *)
(* every other one still goes.                                             *)
(***************************************************************************)
DeadEntriesRemoved ==
    \A p \in Peers : \A c \in Conns :
        registry[p] = c /\ link[c] # "up"
        ~> \/ registry[p] # c
           \/ Heartbeating(p)
           \/ reaping = "dead" /\ pc[c] = "crashed"
=============================================================================
