-------------------------------- MODULE Watch --------------------------------
(***************************************************************************)
(* Who watches which client: engine/watch.py, handle_watch,                *)
(* release_watches and renew_watches of engine/command_handler.py, the     *)
(* renewer of engine/main.py, over the connections of Sessions, down to    *)
(* the sampling rate of client/sampling.py.                                *)
(*                                                                         *)
(* A rate request is written in the step that decides on it; only its      *)
(* drain is awaited.  A client that is not registered is not told and      *)
(* costs no await.                                                         *)
(***************************************************************************)
EXTENDS Sessions, Sequences

CONSTANT MaxInFlight    \* bound: rate requests on one connection

ASSUME WatchAssumption == MaxInFlight \in Nat \ {0}

VARIABLES
    watching,   \* _watching: admin -> client
    draining,   \* connections whose handler awaits the drain of a request
    next,       \* the client such a handler is then to speed up
    renewer,    \* the renewal task: "idle", "busy" (in a drain) or "dead"
    renewList,  \* clients its pass has still to visit
    rates,      \* SET_SAMPLE_RATE under way (is it fast?), per connection
    fast        \* a client's is_fast()

handlerWaits == <<draining, next>>
renewal == <<renewer, renewList>>
watchVars == <<watching, handlerWaits, renewal, rates, fast>>
allVars == <<vars, watchVars>>

WatchTypeOK ==
    /\ watching \in [Admins -> Clients \cup {None}]
    /\ draining \in SUBSET Conns
    /\ next \in [Conns -> Clients \cup {None}]
    /\ \A c \in Conns :
          /\ c \in draining => peer[c] \in Admins /\ pc[c] \in {"serve", "closing"}
          /\ next[c] # None => c \in draining /\ pc[c] = "serve"
    /\ renewer \in {"idle", "busy", "dead"}
    /\ renewList \in SUBSET Clients
    /\ rates \in [Conns -> Seq(BOOLEAN)]
    /\ fast \in [Clients -> BOOLEAN]

WatchInit ==
    /\ Init
    /\ watching = [a \in Admins |-> None]
    /\ draining = {}
    /\ next = [c \in Conns |-> None]
    /\ renewer = "idle" /\ renewList = {}
    /\ rates = [c \in Conns |-> <<>>]
    /\ fast = [p \in Clients |-> FALSE]

-----------------------------------------------------------------------------
\* watch.py.

SetWatch(a, p) == [watching EXCEPT ![a] = p]

\* A mutated form: the entry stays when its console goes.
KeptWatch(a) == watching

ClearedWatch(a) == [watching EXCEPT ![a] = None]

Watchers(p) == {a \in Admins : watching[a] = p}
Watched == {p \in Clients : Watchers(p) # {}}

\* A mutated form: is_watched is not asked.
DroppedBy(a, p) == {p} \ {None}

\* The client, if any, nobody watches any more once admin a is off p.
Abandoned(a, p) == {q \in {p} \ {None} : Watchers(q) \subseteq {a}}

-----------------------------------------------------------------------------
\* _set_sample_rate, on its way to the client.

Reached(p) == p # None /\ registry[p] # None

LastOf(requests) == requests[Len(requests)]

\* A request on a dead link goes nowhere; nothing on a link outlives it.  One
\* that repeats the last one under way on its connection makes no difference.
Told(p, rate) ==
    LET d == registry[p] IN
    IF link[d] # "up" \/ (rates[d] # <<>> /\ LastOf(rates[d]) = rate)
    THEN rates
    ELSE [rates EXCEPT ![d] = Append(@, rate)]

Carried == [c \in Conns |-> IF link'[c] = "up" THEN rates[c] ELSE <<>>]

\* Handler c tells p its rate and awaits the drain; q is its next.
TellThen(c, p, rate, q) ==
    /\ rates' = Told(p, rate)
    /\ draining' = draining \cup {c}
    /\ next' = [next EXCEPT ![c] = q]

TellNobody(c) ==
    /\ draining' = draining \ {c}
    /\ next' = [next EXCEPT ![c] = None]
    /\ UNCHANGED rates

SpeedUp(c, p) == IF Reached(p) THEN TellThen(c, p, TRUE, None) ELSE TellNobody(c)

\* Slows down the client left alone, then speeds up p.
SlowThenSpeedUp(c, left, p) ==
    \/ \E q \in left : Reached(q) /\ TellThen(c, q, FALSE, p)
    \/ (\A q \in left : ~Reached(q)) /\ SpeedUp(c, p)

-----------------------------------------------------------------------------
\* A console's handler.

\* A mutated form: the handler does not await its drains.
NeverBusy(c) == TRUE

Idle(c) == c \notin draining

HandleWatch(c, p) ==
    LET a == peer[c] IN
    /\ a \in Admins /\ Idle(c) /\ Receive(c)
    /\ \A d \in Conns : Len(rates[d]) < MaxInFlight
    /\ IF watching[a] = p
       THEN UNCHANGED <<watching, handlerWaits, rates>>
       ELSE /\ watching' = SetWatch(a, p)
            /\ SlowThenSpeedUp(c, Abandoned(a, watching[a]), p)
    /\ UNCHANGED <<renewal, fast>>

\* drain returns, or raises and is reported.
Drained(c) ==
    /\ ~Idle(c)
    /\ SpeedUp(c, next[c])
    /\ UNCHANGED <<vars, watching, renewal, fast>>

\* release_watches, in the finally clause of a console's handler, when p is
\* the last client that console watched.  close_writer comes after it.
Release(c, p) ==
    LET a == peer[c] IN
    /\ watching' = ClearedWatch(a)
    /\ IF pc'[c] = "crashed"
       THEN TellNobody(c)
       ELSE SlowThenSpeedUp(c, Abandoned(a, p), None)
    /\ UNCHANGED <<renewal, fast>>

\* A database call may also fail after handle_watch has set another watch, or
\* between its two requests.
ConsoleLeaves(c) ==
    /\ peer[c] \in Admins
    /\ \/ Idle(c) /\ Hangup(c) /\ Release(c, watching[peer[c]])
       \/ /\ Idle(c) /\ Fault(c)
          /\ \E p \in Clients \cup {None} :
                (pc[c] = "serve" \/ p = watching[peer[c]]) /\ Release(c, p)
       \/ next[c] # None /\ Fault(c) /\ Release(c, watching[peer[c]])

-----------------------------------------------------------------------------
\* renew_watch_loop.

\* renew_watches on what is left of its list; clients that are not
\* registered cost no await.  Nothing catches what log_command raises: the
\* task ends.
RenewNext(list) ==
    /\ \/ \E p \in list :
             /\ Reached(p)
             /\ \E away \in SUBSET {q \in list : ~Reached(q)} :
                   renewList' = list \ (away \cup {p})
             /\ rates' = Told(p, TRUE)
             /\ renewer' = "busy"
       \/ /\ \A p \in list : ~Reached(p)
          /\ renewList' = {} /\ renewer' = "idle"
          /\ UNCHANGED rates
       \/ /\ DbFails /\ list # {}
          /\ renewList' = {} /\ renewer' = "dead"
          /\ UNCHANGED rates
    /\ UNCHANGED <<vars, watching, handlerWaits, fast>>

\* A mutated form: only what a pass left unvisited is renewed.
RenewRemaining == renewer = "idle" /\ RenewNext(renewList)

\* WATCH_RENEW_INTERVAL is over.
RenewStart == renewer = "idle" /\ RenewNext(Watched)

RenewDrained == renewer = "busy" /\ RenewNext(renewList)

-----------------------------------------------------------------------------
\* client/sampling.py.

\* apply_command.
HearRate(c) ==
    /\ link[c] = "up" /\ rates[c] # <<>>
    /\ rates' = [rates EXCEPT ![c] = Tail(@)]
    /\ fast' = [fast EXCEPT ![peer[c]] = Head(rates[c])]
    /\ UNCHANGED <<vars, watching, handlerWaits, renewal>>

\* The TTL of the last request is over.
Lapse(p) ==
    /\ fast[p]
    /\ fast' = [fast EXCEPT ![p] = FALSE]
    /\ UNCHANGED <<vars, watching, handlerWaits, renewal, rates>>

-----------------------------------------------------------------------------
\* What leaves the watches alone.
OtherStep ==
    /\ \/ \E p \in Peers, c \in Conns : Connect(p, c)
       \/ \E c \in Conns :
             \/ Disconnect(c, "eof") \/ Disconnect(c, "lost")
             \/ Refuse(c) \/ Hello(c) \/ HelloWhenFull(c) \/ Answer(c) \/ Greet(c)
             \/ Idle(c) /\ (Receive(c) \/ Close(c))
             \/ peer[c] \in Clients /\ (Hangup(c) \/ Fault(c))
       \/ \E p \in Peers : Age(p)
       \/ ReapScan \/ ReapResume \/ ReapFails
    /\ rates' = Carried
    /\ UNCHANGED <<watching, handlerWaits, renewal, fast>>

WatchNext ==
    \/ OtherStep
    \/ \E c \in Conns :
          \/ \E p \in Clients \cup {None} : HandleWatch(c, p)
          \/ Drained(c) \/ ConsoleLeaves(c) \/ HearRate(c)
    \/ RenewStart \/ RenewDrained
    \/ \E p \in Clients : Lapse(p)

WatchSpec == WatchInit /\ [][WatchNext]_allVars

(***************************************************************************)
(* A drain ends, with its connection if not before; the renewal timer      *)
(* fires; a client reads what has arrived; a rate nobody renews lapses.    *)
(* Nothing obliges anybody to connect, to stay or to select a client.      *)
(***************************************************************************)
WatchFairSpec ==
    /\ WatchSpec
    /\ \A c \in Conns : WF_allVars(Drained(c)) /\ WF_allVars(HearRate(c))
    /\ WF_allVars(RenewStart) /\ WF_allVars(RenewDrained)
    /\ \A p \in Clients : WF_allVars(Lapse(p))

-----------------------------------------------------------------------------
\* Properties.

(***************************************************************************)
(* A console that watches a client is served: no reconnect, reap or fault  *)
(* leaves behind a subscription whose console is gone, which the renewals  *)
(* would keep alive for ever (watch.clear_watch: "a departed console would *)
(* hold a client at its fast sample rate indefinitely").                   *)
(***************************************************************************)
WatchBacked ==
    \A a \in Admins : watching[a] # None =>
        \E c \in Conns : peer[c] = a /\ pc[c] = "serve"

(***************************************************************************)
(* handle_watch: "two admins watching the same machine do not fight over   *)
(* it".  The last word written to a client some console watches is never   *)
(* to slow down, unless a handler is about to speed it up.                 *)
(***************************************************************************)
WatchedNotSlowed ==
    \A p \in Watched :
        /\ Reached(p)
        /\ rates[registry[p]] # <<>>
        /\ ~LastOf(rates[registry[p]])
        => \E c \in Conns : next[c] = p

(***************************************************************************)
(* A watched client comes to sample fast, even if it registered after it   *)
(* was selected, or lapsed; only the death of the renewal task prevents it.*)
(***************************************************************************)
WatchedOn(p, c) == p \in Watched /\ registry[p] = c /\ link[c] = "up"

WatchedGoesFast ==
    \A p \in Clients, c \in Conns :
        WatchedOn(p, c) ~> fast[p] \/ renewer = "dead" \/ ~WatchedOn(p, c)

(***************************************************************************)
(* Once no console is served any more, every client ends at its recording  *)
(* rate and stays there, whatever was in flight and however its own        *)
(* console went (client/sampling.py: "Fast sampling expires by itself").   *)
(***************************************************************************)
NoConsole == \A c \in Conns : peer[c] \in Admins => pc[c] # "serve"

UnwatchedSettles == <>[]NoConsole => \A p \in Clients : <>[](~fast[p])
=============================================================================
