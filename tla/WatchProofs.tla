----------------------------- MODULE WatchProofs -----------------------------
(***************************************************************************)
(* Theorems of Watch, for every set of peers and connections, with or      *)
(* without database failures.  Its connections behave as those of          *)
(* Sessions, so that what is proved there holds here.                      *)
(***************************************************************************)
EXTENDS Watch, SessionsProofs

LEMMA WatchStepIsSessionStep ==
    [WatchNext]_allVars => [Next]_vars
<1> SUFFICES ASSUME [WatchNext]_allVars PROVE [Next]_vars
  OBVIOUS
<1> USE DEF Next, Lifecycle, World, HandlerStep
<1>1. CASE UNCHANGED allVars
  BY <1>1 DEF allVars
<1>2. CASE OtherStep
  BY <1>2 DEF OtherStep
<1>3. ASSUME NEW c \in Conns, NEW p \in Clients \cup {None}, HandleWatch(c, p) PROVE Next
  BY <1>3 DEF HandleWatch
<1>4. ASSUME NEW c \in Conns, ConsoleLeaves(c) PROVE Next
  BY <1>4 DEF ConsoleLeaves
<1>5. ASSUME NEW c \in Conns, Drained(c) \/ HearRate(c) PROVE UNCHANGED vars
  BY <1>5 DEF Drained, HearRate
<1>6. CASE RenewStart \/ RenewDrained
  BY <1>6 DEF RenewStart, RenewDrained, RenewNext
<1>7. ASSUME NEW p \in Clients, Lapse(p) PROVE UNCHANGED vars
  BY <1>7 DEF Lapse
<1> QED BY <1>1, <1>2, <1>3, <1>4, <1>5, <1>6, <1>7 DEF WatchNext

(***************************************************************************)
(* Every behaviour of Watch is one of Sessions: the theorems of            *)
(* SessionsProofs hold of the Engine with its watches.                     *)
(***************************************************************************)
THEOREM WatchImplementsSessions == WatchSpec => Spec
<1>1. WatchInit => Init
  BY DEF WatchInit
<1> QED BY <1>1, WatchStepIsSessionStep, PTL DEF WatchSpec, Spec

-----------------------------------------------------------------------------
\* The part of the type invariant that WatchBacked needs.
WatchingTyped == watching \in [Admins -> Clients \cup {None}]

\* No console's handler stops serving.
Undisturbed ==
    \A c \in Conns : peer[c] \in Admins /\ pc[c] = "serve" =>
        peer'[c] = peer[c] /\ pc'[c] = "serve"

LEMMA OtherStepUndisturbed ==
    ASSUME TypeOK, OtherStep
    PROVE  Undisturbed
<1> USE SessionsAssumption DEF TypeOK, Places, Peers
<1>1. ASSUME NEW p \in Peers, NEW c \in Conns, Connect(p, c) PROVE Undisturbed
  BY <1>1 DEF Connect, Undisturbed
<1>2. ASSUME NEW c \in Conns, Disconnect(c, "eof") \/ Disconnect(c, "lost") \/ Receive(c)
      PROVE  Undisturbed
  BY <1>2 DEF Disconnect, Receive, Undisturbed
<1>3. ASSUME NEW c \in Conns,
             Refuse(c) \/ Hello(c) \/ HelloWhenFull(c) \/ Answer(c) \/ Greet(c) \/ Close(c)
      PROVE  Undisturbed
  BY <1>3 DEF Refuse, Hello, HelloWhenFull, Answer, Admit, Greet, Close, Undisturbed
<1>4. ASSUME NEW c \in Conns, peer[c] \in Clients, Hangup(c) \/ Fault(c)
      PROVE  Undisturbed
  BY <1>4 DEF Hangup, Fault, Cleanup, Undisturbed
<1>5. ASSUME NEW p \in Peers, Age(p) PROVE Undisturbed
  BY <1>5 DEF Age, Undisturbed
<1>6. ASSUME ReapScan \/ ReapResume \/ ReapFails PROVE Undisturbed
  BY <1>6 DEF ReapScan, ReapResume, ReapFails, ReapNext, Undisturbed
<1> QED BY <1>1, <1>2, <1>3, <1>4, <1>5, <1>6 DEF OtherStep

LEMMA WatchBackedStep ==
    ASSUME TypeOK, WatchingTyped, WatchBacked, [WatchNext]_allVars
    PROVE  WatchingTyped' /\ WatchBacked'
<1> USE SessionsAssumption DEF TypeOK, WatchingTyped, WatchBacked, Peers, Places
<1>1. ASSUME UNCHANGED watching,
             \A c \in Conns : peer[c] \in Admins /\ pc[c] = "serve" =>
                 peer'[c] = peer[c] /\ pc'[c] = "serve"
      PROVE  WatchingTyped' /\ WatchBacked'
  BY <1>1
<1>2. CASE OtherStep
  BY <1>1, <1>2, OtherStepUndisturbed DEF OtherStep, Undisturbed
<1>3. ASSUME NEW c \in Conns, NEW p \in Clients \cup {None}, HandleWatch(c, p)
      PROVE  WatchingTyped' /\ WatchBacked'
  <2>1. peer[c] \in Admins /\ pc[c] = "serve" /\ UNCHANGED <<peer, pc>>
    BY <1>3 DEF HandleWatch, Receive
  <2>2. watching' = watching \/ watching' = [watching EXCEPT ![peer[c]] = p]
    BY <1>3 DEF HandleWatch, SetWatch
  <2> QED BY <2>1, <2>2
<1>4. ASSUME NEW c \in Conns, ConsoleLeaves(c)
      PROVE  WatchingTyped' /\ WatchBacked'
  <2>1. peer[c] \in Admins /\ watching' = [watching EXCEPT ![peer[c]] = None]
    BY <1>4 DEF ConsoleLeaves, Release, ClearedWatch
  <2>2. UNCHANGED peer /\ \A d \in Conns \ {c} : pc'[d] = pc[d]
    BY <1>4 DEF ConsoleLeaves, Hangup, Fault, Cleanup
  <2> QED BY <2>1, <2>2
<1>5. ASSUME NEW c \in Conns, Drained(c) \/ HearRate(c) PROVE UNCHANGED <<peer, pc, watching>>
  BY <1>5 DEF Drained, HearRate, vars
<1>6. CASE RenewStart \/ RenewDrained
  BY <1>1, <1>6 DEF RenewStart, RenewDrained, RenewNext, vars
<1>7. ASSUME NEW p \in Clients, Lapse(p) PROVE UNCHANGED <<peer, pc, watching>>
  BY <1>7 DEF Lapse, vars
<1>8. CASE UNCHANGED allVars
  BY <1>1, <1>8 DEF allVars, watchVars, vars
<1> QED BY <1>1, <1>2, <1>3, <1>4, <1>5, <1>6, <1>7, <1>8 DEF WatchNext

(***************************************************************************)
(* A subscription never outlives the consoles that could hold it, however  *)
(* an admin's old and new connections overlap (engine/watch.py, the        *)
(* finally clause of handle_client).  It is inductive as it stands: every  *)
(* cleanup of a console clears that console's entry, so what is left was   *)
(* set by a handler that has not cleaned up.                               *)
(***************************************************************************)
THEOREM WatchBackedAlways == WatchSpec => []WatchBacked
<1>1. WatchInit => WatchingTyped /\ WatchBacked
  BY DEF WatchInit, WatchingTyped, WatchBacked
<1>2. TypeOK /\ WatchingTyped /\ WatchBacked /\ [WatchNext]_allVars
      => WatchingTyped' /\ WatchBacked'
  BY WatchBackedStep
<1> QED BY <1>1, <1>2, WatchImplementsSessions, TypeCorrect, PTL DEF WatchSpec
-----------------------------------------------------------------------------
\* The type invariant, and with it when a handler waits.

LEMMA ToldType ==
    ASSUME TypeOK, WatchTypeOK, NEW p \in Clients \cup {None}, Reached(p), NEW rate \in BOOLEAN
    PROVE  Told(p, rate) \in [Conns -> Seq(BOOLEAN)]
<1>1. p \in Peers /\ registry[p] \in Conns
  BY DEF TypeOK, Reached, Peers
<1>2. Append(rates[registry[p]], rate) \in Seq(BOOLEAN)
  BY <1>1 DEF WatchTypeOK
<1> QED BY <1>1, <1>2 DEF WatchTypeOK, Told

\* What a handler's requests change of its own place.
LEMMA SpeedUpEffect ==
    ASSUME TypeOK, WatchTypeOK, NEW c \in Conns, NEW p \in Clients \cup {None}, SpeedUp(c, p)
    PROVE  /\ rates' \in [Conns -> Seq(BOOLEAN)]
           /\ next' = [next EXCEPT ![c] = None]
           /\ draining' \in {draining \cup {c}, draining \ {c}}
<1>1. CASE Reached(p)
  BY <1>1, ToldType DEF SpeedUp, TellThen
<1>2. CASE ~Reached(p)
  BY <1>2 DEF SpeedUp, TellNobody, WatchTypeOK
<1> QED BY <1>1, <1>2

LEMMA SlowThenSpeedUpEffect ==
    ASSUME TypeOK, WatchTypeOK, NEW c \in Conns, NEW left \in SUBSET Clients,
           NEW p \in Clients \cup {None}, SlowThenSpeedUp(c, left, p)
    PROVE  /\ rates' \in [Conns -> Seq(BOOLEAN)]
           /\ \/ next' = [next EXCEPT ![c] = p] /\ draining' = draining \cup {c}
              \/ /\ next' = [next EXCEPT ![c] = None]
                 /\ draining' \in {draining \cup {c}, draining \ {c}}
<1>1. ASSUME NEW q \in left, Reached(q), TellThen(c, q, FALSE, p)
      PROVE  /\ rates' \in [Conns -> Seq(BOOLEAN)]
             /\ next' = [next EXCEPT ![c] = p] /\ draining' = draining \cup {c}
  BY <1>1, ToldType DEF TellThen
<1> QED BY <1>1, SpeedUpEffect DEF SlowThenSpeedUp

\* Other steps leave a suspended handler where it is.
Suspended == \A c \in draining : peer'[c] = peer[c] /\ pc'[c] = pc[c]

LEMMA OtherStepSuspends ==
    ASSUME TypeOK, WatchTypeOK, OtherStep
    PROVE  Suspended
<1> USE SessionsAssumption DEF TypeOK, WatchTypeOK, Places, Peers
<1>1. ASSUME NEW p \in Peers, NEW c \in Conns, Connect(p, c) PROVE Suspended
  BY <1>1 DEF Connect, Suspended
<1>2. ASSUME NEW c \in Conns, Disconnect(c, "eof") \/ Disconnect(c, "lost") \/ Receive(c)
      PROVE  Suspended
  BY <1>2 DEF Disconnect, Receive, Suspended
<1>3. ASSUME NEW c \in Conns,
             Refuse(c) \/ Hello(c) \/ HelloWhenFull(c) \/ Answer(c) \/ Greet(c)
      PROVE  Suspended
  BY <1>3 DEF Refuse, Hello, HelloWhenFull, Answer, Admit, Greet, Suspended
<1>4. ASSUME NEW c \in Conns, Idle(c), Close(c) PROVE Suspended
  BY <1>4 DEF Idle, Close, Suspended
<1>5. ASSUME NEW c \in Conns, peer[c] \in Clients, Hangup(c) \/ Fault(c)
      PROVE  Suspended
  BY <1>5 DEF Hangup, Fault, Cleanup, Suspended
<1>6. ASSUME NEW p \in Peers, Age(p) PROVE Suspended
  BY <1>6 DEF Age, Suspended
<1>7. ASSUME ReapScan \/ ReapResume \/ ReapFails PROVE Suspended
  BY <1>7 DEF ReapScan, ReapResume, ReapFails, ReapNext, Suspended
<1> QED BY <1>1, <1>2, <1>3, <1>4, <1>5, <1>6, <1>7 DEF OtherStep

LEMMA WatchTypeStep ==
    ASSUME TypeOK, TypeOK', WatchTypeOK, [WatchNext]_allVars
    PROVE  WatchTypeOK'
<1>1. CASE OtherStep
  <2>1. Suspended /\ UNCHANGED <<watching, handlerWaits, renewal, fast>> /\ rates' = Carried
    BY <1>1, OtherStepSuspends DEF OtherStep
  <2>2. rates' \in [Conns -> Seq(BOOLEAN)]
    <3>1. <<>> \in Seq(BOOLEAN) /\ \A c \in Conns : rates[c] \in Seq(BOOLEAN)
      BY DEF WatchTypeOK
    <3> QED BY <2>1, <3>1 DEF Carried
  <2> QED BY <2>1, <2>2 DEF Suspended, WatchTypeOK, handlerWaits, renewal
<1>2. ASSUME NEW c \in Conns, NEW p \in Clients \cup {None}, HandleWatch(c, p)
      PROVE  WatchTypeOK'
  <2>1. /\ peer[c] \in Admins /\ pc[c] = "serve" /\ UNCHANGED <<peer, pc>>
        /\ UNCHANGED <<renewal, fast>>
    BY <1>2 DEF HandleWatch, Receive
  <2>2. CASE UNCHANGED <<watching, handlerWaits, rates>>
    BY <2>1, <2>2 DEF WatchTypeOK, handlerWaits, renewal
  <2>3. CASE /\ watching' = SetWatch(peer[c], p)
             /\ SlowThenSpeedUp(c, Abandoned(peer[c], watching[peer[c]]), p)
    <3>1. Abandoned(peer[c], watching[peer[c]]) \in SUBSET Clients
      BY <2>1 DEF Abandoned, WatchTypeOK
    <3>2. watching' \in [Admins -> Clients \cup {None}]
      BY <2>3 DEF SetWatch, WatchTypeOK
    <3>3. /\ rates' \in [Conns -> Seq(BOOLEAN)]
          /\ \/ next' = [next EXCEPT ![c] = p] /\ draining' = draining \cup {c}
             \/ /\ next' = [next EXCEPT ![c] = None]
                /\ draining' \in {draining \cup {c}, draining \ {c}}
      BY <2>3, <3>1, SlowThenSpeedUpEffect
    <3> QED BY <2>1, <3>2, <3>3 DEF WatchTypeOK, renewal
  <2> QED BY <1>2, <2>2, <2>3 DEF HandleWatch
<1>3. ASSUME NEW c \in Conns, Drained(c) PROVE WatchTypeOK'
  <2>1. /\ c \in draining /\ UNCHANGED <<peer, pc, watching, renewal, fast>>
        /\ SpeedUp(c, next[c]) /\ next[c] \in Clients \cup {None}
    BY <1>3 DEF Drained, Idle, vars, WatchTypeOK
  <2> QED BY <2>1, SpeedUpEffect DEF WatchTypeOK, renewal
<1>4. ASSUME NEW c \in Conns, ConsoleLeaves(c) PROVE WatchTypeOK'
  <2>1. PICK p \in Clients \cup {None} : Release(c, p)
    BY <1>4 DEF ConsoleLeaves, WatchTypeOK
  <2>2. /\ peer[c] \in Admins /\ UNCHANGED <<peer, renewal, fast>>
        /\ pc'[c] \in {"closing", "crashed"} /\ \A d \in Conns \ {c} : pc'[d] = pc[d]
    BY <1>4, <2>1 DEF ConsoleLeaves, Release, Hangup, Fault, Cleanup, TypeOK
  <2>3. watching' \in [Admins -> Clients \cup {None}]
    BY <2>1 DEF Release, ClearedWatch, WatchTypeOK
  <2>4. CASE pc'[c] = "crashed" /\ TellNobody(c)
    BY <2>2, <2>3, <2>4 DEF TellNobody, WatchTypeOK, renewal
  <2>5. CASE pc'[c] # "crashed" /\ SlowThenSpeedUp(c, Abandoned(peer[c], p), None)
    <3>1. Abandoned(peer[c], p) \in SUBSET Clients
      BY DEF Abandoned
    <3>2. /\ rates' \in [Conns -> Seq(BOOLEAN)] /\ next' = [next EXCEPT ![c] = None]
          /\ draining' \in {draining \cup {c}, draining \ {c}}
      BY <2>5, <3>1, SlowThenSpeedUpEffect
    <3> QED BY <2>2, <2>3, <2>5, <3>2 DEF WatchTypeOK, renewal
  <2> QED BY <2>1, <2>4, <2>5 DEF Release
<1>5. ASSUME NEW list \in SUBSET Clients, RenewNext(list) PROVE WatchTypeOK'
  <2>1. rates' \in [Conns -> Seq(BOOLEAN)]
    BY <1>5, ToldType DEF RenewNext, WatchTypeOK
  <2>2. renewer' \in {"idle", "busy", "dead"} /\ renewList' \in SUBSET Clients
    BY <1>5 DEF RenewNext
  <2>3. UNCHANGED <<peer, pc, watching, draining, next, fast>>
    BY <1>5 DEF RenewNext, vars, handlerWaits
  <2> QED BY <2>1, <2>2, <2>3 DEF WatchTypeOK
<1>6. CASE RenewStart \/ RenewDrained
  BY <1>5, <1>6 DEF RenewStart, RenewDrained, Watched, WatchTypeOK
<1>7. ASSUME NEW c \in Conns, HearRate(c) PROVE WatchTypeOK'
  <2>1. Head(rates[c]) \in BOOLEAN /\ Tail(rates[c]) \in Seq(BOOLEAN)
    BY <1>7 DEF HearRate, WatchTypeOK
  <2> QED BY <1>7, <2>1 DEF HearRate, WatchTypeOK, vars, handlerWaits, renewal
<1>8. ASSUME NEW p \in Clients, Lapse(p) PROVE WatchTypeOK'
  BY <1>8 DEF Lapse, WatchTypeOK, vars, handlerWaits, renewal
<1>9. CASE UNCHANGED allVars
  BY <1>9 DEF allVars, watchVars, vars, handlerWaits, renewal, WatchTypeOK
<1> QED BY <1>1, <1>2, <1>3, <1>4, <1>6, <1>7, <1>8, <1>9 DEF WatchNext

(***************************************************************************)
(* The type invariant of the watches; a handler that awaits a drain is a   *)
(* console's, serving or on its way out.                                   *)
(***************************************************************************)
THEOREM WatchTypeCorrect == WatchSpec => []WatchTypeOK
<1>1. WatchInit => WatchTypeOK
  BY DEF WatchInit, WatchTypeOK
<1>2. TypeOK /\ TypeOK' /\ WatchTypeOK /\ [WatchNext]_allVars => WatchTypeOK'
  BY WatchTypeStep
<1> QED BY <1>1, <1>2, WatchImplementsSessions, TypeCorrect, PTL DEF WatchSpec
-----------------------------------------------------------------------------
(***************************************************************************)
(* WatchedNotSlowed is not inductive: a watcher may leave with the request *)
(* it still owes.  But every watcher owes one of its own, because a client *)
(* is slowed down only when it has no watcher at all.  That a request      *)
(* reaches no other client takes the registry's being backed.              *)
(***************************************************************************)
Slowed(p) == Reached(p) /\ rates[registry[p]] # <<>> /\ ~LastOf(rates[registry[p]])
Owes(a, p) == \E c \in Conns : peer[c] = a /\ next[c] = p
BeenRegistered == {"greet", "serve", "closing", "done", "crashed"}

WordInv ==
    /\ \A c \in Conns : rates[c] # <<>> => link[c] = "up" /\ pc[c] \in BeenRegistered
    /\ \A a \in Admins, p \in Clients : watching[a] = p /\ Slowed(p) => Owes(a, p)

\* A request changes the last word for its client only, to its rate.
LEMMA ToldEffect ==
    ASSUME TypeOK, RegistryBacked, WatchTypeOK, WordInv,
           NEW p \in Clients, Reached(p), NEW rate \in BOOLEAN, rates' = Told(p, rate)
    PROVE  /\ \A c \in Conns : rates'[c] # <<>> => link[c] = "up" /\ pc[c] \in BeenRegistered
           /\ \A q \in Clients \ {p} : Reached(q) => rates'[registry[q]] = rates[registry[q]]
           /\ rates'[registry[p]] # <<>> => LastOf(rates'[registry[p]]) = rate
<1> DEFINE d == registry[p]
<1>1. /\ p \in Peers /\ d \in Conns /\ peer[d] = p /\ pc[d] \in BeenRegistered
      /\ \A q \in Clients \ {p} : Reached(q) => registry[q] \in Conns \ {d}
  BY DEF TypeOK, RegistryBacked, Reached, Peers, Live, BeenRegistered
<1>2. CASE rates' = rates /\ link[d] # "up"
  BY <1>1, <1>2 DEF WordInv
<1>3. CASE rates' = rates /\ rates[d] # <<>> /\ LastOf(rates[d]) = rate
  BY <1>1, <1>3 DEF WordInv
<1>4. CASE link[d] = "up" /\ rates' = [rates EXCEPT ![d] = Append(@, rate)]
  <2>1. /\ rates'[d] = Append(rates[d], rate) /\ rates[d] \in Seq(BOOLEAN)
        /\ \A c \in Conns \ {d} : rates'[c] = rates[c]
    BY <1>1, <1>4 DEF WatchTypeOK
  <2>2. LastOf(rates'[d]) = rate
    BY <2>1 DEF LastOf
  <2> QED BY <1>1, <1>4, <2>1, <2>2 DEF WordInv
<1> QED BY <1>2, <1>3, <1>4 DEF Told
\* The clients a step leaves slowed down, its requests written.
LeftSlowed(p) == Reached(p) /\ rates'[registry[p]] # <<>> /\ ~LastOf(rates'[registry[p]])
RatesBacked == \A c \in Conns : rates'[c] # <<>> => link[c] = "up" /\ pc[c] \in BeenRegistered

LEMMA UntoldWord ==
    ASSUME WordInv, UNCHANGED rates
    PROVE  RatesBacked /\ \A q \in Clients : LeftSlowed(q) => Slowed(q)
BY DEF WordInv, RatesBacked, LeftSlowed, Slowed

LEMMA ToldWord ==
    ASSUME TypeOK, RegistryBacked, WatchTypeOK, WordInv,
           NEW p \in Clients, Reached(p), NEW rate \in BOOLEAN, rates' = Told(p, rate)
    PROVE  /\ RatesBacked
           /\ \A q \in Clients \ {p} : LeftSlowed(q) => Slowed(q)
           /\ LeftSlowed(p) => ~rate
<1>1. /\ \A c \in Conns : rates'[c] # <<>> => link[c] = "up" /\ pc[c] \in BeenRegistered
      /\ \A q \in Clients \ {p} : Reached(q) => rates'[registry[q]] = rates[registry[q]]
      /\ rates'[registry[p]] # <<>> => LastOf(rates'[registry[p]]) = rate
  BY ToldEffect
<1> QED BY <1>1 DEF RatesBacked, LeftSlowed, Slowed

LEMMA SpeedUpWord ==
    ASSUME TypeOK, RegistryBacked, WatchTypeOK, WordInv,
           NEW c \in Conns, NEW p \in Clients \cup {None}, SpeedUp(c, p)
    PROVE  /\ RatesBacked
           /\ next' = [next EXCEPT ![c] = None]
           /\ \A q \in Clients : LeftSlowed(q) => q # p /\ Slowed(q)
<1>1. CASE Reached(p)
  <2>1. p \in Clients
    BY <1>1 DEF Reached
  <2>2. rates' = Told(p, TRUE) /\ next' = [next EXCEPT ![c] = None]
    BY <1>1 DEF SpeedUp, TellThen
  <2> QED BY <1>1, <2>1, <2>2, ToldWord
<1>2. CASE ~Reached(p)
  <2>1. UNCHANGED rates /\ next' = [next EXCEPT ![c] = None]
    BY <1>2 DEF SpeedUp, TellNobody
  <2>2. ~LeftSlowed(p)
    BY <1>2 DEF LeftSlowed
  <2> QED BY <2>1, <2>2, UntoldWord
<1> QED BY <1>1, <1>2

LEMMA SlowThenSpeedUpWord ==
    ASSUME TypeOK, RegistryBacked, WatchTypeOK, WordInv,
           NEW c \in Conns, NEW left \in SUBSET Clients, NEW p \in Clients \cup {None},
           SlowThenSpeedUp(c, left, p)
    PROVE  /\ RatesBacked
           /\ \/ /\ next' = [next EXCEPT ![c] = None]
                 /\ \A q \in Clients : LeftSlowed(q) => q # p /\ Slowed(q)
              \/ /\ next' = [next EXCEPT ![c] = p]
                 /\ \A q \in Clients : LeftSlowed(q) => q \in left \/ Slowed(q)
<1>1. CASE SpeedUp(c, p)
  BY <1>1, SpeedUpWord
<1>2. ASSUME NEW q \in left, Reached(q), TellThen(c, q, FALSE, p)
      PROVE  /\ RatesBacked
             /\ next' = [next EXCEPT ![c] = p]
             /\ \A r \in Clients : LeftSlowed(r) => r \in left \/ Slowed(r)
  <2>1. rates' = Told(q, FALSE) /\ next' = [next EXCEPT ![c] = p]
    BY <1>2 DEF TellThen
  <2> QED BY <1>2, <2>1, ToldWord
<1> QED BY <1>1, <1>2 DEF SlowThenSpeedUp

\* Where connections and the registry may go while requests are under way.
LEMMA OtherStepRegistry ==
    ASSUME TypeOK, OtherStep
    PROVE  /\ \A c \in Conns : pc[c] \in BeenRegistered => pc'[c] \in BeenRegistered
           /\ \A p \in Clients : \/ registry'[p] \in {registry[p], None}
                                 \/ /\ registry'[p] \in Conns
                                    /\ pc[registry'[p]] \in {"hello", "challenge"}
<1> DEFINE Goal == /\ \A c \in Conns : pc[c] \in BeenRegistered => pc'[c] \in BeenRegistered
                   /\ \A p \in Clients : \/ registry'[p] \in {registry[p], None}
                                         \/ /\ registry'[p] \in Conns
                                            /\ pc[registry'[p]] \in {"hello", "challenge"}
<1> USE SessionsAssumption DEF TypeOK, Places, Peers, BeenRegistered
<1>1. ASSUME NEW p \in Peers, NEW c \in Conns, Connect(p, c) PROVE Goal
  BY <1>1 DEF Connect
<1>2. ASSUME NEW c \in Conns, Disconnect(c, "eof") \/ Disconnect(c, "lost") \/ Receive(c)
      PROVE  Goal
  BY <1>2 DEF Disconnect, Receive
<1>3. ASSUME NEW c \in Conns, Refuse(c) \/ HelloWhenFull(c) \/ Greet(c) \/ Close(c) PROVE Goal
  BY <1>3 DEF Refuse, HelloWhenFull, Greet, Close
<1>4. ASSUME NEW c \in Conns, Hello(c) \/ Answer(c) PROVE Goal
  <2>1. pc[c] \in {"hello", "challenge"} /\ peer[c] \in Peers
    BY <1>4 DEF Hello, Answer
  <2>2. registry' = [registry EXCEPT ![peer[c]] = c] \/ UNCHANGED registry
    BY <1>4 DEF Hello, Answer, Admit, Registered
  <2>3. \A d \in Conns \ {c} : pc'[d] = pc[d]
    BY <1>4 DEF Hello, Answer, Admit
  <2> QED BY <2>1, <2>2, <2>3
<1>5. ASSUME NEW c \in Conns, peer[c] \in Clients, Hangup(c) \/ Fault(c) PROVE Goal
  BY <1>5 DEF Hangup, Fault, Cleanup, Unregistered
<1>6. ASSUME NEW p \in Peers, Age(p) PROVE Goal
  BY <1>6 DEF Age
<1>7. ASSUME ReapScan \/ ReapResume \/ ReapFails PROVE Goal
  BY <1>7 DEF ReapScan, ReapResume, ReapFails, ReapNext, Unregistered
<1> HIDE DEF Goal
<1>8. Goal
  BY <1>1, <1>2, <1>3, <1>4, <1>5, <1>6, <1>7 DEF OtherStep
<1> QED BY <1>8 DEF Goal

LEMMA WordOtherStep ==
    ASSUME TypeOK, TypeOK', WatchTypeOK, WordInv, OtherStep
    PROVE  WordInv'
<1>1. Suspended /\ rates' = Carried /\ UNCHANGED <<watching, handlerWaits>>
  BY OtherStepSuspends DEF OtherStep
<1>2. ASSUME NEW c \in Conns, rates'[c] # <<>>
      PROVE  rates'[c] = rates[c] /\ link'[c] = "up" /\ pc[c] \in BeenRegistered
  BY <1>1, <1>2 DEF Carried, WordInv
<1>3. ASSUME NEW p \in Clients, Slowed(p)' PROVE Slowed(p)
  <2>1. registry'[p] \in Conns /\ registry'[p] # None /\ rates'[registry'[p]] # <<>>
    BY <1>3 DEF Slowed, Reached, TypeOK, Peers
  <2>2. pc[registry'[p]] \notin {"hello", "challenge"}
    BY <1>2, <2>1 DEF BeenRegistered
  <2>3. registry'[p] = registry[p]
    BY <2>1, <2>2, OtherStepRegistry
  <2> QED BY <1>2, <1>3, <2>1, <2>3 DEF Slowed, Reached, LastOf
<1>4. ASSUME NEW a \in Admins, NEW p \in Clients, Owes(a, p) PROVE Owes(a, p)'
  <2>1. PICK c \in Conns : peer[c] = a /\ next[c] = p
    BY <1>4 DEF Owes
  <2>2. c \in draining
    BY <2>1, SessionsAssumption DEF WatchTypeOK
  <2> QED BY <1>1, <2>1, <2>2 DEF Suspended, Owes, handlerWaits
<1>5. \A c \in Conns : rates'[c] # <<>> => link'[c] = "up" /\ pc'[c] \in BeenRegistered
  BY <1>2, OtherStepRegistry
<1> QED BY <1>1, <1>3, <1>4, <1>5 DEF WordInv


\* Handler c, which is to speed up q next, answers for what its requests leave:
\* a watched client told last to slow down was so before, and not by c.
AnswersFor(c, q) ==
    /\ UNCHANGED <<peer, link>>
    /\ \A p \in Clients : registry'[p] = registry[p]
    /\ \A d \in Conns : pc[d] \in BeenRegistered => pc'[d] \in BeenRegistered
    /\ next' = [next EXCEPT ![c] = q]
    /\ RatesBacked
    /\ \A a \in Admins, p \in Clients : watching'[a] = p /\ LeftSlowed(p) =>
          \/ Slowed(p) /\ watching[a] = p /\ (peer[c] = a => next[c] # p)
          \/ peer[c] = a /\ q = p

LEMMA WordRequests ==
    ASSUME WatchTypeOK, WordInv, NEW c \in Conns, NEW q \in Clients \cup {None},
           AnswersFor(c, q)
    PROVE  WordInv'
<1>1. ASSUME NEW p \in Clients, Slowed(p)' PROVE LeftSlowed(p)
  BY <1>1 DEF AnswersFor, Slowed, LeftSlowed, Reached, LastOf
<1>2. ASSUME NEW a \in Admins, NEW p \in Clients, watching'[a] = p, LeftSlowed(p)
      PROVE  Owes(a, p)'
  <2>0. UNCHANGED peer /\ next' = [next EXCEPT ![c] = q]
    BY DEF AnswersFor
  <2>1. CASE peer[c] = a /\ q = p
    BY <2>0, <2>1 DEF Owes, WatchTypeOK
  <2>2. CASE Slowed(p) /\ watching[a] = p /\ (peer[c] = a => next[c] # p)
    <3>1. PICK d \in Conns : peer[d] = a /\ next[d] = p
      BY <2>2 DEF WordInv, Owes
    <3> QED BY <2>0, <2>2, <3>1 DEF Owes, WatchTypeOK
  <2> QED BY <1>2, <2>1, <2>2 DEF AnswersFor
<1>3. RatesBacked /\ UNCHANGED link /\ \A d \in Conns : pc[d] \in BeenRegistered => pc'[d] \in BeenRegistered
  BY DEF AnswersFor
<1> QED BY <1>1, <1>2, <1>3 DEF WordInv, RatesBacked

LEMMA WordHandler ==
    ASSUME TypeOK, RegistryBacked, WatchTypeOK, WatchTypeOK', WordInv, NEW c \in Conns,
           Drained(c) \/ ConsoleLeaves(c) \/ \E p \in Clients \cup {None} : HandleWatch(c, p)
    PROVE  WordInv'
<1> USE SessionsAssumption
<1>1. CASE Drained(c)
  <2>1. next[c] \in Clients \cup {None} /\ SpeedUp(c, next[c]) /\ UNCHANGED <<vars, watching>>
    BY <1>1 DEF Drained, WatchTypeOK
  <2>2. /\ RatesBacked /\ next' = [next EXCEPT ![c] = None]
        /\ \A p \in Clients : LeftSlowed(p) => p # next[c] /\ Slowed(p)
    BY <2>1, SpeedUpWord
  <2>3. AnswersFor(c, None)
    BY <2>1, <2>2 DEF AnswersFor, vars
  <2> QED BY <2>3, WordRequests
<1>2. ASSUME NEW p \in Clients \cup {None}, HandleWatch(c, p) PROVE WordInv'
  <2> DEFINE a == peer[c]
  <2>1. /\ a \in Admins /\ c \notin draining /\ UNCHANGED <<peer, pc, link, registry>>
        /\ next[c] = None
    BY <1>2 DEF HandleWatch, Receive, Idle, WatchTypeOK
  <2>2. CASE UNCHANGED <<watching, handlerWaits, rates>>
    <3>1. \A r \in Clients : Slowed(r)' = Slowed(r)
      BY <2>1, <2>2 DEF Slowed, Reached, LastOf
    <3>2. \A b \in Admins, r \in Clients : Owes(b, r)' = Owes(b, r)
      BY <2>1, <2>2 DEF Owes, handlerWaits
    <3>3. UNCHANGED <<watching, rates, link, pc>>
      BY <2>1, <2>2
    <3> QED BY <3>1, <3>2, <3>3 DEF WordInv
  <2>3. CASE watching' = SetWatch(a, p) /\ SlowThenSpeedUp(c, Abandoned(a, watching[a]), p)
             /\ watching[a] # p
    <3> DEFINE left == Abandoned(a, watching[a])
    <3>1. left \in SUBSET Clients /\ \A r \in left : r = watching[a] /\ Watchers(r) \subseteq {a}
      BY <2>1 DEF Abandoned, WatchTypeOK
    <3>2. \A b \in Admins, r \in Clients :
             watching'[b] = r => r \notin left /\ ((b = a /\ r = p) \/ (b # a /\ watching[b] = r))
      BY <2>1, <2>3, <3>1 DEF SetWatch, Watchers, WatchTypeOK
    <3> HIDE DEF left, a
    <3>3. CASE /\ RatesBacked /\ next' = [next EXCEPT ![c] = None]
               /\ \A q \in Clients : LeftSlowed(q) => q # p /\ Slowed(q)
      <4>1. \A b \in Admins, r \in Clients : watching'[b] = r /\ LeftSlowed(r) =>
                Slowed(r) /\ watching[b] = r /\ peer[c] # b
        BY <3>2, <3>3 DEF a
      <4>2. AnswersFor(c, None)
        BY <2>1, <3>3, <4>1 DEF AnswersFor
      <4> QED BY <4>2, WordRequests
    <3>4. CASE /\ RatesBacked /\ next' = [next EXCEPT ![c] = p]
               /\ \A q \in Clients : LeftSlowed(q) => q \in left \/ Slowed(q)
      <4>1. \A b \in Admins, r \in Clients : watching'[b] = r /\ LeftSlowed(r) =>
                \/ Slowed(r) /\ watching[b] = r /\ peer[c] # b
                \/ peer[c] = b /\ p = r
        BY <3>2, <3>4 DEF a
      <4>2. AnswersFor(c, p)
        BY <2>1, <3>4, <4>1 DEF AnswersFor
      <4> QED BY <4>2, WordRequests
    <3> QED BY <2>3, <3>1, <3>3, <3>4, SlowThenSpeedUpWord DEF left
  <2> QED BY <1>2, <2>2, <2>3 DEF HandleWatch
<1>3. CASE ConsoleLeaves(c)
  <2> DEFINE a == peer[c]
  <2>1. PICK p \in Clients \cup {None} : Release(c, p)
    BY <1>3 DEF ConsoleLeaves, WatchTypeOK
  <2>2. /\ a \in Admins /\ UNCHANGED <<peer, link>>
        /\ pc'[c] \in {"closing", "crashed"} /\ \A d \in Conns \ {c} : pc'[d] = pc[d]
        /\ registry' = [registry EXCEPT ![a] = None]
    BY <1>3 DEF ConsoleLeaves, Hangup, Fault, Cleanup, Unregistered, TypeOK
  <2>3. /\ \A d \in Conns : pc[d] \in BeenRegistered => pc'[d] \in BeenRegistered
        /\ \A q \in Clients : registry'[q] = registry[q]
    BY <2>2 DEF TypeOK, Peers, BeenRegistered
  <2>4. \A b \in Admins, r \in Clients :
           watching'[b] = r => b # a /\ watching[b] = r /\ r \notin Abandoned(a, p)
    BY <2>1, <2>2 DEF Release, ClearedWatch, Abandoned, Watchers, WatchTypeOK
  <2>5. CASE TellNobody(c)
    <3>1. RatesBacked /\ next' = [next EXCEPT ![c] = None]
          /\ \A q \in Clients : LeftSlowed(q) => Slowed(q)
      BY <2>5, UntoldWord DEF TellNobody
    <3>2. \A b \in Admins, r \in Clients : watching'[b] = r /\ LeftSlowed(r) =>
              Slowed(r) /\ watching[b] = r /\ peer[c] # b
      BY <2>4, <3>1
    <3>3. AnswersFor(c, None)
      BY <2>2, <2>3, <3>1, <3>2 DEF AnswersFor
    <3> QED BY <3>3, WordRequests
  <2>6. CASE SlowThenSpeedUp(c, Abandoned(a, p), None)
    <3>1. Abandoned(a, p) \in SUBSET Clients
      BY DEF Abandoned
    <3>2. RatesBacked /\ next' = [next EXCEPT ![c] = None]
          /\ \A q \in Clients : LeftSlowed(q) => q \in Abandoned(a, p) \/ Slowed(q)
      BY <2>6, <3>1, SlowThenSpeedUpWord
    <3>3. \A b \in Admins, r \in Clients : watching'[b] = r /\ LeftSlowed(r) =>
              Slowed(r) /\ watching[b] = r /\ peer[c] # b
      BY <2>4, <3>2
    <3>4. AnswersFor(c, None)
      BY <2>2, <2>3, <3>2, <3>3 DEF AnswersFor
    <3> QED BY <3>4, WordRequests
  <2> QED BY <2>1, <2>5, <2>6 DEF Release
<1> QED BY <1>1, <1>2, <1>3

LEMMA WordRest ==
    ASSUME TypeOK, RegistryBacked, WatchTypeOK, WordInv,
           \/ \E c \in Conns : HearRate(c)
           \/ RenewStart \/ RenewDrained
           \/ \E p \in Clients : Lapse(p)
           \/ UNCHANGED allVars
    PROVE  WordInv'
<1> USE SessionsAssumption
<1>1. /\ UNCHANGED <<peer, pc, link, registry, watching, next>>
  BY DEF HearRate, RenewStart, RenewDrained, RenewNext, Lapse, allVars, vars, watchVars,
         handlerWaits
<1>2. SUFFICES /\ \A d \in Conns : rates'[d] # <<>> => link[d] = "up" /\ pc[d] \in BeenRegistered
               /\ \A p \in Clients : LeftSlowed(p) => Slowed(p)
  <2>1. \A p \in Clients : Slowed(p)' => LeftSlowed(p)
    BY <1>1 DEF Slowed, LeftSlowed, Reached, LastOf
  <2>2. \A a \in Admins, p \in Clients : Owes(a, p)' = Owes(a, p)
    BY <1>1 DEF Owes
  <2> QED BY <1>1, <2>1, <2>2 DEF WordInv
<1>3. CASE UNCHANGED rates
  BY <1>3 DEF WordInv, LeftSlowed, Slowed
<1>4. ASSUME NEW c \in Conns, HearRate(c)
      PROVE  /\ \A d \in Conns : rates'[d] # <<>> => link[d] = "up" /\ pc[d] \in BeenRegistered
             /\ \A p \in Clients : LeftSlowed(p) => Slowed(p)
  <2>1. /\ rates[c] # <<>> /\ rates[c] \in Seq(BOOLEAN) /\ rates'[c] = Tail(rates[c])
        /\ \A d \in Conns \ {c} : rates'[d] = rates[d]
    BY <1>4 DEF HearRate, WatchTypeOK
  <2>2. rates'[c] # <<>> => LastOf(rates'[c]) = LastOf(rates[c])
    BY <2>1 DEF LastOf
  <2>3. \A p \in Clients : Reached(p) => registry[p] \in Conns
    BY DEF Reached, TypeOK, Peers
  <2> QED BY <2>1, <2>2, <2>3 DEF WordInv, LeftSlowed, Slowed
<1>5. ASSUME NEW p \in Clients, Reached(p), rates' = Told(p, TRUE)
      PROVE  /\ \A d \in Conns : rates'[d] # <<>> => link[d] = "up" /\ pc[d] \in BeenRegistered
             /\ \A q \in Clients : LeftSlowed(q) => Slowed(q)
  <2>1. RatesBacked /\ \A q \in Clients : LeftSlowed(q) => Slowed(q)
    BY <1>5, ToldWord
  <2> QED BY <2>1 DEF RatesBacked
<1>6. \/ UNCHANGED rates \/ (\E c \in Conns : HearRate(c))
      \/ \E p \in Clients : Reached(p) /\ rates' = Told(p, TRUE)
  BY DEF RenewStart, RenewDrained, RenewNext, Lapse, allVars, watchVars, Reached, Watched,
         WatchTypeOK
<1> QED BY <1>3, <1>4, <1>5, <1>6

(***************************************************************************)
(* No console's leaving, faulting or changing its selection leaves a       *)
(* client another console watches told to slow down, for every number of   *)
(* consoles and clients.                                                   *)
(***************************************************************************)
THEOREM WatchedNotSlowedAlways == WatchSpec => []WatchedNotSlowed
<1>1. WatchInit => WordInv
  BY SessionsAssumption DEF WatchInit, WordInv, Slowed
<1>2. /\ TypeOK /\ TypeOK' /\ RegistryBacked /\ WatchTypeOK /\ WatchTypeOK' /\ WordInv
      /\ [WatchNext]_allVars
      => WordInv'
  BY WordOtherStep, WordHandler, WordRest DEF WatchNext
<1>3. WordInv => WatchedNotSlowed
  BY DEF WordInv, WatchedNotSlowed, Watched, Watchers, Slowed, Owes
<1> QED
  BY <1>1, <1>2, <1>3, TypeCorrect, RegistryBackedAlways, WatchImplementsSessions,
     WatchTypeCorrect, PTL DEF WatchSpec
==============================================================================
