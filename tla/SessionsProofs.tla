--------------------------- MODULE SessionsProofs ---------------------------
(***************************************************************************)
(* Theorems of Sessions, for every set of peers, every number of           *)
(* connections, both settings of the bypass and with or without database   *)
(* failures.                                                               *)
(***************************************************************************)
EXTENDS Sessions, FiniteSetTheorems, TLAPS

LEMMA TypeInit == Init => TypeOK
<1> SUFFICES ASSUME Init PROVE TypeOK
  OBVIOUS
<1>1. \A c \in Conns : pc[c] = "none" /\ peer[c] = None
  BY DEF Init
<1> QED BY <1>1, SessionsAssumption DEF Init, TypeOK, Places, Peers

LEMMA TypeStep == TypeOK /\ [Next]_vars => TypeOK'
<1> SUFFICES ASSUME TypeOK, [Next]_vars PROVE TypeOK'
  OBVIOUS
<1> USE SessionsAssumption DEF TypeOK, Places, Peers
<1>1. ASSUME NEW p \in Peers, NEW c \in Conns, Connect(p, c) PROVE TypeOK'
  BY <1>1 DEF Connect
<1>2. ASSUME NEW c \in Conns, Disconnect(c, "eof") \/ Disconnect(c, "lost")
      PROVE TypeOK'
  BY <1>2 DEF Disconnect
<1>3. ASSUME NEW c \in Conns, HandlerStep(c) \/ Greet(c) PROVE TypeOK'
  <2> USE DEF Admit, Cleanup, Registered, Unregistered, Forgotten
  <2>1. CASE Refuse(c)
    BY <2>1 DEF Refuse
  <2>2. CASE Hello(c)
    <3>1. CASE Admit(c)
      BY <2>2, <3>1 DEF Hello
    <3>2. CASE pc' = [pc EXCEPT ![c] = "challenge"] /\ UNCHANGED <<registry, fresh, row>>
      BY <2>2, <3>2 DEF Hello
    <3> QED BY <2>2, <3>1, <3>2 DEF Hello
  <2>3. CASE HelloWhenFull(c)
    BY <2>3 DEF HelloWhenFull
  <2>4. CASE Answer(c)
    BY <2>4 DEF Answer
  <2>5. CASE Greet(c)
    BY <2>5 DEF Greet
  <2>6. CASE Receive(c)
    BY <2>6 DEF Receive, Touched
  <2>7. CASE Hangup(c)
    BY <2>7 DEF Hangup, Offline
  <2>8. CASE Fault(c)
    BY <2>8 DEF Fault, Offline
  <2>9. CASE Close(c)
    BY <2>9 DEF Close, Closed
  <2> QED BY <1>3, <2>1, <2>2, <2>3, <2>4, <2>5, <2>6, <2>7, <2>8, <2>9 DEF HandlerStep
<1>4. ASSUME NEW p \in Peers, Age(p) PROVE TypeOK'
  BY <1>4 DEF Age, Forgotten
<1>5. ASSUME NEW list \in SUBSET Peers, ReapNext(list) PROVE TypeOK'
  BY <1>5 DEF ReapNext, Unregistered, Forgotten, Closed
<1>6. CASE ReapScan
  BY <1>5, <1>6 DEF ReapScan, Stale
<1>7. CASE ReapResume \/ ReapFails
  BY <1>5, <1>7 DEF ReapResume, ReapFails
<1>8. CASE UNCHANGED vars
  BY <1>8 DEF vars
<1> QED BY <1>1, <1>2, <1>3, <1>4, <1>6, <1>7, <1>8 DEF Next, Lifecycle, World

\* The type invariant of the connection lifecycle.
THEOREM TypeCorrect == Spec => []TypeOK
BY TypeInit, TypeStep, PTL DEF Spec

-----------------------------------------------------------------------------
LEMMA BackedInit == Init => RegistryBacked
BY DEF Init, RegistryBacked

LEMMA BackedStep == TypeOK /\ RegistryBacked /\ [Next]_vars => RegistryBacked'
<1> SUFFICES ASSUME TypeOK, RegistryBacked, [Next]_vars PROVE RegistryBacked'
  OBVIOUS
<1> USE SessionsAssumption DEF TypeOK, Peers, RegistryBacked, Live
<1>1. ASSUME NEW p \in Peers, NEW c \in Conns, Connect(p, c) PROVE RegistryBacked'
  BY <1>1 DEF Connect
<1>2. ASSUME NEW c \in Conns, Disconnect(c, "eof") \/ Disconnect(c, "lost")
      PROVE RegistryBacked'
  BY <1>2 DEF Disconnect
<1>3. ASSUME NEW c \in Conns, HandlerStep(c) \/ Greet(c) PROVE RegistryBacked'
  <2> USE DEF Cleanup, Unregistered
  <2>1. CASE Refuse(c)
    BY <2>1 DEF Refuse
  <2>2. CASE Hello(c)
    <3>1. CASE Admit(c)
      BY <2>2, <3>1 DEF Hello, Admit, Registered
    <3>2. CASE pc' = [pc EXCEPT ![c] = "challenge"] /\ UNCHANGED <<registry, fresh, row>>
      BY <2>2, <3>2 DEF Hello
    <3> QED BY <2>2, <3>1, <3>2 DEF Hello
  <2>3. CASE HelloWhenFull(c)
    BY <2>3 DEF HelloWhenFull
  <2>4. CASE Answer(c)
    BY <2>4 DEF Answer, Admit, Registered
  <2>5. CASE Greet(c)
    BY <2>5 DEF Greet
  <2>6. CASE Receive(c)
    BY <2>6 DEF Receive
  <2>7. CASE Hangup(c)
    BY <2>7 DEF Hangup
  <2>8. CASE Fault(c)
    BY <2>8 DEF Fault
  <2>9. CASE Close(c)
    BY <2>9 DEF Close
  <2> QED BY <1>3, <2>1, <2>2, <2>3, <2>4, <2>5, <2>6, <2>7, <2>8, <2>9 DEF HandlerStep
<1>4. ASSUME NEW p \in Peers, Age(p) PROVE RegistryBacked'
  BY <1>4 DEF Age
<1>5. ASSUME NEW list \in SUBSET Peers, ReapNext(list) PROVE RegistryBacked'
  BY <1>5 DEF ReapNext, Unregistered
<1>6. CASE ReapScan
  BY <1>5, <1>6 DEF ReapScan, Stale
<1>7. CASE ReapResume \/ ReapFails
  BY <1>5, <1>7 DEF ReapResume, ReapFails
<1>8. CASE UNCHANGED vars
  BY <1>8 DEF vars
<1> QED BY <1>1, <1>2, <1>3, <1>4, <1>6, <1>7, <1>8 DEF Next, Lifecycle, World

(***************************************************************************)
(* An entry always leads to a handler of its peer that has not cleaned up  *)
(* (engine/connection_manager.py, engine/main.py).  Inductive with TypeOK: *)
(* cleanup removes the entry of its own peer whatever it names, so a       *)
(* connection leaves Live only with the entry gone.                        *)
(***************************************************************************)
THEOREM RegistryBackedAlways == Spec => []RegistryBacked
BY BackedInit, BackedStep, TypeCorrect, PTL DEF Spec

(***************************************************************************)
(* With or without database failures an "active" row has a handler that    *)
(* will mark it offline, or one that a database error killed               *)
(* (engine/main.py, finally; database.py, mark_client_offline).            *)
(***************************************************************************)
THEOREM NoPhantomActiveAlways == Spec => []NoPhantomActive
<1>1. Init => NoPhantomActive
  BY DEF Init, NoPhantomActive
<1>2. TypeOK /\ NoPhantomActive /\ [Next]_vars => NoPhantomActive'
  <2> SUFFICES ASSUME TypeOK, NoPhantomActive, [Next]_vars,
                      NEW q \in Clients, row'[q] = "active"
               PROVE  \E d \in Conns : peer'[d] = q /\ pc'[d] \in Live \cup {"crashed"}
    BY DEF NoPhantomActive
  <2> DEFINE Backed == \E d \in Conns : peer'[d] = q /\ pc'[d] \in Live \cup {"crashed"}
  <2> USE SessionsAssumption DEF TypeOK, Peers, NoPhantomActive, Live
  <2>1. ASSUME NEW p \in Peers, NEW c \in Conns, Connect(p, c) PROVE Backed
    BY <2>1 DEF Connect
  <2>2. ASSUME NEW c \in Conns, Disconnect(c, "eof") \/ Disconnect(c, "lost")
        PROVE Backed
    BY <2>2 DEF Disconnect
  <2>3. ASSUME NEW c \in Conns, HandlerStep(c) \/ Greet(c) PROVE Backed
    <3>1. CASE Refuse(c)
      BY <3>1 DEF Refuse
    <3>2. CASE Hello(c)
      <4>1. CASE Admit(c)
        BY <3>2, <4>1 DEF Hello, Admit
      <4>2. CASE pc' = [pc EXCEPT ![c] = "challenge"] /\ UNCHANGED <<registry, fresh, row>>
        BY <3>2, <4>2 DEF Hello
      <4> QED BY <3>2, <4>1, <4>2 DEF Hello
    <3>3. CASE HelloWhenFull(c)
      BY <3>3 DEF HelloWhenFull
    <3>4. CASE Answer(c)
      BY <3>4 DEF Answer, Admit
    <3>5. CASE Greet(c)
      BY <3>5 DEF Greet
    <3>6. CASE Receive(c)
      BY <3>6 DEF Receive
    <3>7. CASE Hangup(c)
      BY <3>7 DEF Hangup, Cleanup, Offline
    <3>8. CASE Fault(c)
      BY <3>8 DEF Fault, Cleanup, Offline
    <3>9. CASE Close(c)
      BY <3>9 DEF Close
    <3> QED BY <2>3, <3>1, <3>2, <3>3, <3>4, <3>5, <3>6, <3>7, <3>8, <3>9 DEF HandlerStep
  <2>4. ASSUME NEW p \in Peers, Age(p) PROVE Backed
    BY <2>4 DEF Age
  <2>5. ASSUME NEW list \in SUBSET Peers, ReapNext(list) PROVE Backed
    BY <2>5 DEF ReapNext
  <2>6. CASE ReapScan
    BY <2>5, <2>6 DEF ReapScan, Stale
  <2>7. CASE ReapResume \/ ReapFails
    BY <2>5, <2>7 DEF ReapResume, ReapFails
  <2>8. CASE UNCHANGED vars
    BY <2>8 DEF vars
  <2> QED BY <2>1, <2>2, <2>3, <2>4, <2>6, <2>7, <2>8 DEF Next, Lifecycle, World
<1> QED BY <1>1, <1>2, TypeCorrect, PTL DEF Spec

-----------------------------------------------------------------------------
\* Capacity.  Only Admit adds an entry, and with the bypass it runs in the
\* step that checked ~Full.

LEMMA RegisteredFinite ==
    IsFiniteSet(RegisteredOf(Clients)) /\ IsFiniteSet(RegisteredOf(Admins))
BY SessionsAssumption, FS_Subset DEF RegisteredOf

\* An entry more keeps a set that was below its ceiling within it.
LEMMA OneMoreFits ==
    ASSUME NEW S, IsFiniteSet(S), NEW T, NEW x, T \subseteq S \cup {x},
           NEW N \in Nat, ~(Cardinality(S) >= N)
    PROVE  Cardinality(T) <= N
<1>1. IsFiniteSet(S \cup {x}) /\ Cardinality(S \cup {x}) <= Cardinality(S) + 1
  BY FS_AddElement, FS_CardinalityType
<1>2. Cardinality(T) <= Cardinality(S \cup {x}) /\ IsFiniteSet(T)
  BY <1>1, FS_Subset
<1> QED BY <1>1, <1>2, FS_CardinalityType

LEMMA FewerFit ==
    ASSUME NEW S, IsFiniteSet(S), NEW T, T \subseteq S,
           NEW N \in Nat, Cardinality(S) <= N
    PROVE  Cardinality(T) <= N
BY FS_Subset, FS_CardinalityType

NoChallenge == \A c \in Conns : pc[c] # "challenge"

CapacityInv == Bypass => CapacityRespected /\ NoChallenge

\* Whatever keeps or empties entries keeps the ceilings.
LEMMA ShrinkingKeepsCapacity ==
    ASSUME CapacityRespected,
           \A p \in Peers : registry'[p] # None => registry[p] # None
    PROVE  CapacityRespected'
<1>1. RegisteredOf(Clients)' \subseteq RegisteredOf(Clients)
  BY DEF RegisteredOf, Peers
<1>2. RegisteredOf(Admins)' \subseteq RegisteredOf(Admins)
  BY DEF RegisteredOf, Peers
<1>3. Cardinality(RegisteredOf(Clients)') <= MaxClients
  BY <1>1, RegisteredFinite, FewerFit, SessionsAssumption DEF CapacityRespected
<1>4. Cardinality(RegisteredOf(Admins)') <= MaxAdmins
  BY <1>2, RegisteredFinite, FewerFit, SessionsAssumption DEF CapacityRespected
<1> QED BY <1>3, <1>4 DEF CapacityRespected

LEMMA AdmitKeepsCapacity ==
    ASSUME CapacityRespected, TypeOK, NEW c \in Conns, peer[c] \in Peers,
           Admit(c), ~Full(peer[c])
    PROVE  CapacityRespected'
<1> DEFINE p == peer[c]
<1>1. registry' = [registry EXCEPT ![p] = c]
  BY DEF Admit, Registered
<1>2. CASE p \in Clients
  <2>1. RegisteredOf(Clients)' \subseteq RegisteredOf(Clients) \cup {p}
    BY <1>1, <1>2 DEF RegisteredOf, TypeOK, Peers
  <2>2. RegisteredOf(Admins)' \subseteq RegisteredOf(Admins)
    BY <1>1, <1>2, SessionsAssumption DEF RegisteredOf, TypeOK, Peers
  <2>3. ~(Cardinality(RegisteredOf(Clients)) >= MaxClients)
    BY <1>2 DEF Full
  <2>4. Cardinality(RegisteredOf(Clients)') <= MaxClients
    BY <2>1, <2>3, RegisteredFinite, OneMoreFits, SessionsAssumption
  <2>5. Cardinality(RegisteredOf(Admins)') <= MaxAdmins
    BY <2>2, RegisteredFinite, FewerFit, SessionsAssumption DEF CapacityRespected
  <2> QED BY <2>4, <2>5 DEF CapacityRespected
<1>3. CASE p \in Admins
  <2>1. RegisteredOf(Admins)' \subseteq RegisteredOf(Admins) \cup {p}
    BY <1>1, <1>3 DEF RegisteredOf, TypeOK, Peers
  <2>2. RegisteredOf(Clients)' \subseteq RegisteredOf(Clients)
    BY <1>1, <1>3, SessionsAssumption DEF RegisteredOf, TypeOK, Peers
  <2>3. ~(Cardinality(RegisteredOf(Admins)) >= MaxAdmins)
    BY <1>3 DEF Full
  <2>4. Cardinality(RegisteredOf(Admins)') <= MaxAdmins
    BY <2>1, <2>3, RegisteredFinite, OneMoreFits, SessionsAssumption
  <2>5. Cardinality(RegisteredOf(Clients)') <= MaxClients
    BY <2>2, RegisteredFinite, FewerFit, SessionsAssumption DEF CapacityRespected
  <2> QED BY <2>4, <2>5 DEF CapacityRespected
<1> QED BY <1>2, <1>3 DEF Peers

(***************************************************************************)
(* With the handshake bypassed neither ceiling is ever exceeded            *)
(* (engine/main.py, perform_registration; engine/config.py, MAX_CLIENTS    *)
(* and MAX_ADMINS).  The strengthening says that no handler then waits for *)
(* a challenge answer, the only await between the check and register().    *)
(***************************************************************************)
THEOREM CapacityUnderBypassAlways == Spec => []CapacityUnderBypass
<1>1. Init => CapacityInv
  <2> SUFFICES ASSUME Init PROVE CapacityRespected /\ NoChallenge
    BY DEF CapacityInv
  <2>1. RegisteredOf(Clients) = {} /\ RegisteredOf(Admins) = {}
    BY DEF Init, RegisteredOf, Peers
  <2>2. CapacityRespected
    BY <2>1, FS_EmptySet, SessionsAssumption DEF CapacityRespected
  <2>3. NoChallenge
    BY DEF Init, NoChallenge
  <2> QED BY <2>2, <2>3
<1>2. TypeOK /\ CapacityInv /\ [Next]_vars => CapacityInv'
  <2> SUFFICES ASSUME TypeOK, CapacityRespected, NoChallenge, Bypass, [Next]_vars
               PROVE  CapacityRespected' /\ NoChallenge'
    BY DEF CapacityInv
  <2> DEFINE Shrinks == \A p \in Peers : registry'[p] # None => registry[p] # None
  <2> USE SessionsAssumption DEF TypeOK, NoChallenge
  <2>1. ASSUME NEW p \in Peers, NEW c \in Conns, Connect(p, c)
        PROVE  Shrinks /\ NoChallenge'
    BY <2>1 DEF Connect
  <2>2. ASSUME NEW c \in Conns, Disconnect(c, "eof") \/ Disconnect(c, "lost")
        PROVE  Shrinks /\ NoChallenge'
    BY <2>2 DEF Disconnect
  <2>3. ASSUME NEW c \in Conns, HandlerStep(c) \/ Greet(c)
        PROVE  (Shrinks \/ (Admit(c) /\ peer[c] \in Peers /\ ~Full(peer[c]))) /\ NoChallenge'
    <3> USE DEF Cleanup, Unregistered
    <3>1. CASE Refuse(c)
      BY <3>1 DEF Refuse
    <3>2. CASE Hello(c)
      BY <3>2 DEF Hello, Admit
    <3>3. CASE HelloWhenFull(c)
      BY <3>3 DEF HelloWhenFull
    <3>4. CASE Answer(c)
      BY <3>4 DEF Answer
    <3>5. CASE Greet(c)
      BY <3>5 DEF Greet
    <3>6. CASE Receive(c)
      BY <3>6 DEF Receive
    <3>7. CASE Hangup(c)
      BY <3>7 DEF Hangup
    <3>8. CASE Fault(c)
      BY <3>8 DEF Fault
    <3>9. CASE Close(c)
      BY <3>9 DEF Close
    <3> QED BY <2>3, <3>1, <3>2, <3>3, <3>4, <3>5, <3>6, <3>7, <3>8, <3>9 DEF HandlerStep
  <2>4. ASSUME NEW p \in Peers, Age(p) PROVE Shrinks /\ NoChallenge'
    BY <2>4 DEF Age
  <2>5. ASSUME NEW list \in SUBSET Peers, ReapNext(list) PROVE Shrinks /\ NoChallenge'
    BY <2>5 DEF ReapNext, Unregistered
  <2>6. CASE ReapScan
    BY <2>5, <2>6, ShrinkingKeepsCapacity DEF ReapScan, Stale
  <2>7. CASE ReapResume \/ ReapFails
    BY <2>5, <2>7, ShrinkingKeepsCapacity DEF ReapResume, ReapFails
  <2>8. CASE UNCHANGED vars
    BY <2>8, ShrinkingKeepsCapacity DEF vars
  <2> QED
    BY <2>1, <2>2, <2>3, <2>4, <2>6, <2>7, <2>8,
       ShrinkingKeepsCapacity, AdmitKeepsCapacity DEF Next, Lifecycle, World
<1>3. CapacityInv => CapacityUnderBypass
  BY DEF CapacityInv, CapacityUnderBypass
<1> QED BY <1>1, <1>2, <1>3, TypeCorrect, PTL DEF Spec

-----------------------------------------------------------------------------
(***************************************************************************)
(* A peer that never reconnected is reachable for as long as its           *)
(* connection is up and served: only the cleanup of another connection of  *)
(* the same peer can leave it deaf (engine/main.py, finally; the reaper    *)
(* also closes what it drops).                                             *)
(***************************************************************************)
THEOREM SoleSessionReachableAlways == Spec => []SoleSessionReachable
<1>1. Init => SoleSessionReachable
  BY DEF Init, SoleSessionReachable, Live
<1>2. TypeOK /\ RegistryBacked /\ SoleSessionReachable /\ [Next]_vars => SoleSessionReachable'
  <2> SUFFICES ASSUME TypeOK, RegistryBacked, SoleSessionReachable, [Next]_vars,
                      NEW s \in Conns, pc'[s] \in Live, link'[s] = "up",
                      \A d \in Conns \ {s} : peer'[d] # peer'[s]
               PROVE  registry'[peer'[s]] = s
    BY DEF SoleSessionReachable
  <2> DEFINE Reached == registry'[peer'[s]] = s
  <2> USE SessionsAssumption DEF TypeOK, Peers, RegistryBacked, SoleSessionReachable, Live
  <2>1. ASSUME NEW p \in Peers, NEW c \in Conns, Connect(p, c) PROVE Reached
    BY <2>1 DEF Connect
  <2>2. ASSUME NEW c \in Conns, Disconnect(c, "eof") \/ Disconnect(c, "lost")
        PROVE Reached
    BY <2>2 DEF Disconnect
  <2>3. ASSUME NEW c \in Conns, HandlerStep(c) \/ Greet(c) PROVE Reached
    <3> USE DEF Cleanup, Unregistered
    <3>1. CASE Refuse(c)
      BY <3>1 DEF Refuse
    <3>2. CASE Hello(c)
      <4>1. CASE Admit(c)
        BY <3>2, <4>1 DEF Hello, Admit, Registered
      <4>2. CASE pc' = [pc EXCEPT ![c] = "challenge"] /\ UNCHANGED <<registry, fresh, row>>
        BY <3>2, <4>2 DEF Hello
      <4> QED BY <3>2, <4>1, <4>2 DEF Hello
    <3>3. CASE HelloWhenFull(c)
      BY <3>3 DEF HelloWhenFull
    <3>4. CASE Answer(c)
      BY <3>4 DEF Answer, Admit, Registered
    <3>5. CASE Greet(c)
      BY <3>5 DEF Greet
    <3>6. CASE Receive(c)
      BY <3>6 DEF Receive
    <3>7. CASE Hangup(c)
      BY <3>7 DEF Hangup
    <3>8. CASE Fault(c)
      BY <3>8 DEF Fault
    <3>9. CASE Close(c)
      BY <3>9 DEF Close, Closed
    <3> QED BY <2>3, <3>1, <3>2, <3>3, <3>4, <3>5, <3>6, <3>7, <3>8, <3>9 DEF HandlerStep
  <2>4. ASSUME NEW p \in Peers, Age(p) PROVE Reached
    BY <2>4 DEF Age
  <2>5. ASSUME NEW list \in SUBSET Peers, ReapNext(list) PROVE Reached
    <3>1. PICK p \in list : /\ registry[p] # None
                           /\ registry' = [registry EXCEPT ![p] = None]
                           /\ link' = Closed(registry[p])
      BY <2>5 DEF ReapNext, Unregistered
    <3>2. UNCHANGED <<peer, pc>>
      BY <2>5 DEF ReapNext
    <3>3. registry[p] # s
      BY <3>1 DEF Closed
    <3>4. link[s] = "up"
      BY <3>1, <3>3 DEF Closed
    <3>5. registry[peer[s]] = s
      BY <3>2, <3>4
    <3>6. peer[s] # p
      BY <3>1, <3>3, <3>5
    <3> QED BY <3>1, <3>2, <3>5, <3>6
  <2>6. CASE ReapScan
    BY <2>5, <2>6 DEF ReapScan, Stale
  <2>7. CASE ReapResume \/ ReapFails
    BY <2>5, <2>7 DEF ReapResume, ReapFails
  <2>8. CASE UNCHANGED vars
    BY <2>8 DEF vars
  <2> QED BY <2>1, <2>2, <2>3, <2>4, <2>6, <2>7, <2>8 DEF Next, Lifecycle, World
<1> QED BY <1>1, <1>2, TypeCorrect, RegistryBackedAlways, PTL DEF Spec
=============================================================================
