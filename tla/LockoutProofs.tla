---------------------------- MODULE LockoutProofs ----------------------------
(***************************************************************************)
(* Theorems of Lockout, for any number of overlay processes, any caps and  *)
(* any clock.                                                              *)
(***************************************************************************)
EXTENDS Lockout, TLAPS

LEMMA DeadIsProcess == Dead \in Processes /\ Dead.at = "dead" /\ Dead.until = 0
<1>1. /\ "dead" \in {"dead", "starting", "locked", "showing", "wedged"} /\ FALSE \in BOOLEAN
      /\ "none" \in Modes \cup {"none"} /\ 0 \in Nat
  OBVIOUS
<1> QED BY <1>1, Zenon DEF Dead, Processes

LEMMA MovedProcess ==
    ASSUME overlay \in [Overlays -> Processes], NEW o \in Overlays,
           NEW place \in {"dead", "starting", "locked", "showing", "wedged"}
    PROVE  /\ Moved(o, place) \in [Overlays -> Processes]
           /\ Moved(o, place)[o].at = place /\ Moved(o, place)[o].until = overlay[o].until
           /\ \A x \in Overlays \ {o} : Moved(o, place)[x] = overlay[x]
<1> DEFINE new == [overlay[o] EXCEPT !.at = place]
<1>1. Moved(o, place) = [overlay EXCEPT ![o] = new]
  BY DEF Moved
<1>2. new \in Processes /\ new.at = place /\ new.until = overlay[o].until
  BY DEF Processes
<1> HIDE DEF new
<1> QED BY <1>1, <1>2

LEMMA TypeInit == LockoutInit => LockoutTypeOK
<1> SUFFICES ASSUME LockoutInit PROVE LockoutTypeOK
  OBVIOUS
<1>1. overlay \in [Overlays -> Processes]
  BY DeadIsProcess DEF LockoutInit
<1>2. /\ record = None /\ handle = None /\ handle \notin Overlays
      /\ crossed \in BOOLEAN /\ mode \in Modes \cup {"none"}
  BY LockoutAssumption DEF LockoutInit
<1>3. /\ pc \in [Enforcers -> Places]
      /\ want \in [Enforcers -> [mode : Modes \cup {"none"}, until : Nat]]
      /\ \A e \in Enforcers : pc[e] \in {"start", "launch"} => want[e].mode \in Modes
  BY DEF LockoutInit, Nothing, Rest, Places
<1>4. /\ now \in Nat /\ since \in Nat /\ since <= now
      /\ pause \in [state : FileStates, until : Nat]
      /\ schedule \in [state : FileStates, start : Nat, end : Nat]
      /\ commands \in 0..MaxCommands /\ faults \in 0..MaxFaults
  BY LockoutAssumption DEF LockoutInit, FileStates
<1> QED BY <1>1, <1>2, <1>3, <1>4 DEF LockoutTypeOK

\* A pid on record is that of a process that has the lock, and a handle is of
\* one that runs, whichever processes end.
LEMMA EndsType ==
    ASSUME LockoutTypeOK, NEW gone \in SUBSET Overlays, Ends(gone)
    PROVE  /\ overlay' \in [Overlays -> Processes]
           /\ record' \in Overlays \cup {None}
           /\ record' # None => overlay'[record'].at \in {"showing", "wedged"}
           /\ HandleAfter(gone) \in Overlays \cup {None, Ended}
           /\ HandleAfter(gone) \in Overlays => overlay'[HandleAfter(gone)].at # "dead"
BY LockoutAssumption, DeadIsProcess DEF LockoutTypeOK, Ends, HandleAfter

\* Where an enforcer goes from stop_overlay.
LEMMA AfterStopType ==
    ASSUME LockoutTypeOK, NEW e \in Enforcers, AfterStop(e)
    PROVE  /\ pc' \in [Enforcers -> Places]
           /\ \A x \in Enforcers : pc'[x] \in {"start", "launch"} => want[x].mode \in Modes
<1>1. want[e].mode \in Modes \cup {"none"}
  BY DEF LockoutTypeOK
<1> QED BY <1>1 DEF LockoutTypeOK, AfterStop, Goto, Rest, Places, Modes

LEMMA AfterSignalType ==
    ASSUME LockoutTypeOK, NEW e \in Enforcers, NEW gone, AfterSignal(e, gone)
    PROVE  /\ pc' \in [Enforcers -> Places]
           /\ \A x \in Enforcers : pc'[x] \in {"start", "launch"} => want[x].mode \in Modes
           /\ crossed' \in BOOLEAN
           /\ handle' \in {None, HandleAfter(gone)}
<1>1. CASE HandleOf(e) # None /\ ~crossed
  BY <1>1 DEF LockoutTypeOK, AfterSignal, Goto, Places
<1>2. CASE ~(HandleOf(e) # None /\ ~crossed)
  <2>1. AfterStop(e) /\ crossed' \in BOOLEAN /\ handle' \in {None, HandleAfter(gone)}
    BY <1>2 DEF LockoutTypeOK, AfterSignal
  <2> QED BY <2>1, AfterStopType
<1> QED BY <1>1, <1>2

LEMMA SpawnType ==
    ASSUME LockoutTypeOK, NEW e \in Enforcers, NEW seen \in BOOLEAN, NEW pidOnly \in BOOLEAN,
           Spawn(e, seen, pidOnly), commands' \in 0..MaxCommands, faults' \in 0..MaxFaults
    PROVE  LockoutTypeOK'
<1> USE LockoutAssumption DEF LockoutTypeOK
<1> DEFINE new == [at |-> "starting", seen |-> seen, mode |-> want[e].mode, until |-> want[e].until]
<1>1. PICK o \in Overlays :
         /\ ~Alive(o) /\ overlay' = [overlay EXCEPT ![o] = new]
         /\ IF e = "task" THEN UNCHANGED globals
            ELSE handle' = o /\ crossed' = pidOnly /\ mode' = want[e].mode
  BY DEF Spawn
<1>2. /\ want[e].mode \in Modes /\ PassOver(e)
      /\ UNCHANGED <<now, files, record, since>>
  BY DEF Spawn
<1>3. new \in Processes /\ new.at = "starting"
  <2>1. want[e].mode \in Modes \cup {"none"} /\ want[e].until \in Nat /\ seen \in BOOLEAN
    OBVIOUS
  <2> QED BY <2>1, Zenon DEF Processes
<1> HIDE DEF new
<1>5. /\ overlay' \in [Overlays -> Processes]
      /\ overlay'[o].at = "starting" /\ \A x \in Overlays \ {o} : overlay'[x] = overlay[x]
  BY <1>1, <1>3
<1>6. record' \in Overlays \cup {None} /\ (record' # None => overlay'[record'].at \in {"showing", "wedged"})
  BY <1>1, <1>2, <1>5 DEF Alive
<1>7. /\ handle' \in Overlays \cup {None, Ended} /\ crossed' \in BOOLEAN
      /\ handle' \in Overlays => overlay'[handle'].at # "dead"
      /\ mode' \in Modes \cup {"none"}
  BY <1>1, <1>2, <1>5 DEF Alive, globals
<1>8. /\ pc' \in [Enforcers -> Places]
      /\ want' \in [Enforcers -> [mode : Modes \cup {"none"}, until : Nat]]
      /\ \A x \in Enforcers : pc'[x] \in {"start", "launch"} => want'[x].mode \in Modes
  BY <1>2 DEF PassOver, Goto, Decide, Rest, Nothing, Places
<1> QED BY <1>2, <1>5, <1>6, <1>7, <1>8 DEF files

\* What an enforcer decides and where it goes keep their types.
LEMMA EnforcerType ==
    ASSUME LockoutTypeOK, NEW e \in Enforcers,
           EnforcerStep(e) \/ StopFails(e) \/ LaunchUnseen(e) \/ LaunchFails(e)
    PROVE  LockoutTypeOK'
<1> USE LockoutAssumption DEF LockoutTypeOK, Places, Modes, FileStates
<1>0. PauseEnd \in Nat /\ BlockEnd \in Nat
  BY DEF PauseEnd, BlockEnd
<1>1. CASE ReadPause(e)
  BY <1>0, <1>1 DEF ReadPause, Goto, Decide, files, screen, globals, bounds
<1>2. CASE ReadSchedule(e)
  BY <1>0, <1>2 DEF ReadSchedule, Goto, Decide, files, screen, globals, bounds
<1>3. CASE CheckRelease(e)
  BY <1>3 DEF CheckRelease, Goto, Rest, files, screen, globals, bounds
<1>4. CASE CheckStart(e)
  BY <1>4 DEF CheckStart, PassOver, Goto, Decide, Rest, Nothing, files, screen, globals, bounds
<1>5. CASE Stop(e)
  <2>1. Target(e) \in SUBSET Overlays /\ Ends(Target(e)) /\ AfterSignal(e, Target(e))
    BY <1>5 DEF Stop, Target
  <2>2. /\ mode' \in Modes \cup {"none"} /\ UNCHANGED <<now, files, want, since, bounds>>
    BY <1>5 DEF Stop
  <2>3. None \notin Overlays
    BY LockoutAssumption
  <2> QED BY <2>1, <2>2, <2>3, EndsType, AfterSignalType DEF files, bounds
<1>6. CASE StopFails(e)
  <2>1. AfterSignal(e, {}) /\ HandleAfter({}) = handle
    BY <1>6 DEF StopFails, HandleAfter
  <2>2. /\ mode' \in Modes \cup {"none"} /\ faults' \in 0..MaxFaults
        /\ UNCHANGED <<now, files, screen, want, since, commands>>
    BY <1>6 DEF StopFails
  <2>3. handle' \in {None, handle}
    BY <2>1, AfterSignalType
  <2> QED BY <2>1, <2>2, <2>3, AfterSignalType DEF files, screen
<1>7. CASE Stopped(e)
  <2>1. AfterStop(e)
    BY <1>7 DEF Stopped
  <2> QED BY <1>7, <2>1, AfterStopType DEF Stopped, files, screen, bounds
<1>8. CASE Launch(e) \/ LaunchUnseen(e)
  <2>1. faults' \in 0..MaxFaults /\ commands' \in 0..MaxCommands
    <3>1. CASE Launch(e)
      BY <3>1, Zenon DEF Launch, bounds
    <3>2. CASE LaunchUnseen(e)
      <4>1. faults < MaxFaults /\ faults' = faults + 1 /\ commands' = commands
        BY <3>2, Zenon DEF LaunchUnseen
      <4> QED BY <4>1
    <3> QED BY <1>8, <3>1, <3>2
  <2>2. PICK seen \in BOOLEAN, pidOnly \in BOOLEAN : Spawn(e, seen, pidOnly)
    <3>1. CASE Launch(e)
      BY <3>1, Zenon DEF Launch
    <3>2. CASE LaunchUnseen(e)
      BY <3>2, Zenon DEF LaunchUnseen
    <3> QED BY <1>8, <3>1, <3>2
  <2> QED BY <2>1, <2>2, SpawnType
<1>9. CASE LaunchFails(e)
  BY <1>9 DEF LaunchFails, PassOver, Goto, Decide, Rest, Nothing, files, screen, globals, bounds
<1> QED
  BY <1>1, <1>2, <1>3, <1>4, <1>5, <1>6, <1>7, <1>8, <1>9 DEF EnforcerStep

LEMMA CommandType ==
    ASSUME LockoutTypeOK,
           \/ \E seconds \in 1..(MaxPause + 1) : SetPause(seconds)
           \/ ReleasePause
           \/ \E start \in 0..(now + 1), end \in 0..(MaxTime + 1) : SetRestriction(start, end)
           \/ ClearRestriction
    PROVE  LockoutTypeOK'
<1> USE LockoutAssumption DEF LockoutTypeOK, Places, FileStates, Command, Goto, screen, globals
<1>1. ASSUME NEW seconds \in 1..(MaxPause + 1), SetPause(seconds) PROVE LockoutTypeOK'
  BY <1>1 DEF SetPause, StoredPause, Earlier
<1>2. CASE ReleasePause
  BY <1>2 DEF ReleasePause
<1>3. ASSUME NEW start \in 0..(now + 1), NEW end \in 0..(MaxTime + 1), SetRestriction(start, end)
      PROVE  LockoutTypeOK'
  BY <1>3 DEF SetRestriction, StoredSchedule, Earlier
<1>4. CASE ClearRestriction
  BY <1>4 DEF ClearRestriction
<1> QED BY <1>1, <1>2, <1>3, <1>4

LEMMA OverlayType ==
    ASSUME LockoutTypeOK, NEW o \in Overlays, OverlayStep(o)
    PROVE  LockoutTypeOK'
<1> USE LockoutAssumption DEF LockoutTypeOK, files, globals, bounds
<1>1. CASE Lock(o) \/ Wedge(o) \/ Show(o) \/ ShowUnrecorded(o)
  <2>1. PICK place \in {"locked", "showing", "wedged"} :
           /\ overlay' = Moved(o, place)
           /\ overlay[o].at \in {"showing"} => place = "wedged"
    BY <1>1 DEF Lock, Wedge, Show, ShowUnrecorded
  <2>2. /\ overlay' \in [Overlays -> Processes] /\ overlay'[o].at = place
        /\ \A x \in Overlays \ {o} : overlay'[x] = overlay[x]
    BY <2>1, MovedProcess
  <2>3. /\ record' \in Overlays \cup {None}
        /\ record' # None => overlay'[record'].at \in {"showing", "wedged"}
    <3>1. CASE Show(o)
      BY <3>1, MovedProcess DEF Show
    <3>2. CASE Lock(o) \/ Wedge(o) \/ ShowUnrecorded(o)
      <4>1. record' = record /\ (record = o => overlay[o].at = "showing" /\ place = "wedged")
        BY <2>1, <3>2 DEF Lock, Wedge, ShowUnrecorded
      <4> QED BY <2>2, <4>1
    <3> QED BY <1>1, <3>1, <3>2
  <2>4. handle' = handle /\ (handle' \in Overlays => overlay'[handle'].at # "dead")
    BY <1>1, <2>2 DEF Lock, Wedge, Show, ShowUnrecorded
  <2>5. /\ UNCHANGED <<now, files, crossed, mode, pc, want, since, commands>>
        /\ faults' \in 0..MaxFaults
    BY <1>1 DEF Lock, Wedge, Show, ShowUnrecorded
  <2> QED BY <2>2, <2>3, <2>4, <2>5
<1>3. CASE Quit(o) \/ Expire(o)
  <2>1. /\ Ends({o}) /\ handle' = HandleAfter({o})
        /\ UNCHANGED <<now, files, crossed, mode, pc, want, since, bounds>>
    BY <1>3 DEF Quit, Expire
  <2> QED BY <2>1, EndsType
<1>4. CASE QuitOnProbe(o)
  <2>1. /\ Ends({o}) /\ handle' = HandleAfter({o}) /\ faults' \in 0..MaxFaults
        /\ UNCHANGED <<now, files, crossed, mode, pc, want, since, commands>>
    BY <1>4 DEF QuitOnProbe
  <2> QED BY <2>1, EndsType
<1> QED BY <1>1, <1>3, <1>4 DEF OverlayStep

LEMMA EnvironmentType ==
    ASSUME LockoutTypeOK, Tick \/ AgentRestart \/ Reboot \/ Tamper
    PROVE  LockoutTypeOK'
<1> USE LockoutAssumption DEF LockoutTypeOK, Places, FileStates, files, screen, globals, bounds
<1>1. CASE Tick
  BY <1>1 DEF Tick
<1>2. CASE AgentRestart
  <2>1. /\ handle' = None /\ crossed' = FALSE /\ mode' = "none" /\ faults' \in 0..MaxFaults
        /\ UNCHANGED <<now, files, screen, since, commands>>
    BY <1>2 DEF AgentRestart
  <2>2. /\ pc' \in [Enforcers -> Places]
        /\ want' \in [Enforcers -> [mode : Modes \cup {"none"}, until : Nat]]
        /\ \A x \in Enforcers : pc'[x] \in {"start", "launch"} => want'[x].mode \in Modes
    BY <1>2 DEF AgentRestart, Rest, Nothing
  <2> QED BY <2>1, <2>2
<1>3. CASE Reboot
  <2>1. /\ handle' = None /\ crossed' = FALSE /\ mode' = "none" /\ faults' \in 0..MaxFaults
        /\ Ends(Overlays) /\ UNCHANGED <<now, files, since, commands>>
    BY <1>3 DEF Reboot
  <2>2. /\ pc' \in [Enforcers -> Places]
        /\ want' \in [Enforcers -> [mode : Modes \cup {"none"}, until : Nat]]
        /\ \A x \in Enforcers : pc'[x] \in {"start", "launch"} => want'[x].mode \in Modes
    BY <1>3 DEF Reboot, Rest, Nothing
  <2>3. Overlays \in SUBSET Overlays
    OBVIOUS
  <2> QED BY <2>1, <2>2, <2>3, EndsType
<1>4. CASE Tamper
  BY <1>4 DEF Tamper
<1> QED BY <1>1, <1>2, <1>3, <1>4

(***************************************************************************)
(* The type invariant of the lockout.                                      *)
(***************************************************************************)
THEOREM LockoutTypeCorrect == LockoutSpec => []LockoutTypeOK
<1>1. LockoutTypeOK /\ [LockoutNext]_vars => LockoutTypeOK'
  <2> SUFFICES ASSUME LockoutTypeOK, [LockoutNext]_vars PROVE LockoutTypeOK'
    OBVIOUS
  <2>1. CASE UNCHANGED vars
    BY <2>1 DEF LockoutTypeOK, vars, files, screen, globals, bounds
  <2>2. CASE LockoutNext
    BY <2>2, EnforcerType, CommandType, OverlayType, EnvironmentType DEF LockoutNext
  <2> QED BY <2>1, <2>2
<1> QED BY <1>1, TypeInit, PTL DEF LockoutSpec

-----------------------------------------------------------------------------
\* The bound on a block.  A window that has begun did so at or after since;
\* the cap on its length does the rest.
BlockInv ==
    /\ schedule.state = "valid" =>
         /\ schedule.end <= schedule.start + MaxBlock
         /\ schedule.start <= now /\ now < schedule.end => schedule.start <= since
    /\ BlockBounded

\* All that matters here: the schedule, the clock and since move in five ways.
LEMMA BlockMoves ==
    ASSUME LockoutTypeOK, [LockoutNext]_vars
    PROVE  \/ UNCHANGED <<schedule, now, since>>
           \/ schedule'.state = "tampered"
           \/ now' = now /\ since' = now /\ schedule'.state = "absent"
           \/ /\ now' = now /\ since' = now
              /\ \E start, end \in Nat : schedule' = StoredSchedule(start, end)
           \/ UNCHANGED schedule /\ now' = now + 1 /\ since' = IF Blocked THEN since ELSE now'
<1>1. ASSUME NEW e \in Enforcers,
             EnforcerStep(e) \/ StopFails(e) \/ LaunchUnseen(e) \/ LaunchFails(e)
      PROVE  UNCHANGED <<schedule, now, since>>
  BY <1>1 DEF EnforcerStep, ReadPause, ReadSchedule, CheckRelease, CheckStart, Stop, StopFails,
              Stopped, Spawn, Launch, LaunchUnseen, LaunchFails, files
<1>2. ASSUME NEW o \in Overlays, OverlayStep(o)
      PROVE  UNCHANGED <<schedule, now, since>>
  BY <1>2 DEF OverlayStep, Lock, Show, ShowUnrecorded, Quit, QuitOnProbe, Expire, Wedge, files
<1>3. ASSUME NEW start \in 0..(now + 1), NEW end \in 0..(MaxTime + 1), SetRestriction(start, end)
      PROVE  /\ now' = now /\ since' = now
             /\ \E s, t \in Nat : schedule' = StoredSchedule(s, t)
  <2>1. start \in Nat /\ end \in Nat
    BY LockoutAssumption DEF LockoutTypeOK
  <2>2. now' = now /\ since' = now /\ schedule' = StoredSchedule(start, end)
    BY <1>3 DEF SetRestriction, Command
  <2> QED BY <2>1, <2>2
<1>4. ASSUME NEW seconds, SetPause(seconds) \/ ReleasePause
      PROVE  UNCHANGED <<schedule, now, since>>
  BY <1>4 DEF SetPause, ReleasePause, Command
<1>5. CASE ClearRestriction
  BY <1>5 DEF ClearRestriction, Command, screen
<1>6. CASE Tick
  BY <1>6 DEF Tick, files
<1>7. CASE AgentRestart \/ Reboot
  BY <1>7 DEF AgentRestart, Reboot, files
<1>8. CASE Tamper
  BY <1>8 DEF Tamper
<1>9. CASE UNCHANGED vars
  BY <1>9 DEF vars, files
<1> QED BY <1>1, <1>2, <1>3, <1>4, <1>5, <1>6, <1>7, <1>8, <1>9 DEF LockoutNext

LEMMA BlockStep ==
    ASSUME LockoutTypeOK, LockoutTypeOK', BlockInv, [LockoutNext]_vars
    PROVE  BlockInv'
<1> USE LockoutAssumption DEF LockoutTypeOK, BlockInv, BlockBounded
<1>1. CASE UNCHANGED <<schedule, now, since>>
  BY <1>1
<1>2. CASE now' = now /\ since' = now /\ schedule'.state = "absent"
  BY <1>2
<1>3. ASSUME NEW start \in Nat, NEW end \in Nat, now' = now, since' = now,
             schedule' = StoredSchedule(start, end)
      PROVE  BlockInv'
  BY <1>3 DEF StoredSchedule, Earlier
<1>4. CASE UNCHANGED schedule /\ now' = now + 1 /\ since' = IF Blocked THEN since ELSE now'
  <2>1. CASE Blocked
    BY <1>4, <2>1 DEF Blocked, BlockStart, BlockEnd, FileStates
  <2>2. CASE ~Blocked
    BY <1>4, <2>2 DEF Blocked, BlockStart, BlockEnd, FileStates
  <2> QED BY <2>1, <2>2
<1>5. CASE schedule'.state = "tampered"
  BY <1>5
<1> QED BY <1>1, <1>2, <1>3, <1>4, <1>5, BlockMoves

(***************************************************************************)
(* No block of an intact schedule outlasts the cap without another command *)
(* (lockout.store_schedule), through any passes, crashes and reboots.      *)
(***************************************************************************)
THEOREM BlockBoundedAlways == LockoutSpec => []BlockBounded
<1>1. LockoutInit => BlockInv
  BY LockoutAssumption DEF LockoutInit, BlockInv, BlockBounded
<1>2. BlockInv /\ LockoutTypeOK /\ LockoutTypeOK' /\ [LockoutNext]_vars => BlockInv'
  BY BlockStep
<1>3. BlockInv => BlockBounded
  BY DEF BlockInv
<1> QED BY <1>1, <1>2, <1>3, LockoutTypeCorrect, PTL DEF LockoutSpec

-----------------------------------------------------------------------------
\* The bound on an overlay holds of the decision it is started on, and of the
\* files the decision is read from.
OverlayInv ==
    /\ OverlayBounded
    /\ \A e \in Enforcers : want[e].until <= now + MaxBlock
    /\ pause.until <= now + MaxPause
    /\ schedule.end <= schedule.start + MaxBlock

LEMMA OverlayInvStep ==
    ASSUME LockoutTypeOK, OverlayInv, [LockoutNext]_vars
    PROVE  OverlayInv'
<1> USE LockoutAssumption DEF LockoutTypeOK, OverlayInv, OverlayBounded, Alive
<1>0. /\ Paused => PauseEnd \in Nat /\ PauseEnd <= now + MaxBlock
      /\ Blocked => BlockEnd \in Nat /\ BlockEnd <= now + MaxBlock
  BY DEF PauseEnd, Blocked, BlockStart, BlockEnd
<1>1. ASSUME NEW e \in Enforcers,
             EnforcerStep(e) \/ StopFails(e) \/ LaunchUnseen(e) \/ LaunchFails(e)
      PROVE  OverlayInv'
  <2>1. CASE ReadPause(e)
    BY <1>0, <2>1 DEF ReadPause, Decide, files, screen
  <2>2. CASE ReadSchedule(e)
    BY <1>0, <2>2 DEF ReadSchedule, Decide, files, screen
  <2>3. CASE CheckRelease(e)
    BY <2>3 DEF CheckRelease, files, screen
  <2>4. CASE CheckStart(e)
    BY <2>4 DEF CheckStart, PassOver, Decide, Nothing, files, screen
  <2>5. CASE Stop(e)
    BY <2>5, DeadIsProcess DEF Stop, Ends, files
  <2>6. CASE StopFails(e) \/ Stopped(e)
    BY <2>6 DEF StopFails, Stopped, files, screen
  <2>7. CASE Launch(e) \/ LaunchUnseen(e)
    <3>1. PICK seen, pidOnly : Spawn(e, seen, pidOnly)
      BY <2>7, Zenon DEF Launch, LaunchUnseen
    <3>2. PICK o \in Overlays :
             overlay' = [overlay EXCEPT ![o] = [at |-> "starting", seen |-> seen,
                                                mode |-> want[e].mode, until |-> want[e].until]]
      BY <3>1 DEF Spawn
    <3>3. overlay'[o].until = want[e].until /\ \A x \in Overlays \ {o} : overlay'[x] = overlay[x]
      BY <3>2
    <3>4. \A x \in Overlays : overlay'[x].at # "dead" => overlay'[x].until <= now + MaxBlock
      BY <3>3
    <3>5. UNCHANGED <<now, files>> /\ PassOver(e)
      BY <3>1 DEF Spawn
    <3> QED BY <3>4, <3>5 DEF PassOver, Decide, Nothing, files
  <2>8. CASE LaunchFails(e)
    BY <2>8 DEF LaunchFails, PassOver, Decide, Nothing, files, screen
  <2> QED BY <1>1, <2>1, <2>2, <2>3, <2>4, <2>5, <2>6, <2>7, <2>8 DEF EnforcerStep
<1>2. ASSUME NEW seconds \in 1..(MaxPause + 1), SetPause(seconds) PROVE OverlayInv'
  BY <1>2 DEF SetPause, Command, StoredPause, Earlier, screen
<1>3. CASE ReleasePause
  BY <1>3 DEF ReleasePause, Command, screen
<1>4. ASSUME NEW start \in 0..(now + 1), NEW end \in 0..(MaxTime + 1), SetRestriction(start, end)
      PROVE  OverlayInv'
  BY <1>4 DEF SetRestriction, Command, StoredSchedule, Earlier, screen
<1>5. CASE ClearRestriction
  BY <1>5 DEF ClearRestriction, Command, screen
<1>6. ASSUME NEW o \in Overlays, OverlayStep(o) PROVE OverlayInv'
  <2>1. CASE Lock(o) \/ Show(o) \/ ShowUnrecorded(o) \/ Wedge(o)
    <3>1. PICK place \in {"locked", "showing", "wedged"} : overlay' = Moved(o, place)
      BY <2>1 DEF Lock, Show, ShowUnrecorded, Wedge
    <3>2. \A x \in Overlays : overlay'[x].until = overlay[x].until
      <4>1. overlay \in [Overlays -> Processes]
        OBVIOUS
      <4>2. /\ Moved(o, place)[o].until = overlay[o].until
            /\ \A x \in Overlays \ {o} : Moved(o, place)[x] = overlay[x]
        BY <4>1, MovedProcess
      <4> QED BY <3>1, <4>2
    <3>3. overlay[o].at # "dead" /\ \A x \in Overlays \ {o} : overlay'[x] = overlay[x]
      BY <2>1, <3>1, MovedProcess DEF Lock, Show, ShowUnrecorded, Wedge
    <3> QED BY <2>1, <3>2, <3>3 DEF Lock, Show, ShowUnrecorded, Wedge, files
  <2>2. CASE Quit(o) \/ QuitOnProbe(o) \/ Expire(o)
    BY <2>2, DeadIsProcess DEF Quit, QuitOnProbe, Expire, Ends, files
  <2> QED BY <1>6, <2>1, <2>2 DEF OverlayStep
<1>7. CASE Tick
  BY <1>7 DEF Tick, files, screen, Processes
<1>8. CASE AgentRestart
  BY <1>8 DEF AgentRestart, Nothing, files, screen
<1>9. CASE Reboot
  BY <1>9, DeadIsProcess DEF Reboot, Ends, Nothing, files
<1>10. CASE Tamper
  BY <1>10 DEF Tamper, screen
<1>11. CASE UNCHANGED vars
  BY <1>11 DEF vars, files, screen
<1> QED BY <1>1, <1>2, <1>3, <1>4, <1>5, <1>6, <1>7, <1>8, <1>9, <1>10, <1>11 DEF LockoutNext

(***************************************************************************)
(* No overlay is ever up for longer than the cap from now on, tampered     *)
(* files and decisions overtaken by other commands included.               *)
(***************************************************************************)
THEOREM OverlayBoundedAlways == LockoutSpec => []OverlayBounded
<1>1. LockoutInit => OverlayInv
  BY LockoutAssumption DEF LockoutInit, OverlayInv, OverlayBounded, Alive, Dead, Nothing
<1>2. OverlayInv /\ LockoutTypeOK /\ [LockoutNext]_vars => OverlayInv'
  BY OverlayInvStep
<1>3. OverlayInv => OverlayBounded
  BY DEF OverlayInv
<1> QED BY <1>1, <1>2, <1>3, LockoutTypeCorrect, PTL DEF LockoutSpec
=============================================================================
