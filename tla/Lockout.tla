------------------------------- MODULE Lockout -------------------------------
(***************************************************************************)
(* Screen restriction on one client: client/lockout.py over the signed     *)
(* files of client/state.py, the overlay process of client/overlay_app.py  *)
(* and its lock (client/single_instance.py).                               *)
(*                                                                         *)
(* Three enforcers run enforce_once: the agent's watchdog_loop, the agent  *)
(* thread a command is applied in (both share the module's globals), and   *)
(* the Scheduled Task, a process of its own that remembers nothing.  Each  *)
(* reads, decides and acts in separate steps.  The lock is the overlay's   *)
(* as long as it runs: who holds it counts as being on screen, though an   *)
(* overlay that a service had to start in its own session is seen by       *)
(* nobody.  Whom to signal is read from the pid file beside the lock.      *)
(***************************************************************************)
EXTENDS Naturals, FiniteSets

CONSTANTS
    Overlays,       \* overlay processes alive at once
    None,           \* no overlay
    Ended,          \* an overlay that has ended
    Enforcers,      \* a subset of {"loop", "worker", "task"}
    MaxBlock,       \* MAX_BLOCK_HOURS
    MaxPause,       \* PAUSE_MAX_SECONDS
    MayTamper,      \* whether a file may come to fail its integrity check
    MaxTime,        \* bound: the clock
    MaxCommands,    \* bound: pauses and blocks set, not their releases
    MaxFaults       \* bound: crashes, failed launches and the like

ASSUME LockoutAssumption ==
    /\ None \notin Overlays /\ Ended \notin Overlays /\ None # Ended
    /\ Enforcers \subseteq {"loop", "worker", "task"}
    /\ MaxBlock \in Nat \ {0} /\ MaxPause \in Nat \ {0} /\ MaxPause <= MaxBlock
    /\ MayTamper \in BOOLEAN
    /\ MaxTime \in Nat /\ MaxCommands \in Nat /\ MaxFaults \in Nat

VARIABLES
    now,        \* the wall clock
    pause,      \* PAUSE_FILE
    schedule,   \* SCHEDULE_FILE
    overlay,    \* overlay processes
    record,     \* overlay.lock.pid: the running overlay it names
    handle,     \* the agent's _overlay, or
    crossed,    \* whether it is but a pid, _overlay_pid
    mode,       \* the agent's _overlay_mode
    pc,         \* where an enforcer is
    want,       \* the overlay its enforce_once decided on
    since,      \* history: start of the block no command has renewed
    commands, faults

files == <<pause, schedule>>
screen == <<overlay, record>>
globals == <<handle, crossed, mode>>
bounds == <<commands, faults>>
vars == <<now, files, screen, globals, pc, want, since, bounds>>

Modes == {"pause", "scheduled"}
FileStates == {"absent", "valid", "tampered"}
Places == {"idle", "pause", "schedule", "start", "release", "stop", "stopped", "launch"}

Processes == [at : {"dead", "starting", "locked", "showing", "wedged"}, seen : BOOLEAN,
              mode : Modes \cup {"none"}, until : Nat]

Nothing == [mode |-> "none", until |-> 0]
Dead == [at |-> "dead", seen |-> FALSE, mode |-> "none", until |-> 0]

LockoutTypeOK ==
    /\ now \in Nat /\ since \in Nat /\ since <= now
    /\ pause \in [state : FileStates, until : Nat]
    /\ schedule \in [state : FileStates, start : Nat, end : Nat]
    /\ overlay \in [Overlays -> Processes]
    /\ record \in Overlays \cup {None}
    /\ record # None => overlay[record].at \in {"showing", "wedged"}
    /\ handle \in Overlays \cup {None, Ended} /\ crossed \in BOOLEAN
    /\ handle \in Overlays => overlay[handle].at # "dead"
    /\ mode \in Modes \cup {"none"}
    /\ pc \in [Enforcers -> Places]
    /\ want \in [Enforcers -> [mode : Modes \cup {"none"}, until : Nat]]
    /\ \A e \in Enforcers : pc[e] \in {"start", "launch"} => want[e].mode \in Modes
    /\ commands \in 0..MaxCommands
    /\ faults \in 0..MaxFaults

\* The loop and the task begin another pass when one is over; a thread ends
\* with its command.
Rest(e) == IF e = "worker" THEN "idle" ELSE "pause"

LockoutInit ==
    /\ now = 0 /\ since = 0
    /\ pause = [state |-> "absent", until |-> 0]
    /\ schedule = [state |-> "absent", start |-> 0, end |-> 0]
    /\ overlay = [o \in Overlays |-> Dead]
    /\ record = None
    /\ handle = None /\ crossed = FALSE /\ mode = "none"
    /\ pc = [e \in Enforcers |-> Rest(e)]
    /\ want = [e \in Enforcers |-> Nothing]
    /\ commands = 0 /\ faults = 0

-----------------------------------------------------------------------------
\* The files, as they are read: one that fails its check reads as a pause or
\* a block that begins now.

Earlier(s, t) == IF s < t THEN s ELSE t

PauseEnd == IF pause.state = "tampered" THEN now + MaxPause ELSE pause.until
Paused == pause.state # "absent" /\ now < PauseEnd

BlockStart == IF schedule.state = "tampered" THEN now ELSE schedule.start
BlockEnd == IF schedule.state = "tampered" THEN now + MaxBlock ELSE schedule.end
Blocked == schedule.state # "absent" /\ BlockStart <= now /\ now < BlockEnd

Frozen == Paused \/ Blocked

\* A mutated form: the length is not capped.
UncappedSchedule(start, end) == [state |-> "valid", start |-> start, end |-> end]

StoredSchedule(start, end) ==
    [state |-> "valid", start |-> start, end |-> Earlier(end, start + MaxBlock)]

\* A mutated form: the length is not capped.
UncappedPause(seconds) == [state |-> "valid", until |-> now + seconds]

StoredPause(seconds) ==
    [state |-> "valid", until |-> now + Earlier(seconds, MaxPause)]

-----------------------------------------------------------------------------
\* The overlay's processes.

Alive(o) == overlay[o].at # "dead"
Holders == {o \in Overlays : overlay[o].at \in {"locked", "showing", "wedged"}}
Held == Holders # {}

\* What an enforcer knows of _overlay and _overlay_mode.
HandleOf(e) == IF e = "task" THEN None ELSE handle

OverlayRunning(e) ==
    \/ HandleOf(e) \in Overlays
    \/ Held

Moved(o, place) == [overlay EXCEPT ![o].at = place]

\* Processes end, and the pid file of one of them names nobody any more.
Ends(gone) ==
    /\ overlay' = [o \in Overlays |-> IF o \in gone THEN Dead ELSE overlay[o]]
    /\ record' = IF record \in gone THEN None ELSE record

\* What the agent's handle is to it then.
HandleAfter(gone) == IF handle \in gone THEN Ended ELSE handle

-----------------------------------------------------------------------------
\* enforce_once.

Goto(e, place) == pc' = [pc EXCEPT ![e] = place]
Decide(e, w) == want' = [want EXCEPT ![e] = w]
PassOver(e) == Goto(e, Rest(e)) /\ Decide(e, Nothing)

ReadPause(e) ==
    /\ pc[e] = "pause"
    /\ IF Paused
       THEN Goto(e, "start") /\ Decide(e, [mode |-> "pause", until |-> PauseEnd])
       ELSE Goto(e, "schedule") /\ UNCHANGED want
    /\ UNCHANGED <<now, files, screen, globals, since, bounds>>

\* A mutated form: a schedule that fails its check is taken for none.
ReadScheduleOpen(e) ==
    /\ pc[e] = "schedule"
    /\ IF schedule.state = "valid" /\ Blocked
       THEN Goto(e, "start") /\ Decide(e, [mode |-> "scheduled", until |-> BlockEnd])
       ELSE Goto(e, "release") /\ UNCHANGED want
    /\ UNCHANGED <<now, files, screen, globals, since, bounds>>

ReadSchedule(e) ==
    /\ pc[e] = "schedule"
    /\ IF Blocked
       THEN Goto(e, "start") /\ Decide(e, [mode |-> "scheduled", until |-> BlockEnd])
       ELSE Goto(e, "release") /\ UNCHANGED want
    /\ UNCHANGED <<now, files, screen, globals, since, bounds>>

CheckRelease(e) ==
    /\ pc[e] = "release"
    /\ IF OverlayRunning(e) THEN Goto(e, "stop") ELSE Goto(e, Rest(e))
    /\ UNCHANGED <<now, files, screen, globals, want, since, bounds>>

\* start_overlay: one's own overlay is kept or replaced, someone else's left
\* alone.
CheckStart(e) ==
    /\ pc[e] = "start"
    /\ \/ /\ OverlayRunning(e) /\ HandleOf(e) # None
          /\ IF mode = want[e].mode THEN PassOver(e) ELSE Goto(e, "stop") /\ UNCHANGED want
       \/ /\ Held /\ HandleOf(e) = None
          /\ PassOver(e)
       \/ /\ ~OverlayRunning(e)
          /\ Goto(e, "launch") /\ UNCHANGED want
    /\ UNCHANGED <<now, files, screen, globals, since, bounds>>

\* A mutated form: a release is taken for a transition.
RelaunchAfterStop(e) == Goto(e, "launch")

AfterStop(e) == Goto(e, IF want[e].mode = "none" THEN Rest(e) ELSE "launch")

\* A mutated form: an overlay somebody else started is not stopped.
OwnTarget(e) == {HandleOf(e)} \cap Overlays

\* Whom it signals: the process of the handle, or else the one on record.
Target(e) == {IF HandleOf(e) # None THEN HandleOf(e) ELSE record} \cap Overlays

\* A Popen is waited for; a pid is forgotten.
AfterSignal(e, gone) ==
    IF HandleOf(e) # None /\ ~crossed
    THEN Goto(e, "stopped") /\ handle' = HandleAfter(gone) /\ UNCHANGED crossed
    ELSE /\ AfterStop(e)
         /\ IF HandleOf(e) = None
            THEN handle' = HandleAfter(gone) /\ UNCHANGED crossed
            ELSE handle' = None /\ crossed' = FALSE

\* stop_overlay.  With nobody on record there is nobody to signal.
Stop(e) ==
    /\ pc[e] = "stop"
    /\ mode' = IF e = "task" THEN mode ELSE "none"
    /\ Ends(Target(e))
    /\ AfterSignal(e, Target(e))
    /\ UNCHANGED <<now, files, want, since, bounds>>

\* terminate() or os.kill() raises OSError, and the process runs on.
StopFails(e) ==
    /\ pc[e] = "stop" /\ Target(e) # {}
    /\ faults < MaxFaults /\ faults' = faults + 1
    /\ mode' = IF e = "task" THEN mode ELSE "none"
    /\ AfterSignal(e, {})
    /\ UNCHANGED <<now, files, screen, want, since, commands>>

\* wait() has returned.
Stopped(e) ==
    /\ pc[e] = "stopped"
    /\ handle' = None /\ crossed' = FALSE
    /\ AfterStop(e)
    /\ UNCHANGED <<now, files, screen, mode, want, since, bounds>>

Spawn(e, seen, pidOnly) ==
    /\ pc[e] = "launch"
    /\ \E o \in Overlays :
          /\ ~Alive(o)
          /\ overlay' = [overlay EXCEPT ![o] = [at |-> "starting", seen |-> seen,
                                               mode |-> want[e].mode, until |-> want[e].until]]
          /\ IF e = "task"
             THEN UNCHANGED globals
             ELSE handle' = o /\ crossed' = pidOnly /\ mode' = want[e].mode
    /\ PassOver(e)
    /\ UNCHANGED <<now, files, record, since>>

\* From the user's session, or from a service's across to the user's.
Launch(e) == (\E pidOnly \in BOOLEAN : Spawn(e, TRUE, pidOnly)) /\ UNCHANGED bounds

\* spawn_in_active_session fails: an ordinary spawn, in the service's session.
LaunchUnseen(e) ==
    /\ faults < MaxFaults /\ faults' = faults + 1
    /\ Spawn(e, FALSE, FALSE)
    /\ UNCHANGED commands

\* Popen raises OSError.
LaunchFails(e) ==
    /\ pc[e] = "launch"
    /\ faults < MaxFaults /\ faults' = faults + 1
    /\ PassOver(e)
    /\ UNCHANGED <<now, files, screen, globals, since, commands>>

EnforcerStep(e) ==
    \/ ReadPause(e) \/ ReadSchedule(e) \/ CheckRelease(e) \/ CheckStart(e)
    \/ Stop(e) \/ Stopped(e) \/ Launch(e)

-----------------------------------------------------------------------------
\* Commands: a thread writes a file and enforces.

Command(place) ==
    /\ "worker" \in Enforcers /\ pc["worker"] = "idle"
    /\ Goto("worker", place)
    /\ UNCHANGED <<now, screen, globals, want, faults>>

SetPause(seconds) ==
    /\ Command("pause")
    /\ commands < MaxCommands /\ commands' = commands + 1
    /\ pause' = StoredPause(seconds)
    /\ UNCHANGED <<schedule, since>>

ReleasePause ==
    /\ Command("pause")
    /\ pause' = [state |-> "absent", until |-> 0]
    /\ UNCHANGED <<schedule, since, commands>>

SetRestriction(start, end) ==
    /\ start < end
    /\ Command("pause")
    /\ commands < MaxCommands /\ commands' = commands + 1
    /\ schedule' = StoredSchedule(start, end)
    /\ since' = now
    /\ UNCHANGED pause

\* The schedule goes and stop_overlay is called, without enforce_once.
ClearRestriction ==
    /\ Command("stop")
    /\ schedule' = [state |-> "absent", start |-> 0, end |-> 0]
    /\ since' = now
    /\ UNCHANGED <<pause, commands>>

-----------------------------------------------------------------------------
\* overlay_app.

\* acquire: it takes the lock,
Lock(o) ==
    /\ overlay[o].at = "starting"
    /\ now < overlay[o].until /\ ~Held
    /\ overlay' = Moved(o, "locked")
    /\ UNCHANGED <<now, files, record, globals, pc, want, since, bounds>>

\* records its pid and shows.
Show(o) ==
    /\ overlay[o].at = "locked"
    /\ overlay' = Moved(o, "showing") /\ record' = o
    /\ UNCHANGED <<now, files, globals, pc, want, since, bounds>>

\* The pid cannot be written, which nobody is told.
ShowUnrecorded(o) ==
    /\ overlay[o].at = "locked"
    /\ faults < MaxFaults /\ faults' = faults + 1
    /\ overlay' = Moved(o, "showing")
    /\ UNCHANGED <<now, files, record, globals, pc, want, since, commands>>

\* Too late, or not the first.
Quit(o) ==
    /\ overlay[o].at = "starting"
    /\ overlay[o].until <= now \/ Held
    /\ Ends({o}) /\ handle' = HandleAfter({o})
    /\ UNCHANGED <<now, files, crossed, mode, pc, want, since, bounds>>

\* It meets the lock while is_held has taken it for a moment to probe it.
QuitOnProbe(o) ==
    /\ overlay[o].at = "starting"
    /\ \E e \in Enforcers : pc[e] \in {"start", "release", "stop"}
    /\ faults < MaxFaults /\ faults' = faults + 1
    /\ Ends({o}) /\ handle' = HandleAfter({o})
    /\ UNCHANGED <<now, files, crossed, mode, pc, want, since, commands>>

\* Its countdown ends.
Expire(o) ==
    /\ overlay[o].at = "showing"
    /\ overlay[o].until <= now
    /\ Ends({o}) /\ handle' = HandleAfter({o})
    /\ UNCHANGED <<now, files, crossed, mode, pc, want, since, bounds>>

Wedge(o) ==
    /\ overlay[o].at = "showing"
    /\ faults < MaxFaults /\ faults' = faults + 1
    /\ overlay' = Moved(o, "wedged")
    /\ UNCHANGED <<now, files, record, globals, pc, want, since, commands>>

OverlayStep(o) ==
    Lock(o) \/ Show(o) \/ ShowUnrecorded(o) \/ Quit(o) \/ QuitOnProbe(o) \/ Expire(o) \/ Wedge(o)

-----------------------------------------------------------------------------
\* The environment.

Tick ==
    /\ now < MaxTime
    /\ now' = now + 1
    /\ since' = IF Blocked THEN since ELSE now'
    /\ UNCHANGED <<files, screen, globals, pc, want, bounds>>

\* The agent dies and starts again: its threads and globals are new.
AgentRestart ==
    /\ faults < MaxFaults /\ faults' = faults + 1
    /\ handle' = None /\ crossed' = FALSE /\ mode' = "none"
    /\ pc' = [e \in Enforcers |-> IF e = "task" THEN pc[e] ELSE Rest(e)]
    /\ want' = [e \in Enforcers |-> IF e = "task" THEN want[e] ELSE Nothing]
    /\ UNCHANGED <<now, files, screen, since, commands>>

\* The machine restarts: the files are all that is left.
Reboot ==
    /\ faults < MaxFaults /\ faults' = faults + 1
    /\ handle' = None /\ crossed' = FALSE /\ mode' = "none"
    /\ pc' = [e \in Enforcers |-> Rest(e)]
    /\ want' = [e \in Enforcers |-> Nothing]
    /\ Ends(Overlays)
    /\ UNCHANGED <<now, files, since, commands>>

\* A stored file stops matching its signature.
Tamper ==
    /\ MayTamper
    /\ faults < MaxFaults /\ faults' = faults + 1
    /\ \/ /\ pause.state = "valid" /\ pause' = [state |-> "tampered", until |-> pause.until]
          /\ UNCHANGED <<schedule, since>>
       \/ /\ schedule.state = "valid"
          /\ schedule' = [state |-> "tampered", start |-> schedule.start, end |-> schedule.end]
          /\ since' = IF Blocked THEN since ELSE now
          /\ UNCHANGED pause
    /\ UNCHANGED <<now, screen, globals, pc, want, commands>>

LockoutNext ==
    \/ \E e \in Enforcers :
          EnforcerStep(e) \/ StopFails(e) \/ LaunchUnseen(e) \/ LaunchFails(e)
    \/ \E seconds \in 1..(MaxPause + 1) : SetPause(seconds)
    \/ ReleasePause
    \/ \E start \in 0..(now + 1), end \in 0..(MaxTime + 1) : SetRestriction(start, end)
    \/ ClearRestriction
    \/ \E o \in Overlays : OverlayStep(o)
    \/ Tick \/ AgentRestart \/ Reboot \/ Tamper

LockoutSpec == LockoutInit /\ [][LockoutNext]_vars

(***************************************************************************)
(* Windows starts the Scheduled Task every few minutes; its pass is short, *)
(* an overlay process starts, or ends, in its own time.  The agent owes    *)
(* nothing: it may hang.  Nor does the clock, so that nothing is excused   *)
(* by a block that is over before anyone had to act.                       *)
(***************************************************************************)
LockoutFairSpec ==
    /\ LockoutSpec
    /\ WF_vars("task" \in Enforcers /\ EnforcerStep("task"))
    /\ \A o \in Overlays : WF_vars(Lock(o) \/ Show(o) \/ Quit(o) \/ Expire(o))

-----------------------------------------------------------------------------
\* Properties.

(***************************************************************************)
(* lockout.py: "Any single continuous block is capped at 2 hours".  What   *)
(* was blocked longer than that has been blocked again by a command: no    *)
(* pass, crash or reboot stretches a block.  A schedule that fails its     *)
(* integrity check is not covered: each pass reads it as two more hours.   *)
(***************************************************************************)
BlockBounded == schedule.state # "tampered" => now - since <= MaxBlock

(***************************************************************************)
(* No overlay is ever started to stay longer than the cap from now on,     *)
(* however old the decision it was started on, and whatever the files      *)
(* hold: the bound on a screen nobody can release any more.                *)
(***************************************************************************)
OverlayBounded ==
    \A o \in Overlays : Alive(o) => overlay[o].until <= now + MaxBlock

\* An overlay on the student's screen, and one in a service's session.
Covered == \E o \in Holders : overlay[o].seen
CoveredInVain == \E o \in Holders : ~overlay[o].seen

(***************************************************************************)
(* A frozen machine gets its overlay, and a reboot, a dead or a hung       *)
(* agent, a failed launch and enforcers in each other's way only delay it; *)
(* so does an overlay that shows in a service's session for want of a way  *)
(* out of it, but until it ends every enforcer takes it for the real one   *)
(* (overlay_running: "on screen for this client - started by anyone").     *)
(***************************************************************************)
FrozenIsCovered == Frozen ~> ~Frozen \/ Covered \/ CoveredInVain

(***************************************************************************)
(* A machine that is no longer frozen is rid of every overlay, a wedged    *)
(* one, one that could not be signalled at first and one nobody has a      *)
(* handle of included.  An overlay whose pid is not on record is excepted: *)
(* "An overlay is running but recorded no pid; cannot stop it from here".  *)
(***************************************************************************)
FreeIsReleased ==
    ~Frozen ~> Frozen \/ \A o \in Overlays : Alive(o) => o \in Holders /\ record # o
=============================================================================
