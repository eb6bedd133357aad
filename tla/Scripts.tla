------------------------------- MODULE Scripts -------------------------------
(***************************************************************************)
(* The life of a script: client/executor.py (execute_script,               *)
(* tail_log_and_report, terminate_script) under the sessions of            *)
(* client/main.py and client/connection.py, and what the Engine's          *)
(* command_log comes to say of it (engine/command_handler.py).             *)
(*                                                                         *)
(* The agent is one asyncio loop: an action is what runs between two       *)
(* awaits, and every await of execute_script and of its tail task is a     *)
(* value of "at".  Tail tasks outlive sessions.  How the Engine comes to   *)
(* deliver a command or not is the business of Outbox.                     *)
(***************************************************************************)
EXTENDS Naturals, Sequences, FiniteSets

CONSTANTS
    Ids,            \* command ids of scripts
    Conns,          \* connections the agent may open, each once
    None,           \* no connection
    MaxPrints,      \* bound: times a script prints
    MaxTerminates,  \* bound: TERMINATE_SCRIPT commands
    MaxBreaks,      \* bound: connections that end in an error nobody expects
    MaxCrashes,     \* bound: crashes and stops of the agent, failing file writes
    MaxFaults       \* bound: an OSError from a script's log or its process

ASSUME ScriptsAssumption ==
    /\ None \notin Conns
    /\ MaxPrints \in Nat /\ MaxTerminates \in Nat /\ MaxBreaks \in Nat /\ MaxCrashes \in Nat
    /\ MaxFaults \in Nat

VARIABLES
    row,            \* command_log.status
    inbox,          \* commands the agent has still to read
    up,             \* messages on their way to the Engine, per connection
    conn,           \* the agent's _writer
    link,           \* the transport: "none", "up", "down", "broken"
    at,             \* where a script's execute_script or tail task is
    proc,           \* its process
    runningScripts, \* running_scripts
    unread,         \* scripts whose log has grown past the tail's position
    due,            \* scripts past their deadline
    timedOut,       \* timed_out
    stopping,       \* the agent was interrupted and winds up its tails
    logFailed,      \* history: scripts whose log the tail could not open
    stopFailed,     \* history: scripts whose process it could not signal
    prints, terminates, breaks, crashes

bounds == <<prints, terminates, breaks, crashes>>
faults == <<logFailed, stopFailed>>
network == <<inbox, up, conn, link, stopping>>
script == <<at, proc, runningScripts, unread, due, timedOut>>
vars == <<row, network, script, faults, bounds>>

Verdicts == {"success", "error", "timeout"}
Tailing == {"asleep", "sending", "waiting", "grace", "wrapping", "draining", "reporting"}
WindingUp == {"wrapping", "draining", "reporting"}
Commands == [do : {"execute", "terminate"}, of : Ids]
Messages == [of : Ids, says : {"accepted", "output"} \cup Verdicts]

ScriptsTypeOK ==
    /\ row \in [Ids -> {"none", "dispatched", "undeliverable", "running"} \cup Verdicts]
    /\ inbox \in Seq(Commands)
    /\ up \in [Conns -> Seq(Messages)]
    /\ conn \in Conns \cup {None}
    /\ conn = None => inbox = <<>>
    /\ link \in [Conns -> {"none", "up", "down", "broken"}]
    /\ at \in [Ids -> {"none", "preparing", "rejecting", "accepting", "done", "lost"}
                      \cup Tailing]
    /\ proc \in [Ids -> {"none", "running", "exited", "failed", "killed"}]
    /\ runningScripts \in SUBSET Ids
    /\ \A s \in Ids : at[s] \in {"accepting", "asleep", "sending", "waiting", "grace"}
                      => s \in runningScripts
    /\ \A s \in Ids : at[s] = "grace" => s \in timedOut
    /\ unread \in SUBSET Ids /\ due \in SUBSET Ids /\ timedOut \in SUBSET due
    /\ logFailed \in SUBSET Ids /\ stopFailed \in SUBSET timedOut
    /\ stopping \in BOOLEAN
    /\ stopping => \A s \in Ids : at[s] \in {"none", "done", "lost"} \cup WindingUp
    /\ prints \in 0..MaxPrints /\ terminates \in 0..MaxTerminates
    /\ breaks \in 0..MaxBreaks /\ crashes \in 0..MaxCrashes

ScriptsInit ==
    /\ row = [s \in Ids |-> "none"]
    /\ inbox = <<>>
    /\ up = [c \in Conns |-> <<>>]
    /\ conn = None
    /\ link = [c \in Conns |-> "none"]
    /\ at = [s \in Ids |-> "none"]
    /\ proc = [s \in Ids |-> "none"]
    /\ runningScripts = {} /\ unread = {} /\ due = {} /\ timedOut = {}
    /\ logFailed = {} /\ stopFailed = {}
    /\ stopping = FALSE
    /\ prints = 0 /\ terminates = 0 /\ breaks = 0 /\ crashes = 0

-----------------------------------------------------------------------------
\* connection.send: without a connection, or on a dead one, nothing goes out.

LinkIs(state) == conn # None /\ link[conn] = state

Say(s, word) ==
    up' = IF LinkIs("up")
          THEN [up EXCEPT ![conn] = Append(@, [of |-> s, says |-> word])]
          ELSE up

Goto(s, place) == at' = [at EXCEPT ![s] = place]
Ended(s) == proc[s] \in {"exited", "failed", "killed"}

-----------------------------------------------------------------------------
\* command_listener and execute_script.  One command at a time.

Busy == \E s \in Ids : at[s] \in {"preparing", "rejecting", "accepting"}

\* Bytes that were read before the connection closed are still commands.
Reads(command) ==
    /\ inbox # <<>> /\ Head(inbox) = command
    /\ conn # None /\ ~LinkIs("broken") /\ ~Busy /\ ~stopping
    /\ inbox' = Tail(inbox)

Execute(s) ==
    /\ Reads([do |-> "execute", of |-> s])
    /\ Goto(s, "preparing")
    /\ UNCHANGED <<row, up, conn, link, stopping, proc, runningScripts, unread, due, timedOut, faults, bounds>>

\* A mutated form: the entry goes with the attempt.
TerminateForgets(s) ==
    /\ Reads([do |-> "terminate", of |-> s])
    /\ runningScripts' = runningScripts \ {s}
    /\ \/ UNCHANGED proc
       \/ /\ s \in runningScripts /\ proc[s] = "running"
          /\ proc' = [proc EXCEPT ![s] = "killed"]
    /\ UNCHANGED <<row, up, conn, link, stopping, at, unread, due, timedOut, faults, bounds>>

\* terminate_script: a process may ignore terminate(), not kill().  Without an
\* entry in running_scripts the answer is an error.
Terminate(s) ==
    /\ Reads([do |-> "terminate", of |-> s])
    /\ \/ UNCHANGED proc
       \/ /\ s \in runningScripts /\ proc[s] = "running"
          /\ proc' = [proc EXCEPT ![s] = "killed"]
    /\ UNCHANGED <<row, up, conn, link, stopping, at, runningScripts, unread, due, timedOut, faults, bounds>>

\* The script fails its validation or cannot be launched.
Reject(s) ==
    /\ at[s] = "preparing"
    /\ Say(s, "error")
    /\ Goto(s, "rejecting")
    /\ UNCHANGED <<row, inbox, conn, link, stopping, proc, runningScripts, unread, due, timedOut, faults, bounds>>

\* A mutated form: registered only once the ack is out.
LaunchUnregistered(s) ==
    /\ at[s] = "preparing"
    /\ proc' = [proc EXCEPT ![s] = "running"]
    /\ Say(s, "accepted")
    /\ Goto(s, "accepting")
    /\ UNCHANGED <<row, inbox, conn, link, stopping, runningScripts, unread, due, timedOut, faults, bounds>>

Launch(s) ==
    /\ at[s] = "preparing"
    /\ proc' = [proc EXCEPT ![s] = "running"]
    /\ runningScripts' = runningScripts \cup {s}
    /\ Say(s, "accepted")
    /\ Goto(s, "accepting")
    /\ UNCHANGED <<row, inbox, conn, link, stopping, unread, due, timedOut, faults, bounds>>

\* The send returns, with or without success; after an ack the tail begins.
Answered(s) ==
    /\ at[s] \in {"rejecting", "accepting"} /\ ~LinkIs("broken")
    /\ Goto(s, IF at[s] = "accepting" THEN "asleep" ELSE "done")
    /\ UNCHANGED <<row, network, proc, runningScripts, unread, due, timedOut, faults, bounds>>

-----------------------------------------------------------------------------
\* tail_log_and_report.

\* A mutated form: the tick is over when the log has not grown.
PollGrown(s) ==
    /\ at[s] = "asleep" /\ s \in unread
    /\ Say(s, "output") /\ unread' = unread \ {s}
    /\ Goto(s, "sending")
    /\ UNCHANGED <<row, inbox, conn, link, stopping, proc, runningScripts, due, timedOut, faults, bounds>>

Poll(s) ==
    /\ at[s] = "asleep"
    /\ IF s \in unread
       THEN Say(s, "output") /\ unread' = unread \ {s} /\ Goto(s, "sending")
       ELSE Goto(s, "waiting") /\ UNCHANGED <<up, unread>>
    /\ UNCHANGED <<row, inbox, conn, link, stopping, proc, runningScripts, due, timedOut, faults, bounds>>

\* The send returns, or raises: that ends the tail, not the process, and the
\* position stays where it was.
Polled(s) ==
    /\ at[s] = "sending"
    /\ IF LinkIs("broken")
       THEN Goto(s, "wrapping") /\ unread' = unread \cup {s}
       ELSE Goto(s, "waiting") /\ UNCHANGED unread
    /\ UNCHANGED <<row, network, proc, runningScripts, due, timedOut, faults, bounds>>

FaultsLeft == Cardinality(logFailed) + Cardinality(stopFailed) < MaxFaults

\* The log has grown and cannot be opened: that too ends the tail and not the
\* process, with the agent alive and connected.
PollFails(s) ==
    /\ at[s] = "asleep" /\ s \in unread /\ FaultsLeft
    /\ logFailed' = logFailed \cup {s}
    /\ Goto(s, "wrapping")
    /\ UNCHANGED <<row, network, proc, runningScripts, unread, due, timedOut, stopFailed, bounds>>

\* A mutated form: no deadline.
WaitNoDeadline(s) ==
    /\ at[s] = "waiting"
    /\ Goto(s, IF Ended(s) THEN "wrapping" ELSE "asleep")
    /\ UNCHANGED <<row, network, proc, runningScripts, unread, due, timedOut, faults, bounds>>

\* The short wait for the process is over.  One that ends right then may be
\* seen too late, and is reported as stopped at the cap.
Wait(s) ==
    /\ at[s] = "waiting"
    /\ \/ /\ s \notin due \/ Ended(s)
          /\ Goto(s, IF Ended(s) THEN "wrapping" ELSE "asleep")
          /\ UNCHANGED <<proc, timedOut>>
       \/ /\ s \in due
          /\ timedOut' = timedOut \cup {s}
          /\ IF Ended(s)
             THEN Goto(s, "wrapping") /\ UNCHANGED proc
             ELSE /\ Goto(s, "grace")
                  /\ proc' \in {proc, [proc EXCEPT ![s] = "killed"]}
    /\ UNCHANGED <<row, network, runningScripts, unread, due, faults, bounds>>

\* A mutated form: a process that ignores terminate() is left alone.
GraceWithoutKill(s) ==
    /\ at[s] = "grace"
    /\ Goto(s, "wrapping")
    /\ UNCHANGED <<row, network, proc, runningScripts, unread, due, timedOut, faults, bounds>>

\* It has ended within SCRIPT_KILL_GRACE, or is killed.
GraceOver(s) ==
    /\ at[s] = "grace"
    /\ proc' = IF Ended(s) THEN proc ELSE [proc EXCEPT ![s] = "killed"]
    /\ Goto(s, "wrapping")
    /\ UNCHANGED <<row, network, runningScripts, unread, due, timedOut, faults, bounds>>

\* _stop_overrunning returns early: terminate() or, the grace over, kill()
\* raises an OSError.
StopFails(s) ==
    /\ \/ at[s] = "waiting" /\ s \in due
       \/ at[s] = "grace"
    /\ ~Ended(s) /\ FaultsLeft
    /\ timedOut' = timedOut \cup {s}
    /\ stopFailed' = stopFailed \cup {s}
    /\ Goto(s, "wrapping")
    /\ UNCHANGED <<row, network, proc, runningScripts, unread, due, logFailed, bounds>>

\* A mutated form: no last read.
NoLastRead(s) ==
    /\ at[s] = "wrapping"
    /\ Goto(s, "draining")
    /\ UNCHANGED <<row, network, proc, runningScripts, unread, due, timedOut, faults, bounds>>

\* The finally clause: one last read, of a log that may not be readable; a
\* send that raises is ignored.
LastRead(s) ==
    /\ at[s] = "wrapping"
    /\ IF s \in unread /\ ~LinkIs("broken")
       THEN Say(s, "output") /\ unread' = unread \ {s}
       ELSE UNCHANGED <<up, unread>>
    /\ Goto(s, "draining")
    /\ UNCHANGED <<row, inbox, conn, link, stopping, proc, runningScripts, due, timedOut, faults, bounds>>

LastReadFails(s) ==
    /\ at[s] = "wrapping" /\ s \in unread /\ FaultsLeft
    /\ logFailed' = logFailed \cup {s}
    /\ Goto(s, "draining")
    /\ UNCHANGED <<row, network, proc, runningScripts, unread, due, timedOut, stopFailed, bounds>>

\* A process that has not ended has the exit code None, which is not 0.
Verdict(s) ==
    IF s \in timedOut THEN "timeout"
    ELSE IF proc[s] = "exited" THEN "success"
    ELSE "error"

Report(s) ==
    /\ at[s] = "draining"
    /\ runningScripts' = runningScripts \ {s}
    /\ Say(s, Verdict(s))
    /\ Goto(s, "reporting")
    /\ UNCHANGED <<row, inbox, conn, link, stopping, proc, unread, due, timedOut, faults, bounds>>

\* A mutated form: a report that may not have gone out is repeated.
ReportedAgain(s) ==
    /\ at[s] = "reporting"
    /\ Goto(s, "draining")
    /\ UNCHANGED <<row, network, proc, runningScripts, unread, due, timedOut, faults, bounds>>

Reported(s) ==
    /\ at[s] = "reporting"
    /\ Goto(s, "done")
    /\ UNCHANGED <<row, network, proc, runningScripts, unread, due, timedOut, faults, bounds>>

TailStep(s) ==
    Poll(s) \/ Polled(s) \/ Wait(s) \/ GraceOver(s) \/ LastRead(s) \/ Report(s) \/ Reported(s)

TailFault(s) == PollFails(s) \/ StopFails(s) \/ LastReadFails(s)

-----------------------------------------------------------------------------
\* The script itself, and time.

WriteLog(s) ==
    /\ proc[s] = "running"
    /\ prints < MaxPrints /\ prints' = prints + 1
    /\ unread' = unread \cup {s}
    /\ UNCHANGED <<row, network, at, proc, runningScripts, due, timedOut, faults, terminates, breaks, crashes>>

Exit(s, how) ==
    /\ proc[s] = "running"
    /\ proc' = [proc EXCEPT ![s] = how]
    /\ UNCHANGED <<row, network, at, runningScripts, unread, due, timedOut, faults, bounds>>

Overrun(s) ==
    /\ at[s] \in Tailing /\ s \notin due
    /\ due' = due \cup {s}
    /\ UNCHANGED <<row, network, at, proc, runningScripts, unread, timedOut, faults, bounds>>

-----------------------------------------------------------------------------
\* Sessions: main_loop, _run_session, connection.close.

Connect(c) ==
    /\ conn = None /\ ~stopping /\ link[c] = "none"
    /\ conn' = c
    /\ link' = [link EXCEPT ![c] = "up"]
    /\ UNCHANGED <<row, inbox, up, stopping, script, faults, bounds>>

\* What the connection had not delivered by then is lost, on either side.
Lose(c, state) ==
    /\ link' = [link EXCEPT ![c] = state]
    /\ \E n \in 0..Len(up[c]) : up' = [up EXCEPT ![c] = SubSeq(@, 1, n)]

\* An end of file, or an error that is a ConnectionError.
Drop ==
    /\ LinkIs("up")
    /\ Lose(conn, "down")
    /\ inbox' \in {inbox, <<>>}
    /\ UNCHANGED <<row, conn, stopping, script, faults, bounds>>

\* Any other OSError, a timeout or a TLS error: send, receive and close raise.
Break ==
    /\ LinkIs("up")
    /\ breaks < MaxBreaks /\ breaks' = breaks + 1
    /\ Lose(conn, "broken")
    /\ inbox' = <<>>
    /\ UNCHANGED <<row, conn, stopping, script, faults, prints, terminates, crashes>>

\* The listener has read the last command: close() and, later, connect().
SessionOver ==
    /\ LinkIs("down") /\ inbox = <<>> /\ ~Busy /\ ~stopping
    /\ conn' = None
    /\ UNCHANGED <<row, inbox, up, link, stopping, script, faults, bounds>>

\* Nothing guards execute_script: an OSError from its files ends the listener,
\* and with it the session.
PrepareRaises(s) ==
    /\ at[s] = "preparing" /\ ~LinkIs("broken")
    /\ crashes < MaxCrashes /\ crashes' = crashes + 1
    /\ Goto(s, "done")
    /\ link' = [link EXCEPT ![conn] = "down"]
    /\ conn' = None /\ inbox' = <<>>
    /\ UNCHANGED <<row, up, stopping, proc, runningScripts, unread, due, timedOut,
                   faults, prints, terminates, breaks>>

\* The process that was the agent is gone; the scripts' processes are not.
Gone(s) == at[s] # "none" /\ (at[s] = "done" => proc[s] = "running")

AgentDies ==
    /\ conn' = None /\ inbox' = <<>> /\ stopping' = FALSE
    /\ at' = [s \in Ids |-> IF Gone(s) THEN "lost" ELSE at[s]]
    /\ runningScripts' = {}
    /\ UNCHANGED <<row, proc, unread, due, timedOut, faults, prints, terminates, breaks>>

LinkDies == IF LinkIs("up") THEN Lose(conn, "down") ELSE UNCHANGED <<up, link>>

\* The listener's exception ends the session, and close() raises in turn.
CloseRaises ==
    /\ LinkIs("broken") /\ \A s \in Ids : at[s] # "preparing"
    /\ AgentDies
    /\ UNCHANGED <<up, link, crashes>>

Crash ==
    /\ crashes < MaxCrashes /\ crashes' = crashes + 1
    /\ AgentDies
    /\ LinkDies

\* KeyboardInterrupt: every task is cancelled.  A tail runs its finally clause;
\* a second cancellation, in there, ends it at once.
Cancelled(s) ==
    IF at[s] \in {"asleep", "sending", "waiting", "grace"} THEN "wrapping"
    ELSE IF at[s] \in {"none", "lost"} THEN at[s]
    ELSE IF proc[s] = "running" THEN "lost"
    ELSE "done"

Interrupt ==
    /\ ~stopping
    /\ crashes < MaxCrashes /\ crashes' = crashes + 1
    /\ stopping' = TRUE
    /\ at' = [s \in Ids |-> Cancelled(s)]
    /\ UNCHANGED <<row, inbox, up, conn, link, proc, runningScripts, unread, due, timedOut,
                   faults, prints, terminates, breaks>>

Interrupted ==
    /\ stopping /\ \A s \in Ids : at[s] \notin Tailing
    /\ AgentDies
    /\ LinkDies
    /\ UNCHANGED crashes

-----------------------------------------------------------------------------
\* The Engine.

\* EXECUTE_SCRIPT is sent once, and is not worth queueing.
Dispatch(s) ==
    /\ row[s] = "none"
    /\ \/ /\ LinkIs("up")
          /\ row' = [row EXCEPT ![s] = "dispatched"]
          /\ inbox' = Append(inbox, [do |-> "execute", of |-> s])
       \/ /\ row' \in {[row EXCEPT ![s] = "dispatched"], [row EXCEPT ![s] = "undeliverable"]}
          /\ UNCHANGED inbox
    /\ UNCHANGED <<up, conn, link, stopping, script, faults, bounds>>

DispatchTerminate(s) ==
    /\ row[s] # "none" /\ LinkIs("up")
    /\ terminates < MaxTerminates /\ terminates' = terminates + 1
    /\ inbox' = Append(inbox, [do |-> "terminate", of |-> s])
    /\ UNCHANGED <<row, up, conn, link, stopping, script, faults, prints, breaks, crashes>>

\* _persist_command_accepted, _persist_command_complete; output is relayed only.
Persisted(m) ==
    IF m.says = "output" THEN row
    ELSE [row EXCEPT ![m.of] = IF m.says = "accepted" THEN "running" ELSE m.says]

\* A mutated form: messages of one connection are handled side by side.
HandleAny(c) ==
    /\ \E k \in DOMAIN up[c] :
          /\ row' = Persisted(up[c][k])
          /\ up' = [up EXCEPT ![c] = SubSeq(@, 1, k - 1) \o SubSeq(@, k + 1, Len(@))]
    /\ UNCHANGED <<inbox, conn, link, stopping, script, faults, bounds>>

\* A handler reads on when its connection is dead, next to a newer one.
Handle(c) ==
    /\ up[c] # <<>>
    /\ row' = Persisted(Head(up[c]))
    /\ up' = [up EXCEPT ![c] = Tail(@)]
    /\ UNCHANGED <<inbox, conn, link, stopping, script, faults, bounds>>

-----------------------------------------------------------------------------
ScriptStep(s) ==
    \/ Execute(s) \/ Terminate(s) \/ Reject(s) \/ Launch(s) \/ Answered(s)
    \/ TailStep(s) \/ TailFault(s)
    \/ WriteLog(s) \/ Exit(s, "exited") \/ Exit(s, "failed") \/ Overrun(s)
    \/ PrepareRaises(s)
    \/ Dispatch(s) \/ DispatchTerminate(s)

ScriptsNext ==
    \/ \E s \in Ids : ScriptStep(s)
    \/ \E c \in Conns : Connect(c) \/ Handle(c)
    \/ Drop \/ Break \/ SessionOver \/ CloseRaises
    \/ Crash \/ Interrupt \/ Interrupted

ScriptsSpec == ScriptsInit /\ [][ScriptsNext]_vars

(***************************************************************************)
(* The loop runs its tasks, a validation and a send end, deadlines pass,   *)
(* and the Engine's handlers read on.  A script need not print or end, nor *)
(* does anybody have to connect or send a command.                         *)
(***************************************************************************)
ScriptsFairSpec ==
    /\ ScriptsSpec
    /\ \A s \in Ids :
          /\ WF_vars(TailStep(s)) /\ WF_vars(Overrun(s))
          /\ WF_vars(Reject(s) \/ Launch(s)) /\ WF_vars(Answered(s))
          /\ WF_vars(Execute(s) \/ Terminate(s))
    /\ \A c \in Conns : WF_vars(Handle(c))
    /\ WF_vars(SessionOver) /\ WF_vars(CloseRaises) /\ WF_vars(Interrupted)

-----------------------------------------------------------------------------
\* Properties.

(***************************************************************************)
(* A script that runs can be stopped by its command_id (README, "Script    *)
(* Execution Model", 5): from its launch until it has ended it is in       *)
(* running_scripts, whatever its tail and other commands are doing.  What  *)
(* takes it out of reach is the end of the agent, in a session that        *)
(* raises, an interrupt or a crash; and, under a live and connected agent, *)
(* the report of a tail that could not open its log (the finally clause    *)
(* pops the entry of a process nobody stopped) or stop it at its cap.      *)
(***************************************************************************)
Terminable ==
    \A s \in Ids : proc[s] = "running" =>
        \/ s \in runningScripts
        \/ at[s] = "lost" \/ LinkIs("broken") \/ stopping
        \/ s \in logFailed \cup stopFailed /\ at[s] \in {"reporting", "done"}

\* Where a message stands in a script's account.
Place(m) == IF m.says = "accepted" THEN 1 ELSE IF m.says = "output" THEN 2 ELSE 3

(***************************************************************************)
(* What a script printed up to its end was sent before its report (the     *)
(* finally clause: "output written between the final poll and exit would   *)
(* otherwise be lost"), unless sending itself raises, the log cannot be    *)
(* opened for the last read, or the script may have written on after it:   *)
(* the agent is being interrupted, or the stop at the cap failed.          *)
(***************************************************************************)
NothingUnsent ==
    \A s \in Ids :
        /\ at[s] = "reporting" /\ Ended(s)
        /\ ~LinkIs("broken") /\ ~stopping /\ s \notin logFailed \cup stopFailed
        => s \notin unread

(***************************************************************************)
(* On a connection a script's ack comes before its output, that before its *)
(* one COMMAND_COMPLETE, after which there is no more word of it; and no   *)
(* report leaves output behind that the tail could read.                   *)
(***************************************************************************)
WordsInOrder ==
    /\ NothingUnsent
    /\ \A c \in Conns : \A j, k \in DOMAIN up[c] :
           up[c][j].of = up[c][k].of /\ j < k =>
               /\ Place(up[c][j]) <= Place(up[c][k])
               /\ Place(up[c][j]) # 2 => Place(up[c][j]) # Place(up[c][k])

(***************************************************************************)
(* A final status in the command history tells what happened: the script   *)
(* is over, it succeeded only by itself, and it timed out only at its cap. *)
(* Of a process that runs on, what is reported is never a success; it is   *)
(* an error ("Exited with code None") by a tail that could not open its    *)
(* log, a timeout by one that could not stop it at its cap, or what an     *)
(* interrupted agent says of the processes it leaves behind.               *)
(***************************************************************************)
Truthful ==
    \A s \in Ids : row[s] \in Verdicts =>
        /\ proc[s] = "running" =>
              /\ row[s] # "success"
              /\ \/ stopping \/ at[s] = "lost"
                 \/ row[s] = "error" /\ s \in logFailed
                 \/ row[s] = "timeout" /\ s \in stopFailed
        /\ row[s] = "success" => proc[s] = "exited"
        /\ row[s] = "timeout" => s \in due

(***************************************************************************)
(* A final status is overwritten only by what a connection the agent has   *)
(* left still had to say, never by the connection it is on.                *)
(***************************************************************************)
FinalOnThisConnection ==
    [][\A s \in Ids : row[s] \in Verdicts /\ row'[s] # row[s] =>
          \E c \in Conns \ {conn} : up'[c] # up[c]]_vars

(***************************************************************************)
(* A script that never ends by itself is stopped (tail_log_and_report:     *)
(* "one that overruns is stopped"), however its session fares, unless its  *)
(* agent is gone, or the tail that watches its deadline came to its end on *)
(* a log it could not open or a process it could not signal.               *)
(***************************************************************************)
RunEnds ==
    \A s \in Ids :
        proc[s] = "running" ~>
            \/ proc[s] # "running" \/ at[s] = "lost"
            \/ at[s] = "done" /\ s \in logFailed \cup stopFailed

(***************************************************************************)
(* A script shown as running whose process is over comes to its final      *)
(* status while its agent stays connected and is not interrupted.          *)
(***************************************************************************)
Unreported == Tailing \ {"reporting"}

VerdictArrives ==
    \A s \in Ids, c \in Conns :
        row[s] = "running" /\ Ended(s) /\ at[s] \in Unreported /\ conn = c
        ~> row[s] \in Verdicts \/ ~LinkIs("up") \/ conn # c \/ stopping

(***************************************************************************)
(* executor.py, tail_log_and_report: "one that overruns is stopped rather  *)
(* than left running on a lab machine indefinitely".                       *)
(***************************************************************************)
StoppedAtCap == \A s \in Ids : proc[s] = "running" ~> proc[s] # "running"
=============================================================================
