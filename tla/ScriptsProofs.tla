--------------------------- MODULE ScriptsProofs ----------------------------
(***************************************************************************)
(* Theorems of Scripts, for any scripts, connections and bounds.           *)
(***************************************************************************)
EXTENDS Scripts, SequenceTheorems, TLAPS

USE DEF faults

-----------------------------------------------------------------------------
\* Types.

LEMMA CommandTypes ==
    \A s \in Ids : /\ [do |-> "execute", of |-> s] \in Commands
                   /\ [do |-> "terminate", of |-> s] \in Commands
BY DEF Commands

\* Saying a word adds a message, or nothing.
LEMMA SayType ==
    ASSUME ScriptsTypeOK, NEW s \in Ids, NEW word \in {"accepted", "output"} \cup Verdicts,
           Say(s, word)
    PROVE  up' \in [Conns -> Seq(Messages)]
<1>1. [of |-> s, says |-> word] \in Messages
  BY DEF Messages
<1>2. CASE LinkIs("up")
  <2>1. conn \in Conns
    BY <1>2 DEF LinkIs, ScriptsTypeOK
  <2>2. Append(up[conn], [of |-> s, says |-> word]) \in Seq(Messages)
    BY <1>1, <2>1, AppendProperties DEF ScriptsTypeOK
  <2> QED BY <1>2, <2>1, <2>2 DEF Say, ScriptsTypeOK
<1>3. CASE ~LinkIs("up")
  BY <1>3 DEF Say, ScriptsTypeOK
<1> QED BY <1>2, <1>3

\* What is left of a connection's messages when it is lost.
LEMMA LoseType ==
    ASSUME ScriptsTypeOK, NEW c \in Conns, NEW state \in {"down", "broken"}, Lose(c, state)
    PROVE  /\ up' \in [Conns -> Seq(Messages)]
           /\ link' \in [Conns -> {"none", "up", "down", "broken"}]
<1>1. PICK n \in 0..Len(up[c]) : up' = [up EXCEPT ![c] = SubSeq(up[c], 1, n)]
  BY DEF Lose
<1>2. up[c] \in Seq(Messages)
  BY DEF ScriptsTypeOK
<1>3. SubSeq(up[c], 1, n) \in Seq(Messages)
  BY <1>2
<1> QED BY <1>1, <1>3 DEF Lose, ScriptsTypeOK

LEMMA AgentDiesType ==
    ASSUME ScriptsTypeOK, AgentDies
    PROVE  /\ row' \in [Ids -> {"none", "dispatched", "undeliverable", "running"} \cup Verdicts]
           /\ conn' = None /\ inbox' = <<>> /\ stopping' = FALSE /\ runningScripts' = {}
           /\ at' \in [Ids -> {"none", "done", "lost"}]
           /\ proc' = proc /\ unread' = unread /\ due' = due /\ timedOut' = timedOut
           /\ logFailed' = logFailed /\ stopFailed' = stopFailed
           /\ prints' = prints /\ terminates' = terminates /\ breaks' = breaks
BY DEF AgentDies, ScriptsTypeOK, Gone

LEMMA LinkDiesType ==
    ASSUME ScriptsTypeOK, LinkDies
    PROVE  /\ up' \in [Conns -> Seq(Messages)]
           /\ link' \in [Conns -> {"none", "up", "down", "broken"}]
<1>1. CASE LinkIs("up")
  <2>1. conn \in Conns
    BY <1>1 DEF LinkIs, ScriptsTypeOK
  <2> QED BY <1>1, <2>1, LoseType DEF LinkDies
<1>2. CASE ~LinkIs("up")
  BY <1>2 DEF LinkDies, ScriptsTypeOK
<1> QED BY <1>1, <1>2

LEMMA ScriptsTypeInit == ScriptsInit => ScriptsTypeOK
<1> SUFFICES ASSUME ScriptsInit PROVE ScriptsTypeOK
  OBVIOUS
<1>1. inbox \in Seq(Commands) /\ up \in [Conns -> Seq(Messages)]
  BY DEF ScriptsInit
<1>2. /\ prints \in 0..MaxPrints /\ terminates \in 0..MaxTerminates
      /\ breaks \in 0..MaxBreaks /\ crashes \in 0..MaxCrashes
  BY ScriptsAssumption DEF ScriptsInit
<1> QED BY <1>1, <1>2 DEF ScriptsInit, ScriptsTypeOK

\* A command that is read leaves the inbox.
LEMMA ReadsType ==
    ASSUME ScriptsTypeOK, NEW command, Reads(command)
    PROVE  inbox' \in Seq(Commands) /\ conn \in Conns /\ ~stopping
BY DEF Reads, ScriptsTypeOK

LEMMA TailType ==
    ASSUME ScriptsTypeOK, NEW s \in Ids, TailStep(s)
    PROVE  ScriptsTypeOK'
<1> USE DEF Goto, Tailing, WindingUp
<1>1. CASE Poll(s)
  <2>1. up' \in [Conns -> Seq(Messages)]
    BY <1>1, SayType DEF Poll, ScriptsTypeOK
  <2> QED BY <1>1, <2>1 DEF Poll, ScriptsTypeOK, bounds
<1>2. CASE Polled(s)
  BY <1>2 DEF Polled, ScriptsTypeOK, network, bounds
<1>3. CASE Wait(s)
  BY <1>3 DEF Wait, ScriptsTypeOK, network, bounds
<1>4. CASE GraceOver(s)
  BY <1>4 DEF GraceOver, ScriptsTypeOK, network, bounds
<1>5. CASE LastRead(s)
  <2>1. up' \in [Conns -> Seq(Messages)]
    BY <1>5, SayType DEF LastRead, ScriptsTypeOK
  <2> QED BY <1>5, <2>1 DEF LastRead, ScriptsTypeOK, bounds
<1>6. CASE Report(s)
  <2>1. Verdict(s) \in Verdicts
    BY DEF Verdict, Verdicts
  <2>2. up' \in [Conns -> Seq(Messages)]
    BY <1>6, <2>1, SayType DEF Report
  <2> QED BY <1>6, <2>2 DEF Report, ScriptsTypeOK, bounds
<1>7. CASE Reported(s)
  BY <1>7 DEF Reported, ScriptsTypeOK, network, bounds
<1> QED BY <1>1, <1>2, <1>3, <1>4, <1>5, <1>6, <1>7 DEF TailStep

LEMMA FaultType ==
    ASSUME ScriptsTypeOK, NEW s \in Ids, TailFault(s)
    PROVE  ScriptsTypeOK'
<1> USE DEF Goto, Tailing, WindingUp
<1>1. CASE PollFails(s)
  BY <1>1 DEF PollFails, ScriptsTypeOK, network, bounds
<1>2. CASE StopFails(s)
  <2>1. s \in due
    BY <1>2 DEF StopFails, ScriptsTypeOK
  <2> QED BY <1>2, <2>1 DEF StopFails, ScriptsTypeOK, network, bounds
<1>3. CASE LastReadFails(s)
  BY <1>3 DEF LastReadFails, ScriptsTypeOK, network, bounds
<1> QED BY <1>1, <1>2, <1>3 DEF TailFault

LEMMA CommandType ==
    ASSUME ScriptsTypeOK, NEW s \in Ids,
           \/ Execute(s) \/ Terminate(s) \/ Reject(s) \/ Launch(s) \/ Answered(s)
           \/ Dispatch(s) \/ DispatchTerminate(s) \/ PrepareRaises(s)
    PROVE  ScriptsTypeOK'
<1> USE DEF Goto, Tailing, WindingUp
<1>1. CASE Execute(s)
  <2>1. inbox' \in Seq(Commands) /\ conn \in Conns /\ ~stopping
    BY <1>1, ReadsType DEF Execute
  <2> QED BY <1>1, <2>1, ScriptsAssumption DEF Execute, ScriptsTypeOK, bounds
<1>2. CASE Terminate(s)
  <2>1. inbox' \in Seq(Commands) /\ conn \in Conns
    BY <1>2, ReadsType DEF Terminate
  <2>2. proc' \in [Ids -> {"none", "running", "exited", "failed", "killed"}]
    BY <1>2 DEF Terminate, ScriptsTypeOK
  <2> QED BY <1>2, <2>1, <2>2, ScriptsAssumption DEF Terminate, ScriptsTypeOK, bounds
<1>3. CASE Reject(s)
  <2>1. up' \in [Conns -> Seq(Messages)]
    BY <1>3, SayType DEF Reject, Verdicts
  <2> QED BY <1>3, <2>1 DEF Reject, ScriptsTypeOK, bounds
<1>4. CASE Launch(s)
  <2>1. up' \in [Conns -> Seq(Messages)]
    BY <1>4, SayType DEF Launch
  <2> QED BY <1>4, <2>1 DEF Launch, ScriptsTypeOK, bounds
<1>5. CASE Answered(s)
  BY <1>5 DEF Answered, ScriptsTypeOK, network, bounds
<1>6. CASE Dispatch(s)
  <2>1. inbox' \in Seq(Commands) /\ (conn = None => inbox' = <<>>)
    <3>1. CASE UNCHANGED inbox
      BY <3>1 DEF ScriptsTypeOK
    <3>2. CASE LinkIs("up") /\ inbox' = Append(inbox, [do |-> "execute", of |-> s])
      <4>1. conn # None
        BY <3>2 DEF LinkIs
      <4> QED BY <3>2, <4>1, CommandTypes, AppendProperties DEF ScriptsTypeOK
    <3> QED BY <1>6, <3>1, <3>2 DEF Dispatch
  <2>2. row' \in [Ids -> {"none", "dispatched", "undeliverable", "running"} \cup Verdicts]
    BY <1>6 DEF Dispatch, ScriptsTypeOK
  <2> QED BY <1>6, <2>1, <2>2 DEF Dispatch, ScriptsTypeOK, script, bounds
<1>7. CASE DispatchTerminate(s)
  <2>1. inbox' \in Seq(Commands)
    BY <1>7, CommandTypes, AppendProperties DEF DispatchTerminate, ScriptsTypeOK
  <2>2. conn # None
    BY <1>7 DEF DispatchTerminate, LinkIs
  <2>3. terminates' \in 0..MaxTerminates
    BY <1>7, ScriptsAssumption DEF DispatchTerminate, ScriptsTypeOK
  <2> QED BY <1>7, <2>1, <2>2, <2>3 DEF DispatchTerminate, ScriptsTypeOK, script
<1>8. CASE PrepareRaises(s)
  <2>1. link' \in [Conns -> {"none", "up", "down", "broken"}]
    BY <1>8 DEF PrepareRaises, ScriptsTypeOK
  <2>2. crashes' \in 0..MaxCrashes
    BY <1>8, ScriptsAssumption DEF PrepareRaises, ScriptsTypeOK
  <2>3. conn' = None /\ inbox' = <<>>
    BY <1>8 DEF PrepareRaises
  <2>4. inbox' \in Seq(Commands)
    BY <2>3
  <2> QED BY <1>8, <2>1, <2>2, <2>3, <2>4 DEF PrepareRaises, ScriptsTypeOK
<1> QED BY <1>1, <1>2, <1>3, <1>4, <1>5, <1>6, <1>7, <1>8

LEMMA ProcessType ==
    ASSUME ScriptsTypeOK, NEW s \in Ids,
           WriteLog(s) \/ Exit(s, "exited") \/ Exit(s, "failed") \/ Overrun(s)
    PROVE  ScriptsTypeOK'
<1>1. CASE WriteLog(s)
  BY <1>1, ScriptsAssumption DEF WriteLog, ScriptsTypeOK, network
<1>2. ASSUME NEW how \in {"exited", "failed"}, Exit(s, how)
      PROVE  ScriptsTypeOK'
  <2>1. proc' \in [Ids -> {"none", "running", "exited", "failed", "killed"}]
    BY <1>2 DEF Exit, ScriptsTypeOK
  <2> QED BY <1>2, <2>1 DEF Exit, ScriptsTypeOK, network, bounds
<1>3. CASE Overrun(s)
  BY <1>3 DEF Overrun, ScriptsTypeOK, network, bounds
<1> QED BY <1>1, <1>2, <1>3

LEMMA HandleType ==
    ASSUME ScriptsTypeOK, NEW c \in Conns, Handle(c)
    PROVE  ScriptsTypeOK'
<1>1. up[c] \in Seq(Messages) /\ up[c] # <<>>
  BY DEF Handle, ScriptsTypeOK
<1>2. Head(up[c]) \in Messages /\ Tail(up[c]) \in Seq(Messages)
  BY <1>1, HeadTailProperties
<1>3. up' \in [Conns -> Seq(Messages)]
  BY <1>2 DEF Handle, ScriptsTypeOK
<1>4. row' \in [Ids -> {"none", "dispatched", "undeliverable", "running"} \cup Verdicts]
  BY <1>2 DEF Handle, Persisted, Messages, ScriptsTypeOK
<1> QED BY <1>3, <1>4 DEF Handle, ScriptsTypeOK, script, bounds

LEMMA SessionType ==
    ASSUME ScriptsTypeOK,
           \/ \E c \in Conns : Connect(c)
           \/ Drop \/ Break \/ SessionOver \/ CloseRaises
           \/ Crash \/ Interrupt \/ Interrupted
    PROVE  ScriptsTypeOK'
<1>1. ASSUME NEW c \in Conns, Connect(c) PROVE ScriptsTypeOK'
  BY <1>1 DEF Connect, ScriptsTypeOK, script, bounds
<1>2. CASE Drop
  <2>1. conn \in Conns
    BY <1>2 DEF Drop, LinkIs, ScriptsTypeOK
  <2>2. /\ up' \in [Conns -> Seq(Messages)]
        /\ link' \in [Conns -> {"none", "up", "down", "broken"}]
    BY <1>2, <2>1, LoseType DEF Drop
  <2>3. inbox' \in Seq(Commands)
    <3>1. inbox' = inbox \/ inbox' = <<>>
      BY <1>2 DEF Drop
    <3>2. inbox \in Seq(Commands)
      BY DEF ScriptsTypeOK
    <3>3. <<>> \in Seq(Commands)
      BY EmptySeq
    <3> QED BY <3>1, <3>2, <3>3, Zenon
  <2>4. UNCHANGED <<row, conn, stopping, script, faults, bounds>> /\ conn # None
    BY <1>2, <2>1, ScriptsAssumption DEF Drop
  <2> QED BY <2>1, <2>2, <2>3, <2>4 DEF ScriptsTypeOK, script, bounds
<1>3. CASE Break
  <2>1. conn \in Conns
    BY <1>3 DEF Break, LinkIs, ScriptsTypeOK
  <2>2. /\ up' \in [Conns -> Seq(Messages)]
        /\ link' \in [Conns -> {"none", "up", "down", "broken"}]
    BY <1>3, <2>1, LoseType DEF Break
  <2>3. breaks' \in 0..MaxBreaks
    BY <1>3, ScriptsAssumption DEF Break, ScriptsTypeOK
  <2> QED BY <1>3, <2>1, <2>2, <2>3 DEF Break, ScriptsTypeOK, script
<1>4. CASE SessionOver
  BY <1>4 DEF SessionOver, ScriptsTypeOK, script, bounds
<1>5. ASSUME AgentDies, crashes' \in 0..MaxCrashes,
             up' \in [Conns -> Seq(Messages)],
             link' \in [Conns -> {"none", "up", "down", "broken"}]
      PROVE  ScriptsTypeOK'
  <2>1. inbox' \in Seq(Commands)
    BY <1>5 DEF AgentDies
  <2> QED BY <1>5, <2>1, AgentDiesType DEF ScriptsTypeOK, Tailing, WindingUp
<1>6. CASE CloseRaises
  BY <1>5, <1>6 DEF CloseRaises, ScriptsTypeOK
<1>7. CASE Crash
  <2>1. crashes' \in 0..MaxCrashes
    BY <1>7, ScriptsAssumption DEF Crash, ScriptsTypeOK
  <2> QED BY <1>5, <1>7, <2>1, LinkDiesType DEF Crash
<1>8. CASE Interrupt
  <2>1. crashes' \in 0..MaxCrashes
    BY <1>8, ScriptsAssumption DEF Interrupt, ScriptsTypeOK
  <2>2. at' \in [Ids -> {"none", "done", "lost", "wrapping"}]
    BY <1>8 DEF Interrupt, Cancelled
  <2>3. \A s \in Ids : at'[s] \in {"none", "done", "lost", "wrapping"}
    BY <2>2
  <2>4. stopping' \in BOOLEAN
    BY <1>8 DEF Interrupt
  <2> QED BY <1>8, <2>1, <2>2, <2>3, <2>4 DEF Interrupt, ScriptsTypeOK, Tailing, WindingUp
<1>9. CASE Interrupted
  <2>1. crashes' \in 0..MaxCrashes
    BY <1>9 DEF Interrupted, ScriptsTypeOK
  <2> QED BY <1>5, <1>9, <2>1, LinkDiesType DEF Interrupted
<1> QED BY <1>1, <1>2, <1>3, <1>4, <1>6, <1>7, <1>8, <1>9

LEMMA ScriptsTypeStep == ScriptsTypeOK /\ [ScriptsNext]_vars => ScriptsTypeOK'
<1> SUFFICES ASSUME ScriptsTypeOK, [ScriptsNext]_vars PROVE ScriptsTypeOK'
  OBVIOUS
<1>1. ASSUME NEW s \in Ids, ScriptStep(s) PROVE ScriptsTypeOK'
  BY <1>1, TailType, FaultType, CommandType, ProcessType DEF ScriptStep
<1>2. CASE UNCHANGED vars
  BY <1>2 DEF vars, network, script, bounds, ScriptsTypeOK
<1> QED BY <1>1, <1>2, HandleType, SessionType DEF ScriptsNext

(***************************************************************************)
(* A script that is under way has its entry in running_scripts, an agent   *)
(* that is interrupted does nothing but wind its tails up, and without a   *)
(* connection no command is left to read, for any number of scripts and    *)
(* connections.                                                            *)
(***************************************************************************)
THEOREM ScriptsTypeCorrect == ScriptsSpec => []ScriptsTypeOK
BY ScriptsTypeInit, ScriptsTypeStep, PTL DEF ScriptsSpec

-----------------------------------------------------------------------------
\* The agent and its processes.  A process that runs is in the hands of a task
\* that is not over, or nobody's; a script is executed once.

Tended == {"accepting", "asleep", "sending", "waiting", "grace"}

\* Of a script whose process runs: its tail ends, or has ended, on a log it
\* could not open or, once it was past its cap, on a failing stop.
Abandoned(s) ==
    \/ /\ at[s] \in {"wrapping", "draining"} /\ s \in runningScripts
       /\ IF s \in timedOut THEN s \in stopFailed ELSE s \in logFailed
    \/ at[s] \in {"reporting", "done"} /\ s \in logFailed \cup stopFailed

Untimed == {"none", "preparing", "rejecting", "accepting", "asleep", "sending", "waiting"}

AgentInv ==
    /\ \A s \in Ids : proc[s] = "running" =>
           at[s] \in Tended \cup {"lost"} \/ LinkIs("broken") \/ stopping \/ Abandoned(s)
    /\ \A s \in Ids : at[s] \in Untimed => s \notin timedOut
    /\ \A s \in Ids : at[s] \in {"none", "preparing", "rejecting"} => proc[s] = "none"

InboxInv ==
    /\ \A s \in Ids : row[s] = "none" => at[s] = "none"
    /\ \A i \in DOMAIN inbox : inbox[i].do = "execute" =>
           /\ row[inbox[i].of] # "none" /\ at[inbox[i].of] = "none"
           /\ \A j \in DOMAIN inbox : inbox[j] = inbox[i] => j = i

\* A command that is read is the first of the inbox, and the others move up.
LEMMA ReadsInbox ==
    ASSUME ScriptsTypeOK, NEW command, Reads(command)
    PROVE  /\ 1 \in DOMAIN inbox /\ inbox[1] = command
           /\ \A i \in DOMAIN inbox' : i + 1 \in DOMAIN inbox /\ inbox'[i] = inbox[i + 1]
                                     /\ i + 1 # 1
<1>1. inbox \in Seq(Commands) /\ inbox # <<>> /\ inbox' = Tail(inbox) /\ Head(inbox) = command
  BY DEF Reads, ScriptsTypeOK
<1> QED BY <1>1, LenProperties, HeadTailProperties

\* Every command in the inbox is about a script.
LEMMA InboxOf == ScriptsTypeOK => \A i \in DOMAIN inbox : inbox[i] \in Commands /\ inbox[i].of \in Ids
<1>1. \A command \in Commands : command.of \in Ids
  BY DEF Commands
<1>2. inbox \in Seq(Commands) => \A i \in DOMAIN inbox : inbox[i] \in Commands
  OBVIOUS
<1> QED BY <1>1, <1>2 DEF ScriptsTypeOK

\* The inbox after every other step: as it was, empty, or with one command more.
LEMMA InboxKept ==
    ASSUME InboxInv, inbox' = inbox \/ inbox' = <<>>,
           \A s \in Ids : /\ row[s] # "none" => row'[s] # "none"
                          /\ row'[s] = "none" => row[s] = "none"
                          /\ at[s] = "none" <=> at'[s] = "none",
           ScriptsTypeOK
    PROVE  InboxInv'
<1>1. \A i \in DOMAIN inbox : inbox[i].of \in Ids
  BY InboxOf
<1>2. CASE inbox' = inbox
  BY <1>1, <1>2 DEF InboxInv
<1>3. CASE inbox' = <<>>
  BY <1>3 DEF InboxInv
<1> QED BY <1>2, <1>3

LEMMA AgentInit == ScriptsInit => AgentInv /\ InboxInv
BY DEF ScriptsInit, AgentInv, InboxInv, Untimed

\* An agent that dies takes nobody's process with it.
LEMMA AgentDiesAgent ==
    ASSUME ScriptsTypeOK, AgentInv, InboxInv, AgentDies
    PROVE  AgentInv' /\ InboxInv'
<1>1. \A s \in Ids : proc[s] = "running" => at'[s] = "lost"
  BY DEF AgentDies, Gone, AgentInv
<1>2. \A s \in Ids : at'[s] \in {"none", "done", "lost"} /\ (at'[s] = "none" <=> at[s] = "none")
  BY DEF AgentDies, Gone, ScriptsTypeOK
<1>3. AgentInv'
  BY <1>1, <1>2 DEF AgentDies, AgentInv, Untimed
<1>4. InboxInv'
  BY <1>2, InboxKept DEF AgentDies
<1> QED BY <1>3, <1>4

LEMMA TailAgent ==
    ASSUME ScriptsTypeOK, AgentInv, InboxInv, NEW s \in Ids, TailStep(s) \/ TailFault(s)
    PROVE  AgentInv' /\ InboxInv'
<1>1. /\ UNCHANGED <<row, inbox, conn, link, stopping>>
      /\ \E place \in {"asleep", "sending", "waiting", "grace", "wrapping", "draining",
                       "reporting", "done"} : at' = [at EXCEPT ![s] = place]
      /\ at[s] \notin {"none", "preparing", "rejecting"}
  BY DEF TailStep, Poll, Polled, Wait, GraceOver, LastRead, Report, Reported, Goto, network,
         TailFault, PollFails, StopFails, LastReadFails
<1>2. /\ proc' = proc \/ proc' = [proc EXCEPT ![s] = "killed"]
      /\ runningScripts' = runningScripts \/ runningScripts' = runningScripts \ {s}
      /\ timedOut' = timedOut \/ timedOut' = timedOut \cup {s}
      /\ logFailed' = logFailed \/ logFailed' = logFailed \cup {s}
      /\ stopFailed' = stopFailed \/ stopFailed' = stopFailed \cup {s}
  BY DEF TailStep, Poll, Polled, Wait, GraceOver, LastRead, Report, Reported,
         TailFault, PollFails, StopFails, LastReadFails
<1>3. \/ at'[s] \in Tended \/ proc'[s] # "running" \/ LinkIs("broken") \/ stopping
      \/ Abandoned(s)'
  <2> USE DEF Goto, Tended, Ended, Abandoned, AgentInv, ScriptsTypeOK
  <2>1. CASE Poll(s) \/ Polled(s) \/ Wait(s) \/ GraceOver(s)
    BY <2>1 DEF Poll, Polled, Wait, GraceOver
  <2>2. CASE LastRead(s)
    BY <2>2 DEF LastRead
  <2>3. CASE Report(s) \/ Reported(s)
    BY <2>3 DEF Report, Reported
  <2>4. CASE PollFails(s)
    BY <2>4 DEF PollFails, Untimed, Tailing
  <2>5. CASE StopFails(s)
    BY <2>5 DEF StopFails, Tailing
  <2>6. CASE LastReadFails(s)
    BY <2>6 DEF LastReadFails
  <2> QED BY <2>1, <2>2, <2>3, <2>4, <2>5, <2>6 DEF TailStep, TailFault
<1>4. at'[s] \in Untimed => s \notin timedOut'
  BY DEF TailStep, Poll, Polled, Wait, GraceOver, LastRead, Report, Reported, Goto,
         TailFault, PollFails, StopFails, LastReadFails, Untimed, AgentInv, Ended, ScriptsTypeOK
<1>5. AgentInv'
  <2>1. ASSUME NEW t \in Ids \ {s}, proc'[t] = "running"
        PROVE  \/ at'[t] \in Tended \cup {"lost"} \/ LinkIs("broken")' \/ stopping'
               \/ Abandoned(t)'
    <3>1. at'[t] = at[t] /\ proc'[t] = proc[t]
      BY <1>1, <1>2, <2>1 DEF ScriptsTypeOK
    <3>2. /\ t \in runningScripts' <=> t \in runningScripts
          /\ t \in timedOut' <=> t \in timedOut
          /\ t \in logFailed' <=> t \in logFailed
          /\ t \in stopFailed' <=> t \in stopFailed
      BY <1>2
    <3> QED BY <1>1, <2>1, <3>1, <3>2 DEF AgentInv, Abandoned, LinkIs
  <2>2. \A t \in Ids \ {s} : at'[t] \in Untimed => t \notin timedOut'
    BY <1>1, <1>2 DEF AgentInv, ScriptsTypeOK
  <2>3. \A t \in Ids : at'[t] \in {"none", "preparing", "rejecting"} => proc'[t] = "none"
    BY <1>1, <1>2 DEF AgentInv, ScriptsTypeOK
  <2>4. LinkIs("broken")' <=> LinkIs("broken")
    BY <1>1 DEF LinkIs
  <2> QED BY <1>1, <1>3, <1>4, <2>1, <2>2, <2>3, <2>4 DEF AgentInv
<1>6. InboxInv'
  BY <1>1, InboxKept DEF ScriptsTypeOK
<1> QED BY <1>5, <1>6

LEMMA CommandAgent ==
    ASSUME ScriptsTypeOK, AgentInv, InboxInv, NEW s \in Ids,
           \/ Execute(s) \/ Terminate(s) \/ Reject(s) \/ Launch(s) \/ Answered(s)
           \/ Dispatch(s) \/ DispatchTerminate(s) \/ PrepareRaises(s)
    PROVE  AgentInv' /\ InboxInv'
<1> USE DEF Goto
<1>1. CASE Execute(s)
  <2>1. /\ 1 \in DOMAIN inbox /\ inbox[1] = [do |-> "execute", of |-> s]
        /\ \A i \in DOMAIN inbox' : i + 1 \in DOMAIN inbox /\ inbox'[i] = inbox[i + 1]
                                  /\ i + 1 # 1
    BY <1>1, ReadsInbox DEF Execute
  <2>2. at[s] = "none" /\ row[s] # "none"
    BY <2>1 DEF InboxInv
  <2>3. AgentInv'
    BY <1>1, <2>2 DEF Execute, AgentInv, ScriptsTypeOK, LinkIs, Tended, Abandoned, Untimed
  <2>4. \A t \in Ids : row'[t] = "none" => at'[t] = "none"
    BY <1>1, <2>2 DEF Execute, InboxInv, ScriptsTypeOK
  <2>5. ASSUME NEW i \in DOMAIN inbox', inbox'[i].do = "execute"
        PROVE  /\ row'[inbox'[i].of] # "none" /\ at'[inbox'[i].of] = "none"
               /\ \A j \in DOMAIN inbox' : inbox'[j] = inbox'[i] => j = i
    <3>1. /\ i + 1 \in DOMAIN inbox /\ inbox'[i] = inbox[i + 1] /\ i + 1 # 1
      BY <2>1
    <3>2. inbox[i + 1] \in Commands
      BY <3>1, LenProperties, ElementOfSeq DEF ScriptsTypeOK
    <3>3. inbox[i + 1] # [do |-> "execute", of |-> s]
      BY <2>1, <2>5, <3>1 DEF InboxInv
    <3>4. inbox[i + 1].of \in Ids \ {s}
      BY <2>5, <3>1, <3>2, <3>3 DEF Commands
    <3>5. row[inbox[i + 1].of] # "none" /\ at[inbox[i + 1].of] = "none"
      BY <2>5, <3>1 DEF InboxInv
    <3>6. \A j \in DOMAIN inbox' : inbox'[j] = inbox'[i] => j = i
      <4> SUFFICES ASSUME NEW j \in DOMAIN inbox', inbox'[j] = inbox'[i] PROVE j = i
        OBVIOUS
      <4>1. j + 1 \in DOMAIN inbox /\ inbox[j + 1] = inbox[i + 1]
        BY <2>1, <3>1
      <4>2. j + 1 = i + 1
        BY <2>5, <3>1, <4>1 DEF InboxInv
      <4>3. i \in Int /\ j \in Int
        BY <1>1, ReadsType, LenProperties DEF Execute
      <4> QED BY <4>2, <4>3
    <3> QED BY <1>1, <3>1, <3>4, <3>5, <3>6 DEF Execute, ScriptsTypeOK
  <2> QED BY <2>3, <2>4, <2>5 DEF InboxInv
<1>2. CASE Terminate(s)
  <2>1. \A i \in DOMAIN inbox' : i + 1 \in DOMAIN inbox /\ inbox'[i] = inbox[i + 1]
    BY <1>2, ReadsInbox DEF Terminate
  <2>2. AgentInv'
    BY <1>2 DEF Terminate, AgentInv, ScriptsTypeOK, LinkIs, Tended, Abandoned
  <2>3. \A i \in DOMAIN inbox' : i \in Int
    BY <1>2, ReadsType, LenProperties DEF Terminate
  <2>4. InboxInv'
    BY <1>2, <2>1, <2>3 DEF Terminate, InboxInv
  <2> QED BY <2>2, <2>4
<1>3. CASE Reject(s) \/ Launch(s) \/ Answered(s)
  <2>1. /\ UNCHANGED <<row, inbox, conn, link, stopping>> /\ at[s] # "none"
        /\ \E place \in {"rejecting", "accepting", "asleep", "done"} : at' = [at EXCEPT ![s] = place]
    BY <1>3 DEF Reject, Launch, Answered, network
  <2>2. AgentInv'
    <3> USE DEF AgentInv, ScriptsTypeOK, LinkIs, Tended, Abandoned, Untimed
    <3>1. CASE Reject(s)
      BY <3>1 DEF Reject
    <3>2. CASE Launch(s)
      BY <3>2 DEF Launch
    <3>3. CASE Answered(s)
      BY <3>3 DEF Answered, network
    <3> QED BY <1>3, <3>1, <3>2, <3>3
  <2> QED BY <2>1, <2>2, InboxKept DEF ScriptsTypeOK
<1>4. CASE Dispatch(s)
  <2>1. AgentInv'
    BY <1>4 DEF Dispatch, script, AgentInv, LinkIs, Abandoned
  <2>2. /\ at' = at /\ row[s] = "none" /\ row'[s] # "none"
        /\ \A t \in Ids \ {s} : row'[t] = row[t]
    BY <1>4 DEF Dispatch, script, ScriptsTypeOK
  <2>3. CASE UNCHANGED inbox
    BY <2>1, <2>2, <2>3, InboxKept
  <2>4. CASE inbox' = Append(inbox, [do |-> "execute", of |-> s])
    <3>1. /\ inbox \in Seq(Commands) /\ [do |-> "execute", of |-> s] \in Commands
      BY CommandTypes DEF ScriptsTypeOK
    <3>2. /\ inbox' \in Seq(Commands) /\ Len(inbox') = Len(inbox) + 1
          /\ \A i \in 1..Len(inbox) : inbox'[i] = inbox[i]
          /\ inbox'[Len(inbox) + 1] = [do |-> "execute", of |-> s]
      BY <2>4, <3>1, AppendProperties
    <3>3. DOMAIN inbox = 1..Len(inbox) /\ DOMAIN inbox' = 1..(Len(inbox) + 1) /\ Len(inbox) \in Nat
      BY <3>1, <3>2, LenProperties
    <3>4. at[s] = "none"
      BY <2>2 DEF InboxInv
    <3>5. \A i \in 1..Len(inbox) :
             inbox[i].of \in Ids /\ (inbox[i].do = "execute" => row[inbox[i].of] # "none")
      BY <3>1, <3>3, InboxOf DEF InboxInv
    <3>6. \A i \in 1..Len(inbox) : inbox[i] # [do |-> "execute", of |-> s]
      BY <2>2, <3>5
    <3>7. \A t \in Ids : row'[t] = "none" => at'[t] = "none"
      BY <2>2 DEF InboxInv
    <3>8. ASSUME NEW i \in DOMAIN inbox', inbox'[i].do = "execute"
          PROVE  /\ row'[inbox'[i].of] # "none" /\ at'[inbox'[i].of] = "none"
                 /\ \A j \in DOMAIN inbox' : inbox'[j] = inbox'[i] => j = i
      <4>1. CASE i = Len(inbox) + 1
        BY <2>2, <3>2, <3>3, <3>4, <3>6, <4>1
      <4>2. CASE i \in 1..Len(inbox)
        <5>1. row[inbox[i].of] # "none" /\ at[inbox[i].of] = "none"
              /\ \A j \in DOMAIN inbox : inbox[j] = inbox[i] => j = i
          BY <3>2, <3>3, <3>8, <4>2 DEF InboxInv
        <5>2. row'[inbox[i].of] # "none"
          BY <2>2, <3>5, <4>2, <5>1
        <5> QED BY <2>2, <3>2, <3>3, <3>6, <4>2, <5>1, <5>2
      <4> QED BY <3>3, <4>1, <4>2
    <3> QED BY <2>1, <3>7, <3>8 DEF InboxInv
  <2> QED BY <1>4, <2>3, <2>4 DEF Dispatch
<1>5. CASE DispatchTerminate(s)
  <2>1. AgentInv'
    BY <1>5 DEF DispatchTerminate, script, AgentInv, LinkIs, Abandoned
  <2>2. /\ inbox \in Seq(Commands) /\ [do |-> "terminate", of |-> s] \in Commands
    BY CommandTypes DEF ScriptsTypeOK
  <2>3. /\ inbox' \in Seq(Commands) /\ Len(inbox') = Len(inbox) + 1
        /\ \A i \in 1..Len(inbox) : inbox'[i] = inbox[i]
        /\ inbox'[Len(inbox) + 1].do = "terminate"
    BY <1>5, <2>2, AppendProperties DEF DispatchTerminate
  <2>4. DOMAIN inbox = 1..Len(inbox) /\ DOMAIN inbox' = 1..(Len(inbox) + 1) /\ Len(inbox) \in Nat
    BY <2>2, <2>3, LenProperties
  <2>5. at' = at /\ row' = row
    BY <1>5 DEF DispatchTerminate, script
  <2>6. \A i \in DOMAIN inbox' : inbox'[i].do = "execute" => i \in DOMAIN inbox /\ inbox'[i] = inbox[i]
    BY <2>3, <2>4
  <2> QED BY <2>1, <2>5, <2>6 DEF InboxInv
<1>6. CASE PrepareRaises(s)
  <2>1. AgentInv'
    BY <1>6 DEF PrepareRaises, AgentInv, ScriptsTypeOK, LinkIs, Tended, Abandoned, Untimed
  <2>2. at' = [at EXCEPT ![s] = "done"] /\ at[s] = "preparing" /\ row' = row /\ inbox' = <<>>
    BY <1>6 DEF PrepareRaises
  <2> QED BY <2>1, <2>2, InboxKept DEF ScriptsTypeOK
<1> QED BY <1>1, <1>2, <1>3, <1>4, <1>5, <1>6

LEMMA OthersAgent ==
    ASSUME ScriptsTypeOK, AgentInv, InboxInv,
           \/ \E s \in Ids : WriteLog(s) \/ Exit(s, "exited") \/ Exit(s, "failed") \/ Overrun(s)
           \/ \E c \in Conns : Connect(c) \/ Handle(c)
           \/ Drop \/ Break \/ SessionOver \/ CloseRaises
           \/ Crash \/ Interrupt \/ Interrupted
    PROVE  AgentInv' /\ InboxInv'
<1>1. ASSUME NEW s \in Ids, WriteLog(s) \/ Exit(s, "exited") \/ Exit(s, "failed") \/ Overrun(s)
      PROVE  AgentInv' /\ InboxInv'
  <2>1. AgentInv'
    BY <1>1 DEF WriteLog, Exit, Overrun, network, AgentInv, LinkIs, Abandoned, ScriptsTypeOK
  <2> QED BY <1>1, <2>1, InboxKept DEF WriteLog, Exit, Overrun, network
<1>2. ASSUME NEW c \in Conns, Handle(c) PROVE AgentInv' /\ InboxInv'
  <2>1. AgentInv'
    BY <1>2 DEF Handle, script, AgentInv, LinkIs, Abandoned
  <2>2. Head(up[c]) \in Messages
    BY <1>2, HeadTailProperties DEF Handle, ScriptsTypeOK
  <2>3. \A s \in Ids : row'[s] = row[s] \/ row'[s] \in {"running"} \cup Verdicts
    BY <1>2, <2>2 DEF Handle, Persisted, Messages, ScriptsTypeOK
  <2>4. \A s \in Ids : row'[s] = "none" => row[s] = "none"
    BY <2>3 DEF Verdicts
  <2>5. inbox' = inbox /\ at' = at
    BY <1>2 DEF Handle, script
  <2>6. \A s \in Ids : row[s] # "none" => row'[s] # "none"
    BY <2>3, <2>4
  <2> QED BY <2>1, <2>4, <2>5, <2>6, InboxKept
<1>3. ASSUME NEW c \in Conns, Connect(c) PROVE AgentInv' /\ InboxInv'
  <2>1. AgentInv'
    BY <1>3 DEF Connect, script, AgentInv, LinkIs, Abandoned
  <2> QED BY <1>3, <2>1, InboxKept DEF Connect, script
<1>4. CASE Drop \/ Break
  <2>1. link'[conn] # "broken" => ~LinkIs("broken")
    BY <1>4 DEF Drop, Break, LinkIs
  <2>2. AgentInv'
    BY <1>4, <2>1 DEF Drop, Break, Lose, script, AgentInv, LinkIs, Abandoned
  <2> QED BY <1>4, <2>2, InboxKept DEF Drop, Break, script
<1>5. CASE SessionOver
  <2>1. AgentInv'
    BY <1>5 DEF SessionOver, script, AgentInv, LinkIs, Abandoned
  <2> QED BY <1>5, <2>1, InboxKept DEF SessionOver, script
<1>6. CASE CloseRaises \/ Crash \/ Interrupted
  BY <1>6, AgentDiesAgent DEF CloseRaises, Crash, Interrupted
<1>7. CASE Interrupt
  <2>1. \A s \in Ids : /\ at'[s] = "none" <=> at[s] = "none"
                       /\ at'[s] \in {"preparing", "rejecting"} => FALSE
    BY <1>7 DEF Interrupt, Cancelled
  <2>2. AgentInv'
    BY <1>7, <2>1 DEF Interrupt, Cancelled, AgentInv, Abandoned, Untimed
  <2> QED BY <1>7, <2>1, <2>2, InboxKept DEF Interrupt
<1> QED BY <1>1, <1>2, <1>3, <1>4, <1>5, <1>6, <1>7

LEMMA AgentStep ==
    ScriptsTypeOK /\ AgentInv /\ InboxInv /\ [ScriptsNext]_vars => AgentInv' /\ InboxInv'
<1> SUFFICES ASSUME ScriptsTypeOK, AgentInv, InboxInv, [ScriptsNext]_vars
             PROVE  AgentInv' /\ InboxInv'
  OBVIOUS
<1>1. ASSUME NEW s \in Ids, ScriptStep(s) PROVE AgentInv' /\ InboxInv'
  BY <1>1, TailAgent, CommandAgent, OthersAgent DEF ScriptStep
<1>2. CASE UNCHANGED vars
  BY <1>2, InboxKept DEF vars, network, script, AgentInv, LinkIs, Abandoned
<1> QED BY <1>1, <1>2, OthersAgent DEF ScriptsNext

(***************************************************************************)
(* A script that runs stays in reach of TERMINATE_SCRIPT, whatever its     *)
(* tail, its session and other commands do, for as long as there is an     *)
(* agent that neither ends with its session nor winds up, except from the  *)
(* report on of a tail whose log could not be opened or whose stop at the  *)
(* cap failed.                                                             *)
(***************************************************************************)
THEOREM TerminableAlways == ScriptsSpec => []Terminable
<1>1. ScriptsTypeOK /\ AgentInv => Terminable
  BY DEF ScriptsTypeOK, AgentInv, Terminable, Tended, Abandoned
<1> QED BY <1>1, AgentInit, AgentStep, ScriptsTypeCorrect, PTL DEF ScriptsSpec

-----------------------------------------------------------------------------
\* Where things stand only moves on: what a script has come to is not undone.

Spoken == {"rejecting", "reporting", "done", "lost"}

Onward(s) ==
    /\ at[s] \in Spoken => at'[s] \in Spoken
    /\ at[s] \notin {"none", "preparing"} => at'[s] \notin {"none", "preparing"}
    /\ at[s] = "lost" => at'[s] = "lost"
    /\ s \in due => s \in due'
    /\ s \in logFailed => s \in logFailed'
    /\ s \in stopFailed => s \in stopFailed'
    /\ Ended(s) => proc'[s] = proc[s]
    /\ proc'[s] = "running" => proc[s] = "running" \/ at[s] = "preparing"
    /\ proc[s] = "running" /\ stopping /\ at[s] # "none" => stopping' \/ at'[s] = "lost"

LEMMA TailOnward ==
    ASSUME ScriptsTypeOK, NEW s \in Ids, TailStep(s) \/ TailFault(s), NEW t \in Ids
    PROVE  Onward(t)
<1> USE DEF Onward, Spoken, Goto, Ended
<1>1. CASE Poll(s)
  BY <1>1 DEF Poll, ScriptsTypeOK
<1>2. CASE Polled(s)
  BY <1>2 DEF Polled, ScriptsTypeOK, network
<1>3. CASE Wait(s)
  BY <1>3 DEF Wait, ScriptsTypeOK, network
<1>4. CASE GraceOver(s)
  BY <1>4 DEF GraceOver, ScriptsTypeOK, network
<1>5. CASE LastRead(s)
  BY <1>5 DEF LastRead, ScriptsTypeOK
<1>6. CASE Report(s)
  BY <1>6 DEF Report, ScriptsTypeOK
<1>7. CASE Reported(s)
  BY <1>7 DEF Reported, ScriptsTypeOK, network
<1>8. CASE TailFault(s)
  BY <1>8 DEF TailFault, PollFails, StopFails, LastReadFails, ScriptsTypeOK, network
<1> QED BY <1>1, <1>2, <1>3, <1>4, <1>5, <1>6, <1>7, <1>8 DEF TailStep

LEMMA CommandOnward ==
    ASSUME ScriptsTypeOK, AgentInv, InboxInv, NEW s \in Ids, NEW t \in Ids,
           \/ Execute(s) \/ Terminate(s) \/ Reject(s) \/ Launch(s) \/ Answered(s)
           \/ Dispatch(s) \/ DispatchTerminate(s) \/ PrepareRaises(s)
           \/ WriteLog(s) \/ Exit(s, "exited") \/ Exit(s, "failed") \/ Overrun(s)
    PROVE  Onward(t)
<1> USE DEF Onward, Spoken, Goto, Ended
<1>1. CASE Execute(s)
  <2>1. 1 \in DOMAIN inbox /\ inbox[1] = [do |-> "execute", of |-> s]
    BY <1>1, ReadsInbox DEF Execute
  <2>2. at[s] = "none"
    BY <2>1 DEF InboxInv
  <2> QED BY <1>1, <2>2 DEF Execute, ScriptsTypeOK
<1>2. CASE Terminate(s)
  BY <1>2 DEF Terminate, ScriptsTypeOK
<1>3. CASE Reject(s) \/ Launch(s)
  BY <1>3 DEF Reject, Launch, ScriptsTypeOK, AgentInv
<1>4. CASE Answered(s)
  BY <1>4 DEF Answered, ScriptsTypeOK, network
<1>5. CASE Dispatch(s) \/ DispatchTerminate(s)
  BY <1>5 DEF Dispatch, DispatchTerminate, script
<1>6. CASE PrepareRaises(s)
  BY <1>6 DEF PrepareRaises, ScriptsTypeOK
<1>7. CASE WriteLog(s) \/ Exit(s, "exited") \/ Exit(s, "failed") \/ Overrun(s)
  BY <1>7 DEF WriteLog, Exit, Overrun, network, ScriptsTypeOK
<1> QED BY <1>1, <1>2, <1>3, <1>4, <1>5, <1>6, <1>7

LEMMA SessionOnward ==
    ASSUME ScriptsTypeOK, NEW t \in Ids,
           \/ \E c \in Conns : Connect(c) \/ Handle(c)
           \/ Drop \/ Break \/ SessionOver \/ CloseRaises
           \/ Crash \/ Interrupt \/ Interrupted
    PROVE  Onward(t)
<1> USE DEF Onward, Spoken, Ended
<1>1. CASE \/ \E c \in Conns : Connect(c) \/ Handle(c)
           \/ Drop \/ Break \/ SessionOver
  BY <1>1 DEF Connect, Handle, Drop, Break, SessionOver, script
<1>2. CASE CloseRaises \/ Crash \/ Interrupted
  BY <1>2 DEF CloseRaises, Crash, Interrupted, AgentDies, Gone, ScriptsTypeOK
<1>3. CASE Interrupt
  BY <1>3 DEF Interrupt, Cancelled, ScriptsTypeOK
<1> QED BY <1>1, <1>2, <1>3

LEMMA AllOnward ==
    ASSUME ScriptsTypeOK, AgentInv, InboxInv, [ScriptsNext]_vars, NEW t \in Ids
    PROVE  Onward(t)
<1>1. CASE UNCHANGED vars
  BY <1>1 DEF vars, network, script, Onward, Ended
<1> QED BY <1>1, TailOnward, CommandOnward, SessionOnward DEF ScriptsNext, ScriptStep

-----------------------------------------------------------------------------
\* What happens to the messages and the rows in a step.

Quiet ==
    /\ up' = up
    /\ \A s \in Ids :
          row'[s] = row[s] \/ (row[s] = "none" /\ row'[s] \in {"dispatched", "undeliverable"})

Speaks(s, word) ==
    \/ at[s] = "preparing" /\ word = "accepted" /\ at'[s] = "accepting"
    \/ at[s] = "preparing" /\ word = "error" /\ at'[s] = "rejecting" /\ proc' = proc
    \/ at[s] \in {"asleep", "wrapping"} /\ word = "output"
    \/ at[s] = "draining" /\ word = Verdict(s) /\ at'[s] = "reporting" /\ proc' = proc

Saying(s, word) ==
    /\ Say(s, word) /\ Speaks(s, word)
    /\ UNCHANGED <<row, conn, link, stopping, due, logFailed, stopFailed>>

Cutting == row' = row /\ \E c \in Conns, state \in {"down", "broken"} : c = conn /\ Lose(c, state)

LEMMA Words ==
    ASSUME ScriptsTypeOK, [ScriptsNext]_vars
    PROVE  \/ Quiet
           \/ \E s \in Ids, word \in {"accepted", "output"} \cup Verdicts : Saying(s, word)
           \/ Cutting
           \/ \E c \in Conns : Handle(c)
<1>1. ASSUME NEW s \in Ids, TailStep(s) \/ TailFault(s)
      PROVE  Quiet \/ \E word \in {"accepted", "output"} \cup Verdicts : Saying(s, word)
  <2>1. CASE Poll(s) \/ LastRead(s)
    <3>1. CASE up' = up /\ row' = row
      BY <3>1 DEF Quiet
    <3>2. CASE s \in unread /\ Say(s, "output")
      <4>1. Saying(s, "output")
        BY <2>1, <3>2 DEF Poll, LastRead, Saying, Speaks
      <4> QED BY <4>1
    <3> QED BY <2>1, <3>1, <3>2 DEF Poll, LastRead
  <2>2. CASE Report(s)
    <3>1. Verdict(s) \in Verdicts
      BY DEF Verdict, Verdicts
    <3>2. Saying(s, Verdict(s))
      BY <2>2 DEF Report, Saying, Speaks, Goto, ScriptsTypeOK
    <3> QED BY <3>1, <3>2
  <2>3. CASE Polled(s) \/ Wait(s) \/ GraceOver(s) \/ Reported(s)
    BY <2>3 DEF Polled, Wait, GraceOver, Reported, network, Quiet
  <2>4. CASE TailFault(s)
    BY <2>4 DEF TailFault, PollFails, StopFails, LastReadFails, network, Quiet
  <2> QED BY <1>1, <2>1, <2>2, <2>3, <2>4 DEF TailStep
<1>2. ASSUME NEW s \in Ids, Reject(s) \/ Launch(s)
      PROVE  \E word \in {"accepted", "output"} \cup Verdicts : Saying(s, word)
  <2>1. CASE Reject(s)
    <3>1. Saying(s, "error")
      BY <2>1 DEF Reject, Saying, Speaks, Goto, ScriptsTypeOK
    <3> QED BY <3>1 DEF Verdicts
  <2>2. CASE Launch(s)
    <3>1. Saying(s, "accepted")
      BY <2>2 DEF Launch, Saying, Speaks, Goto, ScriptsTypeOK
    <3> QED BY <3>1
  <2> QED BY <1>2, <2>1, <2>2
<1>3. ASSUME NEW s \in Ids,
             \/ Execute(s) \/ Terminate(s) \/ Answered(s) \/ WriteLog(s) \/ Exit(s, "exited")
             \/ Exit(s, "failed") \/ Overrun(s) \/ PrepareRaises(s) \/ Dispatch(s)
             \/ DispatchTerminate(s)
      PROVE  Quiet
  BY <1>3 DEF Execute, Terminate, Answered, WriteLog, Exit, Overrun, PrepareRaises, Dispatch,
              DispatchTerminate, network, Quiet, ScriptsTypeOK
<1>4. CASE (\E c \in Conns : Connect(c)) \/ SessionOver \/ CloseRaises \/ Interrupt
  BY <1>4 DEF Connect, SessionOver, CloseRaises, Interrupt, AgentDies, Quiet
<1>5. CASE Drop \/ Break
  <2>1. conn \in Conns
    BY <1>5 DEF Drop, Break, LinkIs, ScriptsTypeOK
  <2> QED BY <1>5, <2>1 DEF Drop, Break, Cutting
<1>6. CASE Crash \/ Interrupted
  <2>1. row' = row /\ LinkDies
    BY <1>6 DEF Crash, Interrupted, AgentDies
  <2>2. CASE LinkIs("up")
    <3>1. conn \in Conns
      BY <2>2 DEF LinkIs, ScriptsTypeOK
    <3> QED BY <2>1, <2>2, <3>1 DEF LinkDies, Cutting
  <2>3. CASE ~LinkIs("up")
    BY <2>1, <2>3 DEF LinkDies, Quiet
  <2> QED BY <2>2, <2>3
<1>7. CASE UNCHANGED vars
  BY <1>7 DEF vars, network, Quiet
<1> QED BY <1>1, <1>2, <1>3, <1>4, <1>5, <1>6, <1>7 DEF ScriptsNext, ScriptStep

LEMMA UpMoves ==
    ASSUME ScriptsTypeOK, [ScriptsNext]_vars, NEW c \in Conns
    PROVE  \/ up'[c] = up[c]
           \/ \E s \in Ids, word \in {"accepted", "output"} \cup Verdicts :
                  /\ Saying(s, word) /\ c = conn /\ LinkIs("up")
                  /\ up'[c] = Append(up[c], [of |-> s, says |-> word])
           \/ c = conn /\ \E n \in 0..Len(up[c]) : up'[c] = SubSeq(up[c], 1, n)
           \/ Handle(c) /\ up'[c] = Tail(up[c])
<1>1. CASE Quiet
  BY <1>1 DEF Quiet
<1>2. ASSUME NEW s \in Ids, NEW word \in {"accepted", "output"} \cup Verdicts, Saying(s, word)
      PROVE  \/ up'[c] = up[c]
             \/ /\ Saying(s, word) /\ c = conn /\ LinkIs("up")
                /\ up'[c] = Append(up[c], [of |-> s, says |-> word])
  BY <1>2 DEF Saying, Say, ScriptsTypeOK
<1>3. CASE Cutting
  BY <1>3 DEF Cutting, Lose, ScriptsTypeOK
<1>4. ASSUME NEW d \in Conns, Handle(d)
      PROVE  up'[c] = up[c] \/ (Handle(c) /\ up'[c] = Tail(up[c]))
  BY <1>4 DEF Handle, ScriptsTypeOK
<1> QED BY <1>1, <1>2, <1>3, <1>4, Words

\* The agent keeps its connection, leaves it, or opens one that is new.
LEMMA ConnMoves ==
    ASSUME ScriptsTypeOK, [ScriptsNext]_vars
    PROVE  /\ \/ conn' = conn
              \/ conn' = None
              \/ conn' \in Conns /\ conn = None /\ link[conn'] = "none" /\ up' = up
           /\ \A c \in Conns : link'[c] = "none" => link[c] = "none"
<1>1. ASSUME NEW s \in Ids, TailStep(s) \/ TailFault(s) PROVE conn' = conn /\ link' = link
  BY <1>1 DEF TailStep, Poll, Polled, Wait, GraceOver, LastRead, Report, Reported, network,
              TailFault, PollFails, StopFails, LastReadFails
<1>2. ASSUME NEW s \in Ids,
             \/ Execute(s) \/ Terminate(s) \/ Reject(s) \/ Launch(s) \/ Answered(s)
             \/ WriteLog(s) \/ Exit(s, "exited") \/ Exit(s, "failed") \/ Overrun(s)
             \/ Dispatch(s) \/ DispatchTerminate(s)
      PROVE  conn' = conn /\ link' = link
  BY <1>2 DEF Execute, Terminate, Reject, Launch, Answered, WriteLog, Exit, Overrun, Dispatch,
              DispatchTerminate, network
<1>3. ASSUME NEW s \in Ids, PrepareRaises(s)
      PROVE  conn' = None /\ \A c \in Conns : link'[c] = "none" => link[c] = "none"
  BY <1>3 DEF PrepareRaises, ScriptsTypeOK
<1>4. ASSUME NEW c \in Conns, Connect(c)
      PROVE  /\ conn' \in Conns /\ conn = None /\ link[conn'] = "none" /\ up' = up
             /\ \A d \in Conns : link'[d] = "none" => link[d] = "none"
  BY <1>4 DEF Connect, ScriptsTypeOK
<1>5. ASSUME NEW c \in Conns, Handle(c) PROVE conn' = conn /\ link' = link
  BY <1>5 DEF Handle
<1>6. ASSUME NEW c \in Conns, NEW state \in {"down", "broken"}, Lose(c, state)
      PROVE  \A d \in Conns : link'[d] = "none" => link[d] = "none"
  BY <1>6 DEF Lose, ScriptsTypeOK
<1>7. LinkIs("up") => conn \in Conns
  BY DEF LinkIs, ScriptsTypeOK
<1>8. CASE Drop \/ Break
  BY <1>6, <1>7, <1>8 DEF Drop, Break
<1>9. CASE SessionOver \/ Interrupt \/ CloseRaises
  BY <1>9 DEF SessionOver, Interrupt, CloseRaises, AgentDies
<1>10. CASE Crash \/ Interrupted
  BY <1>6, <1>7, <1>10 DEF Crash, Interrupted, AgentDies, LinkDies
<1>11. CASE UNCHANGED vars
  BY <1>11 DEF vars, network
<1> QED BY <1>1, <1>2, <1>3, <1>4, <1>5, <1>8, <1>9, <1>10, <1>11 DEF ScriptsNext, ScriptStep

-----------------------------------------------------------------------------
\* Parts of sequences.

LEMMA TailAt ==
    ASSUME NEW S, NEW q \in Seq(S), q # <<>>
    PROVE  \A k \in DOMAIN Tail(q) : k \in Int /\ k + 1 \in DOMAIN q /\ Tail(q)[k] = q[k + 1]
                                   /\ k + 1 > 1
BY LenProperties, HeadTailProperties

LEMMA PrefixAt ==
    ASSUME NEW S, NEW q \in Seq(S), NEW n \in 0..Len(q)
    PROVE  \A k \in DOMAIN SubSeq(q, 1, n) : k \in DOMAIN q /\ SubSeq(q, 1, n)[k] = q[k]
BY LenProperties

LEMMA AppendAt ==
    ASSUME NEW S, NEW q \in Seq(S), NEW m \in S
    PROVE  /\ Append(q, m)[Len(q) + 1] = m
           /\ \A k \in DOMAIN Append(q, m) :
                 \/ k = Len(q) + 1
                 \/ k \in DOMAIN q /\ k <= Len(q) /\ Append(q, m)[k] = q[k]
BY LenProperties, AppendProperties

\* A message on its way has just been said, or was on its way before.
LEMMA UpFrom ==
    ASSUME ScriptsTypeOK, [ScriptsNext]_vars, NEW c \in Conns, NEW k \in DOMAIN up'[c]
    PROVE  \/ \E j \in DOMAIN up[c] : up'[c][k] = up[c][j]
           \/ \E s \in Ids, word \in {"accepted", "output"} \cup Verdicts :
                  /\ Saying(s, word) /\ c = conn /\ LinkIs("up")
                  /\ up'[c][k] = [of |-> s, says |-> word]
<1>1. up[c] \in Seq(Messages)
  BY DEF ScriptsTypeOK
<1>2. CASE up'[c] = up[c]
  BY <1>2
<1>3. ASSUME NEW s \in Ids, NEW word \in {"accepted", "output"} \cup Verdicts,
             up'[c] = Append(up[c], [of |-> s, says |-> word])
      PROVE  \/ \E j \in DOMAIN up[c] : up'[c][k] = up[c][j]
             \/ up'[c][k] = [of |-> s, says |-> word]
  <2>1. [of |-> s, says |-> word] \in Messages
    BY DEF Messages
  <2> QED BY <1>1, <1>3, <2>1, AppendAt
<1>4. CASE \E n \in 0..Len(up[c]) : up'[c] = SubSeq(up[c], 1, n)
  BY <1>1, <1>4, PrefixAt
<1>5. CASE Handle(c) /\ up'[c] = Tail(up[c])
  BY <1>1, <1>5, TailAt DEF Handle
<1> QED BY <1>2, <1>3, <1>4, <1>5, UpMoves

-----------------------------------------------------------------------------
\* What is said of a script, in a row or on its way to one, has happened.

Excused(s, verdict) ==
    \/ stopping \/ at[s] = "lost"
    \/ verdict = "error" /\ s \in logFailed
    \/ verdict = "timeout" /\ s \in stopFailed

Happened(s, verdict) ==
    /\ proc[s] = "running" => verdict # "success" /\ Excused(s, verdict)
    /\ verdict = "success" => proc[s] = "exited"
    /\ verdict = "timeout" => s \in due
    /\ at[s] \in Spoken

Sound(m) ==
    /\ at[m.of] \notin {"none", "preparing"}
    /\ m.says \in Verdicts => Happened(m.of, m.says)

TruthInv ==
    /\ \A s \in Ids : row[s] \in Verdicts => Happened(s, row[s])
    /\ \A c \in Conns : \A k \in DOMAIN up[c] : Sound(up[c][k])

LEMMA TruthInit == ScriptsInit => TruthInv
BY DEF ScriptsInit, TruthInv, Verdicts

LEMMA HappenedOnward ==
    ASSUME NEW s \in Ids, NEW verdict, Happened(s, verdict), Onward(s), ScriptsTypeOK
    PROVE  Happened(s, verdict)'
<1>1. at[s] \in Spoken /\ at[s] # "preparing" /\ at[s] # "none"
  BY DEF Happened, Spoken
<1>2. proc[s] = "exited" => proc'[s] = "exited"
  BY DEF Onward, Ended
<1>3. proc'[s] = "running" => proc[s] = "running"
  BY <1>1 DEF Onward
<1>4. proc[s] = "running" => Excused(s, verdict)'
  BY <1>1 DEF Onward, Happened, Excused
<1>5. at'[s] \in Spoken
  BY <1>1 DEF Onward
<1>6. verdict = "timeout" => s \in due'
  BY DEF Onward, Happened
<1> QED BY <1>2, <1>3, <1>4, <1>5, <1>6 DEF Happened

LEMMA SoundOnward ==
    ASSUME NEW m \in Messages, Sound(m), \A s \in Ids : Onward(s), ScriptsTypeOK
    PROVE  Sound(m)'
<1>1. m.of \in Ids
  BY DEF Messages
<1>2. at'[m.of] \notin {"none", "preparing"}
  BY <1>1 DEF Sound, Onward
<1>3. m.says \in Verdicts => Happened(m.of, m.says)'
  BY <1>1, HappenedOnward DEF Sound
<1> QED BY <1>2, <1>3 DEF Sound

LEMMA SayingSound ==
    ASSUME ScriptsTypeOK, AgentInv, NEW s \in Ids,
           NEW word \in {"accepted", "output"} \cup Verdicts,
           Saying(s, word), LinkIs("up"), Onward(s)
    PROVE  Sound([of |-> s, says |-> word])'
<1> DEFINE m == [of |-> s, says |-> word]
<1>1. m.of = s /\ m.says = word
  OBVIOUS
<1>2. at'[s] \notin {"none", "preparing"}
  <2>1. CASE at[s] \in {"asleep", "wrapping"}
    BY <2>1 DEF Onward
  <2> QED BY <2>1 DEF Saying, Speaks
<1>3. CASE at[s] = "preparing" /\ word = "error"
  <2>1. proc[s] = "none"
    BY <1>3 DEF AgentInv
  <2>2. proc' = proc /\ at'[s] = "rejecting"
    BY <1>3 DEF Saying, Speaks
  <2>3. Happened(s, word)'
    BY <1>3, <2>1, <2>2 DEF Happened, Spoken
  <2> QED BY <1>1, <1>2, <2>3 DEF Sound
<1>4. CASE at[s] = "draining" /\ word = Verdict(s)
  <2>1. proc' = proc /\ at'[s] = "reporting" /\ stopping' = stopping /\ due' = due
    BY <1>4 DEF Saying, Speaks, Verdicts, Verdict
  <2>2. proc[s] = "running" => Excused(s, word)
    BY <1>4 DEF AgentInv, Abandoned, Tended, LinkIs, Excused, Verdict
  <2>3. logFailed' = logFailed /\ stopFailed' = stopFailed
    BY DEF Saying
  <2>4. proc'[s] = "running" => Excused(s, word)'
    BY <1>4, <2>1, <2>2, <2>3 DEF Excused
  <2>5. Happened(s, word)'
    BY <1>4, <2>1, <2>4 DEF Happened, Spoken, Verdict, ScriptsTypeOK
  <2> QED BY <1>1, <1>2, <2>5 DEF Sound
<1>5. CASE word \in {"accepted", "output"}
  BY <1>1, <1>2, <1>5 DEF Sound, Verdicts
<1> QED BY <1>3, <1>4, <1>5 DEF Saying, Speaks

LEMMA TruthStep ==
    ASSUME ScriptsTypeOK, ScriptsTypeOK', AgentInv, InboxInv, TruthInv, [ScriptsNext]_vars
    PROVE  TruthInv'
<1>1. \A s \in Ids : Onward(s)
  BY AllOnward
<1>2. \A c \in Conns : \A k \in DOMAIN up[c] : up[c][k] \in Messages
  <2>1. \A q \in Seq(Messages) : \A k \in DOMAIN q : q[k] \in Messages
    OBVIOUS
  <2> QED BY <2>1 DEF ScriptsTypeOK
<1>3. ASSUME NEW c \in Conns, NEW k \in DOMAIN up'[c] PROVE Sound(up[c][k])'
  <2>1. CASE \E j \in DOMAIN up[c] : up'[c][k] = up[c][j]
    <3>1. PICK j \in DOMAIN up[c] : up'[c][k] = up[c][j]
      BY <2>1
    <3>2. PICK m \in Messages : m = up[c][j]
      BY <1>2
    <3>3. Sound(m)
      BY <3>2 DEF TruthInv
    <3>4. Sound(m)'
      BY <1>1, <3>3, SoundOnward
    <3> QED BY <3>1, <3>2, <3>4 DEF Sound, Happened, Excused
  <2>2. ASSUME NEW s \in Ids, NEW word \in {"accepted", "output"} \cup Verdicts,
               Saying(s, word), LinkIs("up"), up'[c][k] = [of |-> s, says |-> word]
        PROVE  Sound(up[c][k])'
    <3>1. Sound([of |-> s, says |-> word])'
      BY <1>1, <2>2, SayingSound
    <3> QED BY <2>2, <3>1 DEF Sound, Happened, Excused
  <2> QED BY <2>1, <2>2, UpFrom
<1>4. ASSUME NEW s \in Ids, row'[s] \in Verdicts PROVE Happened(s, row[s])'
  <2>1. CASE row'[s] = row[s]
    <3>1. PICK v : v = row[s]
      OBVIOUS
    <3>2. Happened(s, v)
      BY <1>4, <2>1, <3>1 DEF TruthInv
    <3>3. Happened(s, v)'
      BY <1>1, <3>2, HappenedOnward
    <3> QED BY <2>1, <3>1, <3>3 DEF Happened, Excused
  <2>2. CASE row'[s] # row[s]
    <3>1. PICK c \in Conns : Handle(c)
      BY <1>4, <2>2, Words DEF Quiet, Saying, Cutting, Verdicts
    <3>2. 1 \in DOMAIN up[c] /\ Head(up[c]) = up[c][1]
      BY <3>1, LenProperties DEF Handle, ScriptsTypeOK
    <3>3. /\ up[c][1].of = s /\ up[c][1].says = row'[s]
      BY <1>2, <1>4, <2>2, <3>1, <3>2 DEF Handle, Persisted, Messages, ScriptsTypeOK, Verdicts
    <3>4. Happened(s, row'[s])
      BY <1>4, <3>2, <3>3 DEF TruthInv, Sound
    <3>5. PICK v : v = row'[s]
      OBVIOUS
    <3>6. Happened(s, v)'
      BY <1>1, <3>4, <3>5, HappenedOnward
    <3> QED BY <3>5, <3>6 DEF Happened, Excused
  <2> QED BY <2>1, <2>2
<1> QED BY <1>3, <1>4 DEF TruthInv

(***************************************************************************)
(* A final status in the command history tells what happened to the        *)
(* script, over any number of connections, losses and crashes: the verdict *)
(* is formed when the script is over, its agent is being interrupted, or   *)
(* its tail gave up on a log or a process it had no access to, and stays   *)
(* true while it is under way.                                             *)
(***************************************************************************)
THEOREM TruthfulAlways == ScriptsSpec => []Truthful
<1>1. TruthInv => Truthful
  BY DEF TruthInv, Truthful, Happened, Excused
<1> QED BY <1>1, TruthInit, TruthStep, AgentInit, AgentStep, ScriptsTypeCorrect, PTL DEF ScriptsSpec

-----------------------------------------------------------------------------
\* The words about a script stand in order on every connection, and a report
\* leaves no output behind.

NothingUnsentInv ==
    \A s \in Ids :
        /\ at[s] \in {"draining", "reporting"} /\ Ended(s)
        /\ ~LinkIs("broken") /\ ~stopping /\ s \notin logFailed \cup stopFailed
        => s \notin unread

InOrder(q) ==
    \A j, k \in DOMAIN q :
        q[j].of = q[k].of /\ j < k =>
            /\ Place(q[j]) <= Place(q[k])
            /\ Place(q[j]) # 2 => Place(q[j]) # Place(q[k])

OrderInv ==
    /\ \A c \in Conns : link[c] = "none" => up[c] = <<>>
    /\ \A c \in Conns : InOrder(up[c])

LEMMA OrderInit == ScriptsInit => NothingUnsentInv /\ OrderInv
BY DEF ScriptsInit, NothingUnsentInv, OrderInv, InOrder

LEMMA TailUnsent ==
    ASSUME ScriptsTypeOK, NothingUnsentInv, NEW s \in Ids, TailStep(s) \/ TailFault(s)
    PROVE  NothingUnsentInv'
<1> USE DEF Goto, Ended, LinkIs, NothingUnsentInv
<1>1. CASE Poll(s)
  BY <1>1 DEF Poll, ScriptsTypeOK
<1>2. CASE Polled(s)
  BY <1>2 DEF Polled, ScriptsTypeOK, network
<1>3. CASE Wait(s)
  BY <1>3 DEF Wait, ScriptsTypeOK, network
<1>4. CASE GraceOver(s)
  BY <1>4 DEF GraceOver, ScriptsTypeOK, network
<1>5. CASE LastRead(s)
  BY <1>5 DEF LastRead, ScriptsTypeOK
<1>6. CASE Report(s)
  BY <1>6 DEF Report, ScriptsTypeOK
<1>7. CASE Reported(s)
  BY <1>7 DEF Reported, ScriptsTypeOK, network
<1>8. CASE TailFault(s)
  BY <1>8 DEF TailFault, PollFails, StopFails, LastReadFails, ScriptsTypeOK, network
<1> QED BY <1>1, <1>2, <1>3, <1>4, <1>5, <1>6, <1>7, <1>8 DEF TailStep

LEMMA UnsentStep ==
    ASSUME ScriptsTypeOK, AgentInv, NothingUnsentInv, [ScriptsNext]_vars
    PROVE  NothingUnsentInv'
<1> USE DEF Goto, Ended, LinkIs, NothingUnsentInv
<1>1. ASSUME NEW s \in Ids,
             \/ Execute(s) \/ Reject(s) \/ Launch(s) \/ Answered(s) \/ Overrun(s)
             \/ Dispatch(s) \/ DispatchTerminate(s) \/ PrepareRaises(s)
      PROVE  NothingUnsentInv'
  <2>1. CASE Execute(s)
    BY <1>1, <2>1 DEF Execute, ScriptsTypeOK
  <2>2. CASE Reject(s) \/ Launch(s)
    BY <1>1, <2>2 DEF Reject, Launch, ScriptsTypeOK
  <2>3. CASE Answered(s) \/ Overrun(s)
    BY <1>1, <2>3 DEF Answered, Overrun, network, ScriptsTypeOK
  <2>4. CASE Dispatch(s) \/ DispatchTerminate(s)
    BY <1>1, <2>4 DEF Dispatch, DispatchTerminate, script
  <2>5. CASE PrepareRaises(s)
    BY <1>1, <2>5 DEF PrepareRaises, ScriptsTypeOK
  <2> QED BY <1>1, <2>1, <2>2, <2>3, <2>4, <2>5
\* A process that runs past its last read has been left running.
<1>2. ASSUME NEW s \in Ids,
             Terminate(s) \/ WriteLog(s) \/ Exit(s, "exited") \/ Exit(s, "failed")
      PROVE  NothingUnsentInv'
  <2>1. CASE Terminate(s)
    BY <1>2, <2>1 DEF Terminate, AgentInv, Tended, Abandoned, ScriptsTypeOK
  <2>2. CASE WriteLog(s)
    BY <1>2, <2>2 DEF WriteLog, network, AgentInv, Tended, Abandoned, ScriptsTypeOK
  <2>3. CASE Exit(s, "exited") \/ Exit(s, "failed")
    BY <1>2, <2>3 DEF Exit, network, AgentInv, Tended, Abandoned, ScriptsTypeOK
  <2> QED BY <1>2, <2>1, <2>2, <2>3
<1>3. CASE \E c \in Conns : Connect(c) \/ Handle(c)
  BY <1>3 DEF Connect, Handle, script
<1>4. CASE Drop \/ Break
  <2>1. conn \in Conns
    BY <1>4 DEF Drop, Break, ScriptsTypeOK
  <2>2. CASE Drop
    BY <2>1, <2>2 DEF Drop, Lose, script, ScriptsTypeOK
  <2>3. CASE Break
    BY <2>1, <2>3 DEF Break, Lose, script, ScriptsTypeOK
  <2> QED BY <1>4, <2>2, <2>3
<1>5. CASE SessionOver
  BY <1>5 DEF SessionOver, script, ScriptsTypeOK
<1>6. CASE CloseRaises \/ Crash \/ Interrupted
  <2>1. \A s \in Ids : at'[s] \in {"none", "done", "lost"}
    BY <1>6, AgentDiesType DEF CloseRaises, Crash, Interrupted
  <2> QED BY <2>1
<1>7. CASE Interrupt
  BY <1>7 DEF Interrupt
<1>8. CASE UNCHANGED vars
  BY <1>8 DEF vars, network, script
<1> QED BY <1>1, <1>2, <1>3, <1>4, <1>5, <1>6, <1>7, <1>8, TailUnsent DEF ScriptsNext, ScriptStep

LEMMA PlaceOf ==
    \A m \in Messages :
        /\ Place(m) \in {1, 2, 3}
        /\ Place(m) = 1 <=> m.says = "accepted"
        /\ Place(m) = 2 <=> m.says = "output"
        /\ Place(m) = 3 <=> m.says \in Verdicts
BY DEF Messages, Place, Verdicts

LEMMA OrderStep ==
    ASSUME ScriptsTypeOK, TruthInv, OrderInv, [ScriptsNext]_vars
    PROVE  OrderInv'
<1> SUFFICES ASSUME NEW c \in Conns
             PROVE  (link'[c] = "none" => up'[c] = <<>>) /\ InOrder(up'[c])
  BY DEF OrderInv, InOrder, Place
<1>1. up[c] \in Seq(Messages) /\ InOrder(up[c]) /\ (link'[c] = "none" => up[c] = <<>>)
  BY ConnMoves DEF ScriptsTypeOK, OrderInv
<1>2. CASE up'[c] = up[c]
  BY <1>1, <1>2
<1>3. ASSUME NEW s \in Ids, NEW word \in {"accepted", "output"} \cup Verdicts,
             Saying(s, word), c = conn, LinkIs("up"),
             up'[c] = Append(up[c], [of |-> s, says |-> word])
      PROVE  (link'[c] = "none" => up'[c] = <<>>) /\ InOrder(up'[c])
  <2> DEFINE m == [of |-> s, says |-> word]
  <2>1. m \in Messages /\ m.of = s /\ m.says = word
    BY DEF Messages
  <2>2. link'[c] # "none"
    BY <1>3 DEF Saying, LinkIs
  <2>3. /\ up'[c][Len(up[c]) + 1] = m
        /\ \A k \in DOMAIN up'[c] :
              \/ k = Len(up[c]) + 1
              \/ k \in DOMAIN up[c] /\ k <= Len(up[c]) /\ up'[c][k] = up[c][k]
    BY <1>1, <1>3, <2>1, AppendAt
  <2>4. ASSUME NEW j \in DOMAIN up[c], up[c][j].of = s
        PROVE  Place(up[c][j]) <= Place(m) /\ (Place(up[c][j]) # 2 => Place(up[c][j]) # Place(m))
    <3>1. up[c][j] \in Messages /\ Sound(up[c][j])
      BY <1>1 DEF TruthInv
    <3>2. at[s] \notin {"none", "preparing"}
      BY <2>4, <3>1 DEF Sound
    <3>3. at[s] \notin Spoken
      BY <1>3 DEF Saying, Speaks, Spoken
    <3>4. up[c][j].says \notin Verdicts
      BY <2>4, <3>1, <3>3 DEF Sound, Happened, Excused
    <3>5. word = "output" \/ word \in Verdicts
      BY <1>3, <3>2 DEF Saying, Speaks, Verdict, Verdicts
    <3>6. Place(up[c][j]) \in {1, 2}
      BY <3>1, <3>4, PlaceOf
    <3>7. Place(m) \in {2, 3}
      BY <2>1, <3>5, PlaceOf
    <3> QED BY <3>6, <3>7
  <2> HIDE DEF m
  <2>5. Len(up[c]) \in Nat /\ DOMAIN up[c] = 1..Len(up[c])
    BY <1>1, LenProperties
  <2>6. InOrder(up'[c])
    <3> SUFFICES ASSUME NEW j \in DOMAIN up'[c], NEW k \in DOMAIN up'[c],
                        up'[c][j].of = up'[c][k].of, j < k
                 PROVE  /\ Place(up'[c][j]) <= Place(up'[c][k])
                        /\ Place(up'[c][j]) # 2 => Place(up'[c][j]) # Place(up'[c][k])
      BY DEF InOrder
    <3>1. j \in DOMAIN up[c] /\ up'[c][j] = up[c][j]
      BY <2>3, <2>5
    <3>2. CASE k = Len(up[c]) + 1
      BY <2>1, <2>3, <2>4, <3>1, <3>2
    <3>3. CASE k \in DOMAIN up[c] /\ up'[c][k] = up[c][k]
      BY <1>1, <3>1, <3>3 DEF InOrder
    <3> QED BY <2>3, <3>2, <3>3
  <2> QED BY <2>2, <2>6
<1>4. ASSUME NEW n \in 0..Len(up[c]), up'[c] = SubSeq(up[c], 1, n)
      PROVE  (link'[c] = "none" => up'[c] = <<>>) /\ InOrder(up'[c])
  <2>1. \A k \in DOMAIN up'[c] : k \in DOMAIN up[c] /\ up'[c][k] = up[c][k]
    BY <1>1, <1>4, PrefixAt
  <2>2. InOrder(up'[c])
    BY <1>1, <2>1 DEF InOrder
  <2>3. up[c] = <<>> => up'[c] = <<>>
    BY <1>4
  <2> QED BY <1>1, <2>2, <2>3
<1>5. CASE Handle(c) /\ up'[c] = Tail(up[c])
  <2>1. \A k \in DOMAIN up'[c] :
           k \in Int /\ k + 1 \in DOMAIN up[c] /\ up'[c][k] = up[c][k + 1]
    BY <1>1, <1>5, TailAt DEF Handle
  <2>2. InOrder(up'[c])
    <3> SUFFICES ASSUME NEW j \in DOMAIN up'[c], NEW k \in DOMAIN up'[c],
                        up'[c][j].of = up'[c][k].of, j < k
                 PROVE  /\ Place(up'[c][j]) <= Place(up'[c][k])
                        /\ Place(up'[c][j]) # 2 => Place(up'[c][j]) # Place(up'[c][k])
      BY DEF InOrder
    <3>1. j + 1 \in DOMAIN up[c] /\ k + 1 \in DOMAIN up[c] /\ j + 1 < k + 1
      BY <2>1
    <3>2. up'[c][j] = up[c][j + 1] /\ up'[c][k] = up[c][k + 1]
      BY <2>1
    <3> QED BY <1>1, <3>1, <3>2 DEF InOrder
  <2> QED BY <1>1, <1>5, <2>2 DEF Handle
<1> QED BY <1>2, <1>3, <1>4, <1>5, UpMoves

(***************************************************************************)
(* On every connection the Engine reads a script's ack before its output,  *)
(* that before its one report, and after the report no more of it; and the *)
(* report leaves no output unread, unless the session breaks, the agent is *)
(* interrupted, or the tail could not open its log or stop its script.     *)
(***************************************************************************)
THEOREM WordsInOrderAlways == ScriptsSpec => []WordsInOrder
<1>1. NothingUnsentInv /\ OrderInv => WordsInOrder
  BY DEF NothingUnsentInv, OrderInv, InOrder, WordsInOrder, NothingUnsent
<1> QED BY <1>1, OrderInit, UnsentStep, OrderStep, TruthInit, TruthStep, AgentInit, AgentStep,
           ScriptsTypeCorrect, PTL DEF ScriptsSpec

-----------------------------------------------------------------------------
\* Of a script that has its final status, or will get it from a connection the
\* agent has left, the agent's connection says nothing more.

Silent(s) == conn # None => \A k \in DOMAIN up[conn] : up[conn][k].of # s

FinalInv ==
    /\ \A s \in Ids : row[s] \in Verdicts => Silent(s)
    /\ \A c \in Conns \ {conn} : \A k \in DOMAIN up[c] :
           up[c][k].says \in Verdicts => Silent(up[c][k].of)

LEMMA FinalInit == ScriptsInit => FinalInv
BY DEF ScriptsInit, FinalInv, Verdicts

LEMMA SilentOnward ==
    ASSUME ScriptsTypeOK, OrderInv, [ScriptsNext]_vars, NEW s \in Ids, Silent(s), at[s] \in Spoken
    PROVE  Silent(s)'
<1>1. CASE conn' = None
  BY <1>1 DEF Silent
<1>2. CASE conn' \in Conns /\ conn = None /\ link[conn'] = "none" /\ up' = up
  <2>1. up'[conn'] = <<>>
    BY <1>2 DEF OrderInv
  <2> QED BY <2>1 DEF Silent
<1>3. CASE conn' = conn /\ conn \in Conns
  <2>1. conn # None
    BY <1>3, ScriptsAssumption
  <2>2. ASSUME NEW k \in DOMAIN up'[conn] PROVE up'[conn][k].of # s
    <3>1. CASE \E j \in DOMAIN up[conn] : up'[conn][k] = up[conn][j]
      BY <2>1, <3>1 DEF Silent
    <3>2. ASSUME NEW t \in Ids, NEW word \in {"accepted", "output"} \cup Verdicts,
                 Saying(t, word), up'[conn][k] = [of |-> t, says |-> word]
          PROVE  up'[conn][k].of # s
      <4>1. t # s
        BY <3>2 DEF Saying, Speaks, Spoken
      <4> QED BY <3>2, <4>1
    <3> QED BY <1>3, <3>1, <3>2, UpFrom
  <2> QED BY <1>3, <2>2 DEF Silent
<1> QED BY <1>1, <1>2, <1>3, ConnMoves DEF ScriptsTypeOK

\* After the report on its connection there is no more word of a script.
LEMMA HandledSilent ==
    ASSUME ScriptsTypeOK, OrderInv, conn \in Conns, Handle(conn),
           Head(up[conn]).says \in Verdicts, NEW s \in Ids, Head(up[conn]).of = s
    PROVE  Silent(s)'
<1>1. up[conn] \in Seq(Messages) /\ up[conn] # <<>> /\ up'[conn] = Tail(up[conn]) /\ conn' = conn
  BY DEF Handle, ScriptsTypeOK
<1>2. /\ 1 \in DOMAIN up[conn] /\ Head(up[conn]) = up[conn][1]
      /\ \A k \in DOMAIN up[conn] : up[conn][k] \in Messages
  BY <1>1, LenProperties
<1>3. Place(up[conn][1]) = 3
  BY <1>2, PlaceOf
<1>4. ASSUME NEW k \in DOMAIN up'[conn] PROVE up'[conn][k].of # s
  <2>1. k + 1 \in DOMAIN up[conn] /\ up'[conn][k] = up[conn][k + 1] /\ 1 < k + 1
    BY <1>1, TailAt
  <2>2. Place(up[conn][k + 1]) \in {1, 2, 3}
    BY <1>2, <2>1, PlaceOf
  <2>3. up[conn][1].of = up[conn][k + 1].of => /\ 3 <= Place(up[conn][k + 1])
                                              /\ 3 # Place(up[conn][k + 1])
    BY <1>2, <1>3, <2>1 DEF OrderInv, InOrder
  <2> QED BY <1>2, <2>1, <2>2, <2>3
<1> QED BY <1>1, <1>4 DEF Silent

Rewrites(c, s) ==
    /\ Handle(c)
    /\ 1 \in DOMAIN up[c] /\ Head(up[c]) = up[c][1] /\ up[c][1].of = s
    /\ row'[s] \in Verdicts => up[c][1].says \in Verdicts

\* Only a handler writes over a row that has its final status.
LEMMA RowMoves ==
    ASSUME ScriptsTypeOK, [ScriptsNext]_vars, NEW s \in Ids, row'[s] # row[s]
    PROVE  \/ row[s] = "none" /\ row'[s] \in {"dispatched", "undeliverable"}
           \/ \E c \in Conns : Rewrites(c, s)
<1>1. ASSUME NEW c \in Conns, Handle(c)
      PROVE  Rewrites(c, s)
  <2>1. up[c] \in Seq(Messages) /\ up[c] # <<>>
    BY <1>1 DEF Handle, ScriptsTypeOK
  <2>2. 1 \in DOMAIN up[c] /\ Head(up[c]) = up[c][1] /\ Head(up[c]) \in Messages
    BY <2>1, LenProperties, HeadTailProperties
  <2>3. Head(up[c]).of = s
    BY <1>1, <2>2 DEF Handle, Persisted, Messages, ScriptsTypeOK
  <2>4. row'[s] \in Verdicts => Head(up[c]).says \in Verdicts
    <3>1. row' = Persisted(Head(up[c])) /\ s \in DOMAIN row
      BY <1>1 DEF Handle, ScriptsTypeOK
    <3>2. row'[s] = IF Head(up[c]).says = "accepted" THEN "running" ELSE Head(up[c]).says
      BY <2>3, <3>1 DEF Persisted
    <3> QED BY <3>2 DEF Verdicts
  <2> QED BY <1>1, <2>2, <2>3, <2>4 DEF Rewrites
<1>2. Quiet => row[s] = "none" /\ row'[s] \in {"dispatched", "undeliverable"}
  BY DEF Quiet
<1>3. ~Cutting /\ \A t \in Ids, word \in {"accepted", "output"} \cup Verdicts : ~Saying(t, word)
  BY DEF Cutting, Saying
<1> QED BY <1>1, <1>2, <1>3, Words

LEMMA FinalStep ==
    ASSUME ScriptsTypeOK, TruthInv, OrderInv, FinalInv, [ScriptsNext]_vars
    PROVE  FinalInv'
<1>1. ASSUME NEW s \in Ids, row'[s] \in Verdicts PROVE Silent(s)'
  <2>1. CASE row'[s] = row[s]
    BY <1>1, <2>1, SilentOnward DEF FinalInv, TruthInv, Happened
  <2>2. CASE row'[s] # row[s]
    <3>1. row'[s] \notin {"dispatched", "undeliverable"}
      BY <1>1 DEF Verdicts
    <3>2. PICK c \in Conns : Rewrites(c, s)
      BY <2>2, <3>1, RowMoves
    <3>3. /\ Handle(c) /\ 1 \in DOMAIN up[c] /\ Head(up[c]) = up[c][1]
          /\ up[c][1].of = s /\ up[c][1].says \in Verdicts
      BY <1>1, <3>2 DEF Rewrites
    <3>4. CASE c = conn
      BY <3>3, <3>4, HandledSilent
    <3>5. CASE c # conn
      <4>1. Silent(s) /\ at[s] \in Spoken
        BY <3>3, <3>5 DEF FinalInv, TruthInv, Sound, Happened
      <4> QED BY <4>1, SilentOnward
    <3> QED BY <3>4, <3>5
  <2> QED BY <2>1, <2>2
<1>2. ASSUME NEW c \in Conns \ {conn'}, NEW k \in DOMAIN up'[c], up'[c][k].says \in Verdicts
      PROVE  Silent(up[c][k].of)'
  <2>1. CASE conn' = None
    BY <2>1 DEF Silent
  <2>2. CASE conn' \in Conns /\ conn = None /\ link[conn'] = "none" /\ up' = up
    <3>1. up'[conn'] = <<>>
      BY <2>2 DEF OrderInv
    <3> QED BY <3>1 DEF Silent
  <2>3. CASE conn' = conn
    <3>1. PICK j \in DOMAIN up[c] : up'[c][k] = up[c][j]
      BY <2>3, UpFrom
    <3>2. Sound(up[c][j]) /\ up[c][j].says \in Verdicts /\ up[c][j] \in Messages
      <4>1. up[c] \in Seq(Messages)
        BY DEF ScriptsTypeOK
      <4>2. up[c][j] \in Messages
        BY <4>1
      <4> QED BY <1>2, <3>1, <4>2 DEF TruthInv
    <3>3. PICK s \in Ids : s = up[c][j].of
      BY <3>2 DEF Messages
    <3>4. Silent(s) /\ at[s] \in Spoken
      BY <2>3, <3>2, <3>3 DEF FinalInv, Sound, Happened
    <3>5. Silent(s)'
      BY <3>4, SilentOnward
    <3> QED BY <3>1, <3>3, <3>5 DEF Silent
  <2> QED BY <2>1, <2>2, <2>3, ConnMoves
<1> QED BY <1>1, <1>2 DEF FinalInv

(***************************************************************************)
(* In no step, of the agent, the network or the Engine, does the           *)
(* connection the agent is on change a final status: only messages of a    *)
(* connection it has left can.                                             *)
(***************************************************************************)
THEOREM FinalOnThisConnectionAlways == ScriptsSpec => FinalOnThisConnection
<1> DEFINE Kept == \A s \in Ids : row[s] \in Verdicts /\ row'[s] # row[s] =>
                       \E c \in Conns \ {conn} : up'[c] # up[c]
<1>1. ASSUME ScriptsTypeOK, FinalInv, [ScriptsNext]_vars PROVE Kept
  <2> SUFFICES ASSUME NEW s \in Ids, row[s] \in Verdicts, row'[s] # row[s]
               PROVE  \E c \in Conns \ {conn} : up'[c] # up[c]
    OBVIOUS
  <2>1. PICK c \in Conns : Handle(c) /\ 1 \in DOMAIN up[c] /\ up[c][1].of = s
    <3>1. row[s] # "none"
      BY DEF Verdicts
    <3> QED BY <1>1, <3>1, RowMoves DEF Rewrites
  <2>2. c # conn
    BY <1>1, <2>1, ScriptsAssumption DEF FinalInv, Silent
  <2>3. up'[c] # up[c]
    <3>1. up[c] \in Seq(Messages) /\ up[c] # <<>> /\ up'[c] = Tail(up[c])
      BY <1>1, <2>1 DEF Handle, ScriptsTypeOK
    <3>2. Len(up'[c]) = Len(up[c]) - 1 /\ Len(up[c]) \in Nat
      BY <3>1, HeadTailProperties, LenProperties
    <3> QED BY <3>2
  <2> QED BY <2>2, <2>3
<1>2. ScriptsSpec => []FinalInv
  BY FinalInit, FinalStep, OrderInit, OrderStep, TruthInit, TruthStep, AgentInit, AgentStep,
     ScriptsTypeCorrect, PTL DEF ScriptsSpec
<1>3. ScriptsSpec => [][Kept]_vars
  <2>1. ScriptsTypeOK /\ FinalInv /\ [ScriptsNext]_vars => [Kept]_vars
    BY <1>1
  <2> QED BY <1>2, <2>1, ScriptsTypeCorrect, PTL DEF ScriptsSpec
<1> QED BY <1>3 DEF FinalOnThisConnection
=============================================================================
