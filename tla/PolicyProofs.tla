---------------------------- MODULE PolicyProofs ----------------------------
(***************************************************************************)
(* Theorems of Policy, for any domains, administrator's lines, programs    *)
(* and bounds.                                                             *)
(***************************************************************************)
EXTENDS Policy, TLAPS

LEMMA PolicyTypeInit == PolicyInit => PolicyTypeOK
<1> SUFFICES ASSUME PolicyInit PROVE PolicyTypeOK
  OBVIOUS
<1>1. content \in Contents
  BY DEF PolicyInit, Blank, Contents
<1>2. commands \in 0..MaxCommands /\ faults \in 0..MaxFaults
  BY PolicyAssumption DEF PolicyInit
<1>3. due \in SUBSET Hosts /\ above \in SUBSET Hosts /\ below \in SUBSET Hosts
  BY DEF PolicyInit
<1> QED BY <1>1, <1>2, <1>3 DEF PolicyInit, NoBlock, Block, PolicyTypeOK

\* No command is none.
LEMMA IdleIsNoCommand == \A c \in Commands : c # Idle
BY DEF Commands, Idle

\* What is rendered are names.
LEMMA RenderedType ==
    ASSUME NEW names \in SUBSET Names
    PROVE  Rendered(names) \in SUBSET Names
BY DEF Rendered, Names

LEMMA AppliedType ==
    ASSUME PolicyTypeOK, pc = "write"
    PROVE  /\ command \in Commands /\ command.action \in {"block", "replace", "unblock"}
           /\ Applied(command, content.managed) \in SUBSET Names
<1>1. command \in Commands /\ command.action # "blacklist"
  BY DEF PolicyTypeOK
<1>2. command \in [action : {"block", "replace", "unblock"},
                   mode : Modes,
                   urls : SUBSET (Sites \X {"bare", "www"})]
  BY <1>1 DEF Commands
<1>3. command.urls \in SUBSET Names
  BY <1>2 DEF Names
<1>4. content.managed \in SUBSET Names
  BY DEF PolicyTypeOK, Contents
<1> QED BY <1>1, <1>2, <1>3, <1>4 DEF Applied

\* A write that is cut off leaves a file, and histories, of their types.
LEMMA CutOffType ==
    ASSUME PolicyTypeOK, pc = "write", CutOff
    PROVE  /\ above' \in SUBSET Hosts /\ below' = {}
           /\ block' \in [state : {"none", "open", "closed"}, names : SUBSET Names]
           /\ block'.state = "none" => block'.names = {}
           /\ due' \in SUBSET Hosts /\ exposed' \in SUBSET Hosts
           /\ saved' \in SUBSET Hosts /\ torn' \in BOOLEAN
<1>1. content.outside \in SUBSET Hosts
  BY DEF PolicyTypeOK, Contents
<1>2. Rendered(Applied(command, content.managed)) \in SUBSET Names
  BY AppliedType, RenderedType
<1>3. /\ due' \in SUBSET Hosts /\ exposed' \in SUBSET Hosts
      /\ saved' \in SUBSET Hosts /\ torn' \in BOOLEAN
  BY DEF CutOff, PolicyTypeOK
<1>4. CASE \E part \in SUBSET content.outside : WriteFile(part, NoBlock)
  BY <1>1, <1>3, <1>4 DEF WriteFile, NoBlock, Block
<1>5. CASE \E part \in SUBSET Rendered(Applied(command, content.managed)) :
              WriteFile(content.outside, Block("open", part))
  BY <1>1, <1>2, <1>3, <1>5 DEF WriteFile, NoBlock, Block
<1> QED BY <1>4, <1>5 DEF CutOff

LEMMA WorkerType ==
    ASSUME PolicyTypeOK,
           ReadHosts \/ BackUp \/ BackUpFails \/ WriteHosts \/ WriteHostsFails
               \/ CachePolicy \/ CacheFails
    PROVE  PolicyTypeOK'
<1> USE PolicyAssumption DEF bounds, Fault
<1>1. CASE ReadHosts
  <2>1. content' \in Contents
    BY <1>1 DEF ReadHosts, PolicyTypeOK, Contents, Stripped, Managed
  <2> QED BY <1>1, <2>1 DEF ReadHosts, PolicyTypeOK, file, history, lines
<1>2. CASE BackUp
  BY <1>2 DEF BackUp, PolicyTypeOK, file, history, lines
<1>3. CASE BackUpFails
  <2>1. backup' \in [taken : BOOLEAN, lines : SUBSET Hosts]
    <3>1. above \cup below \in SUBSET Hosts /\ backup \in [taken : BOOLEAN, lines : SUBSET Hosts]
      BY DEF PolicyTypeOK
    <3>2. ASSUME NEW part \in SUBSET (above \cup below), backup' = [taken |-> TRUE, lines |-> part]
          PROVE  backup' \in [taken : BOOLEAN, lines : SUBSET Hosts]
      <4>1. part \in SUBSET Hosts
        BY <3>1
      <4> QED BY <3>2, <4>1
    <3> QED BY <1>3, <3>1, <3>2 DEF BackUpFails
  <2> QED BY <1>3, <2>1 DEF BackUpFails, PolicyTypeOK, file, history, lines
<1>4. CASE WriteHosts
  <2>1. pc = "write" /\ pc' = "cache" /\ command' = command /\ content' = content
    BY <1>4 DEF WriteHosts
  <2>2. content.outside \in SUBSET Hosts
    BY DEF PolicyTypeOK, Contents
  <2>3. Rendered(Applied(command, content.managed)) \in SUBSET Names
    BY <2>1, AppliedType, RenderedType
  <2>4. /\ above' \in SUBSET Hosts /\ below' = {}
        /\ block' \in [state : {"none", "open", "closed"}, names : SUBSET Names]
        /\ block'.state = "none" => block'.names = {}
    BY <1>4, <2>2, <2>3 DEF WriteHosts, WriteFile, NoBlock, Block
  <2>5. command.action = "unblock" \/ command.urls \in SUBSET Names
    BY <2>1, AppliedType DEF Commands, Names
  <2>6. listed' \in SUBSET Names /\ torn' \in BOOLEAN
    BY <1>4, <2>1, <2>5, AppliedType DEF WriteHosts, PolicyTypeOK
  <2> QED BY <1>4, <2>1, <2>4, <2>6 DEF WriteHosts, PolicyTypeOK, lines
<1>5. CASE WriteHostsFails
  <2>1. pc = "write" /\ pc' = "idle" /\ command' = Idle
    BY <1>5 DEF WriteHostsFails, Answered
  <2>2. /\ above' \in SUBSET Hosts /\ below' \in SUBSET Hosts
        /\ block' \in [state : {"none", "open", "closed"}, names : SUBSET Names]
        /\ block'.state = "none" => block'.names = {} /\ below' = {}
        /\ block'.state = "open" => below' = {}
        /\ due' \in SUBSET Hosts /\ exposed' \in SUBSET Hosts
        /\ saved' \in SUBSET Hosts /\ torn' \in BOOLEAN
    <3>1. CASE CutOff
      BY <2>1, <3>1, CutOffType
    <3>2. CASE UNCHANGED <<file, lines, torn>>
      BY <3>2 DEF PolicyTypeOK, file, lines
    <3> QED BY <1>5, <3>1, <3>2 DEF WriteHostsFails
  <2> QED BY <1>5, <2>1, <2>2 DEF WriteHostsFails, PolicyTypeOK
<1>6. CASE CachePolicy
  <2>1. pc = "cache" /\ pc' = "idle" /\ command' = Idle
    BY <1>6 DEF CachePolicy, Answered
  <2>2. command \in Commands
    BY <2>1 DEF PolicyTypeOK
  <2>3. Updated(command) \in SUBSET Programs
    BY <2>2 DEF Updated, Cached, Commands, PolicyTypeOK
  <2>4. wanted' \in SUBSET Programs /\ unsaved' \in BOOLEAN
    BY <1>6, <2>2 DEF CachePolicy, Commands, PolicyTypeOK
  <2> QED BY <1>6, <2>1, <2>3, <2>4 DEF CachePolicy, PolicyTypeOK, file, lines
<1>7. CASE CacheFails
  <2>1. pc = "cache" /\ pc' = "idle" /\ command' = Idle
    BY <1>7 DEF CacheFails, Answered
  <2>2. wanted' \in SUBSET Programs
    BY <1>7, <2>1 DEF CacheFails, Commands, PolicyTypeOK
  <2>3. unsaved' \in BOOLEAN
    BY <1>7 DEF CacheFails, PolicyTypeOK
  <2> QED BY <1>7, <2>1, <2>2, <2>3 DEF CacheFails, PolicyTypeOK, file, lines
<1> QED BY <1>1, <1>2, <1>3, <1>4, <1>5, <1>6, <1>7

LEMMA ReceiveType ==
    ASSUME PolicyTypeOK, NEW c \in Commands, Receive(c)
    PROVE  PolicyTypeOK'
<1>1. c # Idle
  BY IdleIsNoCommand
<1>2. pc' \in {"read", "cache"} /\ (pc' = "read" => c.action # "blacklist")
  BY DEF Receive
<1>3. commands' \in 0..MaxCommands
  BY PolicyAssumption DEF Receive, PolicyTypeOK
<1> QED BY <1>1, <1>2, <1>3 DEF Receive, PolicyTypeOK, file, history, lines

LEMMA EnvironmentType ==
    ASSUME PolicyTypeOK,
           \/ \E p \in Programs : TerminateProcess(p) \/ Start(p)
           \/ \E h \in Hosts : AddLine(h)
           \/ ReadBlacklist \/ EnforceBlacklist
           \/ Connect \/ Disconnect \/ Tamper \/ Stop
    PROVE  PolicyTypeOK'
<1> USE PolicyAssumption
<1>1. ASSUME NEW p \in Programs, TerminateProcess(p) \/ Start(p) PROVE PolicyTypeOK'
  BY <1>1 DEF TerminateProcess, Start, PolicyTypeOK, file, worker, history, lines, bounds
<1>2. ASSUME NEW h \in Hosts, AddLine(h) PROVE PolicyTypeOK'
  <2>1. /\ above' \in SUBSET Hosts /\ below' \in SUBSET Hosts
        /\ block' \in [state : {"none", "open", "closed"}, names : SUBSET Names]
        /\ block'.state = "none" => block'.names = {} /\ below' = {}
        /\ block'.state = "open" => below' = {}
    <3>1. CASE block.state = "none"
      BY <1>2, <3>1 DEF AddLine, PolicyTypeOK
    <3>2. CASE block.state = "closed"
      BY <1>2, <3>2 DEF AddLine, PolicyTypeOK
    <3>3. CASE block.state = "open"
      <4>1. <<h, "bare">> \in Names
        BY DEF Names
      <4> QED BY <1>2, <3>3, <4>1 DEF AddLine, PolicyTypeOK
    <3> QED BY <3>1, <3>2, <3>3 DEF PolicyTypeOK
  <2>2. due' \in SUBSET Hosts /\ exposed' \in SUBSET Hosts
    BY <1>2 DEF AddLine, PolicyTypeOK
  <2> QED BY <1>2, <2>1, <2>2 DEF AddLine, PolicyTypeOK, worker, bounds
<1>3. CASE ReadBlacklist
  BY <1>3 DEF ReadBlacklist, Cached, PolicyTypeOK, file, worker, history, lines, bounds
<1>4. CASE EnforceBlacklist
  BY <1>4 DEF EnforceBlacklist, PolicyTypeOK, file, worker, history, lines, bounds
<1>5. CASE Connect
  BY <1>5 DEF Connect, PolicyTypeOK, file, worker, history, lines, bounds
<1>6. CASE Disconnect
  BY <1>6 DEF Disconnect, PolicyTypeOK, file, worker, history, lines, bounds
<1>7. CASE Tamper
  BY <1>7 DEF Tamper, Fault, PolicyTypeOK, file, worker, lines
<1>8. CASE Stop
  <2>1. pc' = "idle" /\ command' = Idle /\ content' = Blank
    BY <1>8 DEF Stop, Answered
  <2>2. /\ above' \in SUBSET Hosts /\ below' \in SUBSET Hosts
        /\ block' \in [state : {"none", "open", "closed"}, names : SUBSET Names]
        /\ block'.state = "none" => block'.names = {} /\ below' = {}
        /\ block'.state = "open" => below' = {}
        /\ due' \in SUBSET Hosts /\ exposed' \in SUBSET Hosts
        /\ saved' \in SUBSET Hosts /\ torn' \in BOOLEAN
        /\ backup' \in [taken : BOOLEAN, lines : SUBSET Hosts]
    <3>1. CASE UNCHANGED <<file, backup, lines, torn>>
      BY <3>1 DEF PolicyTypeOK, file, lines
    <3>2. CASE /\ \E part \in SUBSET (above \cup below) :
                     backup' = [taken |-> TRUE, lines |-> part]
               /\ UNCHANGED <<file, lines, torn>>
      BY <3>2 DEF PolicyTypeOK, file, lines
    <3>3. CASE pc = "write" /\ CutOff /\ UNCHANGED backup
      BY <3>3, CutOffType DEF PolicyTypeOK
    <3> QED BY <1>8, <3>1, <3>2, <3>3 DEF Stop
  <2>3. running' \in SUBSET Programs
    BY <1>8 DEF Stop, PolicyTypeOK
  <2>4. Blank \in Contents
    BY DEF Blank, Contents
  <2>5. /\ session' = FALSE /\ enforcing' = {} /\ faults' \in 0..MaxFaults
        /\ commands' = commands /\ cache' = cache /\ listed' = listed
        /\ wanted' = wanted /\ unsaved' = unsaved
    BY <1>8 DEF Stop, Fault, PolicyTypeOK
  <2> QED BY <2>1, <2>2, <2>3, <2>4, <2>5 DEF PolicyTypeOK
<1> QED BY <1>1, <1>2, <1>3, <1>4, <1>5, <1>6, <1>7, <1>8

LEMMA PolicyTypeStep == PolicyTypeOK /\ [PolicyNext]_vars => PolicyTypeOK'
<1> SUFFICES ASSUME PolicyTypeOK, [PolicyNext]_vars PROVE PolicyTypeOK'
  OBVIOUS
<1>1. CASE PolicyNext
  <2>1. ASSUME NEW action \in {"block", "replace"}, NEW m \in Modes, NEW u \in Urls,
               Receive([action |-> action, mode |-> m, urls |-> u])
        PROVE  PolicyTypeOK'
    <3>1. [action |-> action, mode |-> m, urls |-> u] \in Commands
      BY DEF Commands, Urls
    <3> QED BY <2>1, <3>1, ReceiveType
  <2>2. ASSUME NEW m \in Modes, Receive([action |-> "unblock", mode |-> m, urls |-> {}])
        PROVE  PolicyTypeOK'
    <3>1. [action |-> "unblock", mode |-> m, urls |-> {}] \in Commands
      BY DEF Commands
    <3> QED BY <2>2, <3>1, ReceiveType
  <2>3. ASSUME NEW apps \in SUBSET Programs,
               Receive([action |-> "blacklist", apps |-> apps])
        PROVE  PolicyTypeOK'
    <3>1. [action |-> "blacklist", apps |-> apps] \in Commands
      BY DEF Commands
    <3> QED BY <2>3, <3>1, ReceiveType
  <2>4. CASE WorkerStep \/ BackUpFails \/ WriteHostsFails \/ CacheFails
    BY <2>4, WorkerType DEF WorkerStep
  <2> QED BY <1>1, <2>1, <2>2, <2>3, <2>4, EnvironmentType DEF PolicyNext
<1>2. CASE UNCHANGED vars
  BY <1>2 DEF vars, file, worker, history, lines, bounds, PolicyTypeOK
<1> QED BY <1>1, <1>2

(***************************************************************************)
(* The hosts file, its backup, the cache and the command at work keep      *)
(* their types through writes cut off anywhere, edits and restarts; no     *)
(* block is named once it is gone, and none is left open above other lines.*)
(***************************************************************************)
THEOREM PolicyTypeCorrect == PolicySpec => []PolicyTypeOK
BY PolicyTypeInit, PolicyTypeStep, PTL DEF PolicySpec

-----------------------------------------------------------------------------
\* The administrator's lines.  What a command has read still has every line the
\* file owes, and nothing is owed by a copy before there is one.

LinesInv ==
    /\ AdminLinesKept
    /\ pc \in {"backup", "write"} => due \ exposed \subseteq content.outside
    /\ ~backup.taken => backup.lines = {}
    /\ pc = "backup" => ~backup.taken

LEMMA LinesStep == PolicyTypeOK /\ LinesInv /\ [PolicyNext]_vars => LinesInv'
<1> SUFFICES ASSUME PolicyTypeOK, LinesInv, [PolicyNext]_vars PROVE LinesInv'
  OBVIOUS
<1> USE DEF LinesInv, AdminLinesKept
<1>1. ASSUME NEW c, Receive(c) PROVE LinesInv'
  BY <1>1 DEF Receive, file, history, lines
<1>2. CASE ReadHosts
  BY <1>2 DEF ReadHosts, Stripped, Copied, file, history, lines
<1>3. CASE BackUp \/ BackUpFails
  BY <1>3 DEF BackUp, BackUpFails, file, history, lines
<1>4. CASE WriteHosts
  BY <1>4 DEF WriteHosts, WriteFile, NoBlock, Block, lines
<1>5. CASE WriteHostsFails
  BY <1>5 DEF WriteHostsFails, CutOff, Answered, file, lines
<1>6. CASE CachePolicy \/ CacheFails
  BY <1>6 DEF CachePolicy, CacheFails, Answered, file, lines
<1>7. ASSUME NEW p \in Programs, TerminateProcess(p) \/ Start(p) PROVE LinesInv'
  BY <1>7 DEF TerminateProcess, Start, file, worker, history, lines
<1>8. CASE ReadBlacklist \/ EnforceBlacklist \/ Connect \/ Disconnect \/ Tamper
  BY <1>8 DEF ReadBlacklist, EnforceBlacklist, Connect, Disconnect, Tamper,
              file, worker, history, lines
<1>9. CASE Stop
  <2>1. pc' = "idle"
    BY <1>9 DEF Stop, Answered
  <2>2. AdminLinesKept' /\ (~backup'.taken => backup'.lines = {})
    <3>1. CASE UNCHANGED <<file, backup, lines>>
      BY <3>1 DEF file, lines
    <3>2. CASE /\ pc = "backup" /\ UNCHANGED <<file, lines>>
               /\ \E part \in SUBSET (above \cup below) :
                     backup' = [taken |-> TRUE, lines |-> part]
      BY <3>2 DEF file, lines
    <3>3. CASE pc = "write" /\ CutOff /\ UNCHANGED backup
      BY <3>3 DEF CutOff
    <3> QED BY <1>9, <3>1, <3>2, <3>3 DEF Stop
  <2> QED BY <2>1, <2>2
<1>10. ASSUME NEW h \in Hosts, AddLine(h) PROVE LinesInv'
  <2>1. /\ due' \ exposed' \subseteq (due \ exposed) \cup {h}
        /\ block.state = "open" \/ pc \in {"backup", "write"}
               => due' \ exposed' \subseteq due \ exposed
    BY <1>10 DEF AddLine
  <2>2. CASE block.state = "none"
    BY <1>10, <2>1, <2>2 DEF AddLine, worker
  <2>3. CASE block.state = "closed"
    BY <1>10, <2>1, <2>3 DEF AddLine, worker
  <2>4. CASE block.state = "open"
    <3>1. /\ above' = above /\ below' = below /\ backup' = backup
          /\ saved' = saved /\ pc' = pc /\ content' = content
      BY <1>10, <2>4 DEF AddLine, worker
    <3>2. due' \ exposed' \subseteq due \ exposed
      BY <2>1, <2>4
    <3> QED BY <3>1, <3>2
  <2>5. block.state \in {"none", "open", "closed"}
    BY DEF PolicyTypeOK
  <2> QED BY <2>2, <2>3, <2>4, <2>5
<1>11. CASE UNCHANGED vars
  BY <1>11 DEF vars, file, worker, history, lines
<1> QED BY <1>1, <1>2, <1>3, <1>4, <1>5, <1>6, <1>7, <1>8, <1>9, <1>10, <1>11
        DEF PolicyNext, WorkerStep

(***************************************************************************)
(* Whatever is blocked and unblocked around them, and wherever a write or  *)
(* a copy is cut off, the administrator's lines stay in the hosts file or, *)
(* those a torn write took, in the backup, if it ever had them: all but    *)
(* those added between a command's read and its write, or to an open block.*)
(***************************************************************************)
THEOREM AdminLinesKeptAlways == PolicySpec => []AdminLinesKept
<1>1. PolicyInit => LinesInv
  BY DEF PolicyInit, LinesInv, AdminLinesKept
<1>2. LinesInv => AdminLinesKept
  BY DEF LinesInv
<1> QED BY <1>1, <1>2, LinesStep, PolicyTypeCorrect, PTL DEF PolicySpec

-----------------------------------------------------------------------------
\* The blacklist.  Between two steps of a command it stands as well.

BlacklistInv == ~unsaved => Cached = wanted

LEMMA BlacklistStep == BlacklistInv /\ [PolicyNext]_vars => BlacklistInv'
<1> SUFFICES ASSUME BlacklistInv, [PolicyNext]_vars PROVE BlacklistInv'
  OBVIOUS
<1> USE DEF BlacklistInv, Cached
<1>1. ASSUME NEW c, Receive(c) PROVE BlacklistInv'
  BY <1>1 DEF Receive, history
<1>2. CASE ReadHosts \/ BackUp \/ BackUpFails \/ WriteHosts \/ WriteHostsFails
  BY <1>2 DEF ReadHosts, BackUp, BackUpFails, WriteHosts, WriteHostsFails, history
<1>3. CASE CachePolicy
  BY <1>3 DEF CachePolicy, Updated
<1>4. CASE CacheFails
  BY <1>4 DEF CacheFails
<1>5. ASSUME NEW p \in Programs, TerminateProcess(p) \/ Start(p) PROVE BlacklistInv'
  BY <1>5 DEF TerminateProcess, Start, history
<1>6. CASE ReadBlacklist \/ EnforceBlacklist \/ Connect \/ Disconnect
  BY <1>6 DEF ReadBlacklist, EnforceBlacklist, Connect, Disconnect, history
<1>7. CASE Tamper
  BY <1>7 DEF Tamper
<1>8. CASE Stop
  BY <1>8 DEF Stop
<1>9. ASSUME NEW h \in Hosts, AddLine(h) PROVE BlacklistInv'
  BY <1>9 DEF AddLine
<1>10. CASE UNCHANGED vars
  BY <1>10 DEF vars, history
<1> QED BY <1>1, <1>2, <1>3, <1>4, <1>5, <1>6, <1>7, <1>8, <1>9, <1>10
        DEF PolicyNext, WorkerStep

(***************************************************************************)
(* The blacklist set last is the one in force, whatever website policies   *)
(* are set beside it and whenever the agent stops, unless the cache was    *)
(* lost or could not be written.                                           *)
(***************************************************************************)
THEOREM BlacklistStandsAlways == PolicySpec => []BlacklistStands
<1>1. PolicyInit => BlacklistInv
  BY DEF PolicyInit, BlacklistInv, Cached
<1>2. BlacklistInv => BlacklistStands
  BY DEF BlacklistInv, BlacklistStands
<1> QED BY <1>1, <1>2, BlacklistStep, PTL DEF PolicySpec

-----------------------------------------------------------------------------
\* What is blocked.  A block is open only where a write was cut off, so that
\* nobody else changes the names a command has read back from it.

ListedInv ==
    /\ block.state = "open" => torn
    /\ pc \in {"backup", "write"} /\ ~torn => content.managed = Managed
    /\ ~torn => /\ Rendered({n \in listed : n[2] = "bare"}) \subseteq block.names
                /\ block.names \subseteq Rendered(listed)

\* What is rendered are the names given, except for the bare form of one that
\* is never blocked, and the www form of what is bare.
LEMMA RenderedMember ==
    ASSUME NEW names, NEW n
    PROVE  n \in Rendered(names) <=>
               \/ n \in names /\ (n[2] = "www" \/ n[1] \notin Allowed)
               \/ \E m \in names : m[2] = "bare" /\ m[1] \notin Allowed /\ n = <<m[1], "www">>
BY DEF Rendered

LEMMA RenderedMonotone ==
    ASSUME NEW fewer, NEW names, fewer \subseteq names
    PROVE  Rendered(fewer) \subseteq Rendered(names)
BY RenderedMember

\* A merge keeps the block as listed: the names it reads back are those that
\* were listed in their bare form and may be blocked.
LEMMA MergeAsListed ==
    ASSUME NEW old, NEW names, NEW urls,
           Rendered({n \in old : n[2] = "bare"}) \subseteq names,
           names \subseteq Rendered(old)
    PROVE  LET merged == Rendered({n \in names : n[2] = "bare"} \cup urls)
           IN  /\ Rendered({n \in old \cup urls : n[2] = "bare"}) \subseteq merged
               /\ merged \subseteq Rendered(old \cup urls)
<1> DEFINE managed == {n \in names : n[2] = "bare"}
<1>1. managed \subseteq old
  <2> SUFFICES ASSUME NEW n \in managed PROVE n \in old
    OBVIOUS
  <2>1. n \in Rendered(old) /\ n[2] = "bare"
    OBVIOUS
  <2>2. \A m : n # <<m[1], "www">>
    BY <2>1
  <2> QED BY <2>1, <2>2, RenderedMember
<1>2. Rendered(managed \cup urls) \subseteq Rendered(old \cup urls)
  <2>1. managed \cup urls \subseteq old \cup urls
    BY <1>1
  <2> QED BY <2>1, RenderedMonotone
<1>3. \A m \in old \cup urls : m[2] = "bare" /\ m[1] \notin Allowed => m \in managed \cup urls
  <2> SUFFICES ASSUME NEW m \in old, m[2] = "bare", m[1] \notin Allowed
               PROVE  m \in managed
    OBVIOUS
  <2>1. m \in Rendered({n \in old : n[2] = "bare"})
    BY RenderedMember
  <2> QED BY <2>1
<1>4. Rendered({n \in old \cup urls : n[2] = "bare"}) \subseteq Rendered(managed \cup urls)
  <2> SUFFICES ASSUME NEW n \in Rendered({m \in old \cup urls : m[2] = "bare"})
               PROVE  n \in Rendered(managed \cup urls)
    OBVIOUS
  <2> DEFINE bare == {m \in old \cup urls : m[2] = "bare"}
  <2>1. CASE n \in bare /\ n[1] \notin Allowed
    <3>1. n \in managed \cup urls
      BY <1>3, <2>1
    <3> HIDE DEF managed
    <3> QED BY <2>1, <3>1, RenderedMember
  <2>2. ASSUME NEW m \in bare, m[1] \notin Allowed, n = <<m[1], "www">>
        PROVE  n \in Rendered(managed \cup urls)
    <3>1. m \in managed \cup urls /\ m[2] = "bare"
      BY <1>3, <2>2
    <3> HIDE DEF managed
    <3> QED BY <2>2, <3>1, RenderedMember
  <2>3. n \in bare => n[2] # "www"
    OBVIOUS
  <2>4. \/ n \in bare /\ (n[2] = "www" \/ n[1] \notin Allowed)
        \/ \E m \in bare : m[2] = "bare" /\ m[1] \notin Allowed /\ n = <<m[1], "www">>
    BY RenderedMember
  <2> QED BY <2>1, <2>2, <2>3, <2>4
<1> QED BY <1>2, <1>4

LEMMA ListedStep == PolicyTypeOK /\ ListedInv /\ [PolicyNext]_vars => ListedInv'
<1> SUFFICES ASSUME PolicyTypeOK, ListedInv, [PolicyNext]_vars PROVE ListedInv'
  OBVIOUS
<1> DEFINE Bare == {n \in listed : n[2] = "bare"}
\* A step that leaves the file and what is listed alone.
<1>0. ASSUME UNCHANGED <<block, listed, torn>>,
             pc' \in {"backup", "write"} =>
                 content'.managed = Managed \/ (pc \in {"backup", "write"} /\ content' = content)
      PROVE  ListedInv'
  <2>1. Managed' = Managed /\ Rendered(Bare)' = Rendered(Bare) /\ Rendered(listed)' = Rendered(listed)
    BY <1>0 DEF Managed, Rendered
  <2> QED BY <1>0, <2>1 DEF ListedInv
\* A write that is cut off.
<1>1. ASSUME CutOff, pc' = "idle" PROVE ListedInv'
  BY <1>1 DEF ListedInv, CutOff
<1>2. ASSUME NEW c, Receive(c) PROVE ListedInv'
  BY <1>0, <1>2 DEF Receive, file, history
<1>3. CASE ReadHosts
  BY <1>0, <1>3 DEF ReadHosts, file, history
<1>4. CASE BackUp \/ BackUpFails
  BY <1>0, <1>4 DEF BackUp, BackUpFails, file, history
<1>5. CASE WriteHosts
  <2>1. pc = "write" /\ pc' = "cache" /\ command \in Commands
        /\ command.action \in {"block", "replace", "unblock"} /\ block'.state # "open"
    BY <1>5, AppliedType DEF WriteHosts, WriteFile, NoBlock, Block
  <2>2. CASE command.action = "unblock"
    <3>1. listed' = {} /\ block'.names = {}
      BY <1>5, <2>2 DEF WriteHosts, WriteFile, NoBlock, Block
    <3>2. Rendered({n \in listed' : n[2] = "bare"}) = {} /\ Rendered(listed') = {}
      BY <3>1 DEF Rendered
    <3> QED BY <2>1, <3>1, <3>2 DEF ListedInv, Rendered
  <2>3. CASE command.action = "replace"
    <3>1. listed' = command.urls /\ block'.names = Rendered(command.urls)
      BY <1>5, <2>3 DEF WriteHosts, WriteFile, NoBlock, Block, Applied
    <3>2. Rendered({n \in listed' : n[2] = "bare"}) \subseteq Rendered(listed')
      BY RenderedMonotone
    <3> QED BY <2>1, <3>1, <3>2 DEF ListedInv, Rendered
  <2>4. CASE command.action = "block"
    <3>1. listed' = listed \cup command.urls
      BY <1>5, <2>4 DEF WriteHosts
    <3>4. block'.names = Rendered(content.managed \cup command.urls)
      BY <1>5, <2>4 DEF WriteHosts, WriteFile, NoBlock, Block, Applied
    <3>2. CASE torn
      <4>1. torn'
        BY <1>5, <2>4, <3>2 DEF WriteHosts
      <4> QED BY <2>1, <4>1 DEF ListedInv
    <3>3. CASE ~torn
      <4>1. content.managed = {n \in block.names : n[2] = "bare"}
        BY <2>1, <3>3 DEF ListedInv, Managed
      <4>2. /\ Rendered({n \in listed : n[2] = "bare"}) \subseteq block.names
            /\ block.names \subseteq Rendered(listed)
        BY <3>3 DEF ListedInv
      <4>3. LET merged == Rendered({n \in block.names : n[2] = "bare"} \cup command.urls)
            IN  /\ Rendered({n \in listed \cup command.urls : n[2] = "bare"}) \subseteq merged
                /\ merged \subseteq Rendered(listed \cup command.urls)
        BY <4>2, MergeAsListed
      <4>4. block'.names = Rendered({n \in block.names : n[2] = "bare"} \cup command.urls)
        BY <3>4, <4>1
      <4>5. /\ Rendered({n \in listed' : n[2] = "bare"}) \subseteq block'.names
            /\ block'.names \subseteq Rendered(listed')
        BY <3>1, <4>3, <4>4
      <4> QED BY <2>1, <4>5 DEF ListedInv, Rendered
    <3> QED BY <3>2, <3>3
  <2> QED BY <2>1, <2>2, <2>3, <2>4
<1>6. CASE WriteHostsFails
  <2>1. CASE CutOff
    BY <1>1, <1>6, <2>1 DEF WriteHostsFails, Answered
  <2>2. CASE UNCHANGED <<file, lines, torn>>
    BY <1>0, <1>6, <2>2 DEF WriteHostsFails, Answered, file
  <2> QED BY <1>6, <2>1, <2>2 DEF WriteHostsFails
<1>7. CASE CachePolicy \/ CacheFails
  BY <1>0, <1>7 DEF CachePolicy, CacheFails, Answered, file
<1>8. ASSUME NEW p \in Programs, TerminateProcess(p) \/ Start(p) PROVE ListedInv'
  BY <1>0, <1>8 DEF TerminateProcess, Start, file, worker, history
<1>9. CASE ReadBlacklist \/ EnforceBlacklist \/ Connect \/ Disconnect \/ Tamper
  BY <1>0, <1>9 DEF ReadBlacklist, EnforceBlacklist, Connect, Disconnect, Tamper,
                    file, worker, history
<1>10. CASE Stop
  <2>1. pc' = "idle" /\ listed' = listed
    BY <1>10 DEF Stop, Answered
  <2>2. CASE CutOff
    BY <1>1, <2>1, <2>2
  <2>3. CASE UNCHANGED <<file, torn>>
    BY <1>0, <2>1, <2>3 DEF file
  <2> QED BY <1>10, <2>2, <2>3 DEF Stop
<1>11. ASSUME NEW h \in Hosts, AddLine(h) PROVE ListedInv'
  <2>1. CASE block.state = "open"
    <3>1. torn /\ torn' = torn
      BY <1>11, <2>1 DEF ListedInv, AddLine
    <3> QED BY <3>1 DEF ListedInv
  <2>2. CASE block.state \in {"none", "closed"}
    <3>1. UNCHANGED <<block, listed, torn, pc, content>>
      BY <1>11, <2>2 DEF AddLine, worker
    <3> QED BY <1>0, <3>1
  <2> QED BY <2>1, <2>2 DEF PolicyTypeOK
<1>12. CASE UNCHANGED vars
  BY <1>0, <1>12 DEF vars, file, worker, history
<1> QED BY <1>2, <1>3, <1>4, <1>5, <1>6, <1>7, <1>8, <1>9, <1>10, <1>11, <1>12
        DEF PolicyNext, WorkerStep

(***************************************************************************)
(* Once a command is done the block holds what was listed, in whichever    *)
(* mode, each bare domain in both forms and no name that is never blocked, *)
(* however many merges read it back, unless a write was cut off since.     *)
(***************************************************************************)
THEOREM BlockedAsListedAlways == PolicySpec => []BlockedAsListed
<1>1. PolicyInit => ListedInv
  BY DEF PolicyInit, ListedInv, Rendered, NoBlock, Block
<1>2. ListedInv => BlockedAsListed
  BY DEF ListedInv, BlockedAsListed
<1> QED BY <1>1, <1>2, ListedStep, PolicyTypeCorrect, PTL DEF PolicySpec

=============================================================================
