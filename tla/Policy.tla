------------------------------- MODULE Policy -------------------------------
(***************************************************************************)
(* Access control on one client: client/policy.py over the hosts file and  *)
(* the signed cache of client/state.py, the commands of client/executor.py *)
(* that set it, and the monitoring cycle of client/main.py that enforces   *)
(* the application blacklist.                                              *)
(*                                                                         *)
(* The hosts file is other people's too: their lines stand outside the     *)
(* managed block.  It is read, backed up and overwritten in place, in      *)
(* steps between which somebody may edit it or the machine may stop.  A    *)
(* block cut off before its end marker takes in every line after it.       *)
(*                                                                         *)
(* The listener runs one command at a time, and a session ends only        *)
(* between two of them.  A policy of an unknown mode, or one for which the *)
(* file cannot be read, changes nothing and is left out; so is what the    *)
(* cache holds of the website policy, which nothing reads.                 *)
(***************************************************************************)
EXTENDS Naturals, FiniteSets

CONSTANTS
    Sites,          \* domains a policy may name
    Allowed,        \* WHITELIST_ALWAYS_ALLOWED
    Hosts,          \* hosts the administrator has lines for
    Programs,       \* names of programs
    Protected,      \* programs that refuse to be terminated
    MaxUrls,        \* bound: names in one command
    MaxCommands,    \* bound: commands received
    MaxFaults       \* bound: crashes, failed writes and the like

ASSUME PolicyAssumption ==
    /\ Allowed \subseteq Sites
    /\ Protected \subseteq Programs
    /\ MaxUrls \in Nat /\ MaxCommands \in Nat /\ MaxFaults \in Nat

VARIABLES
    above,      \* the hosts file: lines above the managed block,
    block,      \* the block,
    below,      \* and the lines below it
    backup,     \* the copy of it
    cache,      \* POLICY_FILE
    running,    \* programs running
    session,    \* whether the session's loops run
    pc,         \* where the command at work is
    command,    \* what it asks for
    content,    \* the hosts file as it read it
    enforcing,  \* the blacklist a cycle has read, while it enforces
    due,        \* history: the administrator's lines the file owes,
    exposed,    \* those of them added to an open block, or while a command is at the file,
    saved,      \* and those the backup owes since a write was cut off
    listed,     \* history: names the website policies list
    wanted,     \* history: the blacklist set last
    torn,       \* history: whether a write was cut off and not yet made good
    unsaved,    \* history: whether the cache was lost, or a write to it
    commands, faults

file == <<above, block, below>>
worker == <<pc, command, content>>
lines == <<due, exposed, saved>>
history == <<lines, listed, wanted, torn, unsaved>>
bounds == <<commands, faults>>
vars == <<file, backup, cache, running, session, worker, enforcing, history, bounds>>

\* A name is a domain or its www form.
Names == (Sites \cup Hosts) \X {"bare", "www"}

Urls == {u \in SUBSET (Sites \X {"bare", "www"}) : Cardinality(u) <= MaxUrls}

Contents == [outside : SUBSET Hosts, managed : SUBSET Names]

Blank == [outside |-> {}, managed |-> {}]

\* POLICY_MODE_BLACKLIST, POLICY_MODE_WHITELIST
Modes == {"blacklist", "whitelist"}

\* The commands with several steps.
Commands ==
    [action : {"block", "replace", "unblock"}, mode : Modes,
     urls : SUBSET (Sites \X {"bare", "www"})]
        \cup [action : {"blacklist"}, apps : SUBSET Programs]

Idle == [action |-> "none"]

PolicyTypeOK ==
    /\ above \in SUBSET Hosts /\ below \in SUBSET Hosts
    /\ block \in [state : {"none", "open", "closed"}, names : SUBSET Names]
    /\ block.state = "none" => block.names = {} /\ below = {}
    /\ block.state = "open" => below = {}
    /\ backup \in [taken : BOOLEAN, lines : SUBSET Hosts]
    /\ cache \in [state : {"absent", "valid", "tampered"}, apps : SUBSET Programs]
    /\ running \in SUBSET Programs
    /\ session \in BOOLEAN
    /\ pc \in {"idle", "read", "backup", "write", "cache"}
    /\ command \in Commands \cup {Idle}
    /\ pc = "idle" <=> command = Idle
    /\ pc \in {"read", "backup", "write"} => command.action # "blacklist"
    /\ pc # "idle" => session
    /\ content \in Contents
    /\ enforcing \in SUBSET Programs
    /\ due \in SUBSET Hosts /\ exposed \in SUBSET Hosts /\ saved \in SUBSET Hosts /\ listed \in SUBSET Names
    /\ wanted \in SUBSET Programs
    /\ torn \in BOOLEAN /\ unsaved \in BOOLEAN
    /\ commands \in 0..MaxCommands /\ faults \in 0..MaxFaults

Block(state, names) == [state |-> state, names |-> names]

NoBlock == Block("none", {})

PolicyInit ==
    /\ above \in SUBSET Hosts /\ due = above
    /\ block = NoBlock /\ below = {}
    /\ backup = [taken |-> FALSE, lines |-> {}]
    /\ cache = [state |-> "absent", apps |-> {}]
    /\ running = {} /\ session = FALSE
    /\ pc = "idle" /\ command = Idle /\ content = Blank
    /\ enforcing = {}
    /\ exposed = {} /\ saved = {} /\ listed = {} /\ wanted = {} /\ torn = FALSE /\ unsaved = FALSE
    /\ commands = 0 /\ faults = 0

Fault == faults < MaxFaults /\ faults' = faults + 1 /\ UNCHANGED commands

-----------------------------------------------------------------------------
\* What is read from the hosts file and what is written to it.

\* A mutated form: the lines after the end marker are taken for managed ones.
StrippedToBlock == above

\* strip_managed_block
Stripped == above \cup below

\* _managed_domains
Managed == {n \in block.names : n[2] = "bare"}

\* render_managed_block: a bare domain brings its www form with it.  The mode of
\* the command is only a comment above the names: what is listed is blocked in either.
Rendered(names) ==
    LET barred == {n \in names : n[2] = "www" \/ n[1] \notin Allowed}
    IN  barred \cup {<<n[1], "www">> : n \in {m \in barred : m[2] = "bare"}}

\* A mutated form: the blocked names are replaced, not merged.
Replacing(c, managed) == c.urls

Applied(c, managed) ==
    IF c.action = "block" THEN managed \cup c.urls ELSE c.urls

WriteFile(outside, written) == above' = outside /\ below' = {} /\ block' = written

\* The file is truncated and then filled from the top.
CutOff ==
    /\ \/ \E part \in SUBSET content.outside : WriteFile(part, NoBlock)
       \/ /\ command.action # "unblock"
          /\ \E part \in SUBSET Rendered(Applied(command, content.managed)) :
                WriteFile(content.outside, Block("open", part))
    /\ due' = due \cap above'
    /\ saved' = saved \cup ((due \ above') \cap backup.lines)
    /\ exposed' = exposed
    /\ torn' = TRUE

-----------------------------------------------------------------------------
\* Commands.

Receive(c) ==
    /\ session /\ pc = "idle"
    /\ commands < MaxCommands /\ commands' = commands + 1
    /\ command' = c
    /\ pc' = IF c.action = "blacklist" THEN "cache" ELSE "read"
    /\ UNCHANGED <<file, backup, cache, running, session, content, enforcing, history, faults>>

Answered == pc' = "idle" /\ command' = Idle

\* A mutated form: the copy is made anew before every write.
NeverCopied == FALSE

\* _write_hosts keeps the copy there is.
Copied == backup.taken

ReadHosts ==
    /\ pc = "read"
    /\ content' = [outside |-> Stripped, managed |-> Managed]
    /\ pc' = IF Copied THEN "write" ELSE "backup"
    /\ UNCHANGED <<file, backup, cache, running, session, command, enforcing, history, bounds>>

BackUp ==
    /\ pc = "backup"
    /\ backup' = [taken |-> TRUE, lines |-> above \cup below]
    /\ pc' = "write"
    /\ UNCHANGED <<file, cache, running, session, command, content, enforcing, history, bounds>>

\* copy2 raises: the write goes on, and what there is of the copy stays.  If that
\* is none, the next write tries again, on what the file holds by then.
BackUpFails ==
    /\ pc = "backup"
    /\ \/ UNCHANGED backup
       \/ \E part \in SUBSET (above \cup below) :
             backup' = [taken |-> TRUE, lines |-> part]
    /\ pc' = "write"
    /\ Fault
    /\ UNCHANGED <<file, cache, running, session, command, content, enforcing, history>>

WriteHosts ==
    /\ pc = "write"
    /\ IF command.action = "unblock"
       THEN WriteFile(content.outside, NoBlock)
       ELSE WriteFile(content.outside,
                      Block("closed", Rendered(Applied(command, content.managed))))
    /\ listed' = CASE command.action = "block" -> listed \cup command.urls
                  [] command.action = "replace" -> command.urls
                  [] OTHER -> {}
    /\ torn' = (torn /\ command.action = "block")
    /\ pc' = "cache"
    /\ UNCHANGED <<backup, cache, running, session, command, content, enforcing,
                   lines, wanted, unsaved, bounds>>

\* The file may not be opened, or the disk is full half way.
WriteHostsFails ==
    /\ pc = "write"
    /\ Answered
    /\ Fault
    /\ \/ CutOff
       \/ UNCHANGED <<file, lines, torn>>
    /\ UNCHANGED <<backup, cache, running, session, content, enforcing, listed, wanted, unsaved>>

\* load_cached_policy: a cache that fails its check is as good as none.
Cached == IF cache.state = "valid" THEN cache.apps ELSE {}

\* A mutated form: the current policy is not read first.
OnlyNew(c) == IF c.action = "blacklist" THEN c.apps ELSE {}

\* cache_policy: what the command does not set is kept.
Updated(c) == IF c.action = "blacklist" THEN c.apps ELSE Cached

CachePolicy ==
    /\ pc = "cache"
    /\ cache' = [state |-> "valid", apps |-> Updated(command)]
    /\ IF command.action = "blacklist"
       THEN wanted' = command.apps /\ unsaved' = FALSE
       ELSE UNCHANGED <<wanted, unsaved>>
    /\ Answered
    /\ UNCHANGED <<file, backup, running, session, content, enforcing, lines, listed, torn, bounds>>

\* The error is logged, and the command succeeds.
CacheFails ==
    /\ pc = "cache"
    /\ wanted' = IF command.action = "blacklist" THEN command.apps ELSE wanted
    /\ unsaved' = (unsaved \/ command.action = "blacklist")
    /\ Answered
    /\ Fault
    /\ UNCHANGED <<file, backup, cache, running, session, content, enforcing, lines, listed, torn>>

\* terminate_process: over in one step of the event loop.
TerminateProcess(p) ==
    /\ session /\ pc = "idle"
    /\ p \in running \ Protected
    /\ running' = running \ {p}
    /\ UNCHANGED <<file, backup, cache, session, worker, enforcing, history, bounds>>

WorkerStep == ReadHosts \/ BackUp \/ WriteHosts \/ CachePolicy

-----------------------------------------------------------------------------
\* The monitoring cycle.

ReadBlacklist ==
    /\ session /\ enforcing = {}
    /\ enforcing' = Cached
    /\ UNCHANGED <<file, backup, cache, running, session, worker, history, bounds>>

\* A mutated form: the first program that refuses ends the pass.
EnforceUntilRefused ==
    /\ enforcing # {}
    /\ running' = IF enforcing \cap running \cap Protected = {}
                  THEN running \ enforcing ELSE running
    /\ enforcing' = {}
    /\ UNCHANGED <<file, backup, cache, session, worker, history, bounds>>

\* Its thread is not stopped with the session.
EnforceBlacklist ==
    /\ enforcing # {}
    /\ running' = running \ (enforcing \ Protected)
    /\ enforcing' = {}
    /\ UNCHANGED <<file, backup, cache, session, worker, history, bounds>>

-----------------------------------------------------------------------------
\* The environment.

Connect ==
    /\ ~session /\ session' = TRUE
    /\ UNCHANGED <<file, backup, cache, running, worker, enforcing, history, bounds>>

\* A mutated form: the session does not wait for the command.
DisconnectNow ==
    /\ session /\ session' = FALSE
    /\ UNCHANGED <<file, backup, cache, running, worker, enforcing, history, bounds>>

Disconnect ==
    /\ session /\ pc = "idle" /\ session' = FALSE
    /\ UNCHANGED <<file, backup, cache, running, worker, enforcing, history, bounds>>

Start(p) ==
    /\ p \notin running /\ running' = running \cup {p}
    /\ UNCHANGED <<file, backup, cache, session, worker, enforcing, history, bounds>>

\* The administrator appends a line.  One that lands in an open block is read
\* as a managed domain, and one that lands between a command's read of the file
\* and its write is overwritten.
AddLine(h) ==
    /\ h \notin above \cup below
    /\ due' = due \cup {h}
    /\ CASE block.state = "none" -> above' = above \cup {h} /\ UNCHANGED <<block, below>>
         [] block.state = "closed" -> below' = below \cup {h} /\ UNCHANGED <<above, block>>
         [] OTHER -> /\ block' = [block EXCEPT !.names = @ \cup {<<h, "bare">>}]
                     /\ UNCHANGED <<above, below>>
    /\ exposed' = IF block.state = "open" \/ pc \in {"backup", "write"}
                  THEN exposed \cup {h} ELSE exposed \ {h}
    /\ UNCHANGED <<backup, cache, running, session, worker, enforcing,
                   saved, listed, wanted, torn, unsaved, bounds>>

\* The cache stops matching its signature.
Tamper ==
    /\ cache.state = "valid"
    /\ cache' = [cache EXCEPT !.state = "tampered"]
    /\ unsaved' = TRUE
    /\ Fault
    /\ UNCHANGED <<file, backup, running, session, worker, enforcing, lines, listed, wanted, torn>>

\* The agent dies, or the machine with everything on it.  A copy or a write
\* it was at is cut off; the cache is moved into place whole.
Stop ==
    /\ Fault
    /\ session' = FALSE /\ Answered /\ content' = Blank /\ enforcing' = {}
    /\ running' \in {running, {}}
    /\ \/ UNCHANGED <<file, backup, lines, torn>>
       \/ /\ pc = "backup"
          /\ \E part \in SUBSET (above \cup below) :
                backup' = [taken |-> TRUE, lines |-> part]
          /\ UNCHANGED <<file, lines, torn>>
       \/ /\ pc = "write"
          /\ CutOff
          /\ UNCHANGED backup
    /\ UNCHANGED <<cache, listed, wanted, unsaved>>

PolicyNext ==
    \/ \E action \in {"block", "replace"}, m \in Modes, u \in Urls :
          Receive([action |-> action, mode |-> m, urls |-> u])
    \/ \E m \in Modes : Receive([action |-> "unblock", mode |-> m, urls |-> {}])
    \/ \E apps \in SUBSET Programs : Receive([action |-> "blacklist", apps |-> apps])
    \/ WorkerStep \/ BackUpFails \/ WriteHostsFails \/ CacheFails
    \/ \E p \in Programs : TerminateProcess(p) \/ Start(p)
    \/ ReadBlacklist \/ EnforceBlacklist
    \/ Connect \/ Disconnect \/ Tamper \/ Stop
    \/ \E h \in Hosts : AddLine(h)

PolicySpec == PolicyInit /\ [][PolicyNext]_vars

(***************************************************************************)
(* A command's thread runs on, and so does the monitoring cycle: one in    *)
(* which the collection before it raises is a cycle late.  Nobody owes the *)
(* agent a connection.                                                     *)
(***************************************************************************)
PolicyFairSpec ==
    /\ PolicySpec
    /\ WF_vars(WorkerStep) /\ WF_vars(ReadBlacklist) /\ WF_vars(EnforceBlacklist)

-----------------------------------------------------------------------------
\* Properties.

(***************************************************************************)
(* policy.py: the rest of the file, "which may carry unrelated entries an  *)
(* administrator put there - is never touched".  Whatever is blocked and   *)
(* unblocked around it, a line stays in the file; a write that is cut off  *)
(* may cost it, but if the copy of the original has it, the copy keeps it. *)
(* Excepted are lines added while a command is between its read and its    *)
(* write, which does touch them, and those added to a block that a cut-off *)
(* write left open.                                                        *)
(***************************************************************************)
AdminLinesKept == due \ exposed \subseteq above \cup below /\ saved \subseteq backup.lines

(***************************************************************************)
(* Once a command is done, what is blocked is what the commands since the  *)
(* last replacement list, in either mode ("the domains the Engine listed   *)
(* as NOT permitted"), each bare domain in both its forms, and none of the *)
(* names that are never blocked.  What a cut-off write left is no such     *)
(* thing until it is replaced, and a domain named in its www form only may *)
(* be gone: the next merge does not read it back.                          *)
(***************************************************************************)
BlockedAsListed ==
    pc = "idle" /\ ~torn =>
        /\ Rendered({n \in listed : n[2] = "bare"}) \subseteq block.names
        /\ block.names \subseteq Rendered(listed)

(***************************************************************************)
(* The blacklist set last is the one enforced, across website policies,    *)
(* disconnections and restarts: the two policies share one file.  Only a   *)
(* cache that could not be written, or was tampered with, loses it.        *)
(***************************************************************************)
BlacklistStands == pc = "idle" /\ ~unsaved => Cached = wanted

(***************************************************************************)
(* A blacklisted program that is started ends, unless it refuses to, for   *)
(* as long as the session lasts and the list stands, whatever commands are *)
(* at work and whichever of its companions cannot be terminated.           *)
(***************************************************************************)
ListedProgramsEnd ==
    \A p \in Programs \ Protected :
        p \in running /\ p \in Cached /\ session
            ~> p \notin running \/ p \notin Cached \/ ~session
=============================================================================
