---------------------------- MODULE CommandBatch ----------------------------
(***************************************************************************)
(* One heartbeat's commands on the device: the poll loop fetches deferred  *)
(* payloads, Handler.ExecuteBatch runs the commands (internal/commands),   *)
(* and the results go back. The scripts commands read and change the       *)
(* directories of ScriptStore, where an administrator's nixstasis script   *)
(* command works at the same time. run_script stands for the serial        *)
(* commands that leave the scripts alone: run_script itself, ssh_authorize *)
(* and ssh_revoke, and apply_command_policy (see CommandPolicy).           *)
(***************************************************************************)
EXTENDS ScriptStore

CONSTANTS
  Ids,          \* command ids of the server
  PollCap,      \* MaxCommandsPerPoll
  MaxParallel,  \* maxConcurrentNonSerialCommands
  Deliveries,   \* bound: the command lists the server sends
  Layouts,      \* bound: the disks the service starts on
  CliScripts    \* bound: the scripts an administrator installs

NoId == ""
Commands ==
  [id : Ids \cup {NoId},
   type : {"list_scripts", "install_script", "remove_script", "run_script", "unsupported"},
   name : Names, version : Versions,
   deferred : BOOLEAN]  \* the payload must be fetched by reference

ASSUME BatchSizes == PollCap \in Nat /\ MaxParallel \in Nat \ {0}
ASSUME DeliveryAssumption == Deliveries \subseteq Seq(Commands)
ASSUME DiskAssumption == Layouts \subseteq Disks /\ CliScripts \subseteq Names \X Versions

Slots == 1..PollCap

VARIABLES
  phase,    \* handleCommandResponses and ExecuteBatch: where the poll loop is
  cmds,     \* the commands of this heartbeat, up to the cap
  next,     \* the position ExecuteBatch has come to
  batch,    \* positions collected for the next flushBatch
  pc,       \* what executes at each position
  todo,     \* directories its DiscoverScripts has yet to read
  found,    \* scripts its DiscoverScripts has read
  result,   \* the answer at each position
  late,     \* positions whose command context is done
  stopping, \* the service is being stopped: the context of the loop is done
  disk,
  cli,      \* the administrator's command
  raced     \* history: the administrator wrote since the serial command began

position == <<next, batch>>
scan == <<todo, found>>
vars == <<phase, cmds, next, batch, pc, todo, found, result, late, stopping, disk, cli, raced>>

Infos == [name : Names \cup {""}, version : Versions \cup {""}, path : Paths]
NoCli == [at |-> "off", name |-> "", version |-> ""]
Clis == [at : {"off", "write"}, name : Names \cup {""}, version : Versions \cup {""}]

Answers == {"ok", "refused", "failed", "timeout", "payload_fetch_failed",
            "missing_command_id", "duplicate_command_id"}

TypeOK ==
  /\ phase \in {"poll", "loop", "flush", "serial", "send"}
  /\ cmds \in Seq(Commands) /\ Len(cmds) <= PollCap
  /\ next \in Nat /\ batch \in SUBSET Slots
  /\ pc \in [Slots -> {"off", "waiting", "check", "scan", "done"}]
  /\ todo \in [Slots -> Seq(Dirs)]
  /\ found \in [Slots -> SUBSET Infos]
  /\ result \in [Slots -> Answers \cup {"none"}]
  /\ late \in SUBSET Slots
  /\ stopping \in BOOLEAN /\ raced \in BOOLEAN
  /\ disk \in Disks
  /\ cli \in Clis

Blank(v) == [i \in Slots |-> v]

Init ==
  /\ phase = "poll" /\ cmds = <<>> /\ next = 1 /\ batch = {}
  /\ pc = Blank("off") /\ todo = Blank(<<>>) /\ found = Blank({})
  /\ result = Blank("none") /\ late = {}
  /\ stopping = FALSE /\ raced = FALSE
  /\ disk \in Layouts
  /\ cli = NoCli

-----------------------------------------------------------------------------
(* handleCommandResponses and ExecuteBatch *)

Positions == 1..Len(cmds)
\* Fault: install_script is left out of commandRequiresSerial.
SerialButInstall(c) == c.type \in {"remove_script", "run_script"}
Serial(c) == c.type \in {"install_script", "remove_script", "run_script"}
Is(i, type) == i \in Positions /\ cmds[i].type = type
Running == {i \in Slots : pc[i] \in {"check", "scan"}}
Expired(i) == i \in late \/ stopping

\* The cap, then hydrateCommandPayloads: every fetch is over before a command
\* runs, and what could not be fetched is answered without the handler.
Receive(d) ==
  /\ phase = "poll" /\ ~stopping
  /\ LET given == SubSeq(d, 1, IF Len(d) < PollCap THEN Len(d) ELSE PollCap) IN
     /\ cmds' = given
     /\ \E lost \in SUBSET {i \in 1..Len(given) : given[i].deferred} :
          result' = [i \in Slots |-> IF i \in lost THEN "payload_fetch_failed" ELSE "none"]
  /\ phase' = "loop" /\ next' = 1 /\ batch' = {}
  /\ UNCHANGED <<pc, scan, late, stopping, disk, cli, raced>>

\* seen: ids of ready commands only, so a command that could not be fetched does
\* not make its repetition a duplicate.
Repeats(i) == \E j \in 1..(i - 1) : cmds[j].id = cmds[i].id /\ result[j] # "payload_fetch_failed"

AtLoop(i) == phase = "loop" /\ i = next /\ i \in Positions

Skip(i) ==
  /\ AtLoop(i) /\ result[i] = "payload_fetch_failed"
  /\ next' = next + 1
  /\ UNCHANGED <<phase, cmds, batch, pc, scan, result, late, stopping, disk, cli, raced>>

Reject(i) ==
  /\ AtLoop(i) /\ result[i] = "none"
  /\ \/ cmds[i].id = NoId /\ result' = [result EXCEPT ![i] = "missing_command_id"]
     \/ /\ cmds[i].id # NoId /\ Repeats(i)
        /\ result' = [result EXCEPT ![i] = "duplicate_command_id"]
  /\ next' = next + 1
  /\ UNCHANGED <<phase, cmds, batch, pc, scan, late, stopping, disk, cli, raced>>

\* Fault: the handler does not look for repeated ids.
AcceptedAgain(i) == AtLoop(i) /\ result[i] = "none" /\ cmds[i].id # NoId
Accepted(i) == AtLoop(i) /\ result[i] = "none" /\ cmds[i].id # NoId /\ ~Repeats(i)

Collect(i) ==
  /\ Accepted(i) /\ ~Serial(cmds[i])
  /\ batch' = batch \cup {i} /\ next' = next + 1
  /\ UNCHANGED <<phase, cmds, pc, scan, result, late, stopping, disk, cli, raced>>

\* flushBatch: a goroutine for each, and wg.Wait.
FlushDue == \/ next > Len(cmds)
            \/ next \in Positions /\ Accepted(next) /\ Serial(cmds[next])

Flush ==
  /\ phase = "loop" /\ batch # {} /\ FlushDue
  /\ phase' = "flush"
  /\ pc' = [i \in Slots |-> IF i \in batch THEN "waiting" ELSE pc[i]]
  /\ UNCHANGED <<cmds, position, scan, result, late, stopping, disk, cli, raced>>

\* Fault: the goroutine of a command that times out never calls Done.
FlushOverUnlessTimeout ==
  /\ phase = "flush" /\ \A i \in batch : pc[i] = "done" /\ result[i] # "timeout"
  /\ phase' = "loop" /\ batch' = {}
  /\ UNCHANGED <<cmds, next, pc, scan, result, late, stopping, disk, cli, raced>>

FlushOver ==
  /\ phase = "flush" /\ \A i \in batch : pc[i] = "done"
  /\ phase' = "loop" /\ batch' = {}
  /\ UNCHANGED <<cmds, next, pc, scan, result, late, stopping, disk, cli, raced>>

Execute(i) ==
  /\ Accepted(i) /\ Serial(cmds[i]) /\ batch = {}
  /\ phase' = "serial" /\ pc' = [pc EXCEPT ![i] = "check"]
  /\ UNCHANGED <<cmds, position, scan, result, late, stopping, disk, cli, raced>>

Executed(i) ==
  /\ phase = "serial" /\ i = next /\ pc[i] = "done"
  /\ phase' = "loop" /\ next' = next + 1
  /\ raced' = FALSE
  /\ UNCHANGED <<cmds, batch, pc, scan, result, late, stopping, disk, cli>>

\* Fault: what was collected last is not flushed.
EndWithoutFlush ==
  /\ phase = "loop" /\ next > Len(cmds)
  /\ phase' = "send"
  /\ UNCHANGED <<cmds, position, pc, scan, result, late, stopping, disk, cli, raced>>

EndOfBatch ==
  /\ phase = "loop" /\ next > Len(cmds) /\ batch = {}
  /\ phase' = "send"
  /\ UNCHANGED <<cmds, position, pc, scan, result, late, stopping, disk, cli, raced>>

\* SendCommandResults, once: when it fails the results are lost.
Send ==
  /\ phase = "send"
  /\ phase' = "poll" /\ cmds' = <<>> /\ next' = 1
  /\ pc' = Blank("off") /\ todo' = Blank(<<>>) /\ found' = Blank({})
  /\ result' = Blank("none")
  /\ UNCHANGED <<batch, late, stopping, disk, cli, raced>>

-----------------------------------------------------------------------------
(* What runs at a position: executeOne and the handlers *)

Finish(i, answer) ==
  /\ pc' = [pc EXCEPT ![i] = "done"]
  /\ result' = [result EXCEPT ![i] = answer]
  /\ found' = [found EXCEPT ![i] = IF Is(i, "list_scripts") THEN @ ELSE {}]
  /\ late' = late \ {i}
  /\ UNCHANGED <<phase, cmds, position, todo, stopping, cli, raced>>

Acquire(i) ==
  /\ pc[i] = "waiting" /\ Cardinality(Running) < MaxParallel
  /\ pc' = [pc EXCEPT ![i] = "check"]
  /\ UNCHANGED <<phase, cmds, position, scan, result, late, stopping, disk, cli, raced>>

\* <-ctx.Done() while the command waits for its turn, which commandTimeout does
\* not count.
Abandon(i) ==
  /\ pc[i] = "waiting" /\ stopping
  /\ Finish(i, "timeout") /\ UNCHANGED disk

\* The checks of the context and of the payload before DiscoverScripts.
TooLate(i) ==
  /\ pc[i] = "check" /\ Expired(i)
  /\ Finish(i, "timeout") /\ UNCHANGED disk

Refuse(i) ==
  /\ pc[i] = "check" /\ ~Is(i, "list_scripts")
  /\ Finish(i, "refused") /\ UNCHANGED disk

RunScript(i) ==
  /\ pc[i] = "check" /\ ~Expired(i) /\ Is(i, "run_script")
  /\ \E answer \in {"ok", "failed", "timeout"} : Finish(i, answer)
  /\ UNCHANGED disk

BeginScan(i) ==
  /\ pc[i] = "check" /\ ~Expired(i)
  /\ Is(i, "list_scripts") \/ Is(i, "install_script") \/ Is(i, "remove_script")
  /\ pc' = [pc EXCEPT ![i] = "scan"]
  /\ todo' = [todo EXCEPT ![i] = DaemonPath]
  /\ UNCHANGED <<phase, cmds, position, found, result, late, stopping, disk, cli, raced>>

\* DiscoverScripts, a directory at a time. It does not look at the context.
ReadDir(i) ==
  /\ pc[i] = "scan" /\ todo[i] # <<>>
  /\ found' = [found EXCEPT ![i] = @ \cup InDir(disk, Head(todo[i]))]
  /\ todo' = [todo EXCEPT ![i] = Tail(@)]
  /\ UNCHANGED <<phase, cmds, position, pc, result, late, stopping, disk, cli, raced>>

Scanned(i) == pc[i] = "scan" /\ todo[i] = <<>>

ListScripts(i) ==
  /\ Scanned(i) /\ Is(i, "list_scripts")
  /\ Finish(i, IF Expired(i) THEN "timeout" ELSE "ok")
  /\ UNCHANGED disk

Targets(i) == RemovalTarget(found[i], cmds[i].name, cmds[i].version, DaemonPath)

\* ensureNewerVersion or selectRemovalTarget says no.
Decline(i) ==
  /\ Scanned(i)
  /\ \/ Is(i, "install_script") /\ ~NewerThanAll(found[i], cmds[i].name, cmds[i].version)
     \/ Is(i, "remove_script") /\ Targets(i) = {}
  /\ Finish(i, "refused") /\ UNCHANGED disk

Destination(i) == <<"scripts", FileName(cmds[i].name, cmds[i].version)>>
Installed(i) == Script(cmds[i].name, cmds[i].version)

\* Fault: a deadline that passed while the script was written is answered as a timeout.
InstallOrTimeOut(i) ==
  /\ Scanned(i) /\ Is(i, "install_script")
  /\ NewerThanAll(found[i], cmds[i].name, cmds[i].version)
  /\ disk' = [disk EXCEPT ![Destination(i)] = Installed(i)]
  /\ Finish(i, IF Expired(i) THEN "timeout" ELSE "ok")

\* writeFile empties the file before it writes: a failure changes nothing, or
\* leaves an empty file or the front of the script. Once it is written the deadline no longer matters: the
\* answer is ok, with timed_out_after_commit when the deadline has passed.
InstallScript(i) ==
  /\ Scanned(i) /\ Is(i, "install_script")
  /\ NewerThanAll(found[i], cmds[i].name, cmds[i].version)
  /\ \/ disk' = [disk EXCEPT ![Destination(i)] = Installed(i)] /\ Finish(i, "ok")
     \/ /\ \E left \in {disk[Destination(i)], Broken, Cut(cmds[i].name, cmds[i].version)} :
             disk' = [disk EXCEPT ![Destination(i)] = left]
        /\ Finish(i, "failed")

\* A packaged script cannot be removed, nor one that is gone by now.
RemoveScript(i) ==
  /\ Scanned(i) /\ Is(i, "remove_script")
  /\ \E s \in Targets(i) :
       \/ /\ s.path[1] # "packaged" /\ disk[s.path] # NoFile
          /\ disk' = [disk EXCEPT ![s.path] = NoFile] /\ Finish(i, "ok")
       \/ Finish(i, "failed") /\ UNCHANGED disk

\* The deadline of a command passes once it has its slot.
Expire(i) ==
  /\ i \in Running \ late
  /\ late' = late \cup {i}
  /\ UNCHANGED <<phase, cmds, position, pc, scan, result, stopping, disk, cli, raced>>

\* SIGTERM, and the next start of the service.
Stop ==
  /\ ~stopping /\ stopping' = TRUE
  /\ UNCHANGED <<phase, cmds, position, pc, scan, result, late, disk, cli, raced>>

Start ==
  /\ stopping /\ phase = "poll" /\ stopping' = FALSE
  /\ UNCHANGED <<phase, cmds, position, pc, scan, result, late, disk, cli, raced>>

-----------------------------------------------------------------------------
(* nixstasis script install and remove, as the service's user: another process, *)
(* whose search and checks are one step here *)

daemon == <<phase, cmds, next, batch, pc, todo, found, result, late, stopping>>

CliFile(n, v) == <<"user", FileName(n, v)>>

\* The version must be a number even with --force; os.WriteFile empties the file.
CliInstall(n, v, force) ==
  /\ cli.at = "off" /\ Number(v) # Bad
  /\ force \/ (NewerThanAll(Discover(disk, CliPath), n, v) /\ disk[CliFile(n, v)] = NoFile)
  /\ disk' = [disk EXCEPT ![CliFile(n, v)] = Broken]
  /\ cli' = [at |-> "write", name |-> n, version |-> v]
  /\ raced' = (phase = "serial")
  /\ UNCHANGED daemon

CliWrite ==
  /\ cli.at = "write"
  /\ \E left \in {Broken, Script(cli.name, cli.version)} :
       disk' = [disk EXCEPT ![CliFile(cli.name, cli.version)] = left]
  /\ cli' = NoCli /\ raced' = (phase = "serial")
  /\ UNCHANGED daemon

CliRemove(n) ==
  /\ cli.at = "off"
  /\ \E s \in LatestScript(Discover(disk, CliPath), n, CliPath) :
       s.path[1] # "packaged" /\ disk' = [disk EXCEPT ![s.path] = NoFile]
  /\ raced' = (phase = "serial")
  /\ UNCHANGED <<daemon, cli>>

CliStep ==
  \/ \E s \in CliScripts, force \in BOOLEAN : CliInstall(s[1], s[2], force)
  \/ \E n \in Names : CliRemove(n)
  \/ CliWrite

-----------------------------------------------------------------------------
Work(i) ==
  \/ Acquire(i) \/ Abandon(i) \/ TooLate(i) \/ Refuse(i) \/ RunScript(i) \/ BeginScan(i)
  \/ ReadDir(i) \/ ListScripts(i) \/ Decline(i) \/ InstallScript(i) \/ RemoveScript(i)

Loop ==
  \/ \E i \in Slots : Skip(i) \/ Reject(i) \/ Collect(i) \/ Execute(i) \/ Executed(i)
  \/ Flush \/ FlushOver \/ EndOfBatch \/ Send

Next ==
  \/ \E d \in Deliveries : Receive(d)
  \/ Loop
  \/ \E i \in Slots : Work(i) \/ Expire(i)
  \/ Stop \/ Start
  \/ CliStep

Spec == Init /\ [][Next]_vars

\* The goroutines of the service are scheduled and its file operations return.
FairSpec == Spec /\ WF_vars(Loop) /\ \A i \in Slots : WF_vars(Work(i))

-----------------------------------------------------------------------------
\* ExecuteBatch: a serial command has the device to itself, and no more than
\* MaxParallel others run at once.
Exclusive ==
  /\ Cardinality(Running) <= MaxParallel
  /\ \A i, j \in Running : i # j => ~Serial(cmds[i])

\* Every command of a heartbeat is answered: nothing is sent before all have a
\* result, whatever was refused, late, repeated or could not be fetched.
AllAnswered == phase = "send" => \A i \in Positions : result[i] # "none"

\* seen: whatever ids the server repeats, no two commands with one id are executed.
ExecutedOnce ==
  \A i, j \in Positions :
    i # j /\ cmds[i].id = cmds[j].id => pc[i] = "off" \/ pc[j] = "off"

Unchanged == {"refused", "timeout", "payload_fetch_failed", "missing_command_id", "duplicate_command_id"}

\* A command that is answered as refused or timed out has changed no script: the
\* server may send it again.
RefusedChangesNothing ==
  [][\A i \in Slots : result[i] = "none" /\ result'[i] \in Unchanged => disk' = disk]_vars

\* ensureNewerVersion: an install that is answered ok is what the next poll runs
\* for its name, whatever directory the other versions are in, unless the
\* administrator changed a script meanwhile.
InstalledIsSelected ==
  [][\A i \in Slots :
       result[i] = "none" /\ result'[i] = "ok" /\ Is(i, "install_script") /\ ~raced =>
         \A s \in LatestScript(Discover(disk', DaemonPath), cmds[i].name, DaemonPath) :
           s.path = Destination(i)]_vars

\* The commands take effect in the server's order (OrderedBatch). What they share
\* is the scripts directory: the administrator has no part in it.
InScripts(infos) == {s \in infos : s.path[1] = "scripts"}

Order == INSTANCE OrderedBatch WITH
  Stores <- SUBSET Infos,
  writes <- {i \in Positions : Serial(cmds[i])},
  answered <- {i \in Slots : i \in Positions => result[i] # "none"},
  store <- InDir(disk, "scripts"),
  seen <- [i \in Slots |->
             IF Is(i, "list_scripts") /\ result[i] = "ok" THEN {InScripts(found[i])} ELSE {}]

TakesEffectInOrder == Order!Spec

\* A batch comes to its end, also when the service is stopped in the middle of it.
BatchEnds == phase # "poll" ~> phase = "poll"
=============================================================================
