------------------------- MODULE CommandBatchProofs -------------------------
(***************************************************************************)
(* Proofs about CommandBatch, for any commands, lists, disks, cap and      *)
(* parallelism: types, exclusion, that every command is answered and none  *)
(* is executed twice, that a refusal changes nothing, that a batch         *)
(* implements OrderedBatch, and that it is never stuck and runs out of     *)
(* steps.                                                                  *)
(***************************************************************************)
EXTENDS CommandBatch, FiniteSetTheorems, TLAPS

-----------------------------------------------------------------------------
(* The inductive invariant *)

Busy == {"waiting", "check", "scan"}

\* Where ExecuteBatch is.
Control ==
  /\ next \in 1..(Len(cmds) + 1)
  /\ phase = "poll" => cmds = <<>> /\ batch = {}
  /\ phase = "serial" => next \in Positions /\ Serial(cmds[next]) /\ batch = {}
  /\ phase = "send" => next = Len(cmds) + 1 /\ batch = {}

\* A command works in its flush, or as the serial command the loop stands at; one
\* that has worked is answered.
WorksInTurn(i) ==
  /\ pc[i] \in Busy =>
       /\ i \in Positions /\ result[i] = "none"
       /\ (phase = "flush" /\ i \in batch) \/ (phase = "serial" /\ i = next)
  /\ pc[i] = "done" => result[i] # "none"
  /\ i >= next => pc[i] = "off" \/ (phase = "serial" /\ i = next)

\* What the loop has passed is answered or collected, and only commands that may
\* overlap are collected.
PassedIsKept(i) ==
  /\ i \in Positions /\ i < next => result[i] # "none" \/ i \in batch
  /\ i \in batch =>
       /\ i \in Positions /\ i < next /\ ~Serial(cmds[i])
       /\ phase = "loop" => pc[i] = "off" /\ result[i] = "none"
  /\ result[i] = "payload_fetch_failed" => pc[i] = "off" /\ i \notin batch

\* Nothing ahead of a command that is executed has its id, except what could not be fetched.
FirstOfItsId(i) ==
  pc[i] # "off" \/ i \in batch =>
    \A k \in 1..(i - 1) : cmds[k].id = cmds[i].id => result[k] = "payload_fetch_failed"

\* What a search has found in the scripts directory is what is there: nothing
\* writes it meanwhile.
FindsWhatIs(i) ==
  /\ pc[i] \in {"off", "waiting", "check"} => found[i] = {}
  /\ pc[i] = "scan" =>
       /\ todo[i] \in {DaemonPath, <<"packaged", "user">>, <<"user">>, <<>>}
       /\ todo[i] = DaemonPath => found[i] = {}
       /\ todo[i] # DaemonPath => InScripts(found[i]) = InDir(disk, "scripts")

SlotInv(i) == WorksInTurn(i) /\ PassedIsKept(i) /\ FirstOfItsId(i) /\ FindsWhatIs(i)

IInv ==
  /\ TypeOK
  /\ Control
  /\ \A i \in Slots : SlotInv(i)
  /\ Cardinality(Running) <= MaxParallel

-----------------------------------------------------------------------------
(* Facts about positions, directories and searches *)

LEMMA SlotFacts ==
  /\ Slots \subseteq Nat \ {0} /\ IsFiniteSet(Slots)
  /\ TypeOK => Positions \subseteq Slots /\ \A i \in Positions : cmds[i] \in Commands
<1>1. Slots \subseteq Nat \ {0} /\ IsFiniteSet(Slots)
  <2>1. PollCap \in Nat
    BY BatchSizes
  <2>2. 1 \in Int /\ PollCap \in Int
    BY <2>1
  <2>3. IsFiniteSet(1..PollCap)
    BY <2>2, FS_Interval, ZenonT(20)
  <2>4. 1..PollCap \subseteq Nat \ {0}
    BY <2>1
  <2> QED BY <2>3, <2>4 DEF Slots
<1>2. ASSUME TypeOK PROVE Positions \subseteq Slots /\ \A i \in Positions : cmds[i] \in Commands
  <2>1. cmds \in Seq(Commands) /\ Len(cmds) <= PollCap /\ PollCap \in Nat
    BY <1>2, BatchSizes DEF TypeOK
  <2>2. Len(cmds) \in Nat /\ \A i \in 1..Len(cmds) : cmds[i] \in Commands
    BY <2>1
  <2>3. 1..Len(cmds) \subseteq 1..PollCap
    BY <2>1, <2>2
  <2> QED BY <2>2, <2>3 DEF Slots, Positions
<1> QED BY <1>1, <1>2

\* The values of a file, and the paths of files.
LEMMA ContentFacts ==
  /\ NoFile \in Contents /\ Broken \in Contents
  /\ \A n \in Names \cup {""}, v \in Versions \cup {""} :
       Script(n, v) \in Contents /\ Cut(n, v) \in Contents
  /\ \A n \in Names, v \in Versions, d \in Dirs : <<d, FileName(n, v)>> \in Paths
<1>1. \A n \in Names, v \in Versions, d \in Dirs : <<d, FileName(n, v)>> \in Paths
  BY DEF Paths, Files
<1>2. NoFile \in Contents /\ Broken \in Contents
  BY DEF Contents, NoFile, Broken
<1>3. \A n \in Names \cup {""}, v \in Versions \cup {""} :
         Script(n, v) \in Contents /\ Cut(n, v) \in Contents
  BY DEF Contents, Script, Cut
<1> QED BY <1>1, <1>2, <1>3

\* Writing one file of a disk gives a disk.
LEMMA WriteFacts ==
  ASSUME NEW d \in Disks, NEW p \in Paths, NEW c \in Contents
  PROVE  [d EXCEPT ![p] = c] \in Disks
BY DEF Disks

\* A directory holds scripts of its own files.
LEMMA InDirFacts ==
  ASSUME NEW d \in Disks, NEW dir
  PROVE  /\ InDir(d, dir) \subseteq Infos
         /\ \A s \in InDir(d, dir) : s.path[1] = dir
<1>1. ASSUME NEW q \in Paths
      PROVE  [name |-> d[q].name, version |-> d[q].version, path |-> q] \in Infos
  <2>1. d[q] \in Contents
    BY <1>1 DEF Disks
  <2> QED BY <2>1, <1>1 DEF Contents, Infos
<1> QED BY <1>1 DEF InDir

\* A write elsewhere leaves the scripts directory as it was.
LEMMA WriteElsewhere ==
  ASSUME NEW d \in Disks, NEW p \in Paths, NEW c \in Contents, p[1] # "scripts",
         NEW e, e = [d EXCEPT ![p] = c]
  PROVE  e \in Disks /\ InDir(e, "scripts") = InDir(d, "scripts")
<1>1. \A q \in Paths : q[1] = "scripts" => e[q] = d[q]
  BY DEF Disks
<1>2. {q \in Paths : q[1] = "scripts" /\ Readable(e[q])} =
        {q \in Paths : q[1] = "scripts" /\ Readable(d[q])}
  BY <1>1
<1>3. InDir(e, "scripts") = InDir(d, "scripts")
  BY <1>1, <1>2 DEF InDir
<1>4. e \in Disks
  BY WriteFacts
<1> QED BY <1>3, <1>4

\* What a search reads of the scripts directory is all of it, and what it reads
\* elsewhere is no part of it.
LEMMA InScriptsFacts ==
  ASSUME NEW d \in Disks
  PROVE  /\ InScripts({}) = {}
         /\ InScripts(InDir(d, "scripts")) = InDir(d, "scripts")
         /\ \A f : InScripts(f \cup InDir(d, "packaged")) = InScripts(f)
         /\ \A f : InScripts(f \cup InDir(d, "user")) = InScripts(f)
<1>1. \A dir : \A s \in InDir(d, dir) : s.path[1] = dir
  BY InDirFacts
<1> QED BY <1>1 DEF InScripts

\* What a selection returns is one of the scripts that were found.
LEMMA SelectionFacts ==
  ASSUME NEW f, NEW n, NEW v, NEW search
  PROVE  LatestScript(f, n, search) \subseteq f /\ RemovalTarget(f, n, v, search) \subseteq f
BY DEF LatestScript, RemovalTarget, First, Named

-----------------------------------------------------------------------------
(* Steps that leave the commands and their work alone *)

LEMMA InitInv == Init => IInv
<1> SUFFICES ASSUME Init PROVE IInv
  OBVIOUS
<1>1. TypeOK
  <2>1. <<>> \in Seq(Commands) /\ Len(<<>>) <= PollCap /\ <<>> \in Seq(Dirs)
    BY BatchSizes
  <2>2. disk \in Disks /\ cli \in Clis
    BY DiskAssumption DEF Init, Clis, NoCli
  <2> QED BY <2>1, <2>2 DEF Init, TypeOK, Blank, Answers
<1>2. Control
  BY DEF Init, Control
<1>3. \A i \in Slots : SlotInv(i)
  BY SlotFacts DEF Init, Blank, Busy, SlotInv, WorksInTurn, PassedIsKept, FirstOfItsId, FindsWhatIs,
    Positions
<1>4. Cardinality(Running) <= MaxParallel
  <2>1. Running = {}
    BY DEF Init, Running, Blank
  <2> QED BY <2>1, FS_EmptySet, BatchSizes
<1> QED BY <1>1, <1>2, <1>3, <1>4 DEF IInv

\* Whoever stops the service or lets a deadline pass does nothing else.
LEMMA ClockInv ==
  ASSUME IInv, NEW i \in Slots, Expire(i) \/ Stop \/ Start
  PROVE  IInv'
<1>1. TypeOK'
  BY DEF IInv, TypeOK, Expire, Stop, Start, position, scan, Running
<1>2. UNCHANGED <<phase, cmds, next, batch, pc, todo, found, result, disk>>
  BY DEF Expire, Stop, Start, position, scan
<1>3. (Control /\ Cardinality(Running) <= MaxParallel)'
  BY <1>2 DEF IInv, Control, Positions, Running
<1>4. \A j \in Slots : SlotInv(j)'
  BY <1>2 DEF IInv, SlotInv, WorksInTurn, PassedIsKept, FirstOfItsId, FindsWhatIs, Positions
<1> QED BY <1>1, <1>3, <1>4 DEF IInv

\* What the administrator writes is in the user directory.
LEMMA CliFacts ==
  ASSUME TypeOK, CliStep
  PROVE  /\ disk' \in Disks /\ cli' \in Clis
         /\ InDir(disk', "scripts") = InDir(disk, "scripts")
         /\ UNCHANGED daemon /\ raced' = (phase = "serial")
<1> USE DEF TypeOK
<1>0. disk \in Disks /\ Broken \in Contents /\ NoFile \in Contents
  BY ContentFacts
<1>1. ASSUME NEW s \in CliScripts, NEW force \in BOOLEAN, CliInstall(s[1], s[2], force)
      PROVE  /\ disk' \in Disks /\ cli' \in Clis
             /\ InDir(disk', "scripts") = InDir(disk, "scripts")
             /\ UNCHANGED daemon /\ raced' = (phase = "serial")
  <2>1. s[1] \in Names /\ s[2] \in Versions
    BY DiskAssumption
  <2>2. CliFile(s[1], s[2]) \in Paths /\ CliFile(s[1], s[2])[1] # "scripts"
    BY <2>1, ContentFacts DEF CliFile, Dirs
  <2>3. disk' = [disk EXCEPT ![CliFile(s[1], s[2])] = Broken]
    BY <1>1 DEF CliInstall
  <2>4. disk' \in Disks /\ InDir(disk', "scripts") = InDir(disk, "scripts")
    <3> DEFINE file == CliFile(s[1], s[2])
    <3>1. file \in Paths /\ file[1] # "scripts" /\ disk' = [disk EXCEPT ![file] = Broken]
      BY <2>2, <2>3
    <3> HIDE DEF file, TypeOK
    <3> QED BY <3>1, <1>0, WriteElsewhere
  <2>5. cli' \in Clis
    BY <1>1, <2>1 DEF CliInstall, Clis
  <2> QED BY <1>1, <2>4, <2>5 DEF CliInstall
<1>2. ASSUME CliWrite
      PROVE  /\ disk' \in Disks /\ cli' \in Clis
             /\ InDir(disk', "scripts") = InDir(disk, "scripts")
             /\ UNCHANGED daemon /\ raced' = (phase = "serial")
  <2> DEFINE file == CliFile(cli.name, cli.version)
  <2>1. PICK left \in {Broken, Script(cli.name, cli.version)} : disk' = [disk EXCEPT ![file] = left]
    BY <1>2 DEF CliWrite
  <2>2. cli.name \in Names \cup {""} /\ cli.version \in Versions \cup {""}
    BY DEF Clis
  <2>3. left \in Contents /\ file[1] # "scripts"
    BY <2>2, ContentFacts DEF CliFile
  <2>4. disk' \in Disks /\ InDir(disk', "scripts") = InDir(disk, "scripts")
    <3> HIDE DEF file
    <3>1. CASE file \in Paths
      BY <3>1, <2>1, <2>3, WriteElsewhere
    <3>2. CASE file \notin Paths
      <4>1. disk' = disk
        BY <3>2, <2>1 DEF Disks
      <4> QED BY <4>1
    <3> QED BY <3>1, <3>2
  <2>5. cli' \in Clis
    BY <1>2 DEF CliWrite, Clis, NoCli
  <2> QED BY <1>2, <2>4, <2>5 DEF CliWrite
<1>3. ASSUME NEW n \in Names, CliRemove(n)
      PROVE  /\ disk' \in Disks /\ cli' \in Clis
             /\ InDir(disk', "scripts") = InDir(disk, "scripts")
             /\ UNCHANGED daemon /\ raced' = (phase = "serial")
  <2>1. PICK s \in LatestScript(Discover(disk, CliPath), n, CliPath) :
          disk' = [disk EXCEPT ![s.path] = NoFile]
    BY <1>3 DEF CliRemove
  <2>2. s \in InDir(disk, "user") \/ s \in InDir(disk, "packaged")
    <3>1. s \in Discover(disk, CliPath)
      BY SelectionFacts
    <3>2. DOMAIN CliPath = {1, 2} /\ CliPath[1] = "user" /\ CliPath[2] = "packaged"
      BY DEF CliPath
    <3> QED BY <3>1, <3>2 DEF Discover
  <2>3. s.path \in Paths /\ s.path[1] # "scripts"
    BY <2>2, InDirFacts DEF Infos
  <2>4. disk' \in Disks /\ InDir(disk', "scripts") = InDir(disk, "scripts")
    BY <2>1, <2>3, ContentFacts, WriteElsewhere
  <2> QED BY <1>3, <2>4 DEF CliRemove
<1> QED BY <1>1, <1>2, <1>3 DEF CliStep

LEMMA CliInv ==
  ASSUME IInv, CliStep
  PROVE  IInv'
<1>1. /\ disk' \in Disks /\ cli' \in Clis /\ raced' \in BOOLEAN
      /\ InDir(disk', "scripts") = InDir(disk, "scripts")
      /\ UNCHANGED <<phase, cmds, next, batch, pc, todo, found, result, late, stopping>>
  BY CliFacts DEF IInv, daemon
<1>2. TypeOK'
  BY <1>1 DEF IInv, TypeOK
<1>3. (Control /\ Cardinality(Running) <= MaxParallel)'
  BY <1>1 DEF IInv, Control, Positions, Running
<1>4. \A j \in Slots : SlotInv(j)'
  BY <1>1 DEF IInv, SlotInv, WorksInTurn, PassedIsKept, FirstOfItsId, FindsWhatIs, Positions
<1> QED BY <1>2, <1>3, <1>4 DEF IInv
-----------------------------------------------------------------------------
(* The poll loop and ExecuteBatch *)

\* Only commands of a flush or the serial command run.
LEMMA RunningFacts ==
  ASSUME IInv
  PROVE  /\ Running \subseteq Slots /\ IsFiniteSet(Running) /\ Cardinality(Running) \in Nat
         /\ phase \notin {"flush", "serial"} => Running = {}
         /\ phase = "serial" => Running \subseteq {next}
<1>1. Running \subseteq Slots
  BY DEF Running
<1>2. IsFiniteSet(Running)
  BY <1>1, SlotFacts, FS_Subset
<1>3. Cardinality(Running) \in Nat
  BY <1>2, FS_CardinalityType
<1>4. \A i \in Running : pc[i] \in Busy
  BY DEF Running, Busy
<1>5. \A i \in Running : (phase = "flush" /\ i \in batch) \/ (phase = "serial" /\ i = next)
  BY <1>1, <1>4 DEF IInv, SlotInv, WorksInTurn
<1> QED BY <1>1, <1>2, <1>3, <1>5

LEMMA ReceiveInv ==
  ASSUME IInv, NEW d \in Deliveries, Receive(d)
  PROVE  IInv'
<1> DEFINE k == IF Len(d) < PollCap THEN Len(d) ELSE PollCap
<1> DEFINE given == SubSeq(d, 1, k)
<1>1. d \in Seq(Commands) /\ PollCap \in Nat /\ Len(d) \in Nat
  BY DeliveryAssumption, BatchSizes
<1>2. k \in 0..Len(d) /\ k <= PollCap
  BY <1>1
<1>3. given \in Seq(Commands) /\ Len(given) <= PollCap /\ Len(given) \in Nat
  <2> HIDE DEF k
  <2>1. given \in Seq(Commands) /\ Len(given) = k
    BY <1>1, <1>2
  <2> QED BY <2>1, <1>2, <1>1
<1>4. /\ phase = "poll" /\ phase' = "loop" /\ next' = 1 /\ batch' = {} /\ cmds' = given
      /\ UNCHANGED <<pc, todo, found, late, stopping, disk, cli, raced>>
  BY DEF Receive, scan
<1>5. result' \in [Slots -> {"none", "payload_fetch_failed"}]
  BY DEF Receive
<1> HIDE DEF given, k
<1>6. \A i \in Slots : pc[i] = "off" /\ found[i] = {}
  BY <1>4, SlotFacts DEF IInv, Control, SlotInv, WorksInTurn, FindsWhatIs
<1>7. TypeOK'
  BY <1>3, <1>4, <1>5 DEF IInv, TypeOK, Answers
<1>8. Control'
  BY <1>3, <1>4 DEF Control
<1>9. \A j \in Slots : SlotInv(j)'
  BY <1>4, <1>5, <1>6, SlotFacts DEF SlotInv, WorksInTurn, PassedIsKept, FirstOfItsId, FindsWhatIs,
    Positions, Busy
<1>10. (Cardinality(Running) <= MaxParallel)'
  BY <1>4 DEF IInv, Running
<1> QED BY <1>7, <1>8, <1>9, <1>10 DEF IInv

\* A command that needs no work is passed with its answer.
LEMMA PassInv ==
  ASSUME IInv, NEW i \in Slots, Skip(i) \/ Reject(i)
  PROVE  IInv'
<1>1. /\ phase = "loop" /\ i = next /\ i \in Positions /\ next' = next + 1
      /\ UNCHANGED <<phase, cmds, batch, pc, todo, found, late, stopping, disk, cli, raced>>
  BY DEF Skip, Reject, AtLoop, scan
<1>2. /\ result' \in [Slots -> Answers \cup {"none"}] /\ result'[i] # "none"
      /\ \A j \in Slots \ {i} : result'[j] = result[j]
      /\ result'[i] = "payload_fetch_failed" => result[i] = "payload_fetch_failed"
      /\ result[i] = "payload_fetch_failed" => result'[i] = "payload_fetch_failed"
  BY DEF IInv, TypeOK, Skip, Reject, Answers
<1>3. pc[i] = "off" /\ i \notin batch
  BY <1>1 DEF IInv, SlotInv, WorksInTurn, PassedIsKept, Control
<1>4. next \in Nat /\ Len(cmds) \in Nat /\ next \in 1..Len(cmds)
  BY <1>1 DEF IInv, TypeOK, Positions
<1>5. TypeOK'
  BY <1>1, <1>2, <1>4 DEF IInv, TypeOK
<1>6. Control'
  BY <1>1, <1>4 DEF IInv, Control
<1>7. ASSUME NEW j \in Slots PROVE SlotInv(j)'
  <2>0. SlotInv(j) /\ j \in Nat
    BY SlotFacts DEF IInv
  <2>1. WorksInTurn(j)'
    BY <2>0, <1>1, <1>2, <1>3, <1>4 DEF SlotInv, WorksInTurn, Positions, Busy
  <2>2. PassedIsKept(j)'
    BY <2>0, <1>1, <1>2, <1>3, <1>4 DEF SlotInv, PassedIsKept, Positions
  <2>3. FirstOfItsId(j)'
    <3>1. \A m \in 1..(j - 1) : m \in Slots
      BY BatchSizes DEF Slots
    <3> QED BY <3>1, <2>0, <1>1, <1>2, <1>3 DEF SlotInv, FirstOfItsId
  <2>4. FindsWhatIs(j)'
    BY <2>0, <1>1 DEF SlotInv, FindsWhatIs
  <2> QED BY <2>1, <2>2, <2>3, <2>4 DEF SlotInv
<1>8. (Cardinality(Running) <= MaxParallel)'
  BY <1>1 DEF IInv, Running
<1> QED BY <1>5, <1>6, <1>7, <1>8 DEF IInv

\* What is accepted has no earlier command with its id.
LEMMA AcceptedFacts ==
  ASSUME IInv, NEW i \in Slots, Accepted(i)
  PROVE  /\ phase = "loop" /\ i = next /\ i \in 1..Len(cmds) /\ i \in Nat /\ Len(cmds) \in Nat
         /\ result[i] = "none" /\ pc[i] = "off"
         /\ \A k \in 1..(i - 1) : cmds[k].id = cmds[i].id => result[k] = "payload_fetch_failed"
<1>1. phase = "loop" /\ i = next /\ i \in Positions /\ result[i] = "none" /\ ~Repeats(i)
  BY DEF Accepted, AtLoop
<1>2. i \in 1..Len(cmds) /\ i \in Nat /\ Len(cmds) \in Nat
  BY <1>1, SlotFacts DEF Positions, IInv, TypeOK
<1>3. pc[i] = "off"
  BY <1>1, <1>2 DEF IInv, SlotInv, WorksInTurn
<1>4. \A k \in 1..(i - 1) : cmds[k].id = cmds[i].id => result[k] = "payload_fetch_failed"
  BY <1>1 DEF Repeats
<1> QED BY <1>1, <1>2, <1>3, <1>4

LEMMA CollectInv ==
  ASSUME IInv, NEW i \in Slots, Collect(i)
  PROVE  IInv'
<1>1. /\ batch' = batch \cup {i} /\ next' = next + 1 /\ ~Serial(cmds[i]) /\ Accepted(i)
      /\ UNCHANGED <<phase, cmds, pc, todo, found, result, late, stopping, disk, cli, raced>>
  BY DEF Collect, scan
<1>2. /\ phase = "loop" /\ i = next /\ i \in 1..Len(cmds) /\ i \in Nat /\ Len(cmds) \in Nat
      /\ result[i] = "none" /\ pc[i] = "off"
      /\ \A k \in 1..(i - 1) : cmds[k].id = cmds[i].id => result[k] = "payload_fetch_failed"
  BY <1>1, AcceptedFacts
<1>3. TypeOK'
  BY <1>1, <1>2 DEF IInv, TypeOK
<1>4. Control'
  BY <1>1, <1>2 DEF IInv, Control
<1>5. ASSUME NEW j \in Slots PROVE SlotInv(j)'
  <2>0. SlotInv(j) /\ j \in Nat
    BY SlotFacts DEF IInv
  <2>1. WorksInTurn(j)'
    BY <2>0, <1>1, <1>2 DEF SlotInv, WorksInTurn, Positions, Busy
  <2>2. PassedIsKept(j)'
    BY <2>0, <1>1, <1>2 DEF SlotInv, PassedIsKept, Positions
  <2>3. FirstOfItsId(j)'
    BY <2>0, <1>1, <1>2 DEF SlotInv, FirstOfItsId
  <2>4. FindsWhatIs(j)'
    BY <2>0, <1>1 DEF SlotInv, FindsWhatIs
  <2> QED BY <2>1, <2>2, <2>3, <2>4 DEF SlotInv
<1>6. (Cardinality(Running) <= MaxParallel)'
  BY <1>1 DEF IInv, Running
<1> QED BY <1>3, <1>4, <1>5, <1>6 DEF IInv
\* A flush starts what was collected: nothing of it has worked yet.
LEMMA FlushInv ==
  ASSUME IInv, Flush
  PROVE  IInv'
<1>1. /\ phase = "loop" /\ phase' = "flush"
      /\ pc' = [i \in Slots |-> IF i \in batch THEN "waiting" ELSE pc[i]]
      /\ UNCHANGED <<cmds, next, batch, todo, found, result, late, stopping, disk, cli, raced>>
  BY DEF Flush, position, scan
<1>2. \A i \in batch : pc[i] = "off" /\ result[i] = "none" /\ i \in Positions /\ i < next
  BY <1>1 DEF IInv, TypeOK, SlotInv, PassedIsKept
<1>3. TypeOK'
  BY <1>1 DEF IInv, TypeOK
<1>4. Control'
  BY <1>1 DEF IInv, Control
<1>5. ASSUME NEW j \in Slots PROVE SlotInv(j)'
  <2>0. SlotInv(j) /\ j \in Nat /\ next \in Nat
    BY SlotFacts DEF IInv, TypeOK
  <2>1. WorksInTurn(j)'
    BY <2>0, <1>1, <1>2 DEF SlotInv, WorksInTurn, Positions, Busy
  <2>2. PassedIsKept(j)'
    BY <2>0, <1>1, <1>2 DEF SlotInv, PassedIsKept, Positions
  <2>3. FirstOfItsId(j)'
    BY <2>0, <1>1, <1>2 DEF SlotInv, FirstOfItsId
  <2>4. FindsWhatIs(j)'
    BY <2>0, <1>1, <1>2 DEF SlotInv, FindsWhatIs
  <2> QED BY <2>1, <2>2, <2>3, <2>4 DEF SlotInv
<1>6. (Cardinality(Running) <= MaxParallel)'
  <2>1. Running' = Running
    BY <1>1, <1>2 DEF Running
  <2> QED BY <2>1 DEF IInv
<1> QED BY <1>3, <1>4, <1>5, <1>6 DEF IInv

LEMMA FlushOverInv ==
  ASSUME IInv, FlushOver
  PROVE  IInv'
<1>1. /\ phase = "flush" /\ phase' = "loop" /\ batch' = {} /\ \A i \in batch : pc[i] = "done"
      /\ UNCHANGED <<cmds, next, pc, todo, found, result, late, stopping, disk, cli, raced>>
  BY DEF FlushOver, scan
<1>2. \A i \in batch : result[i] # "none"
  BY <1>1 DEF IInv, TypeOK, SlotInv, WorksInTurn
<1>3. TypeOK'
  BY <1>1 DEF IInv, TypeOK
<1>4. Control'
  BY <1>1 DEF IInv, Control
<1>5. ASSUME NEW j \in Slots PROVE SlotInv(j)'
  <2>0. SlotInv(j) /\ j \in Nat /\ next \in Nat
    BY SlotFacts DEF IInv, TypeOK
  <2>1. WorksInTurn(j)'
    BY <2>0, <1>1, <1>2 DEF SlotInv, WorksInTurn, Positions, Busy
  <2>2. PassedIsKept(j)'
    BY <2>0, <1>1, <1>2 DEF SlotInv, PassedIsKept, Positions
  <2>3. FirstOfItsId(j)'
    BY <2>0, <1>1, <1>2 DEF SlotInv, FirstOfItsId
  <2>4. FindsWhatIs(j)'
    BY <2>0, <1>1, <1>2 DEF SlotInv, FindsWhatIs
  <2> QED BY <2>1, <2>2, <2>3, <2>4 DEF SlotInv
<1>6. (Cardinality(Running) <= MaxParallel)'
  BY <1>1 DEF IInv, Running
<1> QED BY <1>3, <1>4, <1>5, <1>6 DEF IInv

\* A serial command starts when nothing else runs.
LEMMA ExecuteInv ==
  ASSUME IInv, NEW i \in Slots, Execute(i)
  PROVE  IInv'
<1>1. /\ phase' = "serial" /\ pc' = [pc EXCEPT ![i] = "check"] /\ batch = {}
      /\ Accepted(i) /\ Serial(cmds[i])
      /\ UNCHANGED <<cmds, next, batch, todo, found, result, late, stopping, disk, cli, raced>>
  BY DEF Execute, position, scan
<1>2. /\ phase = "loop" /\ i = next /\ i \in 1..Len(cmds) /\ i \in Nat /\ Len(cmds) \in Nat
      /\ result[i] = "none" /\ pc[i] = "off"
      /\ \A k \in 1..(i - 1) : cmds[k].id = cmds[i].id => result[k] = "payload_fetch_failed"
  BY <1>1, AcceptedFacts
<1>3. TypeOK'
  BY <1>1 DEF IInv, TypeOK
<1>4. Control'
  BY <1>1, <1>2 DEF IInv, Control, Positions
<1>5. ASSUME NEW j \in Slots PROVE SlotInv(j)'
  <2>0. SlotInv(j) /\ j \in Nat /\ pc \in [Slots -> {"off", "waiting", "check", "scan", "done"}]
    BY SlotFacts DEF IInv, TypeOK
  <2>1. WorksInTurn(j)'
    BY <2>0, <1>1, <1>2 DEF SlotInv, WorksInTurn, Positions, Busy
  <2>2. PassedIsKept(j)'
    BY <2>0, <1>1, <1>2 DEF SlotInv, PassedIsKept, Positions
  <2>3. FirstOfItsId(j)'
    BY <2>0, <1>1, <1>2 DEF SlotInv, FirstOfItsId
  <2>4. FindsWhatIs(j)'
    BY <2>0, <1>1, <1>2 DEF SlotInv, FindsWhatIs
  <2> QED BY <2>1, <2>2, <2>3, <2>4 DEF SlotInv
<1>6. (Cardinality(Running) <= MaxParallel)'
  <2>1. Running = {}
    BY <1>2, RunningFacts
  <2>2. Running' = {i}
    BY <2>1, <1>1 DEF Running, IInv, TypeOK
  <2>3. Cardinality({i}) = 1
    BY FS_Singleton
  <2> QED BY <2>2, <2>3, BatchSizes
<1> QED BY <1>3, <1>4, <1>5, <1>6 DEF IInv

LEMMA ExecutedInv ==
  ASSUME IInv, NEW i \in Slots, Executed(i)
  PROVE  IInv'
<1>1. /\ phase = "serial" /\ phase' = "loop" /\ i = next /\ next' = next + 1 /\ pc[i] = "done"
      /\ raced' = FALSE
      /\ UNCHANGED <<cmds, batch, pc, todo, found, result, late, stopping, disk, cli>>
  BY DEF Executed, scan
<1>2. /\ batch = {} /\ result[i] # "none" /\ i \in 1..Len(cmds) /\ i \in Nat /\ Len(cmds) \in Nat
  <2>1. batch = {} /\ result[i] # "none" /\ i \in Positions
    BY <1>1 DEF IInv, Control, SlotInv, WorksInTurn
  <2>2. i \in Nat
    BY SlotFacts
  <2>3. Len(cmds) \in Nat
    BY DEF IInv, TypeOK
  <2> QED BY <2>1, <2>2, <2>3 DEF Positions
<1>3. TypeOK'
  <2>1. next' \in Nat
    BY <1>1, <1>2
  <2>2. raced' \in BOOLEAN
    BY <1>1, Zenon
  <2> QED BY <2>1, <2>2, <1>1 DEF IInv, TypeOK
<1>4. Control'
  BY <1>1, <1>2 DEF IInv, Control
<1>5. ASSUME NEW j \in Slots PROVE SlotInv(j)'
  <2>0. SlotInv(j) /\ j \in Nat
    BY SlotFacts DEF IInv
  <2>1. WorksInTurn(j)'
    BY <2>0, <1>1, <1>2 DEF SlotInv, WorksInTurn, Positions, Busy
  <2>2. PassedIsKept(j)'
    BY <2>0, <1>1, <1>2 DEF SlotInv, PassedIsKept, Positions
  <2>3. FirstOfItsId(j)'
    BY <2>0, <1>1, <1>2 DEF SlotInv, FirstOfItsId
  <2>4. FindsWhatIs(j)'
    BY <2>0, <1>1, <1>2 DEF SlotInv, FindsWhatIs
  <2> QED BY <2>1, <2>2, <2>3, <2>4 DEF SlotInv
<1>6. (Cardinality(Running) <= MaxParallel)'
  BY <1>1 DEF IInv, Running
<1> QED BY <1>3, <1>4, <1>5, <1>6 DEF IInv

LEMMA EndOfBatchInv ==
  ASSUME IInv, EndOfBatch
  PROVE  IInv'
<1>1. /\ phase = "loop" /\ phase' = "send" /\ next > Len(cmds) /\ batch = {}
      /\ UNCHANGED <<cmds, next, batch, pc, todo, found, result, late, stopping, disk, cli, raced>>
  BY DEF EndOfBatch, position, scan
<1>2. Len(cmds) \in Nat /\ next = Len(cmds) + 1
  BY <1>1 DEF IInv, TypeOK, Control
<1>3. TypeOK'
  BY <1>1 DEF IInv, TypeOK
<1>4. Control'
  BY <1>1, <1>2 DEF IInv, Control
<1>5. \A j \in Slots : SlotInv(j)'
  BY <1>1 DEF IInv, SlotInv, WorksInTurn, PassedIsKept, FirstOfItsId, FindsWhatIs, Positions, Busy
<1>6. (Cardinality(Running) <= MaxParallel)'
  BY <1>1 DEF IInv, Running
<1> QED BY <1>3, <1>4, <1>5, <1>6 DEF IInv

LEMMA SendInv ==
  ASSUME IInv, Send
  PROVE  IInv'
<1>1. /\ phase' = "poll" /\ cmds' = <<>> /\ next' = 1 /\ batch' = {}
      /\ pc' = Blank("off") /\ todo' = Blank(<<>>) /\ found' = Blank({}) /\ result' = Blank("none")
      /\ UNCHANGED <<late, stopping, disk, cli, raced>>
  BY DEF Send, IInv, Control
<1>2. TypeOK'
  <2>1. <<>> \in Seq(Commands) /\ Len(<<>>) <= PollCap /\ <<>> \in Seq(Dirs)
    BY BatchSizes
  <2> QED BY <1>1, <2>1 DEF IInv, TypeOK, Blank, Answers
<1>3. Control'
  BY <1>1 DEF Control
<1>4. \A j \in Slots : SlotInv(j)'
  BY <1>1, SlotFacts DEF Blank, Busy, SlotInv, WorksInTurn, PassedIsKept, FirstOfItsId, FindsWhatIs,
    Positions
<1>5. (Cardinality(Running) <= MaxParallel)'
  <2>1. Running' = {}
    BY <1>1 DEF Running, Blank
  <2> QED BY <2>1, FS_EmptySet, BatchSizes
<1> QED BY <1>2, <1>3, <1>4, <1>5 DEF IInv
-----------------------------------------------------------------------------
(* What runs at a position *)

\* A command finishes in its turn: the scripts directory has changed only when it
\* was the serial command, and then nobody was searching.
LEMMA FinishInv ==
  ASSUME IInv, NEW i \in Slots, pc[i] \in Busy,
         NEW answer \in Answers, answer # "payload_fetch_failed", Finish(i, answer),
         disk' \in Disks, phase = "serial" \/ InDir(disk', "scripts") = InDir(disk, "scripts")
  PROVE  IInv'
<1>1. /\ pc' = [pc EXCEPT ![i] = "done"]
      /\ result' = [result EXCEPT ![i] = answer]
      /\ late' = late \ {i}
      /\ UNCHANGED <<phase, cmds, next, batch, todo, stopping, cli, raced>>
  BY DEF Finish, position
<1>2. found' \in [Slots -> SUBSET Infos] /\ \A j \in Slots \ {i} : found'[j] = found[j]
  <2>1. found' = [found EXCEPT ![i] = IF Is(i, "list_scripts") THEN @ ELSE {}]
    BY DEF Finish
  <2> QED BY <2>1 DEF IInv, TypeOK
<1>3. TypeOK'
  BY <1>1, <1>2 DEF IInv, TypeOK
<1>4. Control'
  BY <1>1 DEF IInv, Control, Positions
<1>5. /\ pc \in [Slots -> {"off", "waiting", "check", "scan", "done"}]
      /\ result \in [Slots -> Answers \cup {"none"}] /\ answer # "none"
  BY DEF IInv, TypeOK, Answers
<1>6. /\ i \in Positions /\ result[i] = "none"
      /\ (phase = "flush" /\ i \in batch) \/ (phase = "serial" /\ i = next)
  BY DEF IInv, SlotInv, WorksInTurn
<1>7. ASSUME NEW j \in Slots PROVE SlotInv(j)'
  <2>0. SlotInv(j) /\ SlotInv(i) /\ j \in Nat /\ i \in Nat
    BY SlotFacts DEF IInv
  <2>1. WorksInTurn(j)'
    BY <2>0, <1>1, <1>5, <1>6 DEF SlotInv, WorksInTurn, PassedIsKept, Positions, Busy
  <2>2. PassedIsKept(j)'
    BY <2>0, <1>1, <1>5, <1>6 DEF SlotInv, PassedIsKept, Positions, Busy
  <2>3. FirstOfItsId(j)'
    <3>1. \A m \in 1..(j - 1) : m \in Slots
      BY BatchSizes DEF Slots
    <3>2. pc[i] # "off"
      BY DEF Busy
    <3> QED BY <3>1, <3>2, <2>0, <1>1, <1>5, <1>6 DEF SlotInv, FirstOfItsId
  <2>4. FindsWhatIs(j)'
    <3>1. CASE j = i
      BY <3>1, <1>1, <1>5 DEF FindsWhatIs
    <3>2. CASE j # i /\ phase = "serial"
      <4>1. pc[j] \notin Busy
        BY <3>2, <2>0, <1>6 DEF SlotInv, WorksInTurn
      <4> QED BY <4>1, <3>2, <2>0, <1>1, <1>2 DEF SlotInv, FindsWhatIs, Busy
    <3>3. CASE j # i /\ InDir(disk', "scripts") = InDir(disk, "scripts")
      BY <3>3, <2>0, <1>1, <1>2 DEF SlotInv, FindsWhatIs
    <3> QED BY <3>1, <3>2, <3>3
  <2> QED BY <2>1, <2>2, <2>3, <2>4 DEF SlotInv
<1>8. (Cardinality(Running) <= MaxParallel)'
  <2>1. Running' \subseteq Running
    BY <1>1, <1>5 DEF Running
  <2>2. Cardinality(Running') <= Cardinality(Running) /\ Cardinality(Running') \in Nat
    BY <2>1, RunningFacts, FS_Subset, FS_CardinalityType
  <2> QED BY <2>2, RunningFacts, BatchSizes DEF IInv
<1> QED BY <1>3, <1>4, <1>7, <1>8 DEF IInv

\* A command gets its turn, and no more than MaxParallel have one.
LEMMA AcquireInv ==
  ASSUME IInv, NEW i \in Slots, Acquire(i)
  PROVE  IInv'
<1>1. /\ pc[i] = "waiting" /\ Cardinality(Running) < MaxParallel
      /\ pc' = [pc EXCEPT ![i] = "check"]
      /\ UNCHANGED <<phase, cmds, next, batch, todo, found, result, late, stopping, disk, cli, raced>>
  BY DEF Acquire, position, scan
<1>2. pc \in [Slots -> {"off", "waiting", "check", "scan", "done"}]
  BY DEF IInv, TypeOK
<1>3. TypeOK'
  BY <1>1 DEF IInv, TypeOK
<1>4. Control'
  BY <1>1 DEF IInv, Control, Positions
<1>5. ASSUME NEW j \in Slots PROVE SlotInv(j)'
  BY <1>1, <1>2 DEF IInv, SlotInv, WorksInTurn, PassedIsKept, FirstOfItsId, FindsWhatIs, Positions, Busy
<1>6. (Cardinality(Running) <= MaxParallel)'
  <2>1. Running' = Running \cup {i}
    BY <1>1, <1>2 DEF Running
  <2>2. i \notin Running
    BY <1>1 DEF Running
  <2>3. Cardinality(Running \cup {i}) = Cardinality(Running) + 1
    BY <2>2, RunningFacts, FS_AddElement
  <2> QED BY <2>1, <2>3, <1>1, RunningFacts, BatchSizes
<1> QED BY <1>3, <1>4, <1>5, <1>6 DEF IInv

LEMMA BeginScanInv ==
  ASSUME IInv, NEW i \in Slots, BeginScan(i)
  PROVE  IInv'
<1>1. /\ pc[i] = "check" /\ pc' = [pc EXCEPT ![i] = "scan"]
      /\ todo' = [todo EXCEPT ![i] = DaemonPath]
      /\ UNCHANGED <<phase, cmds, next, batch, found, result, late, stopping, disk, cli, raced>>
  BY DEF BeginScan, position
<1>2. /\ pc \in [Slots -> {"off", "waiting", "check", "scan", "done"}]
      /\ todo \in [Slots -> Seq(Dirs)] /\ DaemonPath \in Seq(Dirs)
  BY DEF IInv, TypeOK, DaemonPath, Dirs
<1>3. TypeOK'
  BY <1>1, <1>2 DEF IInv, TypeOK
<1>4. Control'
  BY <1>1 DEF IInv, Control, Positions
<1>5. ASSUME NEW j \in Slots PROVE SlotInv(j)'
  BY <1>1, <1>2 DEF IInv, SlotInv, WorksInTurn, PassedIsKept, FirstOfItsId, FindsWhatIs, Positions, Busy
<1>6. (Cardinality(Running) <= MaxParallel)'
  <2>1. Running' = Running
    BY <1>1, <1>2 DEF Running
  <2> QED BY <2>1 DEF IInv
<1> QED BY <1>3, <1>4, <1>5, <1>6 DEF IInv

\* A search reads the scripts directory first, and the others add nothing to it.
LEMMA ReadDirInv ==
  ASSUME IInv, NEW i \in Slots, ReadDir(i)
  PROVE  IInv'
<1>1. /\ pc[i] = "scan" /\ todo[i] # <<>>
      /\ found' = [found EXCEPT ![i] = @ \cup InDir(disk, Head(todo[i]))]
      /\ todo' = [todo EXCEPT ![i] = Tail(@)]
      /\ UNCHANGED <<phase, cmds, next, batch, pc, result, late, stopping, disk, cli, raced>>
  BY DEF ReadDir, position
<1>2. /\ todo \in [Slots -> Seq(Dirs)] /\ found \in [Slots -> SUBSET Infos] /\ disk \in Disks
  BY DEF IInv, TypeOK
<1>3. TypeOK'
  <2>1. InDir(disk, Head(todo[i])) \subseteq Infos
    BY <1>2, InDirFacts
  <2>2. found' \in [Slots -> SUBSET Infos]
    BY <2>1, <1>1, <1>2
  <2>3. todo' \in [Slots -> Seq(Dirs)]
    BY <1>1, <1>2
  <2> QED BY <2>2, <2>3, <1>1 DEF IInv, TypeOK
<1>4. Control'
  BY <1>1 DEF IInv, Control, Positions
<1>5. /\ todo'[i] \in {<<"packaged", "user">>, <<"user">>, <<>>}
      /\ InScripts(found'[i]) = InDir(disk, "scripts")
  <2>0. SlotInv(i)
    BY DEF IInv
  <2>1. /\ todo[i] \in {DaemonPath, <<"packaged", "user">>, <<"user">>}
        /\ todo[i] = DaemonPath => found[i] = {}
        /\ todo[i] # DaemonPath => InScripts(found[i]) = InDir(disk, "scripts")
    BY <2>0, <1>1 DEF SlotInv, FindsWhatIs
  <2>2. found'[i] = found[i] \cup InDir(disk, Head(todo[i])) /\ todo'[i] = Tail(todo[i])
    BY <1>1, <1>2
  <2>3. CASE todo[i] = DaemonPath
    <3>1. Head(DaemonPath) = "scripts" /\ Tail(DaemonPath) = <<"packaged", "user">>
      BY DEF DaemonPath
    <3>2. found'[i] = InDir(disk, "scripts")
      BY <3>1, <2>1, <2>2, <2>3
    <3> QED BY <3>1, <3>2, <2>2, <2>3, <1>2, InScriptsFacts
  <2>4. CASE todo[i] = <<"packaged", "user">>
    <3>1. Head(todo[i]) = "packaged" /\ Tail(todo[i]) = <<"user">> /\ todo[i] # DaemonPath
      BY <2>4 DEF DaemonPath
    <3> QED BY <3>1, <2>1, <2>2, <1>2, InScriptsFacts
  <2>5. CASE todo[i] = <<"user">>
    <3>1. Head(todo[i]) = "user" /\ Tail(todo[i]) = <<>> /\ todo[i] # DaemonPath
      BY <2>5 DEF DaemonPath
    <3>2. InScripts(found'[i]) = InScripts(found[i])
      BY <3>1, <2>2, <1>2, InScriptsFacts
    <3> QED BY <3>1, <3>2, <2>1, <2>2
  <2> QED BY <2>1, <2>3, <2>4, <2>5
<1>6. ASSUME NEW j \in Slots PROVE SlotInv(j)'
  <2>0. SlotInv(j)
    BY DEF IInv
  <2>1. WorksInTurn(j)' /\ PassedIsKept(j)' /\ FirstOfItsId(j)'
    BY <2>0, <1>1 DEF SlotInv, WorksInTurn, PassedIsKept, FirstOfItsId, Positions
  <2>2. FindsWhatIs(j)'
    <3>1. CASE j = i
      BY <3>1, <1>1, <1>5 DEF FindsWhatIs, DaemonPath
    <3>2. CASE j # i
      BY <3>2, <2>0, <1>1, <1>2 DEF SlotInv, FindsWhatIs
    <3> QED BY <3>1, <3>2
  <2> QED BY <2>1, <2>2 DEF SlotInv
<1>7. (Cardinality(Running) <= MaxParallel)'
  BY <1>1 DEF IInv, Running
<1> QED BY <1>3, <1>4, <1>6, <1>7 DEF IInv
\* The disk is a disk whatever a command leaves, and only a serial command writes
\* to it: nobody else is searching then.
LEMMA WritesInTurn ==
  ASSUME IInv, NEW i \in Slots, InstallScript(i) \/ RemoveScript(i)
  PROVE  disk' \in Disks /\ phase = "serial" /\ pc[i] \in Busy
<1>1. pc[i] = "scan" /\ i \in Positions /\ Serial(cmds[i])
  BY DEF InstallScript, RemoveScript, Scanned, Is, Serial
<1>2. phase = "serial"
  BY <1>1 DEF IInv, SlotInv, WorksInTurn, PassedIsKept, Busy
<1>3. CASE InstallScript(i)
  <2>1. cmds[i].name \in Names /\ cmds[i].version \in Versions
    BY <1>1, SlotFacts DEF IInv, Commands
  <2> DEFINE at == Destination(i)
  <2>2. at \in Paths
    BY <2>1, ContentFacts DEF Destination, Dirs
  <2>3. disk \in Disks
    BY DEF IInv, TypeOK
  <2>4. PICK left : left \in Contents /\ disk' = [disk EXCEPT ![at] = left]
    <3>1. disk[at] \in Contents
      BY <2>2, <2>3 DEF Disks
    <3>2. Script(cmds[i].name, cmds[i].version) \in Contents
          /\ Cut(cmds[i].name, cmds[i].version) \in Contents /\ Broken \in Contents
      BY <2>1, ContentFacts
    <3> QED BY <1>3, <3>1, <3>2 DEF InstallScript, Installed
  <2>5. disk' \in Disks
    <3> HIDE DEF at
    <3> QED BY <2>2, <2>3, <2>4, WriteFacts
  <2> QED BY <2>5, <1>1, <1>2 DEF Busy
<1>4. CASE RemoveScript(i)
  <2>1. PICK s \in Targets(i) : disk' = disk \/ disk' = [disk EXCEPT ![s.path] = NoFile]
    BY <1>4 DEF RemoveScript
  <2>2. s \in found[i]
    BY SelectionFacts DEF Targets
  <2>3. s.path \in Paths /\ disk \in Disks
    <3>1. found \in [Slots -> SUBSET Infos] /\ disk \in Disks
      BY DEF IInv, TypeOK
    <3>2. s \in Infos
      BY <3>1, <2>2
    <3> QED BY <3>1, <3>2 DEF Infos
  <2>4. disk' \in Disks
    BY <2>1, <2>3, WriteFacts, ContentFacts
  <2> QED BY <2>4, <1>1, <1>2 DEF Busy
<1> QED BY <1>3, <1>4

\* The ways a command ends without changing a script.
EndsUnchanged(i) ==
  Abandon(i) \/ TooLate(i) \/ Refuse(i) \/ RunScript(i) \/ ListScripts(i) \/ Decline(i)

LEMMA EndFacts ==
  ASSUME NEW i \in Slots, EndsUnchanged(i) \/ InstallScript(i) \/ RemoveScript(i)
  PROVE  /\ \E answer \in {"ok", "refused", "failed", "timeout"} : Finish(i, answer)
         /\ pc[i] \in Busy
         /\ EndsUnchanged(i) => UNCHANGED disk
         /\ ~EndsUnchanged(i) => \E answer \in {"ok", "failed"} : Finish(i, answer)
BY DEF EndsUnchanged, Abandon, TooLate, Refuse, RunScript, ListScripts, Decline, InstallScript,
  RemoveScript, Scanned, Busy

LEMMA WorkInv ==
  ASSUME IInv, NEW i \in Slots, Work(i)
  PROVE  IInv'
<1>1. CASE Acquire(i) \/ BeginScan(i) \/ ReadDir(i)
  BY <1>1, AcquireInv, BeginScanInv, ReadDirInv
<1>2. CASE EndsUnchanged(i) \/ InstallScript(i) \/ RemoveScript(i)
  <2>1. PICK answer \in {"ok", "refused", "failed", "timeout"} : Finish(i, answer)
    BY <1>2, EndFacts
  <2>2. answer \in Answers /\ answer # "payload_fetch_failed"
    BY DEF Answers
  <2>3. pc[i] \in Busy
    BY <1>2, EndFacts
  <2>4. disk' \in Disks /\ (phase = "serial" \/ InDir(disk', "scripts") = InDir(disk, "scripts"))
    <3>1. CASE EndsUnchanged(i)
      BY <3>1, EndFacts DEF IInv, TypeOK
    <3>2. CASE InstallScript(i) \/ RemoveScript(i)
      BY <3>2, WritesInTurn
    <3> QED BY <1>2, <3>1, <3>2
  <2> QED BY <2>1, <2>2, <2>3, <2>4, FinishInv
<1> QED BY <1>1, <1>2 DEF Work, EndsUnchanged

-----------------------------------------------------------------------------
LEMMA Inductive == Spec => []IInv
<1>1. IInv /\ [Next]_vars => IInv'
  <2> SUFFICES ASSUME IInv, [Next]_vars PROVE IInv'
    OBVIOUS
  <2>1. CASE UNCHANGED vars
    BY <2>1 DEF vars, position, scan, IInv, TypeOK, Control, SlotInv, WorksInTurn, PassedIsKept,
      FirstOfItsId, FindsWhatIs, Positions, Running
  <2>2. ASSUME NEW d \in Deliveries, Receive(d) PROVE IInv'
    BY <2>2, ReceiveInv
  <2>3. CASE Loop
    BY <2>3, PassInv, CollectInv, FlushInv, FlushOverInv, ExecuteInv, ExecutedInv, EndOfBatchInv,
      SendInv DEF Loop
  <2>4. ASSUME NEW i \in Slots, Work(i) \/ Expire(i) PROVE IInv'
    BY <2>4, WorkInv, ClockInv
  <2>5. CASE Stop \/ Start
    <3>1. UNCHANGED <<phase, cmds, next, batch, pc, todo, found, result, late, disk, cli, raced>>
          /\ stopping' \in BOOLEAN
      BY <2>5 DEF Stop, Start, position, scan
    <3> QED BY <3>1 DEF IInv, TypeOK, Control, SlotInv, WorksInTurn, PassedIsKept, FirstOfItsId,
          FindsWhatIs, Positions, Running
  <2>6. CASE CliStep
    BY <2>6, CliInv
  <2> QED BY <2>1, <2>2, <2>3, <2>4, <2>5, <2>6 DEF Next
<1> QED BY <1>1, InitInv, PTL DEF Spec

\* Every reachable state is well typed: what is written and found are scripts of
\* the device's directories.
THEOREM BatchTypeCorrect == Spec => []TypeOK
<1>1. IInv => TypeOK
  BY DEF IInv
<1> QED BY <1>1, Inductive, PTL

\* A serial command has the device to itself, and no more than MaxParallel others
\* run at once (commandRequiresSerial, flushBatch).
THEOREM SerialIsAlone == Spec => []Exclusive
<1>1. IInv => Exclusive
  <2> SUFFICES ASSUME IInv, NEW i \in Running, NEW j \in Running, i # j PROVE ~Serial(cmds[i])
    BY DEF IInv, Exclusive
  <2>1. i \in Slots /\ j \in Slots /\ pc[i] \in Busy /\ pc[j] \in Busy
    BY DEF Running, Busy
  <2>2. i \in batch
    BY <2>1 DEF IInv, SlotInv, WorksInTurn
  <2> QED BY <2>1, <2>2 DEF IInv, SlotInv, PassedIsKept
<1> QED BY <1>1, Inductive, PTL

\* Results are sent when every command has one (ExecuteBatch).
THEOREM EveryCommandAnswered == Spec => []AllAnswered
<1>1. IInv => AllAnswered
  <2> SUFFICES ASSUME IInv, phase = "send", NEW i \in Positions PROVE result[i] # "none"
    BY DEF AllAnswered
  <2>1. next = Len(cmds) + 1 /\ batch = {} /\ Len(cmds) \in Nat
    BY DEF IInv, TypeOK, Control
  <2>2. i \in Slots /\ i \in Nat /\ i < next
    BY <2>1, SlotFacts DEF IInv, Positions
  <2> QED BY <2>1, <2>2 DEF IInv, SlotInv, PassedIsKept
<1> QED BY <1>1, Inductive, PTL

\* Whatever ids the server repeats, no two commands of one id are executed (seen).
THEOREM NoneExecutedTwice == Spec => []ExecutedOnce
<1>1. IInv => ExecutedOnce
  <2>1. ASSUME IInv, NEW i \in Positions, NEW j \in Positions, i < j, cmds[i].id = cmds[j].id
        PROVE  pc[i] = "off" \/ pc[j] = "off"
    <3>1. i \in Slots /\ j \in Slots /\ i \in 1..(j - 1)
      BY <2>1, SlotFacts DEF IInv, Positions
    <3>2. pc[j] # "off" => result[i] = "payload_fetch_failed"
      BY <3>1, <2>1 DEF IInv, SlotInv, FirstOfItsId
    <3> QED BY <3>1, <3>2, <2>1 DEF IInv, SlotInv, PassedIsKept
  <2>2. \A i, j \in Positions : i # j => i < j \/ j < i
    BY DEF Positions
  <2> QED BY <2>1, <2>2 DEF ExecutedOnce
<1> QED BY <1>1, Inductive, PTL
-----------------------------------------------------------------------------
(* A batch implements OrderedBatch: the refinement mapping, by name *)

Writers == {i \in Positions : Serial(cmds[i])}
AnsweredSlots == {i \in Slots : i \in Positions => result[i] # "none"}
ScriptsStore == InDir(disk, "scripts")
SeenBy == [i \in Slots |->
             IF Is(i, "list_scripts") /\ result[i] = "ok" THEN {InScripts(found[i])} ELSE {}]

LEMMA MappingFacts ==
  ASSUME IInv
  PROVE  Writers \subseteq Slots /\ AnsweredSlots \subseteq Slots /\ ScriptsStore \in SUBSET Infos
BY SlotFacts, InDirFacts DEF IInv, TypeOK, Writers, AnsweredSlots, ScriptsStore

LEMMA OrderInit == Init => Order!Init
<1> SUFFICES ASSUME Init PROVE Order!Init
  OBVIOUS
<1>1. Positions = {}
  BY DEF Init, Positions
<1>2. Writers = {} /\ AnsweredSlots = Slots /\ SeenBy = [i \in Slots |-> {}]
  BY <1>1 DEF Writers, AnsweredSlots, SeenBy, Is
<1>3. ScriptsStore \in SUBSET Infos
  BY InitInv, MappingFacts
<1> QED BY <1>2, <1>3 DEF Order!Init, Writers, AnsweredSlots, ScriptsStore, SeenBy

\* A step that answers nobody and leaves the scripts alone is not seen.
LEMMA QuietStep ==
  ASSUME UNCHANGED <<cmds, result>>, ScriptsStore' = ScriptsStore, SeenBy' = SeenBy
  PROVE  [Order!Next]_(Order!vars)
<1>1. Writers' = Writers /\ AnsweredSlots' = AnsweredSlots
  BY DEF Writers, AnsweredSlots, Positions
<1> QED BY <1>1 DEF Order!vars, Writers, AnsweredSlots, ScriptsStore, SeenBy

\* A batch arrives, or its results are sent: all of the batch before it is over.
LEMMA AcceptStep ==
  ASSUME IInv, IInv', (\E d \in Deliveries : Receive(d)) \/ Send
  PROVE  [Order!Next]_(Order!vars)
<1>1. AnsweredSlots = Slots
  <2>1. phase \in {"poll", "send"}
    BY DEF Receive, Send
  <2>2. ASSUME NEW i \in Positions PROVE result[i] # "none"
    <3>1. CASE phase = "poll"
      BY <3>1 DEF IInv, Control, Positions
    <3>2. CASE phase = "send"
      <4>1. next = Len(cmds) + 1 /\ batch = {} /\ Len(cmds) \in Nat
        BY <3>2 DEF IInv, TypeOK, Control
      <4>2. i \in Slots /\ i \in Nat /\ i < next
        BY <4>1, SlotFacts DEF IInv, Positions
      <4> QED BY <4>1, <4>2 DEF IInv, SlotInv, PassedIsKept
    <3> QED BY <2>1, <3>1, <3>2
  <2> QED BY <2>2 DEF AnsweredSlots
<1>2. \A i \in Slots : result'[i] # "ok"
  BY DEF Receive, Send, Blank
<1>3. SeenBy' = [i \in Slots |-> {}]
  BY <1>2 DEF SeenBy
<1>4. ScriptsStore' = ScriptsStore
  BY DEF Receive, Send, ScriptsStore
<1>5. Writers' \subseteq Slots /\ AnsweredSlots' \subseteq Slots
  <2>1. Positions' \subseteq Slots
    BY SlotFacts, BatchSizes DEF IInv, TypeOK, Positions, Slots
  <2> QED BY <2>1 DEF Writers, AnsweredSlots
<1> QED BY <1>1, <1>3, <1>4, <1>5
    DEF Order!Next, Order!Accept, Order!vars, Writers, AnsweredSlots, ScriptsStore, SeenBy

\* One command is answered, and nothing else of the mapping changes.
LEMMA RefuseStep ==
  ASSUME IInv, NEW i \in Slots, i \in Positions, result[i] = "none",
         NEW answer, answer # "none", result' = [result EXCEPT ![i] = answer], cmds' = cmds,
         ScriptsStore' = ScriptsStore, SeenBy' = SeenBy
  PROVE  [Order!Next]_(Order!vars)
<1>1. Writers' = Writers
  BY DEF Writers, Positions
<1>2. i \in Slots \ AnsweredSlots /\ AnsweredSlots' = AnsweredSlots \cup {i}
  BY DEF AnsweredSlots, Positions, IInv, TypeOK
<1>3. Order!Refuse(i)
  BY <1>1, <1>2 DEF Order!Refuse, Order!Answer, Writers, AnsweredSlots, ScriptsStore, SeenBy
<1> QED BY <1>3 DEF Order!Next
\* The loop's own steps and the clock answer nobody, except Reject.
LEMMA LoopStep ==
  ASSUME IInv, IInv', Loop \/ Stop \/ Start \/ CliStep
  PROVE  [Order!Next]_(Order!vars)
<1>1. CASE Send
  BY <1>1, AcceptStep
<1>2. ASSUME NEW i \in Slots, Reject(i) PROVE [Order!Next]_(Order!vars)
  <2>1. PICK answer \in {"missing_command_id", "duplicate_command_id"} :
          result' = [result EXCEPT ![i] = answer]
    BY <1>2 DEF Reject
  <2>2. i \in Positions /\ result[i] = "none" /\ UNCHANGED <<cmds, found, disk>>
    BY <1>2 DEF Reject, AtLoop, scan
  <2>3. ScriptsStore' = ScriptsStore
    BY <2>2 DEF ScriptsStore
  <2>4. SeenBy' = SeenBy
    BY <2>1, <2>2 DEF SeenBy, Is, Positions, IInv, TypeOK
  <2> QED BY <2>1, <2>2, <2>3, <2>4, RefuseStep
<1>3. ASSUME UNCHANGED <<cmds, result, found>>, ScriptsStore' = ScriptsStore
      PROVE  [Order!Next]_(Order!vars)
  <2>1. SeenBy' = SeenBy
    BY <1>3 DEF SeenBy, Is, Positions
  <2> QED BY <1>3, <2>1, QuietStep
<1>4. CASE CliStep
  BY <1>3, <1>4, CliFacts DEF IInv, daemon, ScriptsStore
<1>5. CASE \/ \E i \in Slots : Skip(i) \/ Collect(i) \/ Execute(i) \/ Executed(i)
           \/ Flush \/ FlushOver \/ EndOfBatch \/ Stop \/ Start
  BY <1>3, <1>5 DEF Skip, Collect, Execute, Executed, Flush, FlushOver, EndOfBatch, Stop, Start,
    position, scan, ScriptsStore
<1> QED BY <1>1, <1>2, <1>4, <1>5 DEF Loop

\* A read is answered with the store that the writes ahead of it left: those are
\* all answered, and nothing has written since it searched.
LEMMA ReadStep ==
  ASSUME IInv, NEW i \in Slots, ListScripts(i)
  PROVE  [Order!Next]_(Order!vars)
<1>1. /\ pc[i] = "scan" /\ todo[i] = <<>> /\ Is(i, "list_scripts") /\ i \in Positions
      /\ Finish(i, IF Expired(i) THEN "timeout" ELSE "ok") /\ UNCHANGED disk
  BY DEF ListScripts, Scanned, Is
<1>2. /\ result[i] = "none" /\ result \in [Slots -> Answers \cup {"none"}]
      /\ found \in [Slots -> SUBSET Infos]
  BY <1>1 DEF IInv, TypeOK, SlotInv, WorksInTurn, Busy
<1>3. UNCHANGED <<cmds, found>> /\ ScriptsStore' = ScriptsStore
  BY <1>1, <1>2 DEF Finish, ScriptsStore
<1>4. CASE Expired(i)
  <2>1. result' = [result EXCEPT ![i] = "timeout"]
    BY <1>1, <1>4 DEF Finish
  <2>2. SeenBy' = SeenBy
    BY <2>1, <1>2, <1>3 DEF SeenBy, Is, Positions
  <2> QED BY <1>1, <1>2, <1>3, <2>1, <2>2, RefuseStep
<1>5. CASE ~Expired(i)
  <2>1. result' = [result EXCEPT ![i] = "ok"]
    BY <1>1, <1>5 DEF Finish
  <2>2. Writers' = Writers /\ i \notin Writers
    BY <1>1, <1>3 DEF Writers, Positions, Is, Serial
  <2>3. i \in Slots \ AnsweredSlots /\ AnsweredSlots' = AnsweredSlots \cup {i}
    BY <1>1, <1>2, <1>3, <2>1 DEF AnsweredSlots, Positions
  <2>4. InScripts(found[i]) = ScriptsStore
    <3>1. todo[i] # DaemonPath
      BY <1>1 DEF DaemonPath
    <3> QED BY <3>1, <1>1 DEF IInv, SlotInv, FindsWhatIs, ScriptsStore
  <2>5. SeenBy' = [SeenBy EXCEPT ![i] = {ScriptsStore}]
    <3>1. \A j \in Slots \ {i} : result'[j] = result[j]
      BY <2>1, <1>2
    <3>2. result'[i] = "ok" /\ Is(i, "list_scripts")'
      BY <2>1, <1>1, <1>2, <1>3 DEF Is, Positions
    <3> QED BY <3>1, <3>2, <2>4, <1>3 DEF SeenBy, Is, Positions
  <2>6. ASSUME NEW j \in Writers, j < i PROVE j \in AnsweredSlots
    <3>1. j \in Slots /\ j \in Positions /\ Serial(cmds[j]) /\ j \in Nat /\ i \in Nat /\ next \in Nat
      BY SlotFacts DEF IInv, TypeOK, Writers
    <3>2. i <= next
      BY <1>1, <3>1 DEF IInv, SlotInv, WorksInTurn, PassedIsKept, Busy
    <3>3. j < next
      BY <2>6, <3>1, <3>2
    <3>4. result[j] # "none"
      BY <3>1, <3>3 DEF IInv, SlotInv, PassedIsKept
    <3> QED BY <3>1, <3>4 DEF AnsweredSlots
  <2>7. Order!Read(i)
    BY <1>3, <2>2, <2>3, <2>5, <2>6
      DEF Order!Read, Order!Answer, Order!WritesBefore, Writers, AnsweredSlots, ScriptsStore, SeenBy
  <2> QED BY <2>7 DEF Order!Next
<1> QED BY <1>4, <1>5

\* A write finds everything ahead of it answered.
LEMMA WriteStep ==
  ASSUME IInv, IInv', NEW i \in Slots, InstallScript(i) \/ RemoveScript(i)
  PROVE  [Order!Next]_(Order!vars)
<1>1. PICK answer \in {"ok", "failed"} : Finish(i, answer)
  BY DEF InstallScript, RemoveScript
<1>2. pc[i] = "scan" /\ i \in Positions /\ Serial(cmds[i]) /\ ~Is(i, "list_scripts")
  BY DEF InstallScript, RemoveScript, Scanned, Is, Serial
<1>3. phase = "serial" /\ i = next /\ result[i] = "none" /\ batch = {}
  BY <1>2, WritesInTurn DEF IInv, SlotInv, WorksInTurn, Control, Busy
<1>4. /\ result' = [result EXCEPT ![i] = answer] /\ result \in [Slots -> Answers \cup {"none"}]
      /\ found' = [found EXCEPT ![i] = {}] /\ found \in [Slots -> SUBSET Infos] /\ cmds' = cmds
  BY <1>1, <1>2 DEF Finish, IInv, TypeOK
<1>5. Writers' = Writers /\ i \in Writers
  BY <1>2, <1>4 DEF Writers, Positions
<1>6. i \in Slots \ AnsweredSlots /\ AnsweredSlots' = AnsweredSlots \cup {i}
  BY <1>2, <1>3, <1>4 DEF AnsweredSlots, Positions
<1>7. SeenBy' = SeenBy
  <2>1. \A j \in Slots \ {i} : result'[j] = result[j] /\ found'[j] = found[j]
    BY <1>4
  <2>2. ~Is(i, "list_scripts")'
    BY <1>2, <1>4 DEF Is, Positions
  <2> QED BY <2>1, <2>2, <1>2, <1>4 DEF SeenBy, Is, Positions
<1>8. ScriptsStore' \in SUBSET Infos
  <2>1. disk' \in Disks
    BY DEF IInv, TypeOK
  <2> QED BY <2>1, InDirFacts DEF ScriptsStore
<1>9. ASSUME NEW j \in Slots, j < i PROVE j \in AnsweredSlots
  BY <1>3, <1>9 DEF IInv, SlotInv, PassedIsKept, AnsweredSlots
<1>10. Order!Write(i)
  BY <1>5, <1>6, <1>7, <1>8, <1>9
    DEF Order!Write, Order!Answer, Order!Before, Writers, AnsweredSlots, ScriptsStore, SeenBy
<1> QED BY <1>10 DEF Order!Next

LEMMA WorkStep ==
  ASSUME IInv, IInv', NEW i \in Slots, Work(i) \/ Expire(i)
  PROVE  [Order!Next]_(Order!vars)
<1>1. CASE Acquire(i) \/ BeginScan(i) \/ Expire(i)
  <2>1. UNCHANGED <<cmds, result, found, disk>>
    BY <1>1 DEF Acquire, BeginScan, Expire, position, scan
  <2> QED BY <2>1, QuietStep DEF ScriptsStore, SeenBy, Is, Positions
<1>2. CASE ReadDir(i)
  <2>1. /\ UNCHANGED <<cmds, result, disk>> /\ found' = [found EXCEPT ![i] = @ \cup InDir(disk, Head(todo[i]))]
        /\ result[i] = "none" /\ found \in [Slots -> SUBSET Infos]
    BY <1>2 DEF ReadDir, position, IInv, TypeOK, SlotInv, WorksInTurn, Busy
  <2>2. \A j \in Slots : result[j] = "ok" => found'[j] = found[j]
    BY <2>1
  <2>3. SeenBy' = SeenBy
    BY <2>1, <2>2 DEF SeenBy, Is, Positions
  <2> QED BY <2>1, <2>3, QuietStep DEF ScriptsStore
<1>3. CASE ListScripts(i)
  BY <1>3, ReadStep
<1>4. CASE InstallScript(i) \/ RemoveScript(i)
  BY <1>4, WriteStep
<1>5. CASE Abandon(i) \/ TooLate(i) \/ Refuse(i) \/ RunScript(i) \/ Decline(i)
  <2>1. PICK answer \in {"ok", "refused", "failed", "timeout"} :
          Finish(i, answer) /\ (Is(i, "list_scripts") => answer # "ok")
    BY <1>5 DEF Abandon, TooLate, Refuse, RunScript, Decline, Is
  <2>2. pc[i] \in Busy /\ UNCHANGED disk
    BY <1>5 DEF Abandon, TooLate, Refuse, RunScript, Decline, Scanned, Busy
  <2>3. i \in Positions /\ result[i] = "none"
    BY <2>2 DEF IInv, SlotInv, WorksInTurn
  <2>4. /\ result' = [result EXCEPT ![i] = answer] /\ result \in [Slots -> Answers \cup {"none"}]
        /\ \A j \in Slots \ {i} : found'[j] = found[j]
        /\ cmds' = cmds /\ ScriptsStore' = ScriptsStore
    BY <2>1, <2>2 DEF Finish, IInv, TypeOK, ScriptsStore
  <2>5. SeenBy' = SeenBy
    <3>1. \A j \in Slots \ {i} : result'[j] = result[j]
      BY <2>4
    <3>2. result'[i] = answer
      BY <2>4
    <3> QED BY <3>1, <3>2, <2>1, <2>3, <2>4 DEF SeenBy, Is, Positions
  <2> QED BY <2>3, <2>4, <2>5, RefuseStep
<1> QED BY <1>1, <1>2, <1>3, <1>4, <1>5 DEF Work

\* A heartbeat's commands take effect in the server's order: every step of the
\* device is a step of OrderedBatch or none (ExecuteBatch, commandRequiresSerial).
THEOREM BatchImplementsOrder == Spec => TakesEffectInOrder
<1>1. IInv /\ IInv' /\ [Next]_vars => [Order!Next]_(Order!vars)
  <2> SUFFICES ASSUME IInv, IInv', [Next]_vars PROVE [Order!Next]_(Order!vars)
    OBVIOUS
  <2>1. CASE UNCHANGED vars
    <3>1. UNCHANGED <<cmds, result, found, disk>>
      BY <2>1 DEF vars, position, scan
    <3> QED BY <3>1, QuietStep DEF ScriptsStore, SeenBy, Is, Positions
  <2>2. CASE Next
    BY <2>2, AcceptStep, LoopStep, WorkStep DEF Next
  <2> QED BY <2>1, <2>2
<1> QED BY <1>1, OrderInit, Inductive, PTL DEF Spec, TakesEffectInOrder, Order!Spec
-----------------------------------------------------------------------------
(* What a refusal and an install do *)

\* A command that is answered as refused or timed out has changed no script
\* (installScript, removeScript): the deadline is not looked at after a commit.
THEOREM RefusalsAreClean == Spec => RefusedChangesNothing
<1> DEFINE A == \A i \in Slots : result[i] = "none" /\ result'[i] \in Unchanged => disk' = disk
<1>1. IInv /\ [Next]_vars => [A]_vars
  <2> SUFFICES ASSUME IInv, [Next]_vars, NEW i \in Slots,
                      result[i] = "none", result'[i] \in Unchanged
               PROVE  disk' = disk
    OBVIOUS
  <2>1. CASE UNCHANGED vars
    BY <2>1 DEF vars
  <2>2. CASE (\E d \in Deliveries : Receive(d)) \/ Loop \/ Stop \/ Start
    <3>1. CASE (\E d \in Deliveries : Receive(d)) \/ Send \/ Stop \/ Start
      BY <3>1 DEF Receive, Send, Stop, Start
    <3>2. CASE Flush \/ FlushOver \/ EndOfBatch
      BY <3>2 DEF Flush, FlushOver, EndOfBatch
    <3>3. ASSUME NEW j \in Slots, Skip(j) \/ Reject(j) \/ Collect(j) \/ Execute(j) \/ Executed(j)
          PROVE  disk' = disk
      BY <3>3 DEF Skip, Reject, Collect, Execute, Executed
    <3> QED BY <2>2, <3>1, <3>2, <3>3 DEF Loop
  <2>3. CASE CliStep
    <3>1. result' = result
      BY <2>3, CliFacts DEF IInv, daemon
    <3> QED BY <3>1 DEF Unchanged
  <2>4. ASSUME NEW j \in Slots, Work(j) \/ Expire(j) PROVE disk' = disk
    <3>1. CASE Acquire(j) \/ BeginScan(j) \/ ReadDir(j) \/ Expire(j)
      BY <3>1 DEF Acquire, BeginScan, ReadDir, Expire
    <3>2. CASE EndsUnchanged(j)
      BY <3>2, EndFacts
    <3>3. CASE (InstallScript(j) \/ RemoveScript(j)) /\ ~EndsUnchanged(j)
      <4>1. PICK answer \in {"ok", "failed"} : Finish(j, answer)
        BY <3>3, EndFacts
      <4>2. result' = [result EXCEPT ![j] = answer] /\ result \in [Slots -> Answers \cup {"none"}]
        BY <4>1 DEF Finish, IInv, TypeOK
      <4>3. result'[i] \in {"none", "ok", "failed"}
        BY <4>2
      <4> QED BY <4>3 DEF Unchanged
    <3> QED BY <2>4, <3>1, <3>2, <3>3 DEF Work, EndsUnchanged
  <2> QED BY <2>1, <2>2, <2>3, <2>4 DEF Next
<1> HIDE DEF A
<1>2. Spec => [][A]_vars
  BY <1>1, Inductive, PTL DEF Spec
<1> QED BY <1>2 DEF A, RefusedChangesNothing

\* Version numbers are small, so a set of scripts has a highest one.
LEMMA RankFacts == \A v : Rank(v) \in {0, 1, 2, 3} /\ (Number(v) # Bad => Rank(v) = Number(v))
BY DEF Rank, Number, Bad

LEMMA MaxFacts ==
  ASSUME NEW f, NEW n, Named(f, n) # {}
  PROVE  /\ MaxVersion(f, n) \in {0, 1, 2, 3}
         /\ \A s \in Named(f, n) : Rank(s.version) <= MaxVersion(f, n)
<1> DEFINE ranks == {Rank(s.version) : s \in Named(f, n)}
<1> DEFINE Highest(m) == \A s \in Named(f, n) : Rank(s.version) <= m
<1>1. ranks \subseteq {0, 1, 2, 3} /\ ranks # {}
  BY RankFacts
<1>2. \A s \in Named(f, n) : Rank(s.version) \in ranks
  OBVIOUS
<1>3. \E m \in ranks : \A r \in ranks : r <= m
  <2> HIDE DEF ranks
  <2>1. CASE 3 \in ranks
    BY <2>1, <1>1
  <2>2. CASE 3 \notin ranks /\ 2 \in ranks
    BY <2>2, <1>1
  <2>3. CASE 3 \notin ranks /\ 2 \notin ranks /\ 1 \in ranks
    BY <2>3, <1>1
  <2>4. CASE 3 \notin ranks /\ 2 \notin ranks /\ 1 \notin ranks
    <3>1. PICK r \in ranks : TRUE
      BY <1>1
    <3>2. \A q \in ranks : q = 0
      BY <2>4, <1>1
    <3> QED BY <3>1, <3>2
  <2> QED BY <2>1, <2>2, <2>3, <2>4
<1>4. \E m \in ranks : Highest(m)
  BY <1>2, <1>3
<1>5. MaxVersion(f, n) \in ranks /\ Highest(MaxVersion(f, n))
  BY <1>4 DEF MaxVersion
<1> QED BY <1>1, <1>5
\* What an install has read of the disk is what is there, unless the
\* administrator wrote since it began.
Reads(todoNow) ==
  CASE todoNow = <<"packaged", "user">> -> InDir(disk, "scripts")
    [] todoNow = <<"user">> -> InDir(disk, "scripts") \cup InDir(disk, "packaged")
    [] todoNow = <<>> -> InDir(disk, "scripts") \cup InDir(disk, "packaged") \cup InDir(disk, "user")
    [] OTHER -> {}

SeesTheDisk == phase = "serial" /\ ~raced /\ pc[next] = "scan" => found[next] = Reads(todo[next])

LEMMA SearchIsComplete ==
  Reads(<<>>) = Discover(disk, DaemonPath) /\ Reads(DaemonPath) = {}
<1>1. /\ DOMAIN DaemonPath = {1, 2, 3}
      /\ DaemonPath[1] = "scripts" /\ DaemonPath[2] = "packaged" /\ DaemonPath[3] = "user"
  BY DEF DaemonPath
<1>2. Discover(disk, DaemonPath) = InDir(disk, "scripts") \cup InDir(disk, "packaged") \cup InDir(disk, "user")
  BY <1>1 DEF Discover
<1>3. DaemonPath \notin {<<"packaged", "user">>, <<"user">>, <<>>}
  BY DEF DaemonPath
<1>4. /\ <<>> # <<"packaged", "user">> /\ <<>> # <<"user">>
      /\ <<"packaged", "user">> # <<"user">>
  OBVIOUS
<1> QED BY <1>2, <1>3, <1>4 DEF Reads

LEMMA SeesInv ==
  ASSUME IInv, SeesTheDisk, [Next]_vars, phase' = "serial", ~raced', pc'[next'] = "scan"
  PROVE  found'[next'] = Reads(todo[next])'
<1>1. CASE UNCHANGED <<phase, next, pc, todo, found, disk, raced>>
  BY <1>1 DEF SeesTheDisk, Reads
<1>2. CASE (\E d \in Deliveries : Receive(d)) \/ Loop
  <2>1. ASSUME NEW i \in Slots, Execute(i) PROVE FALSE
    <3>1. i = next /\ next' = next /\ pc' = [pc EXCEPT ![i] = "check"]
      BY <2>1 DEF Execute, Accepted, AtLoop, position
    <3>2. pc'[next'] = "check"
      BY <3>1 DEF IInv, TypeOK
    <3> QED BY <3>2
  <2>2. phase' # "serial" \/ \E i \in Slots : Execute(i)
    BY <1>2 DEF Receive, Loop, Skip, Reject, AtLoop, Collect, Accepted, Flush, FlushOver, Executed,
      EndOfBatch, Send
  <2> QED BY <2>1, <2>2
<1>3. CASE CliStep
  <2>1. phase' = phase /\ raced' = (phase = "serial")
    BY <1>3, CliFacts DEF IInv, daemon
  <2> QED BY <2>1
<1>4. CASE (\E i \in Slots : Expire(i)) \/ Stop \/ Start
  BY <1>1, <1>4 DEF Expire, Stop, Start, position, scan
<1>5. ASSUME NEW i \in Slots, Work(i) PROVE found'[next'] = Reads(todo[next])'
  <2>1. UNCHANGED <<phase, next, raced>> /\ pc[i] \in Busy
    BY <1>5 DEF Work, Acquire, Abandon, TooLate, Refuse, RunScript, BeginScan, ReadDir, ListScripts,
      Decline, InstallScript, RemoveScript, Scanned, Finish, position, Busy
  <2>2. i = next /\ SlotInv(i)
    BY <2>1 DEF IInv, SlotInv, WorksInTurn
  <2>3. pc \in [Slots -> {"off", "waiting", "check", "scan", "done"}]
        /\ todo \in [Slots -> Seq(Dirs)] /\ found \in [Slots -> SUBSET Infos]
    BY DEF IInv, TypeOK
  <2>4. CASE BeginScan(i)
    <3>1. found' = found /\ todo'[i] = DaemonPath /\ pc[i] = "check"
      BY <2>3, <2>4 DEF BeginScan
    <3>2. found[i] = {}
      BY <3>1, <2>2 DEF SlotInv, FindsWhatIs
    <3>3. Reads(DaemonPath)' = {}
      <4>1. DaemonPath \notin {<<"packaged", "user">>, <<"user">>, <<>>}
        BY DEF DaemonPath
      <4> QED BY <4>1 DEF Reads
    <3> QED BY <3>1, <3>2, <3>3, <2>1, <2>2 DEF Reads
  <2>5. CASE ReadDir(i)
    <3>1. /\ pc[i] = "scan" /\ todo[i] # <<>> /\ disk' = disk
          /\ found'[i] = found[i] \cup InDir(disk, Head(todo[i])) /\ todo'[i] = Tail(todo[i])
      BY <2>3, <2>5 DEF ReadDir
    <3>2. todo[i] \in {DaemonPath, <<"packaged", "user">>, <<"user">>}
      BY <3>1, <2>2 DEF SlotInv, FindsWhatIs
    <3>3. found[i] = Reads(todo[i])
      BY <3>1, <2>1, <2>2 DEF SeesTheDisk
    <3>4. Reads(todo[next])' = Reads(todo'[i])
      BY <3>1, <2>1, <2>2 DEF Reads
    <3>5. found'[i] = Reads(todo'[i])
      <4>1. CASE todo[i] = DaemonPath
        <5>1. Head(todo[i]) = "scripts" /\ todo'[i] = <<"packaged", "user">>
          BY <4>1, <3>1 DEF DaemonPath
        <5>2. Reads(todo'[i]) = InDir(disk, "scripts")
          BY <5>1 DEF Reads
        <5> QED BY <5>1, <5>2, <4>1, <3>1, <3>3, SearchIsComplete
      <4>2. CASE todo[i] = <<"packaged", "user">>
        <5>1. Head(todo[i]) = "packaged" /\ todo'[i] = <<"user">>
          BY <4>2, <3>1
        <5>2. Reads(todo[i]) = InDir(disk, "scripts")
          BY <4>2 DEF Reads
        <5>3. Reads(todo'[i]) = InDir(disk, "scripts") \cup InDir(disk, "packaged")
          BY <5>1 DEF Reads
        <5> QED BY <5>1, <5>2, <5>3, <3>1, <3>3
      <4>3. CASE todo[i] = <<"user">>
        <5>1. Head(todo[i]) = "user" /\ todo'[i] = <<>>
          BY <4>3, <3>1
        <5>2. Reads(todo[i]) = InDir(disk, "scripts") \cup InDir(disk, "packaged")
          BY <4>3 DEF Reads
        <5>3. Reads(todo'[i]) = InDir(disk, "scripts") \cup InDir(disk, "packaged") \cup InDir(disk, "user")
          BY <5>1 DEF Reads
        <5> QED BY <5>1, <5>2, <5>3, <3>1, <3>3
      <4> QED BY <3>2, <4>1, <4>2, <4>3
    <3> QED BY <3>4, <3>5, <2>1, <2>2
  <2>6. CASE ~BeginScan(i) /\ ~ReadDir(i)
    <3>1. pc' = [pc EXCEPT ![i] = "check"] \/ pc' = [pc EXCEPT ![i] = "done"]
      BY <1>5, <2>6 DEF Work, Acquire, Abandon, TooLate, Refuse, RunScript, ListScripts,
        Decline, InstallScript, RemoveScript, Finish
    <3> QED BY <3>1, <2>1, <2>2, <2>3
  <2> QED BY <2>4, <2>5, <2>6
<1> QED BY <1>1, <1>2, <1>3, <1>4, <1>5 DEF Next, vars, position, scan

Put(d, p, content) == [d EXCEPT ![p] = content]

\* The newest script of a name after an install is the one that was installed.
LEMMA NewestIsInstalled ==
  ASSUME NEW d \in Disks, NEW n \in Names, NEW v \in Versions,
         NEW dst \in Paths, dst[1] = "scripts",
         NewerThanAll(Discover(d, DaemonPath), n, v),
         NEW s, s \in LatestScript(Discover(Put(d, dst, Script(n, v)), DaemonPath), n, DaemonPath)
  PROVE  s.path = dst
<1> DEFINE e == Put(d, dst, Script(n, v))
<1> DEFINE f == Discover(d, DaemonPath)
<1> DEFINE g == Discover(e, DaemonPath)
<1>1. /\ f = InDir(d, "scripts") \cup InDir(d, "packaged") \cup InDir(d, "user")
      /\ g = InDir(e, "scripts") \cup InDir(e, "packaged") \cup InDir(e, "user")
  <2>1. /\ DOMAIN DaemonPath = {1, 2, 3}
        /\ DaemonPath[1] = "scripts" /\ DaemonPath[2] = "packaged" /\ DaemonPath[3] = "user"
    BY DEF DaemonPath
  <2> QED BY <2>1 DEF Discover
<1>2. e[dst] = Script(n, v) /\ \A q \in Paths : q # dst => e[q] = d[q]
  BY DEF Disks, Put
<1> DEFINE new == [name |-> n, version |-> v, path |-> dst]
<1>3. new \in Named(g, n)
  <2>1. Readable(e[dst]) /\ e[dst].name = n /\ e[dst].version = v
    BY <1>2 DEF Readable, Script
  <2>2. new \in InDir(e, "scripts")
    BY <2>1 DEF InDir
  <2> QED BY <1>1, <2>2 DEF Named
<1>4. s \in Named(g, n) /\ Rank(s.version) = MaxVersion(g, n)
  BY DEF LatestScript, First, Named
<1>5. ASSUME s.path # dst PROVE s \in Named(f, n)
  <2>1. ASSUME NEW dir, s \in InDir(e, dir) PROVE s \in InDir(d, dir)
    <3>1. PICK q \in Paths : /\ q[1] = dir /\ Readable(e[q])
                             /\ s = [name |-> e[q].name, version |-> e[q].version, path |-> q]
      BY <2>1 DEF InDir
    <3>2. q # dst
      BY <3>1, <1>5
    <3>3. e[q] = d[q]
      BY <3>2, <1>2
    <3> QED BY <3>1, <3>3 DEF InDir
  <2>2. s \in f
    BY <1>1, <1>4, <2>1 DEF Named
  <2> QED BY <2>2, <1>4 DEF Named
<1> HIDE DEF e, f, g, new
<1>6. Rank(new.version) <= MaxVersion(g, n)
  BY <1>3, MaxFacts
<1>7. new.version = v
  BY DEF new
<1>8. Number(v) = Rank(v) /\ Rank(v) \in {0, 1, 2, 3} /\ Rank(s.version) \in {0, 1, 2, 3}
  BY RankFacts DEF NewerThanAll
<1>9. ASSUME s \in Named(f, n) PROVE FALSE
  <2>1. Rank(s.version) <= MaxVersion(f, n) /\ MaxVersion(f, n) \in {0, 1, 2, 3}
    BY <1>9, MaxFacts
  <2>2. Number(v) > MaxVersion(f, n)
    BY <1>9 DEF NewerThanAll, f
  <2> QED BY <2>1, <2>2, <1>4, <1>6, <1>7, <1>8
<1> QED BY <1>5, <1>9

\* An install that is answered ok is what the next poll runs, whatever directory
\* the other versions are in (ensureNewerVersion, LatestScript), unless the
\* administrator wrote meanwhile.
THEOREM InstallsTakeEffect == Spec => InstalledIsSelected
<1> DEFINE A ==
       \A i \in Slots :
         result[i] = "none" /\ result'[i] = "ok" /\ Is(i, "install_script") /\ ~raced =>
           \A s \in LatestScript(Discover(disk', DaemonPath), cmds[i].name, DaemonPath) :
             s.path = Destination(i)
<1>1. Init => SeesTheDisk
  BY DEF Init, SeesTheDisk
<1>2. IInv /\ SeesTheDisk /\ [Next]_vars => SeesTheDisk'
  BY SeesInv, Zenon DEF SeesTheDisk
<1>3. IInv /\ SeesTheDisk /\ [Next]_vars => [A]_vars
  <2> SUFFICES ASSUME IInv, SeesTheDisk, [Next]_vars, NEW i \in Slots,
                      result[i] = "none", result'[i] = "ok", Is(i, "install_script"), ~raced,
                      NEW s \in LatestScript(Discover(disk', DaemonPath), cmds[i].name, DaemonPath)
               PROVE  s.path = Destination(i)
    OBVIOUS
  <2>1. InstallScript(i)
    <3>1. result \in [Slots -> Answers \cup {"none"}]
      BY DEF IInv, TypeOK
    <3>2. CASE UNCHANGED <<result>>
      BY <3>2
    <3>3. CASE (\E d \in Deliveries : Receive(d)) \/ Send
      BY <3>3 DEF Receive, Send, Blank
    <3>4. ASSUME NEW j \in Slots, Reject(j) PROVE FALSE
      BY <3>4, <3>1 DEF Reject
    <3>5. CASE CliStep
      BY <3>5, CliFacts DEF IInv, daemon
    <3>6. ASSUME NEW j \in Slots, EndsUnchanged(j) \/ InstallScript(j) \/ RemoveScript(j)
          PROVE  InstallScript(i)
      <4>1. PICK answer : result' = [result EXCEPT ![j] = answer]
        BY <3>6, EndFacts DEF Finish
      <4>2. j = i
        BY <4>1, <3>1
      <4>3. ~RunScript(i) /\ ~ListScripts(i) /\ ~RemoveScript(i)
        BY DEF RunScript, ListScripts, RemoveScript, Is
      <4>4. ASSUME Abandon(i) \/ TooLate(i) \/ Refuse(i) \/ Decline(i) PROVE FALSE
        <5>1. result' = [result EXCEPT ![i] = "timeout"] \/ result' = [result EXCEPT ![i] = "refused"]
          BY <4>4 DEF Abandon, TooLate, Refuse, Decline, Finish
        <5> QED BY <5>1, <3>1
      <4> QED BY <3>6, <4>2, <4>3, <4>4 DEF EndsUnchanged
    <3>7. CASE Next
      BY <3>7, <3>2, <3>3, <3>4, <3>5, <3>6
        DEF Next, Loop, Work, Skip, Collect, Execute, Executed, Flush, FlushOver, EndOfBatch,
          Acquire, BeginScan, ReadDir, Expire, Stop, Start, EndsUnchanged
    <3> QED BY <3>2, <3>7 DEF vars
  <2>2. PICK answer \in {"ok", "failed"} : Finish(i, answer) /\
          (answer = "failed" \/ disk' = [disk EXCEPT ![Destination(i)] = Installed(i)])
    BY <2>1 DEF InstallScript
  <2>3. answer = "ok"
    BY <2>2 DEF Finish, IInv, TypeOK
  <2>4. NewerThanAll(found[i], cmds[i].name, cmds[i].version) /\ pc[i] = "scan" /\ todo[i] = <<>>
    BY <2>1 DEF InstallScript, Scanned
  <2>5. phase = "serial" /\ i = next
    BY <2>1, <2>4, WritesInTurn DEF IInv, SlotInv, WorksInTurn, Busy
  <2>6. found[i] = Discover(disk, DaemonPath)
    BY <2>4, <2>5, SearchIsComplete DEF SeesTheDisk
  <2>7. cmds[i].name \in Names /\ cmds[i].version \in Versions
    BY SlotFacts DEF IInv, Is, Commands
  <2>8. Destination(i) \in Paths /\ Destination(i)[1] = "scripts"
    BY <2>7, ContentFacts DEF Destination, Dirs
  <2>9. disk \in Disks
    BY DEF IInv, TypeOK
  <2> DEFINE dst == Destination(i)
  <2>10. dst \in Paths /\ dst[1] = "scripts"
         /\ disk' = [disk EXCEPT ![dst] = Script(cmds[i].name, cmds[i].version)]
    BY <2>2, <2>3, <2>8 DEF Installed
  <2> HIDE DEF dst
  <2>11. s \in LatestScript(Discover(disk', DaemonPath), cmds[i].name, DaemonPath)
    OBVIOUS
  <2>12. NewerThanAll(Discover(disk, DaemonPath), cmds[i].name, cmds[i].version)
    BY <2>4, <2>6
  <2>13. disk' = Put(disk, dst, Script(cmds[i].name, cmds[i].version))
    BY <2>10 DEF Put
  <2>14. s \in LatestScript(Discover(Put(disk, dst, Script(cmds[i].name, cmds[i].version)), DaemonPath),
                           cmds[i].name, DaemonPath)
    BY <2>11, <2>13
  <2> DEFINE n == cmds[i].name
  <2> DEFINE v == cmds[i].version
  <2>15. /\ n \in Names /\ v \in Versions /\ dst \in Paths /\ dst[1] = "scripts"
         /\ NewerThanAll(Discover(disk, DaemonPath), n, v)
         /\ s \in LatestScript(Discover(Put(disk, dst, Script(n, v)), DaemonPath), n, DaemonPath)
    BY <2>7, <2>10, <2>12, <2>14
  <2> HIDE DEF n, v
  <2>16. s.path = dst
    BY <2>9, <2>15, NewestIsInstalled, Zenon
  <2> QED BY <2>16 DEF dst
<1> HIDE DEF A
<1>4. Spec => [][A]_vars
  BY <1>1, <1>2, <1>3, Inductive, PTL DEF Spec
<1> QED BY <1>4 DEF A, InstalledIsSelected

-----------------------------------------------------------------------------
(* No batch hangs: what holds of BatchEnds without fairness *)

\* The guards of Loop, and of Work(i).
LoopCanStep ==
  \/ /\ phase = "loop" /\ next \in Positions
     /\ \/ result[next] = "payload_fetch_failed"
        \/ result[next] = "none" /\ (cmds[next].id = NoId \/ Repeats(next))
        \/ Accepted(next) /\ (Serial(cmds[next]) => batch = {})
  \/ phase = "loop" /\ FlushDue /\ batch # {}
  \/ phase = "loop" /\ next > Len(cmds) /\ batch = {}
  \/ phase = "flush" /\ \A i \in batch : pc[i] = "done"
  \/ phase = "serial" /\ pc[next] = "done"
  \/ phase = "send"

Searches(i) == Is(i, "list_scripts") \/ Is(i, "install_script") \/ Is(i, "remove_script")

SlotCanStep(i) ==
  \/ pc[i] = "waiting" /\ (Cardinality(Running) < MaxParallel \/ stopping)
  \/ pc[i] = "check"
  \/ pc[i] = "scan" /\ (todo[i] # <<>> \/ Searches(i))

BatchGoesOn == phase # "poll" => LoopCanStep \/ \E i \in Slots : SlotCanStep(i)

\* A bound on the steps of the loop and of the command at a position.
LoopLeft ==
  CASE phase = "loop" -> 4 * (Len(cmds) + 1 - next) + IF batch = {} THEN 1 ELSE 3
    [] phase = "flush" -> 4 * (Len(cmds) + 1 - next) + 2
    [] phase = "serial" -> 4 * (Len(cmds) + 1 - next)
    [] OTHER -> 0

SlotLeft(i) ==
  CASE pc[i] = "off" -> Len(DaemonPath) + 4
    [] pc[i] = "waiting" -> Len(DaemonPath) + 3
    [] pc[i] = "check" -> Len(DaemonPath) + 2
    [] pc[i] = "scan" -> Len(todo[i]) + 1
    [] OTHER -> 0

BatchGetsOn ==
  [][phase # "poll" /\ phase' # "poll" =>
       /\ LoopLeft \in Nat /\ LoopLeft' <= LoopLeft
       /\ Loop => LoopLeft' < LoopLeft
       /\ \A i \in Slots :
            /\ SlotLeft(i) \in Nat /\ SlotLeft(i)' <= SlotLeft(i)
            /\ Work(i) => SlotLeft(i)' < SlotLeft(i)]_vars

\* What the guards rest on besides the invariant: only commands that search get to
\* the search, nothing ahead of the loop is answered but what could not be fetched,
\* and whoever the loop waits for has been started.
Placed ==
  /\ \A i \in Slots :
       /\ pc[i] = "scan" => Searches(i)
       /\ i >= next /\ pc[i] = "off" => result[i] \in {"none", "payload_fetch_failed"}
  /\ phase = "flush" => \A i \in batch : pc[i] # "off"
  /\ phase = "serial" => pc[next] # "off"

LEMMA WorkPlaced ==
  ASSUME IInv, Placed, NEW j \in Slots, Work(j)
  PROVE  /\ UNCHANGED <<phase, cmds, position>>
         /\ pc[j] \in Busy /\ pc'[j] # "off" /\ (pc'[j] = "scan" => Searches(j))
         /\ \A i \in Slots \ {j} : pc'[i] = pc[i] /\ result'[i] = result[i]
<1>1. /\ pc \in [Slots -> {"off", "waiting", "check", "scan", "done"}]
      /\ result \in [Slots -> Answers \cup {"none"}]
  BY DEF IInv, TypeOK
<1>2. CASE BeginScan(j)
  BY <1>1, <1>2 DEF BeginScan, Searches, position, Busy
<1>3. CASE ReadDir(j)
  BY <1>1, <1>3 DEF ReadDir, position, Placed, Busy
<1>4. CASE Acquire(j)
  BY <1>1, <1>4 DEF Acquire, position, Busy
<1>5. CASE EndsUnchanged(j) \/ InstallScript(j) \/ RemoveScript(j)
  <2>1. pc[j] \in Busy /\ \E answer \in {"ok", "refused", "failed", "timeout"} : Finish(j, answer)
    BY <1>5, EndFacts
  <2> QED BY <1>1, <2>1 DEF Finish, position
<1> QED BY <1>2, <1>3, <1>4, <1>5 DEF Work, EndsUnchanged

LEMMA PlacedNext ==
  ASSUME IInv, Placed, [Next]_vars
  PROVE  Placed'
<1>1. /\ pc \in [Slots -> {"off", "waiting", "check", "scan", "done"}]
      /\ result \in [Slots -> Answers \cup {"none"}]
      /\ next \in Nat /\ Slots \subseteq Nat /\ batch \subseteq Slots
  BY SlotFacts DEF IInv, TypeOK
<1> USE DEF position, scan
<1>2. CASE UNCHANGED <<phase, cmds, position, pc, result>>
  BY <1>2 DEF Placed, Searches, Is, Positions
<1>3. ASSUME NEW d \in Deliveries, Receive(d) PROVE Placed'
  <2>1. pc' = pc /\ phase' = "loop" /\ \A i \in Slots : pc[i] # "scan"
    BY <1>3 DEF Receive, IInv, SlotInv, WorksInTurn, Busy
  <2>2. \A i \in Slots : result'[i] \in {"none", "payload_fetch_failed"}
    BY <1>3 DEF Receive
  <2> QED BY <2>1, <2>2 DEF Placed
<1>4. CASE Send
  BY <1>4 DEF Send, Blank, Placed
<1>5. CASE Flush
  <2>1. /\ cmds' = cmds /\ next' = next /\ batch' = batch /\ result' = result /\ phase' = "flush"
        /\ \A i \in Slots : pc'[i] = IF i \in batch THEN "waiting" ELSE pc[i]
    BY <1>1, <1>5 DEF Flush
  <2> QED BY <1>1, <2>1 DEF Placed, Searches, Is, Positions
<1>6. CASE FlushOver \/ EndOfBatch
  BY <1>6 DEF FlushOver, EndOfBatch, Placed, Searches, Is, Positions
<1>7. ASSUME NEW j \in Slots, Skip(j) \/ Reject(j) \/ Collect(j) PROVE Placed'
  <2>1. /\ pc' = pc /\ cmds' = cmds /\ phase' = "loop" /\ next' = next + 1 /\ j = next
        /\ \A i \in Slots \ {j} : result'[i] = result[i]
    BY <1>1, <1>7 DEF Skip, Reject, Collect, Accepted, AtLoop
  <2>2. \A i \in Slots : i >= next' => i # j /\ i >= next
    BY <1>1, <2>1
  <2> QED BY <2>1, <2>2 DEF Placed, Searches, Is, Positions
<1>8. ASSUME NEW j \in Slots, Execute(j) PROVE Placed'
  <2>1. /\ cmds' = cmds /\ next' = next /\ result' = result /\ phase' = "serial" /\ j = next
        /\ pc'[j] = "check" /\ \A i \in Slots \ {j} : pc'[i] = pc[i]
    BY <1>1, <1>8 DEF Execute, Accepted, AtLoop
  <2> QED BY <2>1 DEF Placed, Searches, Is, Positions
<1>9. ASSUME NEW j \in Slots, Executed(j) PROVE Placed'
  <2>1. pc' = pc /\ cmds' = cmds /\ phase' = "loop" /\ next' = next + 1 /\ result' = result
    BY <1>9 DEF Executed
  <2>2. \A i \in Slots : i >= next' => i >= next
    BY <1>1, <2>1
  <2> QED BY <2>1, <2>2 DEF Placed, Searches, Is, Positions
<1>10. ASSUME NEW j \in Slots, Work(j) PROVE Placed'
  <2>1. /\ UNCHANGED <<phase, cmds, position>>
        /\ pc[j] \in Busy /\ pc'[j] # "off" /\ (pc'[j] = "scan" => Searches(j))
        /\ \A i \in Slots \ {j} : pc'[i] = pc[i] /\ result'[i] = result[i]
    BY <1>10, WorkPlaced
  <2>2. \A i \in Slots : Searches(i)' = Searches(i)
    BY <2>1 DEF Searches, Is, Positions
  <2>3. \A i \in Slots : /\ pc'[i] = "scan" => Searches(i)
                         /\ i >= next /\ pc'[i] = "off" => result'[i] \in {"none", "payload_fetch_failed"}
    BY <2>1 DEF Placed
  <2>4. phase = "flush" => \A i \in batch : pc'[i] # "off"
    BY <1>1, <2>1 DEF Placed
  <2>5. phase = "serial" => pc'[next] # "off"
    <3>1. phase = "serial" => next \in Slots
      BY SlotFacts DEF IInv, Control
    <3> QED BY <2>1, <3>1 DEF Placed
  <2> QED BY <2>1, <2>2, <2>3, <2>4, <2>5 DEF Placed
<1>11. \/ (\E d \in Deliveries : Receive(d)) \/ Send \/ Flush \/ FlushOver \/ EndOfBatch
       \/ (\E j \in Slots : Skip(j) \/ Reject(j) \/ Collect(j) \/ Execute(j) \/ Executed(j) \/ Work(j))
       \/ UNCHANGED <<phase, cmds, position, pc, result>>
  <2>1. CliStep => UNCHANGED <<phase, cmds, position, pc, result>>
    BY CliFacts DEF IInv, daemon
  <2> QED BY <2>1 DEF Next, Loop, Expire, Stop, Start, vars
<1> QED BY <1>2, <1>3, <1>4, <1>5, <1>6, <1>7, <1>8, <1>9, <1>10, <1>11

LEMMA AlwaysPlaced == Spec => []Placed
<1>1. Init => Placed
  BY DEF Init, Blank, Placed
<1> QED BY <1>1, PlacedNext, Inductive, PTL DEF Spec

\* Until its results are sent a batch can always go on: the loop does not wait for
\* a command that waits for the loop, nor for a slot that nobody frees (flushBatch).
THEOREM BatchIsNeverStuck == Spec => []BatchGoesOn
<1>1. IInv /\ Placed => BatchGoesOn
  <2> SUFFICES ASSUME IInv, Placed, phase # "poll", ~LoopCanStep, \A i \in Slots : ~SlotCanStep(i)
               PROVE  FALSE
    BY DEF BatchGoesOn
  <2>1. /\ pc \in [Slots -> {"off", "waiting", "check", "scan", "done"}]
        /\ phase \in {"loop", "flush", "serial", "send"}
        /\ Len(cmds) \in Nat /\ next \in Nat /\ next \in 1..(Len(cmds) + 1) /\ batch \subseteq Slots
    BY DEF IInv, TypeOK, Control
  <2>2. \A i \in Slots : pc[i] \notin {"check", "scan"}
    BY DEF SlotCanStep, Placed
  <2>3. Running = {}
    BY <2>2 DEF Running
  <2>4. Cardinality(Running) < MaxParallel
    BY <2>3, FS_EmptySet, BatchSizes
  <2>5. \A i \in Slots : pc[i] \in {"off", "done"}
    BY <2>1, <2>2, <2>4 DEF SlotCanStep
  <2>6. CASE phase = "loop"
    <3>1. CASE next > Len(cmds)
      BY <2>6, <3>1 DEF LoopCanStep, FlushDue
    <3>2. CASE next \in Positions
      <4>1. next \in Slots
        BY <3>2, SlotFacts DEF IInv
      <4>2. result[next] \in {"none", "payload_fetch_failed"}
        <5>1. pc[next] = "off"
          BY <2>1, <2>6, <4>1 DEF IInv, SlotInv, WorksInTurn
        <5> QED BY <2>1, <4>1, <5>1 DEF Placed
      <4>3. result[next] = "none" /\ cmds[next].id # NoId /\ ~Repeats(next)
        BY <2>6, <3>2, <4>2 DEF LoopCanStep
      <4>4. Accepted(next)
        BY <2>6, <3>2, <4>3 DEF Accepted, AtLoop
      <4> QED BY <2>6, <3>2, <4>4 DEF LoopCanStep, FlushDue
    <3> QED BY <2>1, <3>1, <3>2 DEF Positions
  <2>7. CASE phase = "flush"
    BY <2>1, <2>5, <2>7 DEF LoopCanStep, Placed
  <2>8. CASE phase = "serial"
    <3>1. next \in Slots /\ pc[next] # "off"
      BY <2>8, SlotFacts DEF IInv, Control, Placed
    <3> QED BY <2>5, <2>8, <3>1 DEF LoopCanStep
  <2>9. CASE phase = "send"
    BY <2>9 DEF LoopCanStep
  <2> QED BY <2>1, <2>6, <2>7, <2>8, <2>9
<1> QED BY <1>1, Inductive, AlwaysPlaced, PTL

LEMMA LeftTypes ==
  ASSUME IInv
  PROVE  LoopLeft \in Nat /\ \A i \in Slots : SlotLeft(i) \in Nat
<1>1. LoopLeft \in Nat
  <2>1. Len(cmds) \in Nat /\ next \in 1..(Len(cmds) + 1)
    BY DEF IInv, TypeOK, Control
  <2> QED BY <2>1 DEF LoopLeft
<1>2. ASSUME NEW i \in Slots PROVE SlotLeft(i) \in Nat
  <2>1. Len(todo[i]) \in Nat /\ Len(DaemonPath) = 3
    BY DEF IInv, TypeOK, DaemonPath
  <2> QED BY <2>1 DEF SlotLeft
<1> QED BY <1>1, <1>2

LEMMA LoopTakesAStep ==
  ASSUME IInv, Loop, phase' # "poll"
  PROVE  LoopLeft' < LoopLeft
<1>1. Len(cmds) \in Nat /\ next \in 1..(Len(cmds) + 1) /\ (phase = "serial" => batch = {} /\ next <= Len(cmds))
  BY DEF IInv, TypeOK, Control, Positions
<1> USE DEF position
<1>2. CASE \E j \in Slots : Skip(j) \/ Reject(j) \/ Collect(j)
  <2>1. /\ phase = "loop" /\ phase' = "loop" /\ cmds' = cmds /\ next' = next + 1 /\ next <= Len(cmds)
    BY <1>1, <1>2 DEF Skip, Reject, Collect, Accepted, AtLoop, Positions
  <2> QED BY <1>1, <2>1 DEF LoopLeft
<1>3. CASE \E j \in Slots : Execute(j)
  <2>1. phase = "loop" /\ batch = {} /\ phase' = "serial" /\ cmds' = cmds /\ next' = next
    BY <1>3 DEF Execute, Accepted, AtLoop
  <2> QED BY <1>1, <2>1 DEF LoopLeft
<1>4. CASE \E j \in Slots : Executed(j)
  <2>1. phase = "serial" /\ batch' = batch /\ phase' = "loop" /\ cmds' = cmds /\ next' = next + 1
    BY <1>4 DEF Executed
  <2> QED BY <1>1, <2>1 DEF LoopLeft
<1>5. CASE Flush
  <2>1. phase = "loop" /\ batch # {} /\ phase' = "flush" /\ cmds' = cmds /\ next' = next
    BY <1>5 DEF Flush
  <2> QED BY <1>1, <2>1 DEF LoopLeft
<1>6. CASE FlushOver
  <2>1. phase = "flush" /\ batch' = {} /\ phase' = "loop" /\ cmds' = cmds /\ next' = next
    BY <1>6 DEF FlushOver
  <2> QED BY <1>1, <2>1 DEF LoopLeft
<1>7. CASE EndOfBatch
  <2>1. phase = "loop" /\ phase' = "send"
    BY <1>7 DEF EndOfBatch
  <2> QED BY <1>1, <2>1 DEF LoopLeft
<1>8. ~Send
  BY DEF Send
<1> QED BY <1>2, <1>3, <1>4, <1>5, <1>6, <1>7, <1>8 DEF Loop

\* Nor does the loop set a command back: it starts one that has not been started.
LEMMA LoopKeepsSlots ==
  ASSUME IInv, Loop, phase' # "poll", NEW i \in Slots
  PROVE  SlotLeft(i)' <= SlotLeft(i)
<1>1. /\ pc \in [Slots -> {"off", "waiting", "check", "scan", "done"}] /\ batch \subseteq Slots
      /\ Len(todo[i]) \in Nat
  BY DEF IInv, TypeOK
<1>2. todo' = todo /\ (pc'[i] = pc[i] \/ (pc[i] = "off" /\ pc'[i] \in {"waiting", "check"}))
  <2>1. CASE Flush
    <3>1. i \in batch => pc[i] = "off"
      BY <2>1 DEF Flush, IInv, SlotInv, PassedIsKept
    <3> QED BY <1>1, <2>1, <3>1 DEF Flush, scan
  <2>2. ASSUME NEW j \in Slots, Execute(j)
        PROVE todo' = todo /\ (pc'[i] = pc[i] \/ (pc[i] = "off" /\ pc'[i] \in {"waiting", "check"}))
    <3>1. j \in Nat /\ j = next /\ phase = "loop" /\ next \in Nat
      BY <2>2, SlotFacts DEF Execute, Accepted, AtLoop, IInv, TypeOK
    <3>2. pc[j] = "off"
      BY <3>1 DEF IInv, SlotInv, WorksInTurn
    <3> QED BY <1>1, <2>2, <3>2 DEF Execute, scan
  <2>3. CASE UNCHANGED <<pc, todo>>
    BY <2>3
  <2>4. Flush \/ (\E j \in Slots : Execute(j)) \/ UNCHANGED <<pc, todo>>
    BY DEF Loop, Skip, Reject, Collect, Executed, FlushOver, EndOfBatch, Send, scan
  <2> QED BY <2>1, <2>2, <2>3, <2>4
<1>3. Len(DaemonPath) = 3
  BY DEF DaemonPath
<1>4. CASE pc'[i] = pc[i]
  BY <1>1, <1>2, <1>3, <1>4 DEF SlotLeft
<1>5. CASE pc[i] = "off" /\ pc'[i] \in {"waiting", "check"}
  BY <1>1, <1>3, <1>5 DEF SlotLeft
<1> QED BY <1>2, <1>4, <1>5

LEMMA SlotTakesAStep ==
  ASSUME IInv, NEW j \in Slots, Work(j)
  PROVE  /\ UNCHANGED <<phase, cmds, position>>
         /\ SlotLeft(j)' < SlotLeft(j)
         /\ \A i \in Slots \ {j} : SlotLeft(i)' = SlotLeft(i)
<1>1. /\ pc \in [Slots -> {"off", "waiting", "check", "scan", "done"}]
      /\ todo \in [Slots -> Seq(Dirs)] /\ Len(todo[j]) \in Nat /\ Len(DaemonPath) = 3
      /\ todo[j] \in Seq(Dirs)
  BY DEF IInv, TypeOK, DaemonPath
<1>2. CASE BeginScan(j)
  <2>1. /\ pc[j] = "check" /\ pc'[j] = "scan" /\ todo'[j] = DaemonPath
        /\ \A i \in Slots \ {j} : pc'[i] = pc[i] /\ todo'[i] = todo[i]
    BY <1>1, <1>2 DEF BeginScan
  <2>2. UNCHANGED <<phase, cmds, position>>
    BY <1>2 DEF BeginScan, position
  <2>3. SlotLeft(j) = Len(DaemonPath) + 2 /\ SlotLeft(j)' = Len(DaemonPath) + 1
    BY <2>1 DEF SlotLeft
  <2>4. \A i \in Slots \ {j} : SlotLeft(i)' = SlotLeft(i)
    BY <2>1 DEF SlotLeft
  <2> QED BY <1>1, <2>2, <2>3, <2>4
<1>3. CASE ReadDir(j)
  <2>1. Len(Tail(todo[j])) = Len(todo[j]) - 1
    BY <1>1, <1>3 DEF ReadDir
  <2>2. /\ pc' = pc /\ pc[j] = "scan" /\ todo'[j] = Tail(todo[j])
        /\ \A i \in Slots \ {j} : todo'[i] = todo[i]
    BY <1>1, <1>3 DEF ReadDir
  <2>3. UNCHANGED <<phase, cmds, position>>
    BY <1>3 DEF ReadDir, position
  <2>4. SlotLeft(j) = Len(todo[j]) + 1 /\ SlotLeft(j)' = Len(Tail(todo[j])) + 1
    BY <2>2 DEF SlotLeft
  <2>5. \A i \in Slots \ {j} : SlotLeft(i)' = SlotLeft(i)
    BY <2>2 DEF SlotLeft
  <2>6. SlotLeft(j)' < SlotLeft(j)
    <3> DEFINE n == Len(todo[j])
               m == Len(Tail(todo[j]))
    <3>1. n \in Nat /\ m = n - 1 /\ SlotLeft(j) = n + 1 /\ SlotLeft(j)' = m + 1
      BY <1>1, <2>1, <2>4
    <3> HIDE DEF n, m
    <3> QED BY <3>1
  <2> QED BY <2>3, <2>5, <2>6
<1>4. CASE Acquire(j)
  BY <1>1, <1>4 DEF Acquire, position, scan, SlotLeft
<1>5. CASE EndsUnchanged(j) \/ InstallScript(j) \/ RemoveScript(j)
  <2>1. pc[j] \in Busy /\ \E answer \in {"ok", "refused", "failed", "timeout"} : Finish(j, answer)
    BY <1>5, EndFacts
  <2>2. /\ UNCHANGED <<phase, cmds, position, todo>> /\ pc'[j] = "done"
        /\ \A i \in Slots \ {j} : pc'[i] = pc[i]
    BY <1>1, <2>1 DEF Finish, position
  <2> QED BY <1>1, <2>1, <2>2 DEF SlotLeft, Busy
<1> QED BY <1>2, <1>3, <1>4, <1>5 DEF Work, EndsUnchanged

\* A batch is over after a bounded number of steps: every step of ExecuteBatch and
\* of a command is one of those it has left, and none, nor the administrator's, adds
\* to what is left. With BatchIsNeverStuck, a batch that is scheduled ends.
THEOREM BatchStepsRunOut == Spec => BatchGetsOn
<1> DEFINE A == phase # "poll" /\ phase' # "poll" =>
                  /\ LoopLeft \in Nat /\ LoopLeft' <= LoopLeft
                  /\ Loop => LoopLeft' < LoopLeft
                  /\ \A i \in Slots :
                       /\ SlotLeft(i) \in Nat /\ SlotLeft(i)' <= SlotLeft(i)
                       /\ Work(i) => SlotLeft(i)' < SlotLeft(i)
<1>1. IInv /\ IInv' /\ [Next]_vars => [A]_vars
  <2> SUFFICES ASSUME IInv, IInv', Next, phase # "poll", phase' # "poll" PROVE A
    OBVIOUS
  <2>1. LoopLeft \in Nat /\ \A i \in Slots : SlotLeft(i) \in Nat
    BY LeftTypes
  <2>2. LoopLeft' \in Nat /\ \A i \in Slots : SlotLeft(i)' \in Nat
    <3>1. Len(cmds') \in Nat /\ next' \in 1..(Len(cmds') + 1) /\ Len(DaemonPath) = 3
      BY DEF IInv, TypeOK, Control, DaemonPath
    <3>2. \A i \in Slots : Len(todo'[i]) \in Nat
      BY DEF IInv, TypeOK
    <3>3. LoopLeft' \in Nat
      BY <3>1 DEF LoopLeft
    <3>4. \A i \in Slots : SlotLeft(i)' \in Nat
      BY <3>1, <3>2 DEF SlotLeft
    <3> QED BY <3>3, <3>4
  <2>3. Loop => LoopLeft' < LoopLeft /\ \A i \in Slots : SlotLeft(i)' <= SlotLeft(i)
    BY LoopTakesAStep, LoopKeepsSlots
  <2>4. \A j \in Slots : Work(j) =>
          /\ UNCHANGED <<phase, cmds, position>>
          /\ SlotLeft(j)' < SlotLeft(j)
          /\ \A i \in Slots \ {j} : SlotLeft(i)' = SlotLeft(i)
    BY SlotTakesAStep
  <2>5. UNCHANGED <<phase, cmds, position>> => LoopLeft' = LoopLeft
    BY DEF LoopLeft, position
  <2>6. UNCHANGED <<pc, todo>> => \A i \in Slots : SlotLeft(i)' = SlotLeft(i)
    BY DEF SlotLeft
  <2>7. Loop \/ (\E j \in Slots : Work(j)) \/ UNCHANGED <<phase, cmds, position, pc, todo>>
    <3>1. CliStep => UNCHANGED <<phase, cmds, position, pc, todo>>
      BY CliFacts DEF IInv, daemon, position
    <3> QED BY <3>1 DEF Next, Receive, Expire, Stop, Start, scan
  <2> HIDE DEF A
  <2>8. CASE Loop
    <3>1. \A i \in Slots : Work(i) => SlotLeft(i)' < SlotLeft(i)
      BY <2>4
    <3> QED BY <2>1, <2>2, <2>3, <2>8, <3>1 DEF A
  <2>9. CASE ~Loop /\ \E j \in Slots : Work(j)
    <3>1. LoopLeft' = LoopLeft
      BY <2>4, <2>5, <2>9
    <3>2. \A i \in Slots : SlotLeft(i)' <= SlotLeft(i) /\ (Work(i) => SlotLeft(i)' < SlotLeft(i))
      BY <2>1, <2>2, <2>4, <2>9
    <3> QED BY <2>1, <2>9, <3>1, <3>2 DEF A
  <2>10. CASE ~Loop /\ (\A j \in Slots : ~Work(j)) /\ UNCHANGED <<phase, cmds, position, pc, todo>>
    BY <2>1, <2>5, <2>6, <2>10 DEF A
  <2> QED BY <2>7, <2>8, <2>9, <2>10
<1> HIDE DEF A
<1>2. Spec => [][A]_vars
  BY <1>1, Inductive, PTL DEF Spec
<1> QED BY <1>2 DEF A, BatchGetsOn
=============================================================================
