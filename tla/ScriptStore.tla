----------------------------- MODULE ScriptStore -----------------------------
(***************************************************************************)
(* Installed Stary scripts on a device: file names, version numbers, the   *)
(* directories that are searched, and how the newest script of a name is   *)
(* chosen (internal/script/version.go and discovery.go). Operators only.   *)
(***************************************************************************)
EXTENDS Integers, Sequences, FiniteSets

CONSTANTS
  Names,      \* script names of the front matter: strings
  Versions    \* version strings of the front matter

\* scripts.dir (/var/lib/nixstasis/scripts), /usr/libexec/nixstasis/scripts and
\* $HOME/.config/nixstasis/scripts.
Dirs == {"scripts", "packaged", "user"}

\* DefaultScriptDirs puts the custom directory first. The CLI's custom directory
\* is the user directory; a path that was seen already is skipped.
DaemonPath == <<"scripts", "packaged", "user">>
CliPath == <<"user", "packaged">>

\* A file is nothing, a script ("cut" when only the front of it was written), or
\* something ParseStaryFile rejects.
NoFile == [kind |-> "none", name |-> "", version |-> ""]
Broken == [kind |-> "broken", name |-> "", version |-> ""]
Script(n, v) == [kind |-> "script", name |-> n, version |-> v]
Cut(n, v) == [kind |-> "cut", name |-> n, version |-> v]
Contents == [kind : {"none", "broken", "script", "cut"},
             name : Names \cup {""}, version : Versions \cup {""}]

-----------------------------------------------------------------------------
\* ParseVersionNumber: empty is 0, a leading v is dropped, and what is not a
\* number is an error (Bad), which the selections below count as 0.
Bad == -1
Number(v) ==
  CASE v = "" -> 0
    [] v \in {"1", "v1"} -> 1
    [] v \in {"2", "v2"} -> 2
    [] v \in {"3", "v3"} -> 3
    [] OTHER -> Bad

Rank(v) == IF Number(v) = Bad THEN 0 ELSE Number(v)

\* InstallFilename, without ".stary": a name with a version that looks like
\* another name without one gives the same file.
FileName(n, v) == IF v = "" THEN n ELSE n \o "_" \o v

Files == {FileName(n, v) : n \in Names, v \in Versions}
Paths == Dirs \X Files
Disks == [Paths -> Contents]

-----------------------------------------------------------------------------
\* What one directory contributes to DiscoverScripts: the files that parse.
Readable(content) == content.kind \in {"script", "cut"}

InDir(disk, d) ==
  {[name |-> disk[p].name, version |-> disk[p].version, path |-> p] :
     p \in {q \in Paths : q[1] = d /\ Readable(disk[q])}}

\* DiscoverScripts on a disk that does not change meanwhile.
Discover(disk, search) == UNION {InDir(disk, search[k]) : k \in DOMAIN search}

Named(found, n) == {s \in found : s.name = n}

\* Discovery lists the directories in search order and a directory by file name.
\* FileOrder is that of the names of a small instance: the shorter sorts first.
Position(search, d) == CHOOSE k \in DOMAIN search : search[k] = d
Earlier(search, s, t) ==
  \/ Position(search, s.path[1]) < Position(search, t.path[1])
  \/ s.path[1] = t.path[1] /\ Len(s.path[2]) < Len(t.path[2])
  \/ s.path[1] = t.path[1] /\ Len(s.path[2]) = Len(t.path[2])
       /\ Rank(s.version) <= Rank(t.version)

\* MaxVersion: the highest number of a name, Bad when there is no such script.
MaxVersion(found, n) ==
  IF Named(found, n) = {} THEN Bad
  ELSE CHOOSE m \in {Rank(s.version) : s \in Named(found, n)} :
         \A s \in Named(found, n) : Rank(s.version) <= m

\* The scripts of a set that discovery would list first: one, if there is any.
First(scripts, search) == {s \in scripts : \A t \in scripts : Earlier(search, s, t)}

\* LatestScript: the highest number wins, and among equals the one found first.
LatestScript(found, n, search) ==
  First({s \in Named(found, n) : Rank(s.version) = MaxVersion(found, n)}, search)

\* selectRemovalTarget: the newest, or the first with the version that was named.
RemovalTarget(found, n, v, search) ==
  IF v = "" THEN LatestScript(found, n, search)
  ELSE First({s \in Named(found, n) : s.version = v}, search)

\* Fault: only the versions in the directory it installs to are compared.
NewerThanOwn(found, n, v) ==
  /\ Number(v) # Bad
  /\ \A s \in Named(found, n) : s.path[1] = "scripts" => Number(v) > Rank(s.version)

\* ensureNewerVersion.
NewerThanAll(found, n, v) ==
  /\ Number(v) # Bad
  /\ Named(found, n) # {} => Number(v) > MaxVersion(found, n)
=============================================================================
