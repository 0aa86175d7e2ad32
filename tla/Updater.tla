------------------------------ MODULE Updater ------------------------------
(***************************************************************************)
(* `xr update`: applyUpdate() (src/src/update/selfheal.ts) over the plans  *)
(* of the four ways XR is installed (atomic-updater.ts, npm-channel.ts,    *)
(* channels.ts): a binary swapped in its directory, a git checkout swapped *)
(* with a clone, an npm package, and a package of a manager such as brew.  *)
(*                                                                         *)
(* An updater is one process.  Every call that changes a file is an action *)
(* of its own, so that others and crashes come in between.  A file is an   *)
(* inode with a name: rename moves the name, and writing a file that       *)
(* exists truncates its inode.  A checkout is treated as one file.         *)
(* Nothing stops two updaters from running at once.                        *)
(***************************************************************************)
EXTENDS Naturals

CONSTANTS
  Updaters,  \* processes, each running `xr update` once
  Installed, \* the inode that is there at first
  None,      \* no inode; nobody writing
  Layouts,   \* which of the four layouts to start from
  Latest,    \* bound: the last version published
  MaxFaults  \* bound: failing calls, wrong canaries and crashes

ASSUME UpdaterAssumption ==
  /\ Installed \notin Updaters /\ None \notin Updaters /\ None # Installed
  /\ Layouts \subseteq {"binary", "git", "npm", "manager"}
  /\ Latest \in Nat \ {0} /\ MaxFaults \in Nat

VARIABLES
  layout, bad,   \* how XR is installed; the versions that do not boot
  released,      \* the newest version published
  at, text,      \* the inode each name has; what is in each inode
  pc,            \* where each updater is
  from, target,  \* the version it runs, the version it will install
  inode,         \* the inode it stages or installs
  faults,
  clashed,       \* history: the updaters that ran at the same time as another
  unrestored     \* history: the updaters whose undoing failed

files == <<at, text>>
vars == <<layout, bad, released, files, pc, from, target, inode, faults,
          clashed, unrestored>>

Versions == 1..Latest
Inodes == Updaters \cup {Installed}
Swapped == layout \in {"binary", "git"}

Current == <<"current">>
Stages == ({"staged"} \X Versions) \cup ({"slot"} \X Updaters)
Backups == {<<"prev">>} \cup ({"previous"} \X Updaters)
Names == {Current} \cup Stages \cup Backups

\* Binaries are staged under the version's name, beside one backup; clones
\* and their backups have random names.
Stage(p) == IF layout = "binary" THEN <<"staged", target[p]>> ELSE <<"slot", p>>
Backup(p) == IF layout = "binary" THEN <<"prev">> ELSE <<"previous", p>>

There(name) == at[name] # None
Whole(v) == [v |-> v, writer |-> None]

\* What the canaries find out: --version and doctor end as they should.
Boots(name) ==
  /\ There(name)
  /\ text[at[name]].writer = None
  /\ text[at[name]].v \notin bad

Ended == {"updated", "kept"}
Locations == {"off", "install", "writing", "test", "discard", "clear", "aside",
              "swap", "clean", "undo", "manage", "confirm", "reinstall", "assert",
              "dead"} \cup Ended
Active(p) == pc[p] \notin {"off", "dead"} \cup Ended

TypeOK ==
  /\ layout \in Layouts /\ bad \subseteq Versions /\ released \in Versions
  /\ at \in [Names -> Inodes \cup {None}]
  /\ text \in [Inodes -> [v : Versions, writer : Updaters \cup {None}]]
  /\ pc \in [Updaters -> Locations]
  /\ from \in [Updaters -> Versions] /\ target \in [Updaters -> Versions]
  /\ inode \in [Updaters -> Inodes]
  /\ faults \in 0..MaxFaults
  /\ clashed \subseteq Updaters /\ unrestored \subseteq Updaters

Init ==
  /\ layout \in Layouts
  /\ bad \in SUBSET (Versions \ {1})
  /\ released = 1
  /\ at = [n \in Names |-> IF n = Current THEN Installed ELSE None]
  /\ text = [i \in Inodes |-> Whole(1)]
  /\ pc = [p \in Updaters |-> "off"]
  /\ from = [p \in Updaters |-> 1] /\ target = [p \in Updaters |-> 1]
  /\ inode = [p \in Updaters |-> p]
  /\ faults = 0 /\ clashed = {} /\ unrestored = {}

Goto(p, where) == pc' = [pc EXCEPT ![p] = where]
Fault == faults < MaxFaults /\ faults' = faults + 1
Fine == faults' = faults
Undone(p) == unrestored' = unrestored \cup {p}
Rename(old, new) == at' = [at EXCEPT ![old] = None, ![new] = at[old]]
Remove(name) == at' = [at EXCEPT ![name] = None]
Fixed == UNCHANGED <<layout, bad, released, from, target, inode, clashed>>

-----------------------------------------------------------------------------
\* The release feed, the branch or the registry moves on.
Publish ==
  /\ released < Latest
  /\ released' = released + 1
  /\ UNCHANGED <<layout, bad, files, pc, from, target, inode, faults, clashed,
                 unrestored>>

\* runAtomicUpdate() up to the plan, in the XR that is in place.  Managers
\* are asked in any case; the others only if there is something newer.
Start(p) ==
  LET others == {q \in Updaters \ {p} : Active(q)}
  IN /\ pc[p] = "off" /\ Boots(Current)
     /\ from' = [from EXCEPT ![p] = text[at[Current]].v]
     /\ released > from'[p] \/ layout = "manager"
     /\ target' = [target EXCEPT ![p] = released]
     /\ Goto(p, "install")
     /\ clashed' = IF others = {} THEN clashed ELSE clashed \cup others \cup {p}
     /\ UNCHANGED <<layout, bad, released, files, inode, faults, unrestored>>

-----------------------------------------------------------------------------
(* install(): an exception ends the update and discards nothing.           *)

\* Download, clone, registry data or upgrade fail before any file is
\* touched.  git is run in the checkout, which must be there.
InstallFails(p) ==
  /\ pc[p] = "install"
  /\ \/ Fault
     \/ layout = "git" /\ ~There(Current) /\ Fine
  /\ Goto(p, "kept")
  /\ Fixed /\ UNCHANGED <<files, unrestored>>

\* Bun.write() opens the staged file; one that is there is truncated.
OpenStage(p) ==
  LET i == IF There(Stage(p)) THEN at[Stage(p)] ELSE p
  IN /\ pc[p] = "install" /\ layout = "binary"
     /\ at' = [at EXCEPT ![Stage(p)] = i]
     /\ text' = [text EXCEPT ![i] = [v |-> target[p], writer |-> p]]
     /\ inode' = [inode EXCEPT ![p] = i]
     /\ Goto(p, "writing")
     /\ UNCHANGED <<layout, bad, released, from, target, faults, clashed, unrestored>>

\* Two writers of one inode write the same bytes: it is whole when the one
\* that truncated it last has written all of them.
WriteStage(p) ==
  LET i == inode[p]
  IN /\ pc[p] = "writing"
     /\ \/ /\ Fine
           /\ text' = [text EXCEPT ![i].writer = IF @ = p THEN None ELSE @]
           /\ Goto(p, "test")
        \/ Fault /\ Goto(p, "kept") /\ UNCHANGED text
     /\ Fixed /\ UNCHANGED <<at, unrestored>>

\* The clone has what the branch has by now.
CloneInto(p) ==
  /\ pc[p] = "install" /\ layout = "git" /\ There(Current)
  /\ at' = [at EXCEPT ![Stage(p)] = p]
  /\ text' = [text EXCEPT ![p] = Whole(released)]
  /\ Goto(p, "test")
  /\ Fixed /\ Fine /\ UNCHANGED unrestored

\* For npm, install() only looks at the registry's data.
ReadRegistry(p) ==
  /\ pc[p] = "install" /\ layout = "npm"
  /\ Goto(p, "test")
  /\ Fixed /\ Fine /\ UNCHANGED <<files, unrestored>>

\* A package manager puts a version in place, or leaves half of it.
Put(p, v) ==
  /\ at' = [at EXCEPT ![Current] = p]
  /\ text' = [text EXCEPT ![p] = Whole(v)]
PutHalf(p, v) ==
  /\ at' = [at EXCEPT ![Current] = p]
  /\ text' = [text EXCEPT ![p] = [v |-> v, writer |-> p]]

\* The manager's own upgrade, to whatever is the latest for it.
Upgrade(p) ==
  /\ pc[p] = "install" /\ layout = "manager"
  /\ \/ Put(p, released) /\ Fine /\ Goto(p, "test") /\ UNCHANGED unrestored
     \/ PutHalf(p, released) /\ Fault /\ Goto(p, "kept") /\ Undone(p)
  /\ Fixed

-----------------------------------------------------------------------------
(* selfTest() and discard().                                               *)

\* Mutant: the candidate is there, so it is taken.
Unproven(p) == layout = "npm" \/ There(IF Swapped THEN Stage(p) ELSE Current)

\* What the plan's canary looks at: the staged file, for a manager what it
\* has put in place, for npm only the registry's data.
Healthy(p) == layout = "npm" \/ Boots(IF Swapped THEN Stage(p) ELSE Current)

\* A canary may fail on a good candidate; it does not pass a bad one.
SelfTest(p) ==
  /\ pc[p] = "test"
  /\ \/ /\ Healthy(p) /\ Fine
        /\ Goto(p, CASE layout = "binary" -> "clear" [] layout = "git" -> "aside"
                     [] layout = "npm" -> "manage" [] OTHER -> "assert")
     \/ ~Healthy(p) /\ Fine /\ Goto(p, "discard")
     \/ Healthy(p) /\ Fault /\ Goto(p, "discard")
  /\ Fixed /\ UNCHANGED <<files, unrestored>>

\* The staged file is removed; a manager installs the old version again.
\* What fails here is swallowed, by discard() or by applyUpdate().
Discard(p) ==
  /\ pc[p] = "discard"
  /\ \/ Swapped /\ Remove(Stage(p)) /\ Fine /\ UNCHANGED <<text, unrestored>>
     \/ Swapped /\ Fault /\ UNCHANGED <<files, unrestored>>
     \/ layout = "npm" /\ Fine /\ UNCHANGED <<files, unrestored>>
     \/ layout = "manager" /\ Put(p, from[p]) /\ Fine /\ UNCHANGED unrestored
     \/ layout = "manager" /\ Fault /\ Undone(p) /\ UNCHANGED files
  /\ Goto(p, "kept")
  /\ Fixed

-----------------------------------------------------------------------------
(* activate() of the swapped layouts.                                      *)

\* The backup of an earlier update is removed.
ClearBackup(p) ==
  /\ pc[p] = "clear"
  /\ \/ Remove(Backup(p)) /\ Fine /\ Goto(p, "aside")
     \/ Fault /\ Goto(p, "undo") /\ UNCHANGED at
  /\ Fixed /\ UNCHANGED <<text, unrestored>>

\* Mutant: the old version is removed to make room for the new one.
RemoveOld(p) ==
  /\ pc[p] = "aside"
  /\ There(Current) /\ Remove(Current) /\ Fine /\ Goto(p, "swap")
  /\ Fixed /\ UNCHANGED <<text, unrestored>>

\* current -> backup.  git's is outside the try: its failure undoes nothing.
MoveAside(p) ==
  /\ pc[p] = "aside"
  /\ \/ There(Current) /\ Rename(Current, Backup(p)) /\ Fine /\ Goto(p, "swap")
     \/ /\ \/ There(Current) /\ Fault
           \/ ~There(Current) /\ Fine
        /\ Goto(p, IF layout = "binary" THEN "undo" ELSE "kept")
        /\ UNCHANGED at
  /\ Fixed /\ UNCHANGED <<text, unrestored>>

\* candidate -> current.  A directory does not replace one that is there.
SwapIn(p) ==
  LET can == There(Stage(p)) /\ (layout = "git" => ~There(Current))
  IN /\ pc[p] = "swap"
     /\ \/ can /\ Rename(Stage(p), Current) /\ Fine /\ Goto(p, "clean")
        \/ ((can /\ Fault) \/ (~can /\ Fine)) /\ Goto(p, "undo") /\ UNCHANGED at
     /\ Fixed /\ UNCHANGED <<text, unrestored>>

\* The backup is removed.  Failing that, git's update is done all the same,
\* and the binary's is reported as not done although it is in place.
Clean(p) ==
  /\ pc[p] = "clean"
  /\ \/ Remove(Backup(p)) /\ Fine /\ Goto(p, "updated") /\ UNCHANGED unrestored
     \/ /\ Fault /\ UNCHANGED at
        /\ \/ layout = "git" /\ Goto(p, "updated") /\ UNCHANGED unrestored
           \/ layout = "binary" /\ Goto(p, "kept") /\ Undone(p)
  /\ Fixed /\ UNCHANGED text

\* Mutant: the exception leaves without the backup being put back.
JustThrow(p) ==
  /\ pc[p] = "undo"
  /\ Goto(p, "kept")
  /\ Fixed /\ Fine /\ UNCHANGED <<files, unrestored>>

\* The catch: the backup goes back if the place is empty, and the exception
\* on to applyUpdate().
Undo(p) ==
  LET can == ~There(Current) /\ There(Backup(p))
  IN /\ pc[p] = "undo"
     /\ \/ can /\ Rename(Backup(p), Current) /\ Fine /\ UNCHANGED unrestored
        \/ can /\ Fault /\ Undone(p) /\ UNCHANGED at
        \/ ~can /\ Fine /\ UNCHANGED <<at, unrestored>>
     /\ Goto(p, "kept")
     /\ Fixed /\ UNCHANGED text

-----------------------------------------------------------------------------
(* activate() of the managed layouts.                                      *)

\* npm install -g, of exactly the target.
Manage(p) ==
  /\ pc[p] = "manage"
  /\ \/ Put(p, target[p]) /\ Fine /\ Goto(p, "confirm") /\ UNCHANGED unrestored
     \/ Fault /\ Goto(p, "kept") /\ UNCHANGED <<files, unrestored>>
     \/ PutHalf(p, target[p]) /\ Fault /\ Goto(p, "kept") /\ Undone(p)
  /\ Fixed

\* `xr --version` must now say the target.
Confirm(p) ==
  LET right == Boots(Current) /\ text[at[Current]].v = target[p]
  IN /\ pc[p] = "confirm"
     /\ \/ right /\ Fine /\ Goto(p, "updated")
        \/ ((right /\ Fault) \/ (~right /\ Fine)) /\ Goto(p, "reinstall")
     /\ Fixed /\ UNCHANGED <<files, unrestored>>

\* The old version is installed again; the result is not looked at.
Reinstall(p) ==
  /\ pc[p] = "reinstall"
  /\ \/ Put(p, from[p]) /\ Fine /\ UNCHANGED unrestored
     \/ Fault /\ Undone(p) /\ UNCHANGED files
  /\ Goto(p, "kept")
  /\ Fixed

\* A manager's activate() is a second canary; nothing is undone after it.
AssertHealth(p) ==
  /\ pc[p] = "assert"
  /\ \/ Boots(Current) /\ Fine /\ Goto(p, "updated") /\ UNCHANGED unrestored
     \/ Boots(Current) /\ Fault /\ Goto(p, "kept") /\ Undone(p)
     \/ ~Boots(Current) /\ Fine /\ Goto(p, "kept") /\ Undone(p)
  /\ Fixed /\ UNCHANGED files

Crash(p) ==
  /\ Active(p) /\ Fault
  /\ Goto(p, "dead")
  /\ Fixed /\ UNCHANGED <<files, unrestored>>

Step(p) ==
  \/ Start(p)
  \/ InstallFails(p) \/ OpenStage(p) \/ WriteStage(p) \/ CloneInto(p)
  \/ ReadRegistry(p) \/ Upgrade(p)
  \/ SelfTest(p) \/ Discard(p)
  \/ ClearBackup(p) \/ MoveAside(p) \/ SwapIn(p) \/ Clean(p) \/ Undo(p)
  \/ Manage(p) \/ Confirm(p) \/ Reinstall(p) \/ AssertHealth(p)
  \/ Crash(p)

Next == Publish \/ \E p \in Updaters : Step(p)

Spec == Init /\ [][Next]_vars

-----------------------------------------------------------------------------
(* Properties.                                                             *)

\* Two `xr update` of one binary installation share its staged file and its
\* backup.
Overlap == layout = "binary" /\ clashed # {}

\* "The never breaks on update guarantee" (selfheal.ts): wherever an update
\* of a swapped layout is, whatever fails and whenever it dies, a version
\* that boots is in place or in a backup.
AlwaysACopy ==
  Swapped /\ ~Overlap => \E name \in {Current} \cup Backups : Boots(name)

\* "Switch only if it passes" (selfheal.ts): what is in place of a swapped
\* layout boots, whichever of the published versions do not.
LiveBoots == Swapped /\ ~Overlap /\ There(Current) => Boots(Current)

\* What the command tells its user (system.ts): an update that was made is in
\* place and boots, and one that was not has left the old version in place,
\* unless another update ran beside it or undoing failed.
ToldTrue(p) ==
  /\ pc'[p] = "updated" => Boots(Current)' /\ text'[at'[Current]].v >= target[p]
  /\ pc'[p] = "kept" => Boots(Current)' /\ text'[at'[Current]].v = from[p]
ReportIsTrue ==
  [][\A p \in Updaters :
       pc'[p] # pc[p] /\ p \notin clashed' \cup unrestored' => ToldTrue(p)]_vars

\* What a user would want, and a crash between the two renames denies: no
\* start of XR puts the backup back, and without XR there is no `xr update`.
CurrentStays ==
  Swapped /\ ~Overlap /\ (\A p \in Updaters : ~Active(p)) /\ unrestored = {}
    => There(Current)
=============================================================================
