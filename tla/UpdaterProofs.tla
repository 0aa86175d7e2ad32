--------------------------- MODULE UpdaterProofs ---------------------------
(***************************************************************************)
(* What holds of an update whose layout is swapped by renames, for any     *)
(* number of updaters, versions and faults, and whichever versions do not  *)
(* boot: a bootable version is in place or in a backup, and what is in     *)
(* place boots.  And of all four layouts: what is reported of an update    *)
(* is true of what is in place.                                            *)
(***************************************************************************)
EXTENDS Updater, TLAPS

\* Nobody else touches the names that an updater uses.
Alone == Swapped /\ ~Overlap

\* Updaters that are active at once have been noticed.
Apart == \A p, q \in Updaters : p # q /\ Active(p) /\ Active(q) => p \in clashed

\* Only npm's plan installs over what is in place in its activate().
Managed == \A p \in Updaters : pc[p] \in {"manage", "confirm", "reinstall"} => layout = "npm"

\* No inode has two names, and an updater's own has none before it stages.
OneName == \A m, n \in Names : There(m) /\ at[m] = at[n] => m = n
Fresh == \A p \in Updaters : pc[p] \in {"off", "install"} => \A n \in Names : at[n] # p

\* What is in place, every backup, and what has passed the canary boot.
GoodFiles ==
  /\ There(Current) => Boots(Current)
  /\ \A n \in Backups : There(n) => Boots(n)
Passed == {"clear", "aside", "swap"}
Proven == \A p \in Updaters : pc[p] \in Passed => Boots(Stage(p))

\* Where the place of a binary cannot be empty.
Filled == {"install", "writing", "test", "discard", "clear", "aside", "clean"}
InPlace == \A p \in Updaters :
             layout = "binary" /\ pc[p] \in Filled => There(Current)

\* If the place is empty, somebody has moved aside what was there, and has got
\* no further.
Stuck == {"swap", "undo", "dead", "kept"}
Kept == There(Current) \/ \E q \in Updaters : pc[q] \in Stuck /\ There(Backup(q))

FileInv == OneName /\ Fresh /\ GoodFiles /\ Proven /\ InPlace /\ Kept
UInv == TypeOK /\ Apart /\ Managed /\ (Alone => FileInv)

-----------------------------------------------------------------------------
\* The names are different names.
LEMMA NamesApart ==
  ASSUME TypeOK
  PROVE  /\ Current \in Names /\ Current \notin Stages /\ Current \notin Backups
         /\ \A p \in Updaters : Stage(p) \in Stages /\ Backup(p) \in Backups
         /\ Stages \subseteq Names /\ Backups \subseteq Names
         /\ Stages \cap Backups = {}
         /\ \A p, q \in Updaters : layout = "git" /\ p # q =>
              Stage(p) # Stage(q) /\ Backup(p) # Backup(q)
BY DEF TypeOK, Current, Names, Stages, Backups, Stage, Backup, Versions

\* An updater of a binary that nobody has overlapped with is alone.
LEMMA Lone ==
  ASSUME Apart, Alone, layout = "binary", NEW p \in Updaters, NEW q \in Updaters,
         Active(p), Active(q)
  PROVE  p = q
BY DEF Apart, Alone, Overlap

\* What a step of one updater other than its start leaves alone.
Frame(p, loc) ==
  /\ Active(p)
  /\ Goto(p, loc)
  /\ UNCHANGED <<layout, bad, released, from, target, clashed>>

LEMMA FrameFacts ==
  ASSUME TypeOK, NEW p \in Updaters, NEW loc, Frame(p, loc)
  PROVE  /\ pc'[p] = loc
         /\ \A q \in Updaters : q # p => pc'[q] = pc[q]
         /\ \A q \in Updaters : Stage(q)' = Stage(q) /\ Backup(q)' = Backup(q)
         /\ Alone' <=> Alone
BY DEF TypeOK, Frame, Goto, Stage, Backup, Alone, Swapped, Overlap

\* Nor does it bring two updaters together.
LEMMA FrameApart ==
  ASSUME TypeOK, Apart, NEW p \in Updaters, NEW loc, Frame(p, loc)
  PROVE  Apart'
<1>1. \A q \in Updaters : Active(q)' => Active(q)
  BY FrameFacts DEF Active, Frame
<1> QED BY <1>1 DEF Apart, Frame

\* A step that touches no file.
LEMMA QuietStep ==
  ASSUME UInv, Alone, NEW p \in Updaters, NEW loc, Frame(p, loc), UNCHANGED files,
         loc \notin {"off", "install"},
         loc \in Passed => Boots(Stage(p)),
         layout = "binary" /\ loc \in Filled => There(Current),
         pc[p] \in Stuck => loc \in Stuck
  PROVE  FileInv'
<1> USE FrameFacts DEF UInv, FileInv
<1>1. \A n \in Names : (There(n)' <=> There(n)) /\ (Boots(n)' <=> Boots(n))
  BY DEF There, Boots, files, Frame
<1>2. OneName'
  BY <1>1 DEF OneName, files
<1>3. Fresh'
  BY DEF Fresh, files
<1>4. GoodFiles'
  BY <1>1, NamesApart DEF GoodFiles
<1>5. Proven'
  BY <1>1, NamesApart DEF Proven
<1>6. InPlace'
  BY <1>1, NamesApart DEF InPlace, Frame
<1>7. Kept'
  BY <1>1, NamesApart DEF Kept
<1> QED BY <1>2, <1>3, <1>4, <1>5, <1>6, <1>7

\* Removing and renaming, name by name.
LEMMA RemoveNames ==
  ASSUME TypeOK, NEW n \in Names, Remove(n), UNCHANGED <<text, bad>>
  PROVE  /\ ~There(n)'
         /\ \A m \in Names : m # n =>
              (There(m)' <=> There(m)) /\ (Boots(m)' <=> Boots(m)) /\ at'[m] = at[m]
         /\ OneName => OneName'
         /\ Fresh => \A p \in Updaters : pc[p] \in {"off", "install"} =>
                       \A m \in Names : at'[m] # p
<1>1. \A m \in Names : at'[m] = IF m = n THEN None ELSE at[m]
  BY DEF TypeOK, Remove
<1>2. OneName => OneName'
  BY <1>1 DEF OneName, There
<1>3. Fresh => \A p \in Updaters : pc[p] \in {"off", "install"} =>
                 \A m \in Names : at'[m] # p
  BY <1>1, UpdaterAssumption DEF Fresh
<1> QED BY <1>1, <1>2, <1>3 DEF There, Boots

LEMMA RenameNames ==
  ASSUME TypeOK, NEW old \in Names, NEW new \in Names, old # new, Rename(old, new),
         UNCHANGED <<text, bad>>
  PROVE  /\ ~There(old)'
         /\ (There(new)' <=> There(old)) /\ (Boots(new)' <=> Boots(old))
         /\ \A m \in Names \ {old, new} :
              (There(m)' <=> There(m)) /\ (Boots(m)' <=> Boots(m))
         /\ OneName => OneName'
         /\ Fresh => \A p \in Updaters : pc[p] \in {"off", "install"} =>
                       \A m \in Names : at'[m] # p
<1>1. \A m \in Names : at'[m] = IF m = new THEN at[old] ELSE IF m = old THEN None ELSE at[m]
  BY DEF TypeOK, Rename
<1>2. OneName => OneName'
  BY <1>1 DEF OneName, There
<1>3. Fresh => \A p \in Updaters : pc[p] \in {"off", "install"} =>
                 \A m \in Names : at'[m] # p
  BY <1>1, UpdaterAssumption DEF Fresh
<1> QED BY <1>1, <1>2, <1>3 DEF There, Boots

\* Beside a lone updater nobody is anywhere.
LEMMA OthersAway ==
  ASSUME UInv, Alone, NEW p \in Updaters, NEW loc, Frame(p, loc), layout = "binary",
         NEW q \in Updaters, q # p
  PROVE  pc'[q] \notin Passed /\ pc'[q] \notin Filled
<1>1. ~Active(q)
  BY Lone DEF UInv, Frame
<1> QED BY <1>1, FrameFacts DEF UInv, Active, Passed, Filled, Ended

-----------------------------------------------------------------------------
(* Each step of an updater that touches files, where it can be alone.      *)

LEMMA StartStep ==
  ASSUME UInv, NEW p \in Updaters, Start(p), Alone'
  PROVE  FileInv'
<1>1. Alone
  BY DEF Start, Alone, Swapped, Overlap
<1>2. FileInv
  BY <1>1 DEF UInv
<1>3. /\ pc[p] = "off" /\ pc'[p] = "install"
      /\ \A q \in Updaters : q # p =>
           pc'[q] = pc[q] /\ Stage(q)' = Stage(q) /\ Backup(q)' = Backup(q)
  BY DEF UInv, TypeOK, Start, Goto, Stage, Backup
<1>4. \A n \in Names : (There(n)' <=> There(n)) /\ (Boots(n)' <=> Boots(n))
  BY DEF There, Boots, Start, files
<1>5. There(Current)
  BY DEF Start, Boots
<1>6. OneName'
  BY <1>2, <1>4 DEF FileInv, OneName, Start, files
<1>7. Fresh'
  BY <1>2, <1>3 DEF FileInv, Fresh, Start, files
<1>8. GoodFiles'
  BY <1>2, <1>4, NamesApart DEF UInv, FileInv, GoodFiles
<1>9. Proven'
  BY <1>2, <1>3, <1>4, NamesApart DEF UInv, FileInv, Proven, Passed
<1>10. InPlace' /\ Kept'
  BY <1>4, <1>5, NamesApart DEF UInv, InPlace, Kept
<1> QED BY <1>6, <1>7, <1>8, <1>9, <1>10 DEF FileInv

\* The download truncates or makes a file that nobody else uses.
LEMMA OpenStep ==
  ASSUME UInv, Alone, NEW p \in Updaters, OpenStage(p)
  PROVE  FileInv'
<1> DEFINE i == IF There(Stage(p)) THEN at[Stage(p)] ELSE p
<1>1. Frame(p, "writing") /\ layout = "binary" /\ pc[p] = "install"
  BY DEF OpenStage, Frame, Active, Ended
<1>2. /\ TypeOK /\ Apart /\ FileInv /\ Stage(p) \in Names
      /\ Stage(p) \notin Backups \cup {Current}
  BY NamesApart DEF UInv
<1>3. There(Current)
  BY <1>1, <1>2 DEF FileInv, InPlace, Filled
<1>4. i \in Inodes /\ i # None /\ \A n \in Names : n # Stage(p) => at[n] # i
  <2>1. CASE There(Stage(p))
    BY <1>2, <2>1, UpdaterAssumption DEF FileInv, OneName, There, TypeOK, Inodes
  <2>2. CASE ~There(Stage(p))
    BY <1>1, <1>2, <2>2, UpdaterAssumption DEF FileInv, Fresh, Inodes
  <2> QED BY <2>1, <2>2
<1>5. /\ \A n \in Names : at'[n] = IF n = Stage(p) THEN i ELSE at[n]
      /\ \A j \in Inodes : j # i => text'[j] = text[j]
  BY <1>2, <1>4 DEF OpenStage, TypeOK
<1>6. \A n \in Names : n # Stage(p) =>
        (There(n)' <=> There(n)) /\ (Boots(n)' <=> Boots(n)) /\ at'[n] = at[n]
  BY <1>1, <1>2, <1>4, <1>5 DEF There, Boots, TypeOK, Frame
<1>7. OneName'
  BY <1>2, <1>4, <1>5 DEF FileInv, OneName, There
<1>8. Fresh'
  <2>1. ASSUME NEW q \in Updaters, pc'[q] \in {"off", "install"}, NEW n \in Names
        PROVE  at'[n] # q
    <3>1. q # p /\ pc[q] \in {"off", "install"}
      BY <1>1, <1>2, <2>1, FrameFacts
    <3>2. at[n] # q /\ i # q
      BY <1>2, <3>1 DEF FileInv, Fresh
    <3> QED BY <1>5, <3>2
  <2> QED BY <2>1 DEF Fresh
<1>9. GoodFiles' /\ Kept' /\ InPlace'
  BY <1>2, <1>3, <1>6, NamesApart DEF FileInv, GoodFiles, Kept, InPlace
<1>10. Proven'
  BY <1>1, <1>2, FrameFacts, OthersAway DEF Proven, Passed
<1> QED BY <1>7, <1>8, <1>9, <1>10 DEF FileInv

\* Writing to the end makes a file whole.
LEMMA WriteStep ==
  ASSUME UInv, Alone, NEW p \in Updaters, WriteStage(p)
  PROVE  FileInv'
<1>1. TypeOK /\ FileInv /\ pc[p] = "writing"
  BY DEF UInv, WriteStage
<1>2. CASE Goto(p, "kept") /\ UNCHANGED text
  <2>1. Frame(p, "kept") /\ UNCHANGED files
    BY <1>1, <1>2 DEF WriteStage, Frame, Fixed, Active, Ended, files
  <2> QED BY <1>1, <2>1, QuietStep DEF Passed, Filled, Stuck
<1>3. CASE /\ text' = [text EXCEPT ![inode[p]].writer = IF @ = p THEN None ELSE @]
           /\ Goto(p, "test")
  <2>1. Frame(p, "test") /\ at' = at /\ bad' = bad
    BY <1>1, <1>3 DEF WriteStage, Frame, Fixed, Active, Ended
  <2>2. \A j \in Inodes : /\ text'[j].v = text[j].v
                          /\ text[j].writer = None => text'[j].writer = None
    BY <1>1, <1>3 DEF TypeOK
  <2>3. \A n \in Names : (There(n)' <=> There(n)) /\ (Boots(n) => Boots(n)')
    BY <1>1, <2>1, <2>2 DEF There, Boots, TypeOK
  <2>4. OneName'
    BY <1>1, <2>1 DEF FileInv, OneName, There
  <2>5. Fresh'
    BY <1>1, <2>1, FrameFacts DEF FileInv, Fresh
  <2>6. GoodFiles'
    BY <1>1, <2>3, NamesApart DEF FileInv, GoodFiles
  <2>7. Proven'
    BY <1>1, <2>1, <2>3, FrameFacts, NamesApart DEF FileInv, Proven, Passed
  <2>8. InPlace'
    BY <1>1, <2>1, <2>3, FrameFacts, NamesApart DEF FileInv, InPlace, Frame, Filled
  <2>9. Kept'
    BY <1>1, <2>1, <2>3, FrameFacts, NamesApart DEF FileInv, Kept, Stuck
  <2> QED BY <2>4, <2>5, <2>6, <2>7, <2>8, <2>9 DEF FileInv
<1> QED BY <1>2, <1>3 DEF WriteStage

\* A clone is in a directory of its own.
LEMMA CloneStep ==
  ASSUME UInv, Alone, NEW p \in Updaters, CloneInto(p)
  PROVE  FileInv'
<1>1. Frame(p, "test") /\ layout = "git" /\ pc[p] = "install" /\ There(Current)
  BY DEF CloneInto, Frame, Fixed, Active, Ended
<1>2. /\ TypeOK /\ FileInv /\ Stage(p) \in Names
      /\ Stage(p) \notin Backups \cup {Current}
  BY NamesApart DEF UInv
<1>3. \A n \in Names : at[n] # p
  BY <1>1, <1>2 DEF FileInv, Fresh
<1>4. /\ \A n \in Names : at'[n] = IF n = Stage(p) THEN p ELSE at[n]
      /\ \A j \in Inodes : j # p => text'[j] = text[j]
  BY <1>2 DEF CloneInto, TypeOK
<1>5. \A n \in Names : n # Stage(p) =>
        (There(n)' <=> There(n)) /\ (Boots(n)' <=> Boots(n))
  BY <1>1, <1>2, <1>3, <1>4 DEF There, Boots, TypeOK, Frame
<1>6. OneName'
  BY <1>2, <1>3, <1>4 DEF FileInv, OneName, There
<1>7. Fresh'
  BY <1>1, <1>2, <1>4, FrameFacts DEF FileInv, Fresh
<1>8. GoodFiles' /\ Kept' /\ InPlace'
  BY <1>1, <1>2, <1>5, NamesApart DEF FileInv, GoodFiles, Kept, InPlace, Frame
<1>9. Proven'
  <2>1. ASSUME NEW q \in Updaters, pc'[q] \in Passed PROVE Boots(Stage(q))'
    <3>1. q # p /\ pc[q] \in Passed /\ Stage(q)' = Stage(q)
      BY <1>1, <1>2, <2>1, FrameFacts DEF Passed
    <3>2. Stage(q) \in Names /\ Stage(q) # Stage(p) /\ Boots(Stage(q))
      BY <1>1, <1>2, <3>1, NamesApart DEF FileInv, Proven
    <3> QED BY <1>5, <3>1, <3>2
  <2> QED BY <2>1 DEF Proven
<1> QED BY <1>6, <1>7, <1>8, <1>9 DEF FileInv

\* Removing a candidate or a backup, of an updater that is not about to need it.
LEMMA RemoveStep ==
  ASSUME UInv, Alone, NEW p \in Updaters, NEW loc, Frame(p, loc),
         NEW n \in Names, Remove(n), UNCHANGED text,
         n = Stage(p) \/ n = Backup(p),
         loc \notin {"off", "install"}, pc[p] \notin Stuck,
         loc \in Passed => n = Backup(p) /\ Boots(Stage(p)),
         layout = "binary" => There(Current) /\ n # Current
  PROVE  FileInv'
<1>1. /\ TypeOK /\ FileInv /\ n # Current /\ bad' = bad
      /\ Stage(p) \in Names /\ Backup(p) \in Names /\ Stage(p) # Backup(p)
  BY NamesApart DEF UInv, Frame
<1>2. /\ ~There(n)'
      /\ \A m \in Names : m # n => (There(m)' <=> There(m)) /\ (Boots(m)' <=> Boots(m))
      /\ OneName'
  BY <1>1, RemoveNames DEF FileInv
<1>3. Fresh'
  BY <1>1, RemoveNames, FrameFacts DEF FileInv, Fresh
<1>4. GoodFiles'
  BY <1>1, <1>2, NamesApart DEF FileInv, GoodFiles
<1>5. Proven'
  <2>1. ASSUME NEW q \in Updaters, pc'[q] \in Passed PROVE Boots(Stage(q))'
    <3>1. CASE q = p
      BY <1>1, <1>2, <2>1, <3>1, FrameFacts
    <3>2. CASE q # p
      <4>1. layout = "git" /\ pc[q] \in Passed /\ Stage(q)' = Stage(q)
        BY <1>1, <2>1, <3>2, FrameFacts, OthersAway DEF Alone, Swapped
      <4>2. Stage(q) \in Names /\ Stage(q) # n /\ Boots(Stage(q))
        BY <1>1, <3>2, <4>1, NamesApart DEF FileInv, Proven
      <4> QED BY <1>2, <4>1, <4>2
    <3> QED BY <3>1, <3>2
  <2> QED BY <2>1 DEF Proven
<1>6. InPlace'
  BY <1>1, <1>2, NamesApart DEF InPlace, Frame
<1>7. Kept'
  <2>1. CASE There(Current)
    BY <1>1, <1>2, <2>1, NamesApart DEF Kept
  <2>2. CASE ~There(Current)
    <3>1. PICK q \in Updaters : pc[q] \in Stuck /\ There(Backup(q))
      BY <1>1, <2>2 DEF FileInv, Kept
    <3>2. q # p /\ pc'[q] = pc[q] /\ Backup(q)' = Backup(q)
      BY <1>1, <3>1, FrameFacts
    <3>3. layout = "git" /\ Backup(q) \in Names /\ Backup(q) # n
      BY <1>1, <2>2, <3>2, NamesApart DEF Alone, Swapped
    <3> QED BY <1>2, <3>1, <3>2, <3>3 DEF Kept
  <2> QED BY <2>1, <2>2
<1> QED BY <1>2, <1>3, <1>4, <1>5, <1>6, <1>7 DEF FileInv

LEMMA DiscardStep ==
  ASSUME UInv, Alone, NEW p \in Updaters, Discard(p)
  PROVE  FileInv'
<1>1. Frame(p, "kept") /\ pc[p] = "discard"
  BY DEF Discard, Frame, Fixed, Active, Ended
<1>2. CASE UNCHANGED files
  BY <1>1, <1>2, QuietStep DEF Passed, Filled, Stuck
<1>3. CASE Remove(Stage(p)) /\ UNCHANGED text
  <2>1. layout = "binary" => There(Current)
    BY <1>1 DEF UInv, FileInv, InPlace, Filled
  <2> QED BY <1>1, <1>3, <2>1, RemoveStep, NamesApart DEF UInv, Passed, Stuck
<1> QED BY <1>2, <1>3 DEF Discard, Alone, Swapped

LEMMA ClearStep ==
  ASSUME UInv, Alone, NEW p \in Updaters, ClearBackup(p)
  PROVE  FileInv'
<1>1. /\ pc[p] = "clear" /\ Boots(Stage(p))
      /\ layout = "binary" => There(Current)
  BY DEF UInv, FileInv, InPlace, Filled, Proven, Passed, ClearBackup
<1>2. CASE Goto(p, "undo") /\ UNCHANGED at
  <2>1. Frame(p, "undo") /\ UNCHANGED files
    BY <1>1, <1>2 DEF ClearBackup, Frame, Fixed, Active, Ended, files
  <2> QED BY <1>1, <2>1, QuietStep DEF Passed, Filled, Stuck
<1>3. CASE Remove(Backup(p)) /\ Goto(p, "aside")
  <2>1. Frame(p, "aside") /\ UNCHANGED text
    BY <1>1, <1>3 DEF ClearBackup, Frame, Fixed, Active, Ended
  <2> QED BY <1>1, <1>3, <2>1, RemoveStep, NamesApart DEF UInv, Passed, Stuck
<1> QED BY <1>2, <1>3 DEF ClearBackup

LEMMA CleanStep ==
  ASSUME UInv, Alone, NEW p \in Updaters, Clean(p)
  PROVE  FileInv'
<1>1. pc[p] = "clean" /\ (layout = "binary" => There(Current))
  BY DEF UInv, FileInv, InPlace, Filled, Clean
<1>2. PICK loc \in Ended : Goto(p, loc)
  BY DEF Clean, Ended
<1>3. Frame(p, loc) /\ UNCHANGED text
  BY <1>1, <1>2 DEF Clean, Frame, Fixed, Active, Ended
<1>4. CASE UNCHANGED at
  BY <1>1, <1>2, <1>3, <1>4, QuietStep DEF Passed, Filled, Stuck, Ended, files
<1>5. CASE Remove(Backup(p))
  BY <1>1, <1>2, <1>3, <1>5, RemoveStep, NamesApart DEF UInv, Passed, Stuck, Ended
<1> QED BY <1>4, <1>5 DEF Clean

\* What was in place becomes the backup.
LEMMA AsideStep ==
  ASSUME UInv, Alone, NEW p \in Updaters, MoveAside(p)
  PROVE  FileInv'
<1>1. /\ TypeOK /\ FileInv /\ pc[p] = "aside" /\ Boots(Stage(p))
      /\ layout = "binary" => There(Current)
  BY DEF UInv, FileInv, InPlace, Filled, Proven, Passed, MoveAside
<1>2. CASE UNCHANGED at /\ \E loc \in {"undo", "kept"} : Goto(p, loc)
  <2>1. PICK loc \in {"undo", "kept"} : Goto(p, loc)
    BY <1>2
  <2>2. Frame(p, loc) /\ UNCHANGED files
    BY <1>1, <1>2, <2>1 DEF MoveAside, Frame, Fixed, Active, Ended, files
  <2> QED BY <1>1, <2>1, <2>2, QuietStep DEF Passed, Filled, Stuck
<1>3. CASE There(Current) /\ Rename(Current, Backup(p)) /\ Goto(p, "swap")
  <2>1. Frame(p, "swap") /\ text' = text /\ bad' = bad
    BY <1>1, <1>3 DEF MoveAside, Frame, Fixed, Active, Ended
  <2>2. /\ Current \in Names /\ Backup(p) \in Names /\ Current # Backup(p)
        /\ Backup(p) \in Backups /\ Current \notin Backups /\ Backups \subseteq Names
        /\ \A q \in Updaters : /\ Stage(q) \in Names /\ Stage(q) # Current
                               /\ Stage(q) # Backup(p)
    BY <1>1, NamesApart
  <2>3. /\ ~There(Current)' /\ There(Backup(p))' /\ Boots(Backup(p))'
        /\ \A m \in Names \ {Current, Backup(p)} :
             (There(m)' <=> There(m)) /\ (Boots(m)' <=> Boots(m))
        /\ OneName'
    BY <1>1, <1>3, <2>1, <2>2, RenameNames, FrameFacts DEF FileInv, GoodFiles
  <2>4. Fresh'
    BY <1>1, <1>3, <2>1, <2>2, RenameNames, FrameFacts DEF FileInv, Fresh
  <2>5. GoodFiles'
    <3>1. \A n \in Backups : There(n)' => Boots(n)'
      BY <1>1, <2>1, <2>2, <2>3, FrameFacts DEF FileInv, GoodFiles
    <3> QED BY <2>3, <3>1 DEF GoodFiles
  <2>6. Proven'
    BY <1>1, <2>1, <2>2, <2>3, FrameFacts DEF FileInv, Proven, Passed
  <2>7. InPlace'
    BY <1>1, <2>1, FrameFacts, OthersAway DEF InPlace, Filled, Frame
  <2>8. Kept'
    BY <1>1, <2>1, <2>3, FrameFacts DEF Kept, Stuck
  <2> QED BY <2>3, <2>4, <2>5, <2>6, <2>7, <2>8 DEF FileInv
<1> QED BY <1>2, <1>3 DEF MoveAside

\* Something that boots comes into place, from a candidate or from a backup.
LEMMA FillStep ==
  ASSUME UInv, Alone, NEW p \in Updaters, NEW loc, Frame(p, loc), UNCHANGED text,
         NEW n \in Names, n = Stage(p) \/ n = Backup(p), Rename(n, Current), Boots(n),
         loc \notin {"off", "install"} \cup Passed
  PROVE  FileInv'
<1>1. /\ TypeOK /\ FileInv /\ bad' = bad /\ There(n)
      /\ Current \in Names /\ n # Current /\ Current \notin Backups /\ Backups \subseteq Names
      /\ \A q \in Updaters : Stage(q) \in Names /\ Stage(q) # Current
      /\ \A q \in Updaters : layout = "git" /\ q # p => Stage(q) # n
  BY NamesApart DEF UInv, Frame, Boots
<1>2. /\ ~There(n)' /\ There(Current)' /\ Boots(Current)'
      /\ \A m \in Names \ {Current, n} :
           (There(m)' <=> There(m)) /\ (Boots(m)' <=> Boots(m))
      /\ OneName'
  BY <1>1, RenameNames DEF FileInv
<1>3. Fresh'
  BY <1>1, RenameNames, FrameFacts DEF FileInv, Fresh
<1>4. GoodFiles'
  <2>1. \A m \in Backups : There(m)' => Boots(m)'
    BY <1>1, <1>2 DEF FileInv, GoodFiles
  <2> QED BY <1>2, <2>1 DEF GoodFiles
<1>5. Proven'
  <2>1. ASSUME NEW q \in Updaters, pc'[q] \in Passed PROVE Boots(Stage(q))'
    <3>1. q # p
      BY <1>1, <2>1, FrameFacts
    <3>2. layout = "git" /\ pc[q] \in Passed /\ Stage(q)' = Stage(q)
      BY <1>1, <2>1, <3>1, FrameFacts, OthersAway DEF Alone, Swapped
    <3> QED BY <1>1, <1>2, <3>1, <3>2 DEF FileInv, Proven
  <2> QED BY <2>1 DEF Proven
<1>6. InPlace' /\ Kept'
  BY <1>2 DEF InPlace, Kept
<1> QED BY <1>2, <1>3, <1>4, <1>5, <1>6 DEF FileInv

LEMMA SwapStep ==
  ASSUME UInv, Alone, NEW p \in Updaters, SwapIn(p)
  PROVE  FileInv'
<1>1. pc[p] = "swap" /\ Boots(Stage(p)) /\ Stage(p) \in Names
  BY NamesApart DEF UInv, FileInv, Proven, Passed, SwapIn
<1>2. CASE Rename(Stage(p), Current) /\ Goto(p, "clean")
  <2>1. Frame(p, "clean") /\ UNCHANGED text
    BY <1>1, <1>2 DEF SwapIn, Frame, Fixed, Active, Ended
  <2> QED BY <1>1, <1>2, <2>1, FillStep DEF Passed
<1>3. CASE Goto(p, "undo") /\ UNCHANGED at
  <2>1. Frame(p, "undo") /\ UNCHANGED files
    BY <1>1, <1>3 DEF SwapIn, Frame, Fixed, Active, Ended, files
  <2> QED BY <1>1, <2>1, QuietStep DEF Passed, Filled, Stuck
<1> QED BY <1>2, <1>3 DEF SwapIn

LEMMA UndoStep ==
  ASSUME UInv, Alone, NEW p \in Updaters, Undo(p)
  PROVE  FileInv'
<1>1. Frame(p, "kept") /\ pc[p] = "undo" /\ UNCHANGED text
  BY DEF Undo, Frame, Fixed, Active, Ended
<1>2. CASE UNCHANGED at
  BY <1>1, <1>2, QuietStep DEF Passed, Filled, Stuck, files
<1>3. CASE There(Backup(p)) /\ Rename(Backup(p), Current)
  <2>1. Boots(Backup(p)) /\ Backup(p) \in Names
    BY <1>3, NamesApart DEF UInv, FileInv, GoodFiles
  <2> QED BY <1>1, <1>3, <2>1, FillStep DEF Passed
<1> QED BY <1>2, <1>3 DEF Undo

\* A canary passes what boots, and nothing is touched by it.
LEMMA TestStep ==
  ASSUME UInv, Alone, NEW p \in Updaters, SelfTest(p)
  PROVE  FileInv'
<1>1. /\ pc[p] = "test" /\ UNCHANGED files
      /\ layout = "binary" => There(Current)
  BY DEF UInv, FileInv, InPlace, Filled, SelfTest
<1>2. CASE Healthy(p) /\ Goto(p, "clear")
  <2>1. Frame(p, "clear") /\ Boots(Stage(p))
    BY <1>1, <1>2 DEF SelfTest, Frame, Fixed, Active, Ended, Healthy, Alone, Swapped
  <2> QED BY <1>1, <2>1, QuietStep DEF Stuck
<1>3. CASE Healthy(p) /\ Goto(p, "aside")
  <2>1. Frame(p, "aside") /\ Boots(Stage(p))
    BY <1>1, <1>3 DEF SelfTest, Frame, Fixed, Active, Ended, Healthy, Alone, Swapped
  <2> QED BY <1>1, <2>1, QuietStep DEF Stuck
<1>4. CASE Goto(p, "discard")
  <2>1. Frame(p, "discard")
    BY <1>1, <1>4 DEF SelfTest, Frame, Fixed, Active, Ended
  <2> QED BY <1>1, <2>1, QuietStep DEF Passed, Stuck
<1>5. layout \in {"binary", "git"}
  BY DEF Alone, Swapped
<1> QED BY <1>2, <1>3, <1>4, <1>5 DEF SelfTest

\* Steps that touch no file, and those of the managed layouts.
LEMMA OtherStep ==
  ASSUME UInv, Alone, NEW p \in Updaters,
         \/ InstallFails(p) \/ ReadRegistry(p) \/ Upgrade(p)
         \/ Manage(p) \/ Confirm(p) \/ Reinstall(p) \/ AssertHealth(p) \/ Crash(p)
  PROVE  FileInv'
<1>1. layout \notin {"npm", "manager"}
  BY DEF Alone, Swapped
<1>2. CASE InstallFails(p) \/ AssertHealth(p)
  <2>1. PICK loc \in Ended : Goto(p, loc)
    BY <1>2 DEF InstallFails, AssertHealth, Ended
  <2>2. Frame(p, loc) /\ UNCHANGED files /\ pc[p] \in {"install", "assert"}
    BY <1>2, <2>1 DEF InstallFails, AssertHealth, Frame, Fixed, Active, Ended
  <2> QED BY <2>2, QuietStep DEF Ended, Passed, Filled, Stuck
<1>3. CASE Crash(p)
  <2>1. Frame(p, "dead") /\ UNCHANGED files
    BY <1>3 DEF Crash, Frame, Fixed
  <2> QED BY <2>1, QuietStep DEF Passed, Filled, Stuck
<1> QED BY <1>1, <1>2, <1>3 DEF UInv, Managed, ReadRegistry, Upgrade, Manage, Confirm, Reinstall

-----------------------------------------------------------------------------
(* The invariant.                                                          *)

LEMMA InitInv == Init => UInv
<1> SUFFICES ASSUME Init PROVE UInv
  OBVIOUS
<1>1. TypeOK
  BY UpdaterAssumption
     DEF Init, TypeOK, Versions, Inodes, Whole, Names, Locations, Ended
<1>2. Apart /\ Managed
  BY DEF Init, Apart, Managed, Active
<1>3. /\ \A n \in Names : There(n) => n = Current
      /\ There(Current) /\ Boots(Current)
  BY <1>1, NamesApart, UpdaterAssumption DEF Init, There, Boots, Whole, Inodes, Versions
<1>4. Fresh
  BY UpdaterAssumption DEF Init, Fresh
<1>5. OneName /\ GoodFiles
  <2>1. OneName
    BY <1>3 DEF OneName, There
  <2>2. \A n \in Backups : ~There(n)
    BY <1>1, <1>3, NamesApart
  <2> QED BY <1>3, <2>1, <2>2 DEF GoodFiles
<1>6. Proven /\ InPlace /\ Kept
  BY <1>3 DEF Init, Proven, Passed, InPlace, Kept
<1> QED BY <1>1, <1>2, <1>4, <1>5, <1>6 DEF UInv, FileInv

\* What is published, staged and installed is a version.
LEMMA TypeStep == TypeOK /\ [Next]_vars => TypeOK'
<1> SUFFICES ASSUME TypeOK, [Next]_vars PROVE TypeOK'
  OBVIOUS
<1> USE UpdaterAssumption DEF TypeOK, Versions, Inodes, Locations, Ended, Goto, Fault, Fine, Fixed,
        Undone, files
<1>1. CASE Publish
  BY <1>1 DEF Publish
<1>2. ASSUME NEW p \in Updaters, Start(p) PROVE TypeOK'
  <2>1. Current \in Names /\ at[Current] \in Inodes /\ text[at[Current]].v \in Versions
    BY <1>2, NamesApart DEF Start, Boots, There
  <2>2. from' \in [Updaters -> Versions] /\ target' \in [Updaters -> Versions]
    BY <1>2, <2>1 DEF Start
  <2>3. clashed' \subseteq Updaters
    BY <1>2 DEF Start
  <2> QED BY <1>2, <2>2, <2>3 DEF Start
<1>3. ASSUME NEW p \in Updaters,
             \/ InstallFails(p) \/ ReadRegistry(p) \/ SelfTest(p) \/ Confirm(p)
             \/ AssertHealth(p) \/ Crash(p)
      PROVE  TypeOK'
  BY <1>3 DEF InstallFails, ReadRegistry, SelfTest, Confirm, AssertHealth, Crash
<1>4. ASSUME NEW p \in Updaters, OpenStage(p) PROVE TypeOK'
  BY <1>4, NamesApart DEF OpenStage, There
<1>5. ASSUME NEW p \in Updaters, WriteStage(p) PROVE TypeOK'
  BY <1>5 DEF WriteStage
<1>6. ASSUME NEW p \in Updaters, CloneInto(p) PROVE TypeOK'
  BY <1>6, NamesApart DEF CloneInto, Whole
<1>7. ASSUME NEW p \in Updaters,
             Upgrade(p) \/ Discard(p) \/ Manage(p) \/ Reinstall(p)
      PROVE  TypeOK'
  <2>1. Current \in Names /\ Stage(p) \in Names
    BY NamesApart
  <2>2. \A v \in Versions : Put(p, v) \/ PutHalf(p, v) =>
          /\ at' \in [Names -> Inodes \cup {None}]
          /\ text' \in [Inodes -> [v : Versions, writer : Updaters \cup {None}]]
    BY <2>1 DEF Put, PutHalf, Whole
  <2>3. at' \in [Names -> Inodes \cup {None}]
        /\ text' \in [Inodes -> [v : Versions, writer : Updaters \cup {None}]]
    BY <1>7, <2>1, <2>2 DEF Upgrade, Discard, Manage, Reinstall, Remove
  <2>4. pc' \in [Updaters -> Locations]
    BY <1>7 DEF Upgrade, Discard, Manage, Reinstall
  <2>5. faults' \in 0..MaxFaults /\ unrestored' \subseteq Updaters
    BY <1>7 DEF Upgrade, Discard, Manage, Reinstall
  <2>6. UNCHANGED <<layout, bad, released, from, target, inode, clashed>>
    BY <1>7 DEF Upgrade, Discard, Manage, Reinstall
  <2> QED BY <2>3, <2>4, <2>5, <2>6
<1>8. ASSUME NEW p \in Updaters,
             ClearBackup(p) \/ MoveAside(p) \/ SwapIn(p) \/ Clean(p) \/ Undo(p)
      PROVE  TypeOK'
  <2>1. Current \in Names /\ Stage(p) \in Names /\ Backup(p) \in Names
    BY NamesApart
  <2>2. at' \in [Names -> Inodes \cup {None}]
    BY <1>8, <2>1 DEF ClearBackup, MoveAside, SwapIn, Clean, Undo, Remove, Rename
  <2>3. pc' \in [Updaters -> Locations]
    BY <1>8 DEF ClearBackup, MoveAside, SwapIn, Clean, Undo
  <2>4. faults' \in 0..MaxFaults /\ unrestored' \subseteq Updaters
    BY <1>8 DEF ClearBackup, MoveAside, SwapIn, Clean, Undo
  <2>5. UNCHANGED <<layout, bad, released, from, target, inode, clashed, text>>
    BY <1>8 DEF ClearBackup, MoveAside, SwapIn, Clean, Undo
  <2> QED BY <2>2, <2>3, <2>4, <2>5
<1>9. CASE UNCHANGED vars
  BY <1>9 DEF vars
<1> QED BY <1>1, <1>2, <1>3, <1>4, <1>5, <1>6, <1>7, <1>8, <1>9 DEF Next, Step

\* Every step of an updater that is not its start is in a frame.
LEMMA Framed ==
  ASSUME TypeOK, NEW p \in Updaters, Step(p), ~Start(p)
  PROVE  \E loc : /\ Frame(p, loc)
                  /\ loc \in {"manage", "confirm", "reinstall"} =>
                       layout = "npm" \/ pc[p] \in {"manage", "confirm"}
<1> USE DEF Frame, Fixed, Active, Ended, Fine, Fault
<1>1. CASE InstallFails(p) \/ WriteStage(p) \/ CloneInto(p) \/ ReadRegistry(p)
  BY <1>1 DEF InstallFails, WriteStage, CloneInto, ReadRegistry
<1>2. CASE OpenStage(p)
  BY <1>2 DEF OpenStage
<1>3. CASE Upgrade(p) \/ Discard(p)
  BY <1>3 DEF Upgrade, Discard
<1>4. CASE SelfTest(p)
  BY <1>4 DEF SelfTest
<1>5. CASE ClearBackup(p) \/ MoveAside(p)
  BY <1>5 DEF ClearBackup, MoveAside
<1>6. CASE SwapIn(p) \/ Clean(p) \/ Undo(p)
  BY <1>6 DEF SwapIn, Clean, Undo
<1>7. CASE Manage(p) \/ Confirm(p)
  BY <1>7 DEF Manage, Confirm
<1>8. CASE Reinstall(p) \/ AssertHealth(p) \/ Crash(p)
  BY <1>8 DEF Reinstall, AssertHealth, Crash
<1> QED BY <1>1, <1>2, <1>3, <1>4, <1>5, <1>6, <1>7, <1>8 DEF Step

LEMMA InvStep == UInv /\ [Next]_vars => UInv'
<1> SUFFICES ASSUME UInv, [Next]_vars PROVE UInv'
  OBVIOUS
<1>1. TypeOK /\ TypeOK'
  BY TypeStep DEF UInv
<1>2. ASSUME NEW p \in Updaters, Start(p) PROVE UInv'
  <2>1. Apart'
    BY <1>1, <1>2 DEF UInv, Apart, Start, Goto, Active, TypeOK
  <2>2. Managed'
    BY <1>1, <1>2 DEF UInv, Managed, Start, Goto, TypeOK
  <2> QED BY <1>1, <1>2, <2>1, <2>2, StartStep DEF UInv
<1>3. ASSUME NEW p \in Updaters, Step(p), ~Start(p) PROVE UInv'
  <2>1. PICK loc : /\ Frame(p, loc)
                   /\ loc \in {"manage", "confirm", "reinstall"} =>
                        layout = "npm" \/ pc[p] \in {"manage", "confirm"}
    BY <1>1, <1>3, Framed
  <2>2. Apart'
    BY <1>1, <2>1, FrameApart DEF UInv
  <2>3. Managed'
    BY <1>1, <2>1, FrameFacts DEF UInv, Managed, Frame
  <2>4. Alone' <=> Alone
    BY <1>1, <2>1, FrameFacts
  <2>5. Alone => FileInv'
    BY <1>3, OpenStep, WriteStep, CloneStep, DiscardStep, ClearStep, AsideStep,
       SwapStep, CleanStep, UndoStep, TestStep, OtherStep DEF Step
  <2> QED BY <1>1, <2>2, <2>3, <2>4, <2>5 DEF UInv
<1>4. CASE Publish \/ UNCHANGED vars
  <2>1. UNCHANGED <<layout, bad, at, text, pc, target, clashed>>
    BY <1>4 DEF Publish, vars, files
  <2>2. Apart' /\ Managed' /\ (Alone' <=> Alone)
    BY <2>1 DEF UInv, Apart, Managed, Active, Alone, Swapped, Overlap
  <2>3. FileInv => FileInv'
    BY <2>1 DEF FileInv, OneName, Fresh, GoodFiles, Proven, InPlace, Kept, There, Boots,
       Stage, Backup
  <2> QED BY <1>1, <2>2, <2>3 DEF UInv
<1> QED BY <1>2, <1>3, <1>4 DEF Next

\* The inductive invariant of `xr update`: no file has two names, backups and
\* proven candidates boot, and an empty place has a backup (atomic-updater.ts:98-337).
THEOREM UpdaterInvariant == Spec => []UInv
<1>1. Init => UInv
  BY InitInv
<1>2. UInv /\ [Next]_vars => UInv'
  BY InvStep
<1> QED BY <1>1, <1>2, PTL DEF Spec

\* selfheal.ts:2, "never breaks on update", as far as the code has it: in every state
\* that failing calls and crashes lead to, a version that boots is in place or in a
\* backup, for any number of updates and whichever versions are bad.
THEOREM UpdaterAlwaysACopy == Spec => []AlwaysACopy
<1>1. UInv => AlwaysACopy
  <2> SUFFICES ASSUME UInv, Alone
               PROVE  \E name \in {Current} \cup Backups : Boots(name)
    BY DEF AlwaysACopy, Alone
  <2>1. There(Current) \/ \E q \in Updaters : There(Backup(q))
    BY DEF UInv, FileInv, Kept
  <2> QED BY <2>1, NamesApart DEF UInv, FileInv, GoodFiles
<1> QED BY <1>1, UpdaterInvariant, PTL

\* selfheal.ts:5, "switch ONLY if it passes": what is in place boots.
THEOREM UpdaterLiveBoots == Spec => []LiveBoots
<1>1. UInv => LiveBoots
  BY DEF UInv, FileInv, GoodFiles, LiveBoots, Alone
<1> QED BY <1>1, UpdaterInvariant, PTL

-----------------------------------------------------------------------------
(* What the command reports.  Unlike the invariant above this is about all *)
(* four layouts, and about each updater beside which no other one ran,     *)
(* whatever others have left behind before it started.                     *)

\* What p found in place, or what it is to install or something newer.
Old(p, name) == Boots(name) /\ text[at[name]].v = from[p]
NewOrLater(p, name) == There(name) /\ text[at[name]].v >= target[p]

\* Where an updater is tells which of the two is where.
Stands(p) ==
  /\ target[p] <= released /\ from[p] \notin bad
  /\ pc[p] \in {"install", "writing", "clear", "aside", "manage"} => Old(p, Current)
  /\ pc[p] \in {"test", "discard"} /\ layout # "manager" => Old(p, Current)
  /\ pc[p] = "writing" => /\ layout = "binary"
                          /\ at[Stage(p)] = inode[p]
                          /\ text[inode[p]] = [v |-> target[p], writer |-> p]
  /\ pc[p] = "test" /\ layout # "npm" =>
       NewOrLater(p, IF Swapped THEN Stage(p) ELSE Current)
  /\ pc[p] \in {"clear", "aside", "swap"} => NewOrLater(p, Stage(p)) /\ Boots(Stage(p))
  /\ pc[p] = "swap" => ~There(Current) /\ Old(p, Backup(p))
  /\ pc[p] = "clean" => NewOrLater(p, Current) /\ Boots(Current)
  /\ pc[p] = "undo" => Old(p, Current) \/ (~There(Current) /\ Old(p, Backup(p)))
  /\ pc[p] = "assert" => NewOrLater(p, Current)

RInv ==
  /\ TypeOK /\ Apart /\ Managed /\ Fresh
  /\ Swapped => OneName
  /\ \A p \in Updaters : Active(p) /\ p \notin clashed => Stands(p)

\* A name that stands for what another one stood for.
LEMMA SameText ==
  ASSUME TypeOK, NEW p \in Updaters, NEW loc, Frame(p, loc),
         NEW m \in Names, NEW n \in Names,
         at'[m] = at[n], There(n) => text'[at[n]] = text[at[n]]
  PROVE  /\ There(m)' <=> There(n)
         /\ Boots(m)' <=> Boots(n)
         /\ Old(p, m)' <=> Old(p, n)
         /\ NewOrLater(p, m)' <=> NewOrLater(p, n)
BY DEF There, Boots, Old, NewOrLater, Frame

\* Nobody owns the inode of an updater that has not begun.
LEMMA StaysFresh ==
  ASSUME TypeOK, Fresh, NEW p \in Updaters,
         \A q \in Updaters : pc'[q] \in {"off", "install"} =>
           pc[q] \in {"off", "install"},
         \A n \in Names :
           \/ at'[n] = None \/ \E m \in Names : at'[n] = at[m]
           \/ at'[n] = p /\ pc'[p] \notin {"off", "install"}
  PROVE  Fresh'
BY UpdaterAssumption DEF Fresh

\* Every step keeps the files apart: renames move names, a stage is a new inode or
\* the one that is there, and what a manager puts in place is the only file it has.
LEMMA FilesStep ==
  ASSUME RInv, NEW p \in Updaters, Step(p)
  PROVE  Fresh' /\ (Swapped' => OneName')
<1>1. /\ TypeOK /\ Fresh /\ Managed /\ (Swapped => OneName)
      /\ Current \in Names /\ Stage(p) \in Names /\ Backup(p) \in Names
      /\ Current # Stage(p) /\ Current # Backup(p)
  BY NamesApart DEF RInv
<1>2. Swapped' <=> Swapped
  <2>1. CASE Start(p)
    BY <2>1 DEF Start, Swapped
  <2>2. CASE ~Start(p)
    BY <1>1, <2>2, Framed DEF Frame, Swapped
  <2> QED BY <2>1, <2>2
<1>3. /\ \A q \in Updaters : pc'[q] \in {"off", "install"} => pc[q] \in {"off", "install"}
      /\ ~Start(p) => pc'[p] \notin {"off", "install"}
  <2>1. CASE Start(p)
    BY <1>1, <2>1 DEF Start, Goto, TypeOK
  <2>2. ASSUME ~Start(p) PROVE pc'[p] \notin {"off", "install"}
    BY <1>1, <2>2 DEF TypeOK, Step, Goto, InstallFails, OpenStage, WriteStage, CloneInto,
       ReadRegistry, Upgrade, SelfTest, Discard, ClearBackup, MoveAside, SwapIn, Clean,
       Undo, Manage, Confirm, Reinstall, AssertHealth, Crash
  <2>3. CASE ~Start(p)
    <3>1. PICK loc : Frame(p, loc)
      BY <1>1, <2>3, Framed
    <3> QED BY <1>1, <2>2, <2>3, <3>1, FrameFacts
  <2> QED BY <2>1, <2>2, <2>3
<1>4. CASE at' = at
  <2>1. Fresh'
    BY <1>1, <1>3, <1>4, StaysFresh
  <2> QED BY <1>1, <1>2, <1>4, <2>1 DEF OneName, There
<1>5. CASE \E n \in Names : Remove(n)
  <2>1. PICK n \in Names : \A m \in Names : at'[m] = IF m = n THEN None ELSE at[m]
    BY <1>1, <1>5 DEF TypeOK, Remove
  <2>2. Fresh'
    BY <1>1, <1>3, <2>1, StaysFresh
  <2> QED BY <1>1, <1>2, <2>1, <2>2 DEF OneName, There
<1>6. CASE \E old, new \in Names : old # new /\ Rename(old, new)
  <2>1. PICK old \in Names, new \in Names :
          \A m \in Names : at'[m] = IF m = new THEN at[old] ELSE IF m = old THEN None ELSE at[m]
    BY <1>1, <1>6 DEF TypeOK, Rename
  <2>2. Fresh'
    BY <1>1, <1>3, <2>1, StaysFresh
  <2>3. OneName => OneName'
    BY <2>1 DEF OneName, There
  <2> QED BY <1>1, <1>2, <2>2, <2>3
<1>7. CASE \E v : (Put(p, v) \/ PutHalf(p, v)) /\ ~Swapped /\ ~Start(p)
  <2>1. \A n \in Names : at'[n] = at[n] \/ at'[n] = p
    BY <1>1, <1>7 DEF Put, PutHalf, TypeOK
  <2>2. Fresh'
    BY <1>1, <1>3, <1>7, <2>1, StaysFresh
  <2> QED BY <1>2, <1>7, <2>2
<1>8. CASE OpenStage(p) \/ CloneInto(p)
  <2> DEFINE i == IF OpenStage(p) /\ There(Stage(p)) THEN at[Stage(p)] ELSE p
  <2>1. /\ \A n \in Names : at'[n] = IF n = Stage(p) THEN i ELSE at[n]
        /\ pc[p] = "install" /\ Swapped /\ ~Start(p)
    BY <1>1, <1>8 DEF OpenStage, CloneInto, TypeOK, Swapped, Start
  <2>2. \A n \in Names : n # Stage(p) => at[n] # i
    BY <1>1, <2>1, UpdaterAssumption DEF OneName, Fresh, There
  <2>3. Fresh'
    BY <1>1, <1>3, <2>1, StaysFresh
  <2>4. OneName'
    BY <1>1, <2>1, <2>2 DEF OneName, There
  <2> QED BY <2>3, <2>4
<1>9. CASE Start(p) \/ InstallFails(p) \/ WriteStage(p) \/ ReadRegistry(p) \/ SelfTest(p)
           \/ Confirm(p) \/ AssertHealth(p) \/ Crash(p)
  BY <1>4, <1>9 DEF Start, InstallFails, WriteStage, ReadRegistry, SelfTest, Confirm,
                    AssertHealth, Crash, files
<1>10. CASE ClearBackup(p) \/ MoveAside(p) \/ SwapIn(p) \/ Clean(p) \/ Undo(p)
  BY <1>1, <1>4, <1>5, <1>6, <1>10 DEF ClearBackup, MoveAside, SwapIn, Clean, Undo
<1>11. CASE Upgrade(p) \/ Discard(p) \/ Manage(p) \/ Reinstall(p)
  <2>1. \/ at' = at \/ \E n \in Names : Remove(n)
        \/ \E v : (Put(p, v) \/ PutHalf(p, v)) /\ ~Swapped /\ ~Start(p)
    BY <1>1, <1>11 DEF Upgrade, Discard, Manage, Reinstall, files, Swapped, Managed, Start
  <2> QED BY <1>4, <1>5, <1>7, <2>1
<1> QED BY <1>8, <1>9, <1>10, <1>11 DEF Step

\* What each step of p has to show: where p still runs it stands as it should, and
\* where it ends what it reports is true.
Fares(p) ==
  /\ Active(p)' => Stands(p)'
  /\ pc'[p] \in Ended /\ p \notin unrestored' => ToldTrue(p)

\* An updater of which nobody else is in the way.
Sound(p) == RInv /\ p \in Updaters /\ p \notin clashed

LEMMA NamesOf ==
  ASSUME NEW p, Sound(p)
  PROVE  /\ TypeOK /\ p \in Updaters /\ Current \in Names
         /\ Stage(p) \in Names /\ Backup(p) \in Names
         /\ Current # Stage(p) /\ Current # Backup(p) /\ Stage(p) # Backup(p)
         /\ Active(p) => Stands(p)
         /\ Swapped => OneName
         /\ Fresh /\ Managed
BY NamesApart DEF Sound, RInv

\* Where p is, is in its bounds: a step in its frame has what it knew of versions.
LEMMA Knows ==
  ASSUME NEW p, Sound(p), NEW loc, Frame(p, loc)
  PROVE  /\ target'[p] = target[p] /\ from'[p] = from[p] /\ bad' = bad /\ released' = released
         /\ target[p] <= released /\ from[p] \notin bad
         /\ pc'[p] = loc /\ Stage(p)' = Stage(p) /\ Backup(p)' = Backup(p)
         /\ layout' = layout /\ Swapped' = Swapped
         /\ Stands(p)
BY NamesOf, FrameFacts DEF Frame, Stands, Swapped

\* `xr update` runs in the XR that is in place.
LEMMA StartFares ==
  ASSUME RInv, NEW p \in Updaters, Start(p), p \notin clashed'
  PROVE  Fares(p)
<1>1. TypeOK /\ Current \in Names
  BY NamesApart DEF RInv
<1>2. /\ pc'[p] = "install" /\ from'[p] = text[at[Current]].v /\ target'[p] = released
      /\ Boots(Current) /\ UNCHANGED <<files, bad, released, layout>>
  BY <1>1 DEF Start, Goto, TypeOK
<1>3. Old(p, Current)' /\ from'[p] \notin bad'
  BY <1>2 DEF Old, Boots, There, files
<1>4. released' \in Nat
  BY <1>1, <1>2 DEF TypeOK, Versions
<1> QED BY <1>2, <1>3, <1>4 DEF Fares, Stands, Ended

\* A step that touches no file goes on from what it knew.
LEMMA QuietFares ==
  ASSUME NEW p, Sound(p),
         \/ InstallFails(p) \/ ReadRegistry(p) \/ SelfTest(p) \/ Confirm(p)
         \/ AssertHealth(p) \/ Crash(p)
  PROVE  Fares(p)
<1>1. UNCHANGED files
  BY DEF InstallFails, ReadRegistry, SelfTest, Confirm, AssertHealth, Crash
<1>2. PICK loc : Frame(p, loc)
  <2>1. ~Start(p) /\ Step(p)
    BY DEF Step, Start, InstallFails, ReadRegistry, SelfTest, Confirm, AssertHealth, Crash,
           Active
  <2> QED BY <2>1, NamesOf, Framed
<1>3. \A n \in Names : /\ There(n)' <=> There(n)
                       /\ Boots(n)' <=> Boots(n)
                       /\ Old(p, n)' <=> Old(p, n)
                       /\ NewOrLater(p, n)' <=> NewOrLater(p, n)
  BY <1>1, <1>2, NamesOf, SameText DEF files
<1>4. pc'[p] = loc /\ text'[at'[Current]] = text[at[Current]]
  BY <1>1, <1>2, Knows DEF files
<1> USE NamesOf, Knows
<1>5. CASE InstallFails(p)
  <2>1. loc = "kept" /\ Old(p, Current)
    BY <1>2, <1>4, <1>5 DEF InstallFails, Stands, Goto, TypeOK
  <2> QED BY <1>2, <1>3, <1>4, <2>1 DEF Fares, ToldTrue, Active, Ended, Old
<1>6. CASE ReadRegistry(p)
  <2>1. loc = "test" /\ layout = "npm" /\ Old(p, Current)
    BY <1>2, <1>4, <1>6 DEF ReadRegistry, Stands, Goto, TypeOK
  <2> QED BY <1>2, <1>3, <2>1 DEF Fares, Stands, Ended, Swapped
<1>7. CASE SelfTest(p)
  <2>1. /\ pc[p] = "test"
        /\ \/ Healthy(p) /\ loc = CASE layout = "binary" -> "clear" [] layout = "git" -> "aside"
                     [] layout = "npm" -> "manage" [] OTHER -> "assert"
           \/ loc = "discard"
    BY <1>2, <1>4, <1>7 DEF SelfTest, Goto, TypeOK
  <2>2. layout \in {"binary", "git", "npm", "manager"}
    BY UpdaterAssumption DEF TypeOK
  <2>3. /\ layout # "manager" => Old(p, Current)
        /\ layout # "npm" => NewOrLater(p, IF Swapped THEN Stage(p) ELSE Current)
    BY <1>2, <2>1 DEF Stands
  <2>4. CASE loc = "discard"
    <3>1. /\ pc'[p] = "discard" /\ layout' = layout
          /\ target'[p] <= released' /\ from'[p] \notin bad'
      BY <1>2, <2>4
    <3>2. layout' # "manager" => Old(p, Current)'
      BY <1>3, <2>3, <3>1
    <3>3. Stands(p)'
      BY ONLY <3>1, <3>2 DEF Stands
    <3> QED BY <3>1, <3>3 DEF Fares, Ended
  <2>5. CASE Healthy(p) /\ Swapped /\ loc \in {"clear", "aside"}
    BY <1>2, <1>3, <2>3, <2>5 DEF Fares, Stands, Ended, Healthy, Swapped
  <2>6. CASE layout = "npm" /\ loc = "manage"
    BY <1>2, <1>3, <2>3, <2>6 DEF Fares, Stands, Ended
  <2>7. CASE layout = "manager" /\ loc = "assert"
    BY <1>2, <1>3, <2>3, <2>7 DEF Fares, Stands, Ended, Swapped
  <2> QED BY <2>1, <2>2, <2>4, <2>5, <2>6, <2>7 DEF Swapped
<1>8. CASE Confirm(p)
  <2>1. \/ loc = "updated" /\ Boots(Current) /\ text[at[Current]].v = target[p]
        \/ loc = "reinstall"
    BY <1>2, <1>4, <1>8 DEF Confirm, Goto, TypeOK
  <2>2. target[p] \in Nat
    BY DEF TypeOK, Versions
  <2>3. CASE loc = "reinstall"
    <3>1. /\ pc'[p] = "reinstall" /\ target'[p] <= released' /\ from'[p] \notin bad'
      BY <1>2, <2>3
    <3>2. Stands(p)'
      BY ONLY <3>1 DEF Stands
    <3> QED BY <3>1, <3>2 DEF Fares, Ended
  <2> QED BY <1>2, <1>3, <1>4, <2>1, <2>2, <2>3 DEF Fares, ToldTrue, Active, Ended
<1>9. CASE AssertHealth(p)
  <2>1. /\ NewOrLater(p, Current)
        /\ \/ loc = "updated" /\ Boots(Current)
           \/ loc = "kept" /\ p \in unrestored'
    BY <1>2, <1>4, <1>9 DEF AssertHealth, Goto, TypeOK, Stands, Undone
  <2> QED BY <1>2, <1>3, <1>4, <2>1 DEF Fares, ToldTrue, Active, Ended, NewOrLater
<1>10. CASE Crash(p)
  <2>1. loc = "dead"
    BY <1>2, <1>4, <1>10 DEF Crash, Goto, TypeOK
  <2> QED BY <1>2, <2>1 DEF Fares, Active, Ended
<1> QED BY <1>5, <1>6, <1>7, <1>8, <1>9, <1>10

\* A manager puts a file of p's own in place.
LEMMA PutFacts ==
  ASSUME NEW p, Sound(p), NEW loc, Frame(p, loc), NEW v \in Versions, Put(p, v)
  PROVE  /\ text'[at'[Current]].v = v /\ There(Current)'
         /\ v \notin bad => Boots(Current)'
<1>1. /\ TypeOK /\ p \in Inodes /\ p # None /\ bad' = bad
  BY NamesOf, UpdaterAssumption DEF Inodes, Frame
<1>2. at'[Current] = p /\ text'[p] = Whole(v)
  BY <1>1, NamesOf DEF Put, TypeOK
<1> QED BY <1>1, <1>2 DEF There, Boots, Whole

LEMMA ManagedFares ==
  ASSUME NEW p, Sound(p), Upgrade(p) \/ Manage(p) \/ Reinstall(p)
  PROVE  Fares(p)
<1>1. PICK loc : Frame(p, loc)
  <2>1. ~Start(p) /\ Step(p)
    BY DEF Step, Start, Upgrade, Manage, Reinstall
  <2> QED BY <2>1, NamesOf, Framed
<1>2. /\ target[p] \in Versions /\ from[p] \in Versions /\ released \in Versions
      /\ target[p] \in Nat /\ released \in Nat
      /\ pc' = [pc EXCEPT ![p] = loc] /\ pc'[p] = loc
  BY <1>1, NamesOf DEF TypeOK, Versions, Frame, Goto
<1> USE Knows
<1>3. CASE Upgrade(p)
  <2>1. CASE Put(p, released) /\ Goto(p, "test")
    <3>1. /\ pc'[p] = "test" /\ layout' = "manager" /\ ~Swapped'
          /\ target'[p] <= released' /\ from'[p] \notin bad'
      BY <1>1, <1>2, <1>3, <2>1, NamesOf DEF Upgrade, Goto, TypeOK, Swapped
    <3>2. NewOrLater(p, Current)'
      BY <1>1, <1>2, <2>1, PutFacts DEF NewOrLater
    <3>3. Stands(p)'
      BY ONLY <3>1, <3>2 DEF Stands
    <3> QED BY <3>1, <3>3 DEF Fares, Ended
  <2>2. CASE Goto(p, "kept") /\ Undone(p)
    <3>1. pc'[p] = "kept" /\ p \in unrestored'
      BY <2>2, NamesOf DEF Goto, Undone, TypeOK
    <3> QED BY <3>1 DEF Fares, Active, Ended
  <2> QED BY <1>3, <2>1, <2>2 DEF Upgrade
<1>4. CASE Manage(p)
  <2>1. CASE Put(p, target[p]) /\ Goto(p, "confirm")
    <3>1. /\ pc'[p] = "confirm"
          /\ target'[p] <= released' /\ from'[p] \notin bad'
      BY <1>1, <1>2, <2>1, NamesOf DEF Goto, TypeOK
    <3>2. Stands(p)'
      BY ONLY <3>1 DEF Stands
    <3> QED BY <3>1, <3>2 DEF Fares, Ended
  <2>2. CASE Goto(p, "kept") /\ UNCHANGED <<files, unrestored>>
    <3>1. pc'[p] = "kept" /\ Old(p, Current)
      BY <1>1, <1>4, <2>2, NamesOf DEF Manage, Goto, TypeOK, Stands
    <3>2. Old(p, Current)' /\ text'[at'[Current]] = text[at[Current]] /\ Boots(Current)'
      BY <1>1, <2>2, <3>1, NamesOf, SameText DEF files, Old
    <3> QED BY <1>1, <3>1, <3>2 DEF Fares, ToldTrue, Active, Ended, Old
  <2>3. CASE Goto(p, "kept") /\ Undone(p)
    <3>1. pc'[p] = "kept" /\ p \in unrestored'
      BY <2>3, NamesOf DEF Goto, Undone, TypeOK
    <3> QED BY <3>1 DEF Fares, Active, Ended
  <2> QED BY <1>4, <2>1, <2>2, <2>3 DEF Manage
<1>5. CASE Reinstall(p)
  <2>1. pc'[p] = "kept"
    BY <1>5, NamesOf DEF Reinstall, Goto, TypeOK
  <2>2. CASE Put(p, from[p])
    BY <1>1, <1>2, <2>1, <2>2, PutFacts DEF Fares, ToldTrue, Active, Ended
  <2>3. CASE Undone(p)
    BY <2>1, <2>3 DEF Fares, Active, Ended, Undone
  <2> QED BY <1>5, <2>2, <2>3 DEF Reinstall
<1> QED BY <1>3, <1>4, <1>5

\* The download and the clone leave what is in place alone.
LEMMA StagingFares ==
  ASSUME NEW p, Sound(p), OpenStage(p) \/ WriteStage(p) \/ CloneInto(p)
  PROVE  Fares(p)
<1>1. PICK loc : Frame(p, loc)
  <2>1. ~Start(p) /\ Step(p)
    BY DEF Step, Start, OpenStage, WriteStage, CloneInto
  <2> QED BY <2>1, NamesOf, Framed
<1> USE Knows
<1>2. /\ target[p] \in Versions /\ released \in Versions
      /\ target[p] \in Nat /\ released \in Nat
      /\ at \in [Names -> Inodes \cup {None}]
      /\ text \in [Inodes -> [v : Versions, writer : Updaters \cup {None}]]
      /\ p \in Inodes /\ p # None
  <2>1. TypeOK /\ p \in Updaters
    BY NamesOf
  <2>2. target[p] \in Versions /\ released \in Versions
    BY <2>1 DEF TypeOK
  <2>3. target[p] \in Nat /\ released \in Nat
    BY <2>2 DEF Versions
  <2> QED BY <2>1, <2>2, <2>3, UpdaterAssumption DEF TypeOK, Inodes
<1>3. Old(p, Current) /\ There(Current)
  BY <1>1 DEF OpenStage, WriteStage, CloneInto, Stands, Old, Boots
<1>4. ASSUME at'[Current] = at[Current], text'[at[Current]] = text[at[Current]]
      PROVE  Old(p, Current)' /\ (pc'[p] = "kept" => ToldTrue(p))
  BY <1>1, <1>3, <1>4, NamesOf, SameText DEF ToldTrue, Old
<1>5. CASE OpenStage(p)
  <2> DEFINE i == IF There(Stage(p)) THEN at[Stage(p)] ELSE p
  <2>1. i \in Inodes /\ pc[p] = "install" /\ layout = "binary" /\ Swapped
    BY <1>2, <1>5, NamesOf DEF OpenStage, There, Swapped
  <2>2. at[Current] # i
    BY <1>2, <1>3, <2>1, NamesOf DEF OneName, Fresh, There
  <2>3. /\ at'[Current] = at[Current] /\ text'[at[Current]] = text[at[Current]]
        /\ at'[Stage(p)] = i /\ inode'[p] = i
        /\ text'[i] = [v |-> target[p], writer |-> p]
    BY <1>2, <1>3, <1>5, <2>1, <2>2, NamesOf DEF OpenStage, There, TypeOK
  <2>4. Old(p, Current)'
    BY <1>4, <2>3
  <2>5. /\ pc'[p] = "writing" /\ layout' = "binary"
        /\ target'[p] <= released' /\ from'[p] \notin bad'
        /\ at'[Stage(p)'] = inode'[p]
        /\ text'[inode'[p]] = [v |-> target'[p], writer |-> p]
    BY <1>1, <1>5, <2>1, <2>3, NamesOf DEF OpenStage, Goto, TypeOK
  <2>6. Stands(p)'
    BY ONLY <2>4, <2>5 DEF Stands
  <2> QED BY <2>5, <2>6 DEF Fares, Ended
<1>6. CASE WriteStage(p)
  <2>1. /\ pc[p] = "writing" /\ layout = "binary" /\ Swapped /\ at' = at
        /\ at[Stage(p)] = inode[p] /\ inode[p] \in Inodes
        /\ text[inode[p]] = [v |-> target[p], writer |-> p]
    BY <1>1, <1>6, NamesOf DEF WriteStage, Stands, Swapped, TypeOK
  <2>2. at[Current] # inode[p]
    BY <1>2, <1>3, <2>1, NamesOf DEF OneName, There
  <2>3. CASE Goto(p, "kept") /\ UNCHANGED text
    <3>1. pc'[p] = "kept"
      BY <2>3, NamesOf DEF Goto, TypeOK
    <3> QED BY <1>4, <2>1, <2>3, <3>1 DEF Fares, Active, Ended
  <2>4. CASE /\ text' = [text EXCEPT ![inode[p]].writer = IF @ = p THEN None ELSE @]
             /\ Goto(p, "test")
    <3>1. text'[at[Current]] = text[at[Current]] /\ text'[inode[p]].v = target[p]
      BY <1>2, <1>3, <2>1, <2>2, <2>4 DEF There
    <3>2. Old(p, Current)'
      BY <1>4, <2>1, <3>1
    <3>3. NewOrLater(p, Stage(p))'
      <4>1. at'[Stage(p)'] = inode[p] /\ inode[p] # None /\ target'[p] = target[p]
        BY <1>1, <2>1, UpdaterAssumption DEF Inodes
      <4>2. text'[inode[p]].v >= target[p]
        BY <1>2, <3>1
      <4> QED BY ONLY <4>1, <4>2 DEF NewOrLater, There
    <3>4. /\ pc'[p] = "test" /\ Swapped' = TRUE
          /\ target'[p] <= released' /\ from'[p] \notin bad'
      BY <1>1, <2>1, <2>4, NamesOf DEF Goto, TypeOK, Swapped
    <3>5. Stands(p)'
      BY ONLY <3>2, <3>3, <3>4 DEF Stands
    <3> QED BY <3>4, <3>5 DEF Fares, Ended
  <2> QED BY <1>6, <2>3, <2>4 DEF WriteStage
<1>7. CASE CloneInto(p)
  <2>1. pc[p] = "install" /\ layout = "git" /\ Swapped
    BY <1>7 DEF CloneInto, Swapped
  <2>2. at[Current] # p
    BY <2>1, NamesOf DEF Fresh
  <2>3. /\ at'[Current] = at[Current] /\ text'[at[Current]] = text[at[Current]]
        /\ at'[Stage(p)] = p /\ text'[p].v = released
    BY <1>2, <1>3, <1>7, <2>2, NamesOf DEF CloneInto, There, Whole
  <2>4. Old(p, Current)'
    BY <1>4, <2>3
  <2>5. NewOrLater(p, Stage(p))'
    BY <1>1, <1>2, <2>3 DEF NewOrLater, There
  <2>6. /\ pc'[p] = "test" /\ Swapped' = TRUE
        /\ target'[p] <= released' /\ from'[p] \notin bad'
    BY <1>1, <1>7, <2>1, NamesOf DEF CloneInto, Goto, TypeOK, Swapped
  <2>7. Stands(p)'
    BY ONLY <2>4, <2>5, <2>6 DEF Stands
  <2> QED BY <2>6, <2>7 DEF Fares, Ended
<1> QED BY <1>5, <1>6, <1>7

\* A candidate that was refused is removed, or what was there is put back.
LEMMA DiscardFares ==
  ASSUME NEW p, Sound(p), Discard(p)
  PROVE  Fares(p)
<1>1. Frame(p, "kept") /\ pc[p] = "discard"
  BY DEF Discard, Frame, Fixed, Active, Ended
<1> USE Knows
<1>2. pc'[p] = "kept" /\ from[p] \in Versions
  BY <1>1, NamesOf DEF TypeOK
<1>3. CASE layout # "manager"
  <2>1. Old(p, Current)
    BY <1>1, <1>3 DEF Stands
  <2>2. at'[Current] = at[Current] /\ text' = text
    BY <1>3, NamesOf DEF Discard, Remove, TypeOK, files
  <2>3. Old(p, Current)' /\ text'[at'[Current]] = text[at[Current]]
    BY <1>1, <2>1, <2>2, NamesOf, SameText
  <2> QED BY <1>1, <1>2, <2>1, <2>3 DEF Fares, ToldTrue, Active, Ended, Old
<1>4. CASE layout = "manager"
  <2>1. CASE Put(p, from[p])
    BY <1>1, <1>2, <2>1, PutFacts DEF Fares, ToldTrue, Active, Ended
  <2>2. CASE Undone(p)
    BY <1>2, <2>2, NamesOf DEF Fares, Active, Ended, Undone
  <2> QED BY <1>4, <2>1, <2>2 DEF Discard, Swapped
<1> QED BY <1>3, <1>4

\* What removing a name, or giving it to another, leaves p with.
LEMMA RemovedFor ==
  ASSUME NEW p, Sound(p), NEW loc, Frame(p, loc), UNCHANGED text,
         NEW n \in Names, Remove(n)
  PROVE  /\ ~There(n)'
         /\ \A m \in Names : m # n =>
              /\ There(m)' <=> There(m)
              /\ Boots(m)' <=> Boots(m)
              /\ Old(p, m)' <=> Old(p, m)
              /\ NewOrLater(p, m)' <=> NewOrLater(p, m)
              /\ at'[m] = at[m]
<1>1. \A m \in Names : at'[m] = IF m = n THEN None ELSE at[m]
  BY NamesOf DEF TypeOK, Remove
<1>2. ASSUME NEW m \in Names, m # n
      PROVE  /\ There(m)' <=> There(m)
             /\ Boots(m)' <=> Boots(m)
             /\ Old(p, m)' <=> Old(p, m)
             /\ NewOrLater(p, m)' <=> NewOrLater(p, m)
  <2>1. at'[m] = at[m]
    BY <1>1, <1>2
  <2> QED BY <2>1, NamesOf, SameText
<1> QED BY <1>1, <1>2 DEF There

LEMMA RenamedFor ==
  ASSUME NEW p, Sound(p), NEW loc, Frame(p, loc), UNCHANGED text,
         NEW old \in Names, NEW new \in Names, old # new, Rename(old, new)
  PROVE  /\ ~There(old)'
         /\ Boots(new)' <=> Boots(old)
         /\ Old(p, new)' <=> Old(p, old)
         /\ NewOrLater(p, new)' <=> NewOrLater(p, old)
         /\ at'[new] = at[old]
         /\ \A m \in Names \ {old, new} :
              /\ There(m)' <=> There(m)
              /\ Boots(m)' <=> Boots(m)
              /\ Old(p, m)' <=> Old(p, m)
              /\ NewOrLater(p, m)' <=> NewOrLater(p, m)
<1>1. \A m \in Names : at'[m] = IF m = new THEN at[old] ELSE IF m = old THEN None ELSE at[m]
  BY NamesOf DEF TypeOK, Rename
<1>2. at'[new] = at[old] /\ at'[old] = None
  BY <1>1
<1>3. /\ Boots(new)' <=> Boots(old)
      /\ Old(p, new)' <=> Old(p, old)
      /\ NewOrLater(p, new)' <=> NewOrLater(p, old)
  BY <1>2, NamesOf, SameText
<1>4. ASSUME NEW m \in Names \ {old, new}
      PROVE  /\ There(m)' <=> There(m)
             /\ Boots(m)' <=> Boots(m)
             /\ Old(p, m)' <=> Old(p, m)
             /\ NewOrLater(p, m)' <=> NewOrLater(p, m)
  <2>1. at'[m] = at[m]
    BY <1>1, <1>4
  <2> QED BY <2>1, NamesOf, SameText
<1> QED BY <1>2, <1>3, <1>4 DEF There

\* The renames of a swapped layout: what was in place is there or in p's backup.
LEMMA SwappingFares ==
  ASSUME NEW p, Sound(p), ClearBackup(p) \/ MoveAside(p) \/ SwapIn(p) \/ Clean(p) \/ Undo(p)
  PROVE  Fares(p)
<1>1. PICK loc : Frame(p, loc)
  <2>1. ~Start(p) /\ Step(p)
    BY DEF Step, Start, ClearBackup, MoveAside, SwapIn, Clean, Undo
  <2> QED BY <2>1, NamesOf, Framed
<1> USE Knows
<1>2. /\ UNCHANGED text /\ pc'[p] = loc
      /\ target'[p] <= released' /\ from'[p] \notin bad'
      /\ Stage(p)' = Stage(p) /\ Backup(p)' = Backup(p)
      /\ \A n \in Names : at'[n] = at[n] =>
           /\ There(n)' <=> There(n)
           /\ Boots(n)' <=> Boots(n)
           /\ Old(p, n)' <=> Old(p, n)
           /\ NewOrLater(p, n)' <=> NewOrLater(p, n)
  <2>1. UNCHANGED text
    BY DEF ClearBackup, MoveAside, SwapIn, Clean, Undo
  <2> QED BY <1>1, <2>1, NamesOf, SameText
<1>3. ASSUME loc = "kept", Old(p, Current)' PROVE Fares(p)
  BY <1>1, <1>2, <1>3 DEF Fares, ToldTrue, Active, Ended, Old
<1>4. ASSUME loc = "updated", NewOrLater(p, Current)', Boots(Current)' PROVE Fares(p)
  BY <1>1, <1>2, <1>4 DEF Fares, ToldTrue, Active, Ended, NewOrLater
<1>5. ASSUME loc = "undo", Old(p, Current)' \/ (~There(Current)' /\ Old(p, Backup(p))')
      PROVE  Fares(p)
  <2>1. Stands(p)'
    BY ONLY <1>2, <1>5 DEF Stands
  <2> QED BY <1>2, <1>5, <2>1 DEF Fares, Ended
<1>6. CASE ClearBackup(p)
  <2>1. pc[p] = "clear" /\ Old(p, Current) /\ NewOrLater(p, Stage(p)) /\ Boots(Stage(p))
    BY <1>1, <1>6 DEF ClearBackup, Stands
  <2>2. CASE Remove(Backup(p)) /\ Goto(p, "aside")
    <3>1. loc = "aside"
      BY <1>2, <2>2, NamesOf DEF Goto, TypeOK
    <3>2. Old(p, Current)' /\ NewOrLater(p, Stage(p))' /\ Boots(Stage(p))'
      BY <1>1, <1>2, <2>1, <2>2, NamesOf, RemovedFor
    <3>3. Stands(p)'
      BY ONLY <1>2, <3>1, <3>2 DEF Stands
    <3> QED BY <1>2, <3>1, <3>3 DEF Fares, Ended
  <2>3. CASE UNCHANGED at /\ Goto(p, "undo")
    <3>1. loc = "undo"
      BY <1>2, <2>3, NamesOf DEF Goto, TypeOK
    <3> QED BY <1>2, <1>5, <2>1, <2>3, <3>1, NamesOf
  <2> QED BY <1>6, <2>2, <2>3 DEF ClearBackup
<1>7. CASE MoveAside(p)
  <2>1. pc[p] = "aside" /\ Old(p, Current) /\ NewOrLater(p, Stage(p)) /\ Boots(Stage(p))
    BY <1>1, <1>7 DEF MoveAside, Stands
  <2>2. CASE Rename(Current, Backup(p)) /\ Goto(p, "swap")
    <3>1. loc = "swap"
      BY <1>2, <2>2, NamesOf DEF Goto, TypeOK
    <3>2. /\ ~There(Current)' /\ Old(p, Backup(p))'
          /\ NewOrLater(p, Stage(p))' /\ Boots(Stage(p))'
      <4>1. Stage(p) \in Names \ {Current, Backup(p)}
        BY NamesOf
      <4> QED BY <1>1, <1>2, <2>1, <2>2, <4>1, NamesOf, RenamedFor
    <3>3. Stands(p)'
      BY ONLY <1>2, <3>1, <3>2 DEF Stands
    <3> QED BY <1>2, <3>1, <3>3 DEF Fares, Ended
  <2>3. CASE UNCHANGED at /\ Goto(p, IF layout = "binary" THEN "undo" ELSE "kept")
    <3>1. loc \in {"undo", "kept"}
      BY <1>2, <2>3, NamesOf DEF Goto, TypeOK
    <3>2. Old(p, Current)'
      BY <1>2, <2>1, <2>3, NamesOf
    <3> QED BY <1>3, <1>5, <3>1, <3>2
  <2> QED BY <1>7, <2>2, <2>3 DEF MoveAside
<1>8. CASE SwapIn(p)
  <2>1. /\ pc[p] = "swap" /\ ~There(Current) /\ Old(p, Backup(p))
        /\ NewOrLater(p, Stage(p)) /\ Boots(Stage(p))
    BY <1>1, <1>8 DEF SwapIn, Stands
  <2>2. CASE Rename(Stage(p), Current) /\ Goto(p, "clean")
    <3>1. loc = "clean"
      BY <1>2, <2>2, NamesOf DEF Goto, TypeOK
    <3>2. NewOrLater(p, Current)' /\ Boots(Current)'
      BY <1>1, <1>2, <2>1, <2>2, NamesOf, RenamedFor
    <3>3. Stands(p)'
      BY ONLY <1>2, <3>1, <3>2 DEF Stands
    <3> QED BY <1>2, <3>1, <3>3 DEF Fares, Ended
  <2>3. CASE UNCHANGED at /\ Goto(p, "undo")
    <3>1. loc = "undo"
      BY <1>2, <2>3, NamesOf DEF Goto, TypeOK
    <3>2. ~There(Current)' /\ Old(p, Backup(p))'
      BY <1>2, <2>1, <2>3, NamesOf
    <3> QED BY <1>5, <3>1, <3>2
  <2> QED BY <1>8, <2>2, <2>3 DEF SwapIn
<1>9. CASE Clean(p)
  <2>1. pc[p] = "clean" /\ NewOrLater(p, Current) /\ Boots(Current)
    BY <1>1, <1>9 DEF Clean, Stands
  <2>2. NewOrLater(p, Current)' /\ Boots(Current)'
    BY <1>1, <1>2, <1>9, <2>1, NamesOf, RemovedFor DEF Clean
  <2>3. loc = "updated" \/ (loc = "kept" /\ p \in unrestored')
    BY <1>2, <1>9, NamesOf DEF Clean, Goto, Undone, TypeOK
  <2>4. CASE loc = "kept" /\ p \in unrestored'
    BY <1>2, <2>4 DEF Fares, Active, Ended
  <2> QED BY <1>4, <2>2, <2>3, <2>4
<1>10. CASE Undo(p)
  <2>1. /\ pc[p] = "undo" /\ loc = "kept"
        /\ Old(p, Current) \/ (~There(Current) /\ Old(p, Backup(p)))
    BY <1>1, <1>2, <1>10, NamesOf DEF Undo, Stands, Goto, TypeOK
  <2>2. CASE p \in unrestored'
    BY <1>2, <2>1, <2>2 DEF Fares, Active, Ended
  <2>3. CASE ~There(Current) /\ There(Backup(p)) /\ Rename(Backup(p), Current)
    <3>1. Old(p, Current)'
      <4>1. Old(p, Backup(p))
        BY <2>1, <2>3 DEF Old, Boots
      <4> QED BY <1>1, <1>2, <2>3, <4>1, NamesOf, RenamedFor
    <3> QED BY <1>3, <2>1, <3>1
  <2>4. CASE ~(~There(Current) /\ There(Backup(p))) /\ UNCHANGED at
    <3>1. Old(p, Current)
      BY <2>1, <2>4 DEF Old, Boots
    <3> QED BY <1>2, <1>3, <2>1, <2>4, <3>1, NamesOf
  <2>5. Undone(p) => p \in unrestored'
    BY DEF Undone
  <2> QED BY <1>10, <2>2, <2>3, <2>4, <2>5 DEF Undo
<1> QED BY <1>6, <1>7, <1>8, <1>9, <1>10

\* A step of p itself.
LEMMA OwnFares ==
  ASSUME RInv, NEW p \in Updaters, Step(p), p \notin clashed'
  PROVE  Fares(p)
<1>1. CASE Start(p)
  BY <1>1, StartFares
<1>2. CASE ~Start(p)
  <2>1. Sound(p)
    <3>1. PICK loc : Frame(p, loc)
      BY <1>2, Framed DEF RInv
    <3> QED BY <3>1 DEF Sound, Frame
  <2> QED BY <1>2, <2>1, QuietFares, ManagedFares, StagingFares, DiscardFares,
             SwappingFares DEF Step
<1> QED BY <1>1, <1>2

\* While p runs and has not been noticed, a step of another updater is a start, by
\* which both are; so the files are as p left them.
LEMMA OthersIdle ==
  ASSUME RInv, NEW p \in Updaters, NEW q \in Updaters, q # p, Step(q), Active(p)'
  PROVE  p \in clashed'
<1>1. Active(p) /\ TypeOK /\ Apart
  <2>1. pc'[p] = pc[p]
    <3>1. CASE Start(q)
      BY <3>1 DEF Start, Goto, RInv, TypeOK
    <3>2. CASE ~Start(q)
      <4>1. PICK loc : Frame(q, loc)
        BY <3>2, Framed DEF RInv
      <4> QED BY <4>1, FrameFacts DEF RInv
    <3> QED BY <3>1, <3>2
  <2> QED BY <2>1 DEF Active, RInv
<1>2. CASE Start(q)
  BY <1>1, <1>2 DEF Start
<1>3. CASE ~Start(q)
  <2>1. PICK loc : Frame(q, loc)
    BY <1>1, <1>3, Framed
  <2> QED BY <1>1, <2>1 DEF Frame, Apart
<1> QED BY <1>2, <1>3

LEMMA ReportStep == RInv /\ UInv' /\ [Next]_vars => RInv'
<1> SUFFICES ASSUME RInv, UInv', [Next]_vars PROVE RInv'
  OBVIOUS
<1>1. TypeOK' /\ Apart' /\ Managed'
  BY DEF UInv
<1>2. ASSUME NEW q \in Updaters, Step(q) PROVE RInv'
  <2>1. Fresh' /\ (Swapped' => OneName')
    BY <1>2, FilesStep
  <2>2. ASSUME NEW p \in Updaters, Active(p)', p \notin clashed' PROVE Stands(p)'
    <3>1. p = q
      BY <1>2, <2>2, OthersIdle
    <3> QED BY <1>2, <2>2, <3>1, OwnFares DEF Fares
  <2> QED BY <1>1, <2>1, <2>2 DEF RInv
<1>3. CASE Publish \/ UNCHANGED vars
  <2>1. /\ UNCHANGED <<layout, bad, at, text, pc, from, target, inode, clashed>>
        /\ released <= released'
    <3>1. released \in Nat
      BY DEF RInv, TypeOK, Versions
    <3> QED BY <1>3, <3>1 DEF Publish, vars, files
  <2>2. Fresh' /\ (Swapped' => OneName')
    BY <2>1 DEF RInv, Fresh, Swapped, OneName, There
  <2>3. ASSUME NEW p \in Updaters, Active(p)', p \notin clashed' PROVE Stands(p)'
    <3>1. Stands(p) /\ p \in Updaters
      BY <2>1, <2>3 DEF RInv, Active
    <3>2. target[p] <= released' /\ from[p] \notin bad
      <4>1. target[p] \in Nat /\ released \in Nat /\ released' \in Nat /\ target[p] <= released
        BY <1>1, <3>1 DEF RInv, TypeOK, Versions, Stands
      <4> QED BY <2>1, <3>1, <4>1 DEF Stands
    <3> QED BY <2>1, <3>1, <3>2 DEF Stands, Old, NewOrLater, There, Boots, Stage, Backup, Swapped
  <2> QED BY <1>1, <2>2, <2>3 DEF RInv
<1> QED BY <1>2, <1>3 DEF Next

\* system.ts, what `xr update` tells its user: an update it calls made is in place,
\* boots and is no older than the version announced, and one it calls not made has
\* left the version it found, whatever layout, failure or crash of others, unless
\* another update ran beside it or its own undoing failed.
THEOREM UpdaterReportIsTrue == Spec => ReportIsTrue
<1>1. Init => RInv
  <2> SUFFICES ASSUME Init PROVE RInv
    OBVIOUS
  <2>1. TypeOK /\ Apart /\ Managed
    BY InitInv DEF UInv
  <2>2. Fresh /\ OneName
    BY UpdaterAssumption DEF Init, Fresh, OneName, There
  <2>3. \A p \in Updaters : ~Active(p)
    BY DEF Init, Active
  <2> QED BY <2>1, <2>2, <2>3 DEF RInv
<1>2. RInv /\ UInv' /\ [Next]_vars => RInv'
  BY ReportStep
<1>3. RInv /\ [Next]_vars =>
        [\A p \in Updaters :
           pc'[p] # pc[p] /\ p \notin clashed' \cup unrestored' => ToldTrue(p)]_vars
  <2> SUFFICES ASSUME RInv, [Next]_vars, NEW p \in Updaters,
                      pc'[p] # pc[p], p \notin clashed' \cup unrestored'
               PROVE  ToldTrue(p)
    OBVIOUS
  <2>1. PICK q \in Updaters : Step(q)
    BY DEF Next, Publish, vars
  <2>2. q = p
    <3>1. CASE Start(q)
      BY <3>1 DEF Start, Goto, RInv, TypeOK
    <3>2. CASE ~Start(q)
      <4>1. PICK loc : Frame(q, loc)
        BY <2>1, <3>2, Framed DEF RInv
      <4> QED BY <4>1, FrameFacts DEF RInv
    <3> QED BY <3>1, <3>2
  <2>3. Fares(p)
    BY <2>1, <2>2, OwnFares
  <2>4. CASE pc'[p] \in Ended
    BY <2>3, <2>4 DEF Fares
  <2>5. CASE pc'[p] \notin Ended
    BY <2>5 DEF ToldTrue, Ended
  <2> QED BY <2>4, <2>5
<1> QED BY <1>1, <1>2, <1>3, UpdaterInvariant, PTL DEF Spec, ReportIsTrue

=============================================================================
