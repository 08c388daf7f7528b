------------------------------ MODULE Migrate ------------------------------
(***************************************************************************)
(* The first-run import of a Jellium Desktop profile                       *)
(* (src/src/paths/src/migrate.rs), as launches of the program run it: each *)
(* root is copied into a staging directory named after the process, and    *)
(* the staging directory is renamed into place.  A launch may crash at any *)
(* step, and the check for an instance already running comes later.        *)
(*                                                                         *)
(* A root is a set of entries; a directory is copied with what it holds.   *)
(* Both legacy roots exist and fit where they are to go.                   *)
(***************************************************************************)
EXTENDS Naturals, FiniteSets

CONSTANTS
  Procs,        \* process ids; an id is free again after its process ends
  Files, Directories,  \* the entries of a legacy root
  MaxLaunches,  \* bound on launches
  MaxRefusals   \* bound on operations the file system refuses

ASSUME BoundsAssumption == MaxLaunches \in Nat /\ MaxRefusals \in Nat

Entries == Files \union Directories
Roots == {"config", "cache"}
(* What a running program writes into a root of its own. *)
Own == "own"
Contents == SUBSET (Entries \union {Own})
Absent == [there |-> FALSE, holds |-> {}]
Holding(entries) == [there |-> TRUE, holds |-> entries]

VARIABLES
  pc, root,        \* each process: program counter, the leg it is in
  stale, todo,     \* staging directories it listed; entries left to copy
  staging,         \* <root>.migrating-<pid>, of each root and process
  dest, imported,  \* the new roots; those a rename has put in place
  points,          \* the paths in mpv.conf: "none", "legacy", "new"
  reported,        \* roots of which an entry was reported as not copied
  overlapped,      \* history: a launch has begun while another process ran
  launches, refusals

local == <<stale, todo>>
history == <<overlapped, launches>>
bounds == <<history, refusals>>
mivars == <<pc, root, local, staging, dest, imported, points, reported, bounds>>

MigrateInit ==
  /\ pc = [p \in Procs |-> "off"] /\ root = [p \in Procs |-> "config"]
  /\ stale = [p \in Procs |-> {}] /\ todo = [p \in Procs |-> {}]
  /\ staging = [r \in Roots |-> [p \in Procs |-> Absent]]
  /\ dest = [r \in Roots |-> Absent] /\ imported = {}
  /\ points = "none" /\ reported = {}
  /\ overlapped = FALSE /\ launches = 0 /\ refusals = 0

At(p, label) == pc[p] = label
Advance(p, label) == pc' = [pc EXCEPT ![p] = label]
Refused == refusals < MaxRefusals /\ refusals' = refusals + 1

(* The next iteration over `legs`; log directories are not imported. *)
NextLeg(p) ==
  IF root[p] = "config"
  THEN /\ Advance(p, "check") /\ root' = [root EXCEPT ![p] = "cache"]
  ELSE /\ Advance(p, "repair") /\ UNCHANGED root
-----------------------------------------------------------------------------
Launch(p) ==
  /\ At(p, "off")
  /\ launches < MaxLaunches
  /\ launches' = launches + 1
  /\ overlapped' = (overlapped \/ \E q \in Procs : ~At(q, "off"))
  /\ Advance(p, "check") /\ root' = [root EXCEPT ![p] = "config"]
  /\ UNCHANGED <<local, staging, dest, imported, points, reported, refusals>>

Skip(p) ==
  /\ At(p, "check") /\ dest[root[p]].there
  /\ NextLeg(p)
  /\ UNCHANGED <<local, staging, dest, imported, points, reported, bounds>>

(* remove_stale_staging lists the directories of every process ...         *)
ListStale(p) ==
  /\ At(p, "check") /\ ~dest[root[p]].there
  /\ stale' = [stale EXCEPT ![p] = {q \in Procs : staging[root[p]][q].there}]
  /\ Advance(p, "clean")
  /\ UNCHANGED <<root, todo, staging, dest, imported, points, reported, bounds>>

(* ... and removes them.  One that is being filled may survive, emptied.   *)
RemoveStale(p, q) ==
  /\ At(p, "clean") /\ q \in stale[p]
  /\ stale' = [stale EXCEPT ![p] = @ \ {q}]
  /\ \/ /\ staging' = [staging EXCEPT ![root[p]][q] = Absent]
        /\ UNCHANGED refusals
     \/ /\ At(q, "copy") /\ root[q] = root[p] /\ staging[root[p]][q].there
        /\ staging' = [staging EXCEPT ![root[p]][q] = Holding({})]
        /\ UNCHANGED refusals
     \/ Refused /\ UNCHANGED staging
  /\ UNCHANGED <<pc, root, todo, dest, imported, points, reported, history>>

Stage_InPlace(p) ==
  /\ At(p, "clean") /\ stale[p] = {}
  /\ staging' = [staging EXCEPT ![root[p]][p] = Holding({})]
  /\ dest' = [dest EXCEPT ![root[p]].there = TRUE]
  /\ todo' = [todo EXCEPT ![p] = Entries]
  /\ Advance(p, "copy")
  /\ UNCHANGED <<root, stale, imported, points, reported, bounds>>

(* `create_private_dir`, which leaves a directory that is there alone.  A  *)
(* failure ends the leg.                                                   *)
Stage(p) ==
  /\ At(p, "clean") /\ stale[p] = {}
  /\ \/ /\ staging' = [staging EXCEPT ![root[p]][p].there = TRUE]
        /\ todo' = [todo EXCEPT ![p] = Entries]
        /\ Advance(p, "copy")
        /\ UNCHANGED <<root, refusals>>
     \/ Refused /\ NextLeg(p) /\ UNCHANGED <<staging, todo>>
  /\ UNCHANGED <<stale, dest, imported, points, reported, history>>

Report_Silent(p) == UNCHANGED reported

(* An entry that cannot be copied is counted and reported. *)
Report(p) == reported' = reported \union {root[p]}

(* One entry of `copy_dir`.  A directory is made with its ancestors; a     *)
(* file needs the staging directory to be there.                           *)
Copy(p, e) ==
  LET mine == staging[root[p]][p]
  IN /\ At(p, "copy") /\ e \in todo[p]
     /\ todo' = [todo EXCEPT ![p] = @ \ {e}]
     /\ \/ /\ mine.there \/ e \in Directories
           /\ staging' = [staging EXCEPT
                            ![root[p]][p] = Holding(mine.holds \union {e})]
           /\ UNCHANGED <<reported, refusals>>
        \/ /\ ~mine.there /\ e \in Files
           /\ Report(p)
           /\ UNCHANGED <<staging, refusals>>
        \/ Refused /\ Report(p) /\ UNCHANGED staging
     /\ UNCHANGED <<pc, root, stale, dest, imported, points, history>>

CanRename_Any(p) == staging[root[p]][p].there

(* A directory can be renamed onto nothing or, on Unix, an empty directory.*)
CanRename(p) == staging[root[p]][p].there /\ dest[root[p]].holds = {}

(* `fs::rename(&staging, new_dir)`.  A failure removes the staging         *)
(* directory and ends the leg: the program starts with a fresh profile.    *)
Rename(p) ==
  /\ At(p, "copy") /\ todo[p] = {}
  /\ staging' = [staging EXCEPT ![root[p]][p] = Absent]
  /\ \/ /\ CanRename(p)
        /\ dest' = [dest EXCEPT ![root[p]] = staging[root[p]][p]]
        /\ imported' = imported \union {root[p]}
        /\ points' = IF root[p] = "config" /\ Directories \subseteq staging["config"][p].holds
                     THEN "legacy" ELSE points
        /\ IF root[p] = "config" THEN Advance(p, "rewrite") /\ UNCHANGED root
           ELSE NextLeg(p)
        /\ UNCHANGED refusals
     \/ /\ ~CanRename(p) \/ dest[root[p]].there
        /\ NextLeg(p)
        /\ UNCHANGED <<dest, imported, points, refusals>>
     \/ Refused /\ NextLeg(p) /\ UNCHANGED <<dest, imported, points>>
  /\ UNCHANGED <<local, reported, history>>

Repoint == points' = IF points = "legacy" THEN "new" ELSE points

(* `rewrite_conf_in_place` *)
Rewrite(p) ==
  /\ At(p, "rewrite")
  /\ \/ Repoint /\ UNCHANGED refusals
     \/ Refused /\ UNCHANGED points
  /\ NextLeg(p)
  /\ UNCHANGED <<local, staging, dest, imported, reported, history>>

Repair(p) ==
  /\ At(p, "repair")
  /\ \/ Repoint /\ UNCHANGED refusals
     \/ Refused /\ UNCHANGED points
  /\ Advance(p, "start")
  /\ UNCHANGED <<root, local, staging, dest, imported, reported, history>>

(* The directory getters create what they return; the program then writes  *)
(* its identity and its settings.                                          *)
CreateRoots(p) ==
  /\ At(p, "start")
  /\ dest' = [r \in Roots |-> [dest[r] EXCEPT !.there = TRUE]]
  /\ Advance(p, "created")
  /\ UNCHANGED <<root, local, staging, imported, points, reported, bounds>>

WriteOwn(p) ==
  /\ At(p, "created")
  /\ dest' = [r \in Roots |-> Holding(dest[r].holds \union {Own})]
  /\ Advance(p, "running")
  /\ UNCHANGED <<root, local, staging, imported, points, reported, bounds>>

(* A crash, a kill, a power loss, or the end of the program. *)
End(p) ==
  /\ ~At(p, "off")
  /\ Advance(p, "off")
  /\ stale' = [stale EXCEPT ![p] = {}] /\ todo' = [todo EXCEPT ![p] = {}]
  /\ UNCHANGED <<root, staging, dest, imported, points, reported, bounds>>

Import(p) ==
  \/ Skip(p) \/ ListStale(p) \/ (\E q \in Procs : RemoveStale(p, q)) \/ Stage(p)
  \/ (\E e \in Entries : Copy(p, e)) \/ Rename(p) \/ Rewrite(p) \/ Repair(p)
  \/ CreateRoots(p) \/ WriteOwn(p)

MigrateNext == \E p \in Procs : Launch(p) \/ Import(p) \/ End(p)

MigrateSpec == MigrateInit /\ [][MigrateNext]_mivars
-----------------------------------------------------------------------------
MigrateTypeOK ==
  /\ pc \in [Procs -> {"off", "check", "clean", "copy", "rewrite", "repair",
                       "start", "created", "running"}]
  /\ root \in [Procs -> Roots]
  /\ stale \in [Procs -> SUBSET Procs] /\ todo \in [Procs -> SUBSET Entries]
  /\ \A r \in Roots :
       /\ dest[r].there \in BOOLEAN /\ dest[r].holds \in Contents
       /\ \A p \in Procs : /\ staging[r][p].there \in BOOLEAN
                           /\ staging[r][p].holds \in SUBSET Entries
  /\ imported \subseteq Roots /\ reported \subseteq Roots
  /\ points \in {"none", "legacy", "new"} /\ overlapped \in BOOLEAN

(* migrate.rs:268-269: "per-entry problems are counted and reported": an   *)
(* imported root that lacks an entry was reported, whatever crashed before.*)
LossIsReported ==
  ~overlapped =>
    \A r \in imported : Entries \subseteq dest[r].holds \/ r \in reported

(* app.rs:664-665 says "no two processes race the import"; two launches do,*)
(* and what one removes of the other's staging directory nobody reports.   *)
LossIsAlwaysReported ==
  \A r \in imported : Entries \subseteq dest[r].holds \/ r \in reported

(* No launch met another, and the file system refused nothing. *)
Undisturbed == ~overlapped /\ refusals = 0
SomeoneRuns == \E p \in Procs : At(p, "running")

(* migrate.rs:209-210, 282-283: "the destination directory's absence is    *)
(* the only signal that the import is still due", and a crash leaves it    *)
(* absent: wherever earlier launches were cut off, one that runs has all   *)
(* of the profile, no path in mpv.conf that leads into the legacy tree,    *)
(* and no copy left beside the new profile.                                *)
ImportedBeforeRunning ==
  Undisturbed /\ SomeoneRuns =>
    /\ imported = Roots /\ points # "legacy"
    /\ \A r \in Roots, p \in Procs : ~staging[r][p].there

(* An import never replaces a profile a program has already written to. *)
OwnDataSurvives ==
  [][\A r \in Roots : Own \in dest[r].holds => Own \in (dest'[r]).holds]_mivars
=============================================================================
