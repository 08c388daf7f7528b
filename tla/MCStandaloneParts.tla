------------------------- MODULE MCStandaloneParts -------------------------
(***************************************************************************)
(* Parts that stand on their own: the playback state machine under every   *)
(* order of inputs, the import of a profile by several launches, the       *)
(* channel between running instances and the popup menu.  They share       *)
(* nothing, so one run does for all: `part` says which of them a behaviour *)
(* is about, and the others keep still.                                    *)
(*                                                                         *)
(* Two interchangeable items tell a variant switch (the same id again)     *)
(* from a new item; one scalar field stands for the four that are stored.  *)
(* Two process ids; one file and one directory in each legacy root.        *)
(***************************************************************************)
EXTENDS PlaybackStateMachine, Migrate, InstanceIpc, PopupMenu

CONSTANTS i1, i2
MCItems == {i1, i2}

VARIABLE part

(* What is chosen at the start is chosen for the part in question only.    *)
PartsInit ==
  /\ part \in {"machine", "migrate", "instance", "menu"}
  /\ Init /\ MigrateInit /\ InstanceInit /\ MenuInit
  /\ part # "instance" => ii_unix

PartsNext ==
  \/ part = "machine" /\ Next /\ UNCHANGED <<part, mivars, iivars, pmvars>>
  \/ part = "migrate" /\ MigrateNext /\ UNCHANGED <<part, vars, iivars, pmvars>>
  \/ part = "instance" /\ InstanceNext /\ UNCHANGED <<part, vars, mivars, pmvars>>
  \/ part = "menu" /\ MenuNext /\ UNCHANGED <<part, vars, mivars, iivars>>

partsvars == <<part, vars, mivars, iivars, pmvars>>
PartsSpec == PartsInit /\ [][PartsNext]_partsvars
=============================================================================
