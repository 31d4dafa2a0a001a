---------------------------- MODULE Personalities ----------------------------
(***************************************************************************)
(* The personality files and the registry that serves them                 *)
(* (backend/app/core/personalities/models.py) and their reload             *)
(* (backend/app/api/compat/personalities.py).                              *)
(*                                                                         *)
(* Nothing here awaits, so a load is one step.  It registers the files in  *)
(* the order of their names, as they are by then, stops at the first it    *)
(* cannot parse, and takes nothing out of the registry.                    *)
(***************************************************************************)
EXTENDS Naturals

CONSTANTS
  NumFiles,     \* bound: the files of the directory, in the order of names
  Ids,          \* the ids a file may give
  Definitions,  \* what a file that parses defines: [id, ai, memory]
  Absent,       \* no file there
  Broken,       \* a file that is empty, no mapping or no YAML
  None

Files == 1 .. NumFiles
Directories == [Files -> Definitions \cup {Absent, Broken}]

(* What is assumed of the constants. *)
PersonalitiesConstants ==
  /\ NumFiles \in Nat
  /\ \A d \in Definitions : d.id \in Ids
  /\ {Absent, Broken, None} \cap Definitions = {}

VARIABLE
  registry   \* _personalities: the definition served for each id, or None

Init == registry = [id \in Ids |-> None]

(* load_all raises at the first file it cannot parse. *)
LoadFails(dir) == \E f \in Files : dir[f] = Broken

(* The files it has registered until then that give an id. *)
FilesOf(id, dir) ==
  {f \in Files : /\ \A g \in 1 .. f : dir[g] # Broken
                 /\ dir[f] # Absent /\ dir[f].id = id}

(* The last of them, if any. *)
LastOf(id, dir) == {f \in FilesOf(id, dir) : \A g \in FilesOf(id, dir) : g <= f}

(* A buggy variant: the registry is cleared before the files are read. *)
LoadAfterClear(dir) ==
  registry' = [id \in Ids |-> IF LastOf(id, dir) = {} THEN None
                              ELSE dir[CHOOSE f \in LastOf(id, dir) : TRUE]]

(* load_all: of the files that give an id the last one stands. *)
LoadAll(dir) ==
  registry' = [id \in Ids |-> IF LastOf(id, dir) = {} THEN registry[id]
                              ELSE dir[CHOOSE f \in LastOf(id, dir) : TRUE]]
===============================================================================
