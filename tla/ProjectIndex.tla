---------------------------- MODULE ProjectIndex ----------------------------
(***************************************************************************)
(* The semantic index: one row per source file with the hash of its        *)
(* content, and the symbols found in it.  "index refresh" rebuilds it from *)
(* a process of its own; the merge queue brings it up to date, path by     *)
(* path, after each commit.  Neither uses a transaction, and the row with  *)
(* the hash goes in before the symbols.                                    *)
(*                                                                         *)
(* A content is a version number, 0 standing for a file that is absent.    *)
(* References, imports and the package graph go the way of the symbols and *)
(* are left out.                                                           *)
(***************************************************************************)
EXTENDS Naturals

CONSTANTS Files, Versions, MaxMerges, MaxRefreshes, MaxIndexCrashes, None

VARIABLES
  tree,     \* the working tree: the content of each file
  table,    \* index_files with its symbols: None or a row
  op,       \* what the merge queue and the refresh command are doing to the index
  applied,  \* the contents the merge queue replaced and may still restore
  suspect,  \* files whose row is excused (see IndexCurrent)
  merges, refreshes, indexCrashes

indexVars == <<tree, table, op, applied, suspect, merges, refreshes, indexCrashes>>
indexCounts == <<merges, refreshes, indexCrashes>>

Writers == {"merge", "refresh"}
NoFile == 0
Present == {f \in Files : tree[f] # NoFile}
Other(w) == CHOOSE o \in Writers : o # w

Rows == [hash : Versions \ {NoFile}, by : Writers, whole : BOOLEAN]
Works == [step : {"walk", "next", "create", "store"}, todo : SUBSET Files,
          file : Files \cup {None}, alone : BOOLEAN]
Outputs == UNION {[changed -> Versions] : changed \in SUBSET Files}

ASSUME IndexAssumption == 1 \in Versions /\ None \notin Rows \cup Works \cup Outputs

Row(content, w) == [hash |-> content, by |-> w, whole |-> FALSE]
Work(step, todo, alone) == [step |-> step, todo |-> todo, file |-> None, alone |-> alone]

IndexInit ==
  /\ tree = [f \in Files |-> 1] /\ table = [f \in Files |-> None]
  /\ op = [w \in Writers |-> None] /\ applied = None
  /\ suspect = Files /\ merges = 0 /\ refreshes = 0 /\ indexCrashes = 0

Quiet(w) == op[Other(w)] = None /\ (w = "refresh" => applied = None)

-----------------------------------------------------------------------------
(* The merge queue applies an output, then commits or restores it. *)

Apply ==
  /\ op["merge"] = None /\ applied = None /\ merges < MaxMerges /\ merges' = merges + 1
  /\ \E changed \in SUBSET Files \ {{}} : \E new \in [changed -> Versions] :
       /\ \A f \in changed : new[f] # tree[f]
       /\ applied' = [f \in changed |-> tree[f]]
       /\ tree' = [f \in Files |-> IF f \in changed THEN new[f] ELSE tree[f]]
  /\ IF op["refresh"] = None THEN UNCHANGED <<op, suspect>>
     ELSE op' = [op EXCEPT !["refresh"].alone = FALSE] /\ suspect' = Files
  /\ UNCHANGED <<table, refreshes, indexCrashes>>

Revert ==
  /\ applied # None /\ applied' = None
  /\ tree' = [f \in Files |-> IF f \in DOMAIN applied THEN applied[f] ELSE tree[f]]
  /\ UNCHANGED <<table, op, suspect, indexCounts>>

CommitApplied ==
  /\ applied # None /\ applied' = None
  /\ op' = [op EXCEPT !["merge"] = Work("next", DOMAIN applied, op["refresh"] = None)]
  /\ suspect' = IF op["refresh"] = None THEN suspect ELSE Files
  /\ UNCHANGED <<tree, table, indexCounts>>

-----------------------------------------------------------------------------
(* Indexer.Index: clear, walk, then every file found. *)

ClearIndex ==
  /\ op["refresh"] = None /\ refreshes < MaxRefreshes /\ refreshes' = refreshes + 1
  /\ table' = [f \in Files |-> None] /\ suspect' = Files
  /\ op' = [op EXCEPT !["refresh"] = Work("walk", {}, Quiet("refresh")),
                      !["merge"] = IF @ = None THEN @ ELSE [@ EXCEPT !.alone = FALSE]]
  /\ UNCHANGED <<tree, applied, merges, indexCrashes>>

Walk ==
  /\ op["refresh"] # None /\ op["refresh"].step = "walk"
  /\ op' = [op EXCEPT !["refresh"].step = "next", !["refresh"].todo = Present]
  /\ suspect' = IF op["refresh"].alone THEN suspect \cap Present ELSE suspect
  /\ UNCHANGED <<tree, table, applied, indexCounts>>

Take(w, f, step) ==
  op' = [op EXCEPT ![w].step = step, ![w].file = f, ![w].todo = @ \ {f}]

At(w, step) == op[w] # None /\ op[w].step = step

RefreshFile(f) ==
  /\ At("refresh", "next") /\ f \in op["refresh"].todo
  /\ Take("refresh", f, "create")
  /\ UNCHANGED <<tree, table, applied, suspect, indexCounts>>

(* Mutant: the old row of a changed file is left to be replaced. *)
DropOldKept(f) == UNCHANGED table

DropOld(f) == table' = [table EXCEPT ![f] = None]

(* Indexer.IndexFiles: a file that is gone loses its row, one with the hash on file is *)
(* skipped, any other loses its row and is indexed again.                              *)
IndexFiles(f) ==
  /\ At("merge", "next") /\ f \in op["merge"].todo
  /\ \/ /\ tree[f] = NoFile
        /\ table' = [table EXCEPT ![f] = None] /\ Take("merge", f, "next")
        /\ suspect' = IF op["merge"].alone THEN suspect \ {f} ELSE suspect
     \/ /\ tree[f] # NoFile /\ table[f] # None /\ table[f].hash = tree[f]
        /\ Take("merge", f, "next") /\ UNCHANGED <<table, suspect>>
     \/ /\ tree[f] # NoFile /\ ~(table[f] # None /\ table[f].hash = tree[f])
        /\ DropOld(f) /\ Take("merge", f, "create") /\ UNCHANGED suspect
  /\ UNCHANGED <<tree, applied, indexCounts>>

(* Indexer.indexFile: the row, unless the path has one or the file is gone again. *)
CreateIndexFile(w) ==
  LET f == op[w].file IN
  /\ At(w, "create")
  /\ IF tree[f] # NoFile /\ table[f] = None
     THEN table' = [table EXCEPT ![f] = Row(tree[f], w)] /\ op' = [op EXCEPT ![w].step = "store"]
     ELSE op' = [op EXCEPT ![w].step = "next"] /\ UNCHANGED table
  /\ UNCHANGED <<tree, applied, suspect, indexCounts>>

(* Its symbols, unless the parser fails or the row was deleted meanwhile. *)
StoreSymbols(w, parsed) ==
  LET f == op[w].file IN
  /\ At(w, "store") /\ op' = [op EXCEPT ![w].step = "next"]
  /\ IF parsed /\ table[f] # None /\ table[f].by = w
     THEN /\ table' = [table EXCEPT ![f].whole = TRUE]
          /\ suspect' = IF op[w].alone THEN suspect \ {f} ELSE suspect
     ELSE suspect' = suspect \cup {f} /\ UNCHANGED table
  /\ UNCHANGED <<tree, applied, indexCounts>>

FinishIndexing(w) ==
  /\ At(w, "next") /\ op[w].todo = {} /\ op' = [op EXCEPT ![w] = None]
  /\ UNCHANGED <<tree, table, applied, suspect, indexCounts>>

(* The process of a writer ends in the middle of its work. *)
DieIndexing(w) ==
  /\ op[w] # None /\ indexCrashes < MaxIndexCrashes /\ indexCrashes' = indexCrashes + 1
  /\ op' = [op EXCEPT ![w] = None]
  /\ suspect' = IF At(w, "walk") THEN Files
                ELSE suspect \cup op[w].todo \cup (IF At(w, "next") THEN {} ELSE {op[w].file})
  /\ UNCHANGED <<tree, table, applied, merges, refreshes>>

IndexNext ==
  \/ Apply \/ Revert \/ CommitApplied \/ ClearIndex \/ Walk
  \/ \E f \in Files : RefreshFile(f) \/ IndexFiles(f)
  \/ \E w \in Writers : CreateIndexFile(w) \/ FinishIndexing(w) \/ DieIndexing(w)
  \/ \E w \in Writers, parsed \in BOOLEAN : StoreSymbols(w, parsed)

IndexSpec == IndexInit /\ [][IndexNext]_indexVars

-----------------------------------------------------------------------------
IndexTypeOK ==
  /\ tree \in [Files -> Versions] /\ table \in [Files -> Rows \cup {None}]
  /\ op \in [Writers -> Works \cup {None}] /\ applied \in Outputs \cup {None}
  /\ suspect \subseteq Files

(* Whenever nobody is at work, the index shows the tree: a file has a row exactly when it *)
(* exists, with its present hash and its symbols, through commits, restored outputs,      *)
(* deletions and rebuilds.  Excused, until the file is indexed again undisturbed, are     *)
(* files never indexed, files that could not be parsed, those a crash left unfinished (a  *)
(* row with the new hash and no symbols is skipped ever after), and everything written    *)
(* while a rebuild overlapped with a merge.                                               *)
IndexCurrent ==
  applied = None /\ (\A w \in Writers : op[w] = None) =>
    \A f \in Files \ suspect :
      IF tree[f] = NoFile THEN table[f] = None
      ELSE table[f] # None /\ table[f].hash = tree[f] /\ table[f].whole
=============================================================================
