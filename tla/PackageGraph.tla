---------------------------- MODULE PackageGraph ----------------------------
(***************************************************************************)
(* The package graph and the implementations of the semantic index, which  *)
(* task specifications and index queries read.  "index refresh" derives    *)
(* both after it has indexed the files, in a process of its own; the merge *)
(* queue, which indexes the files of a commit, derives neither again.      *)
(*                                                                         *)
(* A content lists its imports, the methods its interface wants and those  *)
(* its type has; an interface goes by the name of its file.  The steps of  *)
(* one file's indexing are those of ProjectIndex.                          *)
(***************************************************************************)
EXTENDS Naturals, FiniteSets

CONSTANTS
  GoFiles, Dir, TopDir,  \* files, the package of each, the package at the top of the module
  Contents,          \* contents: [imports, wants, has]; an import is <<form, package>>
  GoMod,             \* go.mod names the module
  NoRow,             \* no file, no row
  MaxChanges, MaxRebuilds  \* bounds

(* What the constants are. *)
ASSUME GraphAssumption == IsFiniteSet(GoFiles)

VARIABLES
  source,            \* the working tree: NoRow or the content of each file
  facts,             \* index_files, _imports, _symbols: NoRow or the content that was indexed
  implements,        \* index_references of usage "implementation": file |-> interfaces
  packages, edges,   \* index_packages, index_package_deps
  rebuild,           \* what the refresh command is doing
  stale,             \* history: files changed since the last rebuild began
  changes, rebuilds

graphVars == <<source, facts, implements, packages, edges, rebuild, stale, changes, rebuilds>>
graphRows == <<packages, edges>>
graphCounts == <<changes, rebuilds>>

Packages == {Dir[f] : f \in GoFiles}
Resting == [step |-> "rest", found |-> {}, todo |-> {}]

GraphTypeOK ==
  /\ \A f \in GoFiles : {source[f], facts[f]} \subseteq Contents \cup {NoRow}
  /\ implements \in [GoFiles -> SUBSET GoFiles] /\ stale \subseteq GoFiles
  /\ packages \subseteq Packages /\ edges \subseteq packages \X packages
  /\ rebuild.step \in {"rest", "walk", "files", "packages", "edges"}
  /\ rebuild.todo \subseteq rebuild.found /\ rebuild.found \subseteq GoFiles

GraphInit ==
  /\ source \in [GoFiles -> Contents \cup {NoRow}]
  /\ facts = [f \in GoFiles |-> NoRow] /\ implements = [f \in GoFiles |-> {}]
  /\ packages = {} /\ edges = {} /\ rebuild = Resting
  /\ stale = GoFiles /\ changes = 0 /\ rebuilds = 0

Rebuild(step, todo) == rebuild' = [rebuild EXCEPT !.step = step, !.todo = todo]

-----------------------------------------------------------------------------
(* A commit of the merge queue: the row of a file goes, with all that       *)
(* refers to it, and comes back with the new content.                       *)
CommitFile(f) ==
  /\ changes < MaxChanges /\ changes' = changes + 1
  /\ \E new \in Contents \cup {NoRow} :
       /\ new # source[f]
       /\ source' = [source EXCEPT ![f] = new]
       /\ facts' = [facts EXCEPT ![f] = new]
  /\ implements' = [implements EXCEPT ![f] = {}]
  /\ stale' = stale \cup {f}
  /\ UNCHANGED <<graphRows, rebuild, rebuilds>>

ClearGraph ==
  /\ rebuild = Resting /\ rebuilds < MaxRebuilds /\ rebuilds' = rebuilds + 1
  /\ facts' = [f \in GoFiles |-> NoRow] /\ implements' = [f \in GoFiles |-> {}]
  /\ packages' = {} /\ edges' = {} /\ stale' = {}
  /\ Rebuild("walk", {})
  /\ UNCHANGED <<source, changes>>

WalkTree ==
  /\ rebuild.step = "walk"
  /\ LET found == {f \in GoFiles : source[f] # NoRow}
     IN  rebuild' = [step |-> "files", found |-> found, todo |-> found]
  /\ UNCHANGED <<source, facts, implements, graphRows, stale, graphCounts>>

(* A path that has a row already is not indexed again. *)
IndexFile(f) ==
  /\ rebuild.step = "files" /\ f \in rebuild.todo
  /\ Rebuild("files", rebuild.todo \ {f})
  /\ facts' = IF facts[f] = NoRow THEN [facts EXCEPT ![f] = source[f]] ELSE facts
  /\ UNCHANGED <<source, implements, graphRows, stale, graphCounts>>

(* An interface is implemented by the types, of any package, that have all *)
(* its methods in their own file; one without methods by none.             *)
Matches(g, f) ==
  /\ facts[f] # NoRow /\ facts[g] # NoRow
  /\ facts[g].wants # {} /\ facts[g].wants \subseteq facts[f].has

detectGoImplementations ==
  /\ rebuild.step = "files" /\ rebuild.todo = {}
  /\ implements' = [f \in GoFiles |-> {g \in GoFiles : Matches(g, f)}]
  /\ Rebuild("packages", {})
  /\ UNCHANGED <<source, facts, graphRows, stale, graphCounts>>

CreateIndexPackages ==
  /\ rebuild.step = "packages" /\ Rebuild("edges", rebuild.found)
  /\ packages' = {Dir[f] : f \in rebuild.found}
  /\ UNCHANGED <<source, facts, implements, edges, stale, graphCounts>>

(* A package is known by its directory, and, but for the one at the top, by *)
(* its full path in the module.                                             *)
Named(import, package) ==
  /\ import[2] = package
  /\ import[1] = "dir" \/ (import[1] = "full" /\ GoMod /\ package # TopDir)

(* Mutant: a package may depend on itself. *)
ImportsAny(f) ==
  {p \in packages : \E import \in facts[f].imports : Named(import, p)}

ImportsOf(f) ==
  {p \in packages \ {Dir[f]} : \E import \in facts[f].imports : Named(import, p)}

AddPackageDeps(f) ==
  /\ rebuild.step = "edges" /\ f \in rebuild.todo
  /\ Rebuild("edges", rebuild.todo \ {f})
  /\ edges' = IF facts[f] = NoRow THEN edges ELSE edges \cup ({Dir[f]} \X ImportsOf(f))
  /\ UNCHANGED <<source, facts, implements, packages, stale, graphCounts>>

EndRebuild ==
  /\ rebuild.step = "edges" /\ rebuild.todo = {} /\ rebuild' = Resting
  /\ UNCHANGED <<source, facts, implements, graphRows, stale, graphCounts>>

(* The refresh command is interrupted or ends in the middle of its work. *)
RebuildDies ==
  /\ rebuild # Resting /\ rebuild' = Resting /\ stale' = GoFiles
  /\ UNCHANGED <<source, facts, implements, graphRows, graphCounts>>

GraphNext ==
  \/ ClearGraph \/ WalkTree \/ detectGoImplementations \/ CreateIndexPackages \/ EndRebuild \/ RebuildDies
  \/ \E f \in GoFiles : CommitFile(f) \/ IndexFile(f) \/ AddPackageDeps(f)

GraphSpec == GraphInit /\ [][GraphNext]_graphVars

-----------------------------------------------------------------------------
(* A module graph asked for from one package: a breadth-first search.      *)
ListPackageDeps(p) == {q \in packages : <<p, q>> \in edges}

Visited(root) ==
  LET after[n \in Nat] ==
        IF n = 0 THEN {root}
        ELSE after[n - 1] \cup UNION {ListPackageDeps(p) : p \in after[n - 1]}
  IN  after[Cardinality(packages)]

ModuleGraphFrom(root) ==
  IF root \notin packages THEN [nodes |-> {}, arrows |-> {}]
  ELSE [nodes |-> Visited(root),
        arrows |-> {e \in edges : e[1] \in Visited(root)}]

-----------------------------------------------------------------------------
Fresh(p) == \A f \in GoFiles : Dir[f] = p => f \notin stale

(* What the files of a package import, by the working tree. *)
Imported(p) ==
  {q \in packages \ {p} : \E f \in GoFiles :
     Dir[f] = p /\ source[f] # NoRow /\ \E i \in source[f].imports : Named(i, q)}

(* After a rebuild, and until one of its files changes, a package has an    *)
(* edge to each package its files import, and to no other, whatever the     *)
(* order of the files and whatever merges came in between; the interfaces a *)
(* type implements are known as long as neither file changed                *)
(* (indexer.go:Index).  A merge leaves the edges and the packages as they   *)
(* were: for the files it changed the graph is that of the last rebuild.    *)
GraphOfRebuild ==
  rebuild = Resting =>
    /\ \A f \in GoFiles \ stale :
         facts[f] = source[f] /\ (source[f] # NoRow => Dir[f] \in packages)
    /\ \A p \in packages : Fresh(p) => ListPackageDeps(p) = Imported(p)
    /\ \A f, g \in GoFiles \ stale : g \in implements[f] <=> Matches(g, f)

(* The module graph of a package is the smallest part of the graph that     *)
(* holds it and all that a package in it depends on (query.go).             *)
GraphReachable ==
  \A root \in packages :
    LET part == ModuleGraphFrom(root)
        closed(S) == root \in S /\ \A e \in edges : e[1] \in S => e[2] \in S
    IN  /\ closed(part.nodes)
        /\ \A S \in SUBSET packages : closed(S) => part.nodes \subseteq S
        /\ part.arrows = {e \in edges : e[1] \in part.nodes}

(* The package graph is the one of the last rebuild. *)
GraphFaithful == GraphOfRebuild /\ GraphReachable
=============================================================================
