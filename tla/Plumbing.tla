------------------------------ MODULE Plumbing ------------------------------
(***************************************************************************)
(* The commands that turn work tree, index, trees and commits into one     *)
(* another: update-index, ls-files --stage and ls-tree -r (whose output    *)
(* update-index --index-info reads), read-tree, write-tree, checkout-index *)
(* and commit-tree.  All but update-index are one step here.  A read-tree  *)
(* may come while an update-index is under way; commands that only look    *)
(* have their turn before or after it.                                     *)
(***************************************************************************)
EXTENDS UpdateIndex

CONSTANTS
  StoredTrees,  \* trees of the object database: sets of paths with blobs
  UserPaths,    \* bound: files the user saves and names
  Escapes,      \* the characters sq_lookup has an escape for, with the escapes
  NameRoom,     \* 1023: room for a name in the buffer of ls-tree
  ForeignLines, \* index-info input that was not listed here
  Commits,      \* commits of the object database
  NoSuchCommit, \* an id that names none
  OptionSets,   \* options given to update-index together
  TreePrefixes, \* prefixes given to write-tree
  ConflictSides,\* stages a conflict may have: ours, and one or both others
  MaxParents    \* bound: -p options of commit-tree

(***************************************************************************)
(* write_name_quoted: a name with a character that needs it is printed     *)
(* between quotation marks, with escapes.  ls-tree cuts it off before.     *)
(***************************************************************************)
Escaped(c) == IF c \in DOMAIN Escapes THEN Escapes[c] ELSE <<c>>
Quoted(name) ==
  IF Range(name) \cap DOMAIN Escapes = {} THEN name
  ELSE <<"\"">> \o FlattenSeq([i \in DOMAIN name |-> Escaped(name[i])]) \o <<"\"">>
Cut(name) == SubSeq(name, 1, IF Len(name) < NameRoom THEN Len(name) ELSE NameRoom)

\* A line of a listing; path is for the properties: what it was printed for.
LineOf(layout, path, text, blob) ==
  [layout |-> layout, path |-> path, text |-> text, blob |-> blob]
\* Bound: the text of a line names one of the paths.
Readable(line) == PassedOver(line) \/ NameIn(line.text) \in Paths
Foreign(line) ==
  /\ line.layout \in {"stage", "tree"} /\ line.blob \in Blobs \cup {NoId}
  /\ line = LineOf(line.layout, line.path, Quoted(line.path), line.blob)
  /\ Readable(line)

(***************************************************************************)
(* A tree has one blob or subtree of a name; --index-info itself is given  *)
(* without files here.                                                     *)
(***************************************************************************)
ASSUME PlumbingAssumption ==
  /\ \A t \in StoredTrees :
       /\ t \subseteq [path : Paths, blob : Blobs]
       /\ \A e, f \in t : /\ e.path = f.path => e = f
                         /\ ~Below(e.path, f.path)
  /\ UserPaths \subseteq Paths
  /\ NameRoom \in Nat
  /\ \A lines \in ForeignLines :
       IsText(lines) /\ \A line \in Range(lines) : IsText(line.path) /\ Foreign(line)
  /\ NoSuchCommit \notin Commits
  /\ \A opts \in OptionSets : opts \subseteq {"refresh", "add", "remove", "replace"}
  /\ \A prefix \in TreePrefixes : IsText(prefix)
  /\ \A sides \in ConflictSides : sides \subseteq 1..3 /\ 2 \in sides /\ sides # {2}
  /\ MaxParents \in Nat

VARIABLE out    \* what the last command printed, or Nothing

plumbingVars == <<updateVars, out>>

Nothing == [kind |-> "nothing"]
TreeOf(idx) == {[path |-> e.path, blob |-> e.blob] : e \in idx}
IndexOf(tree) == {Entry(e.path, 0, e.blob) : e \in tree}
Written == cmd' = [cmd EXCEPT !.stale = Running]
-----------------------------------------------------------------------------
\* ls-files --stage, and ls-tree -r of a tree.
ListFiles ==
  /\ ~Running
  /\ out' = [kind |-> "listing",
             lines |-> [i \in 1..Cardinality(index) |->
               LET e == EntryAt(index, i)
               IN  LineOf("stage", e.path, Quoted(e.path), e.blob)]]
  /\ UNCHANGED updateVars

ListTree(tree) ==
  LET idx == IndexOf(tree)
  IN  /\ ~Running
      /\ out' = [kind |-> "listing",
                 lines |-> [i \in 1..Cardinality(idx) |->
                   LET e == EntryAt(idx, i)
                   IN  LineOf("tree", e.path, Quoted(Cut(e.path)), e.blob)]]
      /\ UNCHANGED updateVars

\* read-tree clears the index it loaded, so what was there does not matter.
\* A listing made before may have been kept in a file.
ReadTree(tree) ==
  /\ index' = IndexOf(tree)
  /\ Written
  /\ out' = IF out.kind = "listing" THEN out ELSE Nothing
  /\ UNCHANGED <<workdir, odb>>

(***************************************************************************)
(* checkout-index --all, forced and removing what is untracked.            *)
(***************************************************************************)
CheckoutIndex ==
  /\ ~Running
  /\ \A e \in index : e.stage = 0 /\ e.blob \in odb
  /\ workdir' = [p \in Paths |->
                   IF Registered(index, p)
                     THEN (CHOOSE e \in index : e.path = p).blob ELSE Absent]
  /\ out' = Nothing
  /\ UNCHANGED <<index, odb, cmd>>
-----------------------------------------------------------------------------
\* Faulty: the slash behind the prefix becomes part of the path.
RerootedAtSlash(prefix, e) ==
  [e EXCEPT !.path = SubSeq(@, Len(prefix) + 1, Len(@))]

(***************************************************************************)
(* write-tree: with a prefix it works on a new index of the entries that   *)
(* start with it.  prefix_doesnt_end_with_slash looks behind the end of    *)
(* the prefix and is always 1: one more character is cut off.  An entry    *)
(* that is just the prefix is cut behind its end; what is read there is    *)
(* taken to be empty, which libgit2 refuses as a path, as it does one with *)
(* a slash in front.  An entry is replaced by a later one in its way, but  *)
(* the last one of each stage stays.                                       *)
(***************************************************************************)
Rerooted(prefix, e) ==
  [e EXCEPT !.path = SubSeq(@, Len(prefix) + 2, Len(@))]
InTree(prefix) == {e \in index : StartsWith(e.path, prefix)}
NotRerooted(prefix, e) ==
  LET p == Rerooted(prefix, e).path IN p = <<>> \/ Head(p) = "/"
Replaced(prefix, e) ==
  \E f \in InTree(prefix) :
    /\ f.stage = e.stage /\ Place(f) > Place(e)
    /\ InTheWay(Rerooted(prefix, f).path, Rerooted(prefix, e).path)
TreeIndex(prefix) ==
  IF prefix = <<>> THEN index
  ELSE {Rerooted(prefix, e) : e \in {f \in InTree(prefix) : ~Replaced(prefix, f)}}

\* Faulty: the odb is asked about nothing.
MissingNever(idx) == {}

Missing(idx) == {e \in idx : e.blob \notin odb}

WriteTree(prefix, missing_ok) ==
  LET idx == TreeIndex(prefix)
      fails == \/ prefix # <<>> /\ \E e \in InTree(prefix) : NotRerooted(prefix, e)
               \/ ~missing_ok /\ Missing(idx) # {}
               \/ \E e \in InTree(prefix) : e.stage # 0
  IN  /\ ~Running
      /\ out' = IF fails THEN Nothing
                ELSE [kind |-> "tree", prefix |-> prefix, tree |-> TreeOf(idx),
                      verified |-> ~missing_ok]
      /\ UNCHANGED updateVars
-----------------------------------------------------------------------------
(***************************************************************************)
(* commit-tree.  All parents are looked up, then duplicates are removed:   *)
(* a parent that shows up again later goes, and the loop that compares it  *)
(* with the rest runs on, reading the id of a parent that is gone.  When a *)
(* look-up fails, slots of the array nobody has written yet are freed.     *)
(***************************************************************************)
Again(ps, i) == {j \in (i + 1)..Len(ps) : ps[j] = ps[i]}
ReadsFreed(ps) == \E i \in DOMAIN ps : \E j \in Again(ps, i) : j < Len(ps)

\* Faulty: a parent is compared with its neighbour only.
SanitizedNeighbours(ps) ==
  LET kept == {i \in DOMAIN ps : i = Len(ps) \/ ps[i + 1] # ps[i]}
  IN  [k \in 1..Cardinality(kept) |-> ps[Kth(kept, k)]]

Sanitized(ps) ==
  LET kept == {i \in DOMAIN ps : Again(ps, i) = {}}
  IN  [k \in 1..Cardinality(kept) |-> ps[Kth(kept, k)]]

CommitTree(ps) ==
  /\ ~Running
  /\ out' \in IF NoSuchCommit \in Range(ps)
                THEN {Nothing, [kind |-> "crash"]}
              ELSE IF ReadsFreed(ps) THEN {[kind |-> "crash"]}
              ELSE {[kind |-> "commit", given |-> ps, parents |-> Sanitized(ps)]}
  /\ UNCHANGED updateVars
-----------------------------------------------------------------------------
\* The user's work in between.
SaveFile(p, b) ==
  /\ ~Running
  /\ ~IsDirectory(p) /\ \A q \in Paths : Below(p, q) => ~IsFile(q)
  /\ workdir' = [workdir EXCEPT ![p] = b]
  /\ out' = Nothing
  /\ UNCHANGED <<index, odb, cmd>>

RemoveFile(p) ==
  /\ ~Running /\ IsFile(p)
  /\ workdir' = [workdir EXCEPT ![p] = Absent]
  /\ out' = Nothing
  /\ UNCHANGED <<index, odb, cmd>>

\* A merge, which wants an index without conflicts, leaves one.  There is no
\* side of those that deleted the file, or of a base that never had it.
Conflict(p, b, sides) ==
  /\ ~Running /\ IsFile(p)
  /\ Registered(index, p) /\ \A e \in index : e.stage = 0
  /\ b # workdir[p] /\ {b, workdir[p]} \subseteq odb
  /\ index' = Removed(index, p) \cup
                {Entry(p, s, IF s = 2 THEN workdir[p] ELSE b) : s \in sides}
  /\ out' = Nothing
  /\ UNCHANGED <<workdir, odb, cmd>>

FileLists == UNION {[1..n -> UserPaths] : n \in 0..MaxFiles}
Parents == UNION {[1..n -> Commits \cup {NoSuchCommit}] : n \in 0..MaxParents}

PlumbingInit ==
  /\ index = {}
  /\ workdir = [p \in Paths |-> Absent]
  /\ odb = UNION {{e.blob : e \in t} : t \in StoredTrees}
  /\ cmd = Ended("done")
  /\ out = Nothing

IndexStep ==
  \/ /\ \/ \E opts \in OptionSets, files \in FileLists : Begin(opts, files, <<>>)
        \/ /\ out.kind = "listing" /\ \A line \in Range(out.lines) : Readable(line)
           /\ Begin({"info"}, <<>>, out.lines)
        \/ \E lines \in ForeignLines : Begin({"info"}, <<>>, lines)
        \/ UpdateStep
     /\ out' = Nothing
  \/ ListFiles
  \/ \E t \in StoredTrees : ListTree(t) \/ ReadTree(t)
  \/ CheckoutIndex
  \/ \E prefix \in TreePrefixes, missing_ok \in BOOLEAN : WriteTree(prefix, missing_ok)
  \/ \E p \in UserPaths, b \in Blobs :
       SaveFile(p, b) \/ \E sides \in ConflictSides : Conflict(p, b, sides)
  \/ \E p \in UserPaths : RemoveFile(p)

CommitStep == \E ps \in Parents : CommitTree(ps)

PlumbingNext == IndexStep \/ CommitStep

PlumbingSpec == PlumbingInit /\ [][PlumbingNext]_plumbingVars
=============================================================================
