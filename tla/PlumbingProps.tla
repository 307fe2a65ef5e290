--------------------------- MODULE PlumbingProps ---------------------------
(***************************************************************************)
(* What scripts that call the plumbing commands rely on.                   *)
(***************************************************************************)
EXTENDS Plumbing

(***************************************************************************)
(* The index and a command's copy of it are sound: there is one entry for  *)
(* a path and a stage, and no registered file is also a directory, in the  *)
(* index or in the work tree.  (Conflict stages may stand beside an entry  *)
(* that --index-info added: git_index_add lets them stay.)                 *)
(***************************************************************************)
SoundIndex(idx) ==
  /\ idx \subseteq Entries
  /\ \A e, f \in idx :
       /\ e.path = f.path /\ e.stage = f.stage => e = f
       /\ e.stage = 0 /\ f.stage = 0 => ~Below(e.path, f.path)
IndexSound ==
  /\ SoundIndex(index) /\ SoundIndex(cmd.idx)
  /\ workdir \in [Paths -> Blobs \cup {Absent}]
  /\ \A p, q \in Paths : IsFile(p) /\ IsFile(q) => ~Below(p, q)
  /\ odb \subseteq Blobs

(***************************************************************************)
(* A command that fails, or crashes in --refresh, has registered and       *)
(* dropped nothing: what it did to the files before the one it failed on   *)
(* was never written.  (--refresh writes at once, but the paths stay.)     *)
(***************************************************************************)
EndsAs(how) == Running /\ ~Running' /\ cmd'.state = how
FailureKeepsPaths ==
  [][(EndsAs("failed") \/ EndsAs("crashed")) /\ ~cmd.stale =>
       PathsOf(index') = PathsOf(cmd.start)]_plumbingVars

(***************************************************************************)
(* --refresh looks up entries that are gone (update-index.c:119), and so   *)
(* crashes, only if the index it loaded had a conflict: an index without   *)
(* one does not shrink on the way.                                         *)
(***************************************************************************)
CrashNeedsConflict ==
  [][EndsAs("crashed") => \E e \in cmd.start : e.stage # 0]_plumbingVars

(***************************************************************************)
(* A command that succeeds has registered the content of every file it was *)
(* given and dropped every one that is gone, unless a file named later     *)
(* took its place.  This also holds when another command wrote the index   *)
(* meanwhile: that command's work is what is lost.                         *)
(***************************************************************************)
SuccessRegisters ==
  [][EndsAs("done") /\ cmd.lines = <<>> =>
       \A i \in DOMAIN cmd.named :
         LET p == cmd.named[i]
         IN  (\A j \in (i + 1)..Len(cmd.named) : ~InTheWay(p, cmd.named[j])) =>
               IF IsFile(p) THEN Entry(p, 0, workdir[p]) \in index'
               ELSE ~Registered(index', p)]_plumbingVars

(***************************************************************************)
(* Without --replace no path goes that was not named on the command line,  *)
(* whatever files and directories have changed places in the work tree.    *)
(***************************************************************************)
UnnamedKept ==
  [][EndsAs("done") /\ "replace" \notin cmd.opts /\ "info" \notin cmd.opts =>
       PathsOf(cmd.start) \ Range(cmd.named) \subseteq PathsOf(index')
    ]_plumbingVars

(***************************************************************************)
(* A listing of the index or of a tree, piped into update-index            *)
(* --index-info, registers the paths it lists if they are Plain: those     *)
(* that need no quotation marks, start with no blank and fit the buffer of *)
(* ls-tree.  The exception is what the code makes one: the line ls-files   *)
(* prints for a path of one character is as short as the lines that are    *)
(* passed over.  Other paths do not come back: what is registered is what  *)
(* was printed for them, quotation marks and escapes included.             *)
(***************************************************************************)
Plain(line) ==
  /\ Range(line.path) \cap DOMAIN Escapes = {} /\ Head(line.path) # " "
  /\ line.layout = "tree" => Len(line.path) <= NameRoom
Short(line) == line.layout = "stage" /\ Len(line.text) <= 1
Registering(line) == IF Plain(line) THEN line.path ELSE NameIn(line.text)
ListingReadsBack ==
  [][EndsAs("done") /\ "info" \in cmd.opts =>
       /\ \A i \in DOMAIN cmd.listed :
            LET line == cmd.listed[i]
            IN  \/ Short(line) \/ line.blob = NoId \/ Registering(line) = <<>>
                \/ \E j \in DOMAIN cmd.listed \ {i} :
                     InTheWay(Registering(line), Registering(cmd.listed[j]))
                \/ Entry(Registering(line), 0, line.blob) \in index'
       /\ PathsOf(index') \subseteq
            PathsOf(cmd.start) \cup {Registering(l) : l \in Range(cmd.listed)}]_plumbingVars

(***************************************************************************)
(* A tree that was verified names stored blobs only, and the tree written  *)
(* for a directory holds what the index has below it, provided that the    *)
(* prefix is given without a slash at its end and no other name starts     *)
(* alike: else the code cuts off a character too many.                     *)
(***************************************************************************)
Alike(prefix) == {e \in index : StartsWith(e.path, prefix) /\ ~Below(e.path, prefix)}
TreesWritten ==
  out.kind = "tree" =>
    /\ out.verified => \A e \in out.tree : e.blob \in odb
    /\ out.prefix # <<>> /\ Last(out.prefix) # "/" /\ Alike(out.prefix) = {} =>
         {[path |-> out.prefix \o <<"/">> \o e.path, blob |-> e.blob] : e \in out.tree}
           = {e \in TreeOf(index) : Below(e.path, out.prefix)}

(***************************************************************************)
(* A commit made by commit-tree has the given parents, each of them once.  *)
(***************************************************************************)
ParentsKept ==
  out.kind = "commit" =>
    /\ Range(out.parents) = Range(out.given)
    /\ IsInjective(out.parents)
=============================================================================
