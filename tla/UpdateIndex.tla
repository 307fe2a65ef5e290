---------------------------- MODULE UpdateIndex ----------------------------
(***************************************************************************)
(* update-index: the command loads the index, changes its copy file by     *)
(* file and line by line, and writes it back at the end.  No lock is held  *)
(* in between, so another command may write the index meanwhile.           *)
(***************************************************************************)
EXTENDS Naturals, Sequences, SequencesExt, FiniteSets, Ranking

CONSTANTS
  PathOrder,    \* the paths, as sequences of characters, in index order
  Blobs,        \* contents of files
  Absent,       \* there is no file at the path
  NoId,         \* text that is no id of a blob
  MaxFiles      \* bound: files named on the command line

IsText(t) == t \in Seq(Range(t))
ASSUME UpdateAssumption ==
  /\ IsText(PathOrder) /\ IsInjective(PathOrder)
  /\ \A i \in DOMAIN PathOrder : IsText(PathOrder[i])
  /\ Absent \notin Blobs /\ NoId \notin Blobs
  /\ MaxFiles \in Nat

VARIABLES
  index,        \* .git/index: a set of entries
  workdir,      \* the files of the work tree
  odb,          \* the blobs of the object database
  cmd           \* the update-index under way, or how the last one ended

updateVars == <<index, workdir, odb, cmd>>

Paths == Range(PathOrder)
Entry(p, stage, b) == [path |-> p, stage |-> stage, blob |-> b]
Entries == [path : Paths, stage : 0..3, blob : Blobs]
PathsOf(idx) == {e.path : e \in idx}

(***************************************************************************)
(* cmd.idx is the command's copy of the index.  named, listed, start and   *)
(* stale are there for the properties: the files and lines given, the      *)
(* index that was loaded, and whether another command wrote it since.      *)
(***************************************************************************)
Ended(how) == [state |-> how, opts |-> {}, files |-> <<>>, lines |-> <<>>,
               idx |-> {}, named |-> <<>>, listed |-> <<>>, start |-> {},
               stale |-> FALSE]
Running == cmd.state \in {"refresh", "files"}

\* prefixcmp, and the slash behind the prefix.
StartsWith(p, prefix) ==
  Len(prefix) <= Len(p) /\ SubSeq(p, 1, Len(prefix)) = prefix
Below(p, dir) == StartsWith(p, dir) /\ Len(p) > Len(dir) /\ p[Len(dir) + 1] = "/"

IsFile(p) == workdir[p] # Absent
IsDirectory(p) == \E q \in Paths : Below(q, p) /\ IsFile(q)
-----------------------------------------------------------------------------
InTheWay(p, q) == p = q \/ Below(p, q) \/ Below(q, p)

\* git_index_add: takes the place of what is in its way.
Insert(idx, e) ==
  {f \in idx : f.stage # e.stage \/ ~InTheWay(f.path, e.path)} \cup {e}

\* git_index_add_bypath: a conflict at the path counts as resolved.
AddByPath(idx, p) ==
  {f \in Insert(idx, Entry(p, 0, workdir[p])) : f.path = p => f.stage = 0}

Registered(idx, p) == \E e \in idx : e.path = p /\ e.stage = 0
Removed(idx, p) == {e \in idx : e.path # p \/ e.stage # 0}
DirectoryRemoved(idx, p) == {e \in idx : ~Below(e.path, p) \/ e.stage # 0}

\* git_index_get_byindex: entries by path, then by stage.
Place(e) ==
  4 * (CHOOSE i \in DOMAIN PathOrder : PathOrder[i] = e.path) + e.stage
EntryAt(idx, i) ==
  CHOOSE e \in idx : Place(e) = Kth({Place(f) : f \in idx}, i)
-----------------------------------------------------------------------------
\* does_path_overlap_with_a_directory_in_index
OverlapsDirectory(idx, p) ==
  ~Registered(idx, p) /\ \E e \in idx : Below(e.path, p)

\* find_index_entry_that_is_a_prefix_of_path finds the first of these.
Extended(idx, p) == {e \in idx : Below(p, e.path)}
FirstExtended(idx, p) ==
  CHOOSE e \in Extended(idx, p) :
    \A f \in Extended(idx, p) : Place(e) <= Place(f)

Begin(opts, files, lines) ==
  /\ ~Running
  /\ cmd' = [Ended(IF "refresh" \in opts THEN "refresh" ELSE "files") EXCEPT
               !.opts = opts, !.files = files, !.lines = lines,
               !.idx = index, !.named = files, !.listed = lines,
               !.start = index]
  /\ UNCHANGED <<index, workdir, odb>>

(***************************************************************************)
(* --refresh adds every entry's file and ignores failures, but counts the  *)
(* entries once: when a conflict shrinks to one entry, the end of the loop *)
(* looks up entries that are gone.  The index is written at once.          *)
(***************************************************************************)
Visit(w, i) ==
  LET p == EntryAt(w.idx, i).path
  IN  IF ~w.alive \/ i > Cardinality(w.idx) THEN [w EXCEPT !.alive = FALSE]
      ELSE IF IsFile(p) THEN [w EXCEPT !.idx = AddByPath(w.idx, p)]
      ELSE w
\* Faulty: the entries are counted from 0 to their number.
RefreshTooFar ==
  LET n == Cardinality(cmd.idx) + 1
      walked[i \in 0..n] ==
        IF i = 0 THEN [alive |-> TRUE, idx |-> cmd.idx]
        ELSE Visit(walked[i - 1], i)
  IN  walked[n]

RefreshWalk ==
  LET n == Cardinality(cmd.idx)
      walked[i \in 0..n] ==
        IF i = 0 THEN [alive |-> TRUE, idx |-> cmd.idx]
        ELSE Visit(walked[i - 1], i)
  IN  walked[n]

Refresh ==
  /\ cmd.state = "refresh"
  /\ odb' = odb \cup {workdir[p] : p \in {q \in PathsOf(cmd.idx) : IsFile(q)}}
  /\ IF RefreshWalk.alive
       THEN /\ index' = RefreshWalk.idx
            /\ cmd' = [cmd EXCEPT !.state = "files", !.idx = RefreshWalk.idx]
       ELSE cmd' = Ended("crashed") /\ UNCHANGED index
  /\ UNCHANGED workdir

\* Faulty: files in the way of the path are never looked for.
RefusedUnlessBelow(p) ==
  \/ "add" \notin cmd.opts /\ ~Registered(cmd.idx, p)
  \/ "remove" \notin cmd.opts /\ ~IsFile(p) /\ ~IsDirectory(p)
  \/ /\ "replace" \notin cmd.opts
     /\ IsFile(p) /\ OverlapsDirectory(cmd.idx, p)

\* The checks before a file is touched.
Refused(p) ==
  \/ "add" \notin cmd.opts /\ ~Registered(cmd.idx, p)
  \/ "remove" \notin cmd.opts /\ ~IsFile(p) /\ ~IsDirectory(p)
  \/ /\ "replace" \notin cmd.opts
     /\ \/ IsFile(p) /\ OverlapsDirectory(cmd.idx, p)
        \/ (IsFile(p) \/ IsDirectory(p)) /\ Extended(cmd.idx, p) # {}

\* libgit2 cannot add a directory, nor remove an entry it does not have: the
\* file that p extends may have conflict stages only.
Impossible(p) ==
  IF IsFile(p)
    THEN /\ Extended(cmd.idx, p) # {}
         /\ ~Registered(cmd.idx, FirstExtended(cmd.idx, p).path)
  ELSE IsDirectory(p) \/ ~Registered(cmd.idx, p)

MadeWay(p) ==
  LET flat == IF OverlapsDirectory(cmd.idx, p)
                THEN DirectoryRemoved(cmd.idx, p) ELSE cmd.idx
  IN  IF Extended(flat, p) = {} THEN flat
      ELSE Removed(flat, FirstExtended(flat, p).path)

\* Faulty: a file that is gone is passed over.
FilePassed ==
  LET p == Head(cmd.files)
  IN  /\ cmd.state = "files" /\ cmd.files # <<>>
      /\ cmd' = IF Refused(p) \/ (IsFile(p) /\ Impossible(p)) THEN Ended("failed")
                ELSE [cmd EXCEPT !.files = Tail(@),
                        !.idx = IF IsFile(p) THEN AddByPath(MadeWay(p), p) ELSE @]
      /\ odb' = odb \cup ({workdir[p]} \ {Absent})
      /\ UNCHANGED <<index, workdir>>

\* Faulty: each file is written to the index at once.
FileAtOnce ==
  LET p == Head(cmd.files)
  IN  /\ cmd.state = "files" /\ cmd.files # <<>>
      /\ IF Refused(p) \/ Impossible(p)
           THEN cmd' = Ended("failed") /\ UNCHANGED <<index, odb>>
           ELSE /\ index' = IF IsFile(p) THEN AddByPath(MadeWay(p), p)
                            ELSE Removed(cmd.idx, p)
                /\ cmd' = [cmd EXCEPT !.files = Tail(@), !.idx = index']
                /\ odb' = odb \cup ({workdir[p]} \ {Absent})
      /\ UNCHANGED workdir

File ==
  LET p == Head(cmd.files)
  IN  /\ cmd.state = "files" /\ cmd.files # <<>>
      /\ IF Refused(p) \/ Impossible(p)
           THEN cmd' = Ended("failed") /\ UNCHANGED odb
           ELSE /\ cmd' = [cmd EXCEPT
                             !.files = Tail(@),
                             !.idx = IF IsFile(p) THEN AddByPath(MadeWay(p), p)
                                     ELSE Removed(@, p)]
                /\ odb' = odb \cup ({workdir[p]} \ {Absent})
      /\ UNCHANGED <<index, workdir>>

\* Faulty: the limit fits the longer of the two formats.
TooShortForTree(line) == line.layout = "stage" /\ Len(line.text) <= 3

(***************************************************************************)
(* --index-info: a line as ls-files --stage or ls-tree prints it, with the *)
(* text that follows the tab.  Lines of up to 52 characters are passed     *)
(* over, which is what ls-files prints for a path of one character; so are *)
(* lines without an id, and those without a name.  What follows the blanks *)
(* is taken for the path as it is: what was quoted stays so.  The stage is *)
(* not looked at.                                                          *)
(***************************************************************************)
TooShort(line) == line.layout = "stage" /\ Len(line.text) <= 1
NameIn(text) ==
  LET signs == {i \in DOMAIN text : text[i] # " "}
  IN  IF signs = {} THEN <<>> ELSE SubSeq(text, Kth(signs, 1), Len(text))

\* Faulty: a line is taken although its id could not be read.
IdUnchecked(line) == TooShort(line) \/ NameIn(line.text) = <<>>

PassedOver(line) ==
  TooShort(line) \/ line.blob = NoId \/ NameIn(line.text) = <<>>

Line ==
  LET line == Head(cmd.lines)
  IN  /\ cmd.state = "files" /\ cmd.files = <<>>
      /\ "info" \in cmd.opts /\ cmd.lines # <<>>
      /\ cmd' = [cmd EXCEPT !.lines = Tail(@),
                   !.idx = IF PassedOver(line) THEN @
                           ELSE Insert(@, Entry(NameIn(line.text), 0, line.blob))]
      /\ UNCHANGED <<index, workdir, odb>>

Write ==
  /\ cmd.state = "files" /\ cmd.files = <<>>
  /\ "info" \in cmd.opts => cmd.lines = <<>>
  /\ index' = cmd.idx
  /\ cmd' = Ended("done")
  /\ UNCHANGED <<workdir, odb>>

UpdateStep == Refresh \/ File \/ Line \/ Write
=============================================================================
