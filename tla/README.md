# A verification development of simplegit

simplegit (`sgit`) is a git command line client for systems on which git itself
does not run. It is one C program on top of libgit2: `main` opens the repository
in the current directory, looks up the handler of the command and runs it. The
program has no memory of its own between two invocations and takes no lock of
its own. All of its state is the repository: the object database, the
references, HEAD, the index, the work tree, `MERGE_HEAD`, the stash list and
`.git/rebase-merge`. Everything two commands have to tell each other goes
through these, whether they run one after the other or at the same time.

That decides what is worth verifying here: what long sequences of commands do to
a repository, what happens when a command stops half way or two of them
interleave, and the few algorithms the program has of its own.

## Inventory

| part | source (below `src/src`) | state it changes | operations | correct when |
|---|---|---|---|---|
| commit | `builtin/commit.c`, `common/git-support.c` | objects, HEAD's reference | create, `--amend`, `--allow-empty` | no merge is forgotten, no commit of another process lost, an empty commit needs its flag |
| merge | `builtin/merge.c` | objects, references, index, work tree, `MERGE_HEAD` | fast-forward, three-way, `--ff-only`, `--no-ff`, `--no-commit` | the branch keeps its history, uncommitted work survives, conflicts hold the branch |
| cherry-pick | `builtin/cherry-pick.c` | index, work tree | apply one commit | as merge |
| branch | `builtin/branch.c` | references | create, list, upstream | an existing branch is never overwritten |
| checkout | `builtin/checkout.c` | HEAD, references, index, work tree | branch, tracking branch, unborn, detached, path | HEAD, index and work tree agree |
| reset | `builtin/reset.c` | references, index, work tree, `MERGE_HEAD` | soft, mixed, hard, paths | the only command that takes history off a branch |
| stash | `builtin/stash.c` | stash list, index, work tree | save, apply, pop, drop, list | no work lost on pop |
| add, rm | `builtin/add.c`, `builtin/rm.c` | index | stage, unstage | only the named paths change |
| init | `builtin/init.c` | all | create | never touches an existing repository |
| fetch | `builtin/fetch.c` | objects, remote-tracking branches | download, update tips | local branches stay where they are |
| rebase | `builtin/rebase.c` | HEAD, objects, index, work tree, rebase state | start, `--continue`, `--abort` | the branch moves at the end or not at all, every patch is applied, the loop ends |
| graph renderer | `graph.c` | columns, cells (in memory) | one row per commit | a lane for every commit still to come, one node per row |
| dispatch | `git.c`, `cmds.c` | none | look up and run a handler | |
| status | `builtin/status.c` | none | report | what it reports is so |
| update-index | `builtin/update-index.c` | index | add, remove, replace, refresh, `--index-info` | a file and a directory of the same name never coexist; a failure leaves the index as it was |
| commit-tree, write-tree, read-tree, checkout-index | `builtin/*.c` | objects, index, work tree | | no duplicate parents, paths re-rooted correctly, no missing blobs |
| ls-files, ls-tree | `builtin/ls-*.c` | none | list index or tree | what they print can be read back by `--index-info`, as far as it can be |
| pull, push, clone | `builtin/*.c` | as fetch and merge; the server | | nothing dangles after a failure, nobody's commits are pushed away |
| remote | `builtin/remote.c` | remotes, tracking branches | add, remove, rename, set-url | tracking branches belong to a remote |
| tag, config, submodule | `builtin/*.c` | tags, configuration | | |
| option parsers | `builtin/cli/*_cli.c` (generated) | `struct cli` | tokenise, validate | what is accepted is one of the usages, and every usage is |
| strbuf | `common/utils/strbuf.c` | block, length, capacity | add, splice, trim, split, read, ... | length below capacity, terminated, the text is the one promised |
| quoting | `common/quote.c` | a strbuf | C style, shell, relative paths | what was quoted reads back; errors leave nothing behind |
| dates, signatures | `common/utils/date.c`, `builtin/common.c` | fields found so far, zone | guess token by token, format | a date is read as the one that was written, or refused |
| printing commands | the other `builtin/*.c` | none | | |

Interactions. `pull` calls the handlers of fetch and merge, `merge` calls the
handler of commit and ignores what it returns. commit, merge and status meet in
`MERGE_HEAD`; stash, merge, cherry-pick, checkout and reset in index and work
tree; rebase with the user's own commits in a detached HEAD. libgit2 makes each
single call atomic and compares a reference with its expected value before
writing it; everything the handlers do between two calls is unprotected.

Users meet on servers: between the list of branches a server sends and the update
of one of them, or of the tracking branches, others push.

Hard behaviours: long legal command sequences (a merge that is never ended, a
stash list that is empty, a remote that was renamed), a process that dies or fails
between two calls, a connection that is lost before or after the server acted, two
processes on one repository, users on one server, arithmetic at limits (columns,
lists of duplicates, capacities, prefixes).
`PROJECT.json` lists the hazards at their lines with the properties about them.

## Modules

| module | models |
|---|---|
| `GitRepo` | the repository, and the libgit2 calls several commands share |
| `Porcelain` | one action per command, run to its end: `Commit`, `Merge`, `CheckoutBranch`, `StashApply`, ... |
| `PorcelainProps` | what these commands owe their user |
| `BranchHistory` | abstract: what may happen to a branch, whoever runs sgit |
| `Invocation` | commit, merge, branch and checkout in their libgit2 calls, several at once, each of which may stop anywhere |
| `InvocationProps` | soundness, refinement of `BranchHistory`, refinement of `Porcelain` |
| `Rebase`, `RebaseProps` | the rebase handler, call by call, with the user's steps in between |
| `GraphRender` | `graph_render`, one row per step, with its properties |
| `Cli` | the six generated option parsers, one argument per step, with its properties |
| `Date`, `DateProps` | the date of a signature: `parse_date_basic`, one token per step, and what `show_date` prints |
| `Ranking` | the elements of a set of numbers in their order, for the loops over sorted entries |
| `UpdateIndex` | `update-index`, file by file and line by line on its own copy of the index |
| `Plumbing` | the other commands between work tree, index, trees and commits, around `UpdateIndex` |
| `PlumbingProps` | what scripts that call them rely on |
| `Transfer` | clone, fetch, pull, push and remote, several users and servers, in their calls |
| `TransferProps` | what users who share servers rely on |
| `Strbuf` | the string buffer: one action per function, `strbuf_read` in its reads |
| `StrbufApi` | abstract: the text of a buffer, and what each call makes of it |
| `StrbufProps` | well-formedness, the terminator, refinement of `StrbufApi` |
| `Quote`, `QuoteProps` | quoting and unquoting into a `Strbuf` |
| `PorcelainProofs` (also `Invocation` and `Rebase`), `TransferProofs`, `StrbufProofs`, `QuoteProofs`, `PlumbingProofs`, `GraphProofs`, `InputProofs` (`Cli`) | the theorems about these, with their proofs |
| `RankingProofs` | lemmas about `Ranking`, and `Least`, which serves the others as induction |
| `MCPorcelain`, `MCInvocation`, `MCRebase`, `MCPlumbing`, `MCTransfer`, `MCSequential` | the instances TLC checks; `MCSequential` puts together `MCInput` (`Cli` and `Date`), `MCStrbuf` (`Strbuf` and `Quote`) and `GraphRender`, of which one runs in each behaviour |

libgit2 is a submodule, and not part of the repository. What the handlers need of
it is modelled from the way they call it: the flags they pass, the codes they test
and what they rely on afterwards (`map` marks these definitions external).

How state corresponds. A commit is a record of its parents, its tree and the set
of ids below it, so that ancestry is set membership; its id is its position in
`commits`. A tree maps each path to a blob or to `Absent`. An index entry may be
`Unmerged` too. `refs` holds the local branches and, under `Detached`, an oid that
stands in HEAD itself; `head` names the reference HEAD stands for. A branch with
target 0 does not exist, or is unborn if HEAD names it. A handler that returns early
without having changed anything is a stuttering step of `Porcelain`; where an early
return leaves something behind (`MergeRefused`, `CheckoutUnborn`, a merge without
its commit) it is part of the action.

In `Invocation`, `pc[p]` is the libgit2 call invocation `p` makes next and `loc[p]`
holds the locals its handler has filled. `Begin` is the start of the process,
`Stop` any failing call or the death of the process. `alone` is chosen
once: whether all is the work of one user who waits for each command to end. In `Rebase`, `call` is the call
of the one running handler, and `rebase` what libgit2 keeps on disk.

In `Cli`, the six parsers are one, reading a description per command (`Parsers`): `given`
and `after` are the flags of `struct cli` and the `*_cmd` members of `struct cli_aux`,
`words` its positional or variadic members, and `fields` what `validate_cli` hands on.
Every list of arguments up to `MaxArgs` is an initial state; arguments may be spelt like commands
and options. `upstream` is the value `branch --set-upstream-to` keeps.

In `Date`, a text is the sequence of the tokens the scanner finds: words by their meaning,
numbers with the number of digits they were written with, numbers joined by a separator.
`tm`, `offset` and `gmt` are the locals of `parse_date_basic`. A reading that is refused
puts what is left of the numbers back as tokens (`Leftover`), as the scanner finds them.
Times are minutes and seconds, because TLC's integers have 32 bits. `asked` remembers what
a text was written for; no action reads it.

In `GraphRender`, `columns` is `assigned_to[0 .. used_columns-1]` at the end of a
row, `row` the cells handed to `print_row`, and the history is chosen row by row:
`ParentLists` gives each commit any list of up to `MaxParents` later commits. `ordered` records whether
every removal of a lane so far left the ones still to be removed in their place; no action reads it.

In `UpdateIndex`, the index is a set of entries (path, stage, blob) and a path a
sequence of characters, because the code compares prefixes and looks for the slash
behind them. `cmd.idx` is the copy of the index the process works on, `cmd.files` and
`cmd.lines` what it has not looked at yet; nothing but `Write` and `Refresh` reaches
`.git/index`, and `ReadTree` may come in between. Calls on entries that are gone and
reads of freed parents end in `crashed` and `crash`: the code has undefined behaviour
there. `out` is what the last command printed, which a script may feed back. A line is its layout,
its blob and the text that stands for the path: `Quoted` puts `Escapes` and quotation marks
where `write_name_quoted` does, `Cut` keeps the `NameRoom` characters `ls-tree` has room for, and
`NameIn` is what `--index-info` takes for the path, which undoes neither.

In `Transfer`, a commit is the set of commits below it, and `has` and `stored` are the
object databases of users and servers. `job[u]` is the one sgit user `u` runs: the
phase says which libgit2 call comes next, `seen` is the list of branches the server sent
when the connection was made. `Fail` is any call that fails, the network's and the
credentials' included; that the answer to a push is lost is `Fail` in phase `accepted`.
A merge is reduced to its effect on branch and `MERGE_HEAD`; `Porcelain` has the files.

In `Strbuf`, `buf` is the block, cell by cell, and a cell nobody wrote holds `Junk`; what
is behind the terminator is set to `Junk` by `SetLen`, so that a function that lets
old bytes into the text is seen. A fresh buffer is the one cell of `strbuf_slopbuf`. The
capacity is computed modulo `SizeMod`, as in `size_t`. The constants 16, 64, 8192 and
255 of the code are parameters. `call` records the last call for `StrbufApi`.
In `Quote` bytes are numbers, and the escapes are computed from the table of the code.

## Runs

| run | question | bounds |
|---|---|---|
| `PorcelainAll` | all commands: types, soundness, unsaved files, branches, merges, conflicts, clean trees | from `init`: 1 path, 2 commits, 1 stash entry, 1 remote branch; diverged: 1 path, 4 commits, no stash and no commands on single paths; joining: 2 paths, 4 commits, the commands that join histories; always 2 blobs, 2 branches |
| `Invocations` | two at once, dying anywhere; and one after the other: is each command, call by call, what `Porcelain` says | 2 invocations, 1 path, 5 commits |
| `RebaseTopic` | rebasing two patches with failures and user steps | 1 path, 6 commits |
| `PlumbingScripts` | does a script get what it asked for, and nothing written when it fails | paths `d`, `d/a`, `d/ab`, `d<tab>y` and what is printed for the last; 2 blobs, 2 files per command, 3 parents; conflicts with all sides, or without theirs |
| `TransferSharing` | users on one server; one user and his remotes | 2 users, 1 server, 2 names of remotes, 3 commits |
| `Sequential` | does a parser accept its usages and nothing else; is a date read as it was written; does a buffer do what it promises at its limits; does quoting read back; are lanes kept apart | 6 parsers, 4 arguments, 2 words; 16 times, 5 zones, 11 styles, orders of their parts; texts of 3 bytes, `SizeMod` 26; names of 2 bytes, quotations of 6, shell texts of 5, directories 2 deep; histories of 5 commits, 3 parents, 5 columns |

`MaxCommits` bounds every command that creates a commit; in `Porcelain` and `Transfer` a
repository that is full only has fewer steps, in `Rebase` the bound is a full disk, the
handler sees an error. Two commits are enough from a fresh repository for a tip, another
commit to merge, pick, reset or check out, and every combination of file states; what
needs more history (a merge base that is not a tip, a second merge of the same commit, an
amended merge) starts from the diverged repository of `MCPorcelain`, which four commands
reach from a fresh one. Two contents are enough because
the merge of trees only compares files; `Markers` is one of them, since a conflict
file is a blob like any other once it is added. Two branches and one other commit are
enough for each pair of references a command looks at. The stash is read at its first
entry only. Two invocations suffice for a read that is stale; each runs one command.
In `Invocations` two interleaved invocations do not fast-forward (`CarefulSpec`), because there the
refinement of `BranchHistory` fails; run `InvocationFastForward` shows how. One user alone may.

The paths of `PlumbingScripts` are a name, a file below it, and a name that starts with the
same character: every pair the prefix comparisons tell apart. Two files per command
are a file that fails after one that did not, and two that are in each other's way; three
parents are the least for which commit-tree reads a parent it has freed. Three
characters of a name of `ls-tree` stand for the 1023 its buffer has room for: the names of the
instance are shorter, as long, and longer. The user names `d` and `d/a`; paths with a
tab come from a tree, and the ones they are registered under from listings. In
`TransferSharing` three commits are one that is shared, one of each user, or one and its
amended form, or the merge of two; the second name is what rename and set-url need.
Rearranging remotes and sharing are checked apart, because a remote is no business of the
other user. In `Sequential`, `SizeMod` 26 is reached by the capacity after two steps of
growth, so that `alloc_nr` wraps around; names of 2 bytes have each class of the table
(plain, letter, octal, quotation mark, backslash, above 127) before and behind each other,
and quotations of 6 bytes an octal escape and one more byte.

Four arguments are one more than any usage but that of `merge` with all its options has;
no rule of a parser relates more than two options or the position of more than two words.

The 16 times stand on both sides of every limit of `date.c`: 1970, nine digits of seconds,
leap days, the two-digit years 1970, 2010 and 2038, days that may be months, ten days from
now and 2099. The parser looks at one token and the fields, so the orders of six tokens
contain every state it can guess in.

Five commits are the least with which a merge of three parents can find lanes of two of them
and take a third commit's; with five columns a history may be as wide as that, and wider ones meet the limit.

Deadlock is checked in every run but `Invocations`, `Sequential` and those with a violation of their
parts: invocations end, as rendering and parsing do, and a buffer is done with after it was quoted into.

Six runs expect a violation, each of a statement the program's own messages, comments
or tables make:

| run | what is violated |
|---|---|
| `PorcelainMerging` | a merge that was committed leaves `MERGE_HEAD` behind (`commit.c:207`), and status goes on to say "but merging": nothing but a reset removes it |
| `InvocationFastForward` | a fast-forward drops a commit made between its two reads of HEAD |
| `RebaseContinue` | `--continue` goes on to the next patch without committing the resolved one |
| `GraphMerges` | `graph.c:158`: "Then remove them, also one by one" uses positions computed before the first removal. In a merge of three parents, two of which have lanes, the second removal takes a lane that still waits for its commit. With two parents the second duplicate is the last column, and no lane is taken (`LanesAreKept`) |
| `DatesAhead` | `date.c:378`: "Make sure it is not later than ten days from now" compares with the time of day read so far, and without one with the time -1: a date in front of its time of day is taken whatever it is |
| `CommandUsages` | `branch --set-upstream-to=<upstream>` as `--help` prints it (`branch_cli.c:89`) is taken for a pattern, since 16 of the 17 characters of the option are compared |

Modelling turned up more that the models contain and no run is spent on:

- `commit.c:194`: with an edit that is not staged, an empty commit needs no option.
- `graph.c:74`: the lane of a root commit never ends; `graph.c:135`: fork marks are drawn
  in straight lanes from the eleventh column on.
- `branch_cli.c:58`: spelt as the parser knows it, `--set-upstream-to` still has no effect,
  because the name is dropped without which `branch.c` lists.
- `merge merge` names no branch: an argument spelt like the command of the parser is the command again.
- `commit.c:232`: on an error between the allocation and the last look-up the clean-up
  frees slots of the parents array that were never set.
- `submodule_cli.c` is handed `submodule` as its first argument and refuses it, so that neither of
  the usages it prints (`submodule_cli.c:61`) is accepted: `IsUsage` in `Cli` leaves it none.
- `update-index.c:119`: `--refresh` with a conflict in the index uses entries that are gone.
  `update-index.c:206`: `--index-info` passes over what `ls-files --stage` prints for a path
  of one character. `update-index.c:228`: the name is taken from the first character that is not blank, as it stands.
  What `ls-files.c:87` and `ls-tree.c:40` print between quotation marks (a tab, quotation mark, backslash, or
  byte above 127 in the name) is registered under that very text, and a name `ls-tree` had no room for
  (`ls-tree.c:39`) under its beginning: `ListingReadsBack` promises the path only of the names called
  `Plain`. `update-index.c:248`: no lock is held between reading and writing the index.
- `write-tree.c:76`: a prefix given with its slash loses the first character of every path,
  and a prefix that is the beginning of other names takes these along.
- `commit-tree.c:96`: of equal parents the last is kept, so the first parent may change;
  with another parent behind them a freed one is read. A failing look-up frees slots that
  were never written (`commit-tree.c:140`).
- `pull` and `push` return failure whatever they did; a push without refspec is announced as
  a probable no-op (`push.c:80`) and connects all the same; `clone.c:31` divides by the number of objects
  before the server has said how many there are; `remote set-url` makes remotes that track
  nothing (`remote.c:136`); a pull from a URL always fails, after the download.
- `strbuf.c:373` and `quote.c:76` leave a buffer that never grew without the terminator
  "people can always assume" (`strbuf.c:40`): `TerminatorStays` names these two calls.
- `date.c:378`, behind its time of day: `10:00 2024-12-05` is refused if that is later than in ten days, but
  the same numbers are then tried with day and month exchanged, and read as the 12th of May. `Exchanged` in
  `DateProps` says just this; without it `DatesReadBack` fails.
- `date.c:648`: an offset of -1 stands for "no zone", so that `-0001` is the local zone. A
  date of the first second of 1970 makes a signature of now (`common.c:110`). Two-digit years
  from 38 to 70 are refused behind separators, from 10 to 69 behind the name of a month.
- `quote.c:110`: a backslash between two arguments is read as if it were not there.

## Fairness

Only `RebaseEnds` is a liveness property. `RebaseSpec` has weak fairness of the
handler's calls: the loop of `cmd_rebase` is a straight C loop that waits for nobody,
so a process that lives makes its next call. Nothing is assumed of the user, and the
process may die instead (`Die`).

## What is proved

The theorems hold for every value of the constants that meets the assumptions of the
modules: any branches, paths and contents, any number of invocations, users, servers and
remotes, any bound on commits, any width of `size_t`, names and arguments of any length. The assumptions are a main branch,
sentinels that are no branch and no byte, and natural bounds; for quoting, that texts are of
the bytes 1 to 255 (they are C strings), and that a directory paths are given relative to
is one of an index, with its slash (`DirectoriesAreClean`).

**Commands run to their end** (`PorcelainProofs`).

- `TypeCorrect`, `RepositoryStaysSound`: `Spec => []TypeOK`, `Spec => []RepositorySound`.
  `Inv == TypeOK /\ RepositorySound` is inductive. Neither half is so alone:
  `TypeOK` needs the stage invariant that only a merged index becomes a tree, and
  references must name stored commits before their trees have a type; soundness of the
  histories needs the types. Each action has a lemma; those that store a commit share one
  lemma saying that a new commit over stored parents keeps `GraphSound`, those that
  move references share another.
- `BranchesOnlyGainHistory`, `MergesAreRecorded`, `FirstCommitsAreRoots`, `ConflictsHold`, `CleanIsKept`: the
  action properties of `PorcelainProps`, each from `Inv` in the state before the step.
  For a fast-forward the argument is the analysis (the tip is below the target), for
  commit that the tip is its first parent, for `--amend` that it is allowed with one
  parent only, and so never while `MERGE_HEAD` is there.
- `UnsavedWorkIsKept`, `PopRestores`: no command overwrites a file that differs from HEAD
  unless that is its purpose or a stash holds the file; a pop that takes its entry off the
  list has put the files back. The argument is file by file: what a safe checkout and
  the merge of trees may write is where work tree and HEAD agree.

**Commands call by call** (also in `PorcelainProofs`), from any sound repository with at most one
entry in `MERGE_HEAD` (`AnyShared`; `SpecAll => AnyShared` is the lemma `SharedStartsAnywhere`).

- `SharingIsSound`: nothing dangles, whatever interleaves and wherever invocations die. The inductive
  invariant `SharedInv` adds to `Inv` that `MERGE_HEAD` has one entry at most (else
  two invocations could read the count and the entries of different merges), a type
  for the locals that only ever grows with the repository, and for each call what the
  handler has tested before it (`Good`): a count that is not 0 goes with a tip, the
  buffer is full before the status is taken, a target was looked up.
- `HistoryIsKept`: interleaved invocations implement `BranchHistory`: a branch moves from
  the tip that the invocation read, because libgit2 compares before it sets. The theorem
  assumes that no invocation fast-forwards, `Jobs \cap FastForwards = {}`; the
  assumption cannot be dropped: run `InvocationFastForward` is the counterexample.
- `CommandsRunInOneStep`: if `alone` (an invocation starts only when none is running, and does
  not stop between two writes), the calls implement `Porcelain`, where a command is one
  step. The locals then equal what they were read from (`Fresh`). A fast-forward and a
  checkout write in two calls; between these the refinement mapping shows what is due
  (`DueAsWritten`), and at all other times what is there (`Settled`).

**Rebase** (also in `PorcelainProofs`), from any sound repository in which no rebase is going on (`AnyRebase`).
`RebaseTypes`, `BranchKeepsWaiting` and `AbortUndoes`, from
`RebaseInv == Inv /\ RebaseTypeOK /\ BranchWaits /\ Underway`. `BranchWaits` is not
inductive alone: it needs that HEAD is detached throughout, that the handler runs only
while there is a rebase on disk, and that the commit to go back to exists.

**Servers** (`TransferProofs`). `NothingIsMissing`, `TrackingStaysPublished`, `TrackingIsOwned`
and the action properties `PushesKeepHistory`, `SuccessIsTruthful`, `PullsJoin`. The inductive
invariant `TransferInv` is a type and `Sound`: every commit comes with the commits below it, in the graph,
on each server and with each user (`Closed`), and what a job has learnt remains true while
others push: the list it was sent names commits of the server even when the
branches have moved on, downloaded commits stay, and after the update the tracking
branches are those of the list. Servers only gain commits, which is why a stale list is
harmless. TLC checked `TransferInv` on the instance of `TransferSharing` (2,882,702 distinct
states) before it was proved.

**String buffers** (`StrbufProofs`). `BuffersStayWellFormed`, `TerminatorsStay`, and
`BufferImplementsApi`, the refinement of `StrbufApi` by every function of the buffer. The
inductive invariant `StrbufInv` is a block that has room for text and terminator
(`Buffer`), and that a read under way has added at the end what it has got
(`ReadingSound`), which is what a failing read takes back. Each function has a lemma
that says where its copies leave the texts (`HoldsAt`) and one for the text that results
(`Closed`); of the capacity it is only used that it suffices, since `alloc_nr` may wrap around
and the need takes its place. The loops, one byte or one piece at a
time, are recursive functions; the lemma `Least` (every set of numbers that is not empty
has a least element, from the library's theorems on well-founded sets) serves as induction.

**Plumbing** (`PlumbingProofs`), for any paths, trees, input lines, parents, and any number of files.
`IndexStaysSound`, `TreesAreWritten`, `ParentsAreKept`, `FailuresKeepPaths`, `CrashesNeedConflicts`, `SuccessIsRegistered`,
`UnnamedAreKept`, `ListingsReadBack`: all properties of `PlumbingProps`. The inductive invariant
`PlumbingInv` says of an update-index under way that the files and lines left are the end
of those it was given, that its copy of the index has what it has passed (`FilesDone`,
`LinesDone`), and that nothing else has left it (`OthersKept`). The index must be sound, and
no side of a conflict may be alone (`TwoSided`): a merge leaves our side and one or both of the
others (`ConflictSides`), fewer than three when their side deleted the file or the base had none.
The reason is `--refresh`: it goes by the positions of the entries while adding a
file may take entries away. That the paths survive rests on two facts: each addition
replaces an entry by at most one, so the loop reaches the end only if no addition took any
(`Readded`, `WalkGoesOn`), and the last entry cannot be a conflict whose other side the
loop has met before (`LastVisit`). The other lemmas about loops are
`KthIs` and `KthOf` of `RankingProofs` (what the sorted order visits), `RerootedBack` (what
write-tree cuts off, put back) and `SanitizedIs` (which of equal parents is kept). TLC
checked `PlumbingInv` on the instance of `PlumbingScripts` (2,146,352 distinct states) before it
was proved.

**Graph renderer** (`GraphProofs`), for any number of commits, parents and columns. `LanesFit` is the type
invariant with the limit of the arrays; it is inductive as it stands. `LanesAreKept` and
`NodesAreSingle` hold while `RemovedInOrder`: every removal so far was from the right to the left, but for the
last column, or no merge had more than two parents; without this they are false (`GraphMerges`). Their
invariant `GraphInv` has two parts. While removals were in order, no lane is lost, lanes lead to different
commits and a row has one node: then each removal takes the lane it was meant for (`RemovedIs`, `InOrderSound`). And while
merges have at most two parents, they are in order: a merge makes at most one duplicate of its first
parent and one of its second, which is the last lane (`ParentsJoin`), and two such are removed in order (`TwoInOrder`).
`KeptSound` says what follows for the lanes, `MarksAre` for
the cells. The removal is a recursive function, about which `MovedType` is proved with `Least`.

**Quoting** (`QuoteProofs`), for `QuoteSpec`, where the quoting functions are called among all
other uses of the buffer; names, quotations, lists and paths may have any bytes and any length.

- `CStyleIsReadBack`, `ShellIsReadBack`: what was quoted reads back, and `sq_dequote` takes only
  what `sq_quote_buf` makes. The readers are loops whose rounds either go on further right or end
  (`Round`, `LastRound`), so `Scanned` is defined on all texts; `ScannedOver` says that a
  reader that puts out the bytes of a text one by one puts out the text. The writers put
  out a piece for each byte, and the lemmas about pieces say where each begins (`Parts`). Then it is
  left to show that the piece of each byte is read as that byte: itself, a letter behind a
  backslash, three octal digits, a backslash out of quotes. For lists the same is done once more, an
  argument being one round of the outer loop.
- `UnquotingIsUndone`, `QuotingKeepsBuffers`, `QuotingKeepsTerminator`, `QuotingImplementsApi`:
  the calls keep `StrbufInv` and implement `StrbufApi`, a failing unquote leaves the text it found.
  They rest on the lemmas of `StrbufProofs`, and on what is written being text (`CStyleIsText`, ...).
- `RelativeIsLedBack`: from the directory, what `quote_path_relative` made leads to the path. A
  path is followed byte by byte (`Walked`). Up to the last slash both have, path and directory
  are followed alike; what remains of the directory enters a name at each slash (`GoesDown`),
  and what is put in front of the path takes back one at each (`GoesUp`, `LeadsUp`); so the rest of the
  path is followed from where the path itself is there. A directory with empty names, or one of the names `.` and `..`,
  would go down less often than it has slashes; directories of an index have no such names, and
  `quote_path_relative` is made for its paths. Of the paths nothing is assumed. The function has no caller
  whose directories could be looked at; its code counts a level at each slash, so the directory ends in one.

None of it needs an inductive invariant of its own: `quoted` keeps one call. What is inductive is
in the loops, and `Least` (a smallest counterexample) proves it, as in the other modules.

**Option parsers** (`InputProofs`). `SpeltIsAccepted`: any number of arguments, any words, also such that are spelt
like commands or options. `CliInv` says
of a parser under way that, if the first arguments are options and what follows fits a
usage, the options passed are those in `given` and the words behind them those in `words`, in their
order; and that whatever was accepted passed every rule. A usage is what the spelling says (`IsUsage`), not what the
program prints: the two differ for `submodule`, which has none, and for the upstream of `branch` (`CommandUsages`).

Two of the theorems are of properties no run lists: `RebaseTypes`, a part of `RebaseInv`, and
`UnquotingIsUndone`, which TLC checks as far as the text goes, since a failing unquote adds nothing in
`StrbufApi`.

Only model-checked:

- Liveness (`RebaseEnds`): fairness and ENABLED are out of the prover's reach.
- `DatesReadBack`: TLC goes through the orders a date may be written in. A proof for all times
  would need the calendar (`div` and `%` in every field) in each of these orders, and was not
  attempted.
- The faults the six runs with a violation show.

## Not modelled

Wording and layout of output; memory management; options in the models of the commands (they take any
combination a parser lets through); `merge.ff` in the configuration;
`CHERRY_PICK_HEAD`; in `Plumbing` conflicts over a file that we deleted; file modes and ignored files; directories in `Porcelain`; a failing disk inside of
one libgit2 call; exit codes, but for those of fetch and clone; two commands of one user at once in `Transfer`;
names of remotes and branches as strings (the 96 characters `pull` prints them to, local
branches named like a tracking branch); `strbuf_readlink`, `strbuf_expand` and the printing
variants of quoting; relative dates, `approxidate` and `datestamp`, which nothing calls; summer
time of the local zone in `Date`. The components without a module are
listed in `PROJECT.json` with the reason.

## Plan

Done: `GitRepo`, `Porcelain` with its proofs, `BranchHistory`, `Invocation`, `Rebase`,
`GraphRender`, `Cli`, `UpdateIndex`, `Plumbing`, `Transfer`, `Strbuf`, `Quote`, `Date`. Left, in this order:

1. Two commands of one user in `Transfer`, with the tracking branches a rename leaves behind.
2. `tag`, and credentials as what makes calls fail (`common.c`).

The number of runs is kept at twelve: a new part is checked within a run it composes with.
