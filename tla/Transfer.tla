------------------------------ MODULE Transfer ------------------------------
(***************************************************************************)
(* The commands that talk to other repositories: clone, fetch, pull, push  *)
(* and remote.  Every user has one repository and runs one sgit at a time  *)
(* in it; the servers take what all of them send.  A command that talks to *)
(* a server goes through the libgit2 calls of its handler, one action      *)
(* each, and others have their turn between two of them.  Any call, and so *)
(* the connection or the user's credentials, may fail.                     *)
(*                                                                         *)
(* What a merge does to files is the business of Porcelain; here it only   *)
(* succeeds, conflicts or is refused.                                      *)
(***************************************************************************)
EXTENDS Naturals, Sequences, Functions

CONSTANTS
  Users,        \* each has a repository
  Servers,      \* URLs
  Nowhere,      \* no URL is configured
  Names,        \* names of remotes
  Origin,       \* the name clone gives to the remote
  Branches,
  Main,         \* the branch HEAD stands for, here and on the servers
  Specs,        \* refspecs given to push: source, destination, force
  NoBranch,     \* the empty source of a refspec
  MaxCommits    \* bound: commits that are ever created

ASSUME TransferAssumption ==
  /\ Origin \in Names /\ Names \cap Servers = {}
  /\ Main \in Branches /\ NoBranch \notin Branches
  /\ Nowhere \notin Servers \cup Names
  /\ Specs \subseteq [src : Branches \cup {NoBranch}, dst : Branches,
                      force : BOOLEAN]
  /\ MaxCommits \in Nat

VARIABLES
  commits,      \* what lies below each commit anyone created
  heads,        \* the branches of every server
  stored,       \* the commits every server has
  repo,         \* the repository of every user
  job           \* the command every user runs, or ran last

transferVars == <<commits, heads, stored, repo, job>>
server == <<heads, stored>>

NoCommit == 0
History(c) == {c} \cup commits[c]
HistoryOf(S) == UNION {History(c) : c \in S \ {NoCommit}}
NoHeads == [b \in Branches |-> NoCommit]

(***************************************************************************)
(* A remote exists as soon as one of its URLs does; only one that was      *)
(* created by add or clone has a refspec that fills tracking branches.     *)
(***************************************************************************)
NoRemote == [url |-> Nowhere, pushurl |-> Nowhere, tracks |-> FALSE]
NewRemote(s) == [url |-> s, pushurl |-> Nowhere, tracks |-> TRUE]
Configured(u, r) ==
  {repo[u].remotes[r].url, repo[u].remotes[r].pushurl} # {Nowhere}
EmptyRepo == [has |-> {}, refs |-> NoHeads, merging |-> {},
              remotes |-> [r \in Names |-> NoRemote],
              tracking |-> [r \in Names |-> NoHeads]]
Tip(u) == repo[u].refs[Main]
-----------------------------------------------------------------------------
(***************************************************************************)
(* The steps of a command.                                                 *)
(***************************************************************************)
Exited(code) == [cmd |-> "none", phase |-> "ended", exit |-> code]
Task(cmd, url, remote, want) ==
  [cmd |-> cmd, phase |-> "started", url |-> url, remote |-> remote,
   want |-> want, seen |-> NoHeads]

Ended(u) == job[u].phase = "ended"
At(u, phase, cmds) == job[u].phase = phase /\ job[u].cmd \in cmds
Starts(u, task) ==
  /\ Ended(u)
  /\ job' = [job EXCEPT ![u] = task]
  /\ UNCHANGED <<commits, server, repo>>
Enters(u, phase) == job' = [job EXCEPT ![u].phase = phase]
Exits(u, code) == job' = [job EXCEPT ![u] = Exited(code)]

\* A call failed.  What was done before stays, but the directory of a clone
\* is removed again.
Fail(u) ==
  /\ ~Ended(u)
  /\ repo' = IF job[u].cmd = "clone" THEN [repo EXCEPT ![u] = EmptyRepo]
             ELSE repo
  /\ Exits(u, "failure")
  /\ UNCHANGED <<commits, server>>

\* The server lists its branches.
Connect(u) ==
  /\ job[u].phase = "started"
  /\ job[u].url \in Servers
  /\ job' = [job EXCEPT ![u].phase = "connected", ![u].seen = heads[job[u].url]]
  /\ UNCHANGED <<commits, server, repo>>

-----------------------------------------------------------------------------
(***************************************************************************)
(* fetch, and the part of pull that is one.  An argument that names no     *)
(* remote is taken for a URL; of such an anonymous remote only HEAD is     *)
(* downloaded, and there are no tracking branches to update.               *)
(***************************************************************************)
Tracks(u) ==
  job[u].remote \in Names /\ repo[u].remotes[job[u].remote].tracks
Wanted(u) == IF Tracks(u) THEN Range(job[u].seen) ELSE {job[u].seen[Main]}

FetchTask(u, cmd, arg, want) ==
  IF arg \in Names /\ Configured(u, arg)
    THEN Task(cmd, repo[u].remotes[arg].url, arg, want)
    ELSE Task(cmd, arg, Nowhere, want)
FetchBegin(u, arg) == Starts(u, FetchTask(u, "fetch", arg, NoBranch))
PullBegin(u, arg, b, ffOnly) ==
  Starts(u, FetchTask(u, "pull", arg, [branch |-> b, ffOnly |-> ffOnly]))

\* Faulty: a failed download is taken for one that had nothing to do.
DownloadShrugged(u) ==
  /\ At(u, "connected", {"fetch", "pull", "clone"})
  /\ \E S \in {{}, HistoryOf(Wanted(u))} :
       repo' = [repo EXCEPT ![u].has = @ \cup S]
  /\ Enters(u, "downloaded")
  /\ UNCHANGED <<commits, server>>

Download(u) ==
  /\ At(u, "connected", {"fetch", "pull", "clone"})
  /\ repo' = [repo EXCEPT ![u].has = @ \cup HistoryOf(Wanted(u))]
  /\ Enters(u, "downloaded")
  /\ UNCHANGED <<commits, server>>

\* Branches the server does not have any more keep their tracking branch.
Tracked(u) ==
  [b \in Branches |-> IF job[u].seen[b] # NoCommit THEN job[u].seen[b]
                      ELSE repo[u].tracking[job[u].remote][b]]
FetchDone(u) == IF job[u].cmd = "pull" THEN Enters(u, "fetched")
                ELSE Exits(u, "success")

\* Faulty: what updating the tracking branches returns is ignored.
TipsUnchecked(u) ==
  /\ At(u, "downloaded", {"fetch", "pull"})
  /\ repo' \in {repo, IF Tracks(u)
       THEN [repo EXCEPT ![u].tracking[job[u].remote] = Tracked(u)] ELSE repo}
  /\ FetchDone(u)
  /\ UNCHANGED <<commits, server>>

UpdateTips(u) ==
  /\ At(u, "downloaded", {"fetch", "pull"})
  /\ repo' = IF Tracks(u)
       THEN [repo EXCEPT ![u].tracking[job[u].remote] = Tracked(u)] ELSE repo
  /\ FetchDone(u)
  /\ UNCHANGED <<commits, server>>

(***************************************************************************)
(* clone: an empty repository, Origin for its remote, a fetch, and HEAD's  *)
(* branch checked out if the server has it.                                *)
(***************************************************************************)
CloneBegin(u, s) ==
  /\ repo[u] = EmptyRepo
  /\ Ended(u)
  /\ job' = [job EXCEPT ![u] = Task("clone", s, Origin, NoBranch)]
  /\ repo' = [repo EXCEPT ![u].remotes[Origin] = NewRemote(s)]
  /\ UNCHANGED <<commits, server>>

CloneDone(u) ==
  /\ At(u, "downloaded", {"clone"})
  /\ repo' = [repo EXCEPT ![u].tracking[Origin] = Tracked(u),
                          ![u].refs[Main] = job[u].seen[Main]]
  /\ Exits(u, "success")
  /\ UNCHANGED <<commits, server>>

-----------------------------------------------------------------------------
(***************************************************************************)
(* The merge at the end of pull, of the tracking branch "remote/branch":   *)
(* there is none if the remote is anonymous.  merge returns failure after  *)
(* everything it does, and so does pull.                                   *)
(***************************************************************************)
\* Faulty: the remote is always taken to be the one clone made.
FetchedOrigin(u) == repo[u].tracking[Origin][job[u].want.branch]

Fetched(u) == IF job[u].remote \in Names
              THEN repo[u].tracking[job[u].remote][job[u].want.branch]
              ELSE NoCommit

NewCommit(u, below, merging) ==
  /\ Len(commits) < MaxCommits
  /\ commits' = Append(commits, below)
  /\ repo' = [repo EXCEPT ![u].refs[Main] = Len(commits) + 1,
                          ![u].has = @ \cup {Len(commits) + 1},
                          ![u].merging = merging]

PullMerges(u) ==
  LET c == Fetched(u)
      canForward == Tip(u) \in commits[c]
  IN  /\ At(u, "fetched", {"pull"})
      /\ c # NoCommit /\ Tip(u) # NoCommit
      /\ IF canForward
           THEN repo' = [repo EXCEPT ![u].refs[Main] = c] /\ UNCHANGED commits
           ELSE /\ ~job[u].want.ffOnly
                /\ \/ NewCommit(u, HistoryOf({Tip(u), c}), {c})
                   \/ /\ \E m \in {{}, {c}} :
                           repo' = [repo EXCEPT ![u].merging = m]
                      /\ UNCHANGED commits
      /\ Exits(u, "failure")
      /\ UNCHANGED server

-----------------------------------------------------------------------------
(***************************************************************************)
(* push.  Without a refspec it connects and sends nothing.  libgit2 reads  *)
(* the source again after it has connected, and refuses to take history    *)
(* off the branch the server listed unless the refspec is forced; the      *)
(* server takes the update if its branch is still the one it listed.       *)
(* push never reports success.                                             *)
(***************************************************************************)
Source(u) ==
  IF job[u].want.src = NoBranch THEN NoCommit ELSE repo[u].refs[job[u].want.src]
PushUrl(config) ==
  IF config.pushurl # Nowhere THEN config.pushurl ELSE config.url

PushBegin(u, r, spec) ==
  /\ Configured(u, r)
  /\ Starts(u, Task("push", PushUrl(repo[u].remotes[r]), r, spec))

PushAllowed(u) ==
  LET old == job[u].seen[job[u].want.dst]
  IN  \/ job[u].want.src = NoBranch
      \/ /\ Source(u) # NoCommit
         /\ \/ job[u].want.force \/ old = NoCommit
            \/ old \in repo[u].has /\ old \in History(Source(u))

\* Faulty: the server does not look at its branch again.
ServerTrusts(u) == TRUE

ServerAccepts(u) ==
  heads[job[u].url][job[u].want.dst] = job[u].seen[job[u].want.dst]

\* Faulty: an update the server refuses is treated as done.
PushSendsOnly(u) ==
  /\ At(u, "connected", {"push"})
  /\ PushAllowed(u)
  /\ heads' = IF ServerAccepts(u)
       THEN [heads EXCEPT ![job[u].url][job[u].want.dst] = Source(u)] ELSE heads
  /\ stored' = IF ServerAccepts(u)
       THEN [stored EXCEPT ![job[u].url] = @ \cup HistoryOf({Source(u)})]
       ELSE stored
  /\ Enters(u, "accepted")
  /\ UNCHANGED <<commits, repo>>

PushSends(u) ==
  /\ At(u, "connected", {"push"})
  /\ PushAllowed(u)
  /\ IF ServerAccepts(u)
       THEN LET s == job[u].url IN
            /\ stored' = [stored EXCEPT ![s] = @ \cup HistoryOf({Source(u)})]
            /\ heads' = [heads EXCEPT ![s][job[u].want.dst] = Source(u)]
            /\ Enters(u, "accepted")
       ELSE UNCHANGED server /\ Exits(u, "failure")
  /\ UNCHANGED <<commits, repo>>

\* The answer arrives: the tracking branch follows.
PushAnswered(u) ==
  /\ At(u, "accepted", {"push"})
  /\ LET b == job[u].want.dst IN
       repo' = IF Tracks(u)
         THEN [repo EXCEPT ![u].tracking[job[u].remote][b] = Source(u)]
         ELSE repo
  /\ Exits(u, "failure")
  /\ UNCHANGED <<commits, server>>

-----------------------------------------------------------------------------
(***************************************************************************)
(* remote add, remove, rename and set-url.  A call that is refused changes *)
(* nothing.  set-url does not ask whether there is such a remote, and so   *)
(* may create one that has no refspec.                                     *)
(***************************************************************************)
ChangesRemotes(u) == Ended(u) /\ UNCHANGED <<commits, server, job>>

RemoteAdd(u, r, s) ==
  /\ ChangesRemotes(u)
  /\ ~Configured(u, r)
  /\ repo' = [repo EXCEPT ![u].remotes[r] = NewRemote(s)]

RemoteRemove(u, r) ==
  /\ ChangesRemotes(u)
  /\ Configured(u, r)
  /\ repo' = [repo EXCEPT ![u].remotes[r] = NoRemote,
                          ![u].tracking[r] = NoHeads]

\* Faulty: the tracking branches keep the old name.
RenameSection(u, old, new) ==
  /\ ChangesRemotes(u)
  /\ Configured(u, old) /\ ~Configured(u, new)
  /\ repo' = [repo EXCEPT ![u].remotes[new] = repo[u].remotes[old],
                          ![u].remotes[old] = NoRemote]

RemoteRename(u, old, new) ==
  /\ ChangesRemotes(u)
  /\ Configured(u, old) /\ ~Configured(u, new)
  /\ repo' = [repo EXCEPT ![u].remotes[new] = repo[u].remotes[old],
                          ![u].remotes[old] = NoRemote,
                          ![u].tracking[new] = repo[u].tracking[old],
                          ![u].tracking[old] = NoHeads]

RemoteSetUrl(u, r, s, push) ==
  /\ ChangesRemotes(u)
  /\ repo' = IF push THEN [repo EXCEPT ![u].remotes[r].pushurl = s]
             ELSE [repo EXCEPT ![u].remotes[r].url = s]

-----------------------------------------------------------------------------
(***************************************************************************)
(* What the user does between the commands: commit, also amending, which   *)
(* commit refuses during a merge.  commit leaves MERGE_HEAD in place.      *)
(***************************************************************************)
Commit(u, amend) ==
  /\ Ended(u)
  /\ amend => Tip(u) # NoCommit /\ repo[u].merging = {}
  /\ Tip(u) = NoCommit => repo[u].merging = {}
  /\ LET parents == {Tip(u)} \cup repo[u].merging IN
       NewCommit(u, IF amend THEN commits[Tip(u)] ELSE HistoryOf(parents),
                 repo[u].merging)
  /\ UNCHANGED <<server, job>>

FetchStep(u) == Connect(u) \/ Download(u) \/ UpdateTips(u) \/ CloneDone(u)
PushStep(u) == PushSends(u) \/ PushAnswered(u)
BeginStep(u) ==
  \/ \E arg \in Names \cup Servers :
       \/ FetchBegin(u, arg)
       \/ \E b \in Branches, ffOnly \in BOOLEAN : PullBegin(u, arg, b, ffOnly)
  \/ \E s \in Servers : CloneBegin(u, s)
  \/ \E r \in Names, spec \in Specs : PushBegin(u, r, spec)
RemoteStep(u) ==
  \E r \in Names :
    \/ RemoteRemove(u, r)
    \/ \E s \in Servers : RemoteAdd(u, r, s)
    \/ \E s \in Servers, push \in BOOLEAN : RemoteSetUrl(u, r, s, push)
    \/ \E new \in Names : RemoteRename(u, r, new)

TransferInit ==
  /\ commits = <<>>
  /\ heads = [s \in Servers |-> NoHeads]
  /\ stored = [s \in Servers |-> {}]
  /\ repo = [u \in Users |-> EmptyRepo]
  /\ job = [u \in Users |-> Exited("success")]

TransferNext ==
  \E u \in Users :
    \/ BeginStep(u) \/ FetchStep(u) \/ PullMerges(u) \/ PushStep(u) \/ Fail(u)
    \/ RemoteStep(u)
    \/ \E amend \in BOOLEAN : Commit(u, amend)

TransferSpec == TransferInit /\ [][TransferNext]_transferVars
=============================================================================
