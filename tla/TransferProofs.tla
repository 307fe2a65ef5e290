---------------------------- MODULE TransferProofs ----------------------------
(***************************************************************************)
(* Theorems about users who share servers, for any number of users,        *)
(* servers, remotes, branches and refspecs.                                *)
(***************************************************************************)
EXTENDS TransferProps, SequenceTheorems, TLAPS

USE TransferAssumption

(***************************************************************************)
(* Types.  A job that ended has lost what it was about.                    *)
(***************************************************************************)
Urls == Servers \cup {Nowhere}
RemoteRecords == [url : Urls, pushurl : Urls, tracks : BOOLEAN]
Tips == [Branches -> Nat]
Repos == [has : SUBSET Nat, refs : Tips, merging : SUBSET Nat,
          remotes : [Names -> RemoteRecords], tracking : [Names -> Tips]]
PullWants == [branch : Branches, ffOnly : BOOLEAN]
EndedJobs == [cmd : {"none"}, phase : {"ended"}, exit : {"success", "failure"}]
RunningJobs ==
  [cmd : {"fetch", "pull", "clone", "push"},
   phase : {"started", "connected", "downloaded", "fetched", "accepted"},
   url : Urls \cup Names, remote : Names \cup {Nowhere},
   want : {NoBranch} \cup PullWants \cup Specs, seen : Tips]

TransferTypeOK ==
  /\ commits \in Seq(SUBSET Nat)
  /\ heads \in [Servers -> Tips]
  /\ stored \in [Servers -> SUBSET Nat]
  /\ repo \in [Users -> Repos]
  /\ job \in [Users -> EndedJobs \cup RunningJobs]

(***************************************************************************)
(* The inductive invariant.  Commits only have older ones below them, and  *)
(* whatever is stored is stored with its history: a set of commits that is *)
(* closed in this sense is where all names have to point into.             *)
(***************************************************************************)
Ids == 1..Len(commits)
Closed(S) == S \subseteq Ids /\ \A c \in S : commits[c] \subseteq S
GraphClosed == \A c \in Ids : commits[c] \subseteq 1..(c - 1) /\ Closed(commits[c])
Published == {c \in Nat : \E s \in Servers : c \in stored[s]}
OrNone(S) == S \cup {NoCommit}

ServerSound(s) ==
  /\ Closed(stored[s])
  /\ \A b \in Branches : heads[s][b] \in OrNone(stored[s])

\* A remote without a refspec never had a tracking branch.
RepoSound(u) ==
  /\ Closed(repo[u].has)
  /\ repo[u].merging \subseteq repo[u].has
  /\ \A b \in Branches : repo[u].refs[b] \in OrNone(repo[u].has)
  /\ \A r \in Names, b \in Branches :
       repo[u].tracking[r][b] \in OrNone(repo[u].has \cap Published)
  /\ \A r \in Names : IF repo[u].remotes[r].tracks THEN Configured(u, r)
                      ELSE repo[u].tracking[r] = NoHeads

(***************************************************************************)
(* What a command that runs may rely on: the list it got from the server   *)
(* has only commits the server still has; after the download the user has  *)
(* what was wanted; after the update of the tracking branches they are     *)
(* what was listed; after the server's answer it has what was sent.        *)
(***************************************************************************)
After(u, phases) == job[u].phase \in phases
JobSound(u) ==
  ~Ended(u) =>
    /\ job[u].cmd = "clone" =>
         job[u].remote = Origin /\ repo[u].remotes[Origin].tracks
    /\ job[u].cmd = "pull" => job[u].want \in PullWants
    /\ job[u].cmd = "push" => job[u].want \in Specs
    /\ job[u].phase # "started" =>
         /\ job[u].url \in Servers
         /\ \A b \in Branches : job[u].seen[b] \in OrNone(stored[job[u].url])
    /\ After(u, {"downloaded", "fetched"}) => Wanted(u) \subseteq OrNone(repo[u].has)
    /\ After(u, {"fetched"}) /\ Tracks(u) => \A b \in Branches :
         job[u].seen[b] \in {NoCommit, repo[u].tracking[job[u].remote][b]}
    /\ At(u, "accepted", {"push"}) => Source(u) \in OrNone(stored[job[u].url])

Sound ==
  /\ GraphClosed
  /\ \A s \in Servers : ServerSound(s)
  /\ \A u \in Users : RepoSound(u) /\ JobSound(u)
TransferInv == TransferTypeOK /\ Sound
-----------------------------------------------------------------------------
(***************************************************************************)
(* Facts about closed sets of commits.                                     *)
(***************************************************************************)
LEMMA IdFacts ==
  ASSUME TransferTypeOK
  PROVE  /\ Len(commits) \in Nat
         /\ Ids \subseteq Nat
         /\ NoCommit \notin Ids
         /\ \A c \in Ids : commits[c] \in SUBSET Nat
<1>1. Len(commits) \in Nat
  BY LenProperties DEF TransferTypeOK
<1> QED
  BY <1>1, ElementOfSeq DEF TransferTypeOK, Ids, NoCommit

LEMMA HistoryInside ==
  ASSUME NEW S, Closed(S), NEW T, T \subseteq OrNone(S)
  PROVE  HistoryOf(T) \subseteq S
  BY DEF Closed, OrNone, HistoryOf, History

LEMMA HistoryIsClosed ==
  ASSUME GraphClosed, NEW T, T \subseteq OrNone(Ids)
  PROVE  Closed(HistoryOf(T)) /\ T \subseteq OrNone(HistoryOf(T))
<1>1. \A c \in T \ {NoCommit} : c \in Ids /\ Closed(commits[c])
  BY DEF GraphClosed, OrNone
<1>2. \A c \in T \ {NoCommit} : Closed(History(c))
  BY <1>1 DEF Closed, History
<1> QED
  BY <1>2 DEF Closed, HistoryOf, History, OrNone

LEMMA ClosedUnion ==
  ASSUME NEW S, NEW T, Closed(S), Closed(T)
  PROVE  Closed(S \cup T)
  BY DEF Closed

(***************************************************************************)
(* The object databases only grow, and what is closed stays closed.        *)
(***************************************************************************)
Grown ==
  /\ Ids \subseteq Ids'
  /\ \A c \in Ids : commits'[c] = commits[c]
  /\ GraphClosed'
  /\ stored' \in [Servers -> SUBSET Nat]
  /\ \A s \in Servers : stored[s] \subseteq stored'[s]
ClosedNow(S) == S \subseteq Ids' /\ \A c \in S : commits'[c] \subseteq S

LEMMA ClosedStays ==
  ASSUME Grown, NEW S, Closed(S)
  PROVE  ClosedNow(S)
  BY DEF Grown, Closed, ClosedNow

LEMMA PublishedGrows ==
  ASSUME Grown
  PROVE  Published \subseteq Published'
  BY DEF Grown, Published

LEMMA GrownTrivially ==
  ASSUME TransferInv, UNCHANGED <<commits, stored>>
  PROVE  Grown
<1>1. GraphClosed /\ stored \in [Servers -> SUBSET Nat]
  BY DEF TransferInv, TransferTypeOK, Sound
<1>2. GraphClosed' /\ Ids' = Ids
  BY <1>1 DEF GraphClosed, Closed, Ids
<1> QED
  BY <1>1, <1>2 DEF Grown

LEMMA Appended ==
  ASSUME TransferInv, NEW below, Closed(below),
         Len(commits) < MaxCommits,
         commits' = Append(commits, below),
         UNCHANGED stored
  PROVE  /\ Grown
         /\ commits' \in Seq(SUBSET Nat)
         /\ Len(commits) + 1 \in Nat \ {NoCommit}
         /\ Ids' = Ids \cup {Len(commits) + 1}
         /\ commits'[Len(commits) + 1] = below
<1> DEFINE n == Len(commits) + 1
<1>1. commits \in Seq(SUBSET Nat) /\ Len(commits) \in Nat /\ GraphClosed
  BY IdFacts DEF TransferInv, TransferTypeOK, Sound
<1>2. below \in SUBSET Nat /\ below \subseteq Ids
  BY IdFacts DEF TransferInv, Closed
<1>3. /\ commits' \in Seq(SUBSET Nat)
      /\ Len(commits') = n
      /\ commits'[n] = below
      /\ \A c \in 1..Len(commits) : commits'[c] = commits[c]
  BY <1>1, <1>2, AppendProperties
<1>4. Ids' = Ids \cup {n} /\ n \in Nat \ {NoCommit} /\ Ids = 1..(n - 1)
  BY <1>1, <1>3 DEF Ids, NoCommit
<1>5. Ids \subseteq Ids' /\ \A c \in Ids : commits'[c] = commits[c]
  BY <1>3, <1>4 DEF Ids
<1>6. ASSUME NEW S, Closed(S)
      PROVE  ClosedNow(S)
  BY <1>5, <1>6 DEF Closed, ClosedNow
<1>7. ASSUME NEW c \in Ids'
      PROVE  commits'[c] \subseteq 1..(c - 1) /\ ClosedNow(commits'[c])
  <2>1. CASE c \in Ids
    BY <1>1, <1>5, <1>6, <2>1 DEF GraphClosed
  <2>2. CASE c = n
    BY <1>2, <1>3, <1>4, <1>6, <2>2
  <2> QED
    BY <1>4, <2>1, <2>2
<1>8. GraphClosed'
  BY <1>7 DEF GraphClosed, Closed, ClosedNow
<1>9. stored' \in [Servers -> SUBSET Nat] /\ \A s \in Servers : stored[s] \subseteq stored'[s]
  BY DEF TransferInv, TransferTypeOK
<1> QED
  BY <1>3, <1>4, <1>5, <1>8, <1>9 DEF Grown

-----------------------------------------------------------------------------
(***************************************************************************)
(* A step of one user leaves what holds of the others.                     *)
(***************************************************************************)
LEMMA Parts ==
  ASSUME TransferInv, NEW u \in Users
  PROVE  /\ repo[u] \in Repos
         /\ job[u] \in EndedJobs \cup RunningJobs
         /\ Ended(u) => job[u] \in EndedJobs
         /\ ~Ended(u) => job[u] \in RunningJobs
         /\ RepoSound(u) /\ JobSound(u)
         /\ GraphClosed
         /\ \A s \in Servers : ServerSound(s)
<1>1. job[u] \in EndedJobs \cup RunningJobs /\ repo[u] \in Repos
  BY DEF TransferInv, TransferTypeOK
<1>2. \A j \in RunningJobs : j.phase # "ended"
  BY DEF RunningJobs
<1>3. \A j \in EndedJobs : j.phase = "ended"
  BY DEF EndedJobs
<1> QED
  BY <1>1, <1>2, <1>3 DEF TransferInv, Sound, Ended

LEMMA RepoKept ==
  ASSUME TransferInv, Grown, NEW u \in Users, repo'[u] = repo[u]
  PROVE  RepoSound(u)'
<1>1. ClosedNow(repo[u].has) /\ RepoSound(u)
  BY Parts, ClosedStays DEF RepoSound
<1>2. Closed(repo[u].has)'
  BY <1>1 DEF Closed, ClosedNow
<1> QED
  BY <1>1, <1>2, PublishedGrows DEF RepoSound, OrNone, Configured

LEMMA JobKept ==
  ASSUME TransferInv, Grown, NEW u \in Users,
         repo'[u] = repo[u], job'[u] = job[u]
  PROVE  JobSound(u)'
<1>1. JobSound(u)
  BY Parts
<1>2. /\ Ended(u)' = Ended(u) /\ Wanted(u)' = Wanted(u) /\ Tracks(u)' = Tracks(u)
      /\ Source(u)' = Source(u)
  BY DEF Ended, Wanted, Tracks, Source
<1>3. CASE Ended(u)
  BY <1>2, <1>3 DEF JobSound
<1>4. CASE ~Ended(u)
  <2>1. job[u].url \in Servers => stored[job[u].url] \subseteq stored'[job[u].url]
    BY DEF Grown
  <2>2. At(u, "accepted", {"push"}) => job[u].phase # "started"
    BY DEF At
  <2> QED
    BY <1>1, <1>2, <1>4, <2>1, <2>2 DEF JobSound, OrNone, After, At
<1> QED
  BY <1>3, <1>4

LEMMA StepSound ==
  ASSUME TransferInv, NEW u \in Users, Grown,
         commits' \in Seq(SUBSET Nat),
         heads' \in [Servers -> Tips],
         \A s \in Servers : ServerSound(s)',
         repo' = [repo EXCEPT ![u] = repo'[u]],
         job' = [job EXCEPT ![u] = job'[u]],
         repo'[u] \in Repos,
         job'[u] \in EndedJobs \cup RunningJobs,
         RepoSound(u)',
         JobSound(u)'
  PROVE  TransferInv'
<1>1. repo \in [Users -> Repos] /\ job \in [Users -> EndedJobs \cup RunningJobs]
  BY DEF TransferInv, TransferTypeOK
<1>2. TransferTypeOK'
  BY <1>1 DEF TransferTypeOK, Grown
<1>3. ASSUME NEW v \in Users, v # u
      PROVE  RepoSound(v)' /\ JobSound(v)'
  <2>1. repo'[v] = repo[v] /\ job'[v] = job[v]
    BY <1>1, <1>3
  <2> QED
    BY <2>1, RepoKept, JobKept
<1> QED
  BY <1>2, <1>3 DEF TransferInv, Sound, Grown

\* Steps of a user that do not reach a server.
LEMMA LocalStep ==
  ASSUME TransferInv, NEW u \in Users,
         UNCHANGED <<commits, server>>,
         repo' = [repo EXCEPT ![u] = repo'[u]],
         job' = [job EXCEPT ![u] = job'[u]],
         repo'[u] \in Repos,
         job'[u] \in EndedJobs \cup RunningJobs,
         RepoSound(u)',
         JobSound(u)'
  PROVE  TransferInv'
<1>1. Grown
  BY GrownTrivially DEF server
<1>2. \A s \in Servers : ServerSound(s)
  BY Parts
<1>3. \A s \in Servers : ServerSound(s)'
  BY <1>1, <1>2, ClosedStays DEF ServerSound, Closed, ClosedNow, server
<1>4. commits' \in Seq(SUBSET Nat) /\ heads' \in [Servers -> Tips]
  BY DEF server, TransferInv, TransferTypeOK
<1> QED
  BY <1>1, <1>3, <1>4, StepSound

\* Steps that end a command owe nothing to it.
LEMMA ExitFacts ==
  ASSUME TransferInv, NEW u \in Users, NEW code \in {"success", "failure"},
         Exits(u, code)
  PROVE  /\ job' = [job EXCEPT ![u] = job'[u]]
         /\ job'[u] \in EndedJobs
         /\ JobSound(u)'
<1>1. job' = [job EXCEPT ![u] = Exited(code)] /\ job \in [Users -> EndedJobs \cup RunningJobs]
  BY DEF Exits, TransferInv, TransferTypeOK
<1>2. job'[u] = Exited(code)
  BY <1>1
<1>3. Ended(u)' /\ job'[u] \in EndedJobs
  BY <1>2 DEF Ended, Exited, EndedJobs
<1> QED
  BY <1>1, <1>2, <1>3 DEF JobSound

-----------------------------------------------------------------------------
(***************************************************************************)
(* The beginning of a command.                                             *)
(***************************************************************************)
LEMMA NoHeadsType == NoHeads \in Tips
  BY DEF NoHeads, Tips, NoCommit

LEMMA TaskType ==
  ASSUME NEW cmd \in {"fetch", "pull", "clone", "push"},
         NEW url \in Urls \cup Names, NEW remote \in Names \cup {Nowhere},
         NEW want \in {NoBranch} \cup PullWants \cup Specs
  PROVE  Task(cmd, url, remote, want) \in RunningJobs
  BY NoHeadsType DEF Task, RunningJobs

LEMMA TaskSound ==
  ASSUME NEW u \in Users,
         NEW cmd \in {"fetch", "pull", "clone", "push"}, NEW url, NEW remote, NEW want,
         job'[u] = Task(cmd, url, remote, want),
         cmd = "clone" => remote = Origin /\ repo'[u].remotes[Origin].tracks,
         cmd = "pull" => want \in PullWants,
         cmd = "push" => want \in Specs
  PROVE  JobSound(u)'
  BY DEF JobSound, Task, After, At

LEMMA FetchTaskShape ==
  ASSUME TransferInv, NEW u \in Users, NEW arg \in Names \cup Servers,
         NEW cmd, NEW want
  PROVE  \E url \in Urls \cup Names, remote \in Names \cup {Nowhere} :
           FetchTask(u, cmd, arg, want) = Task(cmd, url, remote, want)
<1>1. CASE arg \in Names /\ Configured(u, arg)
  <2>1. repo[u].remotes[arg].url \in Urls
    BY <1>1, Parts DEF Repos, RemoteRecords
  <2> QED
    BY <1>1, <2>1 DEF FetchTask
<1>2. CASE ~(arg \in Names /\ Configured(u, arg))
  BY <1>2 DEF FetchTask, Urls
<1> QED
  BY <1>1, <1>2

LEMMA StartsStep ==
  ASSUME TransferInv, NEW u \in Users,
         NEW cmd \in {"fetch", "pull", "push"},
         NEW url \in Urls \cup Names, NEW remote \in Names \cup {Nowhere},
         NEW want \in {NoBranch} \cup PullWants \cup Specs,
         Starts(u, Task(cmd, url, remote, want)),
         cmd = "pull" => want \in PullWants,
         cmd = "push" => want \in Specs
  PROVE  TransferInv'
<1> DEFINE task == Task(cmd, url, remote, want)
<1>1. /\ repo \in [Users -> Repos]
      /\ job \in [Users -> EndedJobs \cup RunningJobs]
  BY DEF TransferInv, TransferTypeOK
<1>2. job' = [job EXCEPT ![u] = task] /\ UNCHANGED <<commits, server, repo>>
  BY DEF Starts
<1>3. task \in RunningJobs
  BY TaskType
<1>4. job'[u] = task /\ repo'[u] = repo[u] /\ repo[u] \in Repos
  BY <1>1, <1>2
<1>5. JobSound(u)'
  BY <1>4, TaskSound
<1>6. Grown
  BY <1>2, GrownTrivially DEF server
<1>7. RepoSound(u)'
  BY <1>4, <1>6, RepoKept
<1>8. repo' = [repo EXCEPT ![u] = repo'[u]]
  BY <1>1, <1>2
<1> HIDE DEF task
<1> QED
  BY <1>2, <1>3, <1>4, <1>5, <1>7, <1>8, LocalStep

LEMMA CloneBeginStep ==
  ASSUME TransferInv, NEW u \in Users, NEW s \in Servers, CloneBegin(u, s)
  PROVE  TransferInv'
<1> DEFINE task == Task("clone", s, Origin, NoBranch)
           cfg == [r \in Names |-> IF r = Origin THEN NewRemote(s) ELSE NoRemote]
<1>1. /\ repo \in [Users -> Repos]
      /\ job \in [Users -> EndedJobs \cup RunningJobs]
      /\ repo[u] = EmptyRepo
      /\ UNCHANGED <<commits, server>>
      /\ job' = [job EXCEPT ![u] = task]
      /\ repo' = [repo EXCEPT ![u].remotes[Origin] = NewRemote(s)]
  BY DEF CloneBegin, TransferInv, TransferTypeOK
<1>2. repo'[u] = [EmptyRepo EXCEPT !.remotes[Origin] = NewRemote(s)]
  BY <1>1
<1>3. repo'[u] = [EmptyRepo EXCEPT !.remotes = cfg]
  BY <1>2 DEF EmptyRepo
<1>4. cfg \in [Names -> RemoteRecords]
  BY DEF NewRemote, NoRemote, RemoteRecords, Urls
<1>5. repo'[u] \in Repos
  BY <1>3, <1>4, NoHeadsType DEF EmptyRepo, Repos, Tips
<1>6. job'[u] = task /\ task \in RunningJobs
  BY <1>1, TaskType DEF Urls
<1>7. cfg[Origin] = NewRemote(s) /\ \A r \in Names \ {Origin} : cfg[r] = NoRemote
  OBVIOUS
<1>8. /\ repo'[u].has = {} /\ repo'[u].merging = {}
      /\ repo'[u].remotes = cfg
      /\ repo'[u].refs = NoHeads
      /\ \A r \in Names : repo'[u].tracking[r] = NoHeads
  BY <1>3 DEF EmptyRepo
<1> HIDE DEF cfg, task
<1>9. RepoSound(u)'
  BY <1>7, <1>8
  DEF RepoSound, Closed, NoHeads, OrNone, Configured, NewRemote, NoRemote
<1>10. JobSound(u)'
  BY <1>6, <1>7, <1>8, TaskSound DEF task, NewRemote
<1>11. repo' = [repo EXCEPT ![u] = repo'[u]] /\ job' = [job EXCEPT ![u] = job'[u]]
  BY <1>1
<1> QED
  BY <1>1, <1>5, <1>6, <1>9, <1>10, <1>11, LocalStep

LEMMA BeginSound ==
  ASSUME TransferInv, NEW u \in Users, BeginStep(u)
  PROVE  TransferInv'
<1>1. ASSUME NEW arg \in Names \cup Servers, FetchBegin(u, arg)
      PROVE  TransferInv'
  BY <1>1, FetchTaskShape, StartsStep DEF FetchBegin
<1>2. ASSUME NEW arg \in Names \cup Servers, NEW b \in Branches,
             NEW ffOnly \in BOOLEAN, PullBegin(u, arg, b, ffOnly)
      PROVE  TransferInv'
  <2>1. [branch |-> b, ffOnly |-> ffOnly] \in PullWants
    BY DEF PullWants
  <2> QED
    BY <1>2, <2>1, FetchTaskShape, StartsStep DEF PullBegin
<1>3. ASSUME NEW r \in Names, NEW spec \in Specs, PushBegin(u, r, spec)
      PROVE  TransferInv'
  <2>1. PushUrl(repo[u].remotes[r]) \in Urls
    BY Parts DEF PushUrl, Repos, RemoteRecords
  <2> QED
    BY <1>3, <2>1, StartsStep DEF PushBegin
<1> QED
  BY <1>1, <1>2, <1>3, CloneBeginStep DEF BeginStep

(***************************************************************************)
(* A failed command.                                                       *)
(***************************************************************************)
LEMMA EmptyRepoFacts ==
  ASSUME NEW u \in Users, repo'[u] = EmptyRepo
  PROVE  repo'[u] \in Repos /\ RepoSound(u)'
<1>1. EmptyRepo \in Repos
  BY NoHeadsType DEF EmptyRepo, Repos, NoRemote, RemoteRecords, Urls, Tips
<1>2. RepoSound(u)'
  BY DEF EmptyRepo, RepoSound, Closed, NoHeads, OrNone, NoRemote
<1> QED
  BY <1>1, <1>2

LEMMA FailStep ==
  ASSUME TransferInv, NEW u \in Users, Fail(u)
  PROVE  TransferInv'
<1>1. repo \in [Users -> Repos] /\ repo[u] \in Repos
  BY DEF TransferInv, TransferTypeOK
<1>2. /\ repo' = [repo EXCEPT ![u] = repo'[u]]
      /\ repo'[u] \in {repo[u], EmptyRepo}
      /\ UNCHANGED <<commits, server>>
  BY <1>1 DEF Fail
<1>3. /\ job' = [job EXCEPT ![u] = job'[u]]
      /\ job'[u] \in EndedJobs
      /\ JobSound(u)'
  BY ExitFacts DEF Fail
<1>4. Grown
  BY <1>2, GrownTrivially DEF server
<1>5. repo'[u] \in Repos /\ RepoSound(u)'
  BY <1>1, <1>2, <1>4, RepoKept, EmptyRepoFacts
<1> QED
  BY <1>2, <1>3, <1>5, LocalStep

-----------------------------------------------------------------------------
(***************************************************************************)
(* The calls of fetch, pull and clone.                                     *)
(***************************************************************************)
LEMMA EntersFacts ==
  ASSUME TransferInv, NEW u \in Users, ~Ended(u),
         NEW phase \in {"downloaded", "fetched", "accepted"}, Enters(u, phase)
  PROVE  /\ job' = [job EXCEPT ![u] = job'[u]]
         /\ job'[u] = [job[u] EXCEPT !.phase = phase]
         /\ job'[u] \in RunningJobs
         /\ job'[u].phase = phase
         /\ job'[u].cmd = job[u].cmd /\ job'[u].url = job[u].url
         /\ job'[u].remote = job[u].remote /\ job'[u].want = job[u].want
         /\ job'[u].seen = job[u].seen
<1>1. /\ job' = [job EXCEPT ![u].phase = phase]
      /\ job \in [Users -> EndedJobs \cup RunningJobs]
      /\ job[u] \in RunningJobs
  BY Parts DEF Enters, TransferInv, TransferTypeOK
<1>2. job'[u] = [job[u] EXCEPT !.phase = phase]
  BY <1>1
<1>3. job' = [job EXCEPT ![u] = job'[u]]
  BY <1>1, <1>2
<1> QED
  BY <1>1, <1>2, <1>3 DEF RunningJobs

LEMMA ConnectStep ==
  ASSUME TransferInv, NEW u \in Users, Connect(u)
  PROVE  TransferInv'
<1> DEFINE url == job[u].url
<1>1. ~Ended(u) /\ url \in Servers /\ UNCHANGED <<commits, server, repo>>
  BY DEF Connect, Ended
<1>2. /\ job \in [Users -> EndedJobs \cup RunningJobs] /\ job[u] \in RunningJobs
      /\ repo \in [Users -> Repos]
      /\ JobSound(u) /\ ServerSound(url)
      /\ heads[url] \in Tips
  BY <1>1, Parts DEF TransferInv, TransferTypeOK
<1>3. /\ job' = [job EXCEPT ![u] = job'[u]]
      /\ job'[u] = [job[u] EXCEPT !.phase = "connected", !.seen = heads[url]]
  BY <1>2 DEF Connect
<1>4. /\ job'[u] \in RunningJobs
      /\ job'[u].phase = "connected" /\ job'[u].seen = heads[url]
      /\ job'[u].cmd = job[u].cmd /\ job'[u].url = url
      /\ job'[u].remote = job[u].remote /\ job'[u].want = job[u].want
  BY <1>2, <1>3 DEF RunningJobs
<1>5. JobSound(u)'
  BY <1>1, <1>2, <1>4 DEF JobSound, ServerSound, After, At, server
<1>6. repo' = [repo EXCEPT ![u] = repo'[u]] /\ repo'[u] = repo[u] /\ repo[u] \in Repos
  BY <1>1, <1>2
<1>7. RepoSound(u)'
  BY <1>1, <1>6, RepoKept, GrownTrivially DEF server
<1> QED
  BY <1>1, <1>3, <1>4, <1>5, <1>6, <1>7, LocalStep

\* What the server listed is in its store, with its history.
LEMMA ListedFacts ==
  ASSUME TransferInv, NEW u \in Users, ~Ended(u), job[u].phase # "started"
  PROVE  /\ job[u].url \in Servers
         /\ Closed(stored[job[u].url])
         /\ \A b \in Branches :
              job[u].seen[b] \in OrNone(stored[job[u].url] \cap Published)
         /\ Wanted(u) \subseteq OrNone(Ids)
<1>1. /\ job[u].url \in Servers
      /\ \A b \in Branches : job[u].seen[b] \in OrNone(stored[job[u].url])
      /\ job[u].seen \in Tips
  BY Parts DEF JobSound, RunningJobs
<1>2. Closed(stored[job[u].url]) /\ stored[job[u].url] \in SUBSET Nat
  BY <1>1, Parts DEF ServerSound, TransferInv, TransferTypeOK
<1>3. stored[job[u].url] \subseteq Published
  BY <1>1, <1>2 DEF Published
<1>4. Wanted(u) \subseteq {job[u].seen[b] : b \in Branches}
  BY <1>1 DEF Wanted, Range, Tips
<1>5. Wanted(u) \subseteq OrNone(Ids)
  BY <1>1, <1>2, <1>4 DEF OrNone, Closed
<1> QED
  BY <1>1, <1>2, <1>3, <1>5 DEF OrNone

LEMMA DownloadStep ==
  ASSUME TransferInv, NEW u \in Users, Download(u)
  PROVE  TransferInv'
<1> DEFINE new == HistoryOf(Wanted(u))
<1>1. /\ ~Ended(u) /\ job[u].phase # "started"
      /\ Enters(u, "downloaded") /\ UNCHANGED <<commits, server>>
      /\ repo' = [repo EXCEPT ![u].has = @ \cup new]
      /\ job[u].cmd \in {"fetch", "pull", "clone"}
  BY DEF Download, At, Ended
<1>2. /\ repo \in [Users -> Repos] /\ repo[u] \in Repos
      /\ RepoSound(u) /\ JobSound(u) /\ GraphClosed
  BY Parts DEF TransferInv, TransferTypeOK
<1>3. Closed(new) /\ Wanted(u) \subseteq OrNone(new)
  BY <1>1, <1>2, ListedFacts, HistoryIsClosed
<1>4. new \in SUBSET Nat
  BY <1>3, IdFacts DEF Closed, TransferInv
<1> HIDE DEF new
<1>5. repo'[u] = [repo[u] EXCEPT !.has = repo[u].has \cup new]
  BY <1>1, <1>2
<1>6. /\ repo'[u] \in Repos
      /\ repo'[u].has = repo[u].has \cup new
      /\ repo'[u].refs = repo[u].refs /\ repo'[u].merging = repo[u].merging
      /\ repo'[u].remotes = repo[u].remotes
      /\ repo'[u].tracking = repo[u].tracking
      /\ repo' = [repo EXCEPT ![u] = repo'[u]]
  BY <1>1, <1>2, <1>4, <1>5 DEF Repos
<1>7. Closed(repo[u].has \cup new)
  BY <1>2, <1>3, ClosedUnion DEF RepoSound
<1>8. Closed(repo[u].has)' /\ Published' = Published
  BY <1>1, <1>6, <1>7 DEF Closed, Ids, Published, server
<1>9. RepoSound(u)'
  BY <1>2, <1>6, <1>8 DEF RepoSound, OrNone, Configured
<1>10. /\ job' = [job EXCEPT ![u] = job'[u]] /\ job'[u] \in RunningJobs
       /\ job'[u].phase = "downloaded"
       /\ job'[u].cmd = job[u].cmd /\ job'[u].url = job[u].url
       /\ job'[u].remote = job[u].remote /\ job'[u].want = job[u].want
       /\ job'[u].seen = job[u].seen
  BY <1>1, EntersFacts
<1>11. Wanted(u)' = Wanted(u)
  BY <1>6, <1>10 DEF Wanted, Tracks
<1>12. JobSound(u)'
  BY <1>1, <1>2, <1>3, <1>6, <1>10, <1>11
  DEF JobSound, Ended, After, At, OrNone, server
<1> QED
  BY <1>1, <1>6, <1>9, <1>10, <1>12, LocalStep

(***************************************************************************)
(* Moving the tracking branches of one remote.                             *)
(***************************************************************************)
LEMMA TrackedRepo ==
  ASSUME TransferInv, NEW u \in Users, NEW r \in Names, NEW t \in Tips,
         repo[u].remotes[r].tracks,
         \A b \in Branches : t[b] \in OrNone(repo[u].has \cap Published),
         repo'[u] = [repo[u] EXCEPT !.tracking[r] = t],
         UNCHANGED <<commits, server>>
  PROVE  /\ repo'[u] \in Repos
         /\ RepoSound(u)'
         /\ repo'[u].tracking[r] = t
         /\ repo'[u].has = repo[u].has /\ repo'[u].refs = repo[u].refs
         /\ repo'[u].remotes = repo[u].remotes
<1>1. repo[u] \in Repos /\ RepoSound(u)
  BY Parts
<1>2. /\ repo'[u] \in Repos
      /\ repo'[u].has = repo[u].has /\ repo'[u].refs = repo[u].refs
      /\ repo'[u].merging = repo[u].merging
      /\ repo'[u].remotes = repo[u].remotes
      /\ repo'[u].tracking = [repo[u].tracking EXCEPT ![r] = t]
  BY <1>1 DEF Repos
<1>3. /\ repo'[u].tracking[r] = t
      /\ \A n \in Names \ {r} : repo'[u].tracking[n] = repo[u].tracking[n]
  BY <1>1, <1>2 DEF Repos
<1>4. Closed(repo[u].has)' /\ Published' = Published
  BY <1>1, <1>2 DEF RepoSound, Closed, Ids, Published, server
<1>5. \A n \in Names, b \in Branches :
        repo'[u].tracking[n][b] \in OrNone(repo[u].has \cap Published)
  BY <1>1, <1>3 DEF RepoSound
<1>6. OrNone(repo[u].has \cap Published)' = OrNone(repo[u].has \cap Published)
      /\ OrNone(repo[u].has)' = OrNone(repo[u].has)
  BY <1>2, <1>4 DEF OrNone
<1>7. \A n \in Names : IF repo'[u].remotes[n].tracks THEN Configured(u, n)'
                       ELSE repo'[u].tracking[n] = NoHeads
  BY <1>1, <1>2, <1>3 DEF RepoSound, Configured
<1>8. RepoSound(u)'
  BY <1>1, <1>2, <1>4, <1>5, <1>6, <1>7 DEF RepoSound
<1> QED
  BY <1>2, <1>3, <1>8

LEMMA TrackedFacts ==
  ASSUME TransferInv, NEW u \in Users, Tracks(u),
         ~Ended(u), job[u].phase \in {"downloaded", "fetched"}
  PROVE  /\ Tracked(u) \in Tips
         /\ \A b \in Branches :
              /\ Tracked(u)[b] \in OrNone(repo[u].has \cap Published)
              /\ job[u].seen[b] \in {NoCommit, Tracked(u)[b]}
<1>1. /\ repo[u] \in Repos /\ RepoSound(u) /\ JobSound(u)
      /\ job[u] \in RunningJobs /\ job[u].remote \in Names
  BY Parts DEF Tracks
<1>2. job[u].seen \in Tips /\ repo[u].tracking[job[u].remote] \in Tips
  BY <1>1 DEF RunningJobs, Repos
<1>3. Tracked(u) \in Tips
  BY <1>2 DEF Tracked, Tips
<1>4. \A b \in Branches : job[u].seen[b] \in OrNone(repo[u].has)
  BY <1>1, <1>2 DEF JobSound, After, Wanted, Range, Tips
<1>5. \A b \in Branches : job[u].seen[b] \in OrNone(Published)
  BY ListedFacts DEF OrNone
<1>6. \A b \in Branches :
        repo[u].tracking[job[u].remote][b] \in OrNone(repo[u].has \cap Published)
  BY <1>1 DEF RepoSound
<1> QED
  BY <1>3, <1>4, <1>5, <1>6 DEF Tracked, OrNone

LEMMA UpdateTipsStep ==
  ASSUME TransferInv, NEW u \in Users, UpdateTips(u)
  PROVE  TransferInv'
<1>1. /\ ~Ended(u) /\ job[u].phase = "downloaded"
      /\ job[u].cmd \in {"fetch", "pull"}
      /\ FetchDone(u) /\ UNCHANGED <<commits, server>>
  BY DEF UpdateTips, At, Ended
<1>2. /\ repo \in [Users -> Repos] /\ repo[u] \in Repos /\ JobSound(u)
  BY Parts DEF TransferInv, TransferTypeOK
<1>3. /\ repo' = [repo EXCEPT ![u] = repo'[u]]
      /\ repo'[u] \in Repos /\ RepoSound(u)'
      /\ repo'[u].has = repo[u].has /\ repo'[u].refs = repo[u].refs
      /\ repo'[u].remotes = repo[u].remotes
      /\ Tracks(u) => \A b \in Branches :
           job[u].seen[b] \in {NoCommit, repo'[u].tracking[job[u].remote][b]}
  <2>1. CASE Tracks(u)
    <3> DEFINE r == job[u].remote
               t == Tracked(u)
    <3>1. r \in Names /\ repo[u].remotes[r].tracks
      BY <2>1 DEF Tracks
    <3>2. repo' = [repo EXCEPT ![u].tracking[r] = t]
      BY <2>1 DEF UpdateTips
    <3>3. /\ repo'[u] = [repo[u] EXCEPT !.tracking[r] = t]
          /\ repo' = [repo EXCEPT ![u] = repo'[u]]
      BY <1>2, <3>2
    <3>4. /\ t \in Tips
          /\ \A b \in Branches :
               /\ t[b] \in OrNone(repo[u].has \cap Published)
               /\ job[u].seen[b] \in {NoCommit, t[b]}
      BY <1>1, <2>1, TrackedFacts
    <3> HIDE DEF r, t
    <3>5. \A b \in Branches : t[b] \in OrNone(repo[u].has \cap Published)
      BY <3>4
    <3>6. t \in Tips
      BY <3>4
    <3>7. UNCHANGED <<commits, server>>
      BY <1>1
    <3>8. repo'[u] = [repo[u] EXCEPT !.tracking[r] = t]
      BY <3>3
    <3>9. /\ repo'[u] \in Repos /\ RepoSound(u)'
          /\ repo'[u].tracking[r] = t
          /\ repo'[u].has = repo[u].has /\ repo'[u].refs = repo[u].refs
          /\ repo'[u].remotes = repo[u].remotes
      BY <3>1, <3>5, <3>6, <3>7, <3>8, TrackedRepo
    <3> QED
      BY <3>3, <3>4, <3>9 DEF r
  <2>2. CASE ~Tracks(u)
    <3>1. repo' = repo
      BY <2>2 DEF UpdateTips
    <3> QED
      BY <1>1, <1>2, <2>2, <3>1, RepoKept, GrownTrivially DEF server
  <2> QED
    BY <2>1, <2>2
<1>4. CASE job[u].cmd = "pull"
  <2>1. /\ job' = [job EXCEPT ![u] = job'[u]] /\ job'[u] \in RunningJobs
        /\ job'[u].phase = "fetched"
        /\ job'[u].cmd = job[u].cmd /\ job'[u].url = job[u].url
        /\ job'[u].remote = job[u].remote /\ job'[u].want = job[u].want
        /\ job'[u].seen = job[u].seen
    BY <1>1, <1>4, EntersFacts DEF FetchDone
  <2>2. Wanted(u)' = Wanted(u) /\ Tracks(u)' = Tracks(u)
    BY <1>3, <2>1 DEF Wanted, Tracks
  <2>3. JobSound(u)'
    BY <1>1, <1>2, <1>3, <1>4, <2>1, <2>2
    DEF JobSound, Ended, After, At, server
  <2> QED
    BY <1>1, <1>3, <2>1, <2>3, LocalStep
<1>5. CASE job[u].cmd # "pull"
  BY <1>1, <1>3, <1>5, ExitFacts, LocalStep DEF FetchDone
<1> QED
  BY <1>4, <1>5

LEMMA CloneDoneStep ==
  ASSUME TransferInv, NEW u \in Users, CloneDone(u)
  PROVE  TransferInv'
<1> DEFINE first == job[u].seen[Main]
           mid == [repo[u] EXCEPT !.tracking[Origin] = Tracked(u)]
<1>1. /\ ~Ended(u) /\ job[u].phase = "downloaded" /\ job[u].cmd = "clone"
      /\ Exits(u, "success") /\ UNCHANGED <<commits, server>>
      /\ repo' = [repo EXCEPT ![u].tracking[Origin] = Tracked(u),
                              ![u].refs[Main] = first]
  BY DEF CloneDone, At, Ended
<1>2. /\ repo \in [Users -> Repos] /\ repo[u] \in Repos
      /\ JobSound(u) /\ RepoSound(u) /\ job[u] \in RunningJobs
  BY <1>1, Parts DEF TransferInv, TransferTypeOK
<1>3. /\ job[u].remote = Origin /\ repo[u].remotes[Origin].tracks /\ Tracks(u)
  BY <1>1, <1>2 DEF JobSound, Tracks
<1>4. /\ Tracked(u) \in Tips
      /\ \A b \in Branches : Tracked(u)[b] \in OrNone(repo[u].has \cap Published)
  BY <1>1, <1>3, TrackedFacts
<1>5. first \in OrNone(repo[u].has) /\ first \in Nat
  BY <1>1, <1>2, <1>3 DEF JobSound, After, Wanted, Range, Tips, RunningJobs
<1>6. /\ repo'[u].has = repo[u].has /\ repo'[u].merging = repo[u].merging
      /\ repo'[u].remotes = repo[u].remotes
      /\ repo'[u].refs = [repo[u].refs EXCEPT ![Main] = first]
      /\ repo'[u].tracking = [repo[u].tracking EXCEPT ![Origin] = Tracked(u)]
      /\ repo' = [repo EXCEPT ![u] = repo'[u]]
      /\ repo'[u] \in Repos
  BY <1>1, <1>2, <1>4, <1>5 DEF Repos, Tips
<1> HIDE DEF first
<1>7. \A b \in Branches : repo'[u].refs[b] \in OrNone(repo[u].has)
  BY <1>2, <1>5, <1>6 DEF RepoSound, Repos, Tips
<1>8. /\ repo'[u].tracking[Origin] = Tracked(u)
      /\ \A r \in Names \ {Origin} : repo'[u].tracking[r] = repo[u].tracking[r]
  BY <1>2, <1>6 DEF Repos
<1>9. Closed(repo[u].has)' /\ Published' = Published
  BY <1>1, <1>2, <1>6 DEF RepoSound, Closed, Ids, Published, server
<1>10. \A r \in Names, b \in Branches :
         repo'[u].tracking[r][b] \in OrNone(repo[u].has \cap Published)
  BY <1>2, <1>4, <1>8 DEF RepoSound
<1>11. ASSUME NEW r \in Names
       PROVE  IF repo'[u].remotes[r].tracks THEN Configured(u, r)'
              ELSE repo'[u].tracking[r] = NoHeads
  <2>1. Configured(u, r)' <=> Configured(u, r)
    BY <1>6 DEF Configured
  <2>2. CASE repo[u].remotes[r].tracks
    BY <1>2, <1>6, <2>1, <2>2 DEF RepoSound
  <2>3. CASE ~repo[u].remotes[r].tracks
    <3>1. r \in Names \ {Origin}
      BY <1>3, <2>3
    <3> QED
      BY <1>2, <1>6, <1>8, <2>3, <3>1 DEF RepoSound
  <2> QED
    BY <2>2, <2>3
<1>12. \A r \in Names, b \in Branches :
         repo'[u].tracking[r][b] \in OrNone(repo'[u].has \cap Published')
  BY <1>6, <1>9, <1>10 DEF OrNone
<1>13. \A b \in Branches : repo'[u].refs[b] \in OrNone(repo'[u].has)
  BY <1>6, <1>7 DEF OrNone
<1>14. RepoSound(u)'
  BY <1>2, <1>6, <1>9, <1>11, <1>12, <1>13 DEF RepoSound, OrNone
<1> QED
  BY <1>1, <1>6, <1>14, ExitFacts, LocalStep
-----------------------------------------------------------------------------
(***************************************************************************)
(* New commits.                                                            *)
(***************************************************************************)
LEMMA NewCommitStep ==
  ASSUME TransferInv, NEW u \in Users,
         NEW below, Closed(below), below \subseteq repo[u].has,
         NEW merging, merging \subseteq repo[u].has,
         NewCommit(u, below, merging),
         UNCHANGED server,
         job' = [job EXCEPT ![u] = job'[u]],
         job'[u] \in EndedJobs
  PROVE  TransferInv'
<1> DEFINE n == Len(commits) + 1
<1>1. /\ Len(commits) < MaxCommits /\ commits' = Append(commits, below)
      /\ repo' = [repo EXCEPT ![u].refs[Main] = n, ![u].has = @ \cup {n},
                              ![u].merging = merging]
      /\ UNCHANGED stored /\ UNCHANGED heads
  BY DEF NewCommit, server
<1>2. /\ Grown
      /\ commits' \in Seq(SUBSET Nat)
      /\ n \in Nat \ {NoCommit}
      /\ Ids' = Ids \cup {n}
      /\ commits'[n] = below
  BY <1>1, Appended
<1>3. /\ repo \in [Users -> Repos] /\ repo[u] \in Repos
      /\ RepoSound(u) /\ \A s \in Servers : ServerSound(s)
      /\ heads \in [Servers -> Tips]
  BY Parts DEF TransferInv, TransferTypeOK
<1> HIDE DEF n
<1>4. /\ repo'[u].has = repo[u].has \cup {n} /\ repo'[u].merging = merging
      /\ repo'[u].remotes = repo[u].remotes
      /\ repo'[u].refs = [repo[u].refs EXCEPT ![Main] = n]
      /\ repo'[u].tracking = repo[u].tracking
      /\ repo' = [repo EXCEPT ![u] = repo'[u]]
      /\ repo'[u] \in Repos
  BY <1>1, <1>2, <1>3 DEF Repos, Tips
<1>5. ClosedNow(repo[u].has)
  BY <1>2, <1>3, ClosedStays DEF RepoSound
<1>6. ClosedNow(repo[u].has \cup {n})
  BY <1>2, <1>5 DEF ClosedNow
<1>7. Closed(repo[u].has)'
  BY <1>4, <1>6 DEF Closed, ClosedNow
<1>8. Published' = Published
  BY <1>1 DEF Published
<1>9. \A b \in Branches : repo'[u].refs[b] \in OrNone(repo'[u].has)
  BY <1>3, <1>4 DEF RepoSound, Repos, Tips, OrNone
<1>10. RepoSound(u)'
  BY <1>3, <1>4, <1>7, <1>8, <1>9 DEF RepoSound, OrNone, Configured
<1>11. JobSound(u)'
  BY DEF EndedJobs, JobSound, Ended
<1>12. ASSUME NEW s \in Servers
       PROVE  ServerSound(s)'
  <2>1. ServerSound(s) /\ ClosedNow(stored[s])
    BY <1>2, <1>3, ClosedStays DEF ServerSound
  <2>2. Closed(stored[s])'
    BY <1>1, <2>1 DEF Closed, ClosedNow
  <2> QED
    BY <1>1, <2>1, <2>2 DEF ServerSound, OrNone
<1> QED
  BY <1>1, <1>2, <1>3, <1>4, <1>10, <1>11, <1>12, StepSound

\* Moving a reference or MERGE_HEAD within what the user has.
LEMMA NamesStep ==
  ASSUME TransferInv, NEW u \in Users,
         NEW refs \in Tips, \A b \in Branches : refs[b] \in OrNone(repo[u].has),
         NEW merging, merging \subseteq repo[u].has,
         repo' = [repo EXCEPT ![u].refs = refs, ![u].merging = merging],
         UNCHANGED <<commits, server>>,
         Exits(u, "failure")
  PROVE  TransferInv'
<1>1. /\ repo \in [Users -> Repos] /\ repo[u] \in Repos /\ RepoSound(u)
      /\ repo[u].has \in SUBSET Nat
  BY Parts DEF TransferInv, TransferTypeOK, Repos
<1>2. /\ repo'[u].has = repo[u].has /\ repo'[u].merging = merging
      /\ repo'[u].remotes = repo[u].remotes
      /\ repo'[u].refs = refs
      /\ repo'[u].tracking = repo[u].tracking
      /\ repo' = [repo EXCEPT ![u] = repo'[u]]
      /\ repo'[u] \in Repos
  BY <1>1 DEF Repos
<1>3. Closed(repo[u].has)' /\ Published' = Published
  BY <1>1, <1>2 DEF RepoSound, Closed, Ids, Published, server
<1>4. RepoSound(u)'
  BY <1>1, <1>2, <1>3 DEF RepoSound, OrNone, Configured
<1> QED
  BY <1>2, <1>4, ExitFacts, LocalStep

LEMMA PullMergesStep ==
  ASSUME TransferInv, NEW u \in Users, PullMerges(u)
  PROVE  TransferInv'
<1> DEFINE c == Fetched(u)
<1>1. /\ ~Ended(u) /\ job[u].cmd = "pull"
      /\ c # NoCommit /\ Tip(u) # NoCommit
      /\ Exits(u, "failure") /\ UNCHANGED server
  BY DEF PullMerges, At, Ended
<1>2. /\ repo \in [Users -> Repos] /\ repo[u] \in Repos
      /\ RepoSound(u) /\ JobSound(u) /\ GraphClosed
  BY Parts DEF TransferInv, TransferTypeOK
<1>3. job[u].want.branch \in Branches
  BY <1>1, <1>2 DEF JobSound, PullWants
<1>4. c \in repo[u].has /\ Tip(u) \in repo[u].has
  BY <1>1, <1>2, <1>3 DEF Fetched, RepoSound, OrNone, Tip
<1>5. repo[u].refs \in Tips /\ repo[u].has \in SUBSET Nat
      /\ repo[u].merging \subseteq repo[u].has
  BY <1>2 DEF Repos, RepoSound
<1> HIDE DEF c
<1>6. CASE repo' = [repo EXCEPT ![u].refs[Main] = c] /\ UNCHANGED commits
  <2> DEFINE refs == [repo[u].refs EXCEPT ![Main] = c]
  <2>1. repo' = [repo EXCEPT ![u].refs = refs, ![u].merging = repo[u].merging]
    BY <1>2, <1>6 DEF Repos
  <2>2. refs \in Tips
    BY <1>4, <1>5 DEF Tips
  <2>3. \A b \in Branches : refs[b] \in OrNone(repo[u].has)
    BY <1>2, <1>4, <1>5 DEF RepoSound, OrNone, Tips
  <2> HIDE DEF refs
  <2>4. UNCHANGED <<commits, server>> /\ Exits(u, "failure")
    BY <1>1, <1>6
  <2> QED
    BY <1>5, <2>1, <2>2, <2>3, <2>4, NamesStep
<1>7. CASE NewCommit(u, HistoryOf({Tip(u), c}), {c})
  <2>1. {Tip(u), c} \subseteq OrNone(repo[u].has) /\ {c} \subseteq repo[u].has
    BY <1>4 DEF OrNone
  <2>2. HistoryOf({Tip(u), c}) \subseteq repo[u].has
    BY <1>2, <2>1, HistoryInside DEF RepoSound
  <2>3. {Tip(u), c} \subseteq OrNone(Ids)
    BY <1>2, <2>1 DEF RepoSound, Closed, OrNone
  <2>4. Closed(HistoryOf({Tip(u), c}))
    BY <1>2, <2>3, HistoryIsClosed
  <2> QED
    BY <1>1, <1>7, <2>1, <2>2, <2>4, ExitFacts, NewCommitStep
<1>8. ASSUME NEW m \in {{}, {c}}, repo' = [repo EXCEPT ![u].merging = m],
             UNCHANGED commits
      PROVE  TransferInv'
  <2>1. repo' = [repo EXCEPT ![u].refs = repo[u].refs, ![u].merging = m]
    BY <1>2, <1>8 DEF Repos
  <2>2. m \subseteq repo[u].has
    BY <1>4
  <2> QED
    BY <1>1, <1>2, <1>5, <1>8, <2>1, <2>2, NamesStep DEF RepoSound
<1> QED
  BY <1>6, <1>7, <1>8 DEF PullMerges, c

LEMMA CommitStep ==
  ASSUME TransferInv, NEW u \in Users, NEW amend \in BOOLEAN, Commit(u, amend)
  PROVE  TransferInv'
<1> DEFINE parents == {Tip(u)} \cup repo[u].merging
           below == IF amend THEN commits[Tip(u)] ELSE HistoryOf(parents)
<1>1. /\ Ended(u) /\ UNCHANGED server /\ job' = job
      /\ amend => Tip(u) # NoCommit
      /\ NewCommit(u, below, repo[u].merging)
  BY DEF Commit
<1>2. /\ repo[u] \in Repos /\ RepoSound(u) /\ GraphClosed
      /\ job \in [Users -> EndedJobs \cup RunningJobs]
      /\ job[u] \in EndedJobs
  BY <1>1, Parts DEF TransferInv, TransferTypeOK
<1>3. /\ Tip(u) \in OrNone(repo[u].has) /\ parents \subseteq OrNone(repo[u].has)
      /\ repo[u].has \subseteq Ids /\ repo[u].merging \subseteq repo[u].has
      /\ Closed(repo[u].has)
  BY <1>2 DEF RepoSound, OrNone, Tip, Closed
<1>4. Closed(HistoryOf(parents)) /\ HistoryOf(parents) \subseteq repo[u].has
  BY <1>2, <1>3, HistoryInside, HistoryIsClosed DEF OrNone
<1>5. amend => Closed(commits[Tip(u)]) /\ commits[Tip(u)] \subseteq repo[u].has
  BY <1>1, <1>2, <1>3 DEF GraphClosed, Closed, OrNone
<1>6. Closed(below) /\ below \subseteq repo[u].has
  BY <1>4, <1>5
<1>7. job' = [job EXCEPT ![u] = job'[u]] /\ job'[u] \in EndedJobs
  BY <1>1, <1>2
<1> HIDE DEF below
<1> QED
  BY <1>1, <1>3, <1>6, <1>7, NewCommitStep

-----------------------------------------------------------------------------
(***************************************************************************)
(* push.                                                                   *)
(***************************************************************************)
LEMMA PushFacts ==
  ASSUME TransferInv, NEW u \in Users, ~Ended(u), job[u].cmd = "push"
  PROVE  /\ job[u].want \in Specs
         /\ job[u].want.dst \in Branches
         /\ Source(u) \in OrNone(repo[u].has)
         /\ Source(u) \in Nat
<1>1. /\ job[u].want \in Specs /\ RepoSound(u) /\ repo[u] \in Repos
  BY Parts DEF JobSound
<1>2. /\ job[u].want.dst \in Branches
      /\ job[u].want.src \in Branches \cup {NoBranch}
  BY <1>1
<1>3. job[u].want.src \in Branches =>
        /\ repo[u].refs[job[u].want.src] \in OrNone(repo[u].has)
        /\ repo[u].refs[job[u].want.src] \in Nat
  BY <1>1 DEF RepoSound, Repos, Tips
<1> QED
  BY <1>1, <1>2, <1>3 DEF Source, OrNone, NoCommit

LEMMA PushSendsStep ==
  ASSUME TransferInv, NEW u \in Users, PushSends(u)
  PROVE  TransferInv'
<1> DEFINE s == job[u].url
           new == HistoryOf({Source(u)})
<1>1. /\ ~Ended(u) /\ job[u].phase = "connected" /\ job[u].cmd = "push"
      /\ UNCHANGED <<commits, repo>>
  BY DEF PushSends, At, Ended
<1>2. /\ s \in Servers /\ job[u].want.dst \in Branches
      /\ Source(u) \in OrNone(repo[u].has) /\ Source(u) \in Nat
  BY <1>1, ListedFacts, PushFacts
<1>3. /\ heads \in [Servers -> Tips] /\ stored \in [Servers -> SUBSET Nat]
      /\ repo \in [Users -> Repos]
      /\ commits \in Seq(SUBSET Nat)
      /\ GraphClosed /\ RepoSound(u) /\ JobSound(u)
      /\ \A t \in Servers : ServerSound(t)
  BY Parts DEF TransferInv, TransferTypeOK
<1>4. repo' = [repo EXCEPT ![u] = repo'[u]] /\ repo'[u] = repo[u] /\ repo[u] \in Repos
  BY <1>1, <1>3
<1>5. CASE ServerAccepts(u)
  <2>1. /\ stored' = [stored EXCEPT ![s] = @ \cup new]
        /\ heads' = [heads EXCEPT ![s][job[u].want.dst] = Source(u)]
        /\ Enters(u, "accepted")
    BY <1>5 DEF PushSends
  <2>2. Closed(new) /\ new \in SUBSET Nat /\ Source(u) \in OrNone(new)
    <3>1. {Source(u)} \subseteq OrNone(Ids)
      BY <1>2, <1>3 DEF RepoSound, Closed, OrNone
    <3>2. Closed(new) /\ {Source(u)} \subseteq OrNone(new)
      BY <1>3, <3>1, HistoryIsClosed
    <3> QED
      BY <3>2, IdFacts DEF Closed, TransferInv
  <2> HIDE DEF new, s
  <2>3. /\ stored' \in [Servers -> SUBSET Nat]
        /\ stored'[s] = stored[s] \cup new
        /\ \A t \in Servers \ {s} : stored'[t] = stored[t]
        /\ heads' \in [Servers -> Tips]
        /\ heads'[s] = [heads[s] EXCEPT ![job[u].want.dst] = Source(u)]
        /\ \A t \in Servers \ {s} : heads'[t] = heads[t]
    BY <1>2, <1>3, <2>1, <2>2 DEF Tips
  <2>4. Ids' = Ids /\ GraphClosed'
    BY <1>1, <1>3 DEF Ids, GraphClosed, Closed
  <2>5. Grown
    BY <1>1, <2>3, <2>4 DEF Grown
  <2>6. ASSUME NEW t \in Servers
        PROVE  ServerSound(t)'
    <3>1. CASE t = s
      <4>1. Closed(stored[s] \cup new)
        BY <1>2, <1>3, <2>2, ClosedUnion DEF ServerSound
      <4>2. Closed(stored[t])'
        BY <1>1, <2>3, <3>1, <4>1 DEF Closed, Ids
      <4>3. \A b \in Branches : heads'[s][b] \in {heads[s][b], Source(u)}
        BY <1>2, <1>3, <2>3 DEF Tips
      <4> QED
        BY <1>2, <1>3, <2>2, <2>3, <3>1, <4>2, <4>3 DEF ServerSound, OrNone
    <3>2. CASE t # s
      BY <1>1, <1>3, <2>3, <3>2 DEF ServerSound, Closed, Ids
    <3> QED
      BY <3>1, <3>2
  <2>7. /\ job' = [job EXCEPT ![u] = job'[u]] /\ job'[u] \in RunningJobs
        /\ job'[u].phase = "accepted"
        /\ job'[u].cmd = job[u].cmd /\ job'[u].url = s
        /\ job'[u].remote = job[u].remote /\ job'[u].want = job[u].want
        /\ job'[u].seen = job[u].seen
    BY <1>1, <2>1, EntersFacts DEF s
  <2>8. Source(u)' = Source(u)
    BY <1>4, <2>7 DEF Source
  <2>9. JobSound(u)'
    <3>1. \A b \in Branches : job[u].seen[b] \in OrNone(stored[s])
      BY <1>1, <1>3 DEF JobSound, s
    <3> QED
      BY <1>1, <1>2, <1>3, <2>2, <2>3, <2>7, <2>8, <3>1
      DEF JobSound, After, At, OrNone
  <2>10. RepoSound(u)'
    BY <1>4, <2>5, RepoKept
  <2> QED
    BY <1>1, <1>3, <1>4, <2>3, <2>5, <2>6, <2>7, <2>9, <2>10, StepSound
<1>6. CASE ~ServerAccepts(u)
  <2>1. UNCHANGED server /\ Exits(u, "failure")
    BY <1>6 DEF PushSends
  <2>2. RepoSound(u)'
    BY <1>1, <1>4, <2>1, RepoKept, GrownTrivially DEF server
  <2>3. UNCHANGED <<commits, server>>
    BY <1>1, <2>1
  <2> QED
    BY <1>4, <2>1, <2>2, <2>3, ExitFacts, LocalStep
<1> QED
  BY <1>5, <1>6

LEMMA PushAnsweredStep ==
  ASSUME TransferInv, NEW u \in Users, PushAnswered(u)
  PROVE  TransferInv'
<1> DEFINE r == job[u].remote
           b == job[u].want.dst
<1>1. /\ ~Ended(u) /\ job[u].phase = "accepted" /\ job[u].cmd = "push"
      /\ At(u, "accepted", {"push"})
      /\ Exits(u, "failure")
  BY DEF PushAnswered, At, Ended
<1>2. UNCHANGED <<commits, server>>
  BY DEF PushAnswered
<1>3. /\ repo \in [Users -> Repos] /\ repo[u] \in Repos
      /\ RepoSound(u) /\ JobSound(u)
  BY Parts DEF TransferInv, TransferTypeOK
<1>4. CASE Tracks(u)
  <2> DEFINE t == [repo[u].tracking[r] EXCEPT ![b] = Source(u)]
  <2>1. r \in Names /\ repo[u].remotes[r].tracks
    BY <1>4 DEF Tracks
  <2>2. b \in Branches /\ Source(u) \in OrNone(repo[u].has) /\ Source(u) \in Nat
    BY <1>1, PushFacts
  <2>3. Source(u) \in OrNone(Published)
    <3>1. job[u].url \in Servers /\ Source(u) \in OrNone(stored[job[u].url])
      BY <1>1, <1>3 DEF JobSound
    <3> QED
      BY <2>2, <3>1 DEF Published, OrNone
  <2>4. repo[u].tracking[r] \in Tips
    BY <1>3, <2>1 DEF Repos
  <2>5. t \in Tips
    BY <2>2, <2>4 DEF Tips
  <2>6. \A d \in Branches : t[d] \in OrNone(repo[u].has \cap Published)
    BY <1>3, <2>1, <2>2, <2>3, <2>4 DEF RepoSound, OrNone, Tips
  <2>7. repo' = [repo EXCEPT ![u].tracking[r][b] = Source(u)]
    BY <1>4 DEF PushAnswered
  <2> HIDE DEF r, b
  <2>8. /\ repo'[u] = [repo[u] EXCEPT !.tracking[r] = t]
        /\ repo' = [repo EXCEPT ![u] = repo'[u]]
    BY <1>3, <2>1, <2>4, <2>7 DEF Repos
  <2> HIDE DEF t
  <2>9. repo'[u] = [repo[u] EXCEPT !.tracking[r] = t]
    BY <2>8
  <2>10. repo'[u] \in Repos /\ RepoSound(u)'
    BY <1>2, <2>1, <2>5, <2>6, <2>9, TrackedRepo
  <2> QED
    BY <1>1, <1>2, <2>8, <2>10, ExitFacts, LocalStep
<1>5. CASE ~Tracks(u)
  <2>1. repo' = repo
    BY <1>5 DEF PushAnswered
  <2>2. repo' = [repo EXCEPT ![u] = repo'[u]] /\ repo'[u] \in Repos /\ repo'[u] = repo[u]
    BY <1>3, <2>1
  <2>3. RepoSound(u)'
    BY <1>2, <2>2, RepoKept, GrownTrivially DEF server
  <2> QED
    BY <1>1, <1>2, <2>2, <2>3, ExitFacts, LocalStep
<1> QED
  BY <1>4, <1>5
-----------------------------------------------------------------------------
(***************************************************************************)
(* remote.  A step on the remotes has to leave each of them with tracking  *)
(* branches it may have.                                                   *)
(***************************************************************************)
LEMMA RemotesStep ==
  ASSUME TransferInv, NEW u \in Users, ChangesRemotes(u),
         repo' = [repo EXCEPT ![u] = repo'[u]],
         repo'[u] \in Repos,
         repo'[u].has = repo[u].has, repo'[u].refs = repo[u].refs,
         repo'[u].merging = repo[u].merging,
         \A r \in Names : \/ repo'[u].tracking[r] = NoHeads
                          \/ \E n \in Names : repo'[u].tracking[r] = repo[u].tracking[n],
         \A r \in Names : IF repo'[u].remotes[r].tracks THEN Configured(u, r)'
                         ELSE repo'[u].tracking[r] = NoHeads
  PROVE  TransferInv'
<1>1. /\ RepoSound(u)
      /\ job \in [Users -> EndedJobs \cup RunningJobs]
      /\ Ended(u) /\ job' = job /\ UNCHANGED <<commits, server>>
  BY Parts DEF ChangesRemotes, TransferInv, TransferTypeOK
<1>2. Closed(repo[u].has)' /\ Published' = Published
  BY <1>1 DEF RepoSound, Closed, Ids, Published, server
<1>3. \A r \in Names, b \in Branches :
        repo'[u].tracking[r][b] \in OrNone(repo[u].has \cap Published)
  BY <1>1 DEF RepoSound, NoHeads, OrNone
<1>4. RepoSound(u)'
  BY <1>1, <1>2, <1>3 DEF RepoSound, OrNone
<1>5. /\ job' = [job EXCEPT ![u] = job'[u]]
      /\ job'[u] \in EndedJobs \cup RunningJobs /\ JobSound(u)'
  BY <1>1 DEF JobSound, Ended
<1> QED
  BY <1>1, <1>4, <1>5, LocalStep

LEMMA RemoteTypes ==
  /\ NoRemote \in RemoteRecords
  /\ \A s \in Servers : NewRemote(s) \in RemoteRecords
  BY DEF NoRemote, NewRemote, RemoteRecords, Urls

LEMMA RemoteSound ==
  ASSUME TransferInv, NEW u \in Users, RemoteStep(u)
  PROVE  TransferInv'
<1> DEFINE cfg == repo[u].remotes
           track == repo[u].tracking
           Fits(c, t) == \A n \in Names : IF c[n].tracks
                           THEN {c[n].url, c[n].pushurl} # {Nowhere}
                           ELSE t[n] = NoHeads
           Old(t) == \A n \in Names : \/ t[n] = NoHeads
                                      \/ \E m \in Names : t[n] = track[m]
           Changes(c, t) == repo' = [repo EXCEPT ![u].remotes = c, ![u].tracking = t]
<1>1. /\ repo \in [Users -> Repos] /\ repo[u] \in Repos /\ RepoSound(u)
      /\ cfg \in [Names -> RemoteRecords] /\ track \in [Names -> Tips]
  BY Parts DEF TransferInv, TransferTypeOK, Repos
<1>2. Fits(cfg, track) /\ Old(track)
  BY <1>1 DEF RepoSound, Configured
<1>3. ASSUME NEW c \in [Names -> RemoteRecords], NEW t \in [Names -> Tips],
             ChangesRemotes(u), Changes(c, t), Old(t), Fits(c, t)
      PROVE  TransferInv'
  <2>1. /\ repo' = [repo EXCEPT ![u] = repo'[u]]
        /\ repo'[u] \in Repos
        /\ repo'[u].has = repo[u].has /\ repo'[u].refs = repo[u].refs
        /\ repo'[u].merging = repo[u].merging
        /\ repo'[u].remotes = c /\ repo'[u].tracking = t
    <3>1. repo' = [repo EXCEPT ![u].remotes = c, ![u].tracking = t]
      BY <1>3
    <3> HIDE DEF Changes, Fits, Old, cfg, track
    <3> QED
      BY <1>1, <3>1 DEF Repos
  <2> HIDE DEF Changes
  <2>2. \A r \in Names :
          \/ repo'[u].tracking[r] = NoHeads
          \/ \E n \in Names : repo'[u].tracking[r] = repo[u].tracking[n]
    BY <1>3, <2>1
  <2>3. \A r \in Names : IF repo'[u].remotes[r].tracks THEN Configured(u, r)'
                         ELSE repo'[u].tracking[r] = NoHeads
    BY <1>3, <2>1 DEF Configured
  <2> QED
    BY <1>3, <2>1, <2>2, <2>3, RemotesStep
<1> HIDE DEF Fits, Old, Changes, cfg, track
<1>4. ASSUME NEW r \in Names, RemoteRemove(u, r)
      PROVE  TransferInv'
  <2> DEFINE c == [cfg EXCEPT ![r] = NoRemote]
             t == [track EXCEPT ![r] = NoHeads]
  <2>1. Changes(c, t) /\ ChangesRemotes(u)
    BY <1>1, <1>4 DEF RemoteRemove, Changes, cfg, track
  <2>2. c \in [Names -> RemoteRecords]
    BY <1>1, RemoteTypes
  <2>3. t \in [Names -> Tips]
    BY <1>1, NoHeadsType
  <2>4. Old(t)
    BY <1>1, <1>2 DEF Old
  <2>5. Fits(c, t)
    BY <1>1, <1>2 DEF NoRemote, Fits
  <2> HIDE DEF c, t
  <2> QED
    BY <2>1, <2>2, <2>3, <2>4, <2>5, <1>3
<1>5. ASSUME NEW r \in Names, NEW s \in Servers, RemoteAdd(u, r, s)
      PROVE  TransferInv'
  <2> DEFINE c == [cfg EXCEPT ![r] = NewRemote(s)]
  <2>1. Changes(c, track) /\ ChangesRemotes(u)
    BY <1>1, <1>5 DEF RemoteAdd, Repos, Changes, cfg, track
  <2>2. c \in [Names -> RemoteRecords]
    BY <1>1, RemoteTypes
  <2>3. Fits(c, track)
    BY <1>1, <1>2 DEF NewRemote, Fits
  <2> HIDE DEF c
  <2> QED
    BY <1>1, <1>2, <2>1, <2>2, <2>3, <1>3
<1>6. ASSUME NEW r \in Names, NEW s \in Servers, NEW push \in BOOLEAN,
             RemoteSetUrl(u, r, s, push)
      PROVE  TransferInv'
  <2> DEFINE c == IF push THEN [cfg EXCEPT ![r].pushurl = s]
                  ELSE [cfg EXCEPT ![r].url = s]
  <2>1. Changes(c, track) /\ ChangesRemotes(u)
    BY <1>1, <1>6 DEF RemoteSetUrl, Repos, Changes, cfg, track
  <2>2. c \in [Names -> RemoteRecords]
    BY <1>1 DEF RemoteRecords, Urls
  <2>3. /\ c[r].tracks = cfg[r].tracks /\ {c[r].url, c[r].pushurl} # {Nowhere}
        /\ \A n \in Names \ {r} : c[n] = cfg[n]
    BY <1>1 DEF RemoteRecords
  <2> HIDE DEF c
  <2>4. Fits(c, track)
    BY <1>2, <2>3 DEF Fits
  <2> QED
    BY <1>1, <1>2, <2>1, <2>2, <2>4, <1>3
<1>7. ASSUME NEW r \in Names, NEW new \in Names, RemoteRename(u, r, new)
      PROVE  TransferInv'
  <2> DEFINE c == [cfg EXCEPT ![new] = cfg[r], ![r] = NoRemote]
             t == [track EXCEPT ![new] = track[r], ![r] = NoHeads]
  <2>1. ChangesRemotes(u) /\ r # new
    BY <1>7 DEF RemoteRename
  <2>2. /\ repo' = [repo EXCEPT ![u].remotes[new] = repo[u].remotes[r],
                                ![u].remotes[r] = NoRemote,
                                ![u].tracking[new] = repo[u].tracking[r],
                                ![u].tracking[r] = NoHeads]
    BY <1>7 DEF RemoteRename
  <2>3. Changes(c, t)
    <3> DEFINE a == repo[u].remotes
               d == repo[u].tracking
               R1 == [repo EXCEPT ![u].remotes[new] = repo[u].remotes[r]]
               R2 == [R1 EXCEPT ![u].remotes[r] = NoRemote]
               R3 == [R2 EXCEPT ![u].tracking[new] = repo[u].tracking[r]]
               R4 == [R3 EXCEPT ![u].tracking[r] = NoHeads]
    <3>1. R1 = [repo EXCEPT ![u].remotes = [a EXCEPT ![new] = a[r]]]
      BY <1>1
    <3>2. R2 = [repo EXCEPT ![u].remotes = c]
      BY <1>1, <3>1 DEF Repos, cfg
    <3>3. R3 = [repo EXCEPT ![u].remotes = c,
                            ![u].tracking = [d EXCEPT ![new] = d[r]]]
      BY <1>1, <3>2 DEF Repos
    <3>4. R4 = [R3 EXCEPT ![u] = [R3[u] EXCEPT !.tracking = [R3[u].tracking EXCEPT ![r] = NoHeads]]]
      OBVIOUS
    <3>5. /\ R3[u].tracking = [d EXCEPT ![new] = d[r]]
          /\ R3[u] = [repo[u] EXCEPT !.remotes = c, !.tracking = [d EXCEPT ![new] = d[r]]]
          /\ R3 = [repo EXCEPT ![u] = R3[u]]
      BY <1>1, <3>3 DEF Repos
    <3> HIDE DEF R3, R4
    <3>6. [R3[u].tracking EXCEPT ![r] = NoHeads] = t
      BY <3>5 DEF t, track
    <3> HIDE DEF t
    <3>7. R4 = [repo EXCEPT ![u] = [repo[u] EXCEPT !.remotes = c, !.tracking = t]]
      BY <1>1, <3>4, <3>5, <3>6
    <3>8. R4 = [repo EXCEPT ![u].remotes = c, ![u].tracking = t]
      BY <1>1, <3>7
    <3> QED
      BY <2>2, <3>8 DEF Changes, R4, R3
  <2>4. c \in [Names -> RemoteRecords]
    BY <1>1, RemoteTypes
  <2>5. t \in [Names -> Tips]
    BY <1>1, NoHeadsType
  <2>6. Old(t)
    BY <1>1, <1>2 DEF Old
  <2>7. Fits(c, t)
    BY <1>1, <1>2, <2>1 DEF NoRemote, Fits
  <2> HIDE DEF c, t
  <2> QED
    BY <2>1, <2>3, <2>4, <2>5, <2>6, <2>7, <1>3
<1> QED
  BY <1>4, <1>5, <1>6, <1>7 DEF RemoteStep

-----------------------------------------------------------------------------
(***************************************************************************)
(* The invariant holds in every reachable state.                           *)
(***************************************************************************)
LEMMA InitSound ==
  ASSUME TransferInit
  PROVE  TransferInv
<1>1. commits \in Seq(SUBSET Nat) /\ Len(commits) = 0 /\ Ids = {}
  BY DEF TransferInit, Ids
<1>2. heads \in [Servers -> Tips] /\ stored \in [Servers -> SUBSET Nat]
  BY NoHeadsType DEF TransferInit
<1>3. EmptyRepo \in Repos
  BY NoHeadsType, RemoteTypes DEF EmptyRepo, Repos
<1>4. Exited("success") \in EndedJobs
  BY DEF Exited, EndedJobs
<1>5. TransferTypeOK
  BY <1>1, <1>2, <1>3, <1>4 DEF TransferTypeOK, TransferInit
<1>6. GraphClosed
  BY <1>1 DEF GraphClosed
<1>7. ASSUME NEW s \in Servers
      PROVE  ServerSound(s)
  BY DEF TransferInit, ServerSound, Closed, NoHeads, OrNone
<1>8. ASSUME NEW u \in Users
      PROVE  RepoSound(u) /\ JobSound(u)
  <2>1. repo[u] = EmptyRepo /\ job[u] = Exited("success")
    BY DEF TransferInit
  <2>2. Ended(u)
    BY <2>1 DEF Ended, Exited
  <2>3. RepoSound(u)
    BY <2>1 DEF RepoSound, EmptyRepo, Closed, NoHeads, NoRemote, OrNone
  <2> QED
    BY <2>2, <2>3 DEF JobSound
<1> QED
  BY <1>5, <1>6, <1>7, <1>8 DEF TransferInv, Sound

LEMMA NextSound ==
  ASSUME TransferInv, [TransferNext]_transferVars
  PROVE  TransferInv'
<1>1. ASSUME NEW u \in Users, FetchStep(u)
      PROVE  TransferInv'
  BY <1>1, ConnectStep, DownloadStep, UpdateTipsStep, CloneDoneStep DEF FetchStep
<1>2. ASSUME NEW u \in Users, PushStep(u)
      PROVE  TransferInv'
  BY <1>2, PushSendsStep, PushAnsweredStep DEF PushStep
<1>3. CASE UNCHANGED transferVars
  <2>1. UNCHANGED <<commits, heads, stored, repo, job>>
    BY <1>3 DEF transferVars
  <2>2. Grown
    BY <2>1, GrownTrivially
  <2>3. ASSUME NEW u \in Users
        PROVE  RepoSound(u)' /\ JobSound(u)'
    BY <2>1, <2>2, RepoKept, JobKept
  <2>4. ASSUME NEW s \in Servers
        PROVE  ServerSound(s)'
    BY <2>1, <2>2, ClosedStays DEF TransferInv, Sound, ServerSound, Closed, ClosedNow
  <2>5. TransferTypeOK'
    BY <2>1 DEF TransferInv, TransferTypeOK
  <2> QED
    BY <2>2, <2>3, <2>4, <2>5 DEF TransferInv, Sound, Grown
<1>4. CASE TransferNext
  BY <1>1, <1>2, <1>4, BeginSound, PullMergesStep, FailStep, RemoteSound, CommitStep
     DEF TransferNext
<1> QED
  BY <1>3, <1>4

LEMMA InvHolds == TransferSpec => []TransferInv
  BY InitSound, NextSound, PTL DEF TransferSpec

-----------------------------------------------------------------------------
(***************************************************************************)
(* What users can rely on.                                                 *)
(***************************************************************************)
LEMMA RangeInside ==
  ASSUME NEW f \in Tips, NEW S, \A b \in Branches : f[b] \in OrNone(S)
  PROVE  Range(f) \subseteq OrNone(S)
  BY DEF Tips, Range

LEMMA MissingNothing ==
  ASSUME TransferInv
  PROVE  NothingMissing
<1>1. ASSUME NEW u \in Users
      PROVE  Complete(Range(repo[u].refs) \cup repo[u].merging
                        \cup UNION {Range(repo[u].tracking[r]) : r \in Names},
                      repo[u].has)
  <2> DEFINE has == repo[u].has
  <2>1. RepoSound(u) /\ repo[u] \in Repos
    BY Parts
  <2>2. Range(repo[u].refs) \cup repo[u].merging \subseteq OrNone(has)
    BY <2>1, RangeInside DEF RepoSound, Repos, OrNone
  <2>3. ASSUME NEW r \in Names
        PROVE  Range(repo[u].tracking[r]) \subseteq OrNone(has)
    <3>1. repo[u].tracking[r] \in Tips
      BY <2>1 DEF Repos
    <3>2. \A b \in Branches : repo[u].tracking[r][b] \in OrNone(has)
      BY <2>1 DEF RepoSound, OrNone
    <3> QED
      BY <3>1, <3>2, RangeInside
  <2>4. UNION {Range(repo[u].tracking[r]) : r \in Names} \subseteq OrNone(has)
    BY <2>3
  <2> QED
    BY <2>1, <2>2, <2>4, HistoryInside DEF Complete, RepoSound
<1>2. ASSUME NEW s \in Servers
      PROVE  Complete(Range(heads[s]), stored[s])
  <2>1. ServerSound(s) /\ heads[s] \in Tips
    BY DEF TransferInv, TransferTypeOK, Sound
  <2>2. Range(heads[s]) \subseteq OrNone(stored[s])
    BY <2>1, RangeInside DEF ServerSound
  <2> QED
    BY <2>1, <2>2, HistoryInside DEF Complete, ServerSound
<1> QED
  BY <1>1, <1>2 DEF NothingMissing

(***************************************************************************)
(* Wherever commands are cut off, and however they interleave, no branch,  *)
(* tracking branch or MERGE_HEAD of a user and no branch of a server names *)
(* a commit that is not stored there with all its history.                 *)
(***************************************************************************)
THEOREM NothingIsMissing == TransferSpec => []NothingMissing
  BY InvHolds, MissingNothing, PTL

LEMMA TrackingPublished ==
  ASSUME TransferInv
  PROVE  TrackingIsPublished
<1>1. stored \in [Servers -> SUBSET Nat]
  BY DEF TransferInv, TransferTypeOK
<1>2. Published = UNION Range(stored)
  BY <1>1 DEF Published, Range
<1>3. ASSUME NEW u \in Users, NEW r \in Names
      PROVE  Range(repo[u].tracking[r]) \subseteq OrNone(Published)
  <2>1. RepoSound(u) /\ repo[u].tracking[r] \in Tips
    BY Parts DEF Repos
  <2>2. \A b \in Branches : repo[u].tracking[r][b] \in OrNone(Published)
    BY <2>1 DEF RepoSound, OrNone
  <2> QED
    BY <2>1, <2>2, RangeInside
<1> QED
  BY <1>2, <1>3 DEF TrackingIsPublished, OrNone

(***************************************************************************)
(* A tracking branch names a commit that a server has, also when a push    *)
(* was refused because another one had moved the server's branch.          *)
(***************************************************************************)
THEOREM TrackingStaysPublished == TransferSpec => []TrackingIsPublished
  BY InvHolds, TrackingPublished, PTL

LEMMA Adopted ==
  ASSUME TransferInv
  PROVE  NoOrphans
  BY DEF TransferInv, Sound, RepoSound, NoOrphans

(***************************************************************************)
(* No sequence of remote commands leaves a tracking branch without its     *)
(* remote.                                                                 *)
(***************************************************************************)
THEOREM TrackingIsOwned == TransferSpec => []NoOrphans
  BY InvHolds, Adopted, PTL

(***************************************************************************)
(* An unforced push puts the new tip on top of what the server's branch    *)
(* was, and a forced one replaces only what its user was shown.            *)
(***************************************************************************)
LEMMA PushStepsKeep ==
  ASSUME TransferInv
  PROVE  PushStepKeeps
<1> SUFFICES ASSUME NEW u \in Users, PushSends(u), heads' # heads
             PROVE  LET old == heads[job[u].url][job[u].want.dst]
                    IN  IF Forced(u) THEN old = job[u].seen[job[u].want.dst]
                        ELSE old \in History(Source(u)) \cup {NoCommit}
  BY DEF PushStepKeeps
<1>1. PushAllowed(u) /\ ServerAccepts(u)
  BY DEF PushSends, server
<1> QED
  BY <1>1 DEF PushAllowed, ServerAccepts, Forced

(***************************************************************************)
(* A push never takes a commit off a server's branch behind anybody's back.*)
(* An unforced one keeps the history the branch had, also when others have *)
(* pushed since the list was read; a forced one replaces what it has seen. *)
(***************************************************************************)
THEOREM PushesKeepHistory == TransferSpec => PushKeepsHistory
  BY InvHolds, PushStepsKeep, PTL DEF TransferSpec, PushKeepsHistory

-----------------------------------------------------------------------------
(***************************************************************************)
(* What a fetch that reports success has done.                             *)
(***************************************************************************)
TruthfulFor(u) ==
  ~Ended(u) /\ job'[u].phase = "ended" /\ job'[u].exit = "success" =>
    /\ Complete(Wanted(u), repo'[u].has)
    /\ Tracks(u) => \A b \in Branches :
         job[u].seen[b] \in {NoCommit, repo'[u].tracking[job[u].remote][b]}

LEMMA EndsTruthfully ==
  ASSUME TransferInv, NEW u \in Users, job[u].phase = "downloaded",
         repo'[u].has = repo[u].has,
         Tracks(u) => repo'[u].tracking[job[u].remote] = Tracked(u)
  PROVE  TruthfulFor(u)
<1>1. SUFFICES ASSUME ~Ended(u)
               PROVE  TruthfulFor(u)
  BY DEF TruthfulFor
<1>2. RepoSound(u) /\ Wanted(u) \subseteq OrNone(repo[u].has)
  BY <1>1, Parts DEF JobSound, After
<1>3. Complete(Wanted(u), repo'[u].has)
  BY <1>2, HistoryInside DEF Complete, RepoSound
<1> QED
  BY <1>1, <1>3, TrackedFacts DEF TruthfulFor

\* Only these two steps end a command with success.
LEMMA EndsOtherwise ==
  ASSUME TransferInv, NEW u \in Users, NEW v \in Users,
         \/ BeginStep(v) \/ Connect(v) \/ Download(v) \/ PullMerges(v)
         \/ PushStep(v) \/ Fail(v) \/ RemoteStep(v)
         \/ \E amend \in BOOLEAN : Commit(v, amend)
  PROVE  TruthfulFor(u)
<1>1. /\ job \in [Users -> EndedJobs \cup RunningJobs]
      /\ job[v] \in EndedJobs \cup RunningJobs
      /\ ~Ended(v) => job[v] \in RunningJobs
  BY Parts DEF TransferInv, TransferTypeOK
<1>2. CASE UNCHANGED job
  BY <1>2 DEF TruthfulFor, Ended
<1>3. CASE Ended(v) /\ \E j : job' = [job EXCEPT ![v] = j]
  <2>1. u = v \/ job'[u] = job[u]
    BY <1>1, <1>3
  <2> QED
    BY <1>3, <2>1 DEF TruthfulFor, Ended
<1>4. CASE Exits(v, "failure")
  <2>1. IF u = v THEN job'[u] = Exited("failure") ELSE job'[u] = job[u]
    BY <1>1, <1>4 DEF Exits
  <2> QED
    BY <2>1 DEF TruthfulFor, Ended, Exited
<1>5. ASSUME NEW phase \in {"connected", "downloaded", "accepted"}, NEW seen,
             ~Ended(v),
             job' = [job EXCEPT ![v].phase = phase, ![v].seen = seen]
      PROVE  TruthfulFor(u)
  <2>1. u = v \/ job'[u] = job[u]
    BY <1>1, <1>5
  <2>2. job'[v].phase = phase
    BY <1>1, <1>5 DEF RunningJobs
  <2> QED
    BY <2>1, <2>2 DEF TruthfulFor, Ended
<1>6. ASSUME NEW phase \in {"downloaded", "accepted"}, ~Ended(v), Enters(v, phase)
      PROVE  TruthfulFor(u)
  <2>1. job' = [job EXCEPT ![v].phase = phase]
    BY <1>6 DEF Enters
  <2>2. u = v \/ job'[u] = job[u]
    BY <1>1, <2>1
  <2>3. job'[v].phase = phase
    BY <1>1, <1>6, <2>1 DEF RunningJobs
  <2> QED
    BY <2>2, <2>3 DEF TruthfulFor, Ended
<1>7. CASE BeginStep(v)
  BY <1>3, <1>7 DEF BeginStep, FetchBegin, PullBegin, PushBegin, CloneBegin, Starts
<1>8. CASE Connect(v)
  BY <1>5, <1>8 DEF Connect, Ended
<1>9. CASE Download(v)
  <2>1. ~Ended(v) /\ Enters(v, "downloaded")
    BY <1>9 DEF Download, At, Ended
  <2> QED
    BY <1>6, <2>1
<1>10. CASE PullMerges(v)
  BY <1>4, <1>10 DEF PullMerges
<1>11. CASE PushStep(v)
  <2>1. \/ ~Ended(v) /\ Enters(v, "accepted")
        \/ Exits(v, "failure")
    <3>1. CASE PushSends(v)
      BY <3>1 DEF PushSends, At, Ended
    <3>2. CASE PushAnswered(v)
      BY <3>2 DEF PushAnswered
    <3> QED
      BY <1>11, <3>1, <3>2 DEF PushStep
  <2> QED
    BY <1>4, <1>6, <2>1
<1>12. CASE Fail(v)
  <2>1. Exits(v, "failure")
    BY <1>12 DEF Fail
  <2> QED
    BY <1>4, <2>1
<1>13. CASE RemoteStep(v)
  <2>1. UNCHANGED job
    <3>1. PICK r \in Names :
            \/ RemoteRemove(v, r) \/ \E s \in Servers : RemoteAdd(v, r, s)
            \/ \E s \in Servers, push \in BOOLEAN : RemoteSetUrl(v, r, s, push)
            \/ \E new \in Names : RemoteRename(v, r, new)
      BY <1>13, Zenon DEF RemoteStep
    <3>2. RemoteRemove(v, r) => UNCHANGED job
      BY DEF RemoteRemove, ChangesRemotes
    <3>3. \A s \in Servers : RemoteAdd(v, r, s) => UNCHANGED job
      BY DEF RemoteAdd, ChangesRemotes
    <3>4. \A s \in Servers, push \in BOOLEAN : RemoteSetUrl(v, r, s, push) => UNCHANGED job
      BY DEF RemoteSetUrl, ChangesRemotes
    <3>5. \A new \in Names : RemoteRename(v, r, new) => UNCHANGED job
      BY DEF RemoteRename, ChangesRemotes
    <3> QED
      BY <3>1, <3>2, <3>3, <3>4, <3>5
  <2> QED
    BY <1>2, <2>1
<1>14. CASE \E amend \in BOOLEAN : Commit(v, amend)
  BY <1>2, <1>14 DEF Commit
<1> QED
  BY <1>7, <1>8, <1>9, <1>10, <1>11, <1>12, <1>13, <1>14

LEMMA TruthfulSteps ==
  ASSUME TransferInv, [TransferNext]_transferVars
  PROVE  FetchStepTruthful
<1>1. ASSUME NEW u \in Users, NEW v \in Users, UpdateTips(v)
      PROVE  TruthfulFor(u)
  <2>1. /\ job \in [Users -> EndedJobs \cup RunningJobs]
        /\ repo \in [Users -> Repos] /\ repo[v] \in Repos
        /\ At(v, "downloaded", {"fetch", "pull"}) /\ FetchDone(v)
    BY <1>1, Parts DEF TransferInv, TransferTypeOK, UpdateTips
  <2>2. CASE u # v
    <3>1. job'[u] = job[u]
      BY <2>1, <2>2 DEF FetchDone, Enters, Exits
    <3> QED
      BY <3>1 DEF TruthfulFor, Ended
  <2>3. CASE u = v
    <3>1. CASE Tracks(v)
      <4>1. repo' = [repo EXCEPT ![v].tracking[job[v].remote] = Tracked(v)]
        BY <1>1, <3>1 DEF UpdateTips
      <4>2. /\ repo'[v].has = repo[v].has
            /\ repo'[v].tracking[job[v].remote] = Tracked(v)
        BY <2>1, <3>1, <4>1 DEF Repos, Tracks
      <4> QED
        BY <2>1, <2>3, <4>2, EndsTruthfully DEF At
    <3>2. CASE ~Tracks(v)
      <4>1. repo' = repo
        BY <1>1, <3>2 DEF UpdateTips
      <4> QED
        BY <2>1, <2>3, <3>2, <4>1, EndsTruthfully DEF At
    <3> QED
      BY <3>1, <3>2
  <2> QED
    BY <2>2, <2>3
<1>2. ASSUME NEW u \in Users, NEW v \in Users, CloneDone(v)
      PROVE  TruthfulFor(u)
  <2>1. /\ job \in [Users -> EndedJobs \cup RunningJobs]
        /\ repo \in [Users -> Repos] /\ repo[v] \in Repos
        /\ job[v].phase = "downloaded" /\ job[v].cmd = "clone"
        /\ ~Ended(v) /\ Exits(v, "success")
        /\ JobSound(v)
    BY <1>2, Parts DEF TransferInv, TransferTypeOK, CloneDone, At, Ended
  <2>2. CASE u # v
    <3>1. job'[u] = job[u]
      BY <2>1, <2>2 DEF Exits
    <3> QED
      BY <3>1 DEF TruthfulFor, Ended
  <2>3. CASE u = v
    <3>1. job[v].remote = Origin
      BY <2>1 DEF JobSound
    <3>2. repo' = [repo EXCEPT ![v].tracking[Origin] = Tracked(v),
                               ![v].refs[Main] = job[v].seen[Main]]
      BY <1>2 DEF CloneDone
    <3>3. /\ repo'[v].has = repo[v].has
          /\ repo'[v].tracking[Origin] = Tracked(v)
      BY <2>1, <3>2 DEF Repos
    <3> QED
      BY <2>1, <2>3, <3>1, <3>3, EndsTruthfully
  <2> QED
    BY <2>2, <2>3
<1>3. ASSUME NEW u \in Users
      PROVE  TruthfulFor(u)
  <2>1. CASE UNCHANGED transferVars
    BY <2>1 DEF transferVars, TruthfulFor, Ended
  <2>2. CASE TransferNext
    BY <1>1, <1>2, <2>2, EndsOtherwise DEF TransferNext, FetchStep
  <2> QED
    BY <2>1, <2>2
<1> QED
  BY <1>3 DEF FetchStepTruthful, TruthfulFor

(***************************************************************************)
(* No fetch and no clone reports success unless the user has the history   *)
(* of every branch the server listed, and its tracking branches are there. *)
(***************************************************************************)
THEOREM SuccessIsTruthful == TransferSpec => FetchTruthful
  BY InvHolds, TruthfulSteps, PTL DEF TransferSpec, FetchTruthful

-----------------------------------------------------------------------------
(***************************************************************************)
(* What a pull that moves the branch has joined.                           *)
(***************************************************************************)
LEMMA FetchedIsListed ==
  ASSUME TransferInv, NEW u \in Users,
         At(u, "fetched", {"pull"}), Fetched(u) # NoCommit
  PROVE  /\ job[u].want.branch \in Branches
         /\ job[u].seen[job[u].want.branch] \in {NoCommit, Fetched(u)}
         /\ Fetched(u) \in repo[u].has
<1>1. /\ ~Ended(u) /\ job[u].cmd = "pull" /\ job[u].phase = "fetched"
      /\ RepoSound(u) /\ JobSound(u)
  BY Parts DEF At, Ended
<1>2. job[u].want.branch \in Branches
  BY <1>1 DEF JobSound, PullWants
<1> DEFINE r == job[u].remote
           b == job[u].want.branch
<1>3. r \in Names /\ Fetched(u) = repo[u].tracking[r][b]
  BY Zenon DEF Fetched
<1> HIDE DEF r, b
<1>4. Tracks(u)
  <2>1. NoHeads[b] = NoCommit
    BY <1>2 DEF NoHeads, b
  <2>2. repo[u].tracking[r] # NoHeads
    BY <1>3, <2>1
  <2>3. repo[u].remotes[r].tracks
    BY <1>1, <1>3, <2>2 DEF RepoSound
  <2> QED
    BY <1>3, <2>3 DEF Tracks, r
<1>5. \A x \in Branches : job[u].seen[x] \in {NoCommit, repo[u].tracking[r][x]}
  BY <1>1, <1>4, Zenon DEF JobSound, After, r
<1>6. \A x \in Branches : repo[u].tracking[r][x] \in OrNone(repo[u].has)
  BY <1>1, <1>3 DEF RepoSound, OrNone
<1>7. b \in Branches
  BY <1>2 DEF b
<1>8. job[u].seen[b] \in {NoCommit, Fetched(u)} /\ Fetched(u) \in repo[u].has
  BY <1>3, <1>5, <1>6, <1>7 DEF OrNone
<1> QED
  BY <1>7, <1>8 DEF b

LEMMA PullStepsJoin ==
  ASSUME TransferInv
  PROVE  PullStepJoins
<1> SUFFICES ASSUME NEW u \in Users, PullMerges(u), repo'[u].refs # repo[u].refs
             PROVE  LET new == repo'[u].refs[Main]
                        reached == {new} \cup commits'[new]
                    IN  /\ Tip(u) \in reached
                        /\ job[u].seen[job[u].want.branch] \in reached \cup {NoCommit}
  BY DEF PullStepJoins
<1> DEFINE c == Fetched(u)
           seen == job[u].seen[job[u].want.branch]
<1>1. /\ At(u, "fetched", {"pull"})
      /\ c # NoCommit /\ Tip(u) # NoCommit
  BY DEF PullMerges
<1>2. /\ repo \in [Users -> Repos] /\ repo[u] \in Repos /\ RepoSound(u)
      /\ commits \in Seq(SUBSET Nat)
  BY Parts DEF TransferInv, TransferTypeOK
<1>3. seen \in {NoCommit, c} /\ c \in repo[u].has
  BY <1>1, FetchedIsListed
<1>4. Tip(u) \in repo[u].has /\ repo[u].has \in SUBSET Nat /\ repo[u].refs \in Tips
  BY <1>1, <1>2 DEF RepoSound, OrNone, Tip, Repos
<1>5. \/ /\ Tip(u) \in commits[c]
         /\ repo' = [repo EXCEPT ![u].refs[Main] = c] /\ UNCHANGED commits
      \/ NewCommit(u, HistoryOf({Tip(u), c}), {c})
      \/ \E m \in {{}, {c}} : repo' = [repo EXCEPT ![u].merging = m]
  BY DEF PullMerges
<1> HIDE DEF c, seen
<1>6. CASE /\ Tip(u) \in commits[c]
           /\ repo' = [repo EXCEPT ![u].refs[Main] = c] /\ UNCHANGED commits
  <2>1. repo'[u].refs[Main] = c
    BY <1>2, <1>6 DEF Repos, Tips
  <2> QED
    BY <1>3, <1>6, <2>1 DEF seen
<1>7. CASE NewCommit(u, HistoryOf({Tip(u), c}), {c})
  <2> DEFINE n == Len(commits) + 1
             below == HistoryOf({Tip(u), c})
  <2>1. /\ commits' = Append(commits, below)
        /\ repo' = [repo EXCEPT ![u].refs[Main] = n, ![u].has = @ \cup {n},
                                ![u].merging = {c}]
    BY <1>7 DEF NewCommit
  <2>2. repo'[u].refs[Main] = n
    BY <1>2, <2>1 DEF Repos, Tips
  <2>3. {Tip(u), c} \subseteq OrNone(repo[u].has)
    BY <1>3, <1>4 DEF OrNone
  <2>4. below \in SUBSET Nat
    BY <1>2, <1>4, <2>3, HistoryInside DEF RepoSound
  <2>5. Tip(u) \in below /\ c \in below
    BY <1>1 DEF HistoryOf, History, c
  <2> HIDE DEF below
  <2>6. commits'[n] = below
    BY <1>2, <2>1, <2>4, AppendProperties
  <2> QED
    BY <1>3, <2>2, <2>5, <2>6 DEF seen
<1>8. CASE \E m \in {{}, {c}} : repo' = [repo EXCEPT ![u].merging = m]
  BY <1>2, <1>8 DEF Repos
<1> QED
  BY <1>5, <1>6, <1>7, <1>8

(***************************************************************************)
(* A pull that moves the branch leaves nothing of either side behind.      *)
(***************************************************************************)
THEOREM PullsJoin == TransferSpec => PullJoins
  BY InvHolds, PullStepsJoin, PTL DEF TransferSpec, PullJoins
=============================================================================
