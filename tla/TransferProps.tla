--------------------------- MODULE TransferProps ---------------------------
(***************************************************************************)
(* What users who share servers can rely on.                               *)
(***************************************************************************)
EXTENDS Transfer

(***************************************************************************)
(* Nothing dangles, wherever a command was cut off: every branch, tracking *)
(* branch and entry of MERGE_HEAD of a user, and every branch of a server, *)
(* names a commit that is stored there with all its history.  fetch moves  *)
(* the tracking branches only after the download, to what was downloaded.  *)
(***************************************************************************)
Complete(S, have) == HistoryOf(S) \subseteq have
NothingMissing ==
  /\ \A u \in Users :
       Complete(Range(repo[u].refs) \cup repo[u].merging
                  \cup UNION {Range(repo[u].tracking[r]) : r \in Names},
                repo[u].has)
  /\ \A s \in Servers : Complete(Range(heads[s]), stored[s])

(***************************************************************************)
(* A tracking branch names a commit that some server has: fetch copies it  *)
(* from there, and push sets it only after the server has taken the        *)
(* update, not when it was refused because another push came first.        *)
(***************************************************************************)
TrackingIsPublished ==
  \A u \in Users, r \in Names :
    Range(repo[u].tracking[r]) \ {NoCommit} \subseteq UNION Range(stored)

(***************************************************************************)
(* Tracking branches belong to a remote: after any sequence of remote      *)
(* commands none is left whose remote is not configured, where merge would *)
(* find it and no fetch ever move it.                                      *)
(***************************************************************************)
NoOrphans ==
  \A u \in Users, r \in Names :
    Ended(u) /\ repo[u].tracking[r] # NoHeads => Configured(u, r)

-----------------------------------------------------------------------------
(***************************************************************************)
(* No push takes history off a server's branch that its user did not know  *)
(* of, although others push between the list the server sent and the       *)
(* update: without a forced refspec or a deletion the new tip has the old  *)
(* one below it.                                                           *)
(***************************************************************************)
Forced(u) == job[u].want.force \/ job[u].want.src = NoBranch
PushStepKeeps ==
  \A u \in Users : PushSends(u) /\ heads' # heads =>
    LET old == heads[job[u].url][job[u].want.dst]
    IN  IF Forced(u) THEN old = job[u].seen[job[u].want.dst]
        ELSE old \in History(Source(u)) \cup {NoCommit}
PushKeepsHistory == [][PushStepKeeps]_transferVars

(***************************************************************************)
(* fetch and clone report success only if the user now has every branch    *)
(* the server listed, with its history, and its tracking branches (if the  *)
(* remote has any) are where the server's were.                            *)
(***************************************************************************)
FetchStepTruthful ==
  \A u \in Users : ~Ended(u) /\ job'[u].phase = "ended"
                   /\ job'[u].exit = "success" =>
    /\ Complete(Wanted(u), repo'[u].has)
    /\ Tracks(u) => \A b \in Branches :
         job[u].seen[b] \in {NoCommit, repo'[u].tracking[job[u].remote][b]}
FetchTruthful == [][FetchStepTruthful]_transferVars

(***************************************************************************)
(* A pull that moves the branch joins the two it was asked to join: the    *)
(* new tip has below it, or is, what the user had and what the server it   *)
(* named listed under the branch it named.                                 *)
(***************************************************************************)
PullStepJoins ==
  \A u \in Users : PullMerges(u) /\ repo'[u].refs # repo[u].refs =>
    LET new == repo'[u].refs[Main]
        reached == {new} \cup commits'[new]
    IN  /\ Tip(u) \in reached
        /\ job[u].seen[job[u].want.branch] \in reached \cup {NoCommit}
PullJoins == [][PullStepJoins]_transferVars
=============================================================================
