----------------------------- MODULE MCTransfer -----------------------------
(***************************************************************************)
(* Small instances of Transfer for TLC.  Alice has cloned a server with a  *)
(* commit.  Either she works alone and rearranges her remotes, or Bob      *)
(* clones the server too and both commit, pull and push.                   *)
(***************************************************************************)
EXTENDS TransferProps

CONSTANTS alice, bob, hub, other

Spec(src, force) == [src |-> src, dst |-> Main, force |-> force]
SomeSpecs == {Spec(Main, FALSE), Spec(Main, TRUE), Spec(NoBranch, FALSE)}

Cloned == [EmptyRepo EXCEPT
  !.has = {1}, !.refs[Main] = 1,
  !.remotes[Origin] = NewRemote(hub), !.tracking[Origin][Main] = 1]
MCInit ==
  /\ commits = <<{}>>
  /\ heads = [[t \in Servers |-> NoHeads] EXCEPT ![hub][Main] = 1]
  /\ stored = [[t \in Servers |-> {}] EXCEPT ![hub] = {1}]
  /\ repo = [u \in Users |-> IF u = alice THEN Cloned ELSE EmptyRepo]
  /\ job = [u \in Users |-> Exited("success")]

AliceBegins ==
  \/ FetchBegin(alice, Origin)
  \/ \E ffOnly \in BOOLEAN : PullBegin(alice, Origin, Main, ffOnly)
  \/ \E force \in BOOLEAN : PushBegin(alice, Origin, Spec(Main, force))
BobBegins ==
  \/ CloneBegin(bob, hub)
  \/ PullBegin(bob, Origin, Main, FALSE)
  \/ PushBegin(bob, Origin, Spec(Main, FALSE))
Alone == repo[bob] = EmptyRepo /\ Ended(bob)
MCNext ==
  \/ Alone /\ (BeginStep(alice) \/ RemoteStep(alice))
  \/ ~Alone /\ (AliceBegins \/ Commit(alice, TRUE))
  \/ repo[alice].remotes = Cloned.remotes /\ BobBegins
  \/ \E u \in Users :
       \/ FetchStep(u) \/ PullMerges(u) \/ PushStep(u) \/ Fail(u)
       \/ ~Alone /\ Commit(u, FALSE)
MCSpec == MCInit /\ [][MCNext]_transferVars
=============================================================================
