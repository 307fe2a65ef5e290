----------------------------- MODULE MCPlumbing -----------------------------
(***************************************************************************)
(* Small instances of Plumbing for TLC.                                    *)
(***************************************************************************)
EXTENDS PlumbingProps, TLC

CONSTANTS x, y

\* d, d/a, and a name that starts alike but has to be quoted; the name that
\* --index-info makes of what is printed for it.  d/ab is cut by ls-tree.
D == <<"d">>
DA == <<"d", "/", "a">>
DTab == <<"d", "tab", "y">>
DAB == <<"d", "/", "a", "b">>
DQuoted == <<"\"", "d", "\\", "t", "y", "\"">>
Order == <<DQuoted, D, DTab, DA, DAB>>
UserFiles == {D, DA}
SomeEscapes == ("tab" :> <<"\\", "t">>) @@ ("\"" :> <<"\\", "\"">>)
                @@ ("\\" :> <<"\\", "\\">>)

Has(p, b) == [path |-> p, blob |-> b]
SomeTrees == {{Has(D, x)}, {Has(DTab, x), Has(DAB, x)}}
\* Blob y is stored only once a file with it was added.
In(layout, path, b) == LineOf(layout, path, Quoted(path), b)
SomeLines ==
  {<<In("tree", <<" ", "d">>, y), In("stage", DTab, NoId)>>,
   <<In("stage", DA, y), In("tree", DA, x), In("tree", <<" ">>, x)>>}
SomeSides == {{1, 2, 3}, {1, 2}}
SomePrefixes == {<<>>, D, <<"d", "/">>, <<"d", "tab">>}
SomeOptions ==
  (SUBSET {"add", "remove", "replace"}) \cup {{"refresh"}, {"refresh", "add"}}

\* commit-tree looks neither at the index nor at the work tree: it is tried
\* where they are empty.
MCNext ==
  \/ IndexStep
  \/ index = {} /\ (\A p \in Paths : ~IsFile(p)) /\ CommitStep
MCSpec == PlumbingInit /\ [][MCNext]_plumbingVars
=============================================================================
