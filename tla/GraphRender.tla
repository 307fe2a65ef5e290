----------------------------- MODULE GraphRender -----------------------------
(***************************************************************************)
(* graph_render: draws a commit graph, one row for a commit, children      *)
(* before their parents.  A column is the lane of one commit that was      *)
(* announced as a parent and is still to be drawn.  Commits are numbered   *)
(* in the order get_node returns them; what get_num_parents and get_parent *)
(* return for a commit is chosen when its row is drawn.                    *)
(***************************************************************************)
EXTENDS Integers, Sequences, Functions, FiniteSetsExt, SequencesExt

CONSTANTS
  NumNodes,     \* rows to draw
  MaxParents,   \* bound: parents of one commit
  MaxColumns    \* MAX_COLUMNS, the size of the arrays

ASSUME SizeAssumption ==
  NumNodes \in Nat /\ MaxParents \in Nat /\ MaxColumns \in Nat

VARIABLES
  graph,        \* the parents of the commits drawn so far
  columns,      \* assigned_to, up to used_columns
  row,          \* the cells printed last
  stopped,      \* the bailout was taken
  ordered       \* history for the properties: no removal so far moved a
                \* column that was still to be removed

graphVars == <<graph, columns, row, stopped, ordered>>

Drawn == 1..Len(graph)
Node == Len(graph) + 1
\* The value of TOP_TO_BOTTOM, which bounds the loop that draws lanes.
StraightLimit == 10

ParentLists(n) ==
  {ps \in UNION {[1..k -> (n + 1)..NumNodes] : k \in 0..MaxParents} :
     IsInjective(ps)}

-----------------------------------------------------------------------------
(***************************************************************************)
(* The lanes of a row: the commit's own one, a new one on the right when   *)
(* no child announced it; then the first parent takes it over and the      *)
(* others get lanes of their own.                                          *)
(***************************************************************************)
WithNode(cols, n) == IF n \in Range(cols) THEN cols ELSE Append(cols, n)
Lane(cols, n) == Min({k \in DOMAIN cols : cols[k] = n})
WithParents(cols, n, ps) ==
  IF ps = <<>> THEN cols
  ELSE [cols EXCEPT ![Lane(cols, n)] = Head(ps)] \o Tail(ps)

(***************************************************************************)
(* Two lanes of the same commit are joined: the right ones are listed, in  *)
(* the order of the nested loops, and removed one by one.  The indices are *)
(* those from before the first removal.                                    *)
(***************************************************************************)
Duplicates(cols) ==
  {d \in (DOMAIN cols) \X (DOMAIN cols) :
     d[1] < d[2] /\ cols[d[1]] = cols[d[2]]}
Found(d, e) == d[1] < e[1] \/ (d[1] = e[1] /\ d[2] < e[2])
Earlier(cols, d) == {e \in Duplicates(cols) : Found(e, d)}
ToBeRemoved(cols) ==
  [i \in 1..Cardinality(Duplicates(cols)) |->
     (CHOOSE d \in Duplicates(cols) : Cardinality(Earlier(cols, d)) = i - 1)[2]]
\* Faulty: the columns are shifted away from the removed one.
MoveRight(cols, dest) ==
  [k \in DOMAIN cols |-> IF k >= dest /\ k > 1 THEN cols[k - 1] ELSE cols[k]]

MoveLeft(cols, dest) ==
  [k \in DOMAIN cols |-> IF k >= dest /\ k < Len(cols) THEN cols[k + 1]
                         ELSE cols[k]]

\* Faulty: only neighbouring lanes are compared.
JoinNeighbours(cols) ==
  LET dup == {k \in 2..Len(cols) : cols[k] = cols[k - 1]}
  IN  IF dup = {} THEN cols ELSE RemoveAt(cols, Min(dup))

Joined(cols) ==
  LET gone == ToBeRemoved(cols)
      moved[i \in 0..Len(gone)] ==
        IF i = 0 THEN cols ELSE MoveLeft(moved[i - 1], gone[i])
  IN  [k \in 1..(Len(cols) - Len(gone)) |-> moved[Len(gone)][k]]

(***************************************************************************)
(* The cells of the row.  A merge opens lanes on its right; otherwise      *)
(* every lane from the last joined one on is drawn as a fork, as is every  *)
(* lane from StraightLimit on.                                             *)
(***************************************************************************)
Marks(cols, n, ps) ==
  LET open == Len(WithNode(cols, n))
      lanes == WithParents(WithNode(cols, n), n, ps)
      gone == ToBeRemoved(lanes)
      straight == IF gone = <<>> THEN StraightLimit
                  ELSE Min({StraightLimit, gone[Len(gone)] - 1})
      upper(k) == IF k > open THEN {}
                  ELSE IF WithNode(cols, n)[k] = n THEN {"node"} ELSE {"top"}
      parents(k) ==
        (IF k = Lane(WithNode(cols, n), n) /\ Len(ps) > 1 THEN {"right"} ELSE {})
        \cup (IF k > open /\ k < Len(lanes) THEN {"right"} ELSE {})
      joins(k) == {"right" : d \in {e \in Duplicates(lanes) : e[1] = k}}
                  \cup {"left" : d \in {e \in Duplicates(lanes) : e[2] = k}}
      lower(k) ==
        IF Len(ps) > 1
          THEN IF k <= open THEN {"top", "bottom"} ELSE {"left", "bottom"}
          ELSE IF k <= straight THEN {"top", "bottom"} ELSE {"left", "top"}
  IN  [k \in 1..Len(lanes) |-> upper(k) \cup parents(k) \cup joins(k) \cup lower(k)]

-----------------------------------------------------------------------------
\* The columns in gone can be removed in this order: each is left of those
\* removed before, so that it has not moved, or nothing that stays is behind it.
InOrder(gone, last) ==
  /\ IsInjective(gone)
  /\ \A i, j \in DOMAIN gone :
       i < j => gone[j] < gone[i] \/ (gone[j] + 1)..last \subseteq Range(gone)

GraphInit ==
  /\ graph = <<>>
  /\ columns = <<>>
  /\ row = <<>>
  /\ stopped = FALSE
  /\ ordered = TRUE

\* Faulty: the arrays are not checked for room.
FitsAlways(n, ps) == TRUE

Fits(n, ps) ==
  /\ n \in Range(columns) \/ Len(columns) < MaxColumns
  /\ Len(WithParents(WithNode(columns, n), n, ps)) <= MaxColumns

DrawRow(ps) ==
  LET n == Node
      lanes == WithParents(WithNode(columns, n), n, ps)
  IN  /\ Fits(n, ps)
      /\ graph' = Append(graph, ps)
      /\ columns' = Joined(lanes)
      /\ row' = Marks(columns, n, ps)
      /\ ordered' = (ordered /\ InOrder(ToBeRemoved(lanes), Len(lanes)))
      /\ UNCHANGED stopped

Bailout(ps) ==
  /\ ~Fits(Node, ps)
  /\ stopped' = TRUE
  /\ UNCHANGED <<graph, columns, row, ordered>>

GraphNext ==
  /\ ~stopped
  /\ Node <= NumNodes
  /\ \E ps \in ParentLists(Node) : DrawRow(ps) \/ Bailout(ps)

GraphSpec == GraphInit /\ [][GraphNext]_graphVars

-----------------------------------------------------------------------------
(***************************************************************************)
(* The lanes fit into the arrays of MAX_COLUMNS entries.                   *)
(***************************************************************************)
GraphTypeOK ==
  /\ graph \in Seq(Seq(1..NumNodes))
  /\ columns \in Seq(1..NumNodes)
  /\ stopped \in BOOLEAN /\ ordered \in BOOLEAN
  /\ Len(row) <= MaxColumns

Announced == UNION {Range(graph[n]) : n \in Drawn}
Pending == Announced \ Drawn

(***************************************************************************)
(* Each parent has its lane: a commit that was announced as a parent and   *)
(* is not drawn yet has a column, so that its row continues the lane of    *)
(* its child.  So say the comments of graph_render: "the first parent gets *)
(* the same column as the current commit. Each of the other parent gets a  *)
(* new column", and of duplicates, "Then remove them, also one by one".    *)
(* It is not so: a removal moves the columns behind it, and the next one   *)
(* takes the column that moved to where a duplicate was.                   *)
(***************************************************************************)
LanesContinue == Pending \subseteq Range(columns)

\* What keeps the lanes apart: the duplicates of each row were found from the
\* right to the left, but for the last column, or no merge had more than two
\* parents, so that there were no others.
RemovedInOrder == ordered \/ \A n \in Drawn : Len(graph[n]) <= 2

(***************************************************************************)
(* No lane is lost while no removal moves a duplicate, and there is none   *)
(* that does while no merge has more than two parents.                     *)
(***************************************************************************)
NoLaneLost == RemovedInOrder => LanesContinue

(***************************************************************************)
(* Under the same condition, lanes of the same commit have been joined: a  *)
(* row shows its commit once.                                              *)
(***************************************************************************)
OneNodePerRow ==
  RemovedInOrder =>
    /\ IsInjective(columns)
    /\ Cardinality({k \in DOMAIN row : "node" \in row[k]}) <= 1
=============================================================================
