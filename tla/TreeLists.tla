----------------------------- MODULE TreeLists -----------------------------
(***************************************************************************)
(* What a file pane lists and how many rows it has: visible_tree.go, the   *)
(* filters of filetree.go and the row arithmetic of layout.go.             *)
(*                                                                         *)
(* A tree is the sequence of its nodes in the order flattenTree walks      *)
(* them, each with its depth; a path is the sequence of its names, and a   *)
(* query stands for the set of paths that contain it.  Where a node stands *)
(* and what its path says may differ: a merge moves the children of a      *)
(* directory that became a file up to where it was, under their old paths, *)
(* and the directory may come back beside them.                            *)
(***************************************************************************)
EXTENDS Integers, Sequences, SequencesExt, FiniteSets, FiniteSetsExt

\* A node is a sibling of the one before it or of one around it, or is the
\* first child of the directory before it.
IsTree(nodes) ==
    /\ nodes \in Seq([path: Seq(STRING), depth: Nat, dir: BOOLEAN, diff: STRING, size: Nat])
    /\ \A i \in DOMAIN nodes :
          /\ nodes[i].path # <<>>
          /\ nodes[i].depth >= 1
          /\ nodes[i].depth > 1 =>
                 /\ i > 1
                 /\ nodes[i].depth <= nodes[i - 1].depth + (IF nodes[i - 1].dir THEN 1 ELSE 0)

\* Node i is in the directory j, or in one of its directories.
Within(nodes, i, j) == j < i /\ \A k \in (j + 1)..i : nodes[k].depth > nodes[j].depth

Under(path, dir) == IsStrictPrefix(dir, path)

\* The nodes at the positions of S, each after those that come before it.
Arranged(nodes, S, Before(_, _)) ==
    [k \in 1..Cardinality(S) |->
        nodes[CHOOSE i \in S : Cardinality({j \in S : Before(j, i)}) = k - 1]]

Kept(nodes, S) == Arranged(nodes, S, <)

visibleTree(nodes, collapsed) ==
    LET shut == {j \in DOMAIN nodes : nodes[j].path \in collapsed}
    IN  Kept(nodes, {i \in DOMAIN nodes : \A j \in shut : ~Within(nodes, i, j)})

toggleCollapsed(collapsed, dir) ==
    IF dir \in collapsed THEN collapsed \ {dir} ELSE collapsed \cup {dir}

applyDiffFilter(nodes) == Kept(nodes, {i \in DOMAIN nodes : nodes[i].diff # "unchanged"})

applySubstringFilter(nodes, hits) == Kept(nodes, {i \in DOMAIN nodes : nodes[i].path \in hits})

regularFiles(nodes) == Kept(nodes, {i \in DOMAIN nodes : ~nodes[i].dir})

\* sort.SliceStable: nodes of one size keep their order.
applySortBySize(nodes, mode) ==
    LET Before(i, j) ==
            \/ mode = "desc" /\ nodes[i].size > nodes[j].size
            \/ mode = "asc"  /\ nodes[i].size < nodes[j].size
            \/ nodes[i].size = nodes[j].size /\ i < j
    IN  IF mode = "none" THEN nodes ELSE Arranged(nodes, DOMAIN nodes, Before)

\* The position of a path in a list, 0 when it is not there (the code's -1).
indexOfPath(nodes, path) ==
    LET at == {i \in DOMAIN nodes : nodes[i].path = path}
    IN  IF at = {} THEN 0 ELSE Min(at)

clampIndex(i, n) == IF i < 1 THEN 1 ELSE IF i > n THEN n ELSE i

-----------------------------------------------------------------------------
Most(a, b) == IF a > b THEN a ELSE b

\* Rows left for files in a pane: the column header needs three of them.
treePaneRows(height, showFilter) ==
    LET filter == IF showFilter THEN 1 ELSE 0
        header == IF height - filter >= 3 THEN 2 ELSE 0
    IN  Most(height - header - filter, 0)

splitTreeFits(height, showFilter) == height >= (IF showFilter THEN 9 ELSE 7)

splitPanelRows(total) ==
    LET usable == total - 1
        top == (usable + 1) \div 2
    IN  IF total < 4 THEN [tree |-> total, agg |-> 0]
                     ELSE [tree |-> top, agg |-> usable - top]

\* The offset that brings the cursor into a window of that many rows.
ScrolledTo(cursor, offset, rows) ==
    IF rows <= 0 THEN offset
    ELSE IF cursor < offset THEN cursor
    ELSE IF cursor >= offset + rows THEN cursor - rows + 1
    ELSE offset

\* The rows a window of that many rows shows of a list, counted from 1.
Shown(offset, rows, len) == {i \in 1..len : offset <= i /\ i < offset + rows}
=============================================================================
