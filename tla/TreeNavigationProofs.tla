------------------------ MODULE TreeNavigationProofs ------------------------
(* Theorems about TreeNavigation, for any trees, terminals, queries and      *)
(* waste rows: what is drawn from a memo is what would be computed, cursors  *)
(* stay in view, no row is skipped, a jump lands, and a toggle keeps its     *)
(* place where its pane has no second directory of that path above it.       *)
EXTENDS TreeNavigation, SumTheorems

UiFields == {"height", "focus", "aggregated", "layer", "layerOffset", "cur", "off",
             "collapsed", "gen", "query", "typing", "diffOnly", "sort"}

IsUi(u) == DOMAIN u = UiFields /\ u.gen \in Nat /\ DOMAIN u.collapsed = Panes

\* The screen v comes after u: directories collapse or expand only together
\* with a new generation.
Follows(u, v) ==
    /\ IsUi(v) /\ u.gen <= v.gen
    /\ v.gen = u.gen => v.collapsed = u.collapsed

\* What a list is made from, given a memo's key and the collapsed directories.
Inputs(k, collapsed) ==
    [layer |-> k.layer, query |-> k.query, diffOnly |-> k.diffOnly, sort |-> k.sort,
     collapsed |-> collapsed]

\* A slot is of the present generation or an earlier one; what it holds in the
\* present one is the list of its key and the directories collapsed now.
Current(slot, u, p) ==
    slot.valid =>
        /\ slot.on.gen \in Nat /\ slot.on.gen <= u.gen
        /\ slot.on.gen = u.gen =>
               slot.files = computeDisplayTreeFor(Inputs(slot.on, u.collapsed), p)

MemoInv == IsUi(ui) /\ \A p \in Panes : Current(memo[p], ui, p)

-----------------------------------------------------------------------------
(* Lists *)

\* A list is made from nothing but what the key and the generation stand for.
LEMMA ListInputs ==
  ASSUME NEW u, NEW p
  PROVE  computeDisplayTreeFor(u, p) = computeDisplayTreeFor(Inputs(MemoKey(u), u.collapsed), p)
BY DEF computeDisplayTreeFor, Inputs, MemoKey, rootFor, useTreeCollapse

\* On a screen that follows, the slot gives what would be computed.
LEMMA ServedIsFresh ==
  ASSUME MemoInv, NEW u, Follows(ui, u), NEW p \in Panes
  PROVE  displayTreeFor(u, p) = computeDisplayTreeFor(u, p)
<1> SUFFICES ASSUME memo[p].valid, memo[p].on = MemoKey(u)
             PROVE  memo[p].files = computeDisplayTreeFor(u, p)
  BY DEF displayTreeFor
<1>1. memo[p].on.gen = u.gen
  BY DEF MemoKey
<1>2. u.gen = ui.gen /\ u.collapsed = ui.collapsed
  BY <1>1 DEF MemoInv, Current, Follows, IsUi
<1>3. memo[p].files = computeDisplayTreeFor(Inputs(MemoKey(u), u.collapsed), p)
  BY <1>1, <1>2 DEF MemoInv, Current
<1> QED
  BY <1>3, ListInputs

-----------------------------------------------------------------------------
(* Handlers: each gives a screen that follows the one it was given *)

\* A screen follows itself.
LEMMA FollowsItself == ASSUME NEW u, IsUi(u) PROVE Follows(u, u)
BY DEF Follows, IsUi

\* A screen that follows has the fields.
LEMMA FollowsShaped == ASSUME NEW u, NEW v, Follows(u, v) PROVE IsUi(v)
BY DEF Follows

\* Handlers compose.
LEMMA FollowsOn ==
  ASSUME NEW u, NEW v, NEW w, IsUi(u), Follows(u, v), Follows(v, w)
  PROVE  Follows(u, w)
BY DEF Follows, IsUi

\* The fields no list is made from, or that the key holds itself.
LEMMA FollowsFields ==
  ASSUME NEW u, IsUi(u), NEW x
  PROVE  /\ Follows(u, [u EXCEPT !.height = x]) /\ Follows(u, [u EXCEPT !.focus = x])
         /\ Follows(u, [u EXCEPT !.layer = x])  /\ Follows(u, [u EXCEPT !.layerOffset = x])
         /\ Follows(u, [u EXCEPT !.cur = x])    /\ Follows(u, [u EXCEPT !.off = x])
         /\ Follows(u, [u EXCEPT !.query = x])  /\ Follows(u, [u EXCEPT !.typing = x])
         /\ Follows(u, [u EXCEPT !.sort = x])   /\ Follows(u, [u EXCEPT !.diffOnly = x])
         /\ Follows(u, [u EXCEPT !.aggregated = x])
BY DEF Follows, IsUi, UiFields

\* Cursors and offsets.
LEMMA FollowsCursor ==
  ASSUME NEW u, IsUi(u), NEW p, NEW i
  PROVE  Follows(u, adjustTreeScrollFor(u, p)) /\ Follows(u, setTreeCursor(u, p, i))
<1>1. \A v : IsUi(v) => Follows(v, adjustTreeScrollFor(v, p))
  BY FollowsFields DEF adjustTreeScrollFor
<1> DEFINE v == [u EXCEPT !.cur[p] = i]
<1>2. Follows(u, v) /\ IsUi(v)
  BY FollowsFields DEF Follows
<1>3. setTreeCursor(u, p, i) = adjustTreeScrollFor(v, p)
  BY DEF setTreeCursor
<1> QED
  BY <1>1, <1>2, <1>3, FollowsOn

\* Going to the top, and forgetting what is collapsed.
LEMMA FollowsReset ==
  ASSUME NEW u, IsUi(u)
  PROVE  /\ Follows(u, adjustLayerScroll(u)) /\ Follows(u, PanesToTop(u))
         /\ Follows(u, clearCollapsed(u))    /\ Follows(u, resetTreeForLayerChange(u))
<1>1. \A v : IsUi(v) => Follows(v, clearCollapsed(v))
  BY DEF clearCollapsed, Follows, IsUi, UiFields
<1>2. Follows(u, PanesToTop(u)) /\ IsUi(PanesToTop(u))
  BY DEF PanesToTop, Follows, IsUi, UiFields
<1>3. Follows(u, [PanesToTop(u) EXCEPT !.sort = "none"])
  BY <1>2, FollowsFields, FollowsOn
<1> DEFINE v == [PanesToTop(u) EXCEPT !.sort = "none"]
<1>4. Follows(v, clearCollapsed(v))
  BY <1>1, <1>3, FollowsShaped
<1>5. resetTreeForLayerChange(u) = clearCollapsed(v)
  BY DEF resetTreeForLayerChange
<1>6. Follows(u, resetTreeForLayerChange(u))
  BY <1>3, <1>4, <1>5, FollowsOn
<1> QED
  BY <1>1, <1>2, <1>6, FollowsFields DEF adjustLayerScroll

\* Clamping every cursor.
LEMMA FollowsClamp ==
  ASSUME NEW u, IsUi(u)
  PROVE  Follows(u, clampCursors(u))
<1>1. ASSUME NEW v, IsUi(v), NEW p PROVE Follows(v, clampTreeCursor(v, p))
  <2>1. Follows(v, [v EXCEPT !.cur[p] = 1, !.off[p] = 1])
    BY <1>1 DEF Follows, IsUi, UiFields
  <2> QED
    BY <1>1, <2>1, FollowsCursor DEF clampTreeCursor
<1> DEFINE scrolled == adjustLayerScroll(u)
           top == clampTreeCursor(scrolled, "tree")
<1>2. Follows(u, scrolled) /\ IsUi(scrolled)
  BY FollowsReset DEF Follows
<1>3. Follows(scrolled, top) /\ IsUi(top)
  BY <1>1, <1>2 DEF Follows
<1>4. Follows(u, top) /\ Follows(top, clampTreeCursor(top, "agg"))
  BY <1>1, <1>2, <1>3, FollowsOn
<1>5. clampCursors(u) \in {top, clampTreeCursor(top, "agg")}
  BY DEF clampCursors
<1> HIDE DEF scrolled, top
<1> QED
  BY <1>4, <1>5, FollowsOn

\* Moving within the focused list.
LEMMA FollowsMove ==
  ASSUME NEW u, IsUi(u), NEW i
  PROVE  Follows(u, MoveTo(u, i))
<1> DEFINE v == [u EXCEPT !.layer = i]
<1>1. Follows(u, v) /\ IsUi(v)
  BY FollowsFields DEF Follows
<1>2. Follows(v, resetTreeForLayerChange(v)) /\ IsUi(resetTreeForLayerChange(v))
  BY <1>1, FollowsReset DEF Follows
<1>3. Follows(resetTreeForLayerChange(v), adjustLayerScroll(resetTreeForLayerChange(v)))
  BY <1>2, FollowsReset
<1>4. Follows(u, adjustLayerScroll(resetTreeForLayerChange(v)))
  BY <1>1, <1>2, <1>3, FollowsOn
<1> QED
  BY <1>4, FollowsCursor DEF MoveTo

\* The keys that move.
LEMMA FollowsKeys ==
  ASSUME NEW u, IsUi(u)
  PROVE  /\ Follows(u, moveDown(u)) /\ Follows(u, moveUp(u))
         /\ Follows(u, moveToTop(u)) /\ Follows(u, moveToBottom(u))
         /\ \A dir, fraction : Follows(u, moveByPage(u, dir, fraction))
<1>1. Follows(u, moveDown(u)) /\ Follows(u, moveUp(u)) /\ Follows(u, moveToBottom(u))
  BY FollowsMove, FollowsItself DEF moveDown, moveUp, moveToBottom
<1>2. ASSUME NEW dir, NEW fraction PROVE Follows(u, moveByPage(u, dir, fraction))
  BY FollowsMove, FollowsItself DEF moveByPage
<1>3. Follows(u, moveToTop(u))
  <2> DEFINE v == [u EXCEPT !.layer = 1, !.layerOffset = 1]
             w == [u EXCEPT !.cur[u.focus] = 1, !.off[u.focus] = 1]
  <2>1. Follows(u, v) /\ IsUi(v) /\ Follows(u, w)
    BY DEF Follows, IsUi, UiFields
  <2>2. Follows(u, resetTreeForLayerChange(v))
    BY <2>1, FollowsReset, FollowsOn
  <2> QED
    BY <2>1, <2>2 DEF moveToTop
<1> QED
  BY <1>1, <1>2, <1>3

\* A toggle begins a generation.
LEMMA FollowsToggle ==
  ASSUME NEW u, IsUi(u), NEW pane, NEW dir
  PROVE  Follows(u, toggleTreeDirectory(u, pane, dir))
<1> DEFINE v == [u EXCEPT !.collapsed[pane] = toggleCollapsed(@, dir), !.gen = @ + 1]
<1>1. Follows(u, v) /\ IsUi(v)
  BY DEF Follows, IsUi, UiFields
<1>2. Follows(v, clampCursors(v))
  BY <1>1, FollowsClamp
<1> QED
  BY <1>1, <1>2, FollowsOn DEF toggleTreeDirectory

\* The keys that open and close directories.
LEMMA FollowsSideways ==
  ASSUME NEW u, IsUi(u)
  PROVE  /\ Follows(u, moveTreeRight(u)) /\ Follows(u, moveTreeLeft(u))
         /\ Follows(u, EnterDirectory(u))
BY FollowsToggle, FollowsCursor, FollowsItself DEF moveTreeRight, moveTreeLeft, EnterDirectory

\* A jump from the waste overlay.
LEMMA FollowsJump ==
  ASSUME NEW u, IsUi(u), NEW row
  PROVE  Follows(u, wasteJump(u, row))
<1> DEFINE jumped == row.layer \in 1..NLayers
           there == [u EXCEPT !.typing = FALSE, !.query = <<>>, !.layer = row.layer, !.focus = "tree"]
           moved == IF jumped THEN adjustLayerScroll(there) ELSE u
           fresh == resetTreeForLayerChange(moved)
           pane == activeTreeFocus(fresh)
           Find(v) == indexOfPath(displayTreeFor(v, pane), row.path)
           seen == IF Find(fresh) = 0 THEN [fresh EXCEPT !.diffOnly = FALSE] ELSE fresh
           at == IF jumped THEN Most(Find(seen), 1) ELSE 1
           placed == [seen EXCEPT !.cur.tree = at]
<1>1. Follows(u, there) /\ IsUi(there)
  BY DEF Follows, IsUi, UiFields
<1>2. Follows(u, moved) /\ IsUi(moved)
  BY <1>1, FollowsReset, FollowsOn, FollowsItself, FollowsShaped
<1>3. Follows(u, fresh) /\ IsUi(fresh)
  BY <1>2, FollowsReset, FollowsOn, FollowsShaped
<1>4. wasteJump(u, row) = adjustTreeScrollFor(placed, pane)
  BY DEF wasteJump
<1> HIDE DEF fresh, pane, Find, at
<1>5. Follows(u, seen) /\ IsUi(seen)
  BY <1>3, FollowsFields, FollowsOn, FollowsItself, FollowsShaped
<1> HIDE DEF seen
<1>6. Follows(seen, placed)
  BY <1>5 DEF Follows, IsUi, UiFields
<1> HIDE DEF placed
<1>7. Follows(placed, adjustTreeScrollFor(placed, pane))
  BY <1>6, FollowsShaped, FollowsCursor
<1> QED
  BY <1>4, <1>5, <1>6, <1>7, FollowsShaped, FollowsOn

-----------------------------------------------------------------------------
(* Steps *)

\* A handler, and the drawing after it.
LEMMA HandleKeeps ==
  ASSUME MemoInv, NEW u, Follows(ui, u), NEW name, Handle(name, u)
  PROVE  MemoInv'
<1>1. ui' = u /\ memo' = Drawn(u) /\ IsUi(u)
  BY FollowsShaped DEF Handle
<1>2. ASSUME NEW p \in Panes, memo'[p] = memo[p] PROVE Current(memo'[p], u, p)
  BY <1>2 DEF MemoInv, Current, Follows, IsUi
<1>3. ASSUME NEW p \in Panes,
             memo'[p] = [valid |-> TRUE, on |-> MemoKey(u), files |-> displayTreeFor(u, p)]
      PROVE  Current(memo'[p], u, p)
  <2>1. displayTreeFor(u, p) = computeDisplayTreeFor(Inputs(MemoKey(u), u.collapsed), p)
    BY ServedIsFresh, ListInputs
  <2>2. MemoKey(u).gen = u.gen /\ u.gen \in Nat
    BY <1>1 DEF MemoKey, IsUi
  <2> QED
    BY <1>3, <2>1, <2>2 DEF Current
<1>4. \A p \in Panes : Current(memo'[p], u, p)
  BY <1>1, <1>2, <1>3 DEF Drawn
<1> QED
  BY <1>1, <1>4 DEF MemoInv

\* Every key and every resize is a handler and the drawing after it.
LEMMA StepsFollow ==
  ASSUME IsUi(ui), Next
  PROVE  \E name, u : Follows(ui, u) /\ Handle(name, u)
<1> USE DEF Press, Type, Overlay
<1>1. CASE Resize
  <2>1. PICK h \in Heights : Handle("resize", clampCursors([ui EXCEPT !.height = h]))
    BY <1>1 DEF Resize
  <2> QED
    BY <2>1, FollowsFields, FollowsClamp, FollowsShaped, FollowsOn
<1>2. CASE Switch
  <2>1. \E f : Handle("tab", clampCursors([ui EXCEPT !.focus = f]))
    BY <1>2 DEF Switch
  <2> QED
    BY <2>1, FollowsFields, FollowsClamp, FollowsShaped, FollowsOn
<1>3. CASE Move
  BY <1>3, FollowsKeys DEF Move
<1>4. CASE Sideways \/ Enter
  BY <1>4, FollowsSideways DEF Sideways, Enter
<1>5. CASE Filter \/ FilterEnter
  <2>1. \E name, on : Handle(name, clampCursors([ui EXCEPT !.typing = on]))
    BY <1>5 DEF Filter, FilterEnter
  <2> QED
    BY <2>1, FollowsFields, FollowsClamp, FollowsShaped, FollowsOn
<1>6. CASE FilterBackspace \/ FilterText \/ Backspace
  <2>1. \/ \E name, q : Handle(name, PanesToTop([ui EXCEPT !.query = q]))
        \/ \E name : Handle(name, clampCursors([ui EXCEPT !.typing = FALSE]))
    BY <1>6 DEF FilterBackspace, FilterText, Backspace
  <2>2. ASSUME NEW v, Follows(ui, v) PROVE Follows(ui, PanesToTop(v)) /\ Follows(ui, clampCursors(v))
    BY <2>2, FollowsReset, FollowsClamp, FollowsShaped, FollowsOn
  <2>3. /\ \A q : Follows(ui, [ui EXCEPT !.query = q])
        /\ Follows(ui, [ui EXCEPT !.typing = FALSE])
    BY FollowsFields
  <2> QED
    BY <2>1, <2>2, <2>3
<1>7. CASE Escape
  <2> DEFINE v == [ui EXCEPT !.typing = FALSE, !.query = <<>>]
  <2>1. Handle("esc", ui) \/ Handle("esc", PanesToTop(v))
    BY <1>7 DEF Escape
  <2>2. Follows(ui, v)
    BY DEF Follows, IsUi, UiFields
  <2>3. Follows(v, PanesToTop(v))
    BY <2>2, FollowsReset, FollowsShaped
  <2>4. Follows(ui, PanesToTop(v))
    BY <2>2, <2>3, FollowsOn
  <2> QED
    BY <2>1, <2>4, FollowsItself
<1>8. CASE DiffOnly \/ Sort
  <2>1. \/ \E x : Handle("diff", PanesToTop([ui EXCEPT !.diffOnly = x]))
        \/ \E x : Handle("sort", PanesToTop([ui EXCEPT !.sort = x]))
    BY <1>8 DEF DiffOnly, Sort
  <2>2. ASSUME NEW v, Follows(ui, v) PROVE Follows(ui, PanesToTop(v))
    BY <2>2, FollowsReset, FollowsShaped, FollowsOn
  <2>3. \A x : Follows(ui, [ui EXCEPT !.diffOnly = x]) /\ Follows(ui, [ui EXCEPT !.sort = x])
    BY FollowsFields
  <2> QED
    BY <2>1, <2>2, <2>3
<1>9. CASE Aggregate
  <2> DEFINE v == PanesToTop([ui EXCEPT !.aggregated = ~@])
             w == clearCollapsed(v)
  <2>1. Handle("aggregate", w) \/ Handle("aggregate", [w EXCEPT !.focus = "tree"])
    BY <1>9 DEF Aggregate
  <2>2. Follows(ui, v)
    BY FollowsFields, FollowsReset, FollowsShaped, FollowsOn
  <2>3. Follows(ui, w)
    BY <2>2, FollowsReset, FollowsShaped, FollowsOn
  <2> HIDE DEF w
  <2>4. Follows(w, [w EXCEPT !.focus = "tree"])
    BY <2>3, FollowsFields, FollowsShaped
  <2>5. Follows(ui, [w EXCEPT !.focus = "tree"])
    BY <2>3, <2>4, FollowsOn
  <2> QED
    BY <2>1, <2>3, <2>5
<1>10. CASE OpenWaste \/ WasteKey \/ DetailKey
  <2>1. \E name : Handle(name, ui)
    BY <1>10 DEF OpenWaste, WasteKey, DetailKey
  <2> QED
    BY <2>1, FollowsItself
<1>11. CASE WasteEnter
  BY <1>11, FollowsJump DEF WasteEnter
<1> QED
  BY <1>1, <1>2, <1>3, <1>4, <1>5, <1>6, <1>7, <1>8, <1>9, <1>10, <1>11 DEF Next

\* A pane is drawn from its memo only while the memo is what would be
\* computed: whatever the keys, every handler that collapses, expands or
\* forgets directories begins a generation.
THEOREM ListsStayFresh == Spec => []ListsFresh
<1>1. Init => MemoInv
  <2> SUFFICES ASSUME Init PROVE MemoInv
    OBVIOUS
  <2>1. IsUi(ui)
    BY DEF Init, IsUi, UiFields
  <2>2. \A p \in Panes : ~memo[p].valid
    BY DEF Init
  <2> QED
    BY <2>1, <2>2 DEF MemoInv, Current
<1>2. MemoInv /\ [Next]_vars => MemoInv'
  <2>1. ASSUME MemoInv, Next PROVE MemoInv'
    BY <2>1, StepsFollow, HandleKeeps DEF MemoInv
  <2>2. ASSUME MemoInv, UNCHANGED vars PROVE MemoInv'
    BY <2>2 DEF MemoInv, vars
  <2> QED
    BY <2>1, <2>2
<1>3. MemoInv => ListsFresh
  <2> SUFFICES ASSUME MemoInv PROVE ListsFresh
    OBVIOUS
  <2>1. Follows(ui, ui)
    BY FollowsItself DEF MemoInv
  <2> QED
    BY <2>1, ServedIsFresh DEF ListsFresh
<1> QED
  BY <1>1, <1>2, <1>3, PTL DEF Spec

-----------------------------------------------------------------------------
(* Windows *)

\* The offset a scroll gives puts the cursor in the window, if there is one.
LEMMA Scrolled ==
  ASSUME NEW cursor \in Nat \ {0}, NEW offset \in Nat \ {0}, NEW rows \in Int
  PROVE  LET to == ScrolledTo(cursor, offset, rows)
         IN  /\ to \in Nat \ {0}
             /\ \A len \in Nat : cursor <= len => InView(cursor, to, rows, len)
<1> DEFINE to == ScrolledTo(cursor, offset, rows)
<1>1. to \in Nat \ {0} /\ (rows > 0 => to <= cursor /\ cursor < to + rows)
  BY DEF ScrolledTo
<1> HIDE DEF to
<1>2. ASSUME NEW len \in Nat, cursor <= len PROVE InView(cursor, to, rows, len)
  BY <1>1, <1>2 DEF InView, Shown
<1> QED
  BY <1>1, <1>2 DEF to

\* The top of a list is in a window that begins there.
LEMMA AtTop ==
  ASSUME NEW rows \in Int, NEW len \in Nat
  PROVE  InView(1, 1, rows, len)
BY DEF InView, Shown

-----------------------------------------------------------------------------
(* Lists *)

IsList(nodes) == Len(nodes) \in Nat /\ DOMAIN nodes = 1..Len(nodes)

\* A filter gives a list.
LEMMA KeptIsList ==
  ASSUME NEW nodes, IsList(nodes), NEW S \in SUBSET DOMAIN nodes
  PROVE  IsList(Kept(nodes, S))
<1> DEFINE n == Cardinality(S)
<1>1. IsFiniteSet(DOMAIN nodes)
  BY FS_Interval DEF IsList
<1>2. n \in Nat
  BY <1>1, FS_Subset, FS_CardinalityType
<1> DEFINE elem(k) == nodes[CHOOSE i \in S : Cardinality({j \in S : j < i}) = k - 1]
<1>3. Kept(nodes, S) = [k \in 1..n |-> elem(k)]
  BY Zenon DEF Kept, Arranged
<1> HIDE DEF elem, n
<1> QED
  BY <1>2, <1>3 DEF IsList

\* So does an order.
LEMMA SortedIsList ==
  ASSUME NEW nodes, IsList(nodes), NEW mode
  PROVE  IsList(applySortBySize(nodes, mode))
<1> DEFINE n == Cardinality(DOMAIN nodes)
           Before(i, j) ==
              \/ mode = "desc" /\ nodes[i].size > nodes[j].size
              \/ mode = "asc"  /\ nodes[i].size < nodes[j].size
              \/ nodes[i].size = nodes[j].size /\ i < j
           elem(k) == nodes[CHOOSE i \in DOMAIN nodes : Cardinality({j \in DOMAIN nodes : Before(j, i)}) = k - 1]
<1>1. n \in Nat
  BY FS_Interval, FS_CardinalityType DEF IsList
<1>2. applySortBySize(nodes, mode) = IF mode = "none" THEN nodes ELSE [k \in 1..n |-> elem(k)]
  BY Zenon DEF applySortBySize, Arranged
<1> HIDE DEF elem, n
<1>3. IsList([k \in 1..n |-> elem(k)])
  BY <1>1 DEF IsList
<1> QED
  BY <1>2, <1>3

-----------------------------------------------------------------------------
(* Screens *)

Shape(u) ==
    /\ IsUi(u)
    /\ u.cur \in [Panes -> Nat \ {0}] /\ u.off \in [Panes -> Nat \ {0}]
    /\ u.height \in Nat /\ u.layer \in 1..NLayers /\ u.layerOffset \in Nat \ {0}
    /\ u.focus \in Panes \cup {"layers"} /\ (u.focus = "agg" => u.aggregated)
    /\ u.aggregated \in BOOLEAN

Files(u, p) == Len(computeDisplayTreeFor(u, p))

\* The panes whose cursors the handlers keep.
Tended(u) == {p \in Panes : p = "tree" \/ u.aggregated}

PaneFits(u, p) ==
    /\ u.cur[p] <= Most(Files(u, p), 1)
    /\ InView(u.cur[p], u.off[p], treeVisibleHeightFor(u, p), Files(u, p))

LayerFits(u) == InView(u.layer, u.layerOffset, layerVisibleHeight(u), NLayers)

Good(u) == Shape(u) /\ LayerFits(u) /\ \A p \in Tended(u) : PaneFits(u, p)

\* The memo gives what would be computed.
Fresh(u) == \A p \in Panes : displayTreeFor(u, p) = computeDisplayTreeFor(u, p)

\* Only cursors and offsets differ.
Moved(u, v) == IsUi(v) /\ \A f \in UiFields \ {"cur", "off", "layerOffset"} : v[f] = u[f]

\* What a pane lists is a list.
LEMMA ListIsList ==
  ASSUME NEW u, Shape(u), NEW p \in Panes
  PROVE  IsList(computeDisplayTreeFor(u, p))
<1>1. IsList(rootFor(u, p))
  <2>1. IsTree(rootFor(u, p))
    BY NavigationAssumption DEF rootFor, Shape
  <2> QED
    BY <2>1 DEF IsTree, IsList
<1>2. \A nodes, c : IsList(nodes) => IsList(visibleTree(nodes, c))
  BY KeptIsList DEF visibleTree
<1>3. \A nodes : IsList(nodes) => IsList(applyDiffFilter(nodes)) /\ IsList(regularFiles(nodes))
  BY KeptIsList DEF applyDiffFilter, regularFiles
<1>4. \A nodes, hits : IsList(nodes) => IsList(applySubstringFilter(nodes, hits))
  BY KeptIsList DEF applySubstringFilter
<1> QED
  BY <1>1, <1>2, <1>3, <1>4, SortedIsList DEF computeDisplayTreeFor

\* A window has a number of rows, and a pane a number of files.
LEMMA Sizes ==
  ASSUME NEW u, Shape(u), NEW p \in Panes
  PROVE  treeVisibleHeightFor(u, p) \in Int /\ layerVisibleHeight(u) \in Int /\ Files(u, p) \in Nat
<1>1. u.height \in Int /\ layerVisibleHeight(u) \in Int
  BY DEF Shape, layerVisibleHeight
<1>2. \A h \in Int : treePaneRows(h, TRUE) \in Int /\ treePaneRows(h, FALSE) \in Int
  BY DEF treePaneRows, Most
<1>3. \A h \in Int : splitPanelRows(h)[p] \in Int
  BY DEF splitPanelRows, Panes
<1>4. treeVisibleHeightFor(u, p) \in Int
  <2> DEFINE total == u.height - 8
             bar == u.query # <<>> \/ u.typing
             own == bar /\ u.focus = p
  <2>1. treeVisibleHeightFor(u, p) \in {treePaneRows(splitPanelRows(total)[p], own), treePaneRows(total, bar)}
    BY DEF treeVisibleHeightFor
  <2>2. \A h : /\ treePaneRows(h, own) \in {treePaneRows(h, TRUE), treePaneRows(h, FALSE)}
               /\ treePaneRows(h, bar) \in {treePaneRows(h, TRUE), treePaneRows(h, FALSE)}
    BY DEF treePaneRows
  <2>3. total \in Int
    BY <1>1
  <2> HIDE DEF total, bar, own
  <2> QED
    BY <1>2, <1>3, <2>1, <2>2, <2>3
<1> QED
  BY <1>1, <1>4, ListIsList DEF Files, IsList

\* Moving cursors changes no list and no window.
LEMMA MovedSame ==
  ASSUME NEW u, NEW v, Moved(u, v)
  PROVE  /\ \A p : computeDisplayTreeFor(v, p) = computeDisplayTreeFor(u, p)
         /\ \A p : treeVisibleHeightFor(v, p) = treeVisibleHeightFor(u, p)
         /\ layerVisibleHeight(v) = layerVisibleHeight(u)
         /\ Fresh(u) => Fresh(v)
<1>1. /\ v.height = u.height /\ v.focus = u.focus /\ v.aggregated = u.aggregated
      /\ v.layer = u.layer /\ v.collapsed = u.collapsed /\ v.gen = u.gen /\ v.query = u.query
      /\ v.typing = u.typing /\ v.diffOnly = u.diffOnly /\ v.sort = u.sort
  BY DEF Moved, UiFields
<1>2. \A p : computeDisplayTreeFor(v, p) = computeDisplayTreeFor(u, p)
  BY <1>1 DEF computeDisplayTreeFor, rootFor, useTreeCollapse
<1>3. MemoKey(v) = MemoKey(u)
  BY <1>1 DEF MemoKey
<1>4. \A p : displayTreeFor(v, p) = displayTreeFor(u, p)
  BY <1>2, <1>3 DEF displayTreeFor
<1> QED
  BY <1>1, <1>2, <1>4 DEF treeVisibleHeightFor, layerVisibleHeight, Fresh

\* Two moves are a move.
LEMMA MovedOn ==
  ASSUME NEW u, NEW v, NEW w, Moved(u, v), Moved(v, w)
  PROVE  Moved(u, w)
BY DEF Moved

\* setTreeCursor puts one cursor where it is told, and in view.
LEMMA SetCursor ==
  ASSUME NEW u, Shape(u), NEW p \in Panes, NEW i \in Nat \ {0},
         NEW v, v = setTreeCursor(u, p, i)
  PROVE  /\ Shape(v) /\ Moved(u, v) /\ v.layerOffset = u.layerOffset /\ v.cur[p] = i
         /\ v.off[p] = ScrolledTo(i, u.off[p], treeVisibleHeightFor(u, p))
         /\ \A q \in Panes \ {p} : v.cur[q] = u.cur[q] /\ v.off[q] = u.off[q]
         /\ i <= Most(Files(u, p), 1) => PaneFits(v, p)
<1> DEFINE w == [u EXCEPT !.cur[p] = i]
           to == ScrolledTo(i, u.off[p], treeVisibleHeightFor(u, p))
<1>1. /\ Shape(w) /\ Moved(u, w) /\ w.layerOffset = u.layerOffset /\ w.off = u.off /\ w.cur[p] = i
      /\ \A q \in Panes \ {p} : w.cur[q] = u.cur[q]
  BY DEF Shape, IsUi, UiFields, Moved
<1>2. treeVisibleHeightFor(w, p) = treeVisibleHeightFor(u, p)
  BY <1>1, MovedSame
<1>3. v = [w EXCEPT !.off[p] = to]
  BY <1>1, <1>2 DEF setTreeCursor, adjustTreeScrollFor
<1>4. treeVisibleHeightFor(u, p) \in Int /\ Files(u, p) \in Nat /\ u.off[p] \in Nat \ {0}
  BY Sizes DEF Shape
<1>5. to \in Nat \ {0} /\ \A len \in Nat : i <= len => InView(i, to, treeVisibleHeightFor(u, p), len)
  BY <1>4, Scrolled
<1> HIDE DEF w, to
<1>6. /\ Shape(v) /\ Moved(w, v) /\ v.layerOffset = w.layerOffset /\ v.cur = w.cur /\ v.off[p] = to
      /\ \A q \in Panes \ {p} : v.off[q] = w.off[q]
  BY <1>1, <1>3, <1>5 DEF Shape, IsUi, UiFields, Moved
<1>7. Moved(u, v)
  BY <1>1, <1>6, MovedOn
<1>8. treeVisibleHeightFor(v, p) = treeVisibleHeightFor(u, p) /\ Files(v, p) = Files(u, p)
  BY <1>7, MovedSame DEF Files
<1>9. ASSUME i <= Most(Files(u, p), 1) PROVE PaneFits(v, p)
  <2>1. Files(u, p) > 0 => i <= Files(u, p)
    BY <1>4, <1>9 DEF Most
  <2>2. InView(i, to, treeVisibleHeightFor(u, p), Files(u, p))
    BY <1>4, <1>5, <2>1 DEF InView
  <2> QED
    BY <1>1, <1>6, <1>8, <1>9, <2>2 DEF PaneFits
<1> QED
  BY <1>1, <1>6, <1>7, <1>9 DEF to

\* A window that is not scrolled shows what it showed.
LEMMA StillFits ==
  ASSUME NEW u, NEW v, Moved(u, v)
  PROVE  /\ \A p : v.cur[p] = u.cur[p] /\ v.off[p] = u.off[p] /\ PaneFits(u, p) => PaneFits(v, p)
         /\ v.layerOffset = u.layerOffset /\ LayerFits(u) => LayerFits(v)
         /\ Tended(v) = Tended(u)
<1>1. v.layer = u.layer /\ v.aggregated = u.aggregated
  BY DEF Moved, UiFields
<1> QED
  BY <1>1, MovedSame DEF PaneFits, LayerFits, Files, Tended

\* adjustLayerScroll brings the layer in view and moves nothing else.
LEMMA ScrollLayers ==
  ASSUME NEW u, Shape(u), NEW v, v = adjustLayerScroll(u)
  PROVE  Shape(v) /\ Moved(u, v) /\ v.cur = u.cur /\ v.off = u.off /\ LayerFits(v)
<1> DEFINE to == ScrolledTo(u.layer, u.layerOffset, layerVisibleHeight(u))
<1>1. layerVisibleHeight(u) \in Int /\ u.layer \in Nat \ {0} /\ u.layerOffset \in Nat \ {0}
      /\ u.layer <= NLayers /\ NLayers \in Nat
  <2>1. layerVisibleHeight(u) \in Int
    BY Sizes DEF Panes
  <2> QED
    BY <2>1, NavigationAssumption DEF Shape
<1>2. to \in Nat \ {0} /\ InView(u.layer, to, layerVisibleHeight(u), NLayers)
  BY <1>1, Scrolled
<1>3. v = [u EXCEPT !.layerOffset = to]
  BY DEF adjustLayerScroll
<1> HIDE DEF to
<1>4. /\ Shape(v) /\ Moved(u, v) /\ v.cur = u.cur /\ v.off = u.off
      /\ v.layerOffset = to /\ v.layer = u.layer
  BY <1>2, <1>3 DEF Shape, IsUi, UiFields, Moved
<1> QED
  BY <1>2, <1>4, MovedSame DEF LayerFits

TopOf(u, p) == [u EXCEPT !.cur[p] = 1, !.off[p] = 1]

\* The top of one pane is in view.
LEMMA SetTop ==
  ASSUME NEW u, Shape(u), NEW p \in Panes, NEW v, v = TopOf(u, p)
  PROVE  /\ Shape(v) /\ Moved(u, v) /\ v.layerOffset = u.layerOffset /\ PaneFits(v, p)
         /\ \A q \in Panes \ {p} : v.cur[q] = u.cur[q] /\ v.off[q] = u.off[q]
<1> DEFINE w == [u EXCEPT !.cur[p] = 1]
<1>1. v = [w EXCEPT !.off[p] = 1]
  BY DEF TopOf
<1>2. /\ Shape(w) /\ Moved(u, w) /\ w.layerOffset = u.layerOffset /\ w.cur[p] = 1
      /\ w.off = u.off /\ \A q \in Panes \ {p} : w.cur[q] = u.cur[q]
  BY DEF Shape, IsUi, UiFields, Moved
<1> HIDE DEF w
<1>3. /\ Shape(v) /\ Moved(w, v) /\ v.layerOffset = w.layerOffset /\ v.cur = w.cur
      /\ v.off[p] = 1 /\ \A q \in Panes \ {p} : v.off[q] = w.off[q]
  BY <1>1, <1>2 DEF Shape, IsUi, UiFields, Moved
<1>4. Moved(u, v)
  BY <1>2, <1>3, MovedOn
<1>5. treeVisibleHeightFor(v, p) \in Int /\ Files(v, p) \in Nat
  BY <1>3, Sizes
<1>6. PaneFits(v, p)
  <2>1. v.cur[p] = 1 /\ v.off[p] = 1
    BY <1>2, <1>3
  <2>2. InView(1, 1, treeVisibleHeightFor(v, p), Files(v, p)) /\ 1 <= Most(Files(v, p), 1)
    BY <1>5, AtTop DEF Most
  <2> QED
    BY <2>1, <2>2 DEF PaneFits
<1> QED
  BY <1>2, <1>3, <1>4, <1>6

\* clampTreeCursor brings one cursor back into its list, and in view.
LEMMA ClampPane ==
  ASSUME NEW u, Shape(u), Fresh(u), NEW p \in Panes, NEW v, v = clampTreeCursor(u, p)
  PROVE  /\ Shape(v) /\ Moved(u, v) /\ v.layerOffset = u.layerOffset /\ PaneFits(v, p)
         /\ \A q \in Panes \ {p} : v.cur[q] = u.cur[q] /\ v.off[q] = u.off[q]
<1> DEFINE len == Files(u, p)
<1>1. len \in Nat /\ u.cur[p] \in Nat \ {0} /\ Len(displayTreeFor(u, p)) = len
  BY Sizes DEF Shape, Fresh, Files
<1>2. CASE len = 0
  <2>1. v = TopOf(u, p)
    BY <1>1, <1>2 DEF clampTreeCursor, TopOf
  <2> QED
    BY <2>1, SetTop
<1>3. CASE len # 0
  <2> DEFINE i == clampIndex(u.cur[p], len)
  <2>1. v = setTreeCursor(u, p, i)
    BY <1>1, <1>3 DEF clampTreeCursor
  <2>2. i \in Nat \ {0} /\ i <= Most(len, 1)
    BY <1>1, <1>3 DEF clampIndex, Most
  <2> HIDE DEF i
  <2> QED
    BY <2>1, <2>2, SetCursor
<1> QED
  BY <1>2, <1>3

\* clampCursors brings every cursor that is kept in view.
LEMMA ClampGood ==
  ASSUME NEW u, Shape(u), Fresh(u)
  PROVE  Good(clampCursors(u)) /\ Moved(u, clampCursors(u))
<1> DEFINE scrolled == adjustLayerScroll(u)
           top == clampTreeCursor(scrolled, "tree")
           both == clampTreeCursor(top, "agg")
<1>1. Shape(scrolled) /\ Moved(u, scrolled) /\ LayerFits(scrolled)
  BY ScrollLayers
<1>2. Fresh(scrolled)
  BY <1>1, MovedSame
<1>3. clampCursors(u) = IF u.aggregated THEN both ELSE top
  BY DEF clampCursors
<1>4. "tree" \in Panes /\ "agg" \in Panes \ {"tree"} /\ Panes = {"tree", "agg"}
  BY DEF Panes
<1> HIDE DEF scrolled
<1>5. Shape(top) /\ Moved(scrolled, top) /\ top.layerOffset = scrolled.layerOffset /\ PaneFits(top, "tree")
  BY <1>1, <1>2, <1>4, ClampPane
<1>6. Fresh(top) /\ LayerFits(top)
  BY <1>1, <1>2, <1>5, MovedSame, StillFits
<1> HIDE DEF top
<1>7. /\ Shape(both) /\ Moved(top, both) /\ both.layerOffset = top.layerOffset /\ PaneFits(both, "agg")
      /\ both.cur["tree"] = top.cur["tree"] /\ both.off["tree"] = top.off["tree"]
  BY <1>4, <1>5, <1>6, ClampPane
<1>8. LayerFits(both) /\ PaneFits(both, "tree")
  BY <1>5, <1>6, <1>7, StillFits
<1>9. Moved(u, top) /\ Moved(u, both)
  BY <1>1, <1>5, <1>7, MovedOn
<1> HIDE DEF both
<1>10. CASE u.aggregated
  BY <1>3, <1>4, <1>7, <1>8, <1>10, <1>9 DEF Good, Tended
<1>11. CASE ~u.aggregated
  <2>1. ~top.aggregated
    BY <1>1, <1>5, <1>11 DEF Moved, UiFields
  <2> QED
    BY <1>3, <1>5, <1>6, <1>11, <1>9, <2>1 DEF Good, Tended
<1> QED
  BY <1>10, <1>11

\* A move within a list that is in view.
LEMMA SetGood ==
  ASSUME NEW u, Good(u), NEW p \in Panes, NEW i \in Nat \ {0}, i <= Most(Files(u, p), 1)
  PROVE  Good(setTreeCursor(u, p, i))
<1> DEFINE v == setTreeCursor(u, p, i)
<1>1. /\ Shape(v) /\ Moved(u, v) /\ v.layerOffset = u.layerOffset /\ PaneFits(v, p)
      /\ \A q \in Panes \ {p} : v.cur[q] = u.cur[q] /\ v.off[q] = u.off[q]
  BY SetCursor DEF Good
<1> HIDE DEF v
<1>2. LayerFits(v) /\ Tended(v) = Tended(u) /\ \A q \in Tended(u) \ {p} : PaneFits(v, q)
  <2>1. Tended(u) \subseteq Panes
    BY DEF Tended
  <2> QED
    BY <1>1, <2>1, StillFits DEF Good
<1> QED
  BY <1>1, <1>2 DEF Good, v

\* At the top of both lists, whatever they are.
LEMMA TopGood ==
  ASSUME NEW u, Shape(u), u.cur = TopOfBoth, u.off = TopOfBoth
  PROVE  /\ \A p \in Panes : PaneFits(u, p)
         /\ LayerFits(u) => Good(u)
<1>1. ASSUME NEW p \in Panes PROVE PaneFits(u, p)
  <2>1. u.cur[p] = 1 /\ u.off[p] = 1
    BY DEF TopOfBoth
  <2>2. treeVisibleHeightFor(u, p) \in Int /\ Files(u, p) \in Nat
    BY Sizes
  <2> QED
    BY <2>1, <2>2, AtTop DEF PaneFits, Most
<1> QED
  BY <1>1 DEF Good, Tended

\* One field at a time.
LEMMA Edits ==
  ASSUME NEW u, Shape(u)
  PROVE  /\ \A h \in Nat : Shape([u EXCEPT !.height = h])
         /\ \A x : /\ Shape([u EXCEPT !.query = x])    /\ Shape([u EXCEPT !.typing = x])
                   /\ Shape([u EXCEPT !.diffOnly = x]) /\ Shape([u EXCEPT !.sort = x])
         /\ \A i \in 1..NLayers : Shape([u EXCEPT !.layer = i])
         /\ Shape([u EXCEPT !.focus = "tree"]) /\ Shape([u EXCEPT !.focus = "layers"])
         /\ u.aggregated => Shape([u EXCEPT !.focus = "agg"])
<1>1. \A h \in Nat : Shape([u EXCEPT !.height = h])
  BY DEF Shape, IsUi, UiFields
<1>2. \A x : /\ Shape([u EXCEPT !.query = x])    /\ Shape([u EXCEPT !.typing = x])
             /\ Shape([u EXCEPT !.diffOnly = x]) /\ Shape([u EXCEPT !.sort = x])
  BY DEF Shape, IsUi, UiFields
<1>3. \A i \in 1..NLayers : Shape([u EXCEPT !.layer = i])
  BY DEF Shape, IsUi, UiFields
<1>4. /\ Shape([u EXCEPT !.focus = "tree"]) /\ Shape([u EXCEPT !.focus = "layers"])
      /\ u.aggregated => Shape([u EXCEPT !.focus = "agg"])
  BY DEF Shape, IsUi, UiFields, Panes
<1> QED
  BY <1>1, <1>2, <1>3, <1>4

\* Going to the top of both panes.
LEMMA ToTop ==
  ASSUME NEW u, IsUi(u)
  PROVE  /\ IsUi(PanesToTop(u)) /\ PanesToTop(u).cur = TopOfBoth /\ PanesToTop(u).off = TopOfBoth
         /\ Shape(u) => Shape(PanesToTop(u))
         /\ \A f \in UiFields \ {"cur", "off"} : PanesToTop(u)[f] = u[f]
<1>1. TopOfBoth \in [Panes -> Nat \ {0}]
  BY DEF TopOfBoth
<1> QED
  BY <1>1 DEF PanesToTop, Shape, IsUi, UiFields

\* A screen with the layers and height of a good one, at the top of its panes.
LEMMA TopOfGood ==
  ASSUME NEW u, LayerFits(u), NEW v, Shape(v), v.cur = TopOfBoth, v.off = TopOfBoth,
         v.layer = u.layer, v.layerOffset = u.layerOffset, v.height = u.height
  PROVE  Good(v)
<1>1. LayerFits(v)
  BY DEF LayerFits, layerVisibleHeight
<1> QED
  BY <1>1, TopGood

\* No directory is collapsed.
AllOpen == [p \in Panes |-> {}]

\* Forgetting what is collapsed.
LEMMA Cleared ==
  ASSUME NEW u, IsUi(u)
  PROVE  /\ IsUi(clearCollapsed(u)) /\ (Shape(u) => Shape(clearCollapsed(u)))
         /\ clearCollapsed(u).collapsed = AllOpen
         /\ \A f \in UiFields \ {"collapsed", "gen"} : clearCollapsed(u)[f] = u[f]
<1> DEFINE none == AllOpen
           v == [u EXCEPT !.collapsed = none, !.gen = @ + 2]
<1>1. v = clearCollapsed(u)
  BY DEF clearCollapsed, AllOpen
<1> HIDE DEF none
<1>2. /\ \A f \in UiFields \ {"collapsed", "gen"} : v[f] = u[f]
      /\ DOMAIN v = UiFields /\ v.gen = u.gen + 2 /\ v.collapsed = none
  BY DEF IsUi, UiFields
<1> HIDE DEF v
<1>3. DOMAIN none = Panes
  BY DEF none, AllOpen
<1>4. IsUi(v) /\ (Shape(u) => Shape(v))
  BY <1>2, <1>3 DEF Shape, IsUi, UiFields
<1> QED
  BY <1>1, <1>2, <1>4 DEF none

\* Leaving a layer.
LEMMA ResetGood ==
  ASSUME NEW u, Shape(u), NEW v, v = resetTreeForLayerChange(u)
  PROVE  /\ Shape(v) /\ v.cur = TopOfBoth /\ v.off = TopOfBoth
         /\ v.sort = "none" /\ v.collapsed = AllOpen
         /\ \A f \in UiFields \ {"cur", "off", "sort", "collapsed", "gen"} : v[f] = u[f]
         /\ LayerFits(u) => Good(v)
<1> DEFINE top == PanesToTop(u)
           w == [top EXCEPT !.sort = "none"]
<1>1. /\ Shape(top) /\ top.cur = TopOfBoth /\ top.off = TopOfBoth
      /\ \A f \in UiFields \ {"cur", "off"} : top[f] = u[f]
  BY ToTop DEF Shape
<1> HIDE DEF top
<1>2. Shape(w)
  BY <1>1, Edits
<1>3. w.sort = "none" /\ \A f \in UiFields \ {"sort"} : w[f] = top[f]
  BY <1>1 DEF Shape, IsUi, UiFields
<1>4. v = clearCollapsed(w)
  BY DEF resetTreeForLayerChange, top
<1> HIDE DEF w
<1>5. Shape(v) /\ v.collapsed = AllOpen /\ \A f \in UiFields \ {"collapsed", "gen"} : v[f] = w[f]
  BY <1>2, <1>4, Cleared DEF Shape
<1>6. /\ v.cur = TopOfBoth /\ v.off = TopOfBoth
      /\ \A f \in UiFields \ {"cur", "off", "sort", "collapsed", "gen"} : v[f] = u[f]
  BY <1>1, <1>3, <1>5 DEF UiFields
<1>7. v.layer = u.layer /\ v.layerOffset = u.layerOffset /\ v.height = u.height
  BY <1>6 DEF UiFields
<1>8. LayerFits(u) => Good(v)
  BY <1>5, <1>6, <1>7, TopOfGood
<1>9. v.sort = "none"
  BY <1>3, <1>5 DEF UiFields
<1> QED
  BY <1>5, <1>6, <1>8, <1>9

\* A move to an item of the focused list.
LEMMA MoveToGood ==
  ASSUME NEW u, Good(u), Fresh(u), NEW i \in 1..Items(u)
  PROVE  Good(MoveTo(u, i))
<1>1. CASE u.focus = "layers"
  <2> DEFINE there == [u EXCEPT !.layer = i]
             reset == resetTreeForLayerChange(there)
             v == adjustLayerScroll(reset)
  <2>1. i \in 1..NLayers /\ Shape(there)
    BY <1>1, Edits DEF Items, Good
  <2> HIDE DEF there
  <2>2. Shape(reset) /\ reset.cur = TopOfBoth /\ reset.off = TopOfBoth
    BY <2>1, ResetGood
  <2> HIDE DEF reset
  <2>3. Shape(v) /\ v.cur = TopOfBoth /\ v.off = TopOfBoth /\ LayerFits(v)
    BY <2>2, ScrollLayers
  <2>4. MoveTo(u, i) = v
    BY <1>1 DEF MoveTo, there, reset
  <2> QED
    BY <2>3, <2>4, TopGood
<1>2. CASE u.focus # "layers"
  <2>1. u.focus \in Panes
    BY <1>2 DEF Good, Shape
  <2>2. Files(u, u.focus) \in Nat /\ Items(u) = Files(u, u.focus)
    BY <1>2, <2>1, Sizes DEF Items, Files, Fresh, Good
  <2>3. i \in Nat \ {0} /\ i <= Most(Files(u, u.focus), 1)
    BY <2>2 DEF Most
  <2> QED
    BY <1>2, <2>1, <2>3, SetGood DEF MoveTo
<1> QED
  BY <1>1, <1>2

\* The keys that move.
LEMMA KeysGood ==
  ASSUME NEW u, Good(u), Fresh(u)
  PROVE  /\ Good(moveDown(u)) /\ Good(moveUp(u)) /\ Good(moveToTop(u)) /\ Good(moveToBottom(u))
         /\ \A dir \in {1, -1}, fraction \in BOOLEAN : Good(moveByPage(u, dir, fraction))
<1>1. Items(u) \in Nat /\ At(u) \in Nat \ {0} /\ (Items(u) > 0 => At(u) <= Items(u))
  <2>1. CASE u.focus = "layers"
    BY <2>1, NavigationAssumption DEF Items, At, Good, Shape
  <2>2. CASE u.focus # "layers"
    <3>1. u.focus \in Panes /\ u.focus \in Tended(u) /\ u.cur[u.focus] \in Nat \ {0}
      BY <2>2 DEF Good, Shape, Tended, Panes
    <3>2. Files(u, u.focus) \in Nat /\ Items(u) = Files(u, u.focus) /\ At(u) = u.cur[u.focus]
      BY <2>2, <3>1, Sizes DEF Items, At, Files, Fresh, Good
    <3>3. u.cur[u.focus] <= Most(Files(u, u.focus), 1)
      BY <3>1 DEF Good, PaneFits
    <3> QED
      BY <3>1, <3>2, <3>3 DEF Most
  <2> QED
    BY <2>1, <2>2
<1>2. Good(moveDown(u))
  BY <1>1, MoveToGood DEF moveDown
<1>3. Good(moveUp(u))
  <2>1. CASE At(u) > 1 /\ Items(u) > 0
    BY <1>1, <2>1, MoveToGood DEF moveUp
  <2>2. CASE At(u) > 1 /\ Items(u) = 0
    <3>1. u.focus # "layers"
      BY <1>1, <2>2, NavigationAssumption DEF Items
    <3>2. u.focus \in Panes /\ u.focus \in Tended(u)
      BY <3>1 DEF Good, Shape, Tended, Panes
    <3>3. Items(u) = Files(u, u.focus) /\ At(u) = u.cur[u.focus]
      BY <3>1, <3>2 DEF Items, At, Files, Fresh
    <3>4. u.cur[u.focus] <= Most(Files(u, u.focus), 1)
      BY <3>2 DEF Good, PaneFits
    <3> QED
      BY <1>1, <2>2, <3>3, <3>4 DEF Most
  <2>3. CASE ~(At(u) > 1)
    BY <2>3 DEF moveUp
  <2> QED
    BY <1>1, <2>1, <2>2, <2>3
<1>4. Good(moveToBottom(u))
  BY <1>1, MoveToGood DEF moveToBottom
<1>5. ASSUME NEW dir \in {1, -1}, NEW fraction \in BOOLEAN PROVE Good(moveByPage(u, dir, fraction))
  <2> DEFINE step == PageStep(u, fraction)
             to == At(u) + dir * step
             i == clampIndex(to, Items(u))
  <2>1. step \in Int
    <3>1. \A n \in Int : Most(n, 1) \in Int
      BY DEF Most
    <3>2. layerVisibleHeight(u) \in Int /\ (u.focus # "layers" => treeVisibleHeightFor(u, u.focus) \in Int)
      BY Sizes DEF Good, Shape, Panes
    <3> DEFINE rows == Most(IF u.focus = "layers" THEN layerVisibleHeight(u)
                                                  ELSE treeVisibleHeightFor(u, u.focus), 1)
    <3>3. rows \in Int
      BY <3>1, <3>2
    <3>4. step = IF fraction THEN Most(rows \div 2, 1) ELSE rows
      BY DEF PageStep
    <3> HIDE DEF rows, step
    <3> QED
      BY <3>1, <3>3, <3>4
  <2> HIDE DEF step
  <2>2. to \in Int
    <3>1. CASE dir = 1
      BY <1>1, <2>1, <3>1
    <3>2. CASE dir = -1
      BY <1>1, <2>1, <3>2
    <3> QED
      BY <3>1, <3>2
  <2> HIDE DEF to
  <2>3. Items(u) # 0 => i \in 1..Items(u)
    BY <1>1, <2>2 DEF clampIndex
  <2>4. moveByPage(u, dir, fraction)
          = IF Items(u) = 0 \/ (u.focus = "layers" /\ i = u.layer) THEN u ELSE MoveTo(u, i)
    BY DEF moveByPage, step, to
  <2> HIDE DEF i
  <2> QED
    BY <2>3, <2>4, MoveToGood
<1>6. Good(moveToTop(u))
  <2>1. CASE u.focus = "layers"
    <3> DEFINE first == [u EXCEPT !.layer = 1, !.layerOffset = 1]
    <3>1. Shape(first) /\ first.layer = 1 /\ first.layerOffset = 1
      BY NavigationAssumption DEF Good, Shape, IsUi, UiFields
    <3>2. layerVisibleHeight(first) \in Int /\ NLayers \in Nat
      BY <3>1, Sizes, NavigationAssumption DEF Panes
    <3> HIDE DEF first
    <3>3. LayerFits(first)
      BY <3>1, <3>2, AtTop DEF LayerFits
    <3> QED
      BY <2>1, <3>1, <3>3, ResetGood DEF moveToTop, first
  <2>2. CASE u.focus # "layers"
    <3> DEFINE p == u.focus
               v == [u EXCEPT !.cur[p] = 1, !.off[p] = 1]
    <3>1. p \in Panes
      BY <2>2 DEF Good, Shape
    <3>2. moveToTop(u) = v
      BY <2>2 DEF moveToTop
    <3>5. v = TopOf(u, p)
      BY DEF TopOf
    <3> HIDE DEF p, v
    <3>3. /\ Shape(v) /\ Moved(u, v) /\ v.layerOffset = u.layerOffset /\ PaneFits(v, p)
          /\ \A q \in Panes \ {p} : v.cur[q] = u.cur[q] /\ v.off[q] = u.off[q]
      BY <3>1, <3>5, SetTop DEF Good
    <3>4. LayerFits(v) /\ Tended(v) = Tended(u) /\ \A q \in Tended(u) \ {p} : PaneFits(v, q)
      <4>1. Tended(u) \subseteq Panes
        BY DEF Tended
      <4> QED
        BY <3>3, <4>1, StillFits DEF Good
    <3> QED
      BY <3>2, <3>3, <3>4 DEF Good
  <2> QED
    BY <2>1, <2>2
<1> QED
  BY <1>2, <1>3, <1>4, <1>5, <1>6

\* A handler's screen is drawn from fresh lists.
LEMMA FreshOn ==
  ASSUME MemoInv, NEW u, Follows(ui, u)
  PROVE  Fresh(u)
BY ServedIsFresh DEF Fresh

\* A screen with one directory of a pane closed, or opened again.
Flipped(u, pane, dir) ==
    [u EXCEPT !.collapsed[pane] = toggleCollapsed(@, dir), !.gen = @ + 1]

\* A toggle flips one directory of one pane, and clamps the cursors.
LEMMA ToggleFlips ==
  ASSUME NEW u, Shape(u), NEW pane \in Panes, NEW dir, NEW v, v = Flipped(u, pane, dir)
  PROVE  /\ toggleTreeDirectory(u, pane, dir) = clampCursors(v)
         /\ Shape(v) /\ Follows(u, v)
         /\ \A f \in UiFields \ {"collapsed", "gen"} : v[f] = u[f]
         /\ v.collapsed[pane] = toggleCollapsed(u.collapsed[pane], dir)
         /\ \A q \in Panes \ {pane} : v.collapsed[q] = u.collapsed[q]
<1> DEFINE flip == toggleCollapsed(u.collapsed[pane], dir)
           set == [u.collapsed EXCEPT ![pane] = flip]
<1>1. v = [u EXCEPT !.collapsed = set, !.gen = @ + 1]
  BY DEF Flipped
<1>2. toggleTreeDirectory(u, pane, dir) = clampCursors(v)
  BY DEF toggleTreeDirectory, Flipped
<1> HIDE DEF flip
<1>3. DOMAIN u.collapsed = Panes
  BY DEF Shape, IsUi
<1>4. DOMAIN set = Panes /\ set[pane] = flip /\ \A q \in Panes \ {pane} : set[q] = u.collapsed[q]
  BY <1>3
<1> HIDE DEF set
<1>5. /\ \A f \in UiFields \ {"collapsed", "gen"} : v[f] = u[f]
      /\ DOMAIN v = UiFields /\ v.gen = u.gen + 1 /\ v.collapsed = set
  BY <1>1 DEF Shape, IsUi, UiFields
<1>6. Shape(v) /\ Follows(u, v)
  BY <1>4, <1>5 DEF Shape, IsUi, UiFields, Follows
<1> QED
  BY <1>2, <1>4, <1>5, <1>6 DEF flip

\* Opening or closing a directory.
LEMMA ToggleGood ==
  ASSUME MemoInv, Good(ui), NEW pane \in Panes, NEW dir
  PROVE  Good(toggleTreeDirectory(ui, pane, dir))
<1>1. PICK v : v = Flipped(ui, pane, dir)
  OBVIOUS
<1>2. toggleTreeDirectory(ui, pane, dir) = clampCursors(v) /\ Shape(v) /\ Follows(ui, v)
  BY <1>1, ToggleFlips DEF Good
<1>3. Fresh(v)
  BY <1>2, FreshOn
<1> QED
  BY <1>2, <1>3, ClampGood

\* The keys that open and close directories.
LEMMA SidewaysGood ==
  ASSUME MemoInv, Good(ui), ui.focus \in Panes
  PROVE  Good(moveTreeRight(ui)) /\ Good(moveTreeLeft(ui)) /\ Good(EnterDirectory(ui))
<1> DEFINE pane == ui.focus
           files == displayTreeFor(ui, pane)
           cur == ui.cur[pane]
<1>1. Len(files) = Files(ui, pane) /\ Files(ui, pane) \in Nat /\ cur \in Nat \ {0}
  <2>1. Fresh(ui)
    BY FreshOn, FollowsItself DEF MemoInv
  <2> QED
    BY <2>1, Sizes DEF Good, Shape, Fresh, Files
<1>2. \A p \in Panes : \A dir : Good(toggleTreeDirectory(ui, p, dir))
  BY ToggleGood
<1>3. Good(moveTreeRight(ui))
  <2>1. cur < Len(files) => Good(setTreeCursor(ui, pane, cur + 1))
    <3> HIDE DEF files, cur, pane
    <3> SUFFICES ASSUME cur < Len(files) PROVE Good(setTreeCursor(ui, pane, cur + 1))
      OBVIOUS
    <3>1. cur + 1 \in Nat \ {0} /\ cur + 1 <= Most(Files(ui, pane), 1)
      BY <1>1 DEF Most
    <3> QED
      BY <3>1, SetGood DEF pane
  <2> QED
    BY <1>2, <2>1 DEF moveTreeRight
<1>4. Good(moveTreeLeft(ui))
  <2> DEFINE parents == {i \in 1..(cur - 1) : files[i].path = Front(files[cur].path)}
  <2>1. cur <= Len(files) /\ parents # {} => Good(setTreeCursor(ui, pane, Max(parents)))
    <3> SUFFICES ASSUME cur <= Len(files), parents # {}
                 PROVE  Good(setTreeCursor(ui, pane, Max(parents)))
      OBVIOUS
    <3>1. parents \subseteq 1..(cur - 1)
      OBVIOUS
    <3> HIDE DEF parents, files, cur
    <3>2. Max(parents) \in 1..(cur - 1)
      <4>1. cur - 1 \in Nat
        BY <1>1
      <4> QED
        BY <3>1, <4>1, Extremes
    <3>3. Max(parents) \in Nat \ {0} /\ Max(parents) <= Most(Files(ui, pane), 1)
      BY <1>1, <3>2 DEF Most
    <3> QED
      BY <3>3, SetGood
  <2>2. moveTreeLeft(ui)
          = IF cur > Len(files) THEN ui
            ELSE IF files[cur].dir /\ files[cur].path \notin ui.collapsed[pane]
                 THEN toggleTreeDirectory(ui, pane, files[cur].path)
            ELSE IF parents # {} THEN setTreeCursor(ui, pane, Max(parents))
            ELSE ui
    BY Zenon DEF moveTreeLeft
  <2> HIDE DEF parents, files, cur
  <2> QED
    BY <1>1, <1>2, <2>1, <2>2
<1>5. Good(EnterDirectory(ui))
  <2>1. activeTreeFocus(ui) \in Panes
    BY DEF activeTreeFocus, Panes
  <2> QED
    BY <1>2, <2>1 DEF EnterDirectory
<1> QED
  BY <1>3, <1>4, <1>5

\* The position of a path in a list is one where it stands, and is none when
\* it stands nowhere.
LEMMA IndexIs ==
  ASSUME NEW list, IsList(list), NEW path
  PROVE  /\ indexOfPath(list, path) \in 0..Len(list)
         /\ indexOfPath(list, path) # 0 => list[indexOfPath(list, path)].path = path
         /\ \A i \in 1..Len(list) : list[i].path = path => indexOfPath(list, path) # 0
<1> DEFINE found == {i \in DOMAIN list : list[i].path = path}
<1>1. indexOfPath(list, path) = IF found = {} THEN 0 ELSE Min(found)
  BY DEF indexOfPath
<1>2. found \subseteq 1..Len(list) /\ Len(list) \in Nat
  BY DEF IsList
<1>3. found # {} => Min(found) \in found
  <2> HIDE DEF found
  <2> QED
    BY <1>2, Extremes
<1>4. \A i \in 1..Len(list) : list[i].path = path => i \in found
  BY DEF IsList
<1>5. \A i \in found : list[i].path = path
  OBVIOUS
<1> HIDE DEF found
<1>6. CASE found = {}
  <2>1. indexOfPath(list, path) = 0
    BY <1>1, <1>6
  <2>2. \A i \in 1..Len(list) : list[i].path # path
    BY <1>4, <1>6
  <2> QED
    BY <1>2, <2>1, <2>2
<1>7. CASE found # {}
  <2> DEFINE m == Min(found)
  <2>1. indexOfPath(list, path) = m /\ m \in found
    BY <1>1, <1>3, <1>7
  <2> HIDE DEF m
  <2>2. m \in 1..Len(list) /\ list[m].path = path
    BY <1>2, <1>5, <2>1
  <2> QED
    BY <1>2, <2>1, <2>2
<1> QED
  BY <1>6, <1>7

\* The screen a jump looks for its row on: the top of the row's layer, with no
\* filter, order or collapsed directory in the way, and with the unchanged
\* files too unless the row is among the changed ones.
JumpsOn(s, row) ==
    /\ Good(s) /\ Fresh(s)
    /\ s.layer = row.layer /\ s.focus = "tree"
    /\ s.query = <<>> /\ s.sort = "none" /\ s.collapsed = AllOpen
    /\ s.diffOnly = FALSE \/ indexOfPath(displayTreeFor(s, "tree"), row.path) # 0

\* A jump to a layer that there is puts the cursor on that screen.
LEMMA JumpScreen ==
  ASSUME MemoInv, Good(ui), NEW row, row.layer \in 1..NLayers
  PROVE  \E s : /\ JumpsOn(s, row)
                /\ wasteJump(ui, row)
                     = setTreeCursor(s, "tree", Most(indexOfPath(displayTreeFor(s, "tree"), row.path), 1))
<1> DEFINE there == [ui EXCEPT !.typing = FALSE, !.query = <<>>, !.layer = row.layer, !.focus = "tree"]
           moved == adjustLayerScroll(there)
           fresh == resetTreeForLayerChange(moved)
           pane == activeTreeFocus(fresh)
           Find(v) == indexOfPath(displayTreeFor(v, pane), row.path)
           all == [fresh EXCEPT !.diffOnly = FALSE]
           seen == IF Find(fresh) = 0 THEN all ELSE fresh
           to == Most(Find(seen), 1)
           placed == [seen EXCEPT !.cur.tree = to]
<1>1. wasteJump(ui, row) = adjustTreeScrollFor(placed, pane)
  BY DEF wasteJump
<1>2. /\ Shape(there) /\ Follows(ui, there) /\ there.focus = "tree"
      /\ there.query = <<>> /\ there.layer = row.layer
  <2>1. /\ \A f \in UiFields \ {"typing", "query", "layer", "focus"} : there[f] = ui[f]
        /\ DOMAIN there = UiFields /\ there.layer = row.layer /\ there.focus = "tree"
        /\ there.query = <<>>
    BY DEF Good, Shape, IsUi, UiFields
  <2> HIDE DEF there
  <2> QED
    BY <2>1 DEF Good, Shape, IsUi, UiFields, Follows, Panes
<1> HIDE DEF there
<1>3. /\ Shape(moved) /\ LayerFits(moved) /\ Follows(ui, moved)
      /\ moved.focus = "tree" /\ moved.query = <<>> /\ moved.layer = row.layer
  <2>1. Shape(moved) /\ LayerFits(moved) /\ Moved(there, moved)
    BY <1>2, ScrollLayers
  <2>2. Follows(ui, moved)
    BY <1>2, FollowsReset, FollowsShaped, FollowsOn DEF MemoInv
  <2> QED
    BY <1>2, <2>1, <2>2 DEF Moved, UiFields
<1> HIDE DEF moved
<1>4. /\ Good(fresh) /\ fresh.cur = TopOfBoth /\ fresh.off = TopOfBoth /\ Follows(ui, fresh)
      /\ fresh.focus = "tree" /\ fresh.query = <<>> /\ fresh.layer = row.layer
      /\ fresh.sort = "none" /\ fresh.collapsed = AllOpen
  <2>1. /\ fresh.cur = TopOfBoth /\ fresh.off = TopOfBoth /\ Good(fresh)
        /\ fresh.sort = "none" /\ fresh.collapsed = AllOpen
        /\ \A f \in UiFields \ {"cur", "off", "sort", "collapsed", "gen"} : fresh[f] = moved[f]
    BY <1>3, ResetGood
  <2>2. Follows(ui, fresh)
    BY <1>3, FollowsReset, FollowsShaped, FollowsOn DEF MemoInv
  <2> QED
    BY <1>3, <2>1, <2>2 DEF UiFields
<1>5. pane = "tree" /\ "tree" \in Panes
  BY <1>4 DEF activeTreeFocus, Panes
<1> HIDE DEF fresh, pane
<1>6. /\ Good(all) /\ Follows(ui, all) /\ all.focus = "tree" /\ all.query = <<>> /\ all.layer = row.layer
      /\ all.sort = "none" /\ all.collapsed = AllOpen /\ all.diffOnly = FALSE
  <2>1. Shape(all) /\ all.diffOnly = FALSE /\ \A f \in UiFields \ {"diffOnly"} : all[f] = fresh[f]
    BY <1>4, Edits DEF Good, Shape, IsUi, UiFields
  <2>2. Follows(ui, all)
    BY <1>4, FollowsFields, FollowsShaped, FollowsOn DEF MemoInv
  <2> HIDE DEF all
  <2>3. all.cur = TopOfBoth /\ all.off = TopOfBoth
    BY <1>4, <2>1 DEF UiFields
  <2>4. all.layer = fresh.layer /\ all.layerOffset = fresh.layerOffset /\ all.height = fresh.height
    BY <2>1 DEF UiFields
  <2>5. LayerFits(fresh)
    BY <1>4 DEF Good
  <2>6. Good(all)
    BY <2>1, <2>3, <2>4, <2>5, TopOfGood
  <2> QED
    BY <1>4, <2>1, <2>2, <2>6 DEF UiFields
<1> HIDE DEF all
<1>7. Fresh(fresh) /\ Fresh(all)
  BY <1>4, <1>6, FreshOn
<1>8. \A v : Find(v) = indexOfPath(displayTreeFor(v, "tree"), row.path)
  BY <1>5
<1> HIDE DEF Find
<1>9. JumpsOn(seen, row)
  <2>1. CASE Find(fresh) = 0
    BY <1>6, <1>7, <2>1 DEF JumpsOn
  <2>2. CASE Find(fresh) # 0
    BY <1>4, <1>7, <1>8, <2>2 DEF JumpsOn
  <2> QED
    BY <2>1, <2>2
<1> HIDE DEF seen
<1>10. to = Most(indexOfPath(displayTreeFor(seen, "tree"), row.path), 1)
  BY <1>8
<1>11. placed = [seen EXCEPT !.cur["tree"] = to]
  BY Zenon
<1> HIDE DEF to, placed
<1>12. wasteJump(ui, row) = setTreeCursor(seen, "tree", to)
  BY <1>1, <1>5, <1>11 DEF setTreeCursor
<1> QED
  BY <1>9, <1>10, <1>12

\* A jump to a row without a layer stays where it is, at the top of both panes.
LEMMA JumpStays ==
  ASSUME MemoInv, Good(ui), NEW row, ~(row.layer \in 1..NLayers)
  PROVE  \E s : \E pane \in Panes :
            /\ Good(s) /\ s.cur = TopOfBoth
            /\ s.layer = ui.layer /\ s.focus = ui.focus /\ s.query = ui.query
            /\ wasteJump(ui, row) = setTreeCursor(s, pane, 1)
<1> DEFINE fresh == resetTreeForLayerChange(ui)
           pane == activeTreeFocus(fresh)
           all == [fresh EXCEPT !.diffOnly = FALSE]
           seen == IF indexOfPath(displayTreeFor(fresh, pane), row.path) = 0 THEN all ELSE fresh
           placed == [seen EXCEPT !.cur.tree = 1]
           Same(v) == v.layer = ui.layer /\ v.focus = ui.focus /\ v.query = ui.query
<1>1. wasteJump(ui, row) = adjustTreeScrollFor(placed, pane)
  BY DEF wasteJump
<1>2. Good(fresh) /\ fresh.cur = TopOfBoth /\ fresh.off = TopOfBoth /\ Same(fresh)
  <2>1. /\ Good(fresh) /\ fresh.cur = TopOfBoth /\ fresh.off = TopOfBoth
        /\ \A f \in UiFields \ {"cur", "off", "sort", "collapsed", "gen"} : fresh[f] = ui[f]
    BY ResetGood DEF Good
  <2> HIDE DEF fresh
  <2> QED
    BY <2>1 DEF UiFields
<1>3. pane \in Panes
  BY DEF activeTreeFocus, Panes
<1> HIDE DEF fresh, pane
<1>4. Good(all) /\ all.cur = TopOfBoth /\ Same(all)
  <2>1. Shape(all) /\ \A f \in UiFields \ {"diffOnly"} : all[f] = fresh[f]
    BY <1>2, Edits DEF Good, Shape, IsUi, UiFields
  <2> HIDE DEF all
  <2>2. /\ all.cur = TopOfBoth /\ all.off = TopOfBoth /\ Same(all)
        /\ all.layer = fresh.layer /\ all.layerOffset = fresh.layerOffset /\ all.height = fresh.height
    BY <1>2, <2>1 DEF UiFields
  <2>3. LayerFits(fresh)
    BY <1>2 DEF Good
  <2> QED
    BY <2>1, <2>2, <2>3, TopOfGood
<1> HIDE DEF all
<1>5. Good(seen) /\ seen.cur = TopOfBoth /\ Same(seen)
  BY <1>2, <1>4
<1> HIDE DEF seen
<1>6. placed = [seen EXCEPT !.cur[pane] = 1]
  <2>1. [seen.cur EXCEPT !["tree"] = 1] = [seen.cur EXCEPT ![pane] = 1]
    BY <1>3, <1>5 DEF TopOfBoth, Panes
  <2> QED
    BY <2>1
<1> HIDE DEF placed
<1>7. wasteJump(ui, row) = setTreeCursor(seen, pane, 1)
  BY <1>1, <1>6 DEF setTreeCursor
<1> QED
  BY <1>3, <1>5, <1>7

\* A jump from the waste overlay, to any row.
LEMMA JumpGood ==
  ASSUME MemoInv, Good(ui), NEW row
  PROVE  Good(wasteJump(ui, row))
<1>1. CASE row.layer \in 1..NLayers
  <2>1. PICK s : /\ JumpsOn(s, row)
                 /\ wasteJump(ui, row)
                      = setTreeCursor(s, "tree", Most(indexOfPath(displayTreeFor(s, "tree"), row.path), 1))
    BY <1>1, JumpScreen
  <2> DEFINE found == indexOfPath(displayTreeFor(s, "tree"), row.path)
  <2>2. Good(s) /\ Fresh(s) /\ "tree" \in Panes
    BY <2>1 DEF JumpsOn, Panes
  <2>3. IsList(displayTreeFor(s, "tree")) /\ Len(displayTreeFor(s, "tree")) = Files(s, "tree")
    BY <2>2, ListIsList DEF Fresh, Files, Good
  <2>4. found \in 0..Files(s, "tree") /\ Files(s, "tree") \in Nat
    BY <2>3, IndexIs DEF IsList
  <2> HIDE DEF found
  <2>5. Most(found, 1) \in Nat \ {0} /\ Most(found, 1) <= Most(Files(s, "tree"), 1)
    BY <2>4 DEF Most
  <2> QED
    BY <2>1, <2>2, <2>5, SetGood DEF found
<1>2. CASE ~(row.layer \in 1..NLayers)
  <2>1. PICK s : \E pane \in Panes :
           /\ Good(s) /\ s.cur = TopOfBoth /\ wasteJump(ui, row) = setTreeCursor(s, pane, 1)
    BY <1>2, JumpStays
  <2>2. PICK pane \in Panes : Good(s) /\ wasteJump(ui, row) = setTreeCursor(s, pane, 1)
    BY <2>1
  <2>3. 1 <= Most(Files(s, pane), 1)
    BY <2>2, Sizes DEF Most, Good
  <2> QED
    BY <2>2, <2>3, SetGood
<1> QED
  BY <1>1, <1>2

-----------------------------------------------------------------------------
(* Waste rows *)

WasteFields == {"open", "cleanup", "expanded", "cursor", "offset", "detail"}

\* The overlay of a terminal of that height: its cursor is a row's, in view.
WasteFits(w, height) ==
    /\ DOMAIN w = WasteFields /\ w.expanded \in BOOLEAN
    /\ w.cursor \in Nat \ {0} /\ w.offset \in Nat \ {0}
    /\ w.cursor <= Most(Len(visibleWasteRows(w)), 1)
    /\ w.open => InView(w.cursor, w.offset, Most(height - 10, 1), Len(visibleWasteRows(w)))

\* The overlay keeps its cursor in view, and never covers the filter's bar.
WasteInv == WasteFits(waste, ui.height) /\ (waste.open => ~ui.typing)

\* As many rows as there are, up to a limit unless the list is expanded.
LEMMA WasteSizes ==
  ASSUME NEW w
  PROVE  /\ Len(allWasteRows(w)) \in Nat /\ Len(visibleWasteRows(w)) \in Nat
         /\ Len(visibleWasteRows(w)) =
              IF ~w.expanded /\ Len(allWasteRows(w)) > wasteDefaultLimit
              THEN wasteDefaultLimit ELSE Len(allWasteRows(w))
<1>1. \A s \in Seq(WasteRow), n \in Nat : n <= Len(s) => SubSeq(s, 1, n) \in Seq(WasteRow) /\ Len(SubSeq(s, 1, n)) = n
  OBVIOUS
<1>2. wasteRows \in Seq(WasteRow)
  <2> DEFINE n == Min({Len(WastedFiles), wasteMaxRows})
  <2>1. Len(WastedFiles) \in Nat /\ wasteMaxRows \in Nat
    BY NavigationAssumption
  <2>2. n \in {Len(WastedFiles), wasteMaxRows} /\ n <= Len(WastedFiles)
    <3> DEFINE S == {Len(WastedFiles), wasteMaxRows}
    <3>1. \E x \in S : \A y \in S : x <= y
      BY <2>1
    <3>2. Min(S) \in S /\ \A y \in S : Min(S) <= y
      BY <3>1 DEF Min
    <3> QED
      BY <3>2
  <2> HIDE DEF n
  <2>3. n \in Nat /\ WastedFiles \in Seq(WasteRow)
    BY <2>1, <2>2, NavigationAssumption
  <2>4. wasteRows = SubSeq(WastedFiles, 1, n)
    BY DEF wasteRows, n
  <2> QED
    BY <1>1, <2>2, <2>3, <2>4
<1>3. allWasteRows(w) \in Seq(WasteRow)
  BY <1>2, NavigationAssumption DEF allWasteRows
<1> DEFINE all == allWasteRows(w)
<1>4. Len(all) \in Nat /\ wasteDefaultLimit \in Nat
  BY <1>3, NavigationAssumption
<1>5. visibleWasteRows(w) = IF ~w.expanded /\ Len(all) > wasteDefaultLimit
                            THEN SubSeq(all, 1, wasteDefaultLimit) ELSE all
  BY DEF visibleWasteRows
<1>6. Len(all) > wasteDefaultLimit => Len(SubSeq(all, 1, wasteDefaultLimit)) = wasteDefaultLimit
  BY <1>1, <1>3, <1>4
<1> HIDE DEF all
<1>7. Len(visibleWasteRows(w)) = IF ~w.expanded /\ Len(all) > wasteDefaultLimit
                                 THEN wasteDefaultLimit ELSE Len(all)
  BY <1>5, <1>6
<1> QED
  BY <1>4, <1>7 DEF all

\* How many rows the overlay has, expanded or not.
RowsIf(w, on) == IF ~on /\ Len(allWasteRows(w)) > wasteDefaultLimit
                 THEN wasteDefaultLimit ELSE Len(allWasteRows(w))

\* The overlay, expanded or not, with its cursor moved and in view.
WasteAt(w, on, i, height) == adjustWasteScroll([w EXCEPT !.expanded = on, !.cursor = i], height)

\* A move of the overlay's cursor to a row.
LEMMA WasteToFits ==
  ASSUME NEW h, NEW w, WasteFits(w, h), NEW height \in Nat, NEW on \in BOOLEAN, NEW i \in Nat \ {0},
         NEW v, v = WasteAt(w, on, i, height),
         i <= Most(RowsIf(w, on), 1)
  PROVE  WasteFits(v, height) /\ v.open = w.open
<1> DEFINE rows == Most(height - 10, 1)
           to == ScrolledTo(i, w.offset, rows)
<1>1. /\ v.open = w.open /\ v.cleanup = w.cleanup /\ v.expanded = on /\ v.cursor = i /\ v.offset = to
      /\ DOMAIN v = WasteFields
  BY DEF WasteAt, adjustWasteScroll, WasteFits, WasteFields
<1>2. rows \in Nat \ {0} /\ w.offset \in Nat \ {0}
  BY DEF Most, WasteFits
<1> HIDE DEF rows
<1>3. to \in Nat \ {0} /\ \A len \in Nat : i <= len => InView(i, to, rows, len)
  <2> DEFINE from == w.offset
  <2>1. rows \in Int /\ from \in Nat \ {0}
    BY <1>2
  <2> HIDE DEF from
  <2>2. /\ ScrolledTo(i, from, rows) \in Nat \ {0}
        /\ \A len \in Nat : i <= len => InView(i, ScrolledTo(i, from, rows), rows, len)
    BY <2>1, Scrolled
  <2> QED
    BY <2>2 DEF from
<1> HIDE DEF to
<1>4. allWasteRows(v) = allWasteRows(w)
  BY <1>1 DEF allWasteRows
<1>5. /\ Len(visibleWasteRows(v)) \in Nat
      /\ i <= Most(Len(visibleWasteRows(v)), 1)
  BY <1>1, <1>4, WasteSizes DEF RowsIf
<1>6. InView(i, to, rows, Len(visibleWasteRows(v)))
  <2>1. Len(visibleWasteRows(v)) > 0 => i <= Len(visibleWasteRows(v))
    BY <1>5 DEF Most
  <2> QED
    BY <1>3, <1>5, <2>1 DEF InView
<1> QED
  BY <1>1, <1>3, <1>5, <1>6 DEF WasteFits, rows

\* The overlay at the top of a list.
LEMMA WasteTopFits ==
  ASSUME NEW v, DOMAIN v = WasteFields, v.expanded \in BOOLEAN, v.cursor = 1, v.offset = 1,
         NEW h \in Nat
  PROVE  WasteFits(v, h)
<1>1. Len(visibleWasteRows(v)) \in Nat /\ Most(h - 10, 1) \in Int
  BY WasteSizes DEF Most
<1>2. InView(1, 1, Most(h - 10, 1), Len(visibleWasteRows(v)))
  BY <1>1, AtTop
<1>3. 1 <= Most(Len(visibleWasteRows(v)), 1)
  BY <1>1 DEF Most
<1> QED
  BY <1>2, <1>3 DEF WasteFits

\* The keys of the overlay.
LEMMA WasteKeysFit ==
  ASSUME WasteFits(waste, ui.height), ui.height \in Nat, waste.open
  PROVE  /\ WasteFits(wasteDown(waste), ui.height) /\ WasteFits(wasteUp(waste), ui.height)
         /\ WasteFits(wasteBottom(waste), ui.height)
<1> DEFINE w == waste
           on == w.expanded
           all == Len(allWasteRows(w))
           shown == Len(visibleWasteRows(w))
           same == [w EXCEPT !.expanded = on]
           open == [w EXCEPT !.expanded = TRUE]
<1>1. /\ all \in Nat /\ wasteDefaultLimit \in Nat \ {0} /\ w.cursor \in Nat \ {0} /\ on \in BOOLEAN
      /\ shown = IF ~on /\ all > wasteDefaultLimit THEN wasteDefaultLimit ELSE all
      /\ w.cursor <= Most(shown, 1)
  BY WasteSizes, NavigationAssumption DEF WasteFits
<1>2. \A i : /\ WasteTo(w, i) = WasteTo(same, i)
             /\ WasteTo(same, i) = WasteAt(w, on, i, ui.height)
             /\ WasteTo(open, i) = WasteAt(w, TRUE, i, ui.height)
  BY DEF WasteTo, WasteAt, adjustWasteScroll, WasteFits, WasteFields
<1>3. \A i \in Nat \ {0} : i <= Most(shown, 1) => WasteFits(WasteTo(w, i), ui.height)
  <2>1. RowsIf(w, on) = shown
    BY <1>1 DEF RowsIf
  <2> HIDE DEF w, on, shown
  <2> QED
    BY <1>1, <1>2, <2>1, WasteToFits DEF w
<1>4. \A i \in Nat \ {0} : i <= Most(all, 1) => WasteFits(WasteTo(open, i), ui.height)
  <2>1. RowsIf(w, TRUE) = all /\ TRUE \in BOOLEAN
    BY DEF RowsIf
  <2> HIDE DEF w, open, all
  <2> QED
    BY <1>2, <2>1, WasteToFits DEF w
<1>5. WasteFits(wasteDown(w), ui.height)
  <2>1. CASE w.cursor < shown
    <3>1. w.cursor + 1 \in Nat \ {0} /\ w.cursor + 1 <= Most(shown, 1)
      BY <1>1, <2>1 DEF Most
    <3>2. wasteDown(w) = WasteTo(w, w.cursor + 1)
      BY <2>1 DEF wasteDown
    <3> HIDE DEF w, shown
    <3> QED
      BY <1>3, <3>1, <3>2
  <2>2. CASE ~(w.cursor < shown) /\ ~on /\ all > wasteDefaultLimit
    <3>1. w.cursor + 1 \in Nat \ {0} /\ w.cursor + 1 <= Most(all, 1)
      BY <1>1, <2>2 DEF Most
    <3>2. wasteDown(w) = WasteTo(open, w.cursor + 1)
      BY <2>2 DEF wasteDown
    <3> HIDE DEF w, open, all
    <3> QED
      BY <1>4, <3>1, <3>2
  <2>3. CASE ~(w.cursor < shown) /\ ~(~on /\ all > wasteDefaultLimit)
    BY <2>3 DEF wasteDown
  <2> QED
    BY <2>1, <2>2, <2>3
<1>6. WasteFits(wasteUp(w), ui.height)
  <2>1. CASE w.cursor > 1
    <3>1. w.cursor - 1 \in Nat \ {0} /\ w.cursor - 1 <= Most(shown, 1)
      BY <1>1, <2>1 DEF Most
    <3>2. wasteUp(w) = WasteTo(w, w.cursor - 1)
      BY <2>1 DEF wasteUp
    <3> HIDE DEF w, shown
    <3> QED
      BY <1>3, <3>1, <3>2
  <2>2. CASE ~(w.cursor > 1)
    BY <2>2 DEF wasteUp
  <2> QED
    BY <2>1, <2>2
<1>7. WasteFits(wasteBottom(w), ui.height)
  <2>1. CASE all = 0
    BY <2>1 DEF wasteBottom
  <2>2. CASE all # 0 /\ (on \/ all > wasteDefaultLimit)
    <3>1. all \in Nat \ {0} /\ all <= Most(all, 1)
      BY <1>1, <2>2 DEF Most
    <3>2. (on \/ all > wasteDefaultLimit) = TRUE
      BY <2>2
    <3>3. wasteBottom(w) = WasteTo(open, all)
      BY <2>2, <3>2 DEF wasteBottom
    <3> HIDE DEF open, all
    <3> QED
      BY <1>4, <3>1, <3>3
  <2>3. CASE all # 0 /\ ~on /\ ~(all > wasteDefaultLimit)
    <3>1. all \in Nat \ {0} /\ all <= Most(shown, 1)
      BY <1>1, <2>3 DEF Most
    <3>2. (on \/ all > wasteDefaultLimit) = on
      BY <1>1, <2>3
    <3>3. wasteBottom(w) = WasteTo(same, all)
      BY <2>3, <3>2 DEF wasteBottom
    <3> HIDE DEF same, all, shown
    <3> QED
      BY <1>2, <1>3, <3>1, <3>3
  <2> QED
    BY <2>1, <2>2, <2>3
<1> QED
  BY <1>5, <1>6, <1>7

-----------------------------------------------------------------------------
(* Cursors after a step *)

\* Clamping after a change of one field.
LEMMA ClampedGood ==
  ASSUME MemoInv, NEW v, Shape(v), Follows(ui, v)
  PROVE  Good(clampCursors(v))
BY FreshOn, ClampGood

\* Going to the top after a change of one field.
LEMMA ToppedGood ==
  ASSUME Good(ui), NEW v, Shape(v), v.layer = ui.layer, v.layerOffset = ui.layerOffset,
         v.height = ui.height
  PROVE  Good(PanesToTop(v))
<1> DEFINE u == PanesToTop(v)
<1>1. Shape(u) /\ u.cur = TopOfBoth /\ u.off = TopOfBoth
  BY ToTop DEF Shape
<1>2. u.layer = ui.layer /\ u.layerOffset = ui.layerOffset /\ u.height = ui.height
  BY ToTop DEF Shape, UiFields
<1> HIDE DEF u
<1>3. LayerFits(ui)
  BY DEF Good
<1> QED
  BY <1>1, <1>2, <1>3, TopOfGood DEF u

\* Every handler leaves the cursors of the panes and of the layers in view.
LEMMA StepsFit ==
  ASSUME MemoInv, Good(ui), Next
  PROVE  Good(ui')
<1>1. IsUi(ui) /\ Shape(ui) /\ Fresh(ui)
  BY FreshOn, FollowsItself DEF MemoInv, Good
<1>2. \A name, u : Handle(name, u) => ui' = u
  BY DEF Handle
<1> USE DEF Press, Type, Overlay
<1>3. CASE Resize
  <2>1. PICK h \in Heights : Handle("resize", clampCursors([ui EXCEPT !.height = h]))
    BY <1>3 DEF Resize
  <2> DEFINE v == [ui EXCEPT !.height = h]
  <2>2. h \in Nat
    BY NavigationAssumption
  <2>3. Shape(v) /\ Follows(ui, v)
    BY <1>1, <2>2, Edits, FollowsFields
  <2> HIDE DEF v
  <2>4. Good(clampCursors(v))
    BY <2>3, ClampedGood
  <2> QED
    BY <1>2, <2>1, <2>4 DEF v
<1>4. CASE Switch
  <2>1. \E f : /\ f \in {"tree", "layers"} \/ (f = "agg" /\ ui.aggregated)
               /\ Handle("tab", clampCursors([ui EXCEPT !.focus = f]))
    BY <1>4 DEF Switch
  <2>2. PICK f : /\ f \in {"tree", "layers"} \/ (f = "agg" /\ ui.aggregated)
                 /\ Handle("tab", clampCursors([ui EXCEPT !.focus = f]))
    BY <2>1
  <2> DEFINE v == [ui EXCEPT !.focus = f]
  <2>3. Shape(v) /\ Follows(ui, v)
    BY <1>1, <2>2, Edits, FollowsFields
  <2> HIDE DEF v
  <2>4. Good(clampCursors(v))
    BY <2>3, ClampedGood
  <2> QED
    BY <1>2, <2>2, <2>4 DEF v
<1>5. CASE Move
  BY <1>1, <1>2, <1>5, KeysGood DEF Move
<1>6. CASE Sideways \/ Enter
  <2>1. ui.focus \in Panes
    BY <1>6 DEF Sideways, Enter, isTreeFocused
  <2> QED
    BY <1>2, <1>6, <2>1, SidewaysGood DEF Sideways, Enter
<1>7. \A x : Good(clampCursors([ui EXCEPT !.typing = x]))
  BY <1>1, Edits, FollowsFields, ClampedGood
<1>8. CASE Filter \/ FilterEnter
  BY <1>2, <1>7, <1>8 DEF Filter, FilterEnter
<1>9. /\ \A x : Good(PanesToTop([ui EXCEPT !.query = x]))
      /\ \A x : Good(PanesToTop([ui EXCEPT !.diffOnly = x]))
      /\ \A x : Good(PanesToTop([ui EXCEPT !.sort = x]))
      /\ \A x, y : Good(PanesToTop([ui EXCEPT !.typing = x, !.query = y]))
  <2>1. ASSUME NEW x PROVE Good(PanesToTop([ui EXCEPT !.query = x]))
    <3> DEFINE v == [ui EXCEPT !.query = x]
    <3>1. Shape(v) /\ v.layer = ui.layer /\ v.layerOffset = ui.layerOffset /\ v.height = ui.height
      BY <1>1, Edits DEF IsUi, UiFields
    <3> HIDE DEF v
    <3> QED
      BY <3>1, ToppedGood DEF v
  <2>2. ASSUME NEW x PROVE Good(PanesToTop([ui EXCEPT !.diffOnly = x]))
    <3> DEFINE v == [ui EXCEPT !.diffOnly = x]
    <3>1. Shape(v) /\ v.layer = ui.layer /\ v.layerOffset = ui.layerOffset /\ v.height = ui.height
      BY <1>1, Edits DEF IsUi, UiFields
    <3> HIDE DEF v
    <3> QED
      BY <3>1, ToppedGood DEF v
  <2>3. ASSUME NEW x PROVE Good(PanesToTop([ui EXCEPT !.sort = x]))
    <3> DEFINE v == [ui EXCEPT !.sort = x]
    <3>1. Shape(v) /\ v.layer = ui.layer /\ v.layerOffset = ui.layerOffset /\ v.height = ui.height
      BY <1>1, Edits DEF IsUi, UiFields
    <3> HIDE DEF v
    <3> QED
      BY <3>1, ToppedGood DEF v
  <2>4. ASSUME NEW x, NEW y PROVE Good(PanesToTop([ui EXCEPT !.typing = x, !.query = y]))
    <3> DEFINE v == [ui EXCEPT !.typing = x, !.query = y]
    <3>1. \A f \in UiFields \ {"typing", "query"} : v[f] = ui[f]
      BY <1>1 DEF IsUi, UiFields
    <3>2. DOMAIN v = UiFields
      BY <1>1 DEF IsUi
    <3> HIDE DEF v
    <3>3. Shape(v) /\ v.layer = ui.layer /\ v.layerOffset = ui.layerOffset /\ v.height = ui.height
      BY <1>1, <3>1, <3>2 DEF Shape, IsUi, UiFields
    <3> QED
      BY <3>3, ToppedGood DEF v
  <2> QED
    BY <2>1, <2>2, <2>3, <2>4
<1>10. CASE FilterBackspace \/ FilterText \/ Backspace
  <2>1. \/ \E name, q : Handle(name, PanesToTop([ui EXCEPT !.query = q]))
        \/ \E name : Handle(name, clampCursors([ui EXCEPT !.typing = FALSE]))
    BY <1>10 DEF FilterBackspace, FilterText, Backspace
  <2> QED
    BY <1>2, <1>7, <1>9, <2>1
<1>11. CASE Escape
  <2>1. Handle("esc", ui) \/ Handle("esc", PanesToTop([ui EXCEPT !.typing = FALSE, !.query = <<>>]))
    BY <1>11 DEF Escape
  <2>2. Good(PanesToTop([ui EXCEPT !.typing = FALSE, !.query = <<>>]))
    BY Zenon, <1>9
  <2> QED
    BY <1>2, <2>1, <2>2
<1>12. CASE DiffOnly \/ Sort
  <2>1. \/ \E x : Handle("diff", PanesToTop([ui EXCEPT !.diffOnly = x]))
        \/ \E x : Handle("sort", PanesToTop([ui EXCEPT !.sort = x]))
    BY <1>12 DEF DiffOnly, Sort
  <2> QED
    BY <1>2, <1>9, <2>1
<1>13. CASE Aggregate
  <2> DEFINE on == ~ui.aggregated
             there == [ui EXCEPT !.aggregated = on]
             top == PanesToTop(there)
             u == clearCollapsed(top)
             v == [u EXCEPT !.focus = "tree"]
  <2>1. ui' = IF u.focus = "agg" THEN v ELSE u
    BY <1>2, <1>13 DEF Aggregate
  <2>2. IsUi(there) /\ there.aggregated = on /\ \A f \in UiFields \ {"aggregated"} : there[f] = ui[f]
    BY <1>1 DEF IsUi, UiFields
  <2> HIDE DEF there
  <2>3. IsUi(top) /\ top.cur = TopOfBoth /\ top.off = TopOfBoth
        /\ \A f \in UiFields \ {"cur", "off"} : top[f] = there[f]
    BY <2>2, ToTop
  <2> HIDE DEF top
  <2>4. IsUi(u) /\ \A f \in UiFields \ {"collapsed", "gen"} : u[f] = top[f]
    BY <2>3, Cleared
  <2> HIDE DEF u
  <2>5. IsUi(v) /\ v.focus = "tree" /\ \A f \in UiFields \ {"focus"} : v[f] = u[f]
    BY <2>4 DEF IsUi, UiFields
  <2> HIDE DEF v
  <2>6. IsUi(ui') /\ \A f \in UiFields \ {"focus"} : ui'[f] = u[f]
    BY <2>1, <2>4, <2>5
  <2>7. ui'.focus \in {"tree", "layers"}
    <3>1. u.focus = ui.focus /\ ui.focus \in Panes \cup {"layers"}
      BY <1>1, <2>2, <2>3, <2>4 DEF UiFields, Shape
    <3> QED
      BY <2>1, <2>5, <3>1 DEF Panes
  <2>8. /\ ui'.cur = TopOfBoth /\ ui'.off = TopOfBoth /\ ui'.aggregated = on
        /\ ui'.layer = ui.layer /\ ui'.layerOffset = ui.layerOffset /\ ui'.height = ui.height
    BY <2>2, <2>3, <2>4, <2>6 DEF UiFields
  <2>9. TopOfBoth \in [Panes -> Nat \ {0}] /\ on \in BOOLEAN
    BY <1>1 DEF TopOfBoth, Shape
  <2> HIDE DEF on
  <2>10. Shape(ui')
    BY <1>1, <2>6, <2>7, <2>8, <2>9 DEF Shape, Panes
  <2>11. LayerFits(ui)
    BY DEF Good
  <2> QED
    BY <2>8, <2>10, <2>11, TopOfGood
<1>14. CASE OpenWaste \/ WasteKey \/ DetailKey
  <2>1. \E name : Handle(name, ui)
    BY <1>14 DEF OpenWaste, WasteKey, DetailKey
  <2> QED
    BY <1>2, <2>1
<1>15. CASE WasteEnter
  BY <1>2, <1>15, JumpGood DEF WasteEnter
<1> QED
  BY <1>3, <1>4, <1>5, <1>6, <1>8, <1>10, <1>11, <1>12, <1>13, <1>14, <1>15 DEF Next

\* A closed overlay fits any terminal.
LEMMA ClosedFits ==
  ASSUME NEW w, NEW h, WasteFits(w, h), ~w.open, NEW height
  PROVE  WasteFits(w, height)
BY DEF WasteFits

\* Every step leaves the cursor of the overlay in view.
LEMMA WasteStays ==
  ASSUME MemoInv, Good(ui), WasteInv, Next
  PROVE  WasteInv'
<1>1. Shape(ui) /\ Shape(ui') /\ ui.height \in Nat /\ ui'.height \in Nat
  BY StepsFit DEF Good, Shape
<1>2. \A name, u : Handle(name, u) => ui' = u
  BY DEF Handle
<1>3. ASSUME ~waste.open, waste' = waste PROVE WasteInv'
  BY <1>3, ClosedFits DEF WasteInv
<1>4. ASSUME waste.open, ui' = ui, WasteFits(waste', ui.height) PROVE WasteInv'
  BY <1>4 DEF WasteInv
<1>5. WasteFits(Closed, ui'.height) /\ ~Closed.open
  <2>1. DOMAIN Closed = WasteFields /\ Closed.expanded \in BOOLEAN /\ Closed.cursor = 1 /\ Closed.offset = 1 /\ ~Closed.open
    BY DEF Closed, WasteFields
  <2> QED
    BY <1>1, <2>1, WasteTopFits
<1>6. CASE Resize
  <2>1. PICK h \in Heights : /\ Handle("resize", clampCursors([ui EXCEPT !.height = h]))
                             /\ waste' = IF waste.open THEN adjustWasteScroll(waste, h) ELSE waste
    BY <1>6 DEF Resize
  <2> DEFINE v == [ui EXCEPT !.height = h]
  <2>2. h \in Nat
    BY NavigationAssumption
  <2>3. Shape(v) /\ Follows(ui, v) /\ v.height = h /\ v.typing = ui.typing
    BY <1>1, <2>2, Edits, FollowsFields DEF Shape, IsUi, UiFields
  <2> HIDE DEF v
  <2>4. Moved(v, clampCursors(v))
    BY <2>3, FreshOn, ClampGood
  <2>5. ui'.height = h /\ ui'.typing = ui.typing
    BY <1>2, <2>1, <2>3, <2>4 DEF Moved, UiFields, v
  <2>6. CASE waste.open
    <3> DEFINE on == waste.expanded
               i == waste.cursor
    <3>1. waste' = WasteAt(waste, on, i, h)
      BY <2>1, <2>6 DEF WasteAt, adjustWasteScroll, WasteInv, WasteFits, WasteFields
    <3>2. on \in BOOLEAN /\ i \in Nat \ {0} /\ i <= Most(RowsIf(waste, on), 1)
      BY WasteSizes DEF WasteInv, WasteFits, RowsIf
    <3> HIDE DEF on, i
    <3>3. WasteFits(waste', h) /\ waste'.open = waste.open
      BY <2>2, <3>1, <3>2, WasteToFits DEF WasteInv
    <3> QED
      BY <2>5, <2>6, <3>3 DEF WasteInv
  <2>7. CASE ~waste.open
    BY <1>3, <2>1, <2>7
  <2> QED
    BY <2>6, <2>7
<1>7. ASSUME NEW name, NEW u, Press(name, u) PROVE WasteInv'
  BY <1>3, <1>7 DEF Press
<1>8. ASSUME NEW name, NEW u, Type(name, u) PROVE WasteInv'
  BY <1>3, <1>8 DEF Type, WasteInv
<1>9. CASE Switch \/ Move \/ Sideways \/ Enter \/ Filter \/ Backspace \/ DiffOnly \/ Sort \/ Aggregate
  BY <1>7, <1>9 DEF Switch, Move, Sideways, Enter, Filter, Backspace, DiffOnly, Sort, Aggregate
<1>10. CASE FilterEnter \/ FilterBackspace \/ FilterText
  BY <1>8, <1>10 DEF FilterEnter, FilterBackspace, FilterText
<1>11. CASE Escape
  <2>1. CASE ~waste.open
    BY <1>3, <1>11, <2>1 DEF Escape
  <2>2. CASE waste.open
    <3>1. ui' = ui /\ waste' = IF waste.detail > 0 THEN [waste EXCEPT !.detail = 0] ELSE Closed
      BY <1>2, <1>11, <2>2 DEF Escape
    <3> DEFINE w == [waste EXCEPT !.detail = 0]
    <3>2. WasteFits(w, ui.height)
      <4>1. /\ w.open = waste.open /\ w.cleanup = waste.cleanup /\ w.expanded = waste.expanded
            /\ w.cursor = waste.cursor /\ w.offset = waste.offset /\ DOMAIN w = WasteFields
        BY DEF WasteInv, WasteFits, WasteFields
      <4> HIDE DEF w
      <4>2. visibleWasteRows(w) = visibleWasteRows(waste)
        BY <4>1 DEF visibleWasteRows, allWasteRows
      <4> QED
        BY <4>1, <4>2 DEF WasteInv, WasteFits
    <3> HIDE DEF w
    <3>3. WasteFits(waste', ui.height)
      BY <1>5, <3>1, <3>2 DEF w
    <3> QED
      BY <1>4, <2>2, <3>1, <3>3
  <2> QED
    BY <2>1, <2>2
<1>12. CASE OpenWaste
  <2>1. ui' = ui /\ ~ui.typing /\ waste' = [Closed EXCEPT !.open = TRUE]
    BY <1>2, <1>12 DEF OpenWaste
  <2> DEFINE w == [Closed EXCEPT !.open = TRUE]
  <2>2. DOMAIN w = WasteFields /\ w.expanded \in BOOLEAN /\ w.cursor = 1 /\ w.offset = 1
    BY DEF Closed, WasteFields
  <2> HIDE DEF w
  <2>3. WasteFits(w, ui.height)
    BY <1>1, <2>2, WasteTopFits
  <2> QED
    BY <2>1, <2>3 DEF WasteInv, w
<1>13. CASE WasteKey
  <2>1. waste.open /\ ui' = ui
    BY <1>2, <1>13 DEF WasteKey, Overlay
  <2>2. \/ waste' = wasteDown(waste) \/ waste' = wasteUp(waste) \/ waste' = wasteBottom(waste)
        \/ waste' = [waste EXCEPT !.cursor = 1, !.offset = 1]
        \/ waste' = [waste EXCEPT !.detail = 1]
        \/ waste' = [waste EXCEPT !.cleanup = ~@, !.cursor = 1, !.offset = 1, !.expanded = FALSE]
        \/ waste' = [waste EXCEPT !.expanded = ~@, !.cursor = 1, !.offset = 1]
    BY <1>13 DEF WasteKey, Overlay
  <2>3. ASSUME \/ waste' = [waste EXCEPT !.cursor = 1, !.offset = 1]
               \/ waste' = [waste EXCEPT !.cleanup = ~@, !.cursor = 1, !.offset = 1, !.expanded = FALSE]
               \/ waste' = [waste EXCEPT !.expanded = ~@, !.cursor = 1, !.offset = 1]
        PROVE  WasteFits(waste', ui.height)
    <3>1. DOMAIN waste = WasteFields /\ waste.expanded \in BOOLEAN
      BY DEF WasteInv, WasteFits
    <3>2. DOMAIN waste' = WasteFields /\ waste'.expanded \in BOOLEAN /\ waste'.cursor = 1 /\ waste'.offset = 1
      BY <2>3, <3>1 DEF WasteFields
    <3> QED
      BY <1>1, <3>2, WasteTopFits
  <2>4. ASSUME waste' = [waste EXCEPT !.detail = 1] PROVE WasteFits(waste', ui.height)
    <3>1. /\ waste'.open = waste.open /\ waste'.cleanup = waste.cleanup /\ waste'.expanded = waste.expanded
          /\ waste'.cursor = waste.cursor /\ waste'.offset = waste.offset /\ DOMAIN waste' = WasteFields
      BY <2>4 DEF WasteInv, WasteFits, WasteFields
    <3>2. visibleWasteRows(waste') = visibleWasteRows(waste)
      BY <3>1 DEF visibleWasteRows, allWasteRows
    <3> QED
      BY <3>1, <3>2 DEF WasteInv, WasteFits
  <2>5. /\ WasteFits(wasteDown(waste), ui.height) /\ WasteFits(wasteUp(waste), ui.height)
        /\ WasteFits(wasteBottom(waste), ui.height)
    BY <1>1, <2>1, WasteKeysFit DEF WasteInv
  <2>6. WasteFits(waste', ui.height)
    BY <2>2, <2>3, <2>4, <2>5
  <2> QED
    BY <1>4, <2>1, <2>6
<1>14. CASE DetailKey
  <2>1. waste.open /\ ui' = ui /\ \E d : waste' = [waste EXCEPT !.detail = d]
    BY <1>2, <1>14 DEF DetailKey, Overlay
  <2>2. /\ waste'.open = waste.open /\ waste'.cleanup = waste.cleanup /\ waste'.expanded = waste.expanded
        /\ waste'.cursor = waste.cursor /\ waste'.offset = waste.offset /\ DOMAIN waste' = WasteFields
    BY <2>1 DEF WasteInv, WasteFits, WasteFields
  <2>3. visibleWasteRows(waste') = visibleWasteRows(waste)
    BY <2>2 DEF visibleWasteRows, allWasteRows
  <2>4. WasteFits(waste', ui.height)
    BY <2>2, <2>3 DEF WasteInv, WasteFits
  <2> QED
    BY <1>4, <2>1, <2>4
<1>15. CASE WasteEnter
  <2>1. waste' = Closed
    BY <1>15 DEF WasteEnter
  <2> QED
    BY <1>5, <2>1 DEF WasteInv
<1> QED
  BY <1>6, <1>9, <1>10, <1>11, <1>12, <1>13, <1>14, <1>15 DEF Next

\* Where the drawing code looks for the panes is where the handlers keep them.
LEMMA DrawnAsKept ==
  ASSUME NEW u, Shape(u), NEW p \in DrawnPanes(u)
  PROVE  p \in Tended(u) /\ DrawnRows(u, p) = treeVisibleHeightFor(u, p)
<1> DEFINE bar == u.query # <<>> \/ u.typing
           split == splitTreeFits(u.height - 8, bar)
<1>1. splitTreeFits(u.height - 8, u.typing \/ u.query # <<>>) = split
  BY DEF splitTreeFits
<1>2. DrawnPanes(u) = IF ~u.aggregated THEN {"tree"} ELSE IF split THEN Panes ELSE {activeTreeFocus(u)}
  BY <1>1 DEF DrawnPanes
<1>3. Panes # {"tree"} /\ Panes # {activeTreeFocus(u)} /\ activeTreeFocus(u) \in Panes
  BY DEF Panes, activeTreeFocus
<1> HIDE DEF split
<1>4. DrawnPanes(u) = Panes <=> u.aggregated /\ split
  BY <1>2, <1>3
<1>5. p \in Tended(u)
  BY <1>2, <1>3 DEF Tended, Panes
<1>6. \A h : /\ treePaneRows(h, (u.typing \/ u.query # <<>>) /\ u.focus = p) = treePaneRows(h, bar /\ u.focus = p)
             /\ treePaneRows(h, u.typing \/ u.query # <<>>) = treePaneRows(h, bar)
  BY DEF treePaneRows
<1> DEFINE total == u.height - 8
<1>7. DrawnRows(u, p)
        = IF DrawnPanes(u) = Panes
          THEN treePaneRows(splitPanelRows(total)[p], (u.typing \/ u.query # <<>>) /\ u.focus = p)
          ELSE treePaneRows(total, u.typing \/ u.query # <<>>)
  BY Zenon DEF DrawnRows
<1>8. DrawnRows(u, p)
        = IF DrawnPanes(u) = Panes THEN treePaneRows(splitPanelRows(total)[p], bar /\ u.focus = p)
                                   ELSE treePaneRows(total, bar)
  BY <1>6, <1>7, Zenon
<1>9. treeVisibleHeightFor(u, p)
        = IF u.aggregated /\ split THEN treePaneRows(splitPanelRows(total)[p], bar /\ u.focus = p)
                                   ELSE treePaneRows(total, bar)
  BY Zenon DEF treeVisibleHeightFor, split
<1> QED
  BY <1>4, <1>5, <1>8, <1>9, Zenon

\* The memo, the cursors and the waste overlay are as every handler leaves them.
NavInv == MemoInv /\ Good(ui) /\ WasteInv

\* The invariant is inductive.
LEMMA NavInvHolds == Spec => []NavInv
<1>1. Init => NavInv
  <2> SUFFICES ASSUME Init PROVE MemoInv /\ Good(ui) /\ WasteInv
    BY DEF NavInv
  <2>1. PICK h \in Heights :
           ui = [height |-> h, focus |-> "layers", aggregated |-> FALSE,
                 layer |-> 1, layerOffset |-> 1, cur |-> TopOfBoth, off |-> TopOfBoth,
                 collapsed |-> [p \in Panes |-> {}], gen |-> 0,
                 query |-> <<>>, typing |-> FALSE, diffOnly |-> FALSE, sort |-> "none"]
    BY DEF Init
  <2>2. h \in Nat /\ NLayers \in Nat \ {0} /\ TopOfBoth \in [Panes -> Nat \ {0}]
    BY NavigationAssumption DEF TopOfBoth
  <2>3. /\ ui.height = h /\ ui.focus = "layers" /\ ui.aggregated = FALSE /\ ui.layer = 1
        /\ ui.layerOffset = 1 /\ ui.cur = TopOfBoth /\ ui.off = TopOfBoth /\ ui.gen = 0
        /\ DOMAIN ui = UiFields /\ DOMAIN ui.collapsed = Panes
    BY <2>1 DEF UiFields
  <2>4. Shape(ui)
    <3>1. IsUi(ui) /\ ui.cur \in [Panes -> Nat \ {0}] /\ ui.off \in [Panes -> Nat \ {0}]
      BY <2>2, <2>3 DEF IsUi
    <3>2. ui.height \in Nat /\ ui.layer \in 1..NLayers /\ ui.layerOffset \in Nat \ {0}
      BY <2>2, <2>3
    <3>3. /\ ui.focus \in Panes \cup {"layers"} /\ (ui.focus = "agg" => ui.aggregated)
          /\ ui.aggregated \in BOOLEAN
      BY <2>3
    <3> QED
      BY <3>1, <3>2, <3>3 DEF Shape
  <2>5. LayerFits(ui)
    <3>1. layerVisibleHeight(ui) \in Int
      BY <2>2, <2>3 DEF layerVisibleHeight
    <3> QED
      BY <2>2, <2>3, <3>1, AtTop DEF LayerFits
  <2>6. MemoInv
    BY <2>4 DEF Init, MemoInv, Current, Shape
  <2>7. DOMAIN Closed = WasteFields /\ Closed.expanded \in BOOLEAN /\ Closed.cursor = 1 /\ Closed.offset = 1 /\ ~Closed.open
    BY DEF Closed, WasteFields
  <2>8. waste = Closed
    BY DEF Init
  <2>9. WasteInv
    BY <2>2, <2>3, <2>7, <2>8, WasteTopFits DEF WasteInv
  <2> QED
    BY <2>3, <2>4, <2>5, <2>6, <2>9, TopGood
<1>2. NavInv /\ [Next]_vars => NavInv'
  <2>1. ASSUME MemoInv, Good(ui), WasteInv, Next PROVE MemoInv' /\ Good(ui') /\ WasteInv'
    BY <2>1, StepsFollow, HandleKeeps, StepsFit, WasteStays DEF MemoInv
  <2>2. ASSUME MemoInv, Good(ui), WasteInv, UNCHANGED vars PROVE MemoInv' /\ Good(ui') /\ WasteInv'
    BY <2>2 DEF MemoInv, WasteInv, vars
  <2>3. NavInv' <=> MemoInv' /\ Good(ui') /\ WasteInv'
    BY DEF NavInv, Good, Shape, LayerFits, PaneFits, Tended, IsUi, Files, InView
  <2> QED
    BY <2>1, <2>2, <2>3 DEF NavInv
<1> QED
  BY <1>1, <1>2, PTL DEF Spec

\* Whatever the keys and the resizes, the selected row of every list is among
\* the rows that are drawn of it: every handler that moves a cursor, changes a
\* list or takes rows from a window scrolls the window after its cursor.
THEOREM CursorStaysInView == Spec => []CursorSeen
<1>1. NavInv => CursorSeen
  <2> SUFFICES ASSUME Good(ui), WasteInv PROVE CursorSeen
    BY DEF NavInv
  <2>1. ASSUME NEW p \in DrawnPanes(ui)
        PROVE  InView(ui.cur[p], ui.off[p], DrawnRows(ui, p), Len(computeDisplayTreeFor(ui, p)))
    BY DrawnAsKept DEF Good, PaneFits, Files
  <2>2. InView(ui.layer, ui.layerOffset, layerVisibleHeight(ui), NLayers)
    BY DEF Good, LayerFits
  <2>3. waste.open => InView(waste.cursor, waste.offset, wasteVisibleHeight, Len(visibleWasteRows(waste)))
    BY DEF WasteInv, WasteFits, wasteVisibleHeight
  <2> QED
    BY <2>1, <2>2, <2>3 DEF CursorSeen
<1> QED
  BY <1>1, NavInvHolds, PTL

-----------------------------------------------------------------------------
(* How far a window moves *)

\* A move of no more than a window from a cursor in view moves the window by
\* no more than itself.
LEMMA ScrollsNear ==
  ASSUME NEW cursor \in Nat \ {0}, NEW to \in Nat \ {0}, NEW offset \in Nat \ {0}, NEW rows \in Int,
         rows > 0 => offset <= cursor /\ cursor < offset + rows,
         to - cursor \in (-Most(rows, 1))..Most(rows, 1)
  PROVE  ScrolledTo(to, offset, rows) - offset \in (-Most(rows, 1))..Most(rows, 1)
BY DEF ScrolledTo, Most

\* The key tells which handler ran.
LEMMA MoveKeys ==
  ASSUME Next, key' \in {"page", "up", "down"}, ~waste.open
  PROVE  \/ ui' = moveDown(ui) \/ ui' = moveUp(ui)
         \/ \E dir \in {1, -1}, fraction \in BOOLEAN : ui' = moveByPage(ui, dir, fraction)
<1> USE DEF Press, Type, Overlay, Handle
<1>1. ~(Resize \/ Switch \/ Sideways \/ Enter)
  BY DEF Resize, Switch, Sideways, Enter
<1>2. ~(Filter \/ FilterEnter \/ FilterBackspace \/ FilterText \/ Escape \/ Backspace)
  BY DEF Filter, FilterEnter, FilterBackspace, FilterText, Escape, Backspace
<1>3. ~(DiffOnly \/ Sort \/ Aggregate \/ OpenWaste)
  BY DEF DiffOnly, Sort, Aggregate, OpenWaste
<1>4. ~(WasteKey \/ DetailKey \/ WasteEnter)
  BY DEF WasteKey, DetailKey, WasteEnter
<1>5. Move
  BY <1>1, <1>2, <1>3, <1>4 DEF Next
<1> QED
  BY <1>5 DEF Move

\* What a key moves in a pane is within a window of where it was.
LEMMA MovesNear ==
  ASSUME NEW u, Good(u), Fresh(u), NEW p, p = u.focus, p \in Panes, NEW v,
         \/ v = moveDown(u) \/ v = moveUp(u)
         \/ \E dir \in {1, -1}, fraction \in BOOLEAN : v = moveByPage(u, dir, fraction)
  PROVE  LET rows == Most(treeVisibleHeightFor(u, p), 1)
         IN  v.off[p] - u.off[p] \in (-rows)..rows
<1> DEFINE height == treeVisibleHeightFor(u, p)
           rows == Most(height, 1)
           cur == u.cur[p]
           len == Files(u, p)
<1>1. /\ height \in Int /\ len \in Nat /\ cur \in Nat \ {0} /\ u.off[p] \in Nat \ {0}
      /\ p \in Tended(u)
  BY Sizes DEF Good, Shape, Tended, Panes
<1>2. rows \in Nat \ {0} /\ (height > 0 => rows = height)
  BY <1>1 DEF Most
<1>3. /\ u.focus # "layers" /\ Items(u) = len /\ At(u) = cur
  BY DEF Items, At, Fresh, Files, Panes
<1>4. len > 0 => cur <= len /\ (height > 0 => u.off[p] <= cur /\ cur < u.off[p] + height)
  BY <1>1 DEF Good, PaneFits, InView, Shown, Most
<1>5. len = 0 => cur = 1
  BY <1>1 DEF Good, PaneFits, Most
<1>6. v = u \/ \E i \in 1..len : i - cur \in (-rows)..rows /\ v = setTreeCursor(u, p, i)
  <2>1. \A i : MoveTo(u, i) = setTreeCursor(u, p, i)
    BY <1>3 DEF MoveTo
  <2>2. CASE v = moveDown(u)
    <3>1. v = IF cur < len THEN setTreeCursor(u, p, cur + 1) ELSE u
      BY <1>3, <2>1, <2>2 DEF moveDown
    <3> HIDE DEF rows, cur, len
    <3> QED
      BY <1>1, <1>2, <3>1
  <2>3. CASE v = moveUp(u)
    <3>1. v = IF cur > 1 THEN setTreeCursor(u, p, cur - 1) ELSE u
      BY <1>3, <2>1, <2>3 DEF moveUp
    <3> HIDE DEF rows, cur, len
    <3>2. cur > 1 => cur - 1 \in 1..len /\ (cur - 1) - cur \in (-rows)..rows
      BY <1>1, <1>2, <1>4, <1>5
    <3> QED
      BY <3>1, <3>2
  <2>4. ASSUME NEW dir \in {1, -1}, NEW fraction \in BOOLEAN, v = moveByPage(u, dir, fraction)
        PROVE  v = u \/ \E i \in 1..len : i - cur \in (-rows)..rows /\ v = setTreeCursor(u, p, i)
    <3> DEFINE step == PageStep(u, fraction)
               to == cur + dir * step
               i == clampIndex(to, len)
    <3>1. step = IF fraction THEN Most(rows \div 2, 1) ELSE rows
      BY <1>3 DEF PageStep
    <3>2. v = u \/ (len # 0 /\ v = setTreeCursor(u, p, i))
      BY <1>3, <2>1, <2>4 DEF moveByPage
    <3> HIDE DEF rows, cur, len, step
    <3>3. step \in 1..rows
      BY <1>2, <3>1 DEF Most
    <3>4. to \in Int /\ to - cur \in (-rows)..rows
      <4>1. CASE dir = 1
        BY <1>1, <1>2, <3>3, <4>1
      <4>2. CASE dir = -1
        BY <1>1, <1>2, <3>3, <4>2
      <4> QED
        BY <4>1, <4>2
    <3> HIDE DEF to
    <3>5. len # 0 => i \in 1..len /\ i - cur \in (-rows)..rows
      BY <1>1, <1>2, <1>4, <3>4 DEF clampIndex
    <3> QED
      BY <3>2, <3>5
  <2> QED
    BY <2>2, <2>3, <2>4
<1>7. CASE v = u
  BY <1>1, <1>2, <1>7
<1>8. ASSUME NEW i \in 1..len, i - cur \in (-rows)..rows, v = setTreeCursor(u, p, i)
      PROVE  v.off[p] - u.off[p] \in (-rows)..rows
  <2>1. i \in Nat \ {0} /\ len > 0
    BY <1>1, <1>8
  <2>2. v.off[p] = ScrolledTo(i, u.off[p], height)
    BY <1>8, <2>1, SetCursor DEF Good
  <2> DEFINE from == u.off[p]
  <2> HIDE DEF height, cur, len, from
  <2>3. ScrolledTo(i, from, height) - from \in (-Most(height, 1))..Most(height, 1)
    BY <1>1, <1>4, <1>8, <2>1, ScrollsNear DEF from
  <2> QED
    BY <2>2, <2>3 DEF from
<1> QED
  BY <1>6, <1>7, <1>8

\* The pane that has the focus is one that is drawn.
LEMMA FocusDrawn ==
  ASSUME NEW u, Shape(u), u.focus \in Panes
  PROVE  u.focus \in DrawnPanes(u)
BY DEF Shape, DrawnPanes, activeTreeFocus, Panes

\* A page or a step carries no window past a row the user was not shown.
THEOREM NothingIsSkipped == Spec => NoRowSkipped
<1>1. NavInv /\ Next =>
        (key' \in {"page", "up", "down"} /\ isTreeFocused(ui) /\ ~waste.open =>
           LET rows == Most(DrawnRows(ui, ui.focus), 1)
           IN  ui'.off[ui.focus] - ui.off[ui.focus] \in (-rows)..rows)
  <2> SUFFICES ASSUME NavInv, Next, key' \in {"page", "up", "down"}, isTreeFocused(ui), ~waste.open
               PROVE  LET rows == Most(DrawnRows(ui, ui.focus), 1)
                      IN  ui'.off[ui.focus] - ui.off[ui.focus] \in (-rows)..rows
    OBVIOUS
  <2>1. Good(ui) /\ Shape(ui) /\ Fresh(ui) /\ ui.focus \in Panes
    BY FreshOn, FollowsItself DEF NavInv, MemoInv, Good, isTreeFocused
  <2>2. DrawnRows(ui, ui.focus) = treeVisibleHeightFor(ui, ui.focus)
    BY <2>1, FocusDrawn, DrawnAsKept
  <2> QED
    BY <2>1, <2>2, MoveKeys, MovesNear
<1> QED
  BY <1>1, NavInvHolds, PTL DEF Spec, NoRowSkipped

-----------------------------------------------------------------------------
(* Where a jump lands *)

\* The elements of a sequence.
LEMMA ElementsIn == ASSUME NEW S, NEW s \in Seq(S), NEW d \in 1..Len(s) PROVE s[d] \in S
OBVIOUS

\* What a filter keeps stands where its rank says, and nothing else does.
LEMMA KeptIs ==
  ASSUME NEW nodes, IsList(nodes), NEW S \in SUBSET DOMAIN nodes
  PROVE  /\ Places(S) /\ Cardinality(S) \in Nat
         /\ Len(Kept(nodes, S)) = Cardinality(S) /\ DOMAIN Kept(nodes, S) = 1..Cardinality(S)
         /\ \A i \in S : Rank(S, i) \in 1..Cardinality(S) /\ Kept(nodes, S)[Rank(S, i)] = nodes[i]
<1> DEFINE elem(k) == nodes[CHOOSE i \in S : Cardinality({j \in S : j < i}) = k - 1]
           n == Cardinality(S)
<1>1. Places(S) /\ n \in Nat
  <2>1. IsFiniteSet(DOMAIN nodes) /\ DOMAIN nodes \subseteq Nat \ {0}
    <3>1. DOMAIN nodes = 1..Len(nodes) /\ Len(nodes) \in Nat
      BY DEF IsList
    <3>2. IsFiniteSet(1..Len(nodes))
      BY <3>1, FS_Interval
    <3>3. 1..Len(nodes) \subseteq Nat \ {0}
      BY <3>1
    <3> QED
      BY <3>1, <3>2, <3>3
  <2>2. IsFiniteSet(S)
    BY <2>1, FS_Subset
  <2> QED
    BY <2>1, <2>2, FS_CardinalityType DEF Places
<1>2. Kept(nodes, S) = [k \in 1..n |-> elem(k)]
  BY Zenon DEF Kept, Arranged
<1>3. Len([k \in 1..n |-> elem(k)]) = n
  <2> HIDE DEF elem, n
  <2> QED
    BY <1>1
<1>4. ASSUME NEW i \in S PROVE Rank(S, i) \in 1..n /\ Kept(nodes, S)[Rank(S, i)] = nodes[i]
  <2> DEFINE before(x) == Cardinality({j \in S : j < x})
             k == Rank(S, i)
             c == CHOOSE x \in S : before(x) = k - 1
  <2>1. \A x \in S : before(x) = Rank(S, x) - 1 /\ Rank(S, x) \in 1..n
    BY <1>1, RankCounts, RankGrows
  <2> HIDE DEF before, n
  <2>2. before(i) = k - 1
    BY <2>1
  <2>3. c \in S /\ before(c) = k - 1
    BY <2>2
  <2>4. k \in 1..n
    BY <2>1
  <2>5. Rank(S, c) = k
    BY <1>1, <2>1, <2>3, <2>4
  <2>6. c = i
    BY <1>1, <2>3, <2>5, RankGrows
  <2>7. elem(k) = nodes[c]
    BY DEF before
  <2> HIDE DEF elem, c, k
  <2> QED
    BY <1>2, <2>4, <2>6, <2>7 DEF k
<1> HIDE DEF elem
<1> QED
  BY <1>1, <1>2, <1>3, <1>4

\* Every row of the list is a node of the tree.
From(list, nodes) == \A k \in 1..Len(list) : \E i \in DOMAIN nodes : list[k] = nodes[i]

\* A filter adds nothing.
LEMMA KeptFrom ==
  ASSUME NEW nodes, IsList(nodes), NEW S \in SUBSET DOMAIN nodes
  PROVE  From(Kept(nodes, S), nodes)
<1>1. /\ Places(S) /\ Len(Kept(nodes, S)) = Cardinality(S)
      /\ \A i \in S : Kept(nodes, S)[Rank(S, i)] = nodes[i]
  BY KeptIs
<1>2. ASSUME NEW k \in 1..Cardinality(S) PROVE \E i \in DOMAIN nodes : Kept(nodes, S)[k] = nodes[i]
  <2>1. PICK i \in S : Rank(S, i) = k
    BY <1>1, RankOnto
  <2> QED
    BY <1>1, <2>1
<1> QED
  BY <1>1, <1>2 DEF From

\* Nothing keeps a file of the screen's layer out of its list.
NothingHides(u) ==
    u.query = <<>> /\ u.sort = "none" /\ u.diffOnly = FALSE /\ u.collapsed = AllOpen

Lists(u, p, path) == \E k \in 1..Files(u, p) : computeDisplayTreeFor(u, p)[k].path = path

\* With nothing in the way, every file of a layer is in its list.
LEMMA AllListed ==
  ASSUME NEW u, Shape(u), NEW p \in Panes, NothingHides(u),
         NEW path, path \in PathsOf(p, u.layer)
  PROVE  Lists(u, p, path)
<1> USE DEF NothingHides, Lists
<1> DEFINE nodes == rootFor(u, p)
           S == {i \in DOMAIN nodes :
                    ~\E j \in DOMAIN nodes : Within(nodes, i, j) /\ nodes[j].path \in u.collapsed[p]}
<1>1. IsList(nodes)
  <2>1. IsTree(nodes)
    BY NavigationAssumption DEF rootFor, Shape
  <2> QED
    BY <2>1 DEF IsTree, IsList
<1>2. u.collapsed[p] = {}
  BY DEF AllOpen
<1>3. S = DOMAIN nodes
  BY <1>2
<1>4. computeDisplayTreeFor(u, p) = Kept(nodes, S)
  <2>1. useTreeCollapse(u)
    BY DEF useTreeCollapse
  <2>2. computeDisplayTreeFor(u, p) = applySortBySize(visibleTree(nodes, u.collapsed[p]), u.sort)
    BY <2>1 DEF computeDisplayTreeFor
  <2> QED
    BY <2>2, Zenon DEF applySortBySize, visibleTree
<1>5. PICK i \in DOMAIN nodes : nodes[i].path = path
  BY DEF PathsOf, rootFor
<1> HIDE DEF nodes, S
<1>6. /\ Len(Kept(nodes, S)) = Cardinality(S)
      /\ Rank(S, i) \in 1..Cardinality(S) /\ Kept(nodes, S)[Rank(S, i)] = nodes[i]
  BY <1>1, <1>3, KeptIs
<1> QED
  BY <1>4, <1>5, <1>6 DEF Files

\* A list that is not filtered or sorted has no file but those of its layer.
LEMMA OnlyListed ==
  ASSUME NEW u, Shape(u), NEW p \in Panes, u.query = <<>>, u.sort = "none",
         NEW k \in 1..Files(u, p)
  PROVE  computeDisplayTreeFor(u, p)[k].path \in PathsOf(p, u.layer)
<1> DEFINE nodes == rootFor(u, p)
           open == IF useTreeCollapse(u) THEN visibleTree(nodes, u.collapsed[p]) ELSE nodes
           changed == applyDiffFilter(open)
           list == computeDisplayTreeFor(u, p)
<1>1. IsList(nodes)
  <2>1. IsTree(nodes)
    BY NavigationAssumption DEF rootFor, Shape
  <2> QED
    BY <2>1 DEF IsTree, IsList
<1>2. list = IF u.diffOnly THEN changed ELSE open
  <2>1. list = applySortBySize(IF u.diffOnly THEN changed ELSE open, u.sort)
    BY DEF computeDisplayTreeFor
  <2> HIDE DEF list, changed, open
  <2> QED
    BY <2>1, Zenon DEF applySortBySize
<1> HIDE DEF nodes
<1>3. IsList(open) /\ From(open, nodes)
  <2>1. From(nodes, nodes)
    BY <1>1 DEF From, IsList
  <2>2. \A c : IsList(visibleTree(nodes, c)) /\ From(visibleTree(nodes, c), nodes)
    BY <1>1, KeptFrom, KeptIsList DEF visibleTree
  <2> QED
    BY <1>1, <2>1, <2>2
<1> HIDE DEF open
<1>4. IsList(changed) /\ From(changed, open)
  BY <1>3, KeptFrom, KeptIsList DEF applyDiffFilter
<1> HIDE DEF changed
<1>5. From(changed, nodes)
  BY <1>3, <1>4 DEF From, IsList
<1> HIDE DEF list
<1>6. From(list, nodes) /\ k \in 1..Len(list)
  BY <1>2, <1>3, <1>5 DEF Files, list
<1>7. PICK i \in DOMAIN nodes : list[k] = nodes[i]
  BY <1>6 DEF From
<1> QED
  BY <1>7 DEF PathsOf, nodes, rootFor, list

\* A jump to a layer selects the row's file when the layer lists it, and is at
\* the top when it does not.
LEMMA JumpFinds ==
  ASSUME MemoInv, Good(ui), NEW row, row.layer \in 1..NLayers
  PROVE  LET v == wasteJump(ui, row)
         IN  /\ v.layer = row.layer /\ v.focus = "tree"
             /\ IF row.path \in PathsOf("tree", row.layer)
                THEN Selected(v, "tree").path = row.path ELSE v.cur.tree = 1
<1>1. PICK s : /\ JumpsOn(s, row)
               /\ wasteJump(ui, row)
                    = setTreeCursor(s, "tree", Most(indexOfPath(displayTreeFor(s, "tree"), row.path), 1))
  BY JumpScreen
<1> DEFINE list == displayTreeFor(s, "tree")
           found == indexOfPath(list, row.path)
           v == wasteJump(ui, row)
<1>2. /\ Shape(s) /\ Fresh(s) /\ "tree" \in Panes /\ s.layer = row.layer /\ s.focus = "tree"
      /\ s.query = <<>> /\ s.sort = "none" /\ s.collapsed = AllOpen
  BY <1>1 DEF JumpsOn, Panes, Good
<1>3. /\ IsList(list) /\ list = computeDisplayTreeFor(s, "tree") /\ Len(list) = Files(s, "tree")
      /\ found \in 0..Len(list) /\ (found # 0 => list[found].path = row.path)
      /\ \A i \in 1..Len(list) : list[i].path = row.path => found # 0
  BY <1>2, ListIsList, IndexIs DEF Fresh, Files
<1>4. row.path \in PathsOf("tree", row.layer) => found # 0
  <2>1. CASE s.diffOnly = FALSE
    <3>1. NothingHides(s)
      BY <1>2, <2>1 DEF NothingHides
    <3>2. row.path \in PathsOf("tree", row.layer) => Lists(s, "tree", row.path)
      BY <1>2, <3>1, AllListed
    <3> QED
      BY <1>3, <3>2 DEF Files, Lists
  <2>2. CASE s.diffOnly # FALSE
    BY <1>1, <2>2 DEF JumpsOn
  <2> QED
    BY <2>1, <2>2
<1>5. row.path \notin PathsOf("tree", row.layer) => found = 0
  <2>1. \A k \in 1..Files(s, "tree") : computeDisplayTreeFor(s, "tree")[k].path \in PathsOf("tree", s.layer)
    BY <1>2, OnlyListed
  <2> HIDE DEF found, list
  <2> QED
    BY <1>2, <1>3, <2>1 DEF IsList
<1> DEFINE to == Most(found, 1)
<1>6. wasteJump(ui, row) = setTreeCursor(s, "tree", to)
  BY <1>1
<1> HIDE DEF found, list, v
<1>7. to \in Nat \ {0} /\ (found = 0 => to = 1) /\ (found # 0 => to = found)
  BY <1>3 DEF Most, IsList
<1> HIDE DEF to
<1>8. Moved(s, v) /\ v.cur["tree"] = to
  BY <1>2, <1>6, <1>7, SetCursor DEF v
<1>9. v.layer = row.layer /\ v.focus = "tree"
  BY <1>2, <1>8 DEF Moved, UiFields
<1>10. found # 0 => Selected(v, "tree").path = row.path
  <2>1. computeDisplayTreeFor(v, "tree") = list
    BY <1>3, <1>8, MovedSame
  <2>2. found # 0 => found \in DOMAIN list
    BY <1>3 DEF IsList
  <2> QED
    BY <1>3, <1>7, <1>8, <2>1, <2>2 DEF Selected
<1> QED
  BY <1>4, <1>5, <1>7, <1>8, <1>9, <1>10 DEF v

\* A jump to a row without a layer changes neither layer, focus nor query.
LEMMA JumpUnknown ==
  ASSUME MemoInv, Good(ui), NEW row, ~(row.layer \in 1..NLayers)
  PROVE  LET v == wasteJump(ui, row)
         IN  <<v.layer, v.focus, v.query>> = <<ui.layer, ui.focus, ui.query>> /\ v.cur.tree = 1
<1>1. PICK s : \E pane \in Panes :
         /\ Good(s) /\ s.cur = TopOfBoth
         /\ s.layer = ui.layer /\ s.focus = ui.focus /\ s.query = ui.query
         /\ wasteJump(ui, row) = setTreeCursor(s, pane, 1)
  BY JumpStays
<1>2. PICK pane \in Panes : wasteJump(ui, row) = setTreeCursor(s, pane, 1)
  BY <1>1
<1> DEFINE v == wasteJump(ui, row)
<1> HIDE DEF v
<1>3. Moved(s, v) /\ v.cur[pane] = 1 /\ \A q \in Panes \ {pane} : v.cur[q] = s.cur[q]
  BY <1>1, <1>2, SetCursor DEF Good, v
<1>4. v.cur["tree"] = 1
  BY <1>1, <1>3 DEF TopOfBoth, Panes
<1>5. v.layer = s.layer /\ v.focus = s.focus /\ v.query = s.query
  BY <1>3 DEF Moved, UiFields
<1> QED
  BY <1>1, <1>4, <1>5 DEF v

-----------------------------------------------------------------------------
(* Which row a jump is for *)

\* The event that is selected in a file's history is one of the file's.
DetailFits(w) ==
    w.detail > 0 =>
        /\ visibleWasteRows(w) # <<>>
        /\ ~w.cleanup /\ visibleWasteRows(w)[w.cursor].events # <<>>
             => w.detail \in 1..Len(visibleWasteRows(w)[w.cursor].events)

DetailInv == waste.detail \in Nat /\ DetailFits(waste)

\* What the overlay shows are rows of the list it is of.
LEMMA ShownRows ==
  ASSUME NEW w
  PROVE  /\ visibleWasteRows(w) \in Seq(WasteRow)
         /\ \A k \in 1..Len(visibleWasteRows(w)) :
               LET row == visibleWasteRows(w)[k]
               IN  /\ row \in WasteRow
                   /\ w.cleanup => \E i \in DOMAIN CleanupRows : row = CleanupRows[i]
                   /\ ~w.cleanup => \E i \in DOMAIN WastedFiles : row = WastedFiles[i]
<1> DEFINE n == Min({Len(WastedFiles), wasteMaxRows})
<1>1. /\ WastedFiles \in Seq(WasteRow) /\ CleanupRows \in Seq(WasteRow)
      /\ wasteMaxRows \in Nat /\ wasteDefaultLimit \in Nat
  BY NavigationAssumption
<1>2. n \in Nat /\ n <= Len(WastedFiles)
  <2> DEFINE S == {Len(WastedFiles), wasteMaxRows}
  <2>1. \E x \in S : \A y \in S : x <= y
    BY <1>1
  <2>2. Min(S) \in S /\ \A y \in S : Min(S) <= y
    BY <2>1 DEF Min
  <2> QED
    BY <1>1, <2>2
<1> HIDE DEF n
<1>3. /\ wasteRows \in Seq(WasteRow) /\ Len(wasteRows) = n
      /\ \A i \in 1..n : wasteRows[i] = WastedFiles[i]
  <2>1. \A s \in Seq(WasteRow), m \in Nat : m <= Len(s) =>
           /\ SubSeq(s, 1, m) \in Seq(WasteRow) /\ Len(SubSeq(s, 1, m)) = m
           /\ \A i \in 1..m : SubSeq(s, 1, m)[i] = s[i]
    OBVIOUS
  <2>2. wasteRows = SubSeq(WastedFiles, 1, n)
    BY DEF wasteRows, n
  <2> QED
    BY <1>1, <1>2, <2>1, <2>2
<1>4. \A i \in 1..Len(wasteRows) : i \in DOMAIN WastedFiles /\ wasteRows[i] = WastedFiles[i]
  BY <1>1, <1>2, <1>3
<1> DEFINE all == allWasteRows(w)
<1>5. all \in Seq(WasteRow)
  BY <1>1, <1>3 DEF allWasteRows
<1>6. \A i \in 1..Len(all) :
         /\ w.cleanup => i \in DOMAIN CleanupRows /\ all[i] = CleanupRows[i]
         /\ ~w.cleanup => i \in DOMAIN WastedFiles /\ all[i] = WastedFiles[i]
  BY <1>1, <1>4 DEF allWasteRows
<1>7. visibleWasteRows(w) = IF ~w.expanded /\ Len(all) > wasteDefaultLimit
                            THEN SubSeq(all, 1, wasteDefaultLimit) ELSE all
  BY DEF visibleWasteRows
<1> HIDE DEF all
<1>8. ASSUME NEW k \in 1..Len(visibleWasteRows(w))
      PROVE  k \in 1..Len(all) /\ visibleWasteRows(w)[k] = all[k] /\ all[k] \in WasteRow
  BY <1>1, <1>5, <1>7, <1>8
<1>9. visibleWasteRows(w) \in Seq(WasteRow)
  BY <1>1, <1>5, <1>7
<1> QED
  BY <1>6, <1>8, <1>9

\* The row the cursor is on.
LEMMA CursorRow ==
  ASSUME NEW h, WasteFits(waste, h), visibleWasteRows(waste) # <<>>
  PROVE  /\ waste.cursor \in 1..Len(visibleWasteRows(waste))
         /\ visibleWasteRows(waste)[waste.cursor] \in WasteRow
<1> DEFINE rows == visibleWasteRows(waste)
<1>1. rows \in Seq(WasteRow)
  BY ShownRows
<1>2. Len(rows) \in Nat /\ Len(rows) # 0
  <2> HIDE DEF rows
  <2>1. rows # <<>>
    BY DEF rows
  <2> QED
    BY <1>1, <2>1
<1>3. waste.cursor \in 1..Len(rows)
  BY <1>2 DEF WasteFits, Most
<1> QED
  BY <1>3, ShownRows

\* Every step keeps the history's event one of the file's.
LEMMA DetailStays ==
  ASSUME NavInv, DetailInv, Next
  PROVE  DetailInv'
<1>1. DOMAIN waste = WasteFields
  BY DEF NavInv, WasteInv, WasteFits
<1>2. ASSUME NEW w, w.detail = 0 PROVE w.detail \in Nat /\ DetailFits(w)
  BY <1>2 DEF DetailFits
<1>3. ASSUME NEW w, w.cleanup = waste.cleanup, w.expanded = waste.expanded, w.cursor = waste.cursor
      PROVE  visibleWasteRows(w) = visibleWasteRows(waste)
  BY <1>3 DEF visibleWasteRows, allWasteRows
<1>4. ASSUME waste' = waste PROVE DetailInv'
  BY <1>4 DEF DetailInv
<1>5. ASSUME waste'.detail = 0 PROVE DetailInv'
  BY <1>5, <1>2 DEF DetailInv
<1>6. CASE Resize
  <2>1. PICK h \in Heights : waste' = IF waste.open THEN adjustWasteScroll(waste, h) ELSE waste
    BY <1>6 DEF Resize
  <2>2. CASE waste.open
    <3>1. /\ waste'.cleanup = waste.cleanup /\ waste'.expanded = waste.expanded
          /\ waste'.cursor = waste.cursor /\ waste'.detail = waste.detail
      BY <1>1, <2>1, <2>2 DEF adjustWasteScroll, WasteFields
    <3>2. visibleWasteRows(waste') = visibleWasteRows(waste)
      BY <1>3, <3>1
    <3> QED
      BY <3>1, <3>2 DEF DetailInv, DetailFits
  <2> QED
    BY <1>4, <2>1, <2>2
<1>7. CASE Switch \/ Move \/ Sideways \/ Enter \/ Filter \/ Backspace \/ DiffOnly \/ Sort \/ Aggregate
  BY <1>4, <1>7 DEF Press, Switch, Move, Sideways, Enter, Filter, Backspace, DiffOnly, Sort, Aggregate
<1>8. CASE FilterEnter \/ FilterBackspace \/ FilterText
  BY <1>4, <1>8 DEF Type, FilterEnter, FilterBackspace, FilterText
<1>9. Closed.detail = 0 /\ [Closed EXCEPT !.open = TRUE].detail = 0
  BY DEF Closed
<1>10. CASE Escape
  <2>1. waste' = waste \/ waste' = [waste EXCEPT !.detail = 0] \/ waste' = Closed
    BY <1>10 DEF Escape
  <2>2. [waste EXCEPT !.detail = 0].detail = 0
    BY <1>1 DEF WasteFields
  <2> QED
    BY <1>4, <1>5, <1>9, <2>1, <2>2
<1>11. CASE OpenWaste \/ WasteEnter
  BY <1>5, <1>9, <1>11 DEF OpenWaste, WasteEnter
<1>12. CASE WasteKey
  <2>1. waste.detail = 0
    BY <1>12 DEF WasteKey
  <2>2. \/ waste' = wasteDown(waste) \/ waste' = wasteUp(waste) \/ waste' = wasteBottom(waste)
        \/ waste' = [waste EXCEPT !.cursor = 1, !.offset = 1]
        \/ waste' = [waste EXCEPT !.detail = 1] /\ visibleWasteRows(waste) # <<>>
        \/ waste' = [waste EXCEPT !.cleanup = ~@, !.cursor = 1, !.offset = 1, !.expanded = FALSE]
        \/ waste' = [waste EXCEPT !.expanded = ~@, !.cursor = 1, !.offset = 1]
    BY <1>12 DEF WasteKey, Overlay
  <2>3. CASE waste' = wasteDown(waste) \/ waste' = wasteUp(waste) \/ waste' = wasteBottom(waste)
    <3>1. ASSUME NEW w, DOMAIN w = WasteFields, NEW i PROVE WasteTo(w, i).detail = w.detail
      BY <3>1 DEF WasteTo, adjustWasteScroll, WasteFields
    <3>2. ASSUME NEW on PROVE LET w == [waste EXCEPT !.expanded = on] IN DOMAIN w = WasteFields /\ w.detail = 0
      BY <1>1, <2>1 DEF WasteFields
    <3>3. \A on, i : WasteTo([waste EXCEPT !.expanded = on], i).detail = 0
      BY <3>1, <3>2
    <3>4. \A i : WasteTo(waste, i).detail = 0
      BY <1>1, <2>1, <3>1
    <3>5. wasteDown(waste).detail = 0
      BY <2>1, <3>3, <3>4 DEF wasteDown
    <3>6. wasteUp(waste).detail = 0
      BY <2>1, <3>4 DEF wasteUp
    <3>7. wasteBottom(waste).detail = 0
      BY <2>1, <3>3 DEF wasteBottom
    <3> QED
      BY <1>5, <2>3, <3>5, <3>6, <3>7
  <2>4. CASE waste' = [waste EXCEPT !.detail = 1] /\ visibleWasteRows(waste) # <<>>
    <3>1. /\ waste'.cleanup = waste.cleanup /\ waste'.expanded = waste.expanded
          /\ waste'.cursor = waste.cursor /\ waste'.detail = 1
      BY <1>1, <2>4 DEF WasteFields
    <3>2. visibleWasteRows(waste') = visibleWasteRows(waste)
      BY <1>3, <3>1
    <3> DEFINE rows == visibleWasteRows(waste)
               events == rows[waste.cursor].events
    <3>3. rows # <<>>
      BY <2>4
    <3>4. ASSUME events # <<>> PROVE 1 \in 1..Len(events)
      <4>1. events \in Seq(1..NLayers)
        BY <3>3, CursorRow DEF WasteRow, NavInv, WasteInv
      <4> HIDE DEF events
      <4> QED
        BY <3>4, <4>1
    <3> QED
      BY <3>1, <3>2, <3>3, <3>4 DEF DetailInv, DetailFits
  <2>5. CASE \/ waste' = [waste EXCEPT !.cursor = 1, !.offset = 1]
             \/ waste' = [waste EXCEPT !.cleanup = ~@, !.cursor = 1, !.offset = 1, !.expanded = FALSE]
             \/ waste' = [waste EXCEPT !.expanded = ~@, !.cursor = 1, !.offset = 1]
    BY <1>1, <1>5, <2>1, <2>5 DEF WasteFields
  <2> QED
    BY <2>2, <2>3, <2>4, <2>5
<1>13. CASE DetailKey
  <2> DEFINE row == visibleWasteRows(waste)[waste.cursor]
             events == row.events
             count == IF waste.cleanup THEN 0 ELSE Len(events)
             page == Most(ui.height - 12, 1)
  <2>1. waste.detail > 0 /\ waste.detail \in Nat /\ visibleWasteRows(waste) # <<>>
    BY <1>13 DEF DetailKey, DetailInv, DetailFits
  <2>2. row \in WasteRow /\ ui.height \in Nat
    BY <2>1, CursorRow DEF NavInv, WasteInv, Good, Shape
  <2>3. JumpRow(waste).events = events
    <3>1. \A l : [row EXCEPT !.layer = l].events = events
      BY <2>2 DEF WasteRow
    <3> HIDE DEF row
    <3> QED
      BY <3>1 DEF JumpRow, row
  <2>4. events \in Seq(1..NLayers)
    BY <2>2 DEF WasteRow
  <2>5. \E i \in {1, count} \cup {waste.detail + d : d \in {1, -1, page, -page}} :
           waste' = [waste EXCEPT !.detail = clampIndex(i, Most(count, 1))]
    BY <1>13, <2>3 DEF DetailKey, Overlay
  <2> HIDE DEF events
  <2>6. count \in Nat
    BY <2>4
  <2>7. page \in Int
    BY <2>2 DEF Most
  <2> HIDE DEF count, page
  <2>8. PICK i \in Int : waste' = [waste EXCEPT !.detail = clampIndex(i, Most(count, 1))]
    BY <2>1, <2>5, <2>6, <2>7
  <2> DEFINE d == clampIndex(i, Most(count, 1))
  <2>9. d \in 1..Most(count, 1)
    BY <2>6 DEF clampIndex, Most
  <2> HIDE DEF d
  <2>10. /\ waste'.cleanup = waste.cleanup /\ waste'.expanded = waste.expanded
         /\ waste'.cursor = waste.cursor /\ waste'.detail = d
    BY <1>1, <2>8 DEF WasteFields, d
  <2>11. visibleWasteRows(waste') = visibleWasteRows(waste)
    BY <1>3, <2>10
  <2>12. ASSUME ~waste.cleanup, events # <<>> PROVE d \in 1..Len(events)
    BY <2>4, <2>9, <2>12 DEF count, Most
  <2> QED
    BY <2>1, <2>6, <2>9, <2>10, <2>11, <2>12 DEF DetailInv, DetailFits, events, Most
<1> QED
  BY <1>6, <1>7, <1>8, <1>10, <1>11, <1>12, <1>13 DEF Next

\* The row a jump is for names a layer there is, or none.
LEMMA JumpRowIs ==
  ASSUME NavInv, DetailInv, visibleWasteRows(waste) # <<>>
  PROVE  JumpRow(waste).layer \in 0..NLayers
<1> DEFINE row == visibleWasteRows(waste)[waste.cursor]
<1>1. row \in WasteRow /\ waste.detail \in Nat
  BY CursorRow DEF NavInv, WasteInv, DetailInv
<1>2. /\ row.layer \in 0..NLayers /\ row.events \in Seq(1..NLayers)
      /\ \A l : [row EXCEPT !.layer = l].layer = l
  BY <1>1 DEF WasteRow
<1>3. waste.detail > 0 /\ ~waste.cleanup /\ row.events # <<>> => waste.detail \in 1..Len(row.events)
  BY DEF DetailInv, DetailFits
<1>4. JumpRow(waste) = IF waste.detail > 0 /\ ~waste.cleanup /\ row.events # <<>>
                       THEN [row EXCEPT !.layer = row.events[waste.detail]] ELSE row
  BY DEF JumpRow
<1> HIDE DEF row
<1>5. CASE waste.detail > 0 /\ ~waste.cleanup /\ row.events # <<>>
  <2> DEFINE S == 1..NLayers
  <2>1. waste.detail \in 1..Len(row.events) /\ row.events \in Seq(S)
    BY <1>2, <1>3, <1>5
  <2> HIDE DEF S
  <2>2. row.events[waste.detail] \in S
    BY <2>1, ElementsIn
  <2> QED
    BY <1>2, <1>4, <1>5, <2>2, NavigationAssumption DEF S
<1>6. CASE ~(waste.detail > 0 /\ ~waste.cleanup /\ row.events # <<>>)
  BY <1>2, <1>4, <1>6
<1> QED
  BY <1>5, <1>6

\* A jump from the waste overlay selects the row's file in the row's layer if
\* it is listed there, whatever filter, order, collapsed directory or pane was
\* in its way, and is at the layer's top if it is not; a row without a layer
\* leaves layer, focus and query as they are.
THEOREM JumpsSelect == Spec => JumpsLand
<1>1. Init => DetailInv
  BY DEF Init, Closed, DetailInv, DetailFits
<1>2. NavInv /\ DetailInv /\ [Next]_vars => DetailInv'
  <2>1. ASSUME DetailInv, UNCHANGED vars PROVE DetailInv'
    BY <2>1 DEF DetailInv, vars
  <2> QED
    BY <2>1, DetailStays
<1>3. NavInv /\ DetailInv /\ Next =>
        (key' = "jump" /\ waste.open =>
           LET row == JumpRow(waste)
           IN  IF row.layer = 0
               THEN /\ <<ui'.layer, ui'.focus, ui'.query>> = <<ui.layer, ui.focus, ui.query>>
                    /\ ui'.cur.tree = 1
               ELSE /\ ui'.layer = row.layer /\ ui'.focus = "tree"
                    /\ IF row.path \in PathsOf("tree", row.layer)
                       THEN Selected(ui', "tree").path = row.path
                       ELSE ui'.cur.tree = 1)
  <2> DEFINE row == JumpRow(waste)
  <2> SUFFICES ASSUME NavInv, DetailInv, Next, key' = "jump", waste.open
               PROVE  IF row.layer = 0
                      THEN /\ <<ui'.layer, ui'.focus, ui'.query>> = <<ui.layer, ui.focus, ui.query>>
                           /\ ui'.cur.tree = 1
                      ELSE /\ ui'.layer = row.layer /\ ui'.focus = "tree"
                           /\ IF row.path \in PathsOf("tree", row.layer)
                              THEN Selected(ui', "tree").path = row.path
                              ELSE ui'.cur.tree = 1
    OBVIOUS
  <2>1. visibleWasteRows(waste) # <<>> /\ ui' = wasteJump(ui, JumpRow(waste))
    <3> USE DEF Press, Type, Overlay, Handle
    <3>1. ~(Resize \/ Switch \/ Move \/ Sideways \/ Enter)
      BY DEF Resize, Switch, Move, Sideways, Enter
    <3>2. ~(Filter \/ FilterEnter \/ FilterBackspace \/ FilterText \/ Escape \/ Backspace)
      BY DEF Filter, FilterEnter, FilterBackspace, FilterText, Escape, Backspace
    <3>3. ~(DiffOnly \/ Sort \/ Aggregate \/ OpenWaste \/ WasteKey \/ DetailKey)
      BY DEF DiffOnly, Sort, Aggregate, OpenWaste, WasteKey, DetailKey
    <3> QED
      BY <3>1, <3>2, <3>3 DEF Next, WasteEnter
  <2>2. MemoInv /\ Good(ui)
    BY DEF NavInv
  <2>3. row.layer \in 0..NLayers /\ ui' = wasteJump(ui, row)
    BY <2>1, JumpRowIs
  <2> HIDE DEF row
  <2>4. CASE row.layer = 0
    <3>1. ~(row.layer \in 1..NLayers)
      BY <2>4
    <3>2. LET v == wasteJump(ui, row)
          IN  <<v.layer, v.focus, v.query>> = <<ui.layer, ui.focus, ui.query>> /\ v.cur.tree = 1
      BY <2>2, <3>1, JumpUnknown
    <3> QED
      BY <2>3, <2>4, <3>2
  <2>5. CASE row.layer # 0
    <3>1. row.layer \in 1..NLayers
      BY <2>3, <2>5, NavigationAssumption
    <3>2. LET v == wasteJump(ui, row)
          IN  /\ v.layer = row.layer /\ v.focus = "tree"
              /\ IF row.path \in PathsOf("tree", row.layer)
                 THEN Selected(v, "tree").path = row.path ELSE v.cur.tree = 1
      BY <2>2, <3>1, JumpFinds
    <3> QED
      BY <2>3, <2>5, <3>2
  <2> QED
    BY <2>4, <2>5
<1> QED
  BY <1>1, <1>2, <1>3, NavInvHolds, PTL DEF Spec, JumpsLand

-----------------------------------------------------------------------------
(* Collapsing in place *)

\* The nodes of a tree.
LEMMA TreeShape ==
  ASSUME NEW nodes, IsTree(nodes)
  PROVE  /\ DOMAIN nodes = 1..Len(nodes) /\ Len(nodes) \in Nat
         /\ \A m \in DOMAIN nodes : nodes[m].depth \in Nat /\ nodes[m].dir \in BOOLEAN
         /\ \A m \in DOMAIN nodes : nodes[m].depth >= 1
         /\ \A m \in DOMAIN nodes : nodes[m].depth > 1 =>
                nodes[m].depth <= nodes[m - 1].depth + (IF nodes[m - 1].dir THEN 1 ELSE 0)
<1> DEFINE N == [path: Seq(STRING), depth: Nat, dir: BOOLEAN, diff: STRING, size: Nat]
<1>1. nodes \in Seq(N)
  BY DEF IsTree
<1>2. \A n \in N : n.depth \in Nat /\ n.dir \in BOOLEAN
  OBVIOUS
<1> HIDE DEF N
<1>3. DOMAIN nodes = 1..Len(nodes) /\ Len(nodes) \in Nat /\ \A m \in DOMAIN nodes : nodes[m] \in N
  BY <1>1
<1>4. \A m \in DOMAIN nodes : nodes[m].depth >= 1
  BY Zenon DEF IsTree
<1>5. \A m \in DOMAIN nodes : nodes[m].depth > 1 =>
         nodes[m].depth <= nodes[m - 1].depth + (IF nodes[m - 1].dir THEN 1 ELSE 0)
  BY Zenon DEF IsTree
<1> QED
  BY <1>2, <1>3, <1>4, <1>5

\* A node in a directory comes after it, and is in what the directory is in.
LEMMA WithinOn ==
  ASSUME NEW nodes, IsTree(nodes), NEW i \in DOMAIN nodes, NEW j \in DOMAIN nodes, NEW k \in DOMAIN nodes,
         Within(nodes, i, j), Within(nodes, j, k)
  PROVE  Within(nodes, i, k)
<1>1. DOMAIN nodes \subseteq Nat /\ \A m \in DOMAIN nodes : nodes[m].depth \in Nat
  BY TreeShape
<1>2. k < j /\ j < i /\ nodes[j].depth > nodes[k].depth
  BY <1>1 DEF Within
<1>3. ASSUME NEW m \in (k + 1)..i PROVE nodes[m].depth > nodes[k].depth
  <2>1. CASE m <= j
    BY <1>1, <2>1 DEF Within
  <2>2. CASE m > j
    <3>1. m \in (j + 1)..i /\ m \in DOMAIN nodes
      BY <1>1, <1>2, <2>2, TreeShape
    <3>2. nodes[m].depth > nodes[j].depth
      BY <3>1 DEF Within
    <3> QED
      BY <1>1, <1>2, <3>1, <3>2
  <2> QED
    BY <1>1, <2>1, <2>2
<1> QED
  BY <1>1, <1>2, <1>3 DEF Within

\* What has a node in it is a directory.
LEMMA WithinDirectory ==
  ASSUME NEW nodes, IsTree(nodes), NEW i \in DOMAIN nodes, NEW j \in DOMAIN nodes, Within(nodes, i, j)
  PROVE  nodes[j].dir = TRUE
<1>1. /\ DOMAIN nodes = 1..Len(nodes) /\ Len(nodes) \in Nat
      /\ \A m \in DOMAIN nodes : nodes[m].depth \in Nat /\ nodes[m].dir \in BOOLEAN
      /\ \A m \in DOMAIN nodes : nodes[m].depth >= 1
      /\ \A m \in DOMAIN nodes : nodes[m].depth > 1 =>
             nodes[m].depth <= nodes[m - 1].depth + (IF nodes[m - 1].dir THEN 1 ELSE 0)
  BY TreeShape
<1> DEFINE m == j + 1
<1>2. m \in DOMAIN nodes /\ m - 1 = j /\ nodes[m].depth > nodes[j].depth
  BY <1>1 DEF Within
<1> QED
  BY <1>1, <1>2

\* Closing or opening the directory of a row leaves the row where it is, if no
\* directory of its path is above it.
LEMMA RowStays ==
  ASSUME NEW nodes, IsTree(nodes), NEW closed, NEW c \in 1..Len(visibleTree(nodes, closed)),
         NEW dir, dir = visibleTree(nodes, closed)[c].path,
         \A k \in 1..(c - 1) : ~(visibleTree(nodes, closed)[k].dir /\ visibleTree(nodes, closed)[k].path = dir)
  PROVE  LET list == visibleTree(nodes, toggleCollapsed(closed, dir))
         IN  c \in 1..Len(list) /\ list[c] = visibleTree(nodes, closed)[c]
<1> DEFINE In(set) == {i \in DOMAIN nodes :
                         ~\E j \in DOMAIN nodes : Within(nodes, i, j) /\ nodes[j].path \in set}
           S == In(closed)
           flip == toggleCollapsed(closed, dir)
           T == In(flip)
<1>1. IsList(nodes) /\ DOMAIN nodes \subseteq Nat
  BY DEF IsTree, IsList
<1>2. visibleTree(nodes, closed) = Kept(nodes, S) /\ visibleTree(nodes, flip) = Kept(nodes, T)
  BY Zenon DEF visibleTree
<1>3. S \in SUBSET DOMAIN nodes /\ T \in SUBSET DOMAIN nodes
  OBVIOUS
<1>4. \A d : d # dir => (d \in closed <=> d \in flip)
  BY DEF toggleCollapsed
<1>5. /\ Places(S) /\ Len(Kept(nodes, S)) = Cardinality(S)
      /\ \A i \in S : Rank(S, i) \in 1..Cardinality(S) /\ Kept(nodes, S)[Rank(S, i)] = nodes[i]
      /\ \A i, j \in S : i < j => Rank(S, i) < Rank(S, j)
  <2> HIDE DEF S
  <2> QED
    BY <1>1, <1>3, KeptIs, RankGrows
<1>6. PICK i \in S : Rank(S, i) = c
  <2> HIDE DEF S
  <2> QED
    BY <1>2, <1>5, RankOnto
<1>7. Kept(nodes, S)[c] = nodes[i] /\ i \in DOMAIN nodes
  BY <1>3, <1>5, <1>6
<1>8. ASSUME NEW j \in DOMAIN nodes, j <= i PROVE j \in S <=> j \in T
  <2> DEFINE Around == {m \in DOMAIN nodes : Within(nodes, j, m) /\ nodes[m].path = dir}
  <2>1. CASE Around = {}
    <3>1. \A m \in DOMAIN nodes : Within(nodes, j, m) => (nodes[m].path \in closed <=> nodes[m].path \in flip)
      BY <1>4, <2>1
    <3> HIDE DEF flip
    <3> QED
      BY <3>1
  <2>2. CASE Around # {}
    <3>1. Around \subseteq Nat
      BY <1>1
    <3>2. PICK m \in Around : \A a \in Around : m <= a
      <4> HIDE DEF Around
      <4> QED
        BY <2>2, <3>1, LeastNat
    <3>3. m \in DOMAIN nodes /\ Within(nodes, j, m) /\ nodes[m].path = dir /\ m < j
      BY <3>2 DEF Within
    <3>4. m \notin S
      <4> SUFFICES ASSUME m \in S PROVE FALSE
        OBVIOUS
      <4>1. m < i /\ Rank(S, m) < c /\ Rank(S, m) \in 1..Cardinality(S) /\ Kept(nodes, S)[Rank(S, m)] = nodes[m]
        <5>1. m < i
          BY <1>1, <1>7, <1>8, <3>3
        <5> HIDE DEF S
        <5> QED
          BY <1>5, <1>6, <5>1
      <4>2. nodes[m].dir
        BY <3>3, WithinDirectory
      <4>3. Rank(S, m) \in 1..(c - 1)
        <5> HIDE DEF S
        <5>1. Cardinality(S) \in Nat /\ c \in 1..Cardinality(S)
          BY <1>1, <1>3, <1>2, <1>5, KeptIs
        <5> QED
          BY <4>1, <5>1
      <4> QED
        BY <1>2, <3>3, <4>1, <4>2, <4>3
    <3>5. PICK a \in DOMAIN nodes : Within(nodes, m, a) /\ nodes[a].path \in closed
      BY <3>3, <3>4
    <3>6. Within(nodes, j, a) /\ a < m
      BY <3>3, <3>5, WithinOn DEF Within
    <3>7. a \notin Around
      BY <1>1, <3>2, <3>3, <3>6
    <3>8. nodes[a].path # dir /\ nodes[a].path \in flip
      <4>1. nodes[a].path # dir
        BY <3>6, <3>7
      <4> QED
        BY <1>4, <3>5, <4>1
    <3> HIDE DEF flip
    <3> QED
      BY <3>5, <3>6, <3>8
  <2> QED
    BY <2>1, <2>2
<1> HIDE DEF S, T, flip, In
<1>9. {j \in S : j <= i} = {j \in T : j <= i}
  BY <1>3, <1>8
<1>10. i \in T
  BY <1>1, <1>6, <1>7, <1>8
<1>11. Rank(T, i) = c
  BY <1>6, <1>9 DEF Rank
<1>12. /\ Len(Kept(nodes, T)) = Cardinality(T)
       /\ Rank(T, i) \in 1..Cardinality(T) /\ Kept(nodes, T)[Rank(T, i)] = nodes[i]
  BY <1>1, <1>3, <1>10, KeptIs
<1> QED
  BY <1>2, <1>7, <1>11, <1>12 DEF flip

\* What a pane lists when directories can be collapsed in it.
LEMMA OpenList ==
  ASSUME NEW u, useTreeCollapse(u), NEW p
  PROVE  computeDisplayTreeFor(u, p) = visibleTree(rootFor(u, p), u.collapsed[p])
<1>1. u.sort = "none" /\ u.query = <<>> /\ ~u.diffOnly
  BY DEF useTreeCollapse
<1>2. computeDisplayTreeFor(u, p) = applySortBySize(visibleTree(rootFor(u, p), u.collapsed[p]), u.sort)
  BY <1>1 DEF computeDisplayTreeFor
<1> QED
  BY <1>1, <1>2, Zenon DEF applySortBySize

\* A cursor that is in its list is not moved by the clamping of a pane.
LEMMA ClampKeeps ==
  ASSUME NEW u, Shape(u), Fresh(u), NEW p \in Panes, u.cur[p] <= Most(Files(u, p), 1)
  PROVE  \A q \in Panes : clampTreeCursor(u, p).cur[q] = u.cur[q]
<1> DEFINE v == clampTreeCursor(u, p)
           n == Len(displayTreeFor(u, p))
           c == u.cur[p]
<1>1. n = Files(u, p) /\ n \in Nat /\ c \in Nat \ {0}
  BY Sizes DEF Fresh, Files, Shape
<1>2. \A q \in Panes \ {p} : v.cur[q] = u.cur[q]
  BY ClampPane
<1>3. CASE n = 0
  <2>1. v = TopOf(u, p)
    BY <1>3 DEF clampTreeCursor, TopOf
  <2>2. DOMAIN u = UiFields /\ u.cur \in [Panes -> Nat \ {0}]
    BY DEF Shape, IsUi
  <2>3. v.cur[p] = 1
    BY <2>1, <2>2 DEF TopOf, UiFields
  <2>4. c = 1
    BY <1>1, <1>3 DEF Most
  <2> QED
    BY <1>2, <2>3, <2>4
<1>4. CASE n # 0
  <2>1. clampIndex(c, n) = c
    BY <1>1, <1>4 DEF clampIndex, Most
  <2>2. v = setTreeCursor(u, p, clampIndex(c, n))
    BY <1>4 DEF clampTreeCursor
  <2> HIDE DEF v, n, c
  <2>3. v = setTreeCursor(u, p, c)
    BY <2>1, <2>2
  <2>4. v.cur[p] = c
    BY <1>1, <2>3, SetCursor
  <2> QED
    BY <1>2, <2>4 DEF v, c
<1> QED
  BY <1>3, <1>4

\* Nor by the clamping of them all, wherever the others are.
LEMMA ClampKeepsOne ==
  ASSUME NEW u, Shape(u), Fresh(u), NEW q \in Tended(u), u.cur[q] <= Most(Files(u, q), 1)
  PROVE  clampCursors(u).cur[q] = u.cur[q]
<1> DEFINE a == adjustLayerScroll(u)
           b == clampTreeCursor(a, "tree")
           v == clampTreeCursor(b, "agg")
<1> "tree" \in Panes /\ "agg" \in Panes /\ q \in Panes
  BY DEF Panes, Tended
<1>1. Shape(a) /\ Moved(u, a) /\ a.cur = u.cur
  BY ScrollLayers
<1>2. Fresh(a) /\ \A p : Files(a, p) = Files(u, p)
  BY <1>1, MovedSame DEF Files
<1>3. clampCursors(u) = IF u.aggregated THEN v ELSE b
  BY DEF clampCursors
<1> HIDE DEF a
<1>4. Shape(b) /\ Moved(a, b) /\ \A p \in Panes \ {"tree"} : b.cur[p] = a.cur[p]
  BY <1>1, <1>2, ClampPane
<1>5. b.cur[q] = a.cur[q]
  <2>1. CASE q = "tree"
    BY <1>1, <1>2, <2>1, ClampKeeps
  <2>2. CASE q # "tree"
    BY <1>4, <2>2
  <2> QED
    BY <2>1, <2>2
<1>6. Fresh(b) /\ \A p : Files(b, p) = Files(a, p)
  BY <1>2, <1>4, MovedSame DEF Files
<1> HIDE DEF b
<1>7. v.cur[q] = b.cur[q]
  <2>1. CASE q = "agg"
    BY <1>1, <1>2, <1>4, <1>5, <1>6, <2>1, ClampKeeps
  <2>2. CASE q # "agg"
    BY <1>4, <1>6, <2>2, ClampPane
  <2> QED
    BY <2>1, <2>2
<1> QED
  BY <1>1, <1>3, <1>5, <1>7

\* The row a pane's cursor is on.
OnRow(u, p, row) == u.cur[p] \in 1..Files(u, p) /\ computeDisplayTreeFor(u, p)[u.cur[p]] = row

\* Toggling the directory the cursor of a pane is on keeps the row that is
\* selected, but for that pane when it has the directory's double above.
LEMMA ToggleKeeps ==
  ASSUME MemoInv, Good(ui), NEW pane \in Panes, useTreeCollapse(ui), NEW row, OnRow(ui, pane, row),
         NEW dir, dir = row.path, NEW p \in Tended(ui), ~(p = pane /\ HasDouble(ui, p))
  PROVE  Selected(toggleTreeDirectory(ui, pane, dir), p) = Selected(ui, p)
<1>1. PICK w : w = Flipped(ui, pane, dir)
  OBVIOUS
<1> DEFINE v == toggleTreeDirectory(ui, pane, dir)
<1>2. /\ v = clampCursors(w) /\ Shape(w) /\ Follows(ui, w) /\ Shape(ui)
      /\ \A f \in UiFields \ {"collapsed", "gen"} : w[f] = ui[f]
      /\ w.collapsed[pane] = toggleCollapsed(ui.collapsed[pane], dir)
      /\ \A q \in Panes \ {pane} : w.collapsed[q] = ui.collapsed[q]
  BY <1>1, ToggleFlips DEF Good
<1> HIDE DEF v
<1>3. Fresh(w)
  BY <1>2, FreshOn
<1>4. /\ w.sort = ui.sort /\ w.query = ui.query /\ w.diffOnly = ui.diffOnly /\ w.layer = ui.layer
      /\ w.cur = ui.cur /\ w.aggregated = ui.aggregated
  BY <1>2 DEF UiFields
<1>5. useTreeCollapse(w) /\ \A q : rootFor(w, q) = rootFor(ui, q)
  BY <1>4 DEF useTreeCollapse, rootFor
<1>6. \A q : /\ computeDisplayTreeFor(ui, q) = visibleTree(rootFor(ui, q), ui.collapsed[q])
             /\ computeDisplayTreeFor(w, q) = visibleTree(rootFor(ui, q), w.collapsed[q])
  BY <1>5, OpenList
<1>7. \A q \in Panes \ {pane} : computeDisplayTreeFor(w, q) = computeDisplayTreeFor(ui, q)
  BY <1>2, <1>6
<1>8. ~HasDouble(ui, pane) => OnRow(w, pane, row)
  <2> DEFINE nodes == rootFor(ui, pane)
             closed == ui.collapsed[pane]
             c == ui.cur[pane]
             was == visibleTree(nodes, closed)
             list == visibleTree(nodes, toggleCollapsed(closed, dir))
  <2> SUFFICES ASSUME ~HasDouble(ui, pane) PROVE OnRow(w, pane, row)
    OBVIOUS
  <2>1. IsTree(nodes)
    BY <1>2, NavigationAssumption DEF rootFor, Shape
  <2>2. was = computeDisplayTreeFor(ui, pane) /\ c \in 1..Len(was) /\ was[c] = row
    BY <1>6 DEF OnRow, Files
  <2>3. list = computeDisplayTreeFor(w, pane)
    BY <1>2, <1>6
  <2>4. \A k \in 1..(c - 1) : ~(was[k].dir /\ was[k].path = dir)
    <3>1. IsList(was)
      BY <1>2, <2>2, ListIsList
    <3>2. Selected(ui, pane) = row
      BY <2>2, <3>1 DEF Selected, IsList
    <3> HIDE DEF was
    <3> QED
      BY <2>2, <3>2 DEF HasDouble
  <2> HIDE DEF nodes, closed, c
  <2>5. c \in 1..Len(list) /\ list[c] = was[c]
    BY <2>1, <2>2, <2>4, RowStays
  <2> QED
    BY <1>4, <2>2, <2>3, <2>5 DEF OnRow, Files, c
<1>9. p \in Panes /\ p \in Tended(w) /\ w.cur[p] <= Most(Files(w, p), 1)
  <2>1. p \in Panes /\ p \in Tended(w)
    BY <1>4 DEF Tended
  <2>2. CASE p = pane
    <3>1. Files(w, p) \in Nat /\ w.cur[p] \in 1..Files(w, p)
      BY <1>2, <1>8, <2>1, <2>2, Sizes DEF OnRow
    <3> QED
      BY <2>1, <3>1 DEF Most
  <2>3. CASE p # pane
    BY <1>4, <1>7, <2>1, <2>3 DEF Good, PaneFits, Files
  <2> QED
    BY <2>1, <2>2, <2>3
<1>10. v.cur[p] = w.cur[p] /\ computeDisplayTreeFor(v, p) = computeDisplayTreeFor(w, p)
  <2>1. Moved(w, v)
    BY <1>2, <1>3, ClampGood
  <2> QED
    BY <1>2, <1>3, <1>9, <2>1, ClampKeepsOne, MovedSame
<1>11. Selected(v, p) = Selected(w, p)
  BY <1>10 DEF Selected
<1>12. CASE p # pane
  BY <1>4, <1>7, <1>9, <1>11, <1>12 DEF Selected, v
<1>13. CASE p = pane
  <2>1. IsList(computeDisplayTreeFor(ui, p)) /\ IsList(computeDisplayTreeFor(w, p))
    BY <1>2, <1>9, ListIsList
  <2>2. \A u : OnRow(u, p, row) /\ IsList(computeDisplayTreeFor(u, p)) => Selected(u, p) = row
    BY DEF OnRow, Selected, IsList, Files
  <2> QED
    BY <1>8, <1>11, <1>13, <2>1, <2>2 DEF v
<1> QED
  BY <1>12, <1>13

\* The key that changes what is collapsed toggled the directory of the row the
\* cursor of a pane is on.
LEMMA TogglesRow ==
  ASSUME MemoInv, Good(ui), Next, key' \in {"left", "right", "enter"}, ui'.collapsed # ui.collapsed
  PROVE  /\ ui.focus \in Panes /\ useTreeCollapse(ui)
         /\ \E row : OnRow(ui, ui.focus, row) /\ ui' = toggleTreeDirectory(ui, ui.focus, row.path)
<1>1. Fresh(ui) /\ Shape(ui)
  BY FollowsItself, FreshOn DEF MemoInv, Good
<1>2. ASSUME NEW p \in Panes, NEW i \in Nat \ {0} PROVE setTreeCursor(ui, p, i).collapsed = ui.collapsed
  BY <1>1, <1>2, SetCursor DEF Moved, UiFields
<1>3. ASSUME NEW p \in Panes, ui.cur[p] <= Len(displayTreeFor(ui, p))
      PROVE  OnRow(ui, p, displayTreeFor(ui, p)[ui.cur[p]])
  BY <1>1, <1>3, Sizes DEF Fresh, Shape, OnRow, Files
<1>4. /\ isTreeFocused(ui)
      /\ \/ useTreeCollapse(ui) /\ (ui' = moveTreeRight(ui) \/ ui' = moveTreeLeft(ui))
         \/ ui' = EnterDirectory(ui)
  <2> USE DEF Press, Type, Overlay, Handle
  <2>1. ~(Resize \/ Switch \/ Move)
    BY DEF Resize, Switch, Move
  <2>2. ~(Filter \/ FilterEnter \/ FilterBackspace \/ FilterText \/ Escape \/ Backspace)
    BY DEF Filter, FilterEnter, FilterBackspace, FilterText, Escape, Backspace
  <2>3. ~(DiffOnly \/ Sort \/ Aggregate \/ OpenWaste \/ WasteKey \/ DetailKey \/ WasteEnter)
    BY DEF DiffOnly, Sort, Aggregate, OpenWaste, WasteKey, DetailKey, WasteEnter
  <2> QED
    BY <2>1, <2>2, <2>3 DEF Next, Sideways, Enter
<1>5. ui.focus \in Panes /\ activeTreeFocus(ui) = ui.focus
  BY <1>4 DEF isTreeFocused, activeTreeFocus, Panes
<1> DEFINE pane == ui.focus
           files == displayTreeFor(ui, pane)
           cur == ui.cur[pane]
<1>6. files = computeDisplayTreeFor(ui, pane) /\ Len(files) \in Nat /\ cur \in Nat \ {0}
  BY <1>1, <1>5, Sizes DEF Fresh, Files, Shape
<1>7. ASSUME useTreeCollapse(ui), ui' = moveTreeRight(ui)
      PROVE  cur <= Len(files) /\ ui' = toggleTreeDirectory(ui, pane, files[cur].path)
  <2>1. ui' # setTreeCursor(ui, pane, cur + 1) /\ ui' # ui
    BY <1>2, <1>5, <1>6
  <2> QED
    BY <1>6, <1>7, <2>1 DEF moveTreeRight
<1>8. ASSUME useTreeCollapse(ui), ui' = moveTreeLeft(ui)
      PROVE  cur <= Len(files) /\ ui' = toggleTreeDirectory(ui, pane, files[cur].path)
  <2> DEFINE parents == {i \in 1..(cur - 1) : files[i].path = Front(files[cur].path)}
  <2>1. ui' # ui
    OBVIOUS
  <2>2. parents # {} => ui' # setTreeCursor(ui, pane, Max(parents))
    <3> SUFFICES ASSUME parents # {} PROVE ui' # setTreeCursor(ui, pane, Max(parents))
      OBVIOUS
    <3>1. cur - 1 \in Nat /\ parents \subseteq 1..(cur - 1)
      BY <1>6
    <3> DEFINE n == cur - 1
    <3> HIDE DEF parents, n
    <3>2. n \in Nat /\ parents # {} /\ parents \subseteq 1..n
      BY <3>1 DEF n
    <3>3. Max(parents) \in parents
      BY <3>2, Extremes
    <3> DEFINE m == Max(parents)
    <3> HIDE DEF m
    <3>4. m \in Nat \ {0}
      <4>1. m \in 1..n
        BY <3>2, <3>3 DEF m
      <4> QED
        BY <3>2, <4>1
    <3> QED
      BY <1>2, <1>5, <3>4 DEF m
  <2> DEFINE toggled == toggleTreeDirectory(ui, pane, files[cur].path)
             moved == setTreeCursor(ui, pane, Max(parents))
  <2>3. moveTreeLeft(ui) = IF cur > Len(files) THEN ui
                           ELSE IF files[cur].dir /\ files[cur].path \notin ui.collapsed[pane] THEN toggled
                           ELSE IF parents # {} THEN moved ELSE ui
    BY DEF moveTreeLeft
  <2> HIDE DEF toggled, moved, parents
  <2>4. cur <= Len(files) /\ ui' = toggled
    <3>1. parents # {} => ui' # moved
      BY <2>2 DEF moved
    <3> QED
      BY <1>6, <1>8, <2>1, <2>3, <3>1
  <2> QED
    BY <2>4 DEF toggled
<1>9. ASSUME ui' = EnterDirectory(ui)
      PROVE  useTreeCollapse(ui) /\ cur <= Len(files) /\ ui' = toggleTreeDirectory(ui, pane, files[cur].path)
  BY <1>5, <1>9 DEF EnterDirectory
<1>10. useTreeCollapse(ui) /\ cur <= Len(files) /\ ui' = toggleTreeDirectory(ui, pane, files[cur].path)
  BY <1>4, <1>7, <1>8, <1>9
<1> QED
  BY <1>3, <1>5, <1>10

\* Collapsing or expanding a directory keeps the row that is selected in every
\* pane that is drawn, but for the pane it is done in when that pane has a
\* second directory of the path above the cursor.
THEOREM SelectionStays == Spec => KeepsPlace
<1>1. NavInv /\ Next =>
        (key' \in {"left", "right", "enter"} /\ ui'.collapsed # ui.collapsed =>
           \A p \in DrawnPanes(ui) :
               \/ p = ui.focus /\ HasDouble(ui, p)
               \/ Selected(ui', p) = Selected(ui, p))
  <2> SUFFICES ASSUME NavInv, Next, key' \in {"left", "right", "enter"}, ui'.collapsed # ui.collapsed,
                      NEW p \in DrawnPanes(ui), ~(p = ui.focus /\ HasDouble(ui, p))
               PROVE  Selected(ui', p) = Selected(ui, p)
    OBVIOUS
  <2>1. MemoInv /\ Good(ui) /\ Shape(ui)
    BY DEF NavInv, Good
  <2>2. ui.focus \in Panes /\ useTreeCollapse(ui)
    BY <2>1, TogglesRow
  <2>3. PICK row : OnRow(ui, ui.focus, row) /\ ui' = toggleTreeDirectory(ui, ui.focus, row.path)
    BY <2>1, TogglesRow
  <2>4. p \in Tended(ui)
    BY <2>1, DrawnAsKept
  <2>5. Selected(toggleTreeDirectory(ui, ui.focus, row.path), p) = Selected(ui, p)
    BY <2>1, <2>2, <2>3, <2>4, ToggleKeeps
  <2> QED
    BY <2>3, <2>5
<1> QED
  BY <1>1, NavInvHolds, PTL DEF Spec, KeepsPlace

=============================================================================
