--------------------------- MODULE TreeNavigation ---------------------------
(***************************************************************************)
(* The keys of the ready screen that move through layers and file trees:   *)
(* two file panes that share a filter and a sort order, the layer list     *)
(* that resets them, the waste overlay that jumps into them, and the       *)
(* memoised list each pane is drawn from.                                  *)
(*                                                                         *)
(* View runs after every Update, so a step here is a handler and the       *)
(* drawing that follows it.  Rows are counted from 1: position i and       *)
(* offset i are the code's i - 1, and an empty list has its cursor at 1.   *)
(* The viewer, saves and status messages are the subject of TuiSession.    *)
(***************************************************************************)
EXTENDS TreeLists, FiniteSets

CONSTANTS
    Trees,          \* pane -> layer -> nodes: StackedTrees and AggregatedTrees
    Hits,           \* query -> the paths that contain it
    Texts,          \* what one key press or paste types, nonempty
    maxFilterLen,
    Heights,        \* terminal heights
    WastedFiles,    \* rows of the waste list: path, layer, layers of its events
    CleanupRows,    \* rows of the cleanup list, in the last layer
    wasteDefaultLimit, wasteMaxRows,
    MaxKeys         \* bound: keys pressed

Panes == {"tree", "agg"}
NLayers == Len(Trees.tree)

PathsOf(p, l) == {Trees[p][l][i].path : i \in DOMAIN Trees[p][l]}

\* A row of the waste overlay: a path, its layer (0, the code's -1, when it is
\* unknown), the layers of its events.  A layer's tree need not list the path:
\* an event tells of the layer that removed it too.
WasteRow == [path: Seq(STRING), layer: 0..NLayers, events: Seq(1..NLayers)]

ASSUME NavigationAssumption ==
    /\ NLayers \in Nat \ {0} /\ Len(Trees.agg) = NLayers
    /\ Heights \subseteq Nat /\ wasteDefaultLimit \in Nat \ {0} /\ wasteMaxRows \in Nat
    /\ WastedFiles \in Seq(WasteRow) /\ CleanupRows \in Seq(WasteRow)
    /\ \A p \in Panes, l \in 1..NLayers : IsTree(Trees[p][l])
    /\ \A q \in DOMAIN Hits : Len(q) \in 1..maxFilterLen

VARIABLES
    ui,      \* focus, cursors, offsets, collapsed directories, filter and sort
    waste,   \* the waste overlay
    memo,    \* treeCache: per pane the inputs of the last list, and the list
    key,     \* the last key
    keys     \* keys so far

vars == <<ui, waste, memo, key, keys>>

TopOfBoth == [p \in Panes |-> 1]

treeVisibleHeightFor(u, p) ==
    LET total == u.height - 8
        bar == u.query # <<>> \/ u.typing
    IN  IF u.aggregated /\ splitTreeFits(total, bar)
        THEN treePaneRows(splitPanelRows(total)[p], bar /\ u.focus = p)
        ELSE treePaneRows(total, bar)

layerVisibleHeight(u) == u.height - 8

rootFor(u, p) == Trees[p][u.layer]

useTreeCollapse(u) == u.sort = "none" /\ u.query = <<>> /\ ~u.diffOnly

isTreeFocused(u) == u.focus \in Panes

activeTreeFocus(u) == IF u.focus = "agg" THEN "agg" ELSE "tree"

computeDisplayTreeFor(u, p) ==
    LET open == IF useTreeCollapse(u) THEN visibleTree(rootFor(u, p), u.collapsed[p])
                                      ELSE rootFor(u, p)
        changed == IF u.diffOnly THEN applyDiffFilter(open) ELSE open
        hit == IF u.query # <<>> THEN applySubstringFilter(changed, Hits[u.query]) ELSE changed
        files == IF u.sort # "none" THEN regularFiles(hit) ELSE hit
    IN  applySortBySize(files, u.sort)

\* Collapsed directories are compared by the generation, never by content.
MemoKey(u) == [layer |-> u.layer, query |-> u.query, diffOnly |-> u.diffOnly,
               sort |-> u.sort, gen |-> u.gen]

displayTreeFor(u, p) ==
    IF memo[p].valid /\ memo[p].on = MemoKey(u) THEN memo[p].files
                                                ELSE computeDisplayTreeFor(u, p)

\* The slots after the panes that are shown were drawn.
Drawn(u) ==
    [p \in Panes |->
        IF p = "tree" \/ u.aggregated
        THEN [valid |-> TRUE, on |-> MemoKey(u), files |-> displayTreeFor(u, p)]
        ELSE memo[p]]

-----------------------------------------------------------------------------
(* Cursors and offsets.                                                    *)

adjustTreeScrollFor(u, p) ==
    [u EXCEPT !.off[p] = ScrolledTo(u.cur[p], @, treeVisibleHeightFor(u, p))]

setTreeCursor(u, p, i) == adjustTreeScrollFor([u EXCEPT !.cur[p] = i], p)

adjustLayerScroll(u) ==
    [u EXCEPT !.layerOffset = ScrolledTo(u.layer, @, layerVisibleHeight(u))]

PanesToTop(u) == [u EXCEPT !.cur = TopOfBoth, !.off = TopOfBoth]

\* Mutant: the collapsed directories are forgotten without a new generation.
QuietClear(u) == [u EXCEPT !.collapsed = [p \in Panes |-> {}]]

clearCollapsed(u) ==
    [u EXCEPT !.collapsed = [p \in Panes |-> {}], !.gen = @ + 2]

resetTreeForLayerChange(u) == clearCollapsed([PanesToTop(u) EXCEPT !.sort = "none"])

clampTreeCursor(u, p) ==
    LET len == Len(displayTreeFor(u, p))
    IN  IF len = 0 THEN [u EXCEPT !.cur[p] = 1, !.off[p] = 1]
                   ELSE setTreeCursor(u, p, clampIndex(u.cur[p], len))

clampCursors(u) ==
    LET top == clampTreeCursor(adjustLayerScroll(u), "tree")
    IN  IF u.aggregated THEN clampTreeCursor(top, "agg") ELSE top

\* What the focused list holds, where its cursor is, and a move within it.
Items(u) == IF u.focus = "layers" THEN NLayers ELSE Len(displayTreeFor(u, u.focus))
At(u) == IF u.focus = "layers" THEN u.layer ELSE u.cur[u.focus]
MoveTo(u, i) ==
    IF u.focus = "layers"
    THEN adjustLayerScroll(resetTreeForLayerChange([u EXCEPT !.layer = i]))
    ELSE setTreeCursor(u, u.focus, i)

moveDown(u) == IF At(u) < Items(u) THEN MoveTo(u, At(u) + 1) ELSE u

moveUp(u) == IF At(u) > 1 THEN MoveTo(u, At(u) - 1) ELSE u

moveToTop(u) ==
    IF u.focus = "layers"
    THEN resetTreeForLayerChange([u EXCEPT !.layer = 1, !.layerOffset = 1])
    ELSE [u EXCEPT !.cur[u.focus] = 1, !.off[u.focus] = 1]

moveToBottom(u) == IF Items(u) > 0 THEN MoveTo(u, Items(u)) ELSE u

PageStep(u, fraction) ==
    LET rows == Most(IF u.focus = "layers" THEN layerVisibleHeight(u)
                                           ELSE treeVisibleHeightFor(u, u.focus), 1)
    IN  IF fraction THEN Most(rows \div 2, 1) ELSE rows

\* Mutant: a page is taken from the panel, not from the pane that is split.
PanelPage(u, dir, fraction) ==
    LET rows == Most(treePaneRows(u.height - 8, FALSE), 1)
        i == clampIndex(At(u) + dir * (IF fraction THEN Most(rows \div 2, 1) ELSE rows), Items(u))
    IN  IF Items(u) = 0 \/ (u.focus = "layers" /\ i = u.layer) THEN u ELSE MoveTo(u, i)

moveByPage(u, dir, fraction) ==
    LET i == clampIndex(At(u) + dir * PageStep(u, fraction), Items(u))
    IN  IF Items(u) = 0 \/ (u.focus = "layers" /\ i = u.layer) THEN u ELSE MoveTo(u, i)

-----------------------------------------------------------------------------
(* Directories.                                                            *)

\* Mutant: both panes collapse when the directory of one is toggled.
ToggleInBoth(u, pane, dir) ==
    clampCursors([u EXCEPT !.collapsed = [p \in Panes |-> toggleCollapsed(@[p], dir)],
                           !.gen = @ + 1])

toggleTreeDirectory(u, pane, dir) ==
    clampCursors([u EXCEPT !.collapsed[pane] = toggleCollapsed(@, dir), !.gen = @ + 1])

moveTreeRight(u) ==
    LET pane == u.focus
        files == displayTreeFor(u, pane)
        cur == u.cur[pane]
        dir == files[cur].path
    IN  IF cur > Len(files) \/ ~files[cur].dir THEN u
        ELSE IF dir \in u.collapsed[pane] THEN toggleTreeDirectory(u, pane, dir)
        ELSE IF cur < Len(files) /\ Under(files[cur + 1].path, dir)
             THEN setTreeCursor(u, pane, cur + 1)
        ELSE u

moveTreeLeft(u) ==
    LET pane == u.focus
        files == displayTreeFor(u, pane)
        cur == u.cur[pane]
        node == files[cur]
        parents == {i \in 1..(cur - 1) : files[i].path = Front(node.path)}
    IN  IF cur > Len(files) THEN u
        ELSE IF node.dir /\ node.path \notin u.collapsed[pane]
             THEN toggleTreeDirectory(u, pane, node.path)
        ELSE IF parents # {} THEN setTreeCursor(u, pane, Max(parents))
        ELSE u

\* tryOpenSelectedFile on a directory; a file opens the viewer instead.
EnterDirectory(u) ==
    LET pane == activeTreeFocus(u)
        files == displayTreeFor(u, pane)
        cur == u.cur[pane]
    IN  IF cur <= Len(files) /\ files[cur].dir /\ useTreeCollapse(u)
        THEN toggleTreeDirectory(u, pane, files[cur].path)
        ELSE u

-----------------------------------------------------------------------------
(* The waste overlay.                                                      *)

wasteRows == SubSeq(WastedFiles, 1, Min({Len(WastedFiles), wasteMaxRows}))

Closed == [open |-> FALSE, cleanup |-> FALSE, expanded |-> FALSE,
           cursor |-> 1, offset |-> 1, detail |-> 0]

allWasteRows(w) == IF w.cleanup THEN CleanupRows ELSE wasteRows

visibleWasteRows(w) ==
    LET rows == allWasteRows(w)
    IN  IF ~w.expanded /\ Len(rows) > wasteDefaultLimit
        THEN SubSeq(rows, 1, wasteDefaultLimit) ELSE rows

wasteVisibleHeight == Most(ui.height - 10, 1)

adjustWasteScroll(w, height) ==
    [w EXCEPT !.offset = ScrolledTo(w.cursor, @, Most(height - 10, 1))]

WasteTo(w, i) == adjustWasteScroll([w EXCEPT !.cursor = i], ui.height)

wasteDown(w) ==
    IF w.cursor < Len(visibleWasteRows(w)) THEN WasteTo(w, w.cursor + 1)
    ELSE IF ~w.expanded /\ Len(allWasteRows(w)) > wasteDefaultLimit
         THEN WasteTo([w EXCEPT !.expanded = TRUE], w.cursor + 1)
    ELSE w

wasteUp(w) == IF w.cursor > 1 THEN WasteTo(w, w.cursor - 1) ELSE w

wasteBottom(w) ==
    LET all == Len(allWasteRows(w))
    IN  IF all = 0 THEN w
        ELSE WasteTo([w EXCEPT !.expanded = @ \/ all > wasteDefaultLimit], all)

\* The row a jump is for: of an event of the file when its history is open.
JumpRow(w) ==
    LET row == visibleWasteRows(w)[w.cursor]
    IN  IF w.detail > 0 /\ ~w.cleanup /\ row.events # <<>>
        THEN [row EXCEPT !.layer = row.events[w.detail]] ELSE row

\* Mutant: the jump leaves the diff-only filter on.
KeepsDiffOnly(u, row) ==
    LET moved == IF row.layer \in 1..NLayers
                 THEN adjustLayerScroll([u EXCEPT !.typing = FALSE, !.query = <<>>,
                                                  !.layer = row.layer, !.focus = "tree"])
                 ELSE u
        fresh == resetTreeForLayerChange(moved)
        found == indexOfPath(displayTreeFor(fresh, activeTreeFocus(fresh)), row.path)
    IN  adjustTreeScrollFor([fresh EXCEPT !.cur.tree = Most(found, 1)], activeTreeFocus(fresh))

wasteJump(u, row) ==
    LET jumped == row.layer \in 1..NLayers
        moved == IF jumped
                 THEN adjustLayerScroll([u EXCEPT !.typing = FALSE, !.query = <<>>,
                                                  !.layer = row.layer, !.focus = "tree"])
                 ELSE u
        fresh == resetTreeForLayerChange(moved)
        pane == activeTreeFocus(fresh)
        Find(v) == indexOfPath(displayTreeFor(v, pane), row.path)
        seen == IF Find(fresh) = 0 THEN [fresh EXCEPT !.diffOnly = FALSE] ELSE fresh
    IN  adjustTreeScrollFor([seen EXCEPT !.cur.tree = IF jumped THEN Most(Find(seen), 1) ELSE 1],
                            pane)

-----------------------------------------------------------------------------
Init ==
    /\ \E h \in Heights :
           ui = [height |-> h, focus |-> "layers", aggregated |-> FALSE,
                 layer |-> 1, layerOffset |-> 1, cur |-> TopOfBoth, off |-> TopOfBoth,
                 collapsed |-> [p \in Panes |-> {}], gen |-> 0,
                 query |-> <<>>, typing |-> FALSE, diffOnly |-> FALSE, sort |-> "none"]
    /\ waste = Closed
    /\ memo = [p \in Panes |-> [valid |-> FALSE, on |-> {}, files |-> <<>>]]
    /\ key = "none"
    /\ keys = 0

\* A handler of the panes, and the drawing after it.
Handle(name, u) ==
    /\ keys < MaxKeys
    /\ key' = name
    /\ keys' = keys + 1
    /\ ui' = u
    /\ memo' = Drawn(u)

Press(name, u) ==
    /\ ~ui.typing /\ ~waste.open
    /\ Handle(name, u)
    /\ UNCHANGED waste

Resize ==
    \E h \in Heights \ {ui.height} :
        /\ Handle("resize", clampCursors([ui EXCEPT !.height = h]))
        /\ waste' = IF waste.open THEN adjustWasteScroll(waste, h) ELSE waste

Switch ==
    Press("tab", clampCursors([ui EXCEPT !.focus = IF ui.focus = "layers" THEN "tree"
                                                   ELSE IF ui.focus = "tree" /\ ui.aggregated
                                                        THEN "agg"
                                                   ELSE "layers"]))

Move ==
    \/ Press("down", moveDown(ui))
    \/ Press("up", moveUp(ui))
    \/ Press("top", moveToTop(ui))
    \/ Press("bottom", moveToBottom(ui))
    \/ \E dir \in {1, -1}, fraction \in BOOLEAN : Press("page", moveByPage(ui, dir, fraction))

Sideways ==
    /\ isTreeFocused(ui) /\ useTreeCollapse(ui)
    /\ Press("right", moveTreeRight(ui)) \/ Press("left", moveTreeLeft(ui))

Enter == isTreeFocused(ui) /\ Press("enter", EnterDirectory(ui))

\* Mutant: the filter bar opens over the last row of the pane.
FilterOnly == isTreeFocused(ui) /\ Press("filter", [ui EXCEPT !.typing = TRUE])

Filter == isTreeFocused(ui) /\ Press("filter", clampCursors([ui EXCEPT !.typing = TRUE]))

\* handleFilterInput
Type(name, u) == ui.typing /\ Handle(name, u) /\ UNCHANGED waste

FilterEnter == Type("confirm", clampCursors([ui EXCEPT !.typing = FALSE]))

FilterBackspace ==
    IF ui.query # <<>> THEN Type("erase", PanesToTop([ui EXCEPT !.query = Front(@)]))
                       ELSE Type("erase", clampCursors([ui EXCEPT !.typing = FALSE]))

FilterText ==
    \E text \in Texts :
        LET query == SubSeq(ui.query \o text, 1, Min({Len(ui.query \o text), maxFilterLen}))
        IN  /\ Len(ui.query) < maxFilterLen
            /\ Type("text", PanesToTop([ui EXCEPT !.query = query]))

\* Esc dismisses the innermost thing that is open, Backspace a confirmed query.
Escape ==
    \/ /\ waste.open
       /\ Handle("esc", ui)
       /\ waste' = IF waste.detail > 0 THEN [waste EXCEPT !.detail = 0] ELSE Closed
    \/ /\ ~waste.open /\ (ui.typing \/ ui.query # <<>>)
       /\ Handle("esc", PanesToTop([ui EXCEPT !.typing = FALSE, !.query = <<>>]))
       /\ UNCHANGED waste

Backspace ==
    /\ isTreeFocused(ui) /\ ui.query # <<>>
    /\ Press("backspace", PanesToTop([ui EXCEPT !.query = <<>>]))

DiffOnly == Press("diff", PanesToTop([ui EXCEPT !.diffOnly = ~@]))

Sort ==
    Press("sort", PanesToTop([ui EXCEPT !.sort = IF @ = "none" THEN "desc"
                                                 ELSE IF @ = "desc" THEN "asc" ELSE "none"]))

Aggregate ==
    LET u == clearCollapsed(PanesToTop([ui EXCEPT !.aggregated = ~@]))
    IN  Press("aggregate", IF u.focus = "agg" THEN [u EXCEPT !.focus = "tree"] ELSE u)

OpenWaste ==
    /\ ~ui.typing /\ ~waste.open
    /\ Handle("waste", ui)
    /\ waste' = [Closed EXCEPT !.open = TRUE]

\* handleWasteOverlay and handleWasteDetail
Overlay(name, w) == waste.open /\ Handle(name, ui) /\ waste' = w

WasteKey ==
    /\ waste.detail = 0
    /\ \/ Overlay("down", wasteDown(waste))
       \/ Overlay("up", wasteUp(waste))
       \/ Overlay("top", [waste EXCEPT !.cursor = 1, !.offset = 1])
       \/ Overlay("bottom", wasteBottom(waste))
       \/ /\ visibleWasteRows(waste) # <<>>
          /\ Overlay("explain", [waste EXCEPT !.detail = 1])
       \/ Overlay("tab", [waste EXCEPT !.cleanup = ~@, !.cursor = 1, !.offset = 1,
                                       !.expanded = FALSE])
       \/ Overlay("expand", [waste EXCEPT !.expanded = ~@, !.cursor = 1, !.offset = 1])

DetailKey ==
    LET count == IF waste.cleanup THEN 0 ELSE Len(JumpRow(waste).events)
        page == Most(ui.height - 12, 1)
        Detail(i) == Overlay("detail", [waste EXCEPT !.detail = clampIndex(i, Most(count, 1))])
    IN  /\ waste.detail > 0
        /\ \E i \in {1, count} \cup {waste.detail + d : d \in {1, -1, page, -page}} : Detail(i)

WasteEnter ==
    /\ waste.open /\ visibleWasteRows(waste) # <<>>
    /\ Handle("jump", wasteJump(ui, JumpRow(waste)))
    /\ waste' = Closed

Next ==
    \/ Resize \/ Switch \/ Move \/ Sideways \/ Enter
    \/ Filter \/ FilterEnter \/ FilterBackspace \/ FilterText \/ Escape \/ Backspace
    \/ DiffOnly \/ Sort \/ Aggregate
    \/ OpenWaste \/ WasteKey \/ DetailKey \/ WasteEnter

Spec == Init /\ [][Next]_vars

-----------------------------------------------------------------------------
(* What the screen shows, taken from the drawing code.                     *)

\* renderRightPanel: the panes that are drawn, and the rows each one has.
DrawnPanes(u) ==
    IF ~u.aggregated THEN {"tree"}
    ELSE IF splitTreeFits(u.height - 8, u.typing \/ u.query # <<>>) THEN Panes
    ELSE {activeTreeFocus(u)}

DrawnRows(u, p) ==
    LET bar == u.typing \/ u.query # <<>>
    IN  IF DrawnPanes(u) = Panes
        THEN treePaneRows(splitPanelRows(u.height - 8)[p], bar /\ u.focus = p)
        ELSE treePaneRows(u.height - 8, bar)

InView(cursor, offset, rows, len) ==
    len > 0 /\ rows > 0 => cursor \in Shown(offset, rows, len)

Nowhere == [path |-> <<>>]

Selected(u, p) ==
    LET files == computeDisplayTreeFor(u, p)
    IN  IF u.cur[p] \in DOMAIN files THEN files[u.cur[p]] ELSE Nowhere

\* Above the cursor is another directory of the path that is selected: one
\* that was moved there when what it was in became a file.
HasDouble(u, p) ==
    \E i \in 1..(u.cur[p] - 1) :
        LET row == computeDisplayTreeFor(u, p)[i]
        IN  row.dir /\ row.path = Selected(u, p).path

\* Every field keeps its shape, and a cursor never leaves the positions of its
\* list (position 1 of an empty one).
TypeOK ==
    /\ ui.height \in Heights /\ ui.focus \in Panes \cup {"layers"}
    /\ ui.aggregated \in BOOLEAN /\ ui.typing \in BOOLEAN /\ ui.diffOnly \in BOOLEAN
    /\ ui.sort \in {"none", "desc", "asc"} /\ ui.query \in {<<>>} \cup DOMAIN Hits
    /\ ui.layer \in 1..NLayers /\ ui.layerOffset \in 1..NLayers /\ ui.gen \in Nat
    /\ \A p \in Panes :
           /\ ui.cur[p] \in 1..Most(Len(computeDisplayTreeFor(ui, p)), 1)
           /\ ui.off[p] \in 1..Most(Len(computeDisplayTreeFor(ui, p)), 1)
           /\ ui.collapsed[p] \subseteq PathsOf(p, ui.layer)
    /\ waste.open \in BOOLEAN /\ waste.cleanup \in BOOLEAN /\ waste.expanded \in BOOLEAN
    /\ waste.cursor \in 1..Most(Len(visibleWasteRows(waste)), 1)
    /\ waste.detail \in Nat /\ keys \in 0..MaxKeys
    /\ ui.focus = "agg" => ui.aggregated

\* The selected row is on the screen, in every pane, in the layer list and in
\* the waste overlay, whatever the sequence of keys, filters, splits and
\* resizes: the offsets the handlers keep and the rows the drawing code has
\* are computed in different places, and the filter bar takes a row of the
\* focused half only.
CursorSeen ==
    /\ \A p \in DrawnPanes(ui) :
           InView(ui.cur[p], ui.off[p], DrawnRows(ui, p), Len(computeDisplayTreeFor(ui, p)))
    /\ InView(ui.layer, ui.layerOffset, layerVisibleHeight(ui), NLayers)
    /\ waste.open => InView(waste.cursor, waste.offset, wasteVisibleHeight,
                            Len(visibleWasteRows(waste)))

\* A memoised list is the list its inputs give now: no handler changes what
\* a list is made from without changing the memo's key.
ListsFresh ==
    \A p \in Panes : displayTreeFor(ui, p) = computeDisplayTreeFor(ui, p)

\* A jump from the waste overlay goes to the row's layer and selects its file
\* there, whatever filter, order, collapsed directory or pane was in its way;
\* the top of the layer where the layer does not list the file.  A row whose
\* layer is unknown leaves the layer, the focus and the query alone.
JumpsLand ==
    [][key' = "jump" /\ waste.open =>
         LET row == JumpRow(waste)
         IN  IF row.layer = 0
             THEN /\ <<ui'.layer, ui'.focus, ui'.query>> = <<ui.layer, ui.focus, ui.query>>
                  /\ ui'.cur.tree = 1
             ELSE /\ ui'.layer = row.layer /\ ui'.focus = "tree"
                  /\ IF row.path \in PathsOf("tree", row.layer)
                     THEN Selected(ui', "tree").path = row.path
                     ELSE ui'.cur.tree = 1]_vars

\* Collapsing or expanding a directory keeps the row that is selected, in
\* every pane that is drawn, unless the pane it is done in has a second
\* directory of that path above the cursor: what is collapsed is a path, so
\* the rows of the other one come or go too, and the cursor keeps its number.
KeepsPlace ==
    [][key' \in {"left", "right", "enter"} /\ ui'.collapsed # ui.collapsed =>
         \A p \in DrawnPanes(ui) :
             \/ p = ui.focus /\ HasDouble(ui, p)
             \/ Selected(ui', p) = Selected(ui, p)]_vars

\* A page or a step never carries the window over a row the user has not
\* been shown: the new window overlaps the old one or begins where it ended.
NoRowSkipped ==
    [][key' \in {"page", "up", "down"} /\ isTreeFocused(ui) /\ ~waste.open =>
         LET rows == Most(DrawnRows(ui, ui.focus), 1)
         IN  ui'.off[ui.focus] - ui.off[ui.focus] \in (-rows)..rows]_vars
=============================================================================
