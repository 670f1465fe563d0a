-------------------------- MODULE TuiSessionProofs --------------------------
(* Theorems about TuiSession, for any files, targets, channel and number of  *)
(* keys: what holds of a session however the answers of its commands are     *)
(* delayed and reordered.                                                    *)
EXTENDS TuiSession, FiniteSetTheorems, TLAPS

\* TypeOK, by what the steps touch together.
LoadType ==
    /\ state \in {"loading", "ready", "error"} /\ inspect \in BOOLEAN
    /\ analysis \in {"running", "closed", "reported"}
    /\ chan \in Seq(Events) /\ Len(chan) <= ChanCap
    /\ listeners \in Nat /\ ticks \in Nat
ViewType ==
    /\ view \in [state: {"none", "loading", "ready"}, req: Nat, file: Files \cup {NoFile},
                 lit: Files \cup {NoFile}, wanted: Files \cup {NoFile}]
    /\ fetches \subseteq [req: Nat, file: Files] /\ lights \subseteq [req: Nat, file: Files]
SaveType ==
    /\ saves \subseteq [req: Nat, file: Files, at: SavePhases, to: Nat] /\ saveReq \in Nat
    /\ disk \in [Targets -> Files \cup {NoFile, Theirs}] /\ temps \subseteq Nat
CtxType == viewerCancel \in Contexts /\ saveCancel \in Contexts /\ live \subseteq Contexts
StatusType == status \in [text: {"", "error", "note", "extracting"}, error: BOOLEAN, timed: BOOLEAN]
KeyType == overlay \subseteq Flags /\ quitting \in BOOLEAN /\ inputs \in 0..MaxInputs

\* The types, group by group.
LEMMA TypeParts ==
  TypeOK <=> LoadType /\ ViewType /\ SaveType /\ CtxType /\ StatusType /\ KeyType
BY Zenon DEF TypeOK, LoadType, ViewType, SaveType, CtxType, StatusType, KeyType

\* A request of the viewer is numbered no higher than the counter, and one
\* numbered the same is for the file that is wanted; a highlight that is
\* current is for the file on display, which is that file.
ViewerInv ==
    /\ ViewerShowsRequested
    /\ \A c \in fetches : c.req <= view.req /\ (c.req = view.req => c.file = view.wanted)
    /\ \A c \in lights : /\ c.req <= view.req
                         /\ c.req = view.req => c.file = view.wanted /\ c.file = view.file

\* No two saves have one number, which names the temp file of each.
SaveInv ==
    /\ NoTempLeaks
    /\ \A s \in saves : s.req <= saveReq
    /\ \A s, t \in saves : s.req = t.req => s = t

\* A save that is past its probe has a target that is not the user's.
TargetInv ==
    \A s \in saves : /\ s.to \in Targets
                     /\ s.at \in {"check", "create", "write"} => disk[s.to] # Theirs

-----------------------------------------------------------------------------
(* Which steps touch what *)

ViewStep ==
    \/ \E f \in Files : Open(f)
    \/ \E c \in fetches, fails, text \in BOOLEAN : ContentArrives(c, fails, text)
    \/ \E c \in lights : HighlightArrives(c)
    \/ Escape /\ CloseViewer

SaveStep ==
    \/ \E f \in Files : Extract(f)
    \/ \E s \in saves, fails \in BOOLEAN :
          ExtractArrives(s, fails) \/ CreateTemp(s, fails) \/ WriteFile(s, fails)
    \/ \E s \in saves : Probe(s) \/ Check(s) \/ SavedArrives(s)

LoadStep ==
    \/ \E kind \in {"warn", "phase"} : Emit(kind)
    \/ AnalysisEnds \/ ProgressArrives \/ ListenEnds \/ TickArrives
    \/ \E fails \in BOOLEAN : InspectArrives(fails) \/ AnalysisArrives(fails)

\* What a step does to the load.
LEMMA LoadSteps ==
  ASSUME Next PROVE LoadStep \/ UNCHANGED loadVars
BY ZenonT(40) DEF Next, Commands, Keys, LoadStep, viewVars, saveVars, loadVars, endVars, OnlyOverlay, InGoroutine,
       TimerFires, ContentArrives, HighlightArrives, ExtractArrives, CreateTemp, WriteFile, Probe,
       Check, SavedArrives, Open, Extract,
       Refuse, Waste, WasteJump, Filter, FilterInput, DropQuery, Help, Search, SearchInput, Escape, QuitKey

\* What a step does to the viewer.
LEMMA ViewSteps ==
  ASSUME Next PROVE ViewStep \/ UNCHANGED viewVars
BY ZenonT(40) DEF Next, Commands, Keys, ViewStep, viewVars, saveVars, loadVars, endVars, OnlyOverlay, InGoroutine,
       Emit, AnalysisEnds, ProgressArrives, ListenEnds, TickArrives, TimerFires, InspectArrives,
       AnalysisArrives, ExtractArrives, CreateTemp, WriteFile, Probe, Check, SavedArrives, Extract,
       Refuse, Waste, WasteJump, Filter, FilterInput, DropQuery, Help, Search, SearchInput, Escape, QuitKey

\* What a step does to a save.
LEMMA SaveSteps ==
  ASSUME Next PROVE SaveStep \/ UNCHANGED saveVars
BY DEF Next, Commands, Keys, SaveStep, viewVars, saveVars, loadVars, endVars, OnlyOverlay,
       Emit, AnalysisEnds, ProgressArrives, ListenEnds, TickArrives, TimerFires, InspectArrives,
       AnalysisArrives, ContentArrives, HighlightArrives, Open,
       Refuse, Waste, WasteJump, Filter, FilterInput, DropQuery, Help, Search, SearchInput, Escape, QuitKey

CtxStep ==
    \/ \E f \in Files : Open(f) \/ Extract(f)
    \/ \E c \in fetches, fails, text \in BOOLEAN : ContentArrives(c, fails, text)
    \/ \E s \in saves, fails \in BOOLEAN : ExtractArrives(s, fails)
    \/ Escape \/ QuitKey

\* What a step does to the contexts.
LEMMA CtxSteps ==
  ASSUME Next PROVE CtxStep \/ UNCHANGED <<viewerCancel, saveCancel, live, quitting>>
BY DEF Next, Commands, Keys, CtxStep, viewVars, saveVars, loadVars, endVars, OnlyOverlay, InGoroutine,
       Emit, AnalysisEnds, ProgressArrives, ListenEnds, TickArrives, TimerFires, InspectArrives,
       AnalysisArrives, HighlightArrives, CreateTemp, WriteFile, Probe, Check, SavedArrives,
       Refuse, Waste, WasteJump, Filter, FilterInput, DropQuery, Help, Search, SearchInput, Pressed

-----------------------------------------------------------------------------
(* Types *)

\* The targets can be counted.
LEMMA TargetsCounted == Cardinality(Targets) \in Nat /\ LastTarget \in Targets
BY TuiAssumption, FS_CardinalityType DEF LastTarget

\* The first state is well typed.
LEMMA TypeInit == Init => TypeOK
<1> SUFFICES ASSUME Init PROVE TypeOK
  OBVIOUS
<1>1. state = "loading" /\ inspect = TRUE /\ analysis = "running" /\ chan = <<>> /\ listeners = 1 /\ ticks = 1
  BY Zenon DEF Init
<1>2. LoadType
  BY <1>1, TuiAssumption DEF LoadType
<1>3. /\ view = [state |-> "none", req |-> 0, file |-> NoFile, lit |-> NoFile, wanted |-> NoFile]
      /\ fetches = {} /\ lights = {}
  BY Zenon DEF Init
<1>4. ViewType
  BY <1>3 DEF ViewType
<1>5. saves = {} /\ temps = {} /\ saveReq = 0
  BY Zenon DEF Init
<1>6. SaveType
  <2>1. disk \in [Targets -> Files \cup {NoFile, Theirs}]
    <3>1. PICK n \in 0..Cardinality(Targets) : disk = [t \in Targets |-> IF t < n THEN Theirs ELSE NoFile]
      BY Zenon DEF Init
    <3> QED
      BY <3>1
  <2> QED
    BY <1>5, <2>1 DEF SaveType
<1>7. /\ viewerCancel = NoCtx /\ saveCancel = NoCtx /\ live = {Fetch}
      /\ status = [text |-> "", error |-> FALSE, timed |-> FALSE]
      /\ overlay = {} /\ quitting = FALSE /\ inputs = 0
  BY Zenon DEF Init
<1>8. CtxType
  <2>1. NoCtx \in Contexts /\ Fetch \in Contexts
    BY DEF NoCtx, Fetch, Contexts
  <2> QED
    BY <1>7, <2>1 DEF CtxType
<1>9. StatusType
  BY <1>7 DEF StatusType
<1>10. KeyType
  <2>1. quitting \in BOOLEAN
    BY <1>7
  <2>2. 0 \in 0..MaxInputs
    BY TuiAssumption
  <2> QED
    BY <1>7, <2>1, <2>2 DEF KeyType
<1> QED
  BY <1>2, <1>4, <1>6, <1>8, <1>9, <1>10, TypeParts

\* Steps keep the types of the load.
LEMMA LoadTyped == ASSUME LoadType, [Next]_vars PROVE LoadType'
<1> USE DEF LoadType
<1>1. CASE UNCHANGED loadVars
  BY <1>1 DEF loadVars
<1>2. ASSUME NEW kind \in {"warn", "phase"}, Emit(kind) PROVE LoadType'
  <2>1. chan' \in Seq(Events) /\ Len(chan') <= ChanCap
    BY <1>2, TuiAssumption DEF Emit, Accepts, Events
  <2> QED
    BY <1>2, <2>1 DEF Emit
<1>3. CASE AnalysisEnds
  BY <1>3 DEF AnalysisEnds
<1>4. CASE ProgressArrives
  <2>1. chan' \in Seq(Events) /\ Len(chan') <= ChanCap
    BY <1>4, TuiAssumption DEF ProgressArrives
  <2> QED
    BY <1>4, <2>1 DEF ProgressArrives, ListenersAfter
<1>5. CASE ListenEnds
  BY <1>5 DEF ListenEnds
<1>6. CASE TickArrives
  BY <1>6 DEF TickArrives
<1>7. ASSUME NEW fails \in BOOLEAN, InspectArrives(fails) PROVE LoadType'
  BY <1>7 DEF InspectArrives
<1>8. ASSUME NEW fails \in BOOLEAN, AnalysisArrives(fails) PROVE LoadType'
  BY <1>8 DEF AnalysisArrives
<1> QED
  BY <1>1, <1>2, <1>3, <1>4, <1>5, <1>6, <1>7, <1>8, LoadSteps DEF LoadStep, vars

\* Steps keep the types of the viewer.
LEMMA ViewTyped == ASSUME ViewType, [Next]_vars PROVE ViewType'
<1> USE DEF ViewType
<1>1. CASE UNCHANGED viewVars
  BY <1>1 DEF viewVars
<1>2. ASSUME NEW f \in Files, Open(f) PROVE ViewType'
  <2>1. view' = [state |-> "loading", req |-> view.req + 1, file |-> view.file, lit |-> view.lit, wanted |-> f]
    BY <1>2 DEF Open
  <2> QED
    BY <1>2, <2>1 DEF Open
<1>3. ASSUME NEW c \in fetches, NEW fails \in BOOLEAN, NEW text \in BOOLEAN, ContentArrives(c, fails, text)
      PROVE  ViewType'
  <2>1. \/ view' = view
        \/ view' = [state |-> "none", req |-> view.req, file |-> view.file, lit |-> view.lit, wanted |-> view.wanted]
        \/ view' = [state |-> "ready", req |-> view.req, file |-> c.file, lit |-> NoFile, wanted |-> view.wanted]
    BY <1>3 DEF ContentArrives
  <2>2. fetches' \subseteq fetches /\ lights' \subseteq lights \cup {c}
    BY <1>3 DEF ContentArrives
  <2> QED
    BY <2>1, <2>2
<1>4. ASSUME NEW c \in lights, HighlightArrives(c) PROVE ViewType'
  <2>1. \/ view' = view
        \/ view' = [state |-> view.state, req |-> view.req, file |-> view.file, lit |-> c.file, wanted |-> view.wanted]
    BY <1>4 DEF HighlightArrives
  <2> QED
    BY <1>4, <2>1 DEF HighlightArrives
<1>5. CASE Escape /\ CloseViewer
  <2>1. view' = [state |-> "none", req |-> view.req + 1, file |-> NoFile, lit |-> NoFile, wanted |-> NoFile]
    BY <1>5 DEF CloseViewer
  <2> QED
    BY <1>5, <2>1 DEF CloseViewer
<1> QED
  BY <1>1, <1>2, <1>3, <1>4, <1>5, ViewSteps DEF ViewStep, vars

\* Steps keep the types of the save.
LEMMA SaveTyped == ASSUME SaveType, [Next]_vars PROVE SaveType'
<1> USE DEF SaveType, SavePhases, Moves
<1>1. CASE UNCHANGED saveVars
  BY <1>1 DEF saveVars
<1>2. ASSUME NEW f \in Files, Extract(f) PROVE SaveType'
  BY <1>2 DEF Extract
<1>3. ASSUME NEW s \in saves, NEW fails \in BOOLEAN, ExtractArrives(s, fails) PROVE SaveType'
  <2>1. [s EXCEPT !.at = "probe"] \in [req: Nat, file: Files, at: SavePhases, to: Nat]
    OBVIOUS
  <2> QED
    BY <1>3, <2>1 DEF ExtractArrives
<1>4. ASSUME NEW s \in saves, NEW fails \in BOOLEAN, CreateTemp(s, fails) PROVE SaveType'
  BY <1>4 DEF CreateTemp, InGoroutine
<1>5. ASSUME NEW s \in saves, NEW fails \in BOOLEAN, WriteFile(s, fails) PROVE SaveType'
  BY <1>5 DEF WriteFile, Cleanup, InGoroutine
<1>6. ASSUME NEW s \in saves, Probe(s) PROVE SaveType'
  BY <1>6 DEF Probe, InGoroutine
<1>7. ASSUME NEW s \in saves, Check(s) PROVE SaveType'
  BY <1>7 DEF Check, InGoroutine
<1>8. ASSUME NEW s \in saves, SavedArrives(s) PROVE SaveType'
  BY <1>8 DEF SavedArrives
<1> QED
  BY <1>1, <1>2, <1>3, <1>4, <1>5, <1>6, <1>7, <1>8, SaveSteps DEF SaveStep, vars

\* Steps keep the types of the contexts.
LEMMA CtxTyped ==
  ASSUME CtxType, ViewType, SaveType, [Next]_vars
  PROVE  CtxType'
<1> USE DEF CtxType, Started
<1>0. NoCtx \in Contexts /\ \A n \in Nat : {ViewCtx(n), ExtractCtx(n), WriteCtx(n)} \subseteq Contexts
  BY DEF NoCtx, ViewCtx, ExtractCtx, WriteCtx, Contexts
<1>1. CASE UNCHANGED <<viewerCancel, saveCancel, live>>
  BY <1>1
<1>2. ASSUME NEW f \in Files, Open(f) PROVE CtxType'
  BY <1>0, <1>2 DEF ViewType, Open, saveVars
<1>3. ASSUME NEW f \in Files, Extract(f) PROVE CtxType'
  BY <1>0, <1>3 DEF SaveType, Extract, viewVars
<1>4. ASSUME NEW c \in fetches, NEW fails \in BOOLEAN, NEW text \in BOOLEAN, ContentArrives(c, fails, text)
      PROVE  CtxType'
  BY <1>0, <1>4 DEF ContentArrives, saveVars
<1>5. ASSUME NEW s \in saves, NEW fails \in BOOLEAN, ExtractArrives(s, fails) PROVE CtxType'
  BY <1>0, <1>5 DEF SaveType, ExtractArrives, viewVars
<1>6. CASE Escape
  BY <1>0, <1>6 DEF Escape, CloseViewer, Quit, viewVars, saveVars
<1>7. CASE QuitKey
  BY <1>7 DEF QuitKey, Quit, viewVars, saveVars
<1> QED
  BY <1>1, <1>2, <1>3, <1>4, <1>5, <1>6, <1>7, CtxSteps DEF CtxStep, vars, viewVars, saveVars

\* A status message is well typed.
LEMMA TextTyped ==
  ASSUME NEW text \in {"", "error", "note", "extracting"}, NEW isError \in BOOLEAN, NEW timed \in BOOLEAN,
         status' = [text |-> text, error |-> isError, timed |-> timed]
  PROVE  StatusType'
BY DEF StatusType

\* Steps keep the types of the status.
LEMMA StatusTyped == ASSUME StatusType, [Next]_vars PROVE StatusType'
<1> USE TextTyped DEF StatusType, Says, Shows
<1>1. CASE UNCHANGED status
  BY <1>1
<1>2. CASE ProgressArrives
  BY <1>2 DEF ProgressArrives
<1>3. ASSUME NEW fails \in BOOLEAN, InspectArrives(fails) PROVE StatusType'
  BY <1>3 DEF InspectArrives
<1>4. ASSUME NEW fails \in BOOLEAN, AnalysisArrives(fails) PROVE StatusType'
  <2>1. status' = status \/ status' = [text |-> "", error |-> FALSE, timed |-> status.timed]
    BY <1>4 DEF AnalysisArrives
  <2> QED
    BY <2>1
<1>5. CASE TimerFires
  BY <1>5 DEF TimerFires
<1>6. CASE Refuse
  BY <1>6 DEF Refuse
<1>7. CASE WasteJump
  BY <1>7 DEF WasteJump
<1>8. ASSUME NEW c \in fetches, NEW fails \in BOOLEAN, NEW text \in BOOLEAN, ContentArrives(c, fails, text)
      PROVE  StatusType'
  BY <1>8 DEF ContentArrives
<1>9. ASSUME NEW f \in Files, Extract(f) PROVE StatusType'
  BY <1>9 DEF Extract
<1>10. ASSUME NEW s \in saves, NEW fails \in BOOLEAN, ExtractArrives(s, fails) PROVE StatusType'
  BY <1>10 DEF ExtractArrives
<1>11. ASSUME NEW s \in saves, SavedArrives(s) PROVE StatusType'
  BY <1>11 DEF SavedArrives
<1> QED
  BY <1>1, <1>2, <1>3, <1>4, <1>5, <1>6, <1>7, <1>8, <1>9, <1>10, <1>11
  DEF Next, Commands, Keys, vars, OnlyOverlay, InGoroutine, endVars, viewVars, saveVars, loadVars, Emit,
      AnalysisEnds, ListenEnds, TickArrives, HighlightArrives, CreateTemp, WriteFile, Probe, Check, Open,
      Waste, Filter, FilterInput, DropQuery, Help, Search, SearchInput, Escape, QuitKey

\* A key other than one that quits.
LEMMA KeyTyped ==
  ASSUME KeyType, Pressed, overlay' \subseteq Flags
  PROVE  KeyType'
<1>1. quitting' \in BOOLEAN
  BY DEF KeyType, Pressed
<1>2. inputs' \in 0..MaxInputs
  BY TuiAssumption DEF KeyType, Pressed, Press
<1> QED
  BY <1>1, <1>2 DEF KeyType

\* Steps keep the types of the keys.
LEMMA KeysTyped == ASSUME KeyType, [Next]_vars PROVE KeyType'
<1>1. CASE UNCHANGED <<overlay, quitting, inputs>>
  BY <1>1 DEF KeyType
<1>2. CASE Keys
  <2>1. overlay' \subseteq Flags
    BY <1>2 DEF KeyType, Flags, Keys, OnlyOverlay, Open, Extract, Refuse, Waste, WasteJump, Filter, FilterInput,
                DropQuery, Help, Search, SearchInput, Escape, QuitKey
  <2>2. CASE Pressed
    BY <2>1, <2>2, KeyTyped
  <2>3. CASE Escape
    <3>1. quitting' \in BOOLEAN
      BY <2>3 DEF Escape, Quit, KeyType
    <3>2. inputs' \in 0..MaxInputs
      BY <2>3, TuiAssumption DEF Escape, Press, KeyType
    <3> QED
      BY <2>1, <3>1, <3>2 DEF KeyType
  <2>4. CASE QuitKey
    BY <2>1, <2>4 DEF QuitKey, Quit, KeyType
  <2> QED
    BY <1>2, <2>2, <2>3, <2>4 DEF Keys, Open, Extract, Refuse, Waste, WasteJump, Filter, FilterInput,
                                  DropQuery, Help, Search, SearchInput
<1>3. ASSUME NEW kind \in {"warn", "phase"}, Emit(kind) PROVE KeyType'
  <2>1. inputs' \in 0..MaxInputs
    BY <1>3, TuiAssumption DEF Emit, KeyType
  <2> QED
    BY <1>3, <2>1 DEF Emit, KeyType
<1> QED
  BY <1>1, <1>2, <1>3
  DEF Next, Commands, vars, InGoroutine, endVars, AnalysisEnds, ProgressArrives, ListenEnds, TickArrives,
      TimerFires, InspectArrives, AnalysisArrives, ContentArrives, HighlightArrives, ExtractArrives,
      CreateTemp, WriteFile, Probe, Check, SavedArrives

\* Every session keeps its state well-typed: no handler stores what the others
\* would not expect.
THEOREM Typed == Spec => []TypeOK
<1>1. ASSUME TypeOK, [Next]_vars PROVE TypeOK'
  <2>1. LoadType' /\ ViewType' /\ SaveType' /\ CtxType' /\ StatusType' /\ KeyType'
    BY <1>1, TypeParts, LoadTyped, ViewTyped, SaveTyped, CtxTyped, StatusTyped, KeysTyped
  <2> QED
    BY <2>1, Zenon DEF TypeOK, LoadType, ViewType, SaveType, CtxType, StatusType, KeyType
<1> QED
  BY <1>1, TypeInit, PTL DEF Spec

-----------------------------------------------------------------------------
(* The viewer *)

\* Every step keeps the invariant of the viewer.
LEMMA ViewerStep ==
  ASSUME ViewType, ViewerInv, [Next]_vars
  PROVE  ViewerInv'
<1> USE DEF ViewerInv, ViewerShowsRequested
<1>1. CASE UNCHANGED viewVars
  BY <1>1 DEF viewVars
<1>2. ASSUME NEW f \in Files, Open(f) PROVE ViewerInv'
  BY <1>2 DEF ViewType, Open, TreeHasKeys
<1>3. ASSUME NEW c \in fetches, NEW fails \in BOOLEAN, NEW text \in BOOLEAN,
             ContentArrives(c, fails, text)
      PROVE  ViewerInv'
  BY <1>3, ZenonT(40) DEF ViewType, ContentArrives, ViewCurrent
<1>4. ASSUME NEW c \in lights, HighlightArrives(c) PROVE ViewerInv'
  BY <1>4 DEF ViewType, HighlightArrives, ViewCurrent
<1>5. CASE Escape
  <2>1. CASE UNCHANGED <<view, fetches, lights>>
    BY <2>1
  <2>2. CASE CloseViewer
    BY <2>2 DEF ViewType, CloseViewer
  <2> QED
    BY <1>5, <2>1, <2>2 DEF Escape, viewVars
<1> QED
  BY <1>1, <1>2, <1>3, <1>4, <1>5, ViewSteps DEF ViewStep, vars

\* The viewer shows the file opened last, and never another file's colours,
\* for any number of requests whose answers come late and in any order.
THEOREM ShowsRequested == Spec => []ViewerShowsRequested
<1>1. Init => /\ view = [state |-> "none", req |-> 0, file |-> NoFile, lit |-> NoFile, wanted |-> NoFile]
              /\ fetches = {} /\ lights = {}
  BY Zenon DEF Init
<1>2. Init => ViewerInv
  BY <1>1 DEF ViewerInv, ViewerShowsRequested
<1>3. ViewerInv => ViewerShowsRequested
  BY DEF ViewerInv
<1> QED
  BY <1>2, <1>3, ViewerStep, Typed, TypeParts, PTL DEF Spec

-----------------------------------------------------------------------------
(* Saving *)

\* A save moves on: its number, file and target stay.
LEMMA Moved ==
  ASSUME SaveType, NEW s \in saves, NEW at
  PROVE  LET t == [s EXCEPT !.at = at] IN t.req = s.req /\ t.at = at /\ t.file = s.file /\ t.to = s.to
BY DEF SaveType

\* Every step keeps the invariant of the save.
LEMMA SaveKept ==
  ASSUME SaveType, SaveInv, [Next]_vars
  PROVE  SaveInv'
<1> USE DEF SaveInv, NoTempLeaks, Moves
<1>1. CASE UNCHANGED saveVars
  BY <1>1 DEF saveVars
<1>2. ASSUME NEW f \in Files, Extract(f) PROVE SaveInv'
  BY <1>2 DEF SaveType, Extract
<1>3. ASSUME NEW s \in saves, NEW fails \in BOOLEAN, ExtractArrives(s, fails) PROVE SaveInv'
  BY <1>3, ZenonT(40) DEF SaveType, ExtractArrives
<1>4. ASSUME NEW s \in saves, NEW fails \in BOOLEAN, CreateTemp(s, fails) PROVE SaveInv'
  <2>1. CASE fails
    BY <1>4, <2>1, Moved DEF SaveType, CreateTemp, InGoroutine
  <2>2. CASE ~fails
    <3> DEFINE w == [s EXCEPT !.at = "write"]
    <3>1. saves' = (saves \ {s}) \cup {w} /\ temps' = temps \cup {s.req} /\ saveReq' = saveReq
      BY <1>4, <2>2 DEF CreateTemp, InGoroutine
    <3>2. w.req = s.req /\ w.at = "write"
      BY Moved
    <3>3. s.at = "create"
      BY <1>4 DEF CreateTemp
    <3> HIDE DEF w
    <3> QED
      BY <3>1, <3>2, <3>3 DEF SaveType
  <2> QED
    BY <2>1, <2>2
<1>5. ASSUME NEW s \in saves, NEW fails \in BOOLEAN, WriteFile(s, fails) PROVE SaveInv'
  BY <1>5 DEF SaveType, WriteFile, Cleanup, InGoroutine
<1>6. ASSUME NEW s \in saves, Probe(s) PROVE SaveInv'
  BY <1>6 DEF SaveType, Probe, InGoroutine
<1>7. ASSUME NEW s \in saves, Check(s) PROVE SaveInv'
  BY <1>7 DEF SaveType, Check, InGoroutine
<1>8. ASSUME NEW s \in saves, SavedArrives(s) PROVE SaveInv'
  BY <1>8 DEF SaveType, SavedArrives
<1> QED
  BY <1>1, <1>2, <1>3, <1>4, <1>5, <1>6, <1>7, <1>8, SaveSteps DEF SaveStep, vars

\* Whatever is cancelled, superseded or fails, the temp files of the program
\* that runs are those of the saves that are writing.
THEOREM TempsOwned == Spec => []NoTempLeaks
<1>1. Init => SaveInv
  BY DEF Init, SaveInv, NoTempLeaks
<1>2. SaveInv => NoTempLeaks
  BY DEF SaveInv
<1> QED
  BY <1>1, <1>2, SaveKept, Typed, TypeParts, PTL DEF Spec

\* Every step keeps what the targets hold.
LEMMA TargetKept ==
  ASSUME SaveType, TargetInv, [Next]_vars
  PROVE  TargetInv'
<1> USE DEF TargetInv, Moves
<1>1. CASE UNCHANGED saveVars
  BY <1>1 DEF saveVars
<1>2. ASSUME NEW f \in Files, Extract(f) PROVE TargetInv'
  BY <1>2, TuiAssumption DEF SaveType, Extract
<1>3. ASSUME NEW s \in saves, NEW fails \in BOOLEAN, ExtractArrives(s, fails) PROVE TargetInv'
  <2>1. \/ saves' \subseteq saves
        \/ saves' = (saves \ {s}) \cup {[s EXCEPT !.at = "probe"]}
    BY <1>3 DEF ExtractArrives
  <2>2. UNCHANGED disk
    BY <1>3 DEF ExtractArrives
  <2> QED
    BY <2>1, <2>2, Moved DEF SaveType
<1>4. ASSUME NEW s \in saves, NEW fails \in BOOLEAN, CreateTemp(s, fails) PROVE TargetInv'
  BY <1>4 DEF SaveType, CreateTemp, InGoroutine
<1>5. ASSUME NEW s \in saves, NEW fails \in BOOLEAN, WriteFile(s, fails) PROVE TargetInv'
  BY <1>5, TuiAssumption DEF SaveType, WriteFile, InGoroutine
<1>6. ASSUME NEW s \in saves, Probe(s) PROVE TargetInv'
  BY <1>6, TuiAssumption, TargetsCounted DEF SaveType, Probe, FreeTarget, LastTarget, InGoroutine
<1>7. ASSUME NEW s \in saves, Check(s) PROVE TargetInv'
  BY <1>7 DEF SaveType, Check, InGoroutine
<1>8. ASSUME NEW s \in saves, SavedArrives(s) PROVE TargetInv'
  BY <1>8 DEF SaveType, SavedArrives
<1> QED
  BY <1>1, <1>2, <1>3, <1>4, <1>5, <1>6, <1>7, <1>8, SaveSteps DEF SaveStep, vars

\* Only the rename of a save changes the working directory, and never a name
\* that was the user's before the session, although the probe and the rename
\* are steps of their own with other saves in between.
THEOREM UsersKeep == Spec => UsersFilesKept
<1>1. Init => TargetInv
  BY DEF Init, TargetInv
<1>2. ASSUME SaveType, TargetInv, [Next]_vars
      PROVE  \A t \in Targets : disk[t] = Theirs => disk'[t] = Theirs
  <2>1. CASE UNCHANGED disk
    BY <2>1
  <2>2. ASSUME NEW s \in saves, NEW fails \in BOOLEAN, WriteFile(s, fails)
        PROVE  \A t \in Targets : disk[t] = Theirs => disk'[t] = Theirs
    BY <1>2, <2>2 DEF WriteFile, TargetInv, SaveType
  <2>3. UNCHANGED disk \/ \E s \in saves, fails \in BOOLEAN : WriteFile(s, fails)
    BY <1>2, SaveSteps DEF SaveStep, vars, saveVars, Extract, ExtractArrives, CreateTemp, Probe, Check, SavedArrives
  <2> QED
    BY <2>1, <2>2, <2>3
<1>3. ASSUME SaveType, TargetInv, [Next]_vars
      PROVE  [\A t \in Targets : disk[t] = Theirs => disk'[t] = Theirs]_vars
  BY <1>2, <1>3
<1> QED
  BY <1>1, <1>3, TargetKept, Typed, TypeParts, PTL DEF Spec, UsersFilesKept

-----------------------------------------------------------------------------
(* Quitting, and loading *)

\* Every step keeps a program that quits without a live context.
LEMMA QuitStep ==
  ASSUME QuitCancelsAll, [Next]_vars
  PROVE  QuitCancelsAll'
<1> USE DEF QuitCancelsAll, Started
<1>1. CASE UNCHANGED <<live, quitting>>
  BY <1>1
<1>2. ASSUME NEW f \in Files, Open(f) \/ Extract(f) PROVE QuitCancelsAll'
  BY <1>2 DEF Open, Extract, Pressed
<1>3. ASSUME NEW c \in fetches, NEW fails \in BOOLEAN, NEW text \in BOOLEAN,
             ContentArrives(c, fails, text)
      PROVE  QuitCancelsAll'
  BY <1>3 DEF ContentArrives, endVars
<1>4. ASSUME NEW s \in saves, NEW fails \in BOOLEAN, ExtractArrives(s, fails) PROVE QuitCancelsAll'
  BY <1>4 DEF ExtractArrives, endVars
<1>5. CASE Escape
  BY <1>5 DEF Escape, CloseViewer, Quit
<1>6. CASE QuitKey
  BY <1>6 DEF QuitKey, Quit
<1> QED
  BY <1>1, <1>2, <1>3, <1>4, <1>5, <1>6, CtxSteps DEF CtxStep, vars, endVars

\* Once the user has quit no command has a live context, not one that a late
\* message starts either: a child of a cancelled context is born cancelled.
THEOREM QuitsAll == Spec => []QuitCancelsAll
<1>1. Init => QuitCancelsAll
  BY DEF Init, QuitCancelsAll
<1> QED
  BY <1>1, QuitStep, PTL DEF Spec

\* Every step keeps at most one listener.
LEMMA ListenerStep ==
  ASSUME LoadType, OneListener, [Next]_vars
  PROVE  OneListener'
<1> USE DEF OneListener
<1>1. CASE UNCHANGED <<listeners, ticks, analysis, chan>>
  BY <1>1
<1>2. ASSUME NEW kind \in Events, Emit(kind) PROVE OneListener'
  BY <1>2 DEF Emit
<1>3. CASE AnalysisEnds
  BY <1>3 DEF AnalysisEnds
<1>4. CASE ProgressArrives
  BY <1>4 DEF ProgressArrives, ListenersAfter, LoadType
<1>5. CASE ListenEnds
  BY <1>5 DEF ListenEnds, LoadType
<1>6. CASE TickArrives
  BY <1>6 DEF TickArrives, LoadType
<1>7. ASSUME NEW fails \in BOOLEAN, InspectArrives(fails) \/ AnalysisArrives(fails) PROVE OneListener'
  BY <1>7 DEF InspectArrives, AnalysisArrives
<1> QED
  BY <1>1, <1>2, <1>3, <1>4, <1>5, <1>6, <1>7, LoadSteps DEF LoadStep, vars, loadVars, Events

\* The channel has one listener until it is closed and drained, whatever
\* events it carries and loses, and there is one chain of ticks at most.
THEOREM ListensOnce == Spec => []OneListener
<1>1. Init => listeners = 1 /\ ticks = 1
  BY Zenon DEF Init
<1>2. Init => OneListener
  BY <1>1 DEF OneListener
<1> QED
  BY <1>2, ListenerStep, Typed, TypeParts, PTL DEF Spec

=============================================================================
