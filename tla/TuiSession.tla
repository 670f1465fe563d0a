----------------------------- MODULE TuiSession -----------------------------
(***************************************************************************)
(* One session of the terminal UI: model.Update and the commands it        *)
(* starts.  Update runs alone, one message at a time; a command runs in a  *)
(* goroutine of its own and ends by sending one message, so messages of    *)
(* different commands arrive in any order and late.                        *)
(*                                                                         *)
(* What is shown is reduced to what the session is in the middle of:       *)
(* cursors, scrolling, columns, the clipboard and the pages of the waste   *)
(* overlay are left out, and the file under the cursor is any file.  All   *)
(* files have one base name, the case in which two saves want one target.  *)
(***************************************************************************)
EXTENDS Integers, Sequences, FiniteSets

CONSTANTS
    Files,         \* regular files the cursor can be on
    NoFile,        \* nothing
    Theirs,        \* content of a file the user already had
    Targets,       \* 0 is the base name, k is the k-th numbered variant
    ChanCap,       \* capacity of progressCh
    MaxInputs      \* bound: keys pressed and events of the analysis, together

ASSUME TuiAssumption ==
    /\ NoFile \notin Files \cup {Theirs} /\ Theirs \notin Files
    /\ IsFiniteSet(Targets) /\ Targets = 0..(Cardinality(Targets) - 1) /\ 0 \in Targets
    /\ ChanCap \in Nat \ {0}
    /\ MaxInputs \in Nat

VARIABLES
    state,      \* appState
    inspect,    \* fetchInspect is running
    analysis,   \* the analysis goroutine: running, closed the channel, reported
    chan,       \* progressCh
    listeners,  \* listenForProgress commands
    ticks,      \* spinnerTick commands
    view,       \* viewState, viewRequestID, what is shown and how it is coloured
    fetches,    \* fetchFileContent commands
    lights,     \* highlightFileCmd commands
    saveReq,    \* saveRequestID
    saves,      \* fetchFileRaw and saveFileCmd commands
    viewerCancel, saveCancel,  \* the contexts these fields cancel
    live,       \* contexts that are not cancelled
    disk, temps,               \* the working directory
    status,     \* statusMsg, statusIsError, and a clearStatusMsg of its generation is due
    overlay,    \* showHelp, filterActive, showWaste, viewSearchActive, queries
    inputs,     \* keys and events so far
    quitting    \* cancelInflight and tea.Quit

loadVars == <<state, inspect, analysis, chan, listeners, ticks>>
viewVars == <<view, fetches, lights, viewerCancel>>
saveVars == <<saveReq, saves, saveCancel, disk, temps>>
endVars  == <<inputs, quitting>>
vars == <<loadVars, viewVars, saveVars, status, overlay, live, endVars>>

Fetch == <<"fetch", 0>>
ViewCtx(n) == <<"view", n>>
ExtractCtx(n) == <<"extract", n>>
WriteCtx(n) == <<"write", n>>
NoCtx == <<"none", 0>>
Contexts == {"fetch", "view", "extract", "write", "none"} \X Nat

Flags == {"help", "filter", "query", "waste", "search", "found"}
Events == {"warn", "phase"}
SavePhases == {"extract", "probe", "check", "create", "write", "failed", "saved"}

TypeOK ==
    /\ state \in {"loading", "ready", "error"} /\ inspect \in BOOLEAN
    /\ analysis \in {"running", "closed", "reported"}
    /\ chan \in Seq(Events) /\ Len(chan) <= ChanCap
    /\ listeners \in Nat /\ ticks \in Nat
    /\ view \in [state: {"none", "loading", "ready"}, req: Nat, file: Files \cup {NoFile},
                 lit: Files \cup {NoFile}, wanted: Files \cup {NoFile}]
    /\ fetches \subseteq [req: Nat, file: Files] /\ lights \subseteq [req: Nat, file: Files]
    /\ saves \subseteq [req: Nat, file: Files, at: SavePhases, to: Nat] /\ saveReq \in Nat
    /\ viewerCancel \in Contexts /\ saveCancel \in Contexts /\ live \subseteq Contexts
    /\ disk \in [Targets -> Files \cup {NoFile, Theirs}] /\ temps \subseteq Nat
    /\ status \in [text: {"", "error", "note", "extracting"}, error: BOOLEAN, timed: BOOLEAN]
    /\ overlay \subseteq Flags
    /\ quitting \in BOOLEAN /\ inputs \in 0..MaxInputs

\* NewModel and Init: the batch of four commands.
Init ==
    /\ state = "loading" /\ inspect = TRUE /\ analysis = "running"
    /\ chan = <<>> /\ listeners = 1 /\ ticks = 1
    /\ view = [state |-> "none", req |-> 0, file |-> NoFile, lit |-> NoFile, wanted |-> NoFile]
    /\ fetches = {} /\ lights = {} /\ viewerCancel = NoCtx
    /\ saveReq = 0 /\ saves = {} /\ saveCancel = NoCtx
    /\ disk \in {[t \in Targets |-> IF t < n THEN Theirs ELSE NoFile] : n \in 0..Cardinality(Targets)}
    /\ temps = {}
    /\ live = {Fetch}
    /\ status = [text |-> "", error |-> FALSE, timed |-> FALSE]
    /\ overlay = {} /\ quitting = FALSE /\ inputs = 0

-----------------------------------------------------------------------------
(* Helpers of Update *)

\* setStatus or setErrorStatus: a new statusGen, to which the clears that are
\* due already do not belong.
Shows(text, isError) == status' = [text |-> text, error |-> isError, timed |-> FALSE]

\* The same, then scheduleStatusClear.
Says(text, isError) == status' = [text |-> text, error |-> isError, timed |-> TRUE]

\* Mutant: a context of its own, out of reach of fetchCancel.
StartedDetached(c) == live \cup {c}

\* context.WithCancel(m.fetchCtx): a child of a cancelled context is
\* cancelled from the start.
Started(c) == IF Fetch \in live THEN live \cup {c} ELSE live

\* Mutant: every answer is taken for the one waited for.
ViewCurrentAny(c) == TRUE

\* The gates of fileContentMsg and highlightedMsg, of fileSaveMsg and
\* fileSavedMsg.
ViewCurrent(c) == c.req = view.req

SaveCurrent(s) == s.req = saveReq

-----------------------------------------------------------------------------
(* Loading *)

\* emitProgress: an event that finds the channel full is lost.
Accepts == Len(chan) < ChanCap

Emit(kind) ==
    /\ analysis = "running" /\ inputs < MaxInputs /\ inputs' = inputs + 1
    /\ chan' = IF Accepts THEN Append(chan, kind) ELSE chan
    /\ UNCHANGED <<state, inspect, analysis, listeners, ticks, viewVars, saveVars, status,
                   overlay, live, quitting>>

\* defer close(progressCh)
AnalysisEnds ==
    /\ analysis = "running" /\ analysis' = "closed"
    /\ UNCHANGED <<state, inspect, chan, listeners, ticks, viewVars, saveVars, status,
                   overlay, live, endVars>>

\* Mutant: no new listener after a warning.
ListenersAfterNone == listeners - 1

\* The handler of progressMsg listens again.
ListenersAfter == listeners

\* progressMsg: a warning is told, any other event is the phase shown.
ProgressArrives ==
    /\ listeners > 0 /\ chan # <<>>
    /\ chan' = Tail(chan)
    /\ \/ Head(chan) = "warn" /\ Says("note", FALSE) /\ listeners' = ListenersAfter
       \/ Head(chan) = "phase" /\ UNCHANGED <<listeners, status>>
    /\ UNCHANGED <<state, inspect, analysis, ticks, viewVars, saveVars, overlay, live, endVars>>

\* The listener finds the channel closed and sends nothing.
ListenEnds ==
    /\ listeners > 0 /\ chan = <<>> /\ analysis # "running"
    /\ listeners' = listeners - 1
    /\ UNCHANGED <<state, inspect, analysis, chan, ticks, viewVars, saveVars, status,
                   overlay, live, endVars>>

\* Mutant: the failure is shown whatever came first.
InspectTellsAlways == TRUE

\* inspectMsg: a failure is worth a message only while nothing else is known.
InspectTells == state = "loading"

InspectArrives(fails) ==
    /\ inspect /\ inspect' = FALSE
    /\ IF fails /\ InspectTells
       THEN Shows("error", TRUE)
       ELSE UNCHANGED status
    /\ UNCHANGED <<state, analysis, chan, listeners, ticks, viewVars, saveVars, overlay,
                   live, endVars>>

\* analysisMsg: an error message of the loading phase goes.
AnalysisArrives(fails) ==
    /\ analysis = "closed" /\ analysis' = "reported"
    /\ state' = IF fails THEN "error" ELSE "ready"
    /\ status' = IF ~fails /\ status.error THEN [status EXCEPT !.text = "", !.error = FALSE] ELSE status
    /\ UNCHANGED <<inspect, chan, listeners, ticks, viewVars, saveVars, overlay,
                   live, endVars>>

\* spinnerTickMsg: the chain of ticks goes on or ends here.
TickArrives ==
    /\ ticks > 0
    /\ ticks' = IF state = "loading" \/ view.state = "loading" THEN ticks ELSE ticks - 1
    /\ UNCHANGED <<state, inspect, analysis, chan, listeners, viewVars, saveVars, status,
                   overlay, live, endVars>>

\* clearStatusMsg of the message on display; one of an earlier generation
\* does nothing.
TimerFires ==
    /\ status.timed
    /\ status' = [text |-> "", error |-> FALSE, timed |-> FALSE]
    /\ UNCHANGED <<loadVars, viewVars, saveVars, overlay, live, endVars>>

-----------------------------------------------------------------------------
(* The viewer *)

\* Keys reach the tree only when nothing is over it.
TreeHasKeys == state = "ready" /\ overlay \cap {"help", "filter", "waste"} = {} /\ view.state = "none"

\* A key, and one that does not quit.
Press == inputs < MaxInputs /\ inputs' = inputs + 1
Pressed == Press /\ UNCHANGED quitting

\* tryOpenSelectedFile
Open(f) ==
    /\ Pressed /\ TreeHasKeys
    /\ view' = [view EXCEPT !.state = "loading", !.req = @ + 1, !.wanted = f]
    /\ viewerCancel' = ViewCtx(view.req + 1)
    /\ live' = Started(ViewCtx(view.req + 1)) \ {viewerCancel}
    /\ fetches' = fetches \cup {[req |-> view.req + 1, file |-> f]}
    /\ UNCHANGED <<lights, loadVars, saveVars, status, overlay>>

\* fileContentMsg, with the content of c.file or an error (which is all a
\* cancelled fetch has to give, unless it had already finished).
ContentArrives(c, fails, text) ==
    /\ c \in fetches /\ fetches' = fetches \ {c}
    /\ \/ /\ ~ViewCurrent(c)
          /\ UNCHANGED <<view, lights, viewerCancel, live>> /\ UNCHANGED status
       \/ /\ ViewCurrent(c)
          /\ live' = live \ {viewerCancel} /\ viewerCancel' = NoCtx
          /\ \/ /\ fails
                /\ view' = [view EXCEPT !.state = "none"]
                /\ Says("error", TRUE) /\ UNCHANGED lights
             \/ /\ ~fails
                /\ view' = [view EXCEPT !.state = "ready", !.file = c.file, !.lit = NoFile]
                /\ lights' = IF text THEN lights \cup {c} ELSE lights
                /\ UNCHANGED status
    /\ UNCHANGED <<loadVars, saveVars, overlay, endVars>>

\* highlightedMsg
HighlightArrives(c) ==
    /\ c \in lights /\ lights' = lights \ {c}
    /\ view' = IF ViewCurrent(c) THEN [view EXCEPT !.lit = c.file] ELSE view
    /\ UNCHANGED <<fetches, viewerCancel, loadVars, saveVars, status, overlay, live, endVars>>

\* Esc in the viewer, once the search is dismissed.
CloseViewer ==
    /\ view' = [view EXCEPT !.state = "none", !.file = NoFile, !.lit = NoFile, !.wanted = NoFile, !.req = @ + 1]
    /\ live' = live \ {viewerCancel} /\ viewerCancel' = NoCtx
    /\ UNCHANGED <<fetches, lights>>

-----------------------------------------------------------------------------
(* Saving *)

\* The x key on a file.
Extract(f) ==
    /\ Pressed /\ TreeHasKeys
    /\ saveReq' = saveReq + 1
    /\ saveCancel' = ExtractCtx(saveReq + 1)
    /\ live' = Started(ExtractCtx(saveReq + 1)) \ {saveCancel}
    /\ saves' = saves \cup {[req |-> saveReq + 1, file |-> f, at |-> "extract", to |-> 0]}
    /\ Shows("extracting", FALSE)
    /\ UNCHANGED <<disk, temps, loadVars, viewVars, overlay>>

\* fileSaveMsg: on to saveFileCmd, under a context of its own.
ExtractArrives(s, fails) ==
    /\ s \in saves /\ s.at = "extract"
    /\ \/ /\ ~SaveCurrent(s)
          /\ saves' = saves \ {s}
          /\ UNCHANGED <<saveCancel, live>> /\ UNCHANGED status
       \/ /\ SaveCurrent(s) /\ fails
          /\ saves' = saves \ {s}
          /\ saveCancel' = NoCtx /\ live' = live \ {saveCancel}
          /\ Says("error", TRUE)
       \/ /\ SaveCurrent(s) /\ ~fails
          /\ saves' = (saves \ {s}) \cup {[s EXCEPT !.at = "probe"]}
          /\ saveCancel' = WriteCtx(s.req)
          /\ live' = Started(WriteCtx(s.req)) \ {saveCancel}
          /\ UNCHANGED status
    /\ UNCHANGED <<saveReq, disk, temps, loadVars, viewVars, overlay, endVars>>

Moves(s, at) == saves' = (saves \ {s}) \cup {[s EXCEPT !.at = at]}
InGoroutine == UNCHANGED <<saveReq, saveCancel, live, loadVars, viewVars, status, overlay, endVars>>

LastTarget == Cardinality(Targets) - 1

\* Mutant: the last candidate is used for want of a better one.
FreeOrLast(t) == disk[t] = NoFile \/ t = LastTarget

\* os.Lstat says that there is nothing.
FreeTarget(t) == disk[t] = NoFile

\* uniquePath, one candidate; the context is asked before every candidate
\* but the base name itself.
Probe(s) ==
    /\ s \in saves /\ s.at = "probe"
    /\ CASE s.to > 0 /\ WriteCtx(s.req) \notin live -> Moves(s, "failed")
         [] FreeTarget(s.to) -> Moves(s, "check")
         [] ~FreeTarget(s.to) /\ s.to = LastTarget -> Moves(s, "failed")
         [] OTHER -> saves' = (saves \ {s}) \cup {[s EXCEPT !.to = @ + 1]}
    /\ UNCHANGED <<disk, temps>> /\ InGoroutine

\* saveFileCmd's last look at the context.
Check(s) ==
    /\ s \in saves /\ s.at = "check"
    /\ Moves(s, IF WriteCtx(s.req) \in live THEN "create" ELSE "failed")
    /\ UNCHANGED <<disk, temps>> /\ InGoroutine

\* atomicWriteFile: the temp file.  It fails, too, if the target cannot be
\* resolved or has become a link that leads nowhere; nothing is made by then.
CreateTemp(s, fails) ==
    /\ s \in saves /\ s.at = "create"
    /\ IF fails THEN Moves(s, "failed") /\ UNCHANGED temps
                ELSE Moves(s, "write") /\ temps' = temps \cup {s.req}
    /\ UNCHANGED disk /\ InGoroutine

\* Mutant: the temp file of a failed write stays.
CleanupNot(s) == temps

\* cleanup
Cleanup(s) == temps \ {s.req}

\* Write, Chmod, Sync, Close, and Rename; the first that fails cleans up, and
\* as only the rename shows, they are one step that comes at any time.
WriteFile(s, fails) ==
    /\ s \in saves /\ s.at = "write"
    /\ IF fails THEN Moves(s, "failed") /\ temps' = Cleanup(s) /\ UNCHANGED disk
                ELSE Moves(s, "saved") /\ temps' = temps \ {s.req} /\ disk' = [disk EXCEPT ![s.to] = s.file]
    /\ InGoroutine

\* fileSavedMsg
SavedArrives(s) ==
    /\ s \in saves /\ s.at \in {"saved", "failed"}
    /\ saves' = saves \ {s}
    /\ IF SaveCurrent(s) THEN Says(IF s.at = "saved" THEN "note" ELSE "error", s.at = "failed") ELSE UNCHANGED status
    /\ UNCHANGED <<saveReq, saveCancel, disk, temps, live, loadVars, viewVars, overlay, endVars>>

-----------------------------------------------------------------------------
(* Other keys *)

OnlyOverlay == UNCHANGED <<loadVars, viewVars, saveVars, status, live>>

\* Enter on a directory, Enter or x on a removed file: a message.
Refuse ==
    /\ Pressed /\ TreeHasKeys
    /\ Says("note", FALSE) \/ Says("error", TRUE)
    /\ UNCHANGED <<loadVars, viewVars, saveVars, overlay, live>>

Waste == Pressed /\ TreeHasKeys /\ overlay' = overlay \cup {"waste"} /\ OnlyOverlay

\* wasteJump: to the layer that stored the file.
WasteJump ==
    /\ Pressed /\ "waste" \in overlay /\ "help" \notin overlay /\ state = "ready"
    /\ overlay' = overlay \ {"waste", "query"}
    /\ Says("note", FALSE)
    /\ UNCHANGED <<loadVars, viewVars, saveVars, live>>

Filter == Pressed /\ TreeHasKeys /\ overlay' = overlay \cup {"filter"} /\ OnlyOverlay

\* handleFilterInput: a character, Enter, and Backspace down to nothing.
FilterInput ==
    /\ Pressed /\ "filter" \in overlay /\ "help" \notin overlay
    /\ overlay' \in {overlay \cup {"query"}, overlay \ {"filter"}, overlay \ {"query"}}
    /\ OnlyOverlay

\* Backspace on the tree.
DropQuery == Pressed /\ TreeHasKeys /\ overlay' = overlay \ {"query"} /\ OnlyOverlay

Help ==
    /\ Pressed
    /\ \/ "help" \in overlay /\ overlay' = overlay \ {"help"}
       \/ /\ state = "ready" /\ overlay \cap {"help", "filter", "waste"} = {}
          /\ overlay' = overlay \cup {"help"}
    /\ OnlyOverlay

Search ==
    /\ Pressed /\ view.state = "ready" /\ overlay \cap {"help", "search"} = {}
    /\ overlay' = overlay \cup {"search"} /\ OnlyOverlay

\* handleViewerSearchInput
SearchInput ==
    /\ Pressed /\ view.state = "ready" /\ "search" \in overlay /\ "help" \notin overlay
    /\ overlay' \in {overlay \cup {"found"}, overlay \ {"search"}, overlay \ {"found"}}
    /\ OnlyOverlay

Quit == quitting' = TRUE /\ live' = {}

\* Esc: what it dismisses first, and that it ends the program only while
\* there is nothing to work with.
Escape ==
    /\ Press
    /\ UNCHANGED <<loadVars, saveVars, status>>
    /\ CASE "help" \in overlay ->
              overlay' = overlay \ {"help"} /\ UNCHANGED <<viewVars, live, quitting>>
         [] "help" \notin overlay /\ view.state # "none" /\ overlay \cap {"search", "found"} # {} ->
              overlay' = overlay \ {"search", "found"} /\ UNCHANGED <<viewVars, live, quitting>>
         [] "help" \notin overlay /\ view.state # "none" /\ overlay \cap {"search", "found"} = {} ->
              CloseViewer /\ UNCHANGED <<overlay, quitting>>
         [] overlay \cap {"help", "waste"} = {"waste"} /\ view.state = "none" ->
              overlay' = overlay \ {"waste"} /\ UNCHANGED <<viewVars, live, quitting>>
         [] overlay \cap {"help", "waste"} = {} /\ overlay \cap {"filter", "query"} # {} /\ view.state = "none" ->
              overlay' = overlay \ {"filter", "query"} /\ UNCHANGED <<viewVars, live, quitting>>
         [] OTHER ->
              /\ state # "ready" /\ Quit
              /\ UNCHANGED <<overlay, viewVars>>

\* q, unless it is text, and ctrl+c.  The program exits some time later, which
\* only cuts a behaviour short: what happens before is not told apart.
QuitKey ==
    /\ ~quitting /\ Quit
    /\ UNCHANGED <<inputs, overlay, viewVars, loadVars, saveVars, status>>

-----------------------------------------------------------------------------
Commands ==
    \/ \E kind \in {"warn", "phase"} : Emit(kind)
    \/ AnalysisEnds \/ ProgressArrives \/ ListenEnds \/ TickArrives \/ TimerFires
    \/ \E fails \in BOOLEAN : InspectArrives(fails) \/ AnalysisArrives(fails)
    \/ \E c \in fetches, fails, text \in BOOLEAN : ContentArrives(c, fails, text)
    \/ \E c \in lights : HighlightArrives(c)
    \/ \E s \in saves, fails \in BOOLEAN :
          ExtractArrives(s, fails) \/ CreateTemp(s, fails) \/ WriteFile(s, fails)
    \/ \E s \in saves : Probe(s) \/ Check(s) \/ SavedArrives(s)

Keys ==
    \/ \E f \in Files : Open(f) \/ Extract(f)
    \/ Refuse \/ Waste \/ WasteJump \/ Filter \/ FilterInput \/ DropQuery \/ Help
    \/ Search \/ SearchInput \/ Escape \/ QuitKey

Next == Commands \/ Keys

Spec == Init /\ [][Next]_vars

\* Every command ends: the daemon answers or fails, timers fire, the disk
\* writes.  Nothing is assumed of the keys.
FairSpec == Spec /\ WF_vars(Commands)

-----------------------------------------------------------------------------
(* Properties *)

\* The viewer shows the file opened last, in that file's colours, whatever
\* order the answers to earlier requests arrive in.
ViewerShowsRequested ==
    /\ view.state = "ready" => view.file = view.wanted
    /\ view.lit # NoFile => view.lit = view.file

\* There is one listener until the channel is closed and drained (none: the
\* progress stops; two: events change places), and never two chains of ticks.
OneListener ==
    /\ listeners <= 1 /\ ticks <= 1
    /\ listeners = 0 => analysis # "running" /\ chan = <<>>

\* While the program runs, every temp file belongs to a save that is writing.
NoTempLeaks == temps = {s.req : s \in {t \in saves : t.at = "write"}}

\* "the quit-cancels-everything contract" (cancelInflight): once the user has
\* quit, no command runs under a live context, not even one started by a
\* message that came in after the key.
QuitCancelsAll == quitting => live = {}

\* A save replaces no file the user had before.
UsersFilesKept == [][\A t \in Targets : disk[t] = Theirs => disk'[t] = Theirs]_vars

\* In a session that goes on no message stays for good: not "Extracting...",
\* whichever request is answered, and no warning or failure.
StatusSettles ==
    (state = "ready" /\ status.text # "") ~> (status.text = "" \/ quitting)

\* "uniquePath's pre-probe handles the user-visible 'don't overwrite' intent"
\* (atomicWriteFile): no save replaces a file that is there, an earlier save's
\* neither.
NoOverwrite == [][\A t \in Targets : disk[t] # NoFile => disk'[t] = disk[t]]_vars

=============================================================================
