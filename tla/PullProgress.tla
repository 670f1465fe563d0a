---------------------------- MODULE PullProgress ----------------------------
(***************************************************************************)
(* What `layerx ci` and `layerx --json` print while an image is analysed:  *)
(* the analysis sends events without ever waiting (emitProgress), the pull *)
(* makes them from the daemon's messages and a table of layers             *)
(* (streamPullProgress), and one goroutine turns them into lines           *)
(* (runProgressLoop), by phase, by tick, and at 100%.                      *)
(*                                                                         *)
(* The analysis is reduced to the events it sends and their order.         *)
(***************************************************************************)
EXTENDS Naturals, Sequences, FiniteSets, FiniteSetsExt

CONSTANTS
    Ids,          \* layers of the image
    Sizes,        \* their sizes, as the daemon tells them
    ChanCap,      \* progressBufferSize
    MaxMessages,  \* bound on the daemon's messages
    MaxWarns      \* bound on the warnings after the export

ASSUME ProgressAssumption ==
    /\ IsFiniteSet(Ids) /\ Sizes \in [Ids -> Nat \ {0}]
    /\ ChanCap \in Nat \ {0} /\ MaxMessages \in Nat /\ MaxWarns \in Nat

VARIABLES
    stage,     \* where the analysis, and then its caller, is
    layers,    \* the pull's table: what is known of the layers named so far
    messages,  \* messages of the daemon so far
    chan,      \* the channel, and whether it is closed
    ctx,       \* "live" or "done"
    loop,      \* runProgressLoop's variables; running: the goroutine is there
    out,       \* history: what stderr shows
    sent       \* history: what the channel took

vars == <<stage, layers, messages, chan, ctx, loop, out, sent>>

Phases == {"unknown", "pulling", "exporting", "parsing", "load", "warn"}
Figures == [curr: Nat, total: Nat, done: Nat, layers: Nat]
Events == [phase: Phases, fig: Figures]
NoFigures == [curr |-> 0, total |-> 0, done |-> 0, layers |-> 0]
None == [phase |-> "unknown", fig |-> NoFigures]

\* hasLast and lastKey: the figures of the last line, or none.
NoLast == {}

Row == [curr: Nat, total: Nat, done: BOOLEAN]

TypeOK ==
    /\ stage \in {"lookup", "resolve", "pull", "export", "parsed", "returned", "stopping", "stopped"}
    /\ DOMAIN layers \subseteq Ids /\ \A id \in DOMAIN layers : layers[id] \in Row
    /\ messages \in 0..MaxMessages
    /\ chan.queue \in Seq(Events) /\ Len(chan.queue) <= ChanCap /\ chan.closed \in BOOLEAN
    /\ ctx \in {"live", "done"}
    /\ loop \in [running: BOOLEAN, phase: Phases, buffered: Events, last: SUBSET Figures]
    /\ out \in [header: Phases, lines: Nat, line: Figures, warned: Nat]
    /\ sent \in [phase: Phases, latest: Events, warns: 0..(MaxWarns + 1)]

Init ==
    /\ stage = "lookup" /\ layers = [id \in {} |-> 0] /\ messages = 0
    /\ chan = [queue |-> <<>>, closed |-> FALSE]
    /\ ctx = "live"
    /\ loop = [running |-> TRUE, phase |-> "unknown", buffered |-> None, last |-> NoLast]
    /\ out = [header |-> "unknown", lines |-> 0, line |-> NoFigures, warned |-> 0]
    /\ sent = [phase |-> "unknown", latest |-> None, warns |-> 0]

-----------------------------------------------------------------------------
(* The analysis *)

Accepts == Len(chan.queue) < ChanCap

\* emitProgress.  The first event of a phase is its header only; `latest` is
\* the last that says more.
Emit(phase, fig) ==
    IF Accepts
    THEN LET ev == [phase |-> phase, fig |-> fig]
         IN /\ chan' = [chan EXCEPT !.queue = Append(@, ev)]
            /\ sent' = [phase |-> phase,
                        latest |-> IF phase = "pulling" /\ sent.phase = "pulling" THEN ev ELSE sent.latest,
                        warns |-> sent.warns + (IF phase = "warn" THEN 1 ELSE 0)]
    ELSE UNCHANGED <<chan, sent>>

Analysis == UNCHANGED <<ctx, loop, out>>

\* loadCacheWithPlatform: a hit ends the work, a failure is worth a warning.
Lookup ==
    /\ stage = "lookup"
    /\ \/ stage' = "resolve" /\ UNCHANGED <<chan, sent>>
       \/ stage' = "resolve" /\ Emit("warn", NoFigures)
       \/ stage' = "returned" /\ Emit("load", NoFigures)
    /\ UNCHANGED <<layers, messages>> /\ Analysis

\* ensureImageWithProgress goes and pulls.
StartPull ==
    /\ stage = "resolve" /\ stage' = "pull"
    /\ Emit("pulling", NoFigures)
    /\ UNCHANGED <<layers, messages>> /\ Analysis

\* The image is local, or the pull is over.
Export ==
    /\ stage \in {"resolve", "pull"} /\ stage' = "export"
    /\ Emit("exporting", NoFigures)
    /\ UNCHANGED <<layers, messages>> /\ Analysis

\* After ImageSave, or at once for an archive.
Parse ==
    /\ stage \in {"resolve", "export"} /\ stage' = "parsed"
    /\ Emit("parsing", NoFigures)
    /\ UNCHANGED <<layers, messages>> /\ Analysis

\* emitCacheWarn on the way to and in the save.
Warn ==
    /\ stage = "parsed" /\ UNCHANGED stage
    /\ sent.warns < MaxWarns
    /\ Emit("warn", NoFigures)
    /\ UNCHANGED <<layers, messages>> /\ Analysis

\* Success, an error at any point (in the stream or in band, too), or the
\* error of a context that is done.
Return ==
    /\ stage \in {"resolve", "pull", "export", "parsed"} /\ stage' = "returned"
    /\ UNCHANGED <<layers, messages, chan, sent>> /\ Analysis

\* The user interrupts.
Interrupt ==
    /\ ctx = "live" /\ ctx' = "done" /\ stage # "stopped"
    /\ UNCHANGED <<stage, layers, messages, chan, loop, out, sent>>

-----------------------------------------------------------------------------
(* streamPullProgress *)

NewRow == [curr |-> 0, total |-> 0, done |-> FALSE]
RowOf(id) == IF id \in DOMAIN layers THEN layers[id] ELSE NewRow

\* "Downloading", with the bytes so far; a retry may start over, of a layer
\* that was done as well.
Downloading(id) ==
    {[RowOf(id) EXCEPT !.curr = n, !.total = Sizes[id]] : n \in 0..Sizes[id]}

\* "Download complete" and "Pull complete".
Complete(id) ==
    [RowOf(id) EXCEPT !.done = TRUE, !.curr = IF RowOf(id).total > 0 THEN RowOf(id).total ELSE @]

\* Any other status of a layer, and "Downloading" without figures.
Mentioned(id) == RowOf(id)

FiguresOf(table) ==
    [curr   |-> MapThenSumSet(LAMBDA id : table[id].curr, DOMAIN table),
     total  |-> MapThenSumSet(LAMBDA id : table[id].total, DOMAIN table),
     done   |-> Cardinality({id \in DOMAIN table : table[id].done}),
     layers |-> Cardinality(DOMAIN table)]

\* One message about a layer.
Message(id) ==
    /\ stage = "pull" /\ messages < MaxMessages /\ messages' = messages + 1
    /\ \E row \in {Complete(id), Mentioned(id)} \cup Downloading(id) :
          layers' = [i \in DOMAIN layers \cup {id} |-> IF i = id THEN row ELSE layers[i]]
    /\ Emit("pulling", FiguresOf(layers'))
    /\ UNCHANGED stage /\ Analysis

-----------------------------------------------------------------------------
(* runProgressLoop *)

\* writeHeartbeat has something to say.
Speaks(fig) == fig.total > 0 \/ (fig.layers > 0 /\ (fig.done > 0 \/ fig.layers > 1))

\* Mutant: what tells two lines apart leaves out the bytes so far.
KeyWithoutBytes(ev) == [ev.fig EXCEPT !.curr = 0]

\* progressKeyOf
Key(ev) == ev.fig

\* flush: on to the screen, unless the last line was of the same figures.
Flush(state) ==
    LET ev == state.loop.buffered
    IN IF ev = None THEN state
       ELSE [loop |-> [state.loop EXCEPT !.buffered = None, !.last = {Key(ev)}],
             out  |-> IF state.loop.last # {Key(ev)} /\ Speaks(ev.fig)
                      THEN [state.out EXCEPT !.lines = @ + 1, !.line = ev.fig]
                      ELSE state.out]

Now == [loop |-> loop, out |-> out]
Becomes(state) == loop' = state.loop /\ out' = state.out

\* writePhase
Header(state, phase) ==
    [loop |-> [state.loop EXCEPT !.phase = phase, !.last = NoLast],
     out  |-> [state.out EXCEPT !.header = phase, !.warned = @ + (IF phase = "warn" THEN 1 ELSE 0)]]

\* Mutant: the old phase's line waits for the next tick.
NewPhaseUnflushed(ev) == Header(Now, ev.phase)

\* The phase changes: what is buffered of the old one comes first, and of the
\* event itself nothing is kept.
NewPhase(ev) == Header(Flush(Now), ev.phase)

\* Mutant: a warning after a warning is an event like others.
AnotherWarningHeld == Now

\* Warnings print at once, however many.
AnotherWarning == [Now EXCEPT !.out.warned = @ + 1]

Buffered(ev) == [Now EXCEPT !.loop.buffered = ev]

Complete100(fig) == fig.total > 0 /\ fig.curr >= fig.total

Receive ==
    /\ loop.running /\ chan.queue # <<>>
    /\ chan' = [chan EXCEPT !.queue = Tail(@)]
    /\ LET ev == Head(chan.queue)
       IN \/ ev.phase # loop.phase /\ Becomes(NewPhase(ev))
          \/ ev.phase = loop.phase /\ ev.phase = "warn" /\ Becomes(AnotherWarning)
          \/ /\ ev.phase = loop.phase /\ ev.phase \in {"pulling", "exporting"}
             /\ Becomes(IF ev.phase = "pulling" /\ Complete100(ev.fig)
                        THEN Flush(Buffered(ev)) ELSE Buffered(ev))
          \/ /\ ev.phase = loop.phase /\ ev.phase \notin {"warn", "pulling", "exporting"}
             /\ UNCHANGED <<loop, out>>
    /\ UNCHANGED <<stage, layers, messages, ctx, sent>>

Tick ==
    /\ loop.running /\ Becomes(Flush(Now))
    /\ UNCHANGED <<stage, layers, messages, chan, ctx, sent>>

\* Mutant: the loop flushes and goes on.
LeavesNever(state) == state

Leaves(state) == [loop |-> [state.loop EXCEPT !.running = FALSE], out |-> state.out]

\* The channel is closed and empty.
Drained ==
    /\ loop.running /\ chan.queue = <<>> /\ chan.closed
    /\ Becomes(Leaves(Flush(Now)))
    /\ UNCHANGED <<stage, layers, messages, chan, ctx, sent>>

\* ctx.Done: whatever is still in the channel is not looked at.
Cancelled ==
    /\ loop.running /\ ctx = "done"
    /\ Becomes(Leaves(Now))
    /\ UNCHANGED <<stage, layers, messages, chan, ctx, sent>>

\* stop: close, then wait for the goroutine.
Stop ==
    /\ stage = "returned" /\ stage' = "stopping"
    /\ chan' = [chan EXCEPT !.closed = TRUE]
    /\ UNCHANGED <<layers, messages, ctx, loop, out, sent>>

Stopped ==
    /\ stage = "stopping" /\ ~loop.running /\ stage' = "stopped"
    /\ UNCHANGED <<layers, messages, chan, ctx, loop, out, sent>>

-----------------------------------------------------------------------------
Resolve == Lookup \/ StartPull \/ Export \/ Parse \/ Warn \/ Return \/ (\E id \in Ids : Message(id))
Printer == Receive \/ Tick \/ Drained \/ Cancelled

Next == Resolve \/ Interrupt \/ Printer \/ Stop \/ Stopped

Spec == Init /\ [][Next]_vars

\* The goroutine and the caller of stop run; the analysis may take for ever.
FairSpec == Spec /\ WF_vars(Printer) /\ WF_vars(Stop \/ Stopped)

-----------------------------------------------------------------------------
(* Properties *)

\* A line about the pull stands under the header of the pull, never below
\* "exporting layers" or a warning, however late the tick that prints it: the
\* buffer is emptied before every header, and no event outlives its phase.
LinesUnderHeader == [][out'.lines # out.lines => out.header = "pulling"]_vars

\* Throttling and deduplication lose nothing that counts: when the goroutine
\* has drained the channel, the last line is about the last event of the pull
\* that the channel took (the first of a phase is its header).
LastWordShown ==
    stage = "stopped" /\ ctx = "live" /\ Speaks(sent.latest.fig) => out.line = sent.latest.fig

\* Every warning the channel took is printed, once ("CacheWarn always prints
\* immediately").
WarningsTold ==
    /\ out.warned <= sent.warns
    /\ stage = "stopped" /\ ctx = "live" => out.warned = sent.warns

\* stop returns, however full the channel is and whoever was cancelled: a
\* command never hangs on its progress output.
StopReturns == stage = "stopping" ~> stage = "stopped"

=============================================================================
