------------------------- MODULE PullProgressProofs -------------------------
(* Theorems about PullProgress, for any layers, sizes, channel and bounds.   *)
(* The invariants never ask what the figures of a message add up to, only    *)
(* which events carry any and where the last of them is.                     *)
EXTENDS PullProgress, FiniteSetTheorems, TLAPS

\* The channel holds a sequence, of whatever events.
IsSequence(q) == \E S : q \in Seq(S)

\* How many of the queued events are warnings.
WarningAt(q) == {i \in 1..Len(q) : q[i].phase = "warn"}
Warnings(q)  == Cardinality(WarningAt(q))

\* Pairs of the loop's variables and the screen, as Flush takes and gives them,
\* over whatever phases, events and figures there are in U.
States(U) == [loop : [running: BOOLEAN, phase: U, buffered: U, last: U],
              out  : [header: U, lines: U, line: U, warned: Nat]]
IsState(s) == \E U : s \in States(U)

Shape ==
    /\ IsState(Now)
    /\ \E q, c : chan = [queue |-> q, closed |-> c] /\ IsSequence(q)
    /\ \E p, e, w : sent = [phase |-> p, latest |-> e, warns |-> w] /\ w \in Nat

\* An event of any phase but the pull's says nothing but its phase.
Silent(ev) == ev.phase # "pulling" => ev.fig = NoFigures

\* The screen's last header is the phase the goroutine is in, and what it has
\* buffered is of that phase.
InPhase ==
    /\ loop.phase = out.header
    /\ loop.buffered # None => loop.buffered.phase = loop.phase
    /\ Silent(loop.buffered)
    /\ \A i \in 1..Len(chan.queue) : Silent(chan.queue[i])

\* No warning is lost on the way, and the goroutine leaves none behind unless
\* it was cancelled; after that nobody sends any more.
AllTold ==
    /\ out.warned + Warnings(chan.queue) = sent.warns
    /\ ~loop.running /\ ctx = "live" => chan.queue = <<>> /\ chan.closed
    /\ chan.closed => stage \in {"stopping", "stopped"}
    /\ stage = "stopped" => ~loop.running

Inv == Shape /\ InPhase /\ AllTold

-----------------------------------------------------------------------------
(* The queue *)

\* The warnings of a queue can be counted.
LEMMA WarningsFinite ==
  ASSUME NEW q, IsSequence(q)
  PROVE  IsFiniteSet(WarningAt(q)) /\ Warnings(q) \in Nat
<1>1. Len(q) \in Nat
  BY DEF IsSequence
<1>2. IsFiniteSet(1..Len(q))
  BY <1>1, FS_Interval
<1>3. IsFiniteSet(WarningAt(q))
  BY <1>2, FS_Subset DEF WarningAt
<1> QED
  BY <1>3, FS_CardinalityType DEF Warnings

\* An event that comes counts when it warns.
LEMMA WarningsOfAppend ==
  ASSUME NEW q, IsSequence(q), NEW ev
  PROVE  /\ IsSequence(Append(q, ev))
         /\ Warnings(Append(q, ev)) = Warnings(q) + (IF ev.phase = "warn" THEN 1 ELSE 0)
         /\ Len(Append(q, ev)) = Len(q) + 1
         /\ \A i \in 1..Len(q) : Append(q, ev)[i] = q[i]
         /\ Append(q, ev)[Len(q) + 1] = ev
<1>1. PICK S : q \in Seq(S)
  BY DEF IsSequence
<1> DEFINE T == S \cup {ev}
           r == Append(q, ev)
<1>2. q \in Seq(T) /\ ev \in T
  BY <1>1
<1>3. /\ r \in Seq(T) /\ Len(q) \in Nat /\ Len(r) = Len(q) + 1
      /\ \A i \in 1..Len(q) : r[i] = q[i]
      /\ r[Len(q) + 1] = ev
  BY <1>2
<1>4. CASE ev.phase = "warn"
  <2>1. WarningAt(r) = WarningAt(q) \cup {Len(q) + 1} /\ Len(q) + 1 \notin WarningAt(q)
    BY <1>3, <1>4 DEF WarningAt
  <2> QED
    BY <1>3, <1>4, <2>1, WarningsFinite, FS_AddElement DEF Warnings, IsSequence
<1>5. CASE ev.phase # "warn"
  <2>1. WarningAt(r) = WarningAt(q)
    BY <1>3, <1>5 DEF WarningAt
  <2> QED
    BY <1>3, <1>5, <2>1, WarningsFinite DEF Warnings, IsSequence
<1> QED
  BY <1>4, <1>5

\* An event that is taken counts no longer.
LEMMA WarningsOfTail ==
  ASSUME NEW q, IsSequence(q), q # <<>>
  PROVE  /\ IsSequence(Tail(q))
         /\ Warnings(q) = Warnings(Tail(q)) + (IF Head(q).phase = "warn" THEN 1 ELSE 0)
         /\ Len(q) \in Nat \ {0} /\ Len(Tail(q)) = Len(q) - 1 /\ Head(q) = q[1]
         /\ \A i \in 1..Len(Tail(q)) : i + 1 \in 1..Len(q) /\ Tail(q)[i] = q[i + 1]
<1>1. PICK S : q \in Seq(S)
  BY DEF IsSequence
<1> DEFINE r == Tail(q)
           Rest == WarningAt(q) \ {1}
<1>2. /\ r \in Seq(S) /\ Len(q) \in Nat \ {0} /\ Len(r) = Len(q) - 1 /\ Head(q) = q[1]
      /\ \A i \in 1..Len(r) : i + 1 \in 1..Len(q) /\ r[i] = q[i + 1]
  BY <1>1
<1>3. IsSequence(r) /\ IsFiniteSet(WarningAt(r)) /\ Warnings(r) \in Nat
      /\ IsFiniteSet(WarningAt(q)) /\ Warnings(q) \in Nat
  BY <1>2, WarningsFinite DEF IsSequence
<1>4. Cardinality(Rest) = Warnings(r)
  <2> DEFINE f == [i \in WarningAt(r) |-> i + 1]
  <2>1. \A i \in WarningAt(r) : i \in Nat /\ i + 1 \in Rest
    BY <1>2 DEF WarningAt
  <2>2. \A j \in Rest : j \in Nat /\ j - 1 \in WarningAt(r) /\ (j - 1) + 1 = j
    BY <1>2 DEF WarningAt
  <2>3. f \in Bijection(WarningAt(r), Rest)
    BY <2>1, <2>2 DEF Bijection, Injection, Surjection, IsInjective
  <2> QED
    BY <1>3, <2>3, FS_Bijection DEF Warnings, ExistsBijection
<1> HIDE DEF Rest
<1>5. ASSUME Head(q).phase = "warn" PROVE Warnings(q) = Warnings(r) + 1
  <2>1. 1 \in WarningAt(q)
    BY <1>2, <1>5 DEF WarningAt
  <2>2. Cardinality(Rest) = Warnings(q) - 1
    BY <1>3, <2>1, FS_RemoveElement DEF Warnings, Rest
  <2> QED
    BY <1>3, <1>4, <2>2
<1>6. ASSUME Head(q).phase # "warn" PROVE Warnings(q) = Warnings(r)
  <2>1. Rest = WarningAt(q)
    BY <1>2, <1>6 DEF WarningAt, Rest
  <2>2. Cardinality(Rest) = Warnings(q)
    BY <2>1 DEF Warnings
  <2> QED
    BY <1>3, <1>4, <2>2
<1> QED
  BY <1>2, <1>3, <1>5, <1>6

-----------------------------------------------------------------------------
(* The goroutine's helpers *)

\* No figures say nothing.
LEMMA SilenceSaysNothing == ~Speaks(NoFigures)
  BY DEF Speaks, NoFigures

\* Flush empties the buffer and adds a line only for figures that speak.
LEMMA FlushTells ==
  ASSUME NEW s, IsState(s)
  PROVE  /\ IsState(Flush(s))
         /\ Flush(s).loop.running = s.loop.running /\ Flush(s).loop.phase = s.loop.phase
         /\ Flush(s).loop.buffered = None
         /\ Flush(s).out.header = s.out.header /\ Flush(s).out.warned = s.out.warned
         /\ Flush(s).out.lines # s.out.lines =>
              s.loop.buffered # None /\ Speaks(s.loop.buffered.fig)
         /\ s.loop.buffered = None => Flush(s) = s
         /\ s.loop.buffered # None =>
              LET fig == s.loop.buffered.fig
              IN /\ Flush(s).loop.last = {fig}
                 /\ Flush(s).out.line = IF s.loop.last # {fig} /\ Speaks(fig) THEN fig ELSE s.out.line
<1>1. PICK U : s \in States(U)
  BY DEF IsState
<1> DEFINE ev == s.loop.buffered
           V  == U \cup {None, {Key(ev)}, s.out.lines + 1, ev.fig}
<1>2. CASE ev = None
  <2>1. Flush(s) = s
    BY <1>2 DEF Flush
  <2> QED
    BY <1>1, <1>2, <2>1
<1>3. CASE ev # None
  <2> DEFINE lp == [s.loop EXCEPT !.buffered = None, !.last = {Key(ev)}]
             sc == [s.out EXCEPT !.lines = @ + 1, !.line = ev.fig]
             speaks == s.loop.last # {Key(ev)} /\ Speaks(ev.fig)
  <2>1. s \in States(V) /\ None \in V /\ {Key(ev)} \in V /\ s.out.lines + 1 \in V /\ ev.fig \in V
    BY <1>1 DEF States
  <2> HIDE DEF V
  <2>2. /\ lp \in [running: BOOLEAN, phase: V, buffered: V, last: V]
        /\ lp.running = s.loop.running /\ lp.phase = s.loop.phase /\ lp.buffered = None
        /\ lp.last = {ev.fig}
    BY <2>1 DEF States, Key
  <2>3. /\ sc \in [header: V, lines: V, line: V, warned: Nat]
        /\ sc.header = s.out.header /\ sc.warned = s.out.warned /\ sc.line = ev.fig
    BY <2>1 DEF States
  <2>4. Flush(s) = [loop |-> lp, out |-> IF speaks THEN sc ELSE s.out]
    BY <1>3, Zenon DEF Flush
  <2> HIDE DEF lp, sc
  <2>5. Flush(s) \in States(V)
    BY <2>1, <2>2, <2>3, <2>4 DEF States
  <2> QED
    BY <1>3, <2>2, <2>3, <2>4, <2>5 DEF IsState, Key
<1> QED
  BY <1>2, <1>3

\* A header opens its phase and keeps the lines.
LEMMA HeaderTells ==
  ASSUME NEW s, IsState(s), NEW phase
  PROVE  LET h == Header(s, phase)
         IN /\ IsState(h)
            /\ h.loop.running = s.loop.running /\ h.loop.phase = phase
            /\ h.loop.buffered = s.loop.buffered
            /\ h.out.header = phase /\ h.out.lines = s.out.lines
            /\ h.out.warned = s.out.warned + (IF phase = "warn" THEN 1 ELSE 0)
            /\ h.loop.last = {} /\ h.out.line = s.out.line
<1>1. PICK U : s \in States(U)
  BY DEF IsState
<1> DEFINE V  == U \cup {NoLast, phase}
           lp == [s.loop EXCEPT !.phase = phase, !.last = NoLast]
           w  == s.out.warned + (IF phase = "warn" THEN 1 ELSE 0)
           sc == [s.out EXCEPT !.header = phase, !.warned = w]
<1>2. s \in States(V) /\ NoLast \in V /\ phase \in V /\ w \in Nat
  BY <1>1 DEF States
<1> HIDE DEF V, w
<1>3. /\ lp \in [running: BOOLEAN, phase: V, buffered: V, last: V]
      /\ lp.running = s.loop.running /\ lp.phase = phase /\ lp.buffered = s.loop.buffered
      /\ lp.last = {}
  BY <1>2 DEF States, NoLast
<1>4. /\ sc \in [header: V, lines: V, line: V, warned: Nat]
      /\ sc.header = phase /\ sc.lines = s.out.lines /\ sc.warned = w /\ sc.line = s.out.line
  BY <1>2 DEF States
<1>5. Header(s, phase) = [loop |-> lp, out |-> sc]
  BY Zenon DEF Header, w
<1> HIDE DEF lp, sc
<1> QED
  BY <1>3, <1>4, <1>5 DEF IsState, States, w

\* Buffering an event prints nothing.
LEMMA BufferedTells ==
  ASSUME IsState(Now), NEW ev
  PROVE  /\ IsState(Buffered(ev))
         /\ Buffered(ev).loop.running = loop.running /\ Buffered(ev).loop.phase = loop.phase
         /\ Buffered(ev).loop.buffered = ev /\ Buffered(ev).out = out
         /\ Buffered(ev).loop.last = loop.last
<1>1. PICK U : Now \in States(U)
  BY DEF IsState
<1> DEFINE V  == U \cup {ev}
           lp == [loop EXCEPT !.buffered = ev]
<1>2. loop \in [running: BOOLEAN, phase: V, buffered: V, last: V]
      /\ out \in [header: V, lines: V, line: V, warned: Nat] /\ ev \in V
  BY <1>1 DEF States, Now
<1>3. Buffered(ev) = [loop |-> lp, out |-> out]
  BY DEF Buffered, Now
<1>4. lp \in [running: BOOLEAN, phase: V, buffered: V, last: V]
      /\ lp.running = loop.running /\ lp.phase = loop.phase /\ lp.buffered = ev
      /\ lp.last = loop.last
  BY <1>2
<1> HIDE DEF V, lp
<1> QED
  BY <1>2, <1>3, <1>4 DEF IsState, States

\* A warning is printed at once.
LEMMA AnotherWarningTells ==
  ASSUME IsState(Now)
  PROVE  /\ IsState(AnotherWarning) /\ AnotherWarning.loop = loop
         /\ AnotherWarning.out.header = out.header /\ AnotherWarning.out.lines = out.lines
         /\ AnotherWarning.out.warned = out.warned + 1 /\ AnotherWarning.out.line = out.line
<1>1. PICK U : Now \in States(U)
  BY DEF IsState
<1>2. loop \in [running: BOOLEAN, phase: U, buffered: U, last: U]
      /\ out \in [header: U, lines: U, line: U, warned: Nat]
  BY <1>1 DEF States, Now
<1> DEFINE sc == [out EXCEPT !.warned = out.warned + 1]
<1>3. AnotherWarning = [loop |-> loop, out |-> sc]
  BY DEF AnotherWarning, Now
<1>4. sc \in [header: U, lines: U, line: U, warned: Nat]
      /\ sc.header = out.header /\ sc.lines = out.lines /\ sc.warned = out.warned + 1
      /\ sc.line = out.line
  BY <1>2
<1> HIDE DEF sc
<1> QED
  BY <1>2, <1>3, <1>4 DEF IsState, States

\* A loop that ends keeps what it printed.
LEMMA LeavesTells ==
  ASSUME NEW s, IsState(s)
  PROVE  /\ IsState(Leaves(s)) /\ Leaves(s).loop.running = FALSE
         /\ Leaves(s).loop.phase = s.loop.phase /\ Leaves(s).loop.buffered = s.loop.buffered
         /\ Leaves(s).loop.last = s.loop.last /\ Leaves(s).out = s.out
<1>1. PICK U : s \in States(U)
  BY DEF IsState
<1> DEFINE lp == [s.loop EXCEPT !.running = FALSE]
<1>2. Leaves(s) = [loop |-> lp, out |-> s.out]
  BY DEF Leaves
<1>3. lp \in [running: BOOLEAN, phase: U, buffered: U, last: U]
      /\ lp.running = FALSE /\ lp.phase = s.loop.phase /\ lp.buffered = s.loop.buffered
      /\ lp.last = s.loop.last
  BY <1>1 DEF States
<1> HIDE DEF lp
<1> QED
  BY <1>1, <1>2, <1>3 DEF IsState, States

-----------------------------------------------------------------------------
(* The invariant *)

\* The first state satisfies the invariant.
LEMMA InitInv == Init => Inv
<1> SUFFICES ASSUME Init PROVE Inv
  OBVIOUS
<1>1. Now \in States(Phases \cup {None, NoLast, 0, NoFigures})
  BY DEF Init, Now, States, Phases, None, NoLast, NoFigures
<1>2. chan.queue = <<>> /\ IsSequence(<<>>) /\ Len(<<>>) = 0
  <2>1. <<>> \in Seq({})
    OBVIOUS
  <2> QED
    BY <2>1 DEF Init, IsSequence
<1>3. Warnings(<<>>) = 0
  <2>1. WarningAt(<<>>) = {}
    BY <1>2 DEF WarningAt
  <2> QED
    BY <2>1, FS_EmptySet DEF Warnings
<1>4. Shape
  BY <1>1, <1>2 DEF Init, Shape, IsState
<1>5. InPhase
  BY <1>2 DEF Init, InPhase, Silent, None
<1>6. AllTold
  BY <1>2, <1>3 DEF Init, AllTold
<1> QED
  BY <1>4, <1>5, <1>6 DEF Inv

\* The analysis sends one event, or fails to, while the channel is open.
LEMMA EmitKeeps ==
  ASSUME Inv, NEW phase, NEW fig, Emit(phase, fig), phase # "pulling" => fig = NoFigures,
         ~chan.closed, stage' # "stopped", UNCHANGED <<ctx, loop, out>>
  PROVE  Inv'
<1>1. CASE ~Accepts
  <2>1. UNCHANGED <<chan, sent>>
    BY <1>1 DEF Emit
  <2> QED
    BY <2>1 DEF Inv, Shape, Now, InPhase, AllTold
<1>2. CASE Accepts
  <2> DEFINE ev == [phase |-> phase, fig |-> fig]
  <2>1. PICK q, c : chan = [queue |-> q, closed |-> c] /\ IsSequence(q)
    BY DEF Inv, Shape
  <2>2. PICK p, e, w : sent = [phase |-> p, latest |-> e, warns |-> w] /\ w \in Nat
    BY DEF Inv, Shape
  <2>3. chan' = [queue |-> Append(q, ev), closed |-> c]
    BY <1>2, <2>1 DEF Emit
  <2>4. /\ \E p2, e2 : sent' = [phase |-> p2, latest |-> e2,
                                warns |-> w + (IF phase = "warn" THEN 1 ELSE 0)]
        /\ w + (IF phase = "warn" THEN 1 ELSE 0) \in Nat
    BY <1>2, <2>2 DEF Emit
  <2>5. /\ IsSequence(Append(q, ev))
        /\ Warnings(Append(q, ev)) = Warnings(q) + (IF phase = "warn" THEN 1 ELSE 0)
        /\ Len(Append(q, ev)) = Len(q) + 1
        /\ \A i \in 1..Len(q) : Append(q, ev)[i] = q[i]
        /\ Append(q, ev)[Len(q) + 1] = ev
    BY <2>1, WarningsOfAppend
  <2>6. Shape'
    BY <2>3, <2>4, <2>5 DEF Inv, Shape, Now
  <2>7. InPhase'
    <3>1. Silent(ev)
      BY DEF Silent
    <3>2. Len(q) \in Nat
      BY <2>1 DEF IsSequence
    <3>3. \A i \in 1..Len(Append(q, ev)) : Silent(Append(q, ev)[i])
      BY <2>1, <2>5, <3>1, <3>2 DEF Inv, InPhase
    <3> QED
      BY <2>3, <3>3 DEF Inv, InPhase
  <2>8. AllTold'
    <3>1. Warnings(q) \in Nat /\ out.warned \in Nat
      BY <2>1, WarningsFinite DEF Inv, Shape, IsState, States, Now
    <3>2. out.warned + Warnings(q) = w
      BY <2>1, <2>2 DEF Inv, AllTold
    <3>3. sent'.warns = w + (IF phase = "warn" THEN 1 ELSE 0)
      BY <2>4
    <3>4. out'.warned + Warnings(chan'.queue) = sent'.warns
      BY <2>2, <2>3, <2>5, <3>1, <3>2, <3>3
    <3> QED
      BY <2>1, <2>3, <3>4 DEF Inv, AllTold
  <2> QED
    BY <2>6, <2>7, <2>8 DEF Inv
<1> QED
  BY <1>1, <1>2

\* What the goroutine does without taking an event.
LEMMA LoopKeeps ==
  ASSUME Inv, NEW s, IsState(s), Becomes(s), UNCHANGED <<stage, chan, ctx, sent>>,
         s.loop.phase = s.out.header, s.out.warned = out.warned,
         s.loop.buffered # None => s.loop.buffered.phase = s.loop.phase,
         Silent(s.loop.buffered),
         ~s.loop.running => ~loop.running \/ ctx = "done" \/ (chan.queue = <<>> /\ chan.closed),
         s.loop.running => loop.running
  PROVE  Inv'
<1>1. Now' = s
  BY DEF Becomes, Now, IsState, States
<1> QED
  BY <1>1 DEF Inv, Shape, InPhase, AllTold, Becomes

\* What it does with the event it takes.
LEMMA ReceiveKeeps ==
  ASSUME Inv, NEW s, IsState(s), Becomes(s), UNCHANGED <<stage, ctx, sent>>,
         loop.running, chan.queue # <<>>, chan' = [chan EXCEPT !.queue = Tail(@)],
         s.loop.phase = s.out.header,
         s.out.warned = out.warned + (IF Head(chan.queue).phase = "warn" THEN 1 ELSE 0),
         s.loop.buffered # None => s.loop.buffered.phase = s.loop.phase,
         Silent(s.loop.buffered), s.loop.running
  PROVE  Inv'
<1>1. Now' = s /\ loop' = s.loop /\ out' = s.out
  BY DEF Becomes, Now, IsState, States
<1>2. PICK q, c : chan = [queue |-> q, closed |-> c] /\ IsSequence(q)
  BY DEF Inv, Shape
<1>3. chan' = [queue |-> Tail(q), closed |-> c] /\ q # <<>> /\ chan.queue = q
  BY <1>2
<1>4. /\ IsSequence(Tail(q))
      /\ Warnings(q) = Warnings(Tail(q)) + (IF Head(q).phase = "warn" THEN 1 ELSE 0)
      /\ \A i \in 1..Len(Tail(q)) : i + 1 \in 1..Len(q) /\ Tail(q)[i] = q[i + 1]
  BY <1>2, <1>3, WarningsOfTail
<1>5. Shape'
  <2>1. IsState(Now')
    BY <1>1, Zenon
  <2>2. \E q2, c2 : chan' = [queue |-> q2, closed |-> c2] /\ IsSequence(q2)
    BY <1>3, <1>4
  <2> QED
    BY <2>1, <2>2 DEF Inv, Shape
<1>6. InPhase'
  BY <1>1, <1>3, <1>4 DEF Inv, InPhase
<1>7. AllTold'
  <2>1. Warnings(q) \in Nat /\ Warnings(Tail(q)) \in Nat /\ out.warned \in Nat
    BY <1>2, <1>4, WarningsFinite DEF Inv, Shape, IsState, States, Now
  <2>2. out.warned + Warnings(q) = sent.warns
    BY <1>3 DEF Inv, AllTold
  <2>3. out'.warned + Warnings(chan'.queue) = sent'.warns
    BY <1>1, <1>3, <1>4, <2>1, <2>2
  <2> QED
    BY <1>1, <1>2, <1>3, <2>3 DEF Inv, AllTold
<1> QED
  BY <1>5, <1>6, <1>7 DEF Inv

\* A step of the resolver keeps the invariant.
LEMMA ResolveKeeps ==
  ASSUME Inv, Resolve
  PROVE  Inv'
<1>1. ASSUME UNCHANGED <<chan, sent, ctx, loop, out>>, ~chan.closed, stage' # "stopped"
      PROVE  Inv'
  BY <1>1 DEF Inv, Shape, Now, InPhase, AllTold
<1>2. ASSUME Lookup PROVE Inv'
  <2>1. ~chan.closed /\ stage' # "stopped" /\ UNCHANGED <<ctx, loop, out>>
    BY <1>2 DEF Lookup, Analysis, Inv, AllTold
  <2>2. UNCHANGED <<chan, sent>> \/ Emit("warn", NoFigures) \/ Emit("load", NoFigures)
    BY <1>2 DEF Lookup
  <2> QED
    BY <1>1, <2>1, <2>2, EmitKeeps
<1>3. ASSUME StartPull \/ Export \/ Parse \/ Warn PROVE Inv'
  <2>1. ~chan.closed /\ stage' # "stopped" /\ UNCHANGED <<ctx, loop, out>>
    BY <1>3 DEF StartPull, Export, Parse, Warn, Analysis, Inv, AllTold
  <2>2. PICK phase \in Phases : Emit(phase, NoFigures)
    BY <1>3 DEF StartPull, Export, Parse, Warn, Phases
  <2> QED
    BY <2>1, <2>2, EmitKeeps
<1>4. ASSUME Return PROVE Inv'
  <2>1. ~chan.closed /\ stage' # "stopped" /\ UNCHANGED <<chan, sent, ctx, loop, out>>
    BY <1>4 DEF Return, Analysis, Inv, AllTold
  <2> QED
    BY <1>1, <2>1
<1>5. ASSUME NEW id \in Ids, Message(id) PROVE Inv'
  <2>1. ~chan.closed /\ stage' # "stopped" /\ UNCHANGED <<ctx, loop, out>>
    BY <1>5 DEF Message, Analysis, Inv, AllTold
  <2>2. PICK fig : Emit("pulling", fig)
    BY <1>5 DEF Message
  <2> QED
    BY <2>1, <2>2, EmitKeeps
<1> QED
  BY <1>2, <1>3, <1>4, <1>5 DEF Resolve

\* A tick or a flush says something only about the pull, under its header.
LEMMA BufferIsThePulls ==
  ASSUME InPhase, loop.buffered # None, Speaks(loop.buffered.fig)
  PROVE  out.header = "pulling"
  BY SilenceSaysNothing DEF InPhase, Silent

\* A step of the printer keeps it, and prints figures only under their header.
LEMMA PrinterKeeps ==
  ASSUME Inv, Printer
  PROVE  Inv' /\ (out'.lines # out.lines => out.header = "pulling")
<1> DEFINE Under == out'.lines # out.lines => out.header = "pulling"
<1>1. /\ IsState(Now) /\ Now.loop = loop /\ Now.out = out
      /\ loop.running \in BOOLEAN
      /\ loop.phase = out.header
      /\ loop.buffered # None => loop.buffered.phase = loop.phase
      /\ Silent(loop.buffered) /\ Silent(None)
  BY DEF Inv, Shape, InPhase, IsState, States, Now, Silent, None
<1> DEFINE fl == Flush(Now)
<1>2. /\ IsState(fl)
      /\ fl.loop.running = loop.running /\ fl.loop.phase = loop.phase
      /\ fl.loop.buffered = None
      /\ fl.out.header = out.header /\ fl.out.warned = out.warned
      /\ fl.out.lines # out.lines => out.header = "pulling"
  BY <1>1, FlushTells, BufferIsThePulls DEF Inv
<1> HIDE DEF fl
<1>3. CASE Tick
  <2>1. Becomes(fl) /\ UNCHANGED <<stage, chan, ctx, sent>>
    BY <1>3 DEF Tick, fl
  <2>2. Inv'
    BY <1>1, <1>2, <2>1, LoopKeeps
  <2> QED
    BY <1>2, <2>1, <2>2 DEF Becomes
<1>4. CASE Drained
  <2>1. /\ Becomes(Leaves(fl)) /\ UNCHANGED <<stage, chan, ctx, sent>>
        /\ chan.queue = <<>> /\ chan.closed
    BY <1>4 DEF Drained, fl
  <2>2. /\ IsState(Leaves(fl)) /\ Leaves(fl).loop.running = FALSE
        /\ Leaves(fl).loop.phase = fl.loop.phase /\ Leaves(fl).loop.buffered = None
        /\ Leaves(fl).out = fl.out
    BY <1>2, LeavesTells
  <2>3. Inv'
    BY <1>1, <1>2, <2>1, <2>2, LoopKeeps
  <2> QED
    BY <1>2, <2>1, <2>2, <2>3 DEF Becomes
<1>5. CASE Cancelled
  <2>1. Becomes(Leaves(Now)) /\ UNCHANGED <<stage, chan, ctx, sent>> /\ ctx = "done"
    BY <1>5 DEF Cancelled
  <2>2. /\ IsState(Leaves(Now)) /\ Leaves(Now).loop.running = FALSE
        /\ Leaves(Now).loop.phase = loop.phase /\ Leaves(Now).loop.buffered = loop.buffered
        /\ Leaves(Now).out = out
    BY <1>1, LeavesTells
  <2>3. Inv'
    BY <1>1, <2>1, <2>2, LoopKeeps
  <2> QED
    BY <2>1, <2>2, <2>3 DEF Becomes
<1>6. CASE Receive
  <2> DEFINE ev == Head(chan.queue)
  <2>1. /\ loop.running /\ chan.queue # <<>>
        /\ chan' = [chan EXCEPT !.queue = Tail(@)] /\ UNCHANGED <<stage, ctx, sent>>
    BY <1>6 DEF Receive
  <2>2. Silent(ev)
    <3>1. IsSequence(chan.queue)
      BY DEF Inv, Shape
    <3>2. Len(chan.queue) \in Nat \ {0} /\ ev = chan.queue[1]
      BY <2>1, <3>1, WarningsOfTail
    <3> QED
      BY <3>2 DEF Inv, InPhase
  <2> HIDE DEF ev
  <2>3. CASE ev.phase # loop.phase /\ Becomes(NewPhase(ev))
    <3> DEFINE h == Header(fl, ev.phase)
    <3>1. Becomes(h)
      BY <2>3 DEF NewPhase, fl
    <3>2. /\ IsState(h) /\ h.loop.running = loop.running /\ h.loop.phase = ev.phase
          /\ h.loop.buffered = None
          /\ h.out.header = ev.phase /\ h.out.lines = fl.out.lines
          /\ h.out.warned = out.warned + (IF ev.phase = "warn" THEN 1 ELSE 0)
      BY <1>2, HeaderTells
    <3> HIDE DEF h
    <3>3. Inv'
      BY <1>1, <2>1, <3>1, <3>2, ReceiveKeeps DEF ev
    <3> QED
      BY <1>2, <3>1, <3>2, <3>3 DEF Becomes
  <2>4. CASE ev.phase = loop.phase /\ ev.phase = "warn" /\ Becomes(AnotherWarning)
    <3>1. /\ IsState(AnotherWarning) /\ AnotherWarning.loop = loop
          /\ AnotherWarning.out.header = out.header /\ AnotherWarning.out.lines = out.lines
          /\ AnotherWarning.out.warned = out.warned + 1
      BY <1>1, AnotherWarningTells
    <3>2. Inv'
      BY <1>1, <2>1, <2>4, <3>1, ReceiveKeeps DEF ev
    <3> QED
      BY <2>4, <3>1, <3>2 DEF Becomes
  <2>5. CASE /\ ev.phase = loop.phase /\ ev.phase \in {"pulling", "exporting"}
             /\ Becomes(IF ev.phase = "pulling" /\ Complete100(ev.fig)
                        THEN Flush(Buffered(ev)) ELSE Buffered(ev))
    <3> DEFINE b == Buffered(ev)
    <3>1. /\ IsState(b) /\ b.loop.running = loop.running /\ b.loop.phase = loop.phase
          /\ b.loop.buffered = ev /\ b.out = out
      BY <1>1, BufferedTells
    <3> HIDE DEF b
    <3>2. CASE ev.phase = "pulling" /\ Becomes(Flush(b))
      <4>1. /\ IsState(Flush(b))
            /\ Flush(b).loop.running = loop.running /\ Flush(b).loop.phase = loop.phase
            /\ Flush(b).loop.buffered = None
            /\ Flush(b).out.header = out.header /\ Flush(b).out.warned = out.warned
        BY <3>1, FlushTells
      <4>2. out.warned \in Nat /\ out.warned + 0 = out.warned
        BY <1>1 DEF IsState, States
      <4>3. Inv'
        BY <1>1, <2>1, <3>2, <4>1, <4>2, ReceiveKeeps DEF ev
      <4> QED
        BY <1>1, <2>5, <3>2, <4>3
    <3>3. CASE Becomes(b)
      <4>1. out.warned \in Nat /\ out.warned + 0 = out.warned
        BY <1>1 DEF IsState, States
      <4>2. Inv'
        BY <1>1, <2>1, <2>2, <2>5, <3>1, <3>3, <4>1, ReceiveKeeps DEF ev
      <4> QED
        BY <3>1, <3>3, <4>2 DEF Becomes
    <3> QED
      BY <2>5, <3>2, <3>3 DEF b
  <2>6. CASE /\ ev.phase = loop.phase /\ ev.phase \notin {"warn", "pulling", "exporting"}
             /\ UNCHANGED <<loop, out>>
    <3>1. out.warned \in Nat /\ out.warned + 0 = out.warned
      BY <1>1 DEF IsState, States
    <3>2. Becomes(Now)
      BY <2>6 DEF Becomes, Now
    <3>3. Inv'
      BY <1>1, <2>1, <2>6, <3>1, <3>2, ReceiveKeeps DEF ev
    <3> QED
      BY <2>6, <3>3
  <2>7. \/ ev.phase # loop.phase /\ Becomes(NewPhase(ev))
        \/ ev.phase = loop.phase /\ ev.phase = "warn" /\ Becomes(AnotherWarning)
        \/ /\ ev.phase = loop.phase /\ ev.phase \in {"pulling", "exporting"}
           /\ Becomes(IF ev.phase = "pulling" /\ Complete100(ev.fig)
                      THEN Flush(Buffered(ev)) ELSE Buffered(ev))
        \/ /\ ev.phase = loop.phase /\ ev.phase \notin {"warn", "pulling", "exporting"}
           /\ UNCHANGED <<loop, out>>
    BY <1>6 DEF Receive, ev
  <2> QED
    BY <2>3, <2>4, <2>5, <2>6, <2>7
<1> QED
  BY <1>3, <1>4, <1>5, <1>6 DEF Printer

\* So does every step.
LEMMA StepInv ==
  ASSUME Inv, [Next]_vars
  PROVE  Inv' /\ (out'.lines # out.lines => out.header = "pulling")
<1>1. CASE Resolve
  <2>1. UNCHANGED out
    BY <1>1 DEF Resolve, Lookup, StartPull, Export, Parse, Warn, Return, Message, Analysis
  <2> QED
    BY <1>1, <2>1, ResolveKeeps
<1>2. CASE Interrupt
  BY <1>2 DEF Interrupt, Inv, Shape, Now, InPhase, AllTold
<1>3. CASE Printer
  BY <1>3, PrinterKeeps
<1>4. CASE Stop
  <2>1. PICK q, c : chan = [queue |-> q, closed |-> c] /\ IsSequence(q)
    BY DEF Inv, Shape
  <2>2. chan' = [queue |-> q, closed |-> TRUE]
    BY <1>4, <2>1 DEF Stop
  <2> QED
    BY <1>4, <2>1, <2>2 DEF Stop, Inv, Shape, Now, InPhase, AllTold
<1>5. CASE Stopped
  BY <1>5 DEF Stopped, Inv, Shape, Now, InPhase, AllTold
<1>6. CASE UNCHANGED vars
  BY <1>6 DEF vars, Inv, Shape, Now, InPhase, AllTold
<1> QED
  BY <1>1, <1>2, <1>3, <1>4, <1>5, <1>6 DEF Next

\* The invariant of the printer, the queue and the resolver holds in every state.
THEOREM InvHolds == Spec => []Inv
<1>1. Init => Inv
  BY InitInv
<1>2. Inv /\ [Next]_vars => Inv'
  BY StepInv
<1> QED
  BY <1>1, <1>2, PTL DEF Spec

\* A line about the pull is printed under the pull's header only, for any
\* layers, any channel and any timing of ticks (runProgressLoop).
THEOREM LinesStandUnderTheirHeader == Spec => LinesUnderHeader
<1>1. Inv /\ [Next]_vars => [out'.lines # out.lines => out.header = "pulling"]_vars
  BY StepInv
<1> QED
  BY <1>1, InvHolds, PTL DEF Spec, LinesUnderHeader

\* No warning the channel took is lost or told twice, unless the command was
\* interrupted (runProgressLoop, emitCacheWarn).
THEOREM WarningsAreTold == Spec => []WarningsTold
<1>1. Inv => WarningsTold
  <2> SUFFICES ASSUME Inv PROVE WarningsTold
    OBVIOUS
  <2>1. IsSequence(chan.queue) /\ out.warned \in Nat
    BY DEF Inv, Shape, IsState, States, Now
  <2>2. Warnings(chan.queue) \in Nat
    BY <2>1, WarningsFinite
  <2>3. chan.queue = <<>> => Warnings(chan.queue) = 0
    <3>1. chan.queue = <<>> => WarningAt(chan.queue) = {}
      BY DEF WarningAt
    <3> QED
      BY <3>1, FS_EmptySet DEF Warnings
  <2>4. out.warned + Warnings(chan.queue) = sent.warns
    BY DEF Inv, AllTold
  <2>5. stage = "stopped" /\ ctx = "live" => chan.queue = <<>>
    BY DEF Inv, AllTold
  <2> QED
    BY <2>1, <2>2, <2>3, <2>4, <2>5 DEF WarningsTold
<1> QED
  BY <1>1, InvHolds, PTL


-----------------------------------------------------------------------------
(* The last word *)

\* The phase that the goroutine will be in when it takes the i-th event.
Before(p, q, i) == IF i = 1 THEN p ELSE q[i - 1].phase

\* The queued events that are more than the header of their phase.
Telling(p, q) == {i \in 1..Len(q) : q[i].phase = "pulling" /\ Before(p, q, i) = "pulling"}

\* What the last line said need not be said again.
Deduped(s) == \A fig : s.loop.last = {fig} /\ Speaks(fig) => s.out.line = fig

\* The event is buffered, or on the screen.
Shows(s, ev) == IF s.loop.buffered.phase = "pulling" THEN s.loop.buffered = ev
                ELSE Speaks(ev.fig) => s.out.line = ev.fig

\* The last event of the pull is on its way to the screen: the last one in the
\* channel that tells something, or what the goroutine has made of it.
Latest ==
    /\ sent.phase = Before(loop.phase, chan.queue, Len(chan.queue) + 1)
    /\ \A i \in Telling(loop.phase, chan.queue) :
          (\A j \in Telling(loop.phase, chan.queue) : j <= i) => chan.queue[i] = sent.latest
    /\ Telling(loop.phase, chan.queue) = {} => Shows(Now, sent.latest)
    /\ Deduped(Now)
    /\ ~loop.running /\ ctx = "live" => loop.buffered = None

\* An event that comes tells when it follows its phase.
LEMMA TellingOfAppend ==
  ASSUME NEW q, IsSequence(q), NEW ev, NEW p
  PROVE  LET r == Append(q, ev)
         IN /\ Before(p, r, Len(r) + 1) = ev.phase
            /\ Telling(p, r) = Telling(p, q) \cup
                 (IF ev.phase = "pulling" /\ Before(p, q, Len(q) + 1) = "pulling" THEN {Len(q) + 1} ELSE {})
<1> DEFINE r == Append(q, ev)
           n == Len(q)
<1>1. n \in Nat
  BY DEF IsSequence
<1>2. Len(r) = n + 1 /\ (\A i \in 1..n : r[i] = q[i]) /\ r[n + 1] = ev
  BY WarningsOfAppend
<1> HIDE DEF r, n
<1>3. \A i \in 1..(n + 1) : i # 1 => i - 1 \in 1..n
  BY <1>1
<1>4. \A i \in 1..(n + 1) : Before(p, r, i) = Before(p, q, i)
  BY <1>2, <1>3 DEF Before
<1>5. (n + 1) + 1 # 1 /\ ((n + 1) + 1) - 1 = n + 1 /\ n + 1 \in 1..(n + 1)
      /\ 1..(n + 1) = (1..n) \cup {n + 1}
  BY <1>1
<1>6. Before(p, r, Len(r) + 1) = ev.phase
  BY <1>2, <1>5 DEF Before
<1>7. \A i \in 1..n : (i \in Telling(p, r) <=> i \in Telling(p, q))
  BY <1>2, <1>4, <1>5 DEF Telling, n
<1>8. n + 1 \in Telling(p, r) <=> ev.phase = "pulling" /\ Before(p, q, n + 1) = "pulling"
  BY <1>2, <1>4, <1>5 DEF Telling
<1>9. Telling(p, r) \subseteq (1..n) \cup {n + 1} /\ Telling(p, q) \subseteq 1..n
  BY <1>2, <1>5 DEF Telling, n
<1> QED
  BY <1>6, <1>7, <1>8, <1>9 DEF r, n

\* Those that tell still do when the first event is taken.
LEMMA TellingOfTail ==
  ASSUME NEW q, IsSequence(q), q # <<>>, NEW p
  PROVE  LET r == Tail(q)
             h == Head(q).phase
         IN /\ Before(h, r, Len(r) + 1) = Before(p, q, Len(q) + 1)
            /\ \A i \in Telling(h, r) : i + 1 \in Telling(p, q) /\ r[i] = q[i + 1]
            /\ \A j \in Telling(p, q) : j # 1 => j - 1 \in Telling(h, r)
            /\ 1 \in Telling(p, q) <=> h = "pulling" /\ p = "pulling"
<1> DEFINE r == Tail(q)
           n == Len(r)
           h == Head(q).phase
<1>1. /\ Len(q) \in Nat \ {0} /\ n = Len(q) - 1 /\ Head(q) = q[1]
      /\ \A i \in 1..n : i + 1 \in 1..Len(q) /\ r[i] = q[i + 1]
  BY WarningsOfTail
<1> HIDE DEF r, n
<1>2. n \in Nat /\ Len(q) = n + 1 /\ n + 1 # 0
  BY <1>1
<1>3. \A i \in 1..(n + 1) : /\ i \in Nat \ {0} /\ i + 1 # 1 /\ (i + 1) - 1 = i
                            /\ i # 1 => i - 1 \in 1..n /\ (i - 1) + 1 = i
  BY <1>2
<1>4. \A i \in 1..(n + 1) : Before(h, r, i) = Before(p, q, i + 1)
  <2> SUFFICES ASSUME NEW i \in 1..(n + 1) PROVE Before(h, r, i) = Before(p, q, i + 1)
    OBVIOUS
  <2>1. Before(p, q, i + 1) = q[i].phase
    BY <1>3 DEF Before
  <2>2. CASE i = 1
    BY <1>1, <2>1, <2>2 DEF Before
  <2>3. CASE i # 1
    BY <1>1, <1>3, <2>1, <2>3 DEF Before
  <2> QED
    BY <2>2, <2>3
<1>5. n + 1 \in 1..(n + 1) /\ 1 \in 1..(n + 1) /\ 1..n \subseteq 1..(n + 1)
  BY <1>2
<1>6. Before(h, r, n + 1) = Before(p, q, Len(q) + 1)
  BY <1>2, <1>4, <1>5
<1>7. ASSUME NEW i \in 1..n PROVE r[i] = q[i + 1] /\ (i \in Telling(h, r) <=> i + 1 \in Telling(p, q))
  <2>1. r[i] = q[i + 1] /\ i + 1 \in 1..Len(q) /\ Before(h, r, i) = Before(p, q, i + 1)
    BY <1>1, <1>4, <1>5, <1>7
  <2> QED
    BY <1>7, <2>1 DEF Telling, n
<1>8. Telling(h, r) \subseteq 1..n /\ Telling(p, q) \subseteq 1..(n + 1)
  BY <1>2 DEF Telling, n
<1>9. \A i \in Telling(h, r) : i + 1 \in Telling(p, q) /\ r[i] = q[i + 1]
  BY <1>7, <1>8
<1>10. \A j \in Telling(p, q) : j # 1 => j - 1 \in Telling(h, r)
  <2> SUFFICES ASSUME NEW j \in Telling(p, q), j # 1 PROVE j - 1 \in Telling(h, r)
    OBVIOUS
  <2>1. j - 1 \in 1..n /\ (j - 1) + 1 = j
    BY <1>3, <1>8
  <2> QED
    BY <1>7, <2>1
<1>11. 1 \in Telling(p, q) <=> h = "pulling" /\ p = "pulling"
  BY <1>1, <1>2, <1>5 DEF Telling, Before
<1> QED
  BY <1>6, <1>9, <1>10, <1>11 DEF r, n

\* A flush takes what is buffered to the screen, if it has anything to say.
LEMMA FlushShows ==
  ASSUME NEW s, IsState(s), Deduped(s), Silent(s.loop.buffered)
  PROVE  Deduped(Flush(s)) /\ \A ev : Shows(s, ev) => Shows(Flush(s), ev)
<1>1. CASE s.loop.buffered = None
  BY <1>1, FlushTells
<1>2. CASE s.loop.buffered # None
  <2> DEFINE fig == s.loop.buffered.fig
  <2>1. /\ Flush(s).loop.last = {fig} /\ Flush(s).loop.buffered = None
        /\ Flush(s).out.line = IF s.loop.last # {fig} /\ Speaks(fig) THEN fig ELSE s.out.line
    BY <1>2, FlushTells
  <2>2. Speaks(fig) => Flush(s).out.line = fig
    BY <2>1 DEF Deduped
  <2>3. ~Speaks(fig) => Flush(s).out.line = s.out.line
    BY <2>1
  <2>4. s.loop.buffered.phase # "pulling" => ~Speaks(fig)
    BY SilenceSaysNothing DEF Silent
  <2>5. Deduped(Flush(s))
    BY <2>1, <2>2 DEF Deduped
  <2>6. None.phase # "pulling"
    BY DEF None
  <2> QED
    BY <2>1, <2>2, <2>3, <2>4, <2>5, <2>6 DEF Shows
<1> QED
  BY <1>1, <1>2

\* At first nothing was told.
LEMMA InitLatest == Init => Latest
<1> SUFFICES ASSUME Init PROVE Latest
  OBVIOUS
<1>1. /\ chan.queue = <<>> /\ Len(<<>>) = 0 /\ sent.phase = "unknown" /\ sent.latest = None
      /\ loop.phase = "unknown" /\ loop.buffered = None /\ loop.last = {} /\ loop.running
  BY DEF Init, NoLast
<1>2. Telling(loop.phase, chan.queue) = {}
  BY <1>1 DEF Telling
<1>3. Before(loop.phase, chan.queue, Len(chan.queue) + 1) = "unknown"
  BY <1>1 DEF Before
<1>4. ~Speaks(None.fig) /\ None.phase # "pulling"
  BY SilenceSaysNothing DEF None
<1>5. Now.loop = loop
  BY DEF Now
<1> QED
  BY <1>1, <1>2, <1>3, <1>4, <1>5 DEF Latest, Shows, Deduped

\* The analysis sends one event, or fails to.
LEMMA EmitLatest ==
  ASSUME Inv, Latest, NEW phase, NEW fig, Emit(phase, fig), UNCHANGED <<ctx, loop, out>>
  PROVE  Latest'
<1>1. Now' = Now
  BY DEF Now
<1>2. CASE ~Accepts
  <2>1. UNCHANGED <<chan, sent>>
    BY <1>2 DEF Emit
  <2> QED
    BY <1>1, <2>1 DEF Latest
<1>3. CASE Accepts
  <2> DEFINE ev == [phase |-> phase, fig |-> fig]
             p  == loop.phase
  <2>1. PICK q, c : chan = [queue |-> q, closed |-> c] /\ IsSequence(q)
    BY DEF Inv, Shape
  <2>2. chan'.queue = Append(q, ev) /\ chan.queue = q
    BY <1>3, <2>1 DEF Emit
  <2>3. /\ sent'.phase = phase
        /\ sent'.latest = IF phase = "pulling" /\ sent.phase = "pulling" THEN ev ELSE sent.latest
    BY <1>3 DEF Emit
  <2>4. /\ Before(p, Append(q, ev), Len(Append(q, ev)) + 1) = phase
        /\ Telling(p, Append(q, ev)) = Telling(p, q) \cup
             (IF phase = "pulling" /\ Before(p, q, Len(q) + 1) = "pulling" THEN {Len(q) + 1} ELSE {})
    BY <2>1, TellingOfAppend
  <2>5. /\ Len(q) \in Nat /\ \A i \in 1..Len(q) : Append(q, ev)[i] = q[i]
        /\ Append(q, ev)[Len(q) + 1] = ev
    BY <2>1, WarningsOfAppend DEF IsSequence
  <2>6. sent.phase = Before(p, q, Len(q) + 1)
    BY <2>2 DEF Latest
  <2>7. Telling(p, q) \subseteq 1..Len(q)
    BY DEF Telling
  <2> DEFINE r == Append(q, ev)
             new == phase = "pulling" /\ sent.phase = "pulling"
  <2> HIDE DEF r, p, ev
  <2>8. CASE new
    <3>1. Telling(p, r) = Telling(p, q) \cup {Len(q) + 1} /\ sent'.latest = ev
      BY <2>3, <2>4, <2>6, <2>8 DEF r, ev
    <3>2. \A i \in Telling(p, q) : ~(Len(q) + 1 <= i)
      BY <2>5, <2>7
    <3>3. \A i \in Telling(p, r) : (\A j \in Telling(p, r) : j <= i) => r[i] = ev
      BY <2>5, <3>1, <3>2 DEF r
    <3> QED
      BY <1>1, <2>2, <2>3, <2>4, <3>1, <3>3 DEF Latest, p, r, ev
  <2>9. CASE ~new
    <3>1. Telling(p, r) = Telling(p, q) /\ sent'.latest = sent.latest
      BY <2>3, <2>4, <2>6, <2>9 DEF r, ev
    <3>2. \A i \in Telling(p, q) : r[i] = q[i]
      BY <2>5, <2>7 DEF r
    <3> QED
      BY <1>1, <2>2, <2>3, <2>4, <3>1, <3>2 DEF Latest, p, r, ev
  <2> QED
    BY <2>8, <2>9
<1> QED
  BY <1>2, <1>3

\* What the goroutine does without taking an event.
LEMMA LoopLatest ==
  ASSUME Latest, NEW s, IsState(s), Becomes(s), UNCHANGED <<chan, sent>>,
         s.loop.phase = loop.phase, Deduped(s),
         \A ev : Shows(Now, ev) => Shows(s, ev),
         ~s.loop.running /\ ctx' = "live" => s.loop.buffered = None
  PROVE  Latest'
<1>1. Now' = s /\ loop' = s.loop
  BY DEF Becomes, Now, IsState, States
<1>2. Deduped(Now') /\ (Shows(Now, sent.latest) => Shows(Now', sent.latest))
  BY <1>1, Zenon
<1>3. loop'.phase = loop.phase /\ (~loop'.running /\ ctx' = "live" => loop'.buffered = None)
  BY <1>1
<1> QED
  BY <1>2, <1>3 DEF Latest

\* What it does with the event it takes.
LEMMA ReceiveLatest ==
  ASSUME Inv, Latest, NEW s, IsState(s), Becomes(s), UNCHANGED <<ctx, sent>>,
         chan.queue # <<>>, chan' = [chan EXCEPT !.queue = Tail(@)],
         s.loop.running, s.loop.phase = Head(chan.queue).phase, Deduped(s),
         IF Head(chan.queue).phase = "pulling" /\ loop.phase = "pulling"
         THEN Shows(s, Head(chan.queue))
         ELSE \A ev : Shows(Now, ev) => Shows(s, ev)
  PROVE  Latest'
<1>1. Now' = s /\ loop' = s.loop
  BY DEF Becomes, Now, IsState, States
<1>2. PICK q, c : chan = [queue |-> q, closed |-> c] /\ IsSequence(q)
  BY DEF Inv, Shape
<1>3. chan'.queue = Tail(q) /\ q # <<>> /\ chan.queue = q
  BY <1>2
<1> DEFINE r == Tail(q)
           h == Head(q).phase
           p == loop.phase
<1>4. /\ Before(h, r, Len(r) + 1) = Before(p, q, Len(q) + 1)
      /\ \A i \in Telling(h, r) : i + 1 \in Telling(p, q) /\ r[i] = q[i + 1]
      /\ \A j \in Telling(p, q) : j # 1 => j - 1 \in Telling(h, r)
      /\ 1 \in Telling(p, q) <=> h = "pulling" /\ p = "pulling"
  BY <1>2, <1>3, TellingOfTail
<1>5. Head(q) = q[1] /\ Len(q) \in Nat
  BY <1>2, <1>3, WarningsOfTail DEF IsSequence
<1>6. /\ sent.phase = Before(p, q, Len(q) + 1)
      /\ \A i \in Telling(p, q) : (\A j \in Telling(p, q) : j <= i) => q[i] = sent.latest
      /\ Telling(p, q) = {} => Shows(Now, sent.latest)
  BY <1>3 DEF Latest
<1>7. Telling(p, q) \subseteq Nat \ {0} /\ Telling(h, r) \subseteq Nat \ {0}
  BY DEF Telling
<1>8. loop'.phase = h /\ loop'.running /\ chan'.queue = r
  BY <1>1, <1>3
<1>9. Deduped(Now') /\ (Telling(p, q) = {1} => Shows(Now', q[1]))
      /\ (Telling(p, q) = {} /\ Shows(Now, sent.latest) => Shows(Now', sent.latest))
  <2>1. Deduped(Now')
    BY <1>1, Zenon
  <2>2. CASE h = "pulling" /\ p = "pulling"
    <3>1. Shows(s, q[1]) /\ 1 \in Telling(p, q)
      BY <1>3, <1>4, <1>5, <2>2
    <3>2. Shows(Now', q[1])
      BY <1>1, <3>1, Zenon
    <3> QED
      BY <2>1, <3>1, <3>2
  <2>3. CASE ~(h = "pulling" /\ p = "pulling")
    <3>1. Shows(Now, sent.latest) => Shows(s, sent.latest)
      BY <1>3, <2>3
    <3>2. 1 \notin Telling(p, q)
      BY <1>4, <2>3
    <3>3. Shows(Now, sent.latest) => Shows(Now', sent.latest)
      BY <1>1, <3>1, Zenon
    <3> QED
      BY <2>1, <3>2, <3>3
  <2> QED
    BY <2>2, <2>3
<1> HIDE DEF r, h, p
<1>10. ASSUME NEW i \in Telling(h, r), \A j \in Telling(h, r) : j <= i PROVE r[i] = sent.latest
  <2>1. \A j \in Telling(p, q) : j <= i + 1
    BY <1>4, <1>7, <1>10
  <2> QED
    BY <1>4, <1>6, <1>10, <2>1
<1>11. Telling(h, r) = {} => Shows(Now', sent.latest)
  <2> SUFFICES ASSUME Telling(h, r) = {} PROVE Shows(Now', sent.latest)
    OBVIOUS
  <2>1. Telling(p, q) = {} \/ Telling(p, q) = {1}
    BY <1>4
  <2>2. CASE Telling(p, q) = {}
    BY <1>6, <1>9, <2>2
  <2>3. CASE Telling(p, q) = {1}
    <3>1. q[1] = sent.latest
      BY <1>6, <2>3
    <3> QED
      BY <1>9, <2>3, <3>1
  <2> QED
    BY <2>1, <2>2, <2>3
<1> QED
  BY <1>4, <1>6, <1>8, <1>9, <1>10, <1>11 DEF Latest

\* A step of the printer keeps the last figures in sight.
LEMMA PrinterLatest ==
  ASSUME Inv, Latest, Printer
  PROVE  Latest'
<1>1. /\ IsState(Now) /\ Now.loop = loop /\ Now.out = out
      /\ loop.buffered # None => loop.buffered.phase = loop.phase
      /\ Silent(loop.buffered) /\ None.phase # "pulling" /\ Deduped(Now)
  BY DEF Inv, Shape, InPhase, IsState, States, Now, None, Latest
<1> DEFINE fl == Flush(Now)
<1>2. /\ IsState(fl)
      /\ fl.loop.running = loop.running /\ fl.loop.phase = loop.phase
      /\ fl.loop.buffered = None
      /\ Deduped(fl) /\ \A ev : Shows(Now, ev) => Shows(fl, ev)
  BY <1>1, FlushTells, FlushShows
<1> HIDE DEF fl
<1>3. CASE Tick
  BY <1>2, <1>3, LoopLatest DEF Tick, fl
<1>4. CASE Drained
  <2>1. Becomes(Leaves(fl)) /\ UNCHANGED <<chan, sent>>
    BY <1>4 DEF Drained, fl
  <2>2. /\ IsState(Leaves(fl)) /\ Leaves(fl).loop.phase = fl.loop.phase
        /\ Leaves(fl).loop.buffered = None /\ Leaves(fl).out = fl.out
        /\ Leaves(fl).loop.last = fl.loop.last
    BY <1>2, LeavesTells
  <2>3. Deduped(Leaves(fl)) /\ \A ev : Shows(fl, ev) => Shows(Leaves(fl), ev)
    BY <1>2, <2>2 DEF Deduped, Shows
  <2> QED
    BY <1>2, <2>1, <2>2, <2>3, LoopLatest
<1>5. CASE Cancelled
  <2>1. Becomes(Leaves(Now)) /\ UNCHANGED <<chan, sent>> /\ ctx' = "done"
    BY <1>5 DEF Cancelled
  <2>2. /\ IsState(Leaves(Now)) /\ Leaves(Now).loop.phase = loop.phase
        /\ Leaves(Now).loop.buffered = loop.buffered /\ Leaves(Now).out = out
        /\ Leaves(Now).loop.last = loop.last
    BY <1>1, LeavesTells
  <2>3. Deduped(Leaves(Now)) /\ \A ev : Shows(Now, ev) => Shows(Leaves(Now), ev)
    BY <1>1, <2>2 DEF Deduped, Shows
  <2> QED
    BY <1>1, <2>1, <2>2, <2>3, LoopLatest
<1>6. CASE Receive
  <2> DEFINE ev == Head(chan.queue)
  <2>1. /\ loop.running /\ chan.queue # <<>>
        /\ chan' = [chan EXCEPT !.queue = Tail(@)] /\ UNCHANGED <<ctx, sent>>
    BY <1>6 DEF Receive
  <2>2. Silent(ev)
    <3>1. IsSequence(chan.queue)
      BY DEF Inv, Shape
    <3>2. Len(chan.queue) \in Nat \ {0} /\ ev = chan.queue[1]
      BY <2>1, <3>1, WarningsOfTail
    <3> QED
      BY <3>2 DEF Inv, InPhase
  <2> HIDE DEF ev
  <2>3. CASE ev.phase # loop.phase /\ Becomes(NewPhase(ev))
    <3> DEFINE h == Header(fl, ev.phase)
    <3>1. Becomes(h)
      BY <2>3 DEF NewPhase, fl
    <3>2. /\ IsState(h) /\ h.loop.running = loop.running /\ h.loop.phase = ev.phase
          /\ h.loop.buffered = None /\ h.loop.last = {} /\ h.out.line = fl.out.line
      BY <1>2, HeaderTells
    <3> HIDE DEF h
    <3>3. Deduped(h)
      BY <3>2 DEF Deduped
    <3>4. \A e : Shows(fl, e) => Shows(h, e)
      BY <1>1, <1>2, <3>2 DEF Shows
    <3>5. \A e : Shows(Now, e) => Shows(h, e)
      BY <1>2, <3>4
    <3> QED
      BY <2>1, <2>3, <3>1, <3>2, <3>3, <3>5, ReceiveLatest DEF ev
  <2>4. CASE ev.phase = loop.phase /\ ev.phase = "warn" /\ Becomes(AnotherWarning)
    <3>1. /\ IsState(AnotherWarning) /\ AnotherWarning.loop = loop
          /\ AnotherWarning.out.line = out.line
      BY <1>1, AnotherWarningTells
    <3>2. Deduped(AnotherWarning) /\ \A e : Shows(Now, e) => Shows(AnotherWarning, e)
      BY <1>1, <3>1 DEF Deduped, Shows
    <3> QED
      BY <2>1, <2>4, <3>1, <3>2, ReceiveLatest DEF ev
  <2>5. CASE /\ ev.phase = loop.phase /\ ev.phase \in {"pulling", "exporting"}
             /\ Becomes(IF ev.phase = "pulling" /\ Complete100(ev.fig)
                        THEN Flush(Buffered(ev)) ELSE Buffered(ev))
    <3> DEFINE b == Buffered(ev)
    <3>1. /\ IsState(b) /\ b.loop.running = loop.running /\ b.loop.phase = loop.phase
          /\ b.loop.buffered = ev /\ b.out = out /\ b.loop.last = loop.last
      BY <1>1, BufferedTells
    <3> HIDE DEF b
    <3>2. Deduped(b)
      BY <1>1, <3>1 DEF Deduped
    <3>3. CASE ev.phase = "pulling"
      <4>1. Shows(b, ev)
        BY <3>1, <3>3 DEF Shows
      <4>2. CASE Becomes(Flush(b))
        <5>1. /\ IsState(Flush(b)) /\ Flush(b).loop.running = loop.running
              /\ Flush(b).loop.phase = loop.phase
              /\ Deduped(Flush(b)) /\ Shows(Flush(b), ev)
          BY <2>2, <3>1, <3>2, <4>1, FlushTells, FlushShows
        <5> QED
          BY <2>1, <2>5, <3>3, <4>2, <5>1, ReceiveLatest DEF ev
      <4>3. CASE Becomes(b)
        BY <2>1, <2>5, <3>1, <3>2, <3>3, <4>1, <4>3, ReceiveLatest DEF ev
      <4> QED
        BY <2>5, <4>2, <4>3 DEF b
    <3>4. CASE ev.phase # "pulling"
      <4>1. Becomes(b)
        BY <2>5, <3>4 DEF b
      <4>2. \A e : Shows(Now, e) => Shows(b, e)
        BY <1>1, <2>5, <3>1, <3>4 DEF Shows
      <4> QED
        BY <2>1, <2>5, <3>1, <3>2, <3>4, <4>1, <4>2, ReceiveLatest DEF ev
    <3> QED
      BY <3>3, <3>4
  <2>6. CASE /\ ev.phase = loop.phase /\ ev.phase \notin {"warn", "pulling", "exporting"}
             /\ UNCHANGED <<loop, out>>
    <3>1. Becomes(Now)
      BY <2>6 DEF Becomes, Now
    <3> QED
      BY <1>1, <2>1, <2>6, <3>1, ReceiveLatest DEF ev
  <2> QED
    BY <1>6, <2>3, <2>4, <2>5, <2>6 DEF Receive, ev
<1> QED
  BY <1>3, <1>4, <1>5, <1>6 DEF Printer

\* So does every step.
LEMMA StepLatest ==
  ASSUME Inv, Latest, [Next]_vars
  PROVE  Latest'
<1>1. ASSUME UNCHANGED <<loop, out, sent>>, chan'.queue = chan.queue, ctx' = ctx \/ ctx' = "done"
      PROVE  Latest'
  <2>1. Now' = Now
    BY <1>1 DEF Now
  <2> QED
    BY <1>1, <2>1 DEF Latest
<1>2. CASE Resolve
  <2>1. UNCHANGED <<ctx, loop, out>>
    BY <1>2 DEF Resolve, Lookup, StartPull, Export, Parse, Warn, Return, Message, Analysis
  <2>2. UNCHANGED <<chan, sent>> \/ \E phase, fig : Emit(phase, fig)
    BY <1>2 DEF Resolve, Lookup, StartPull, Export, Parse, Warn, Return, Message
  <2>3. CASE UNCHANGED <<chan, sent>>
    BY <1>1, <2>1, <2>3
  <2>4. ASSUME NEW phase, NEW fig, Emit(phase, fig) PROVE Latest'
    BY <2>1, <2>4, EmitLatest
  <2> QED
    BY <2>2, <2>3, <2>4
<1>3. CASE Printer
  BY <1>3, PrinterLatest
<1>4. CASE Interrupt \/ Stopped \/ UNCHANGED vars
  BY <1>1, <1>4 DEF Interrupt, Stopped, vars
<1>5. CASE Stop
  <2>1. PICK q, c : chan = [queue |-> q, closed |-> c]
    BY DEF Inv, Shape
  <2>2. chan'.queue = chan.queue
    BY <1>5, <2>1 DEF Stop
  <2> QED
    BY <1>1, <1>5, <2>2 DEF Stop
<1> QED
  BY <1>2, <1>3, <1>4, <1>5 DEF Next

\* However the ticks fall and whatever is printed only once, the last line of
\* a command that was not interrupted is about the last event of the pull that
\* the channel took (runProgressLoop's flush, progressKeyOf).
THEOREM LastWordIsShown == Spec => []LastWordShown
<1>1. Init => Latest
  BY InitLatest
<1>2. Inv /\ Latest /\ [Next]_vars => Latest'
  BY StepLatest
<1>3. Inv /\ Latest => LastWordShown
  <2> SUFFICES ASSUME Inv, Latest, stage = "stopped", ctx = "live", Speaks(sent.latest.fig)
               PROVE  out.line = sent.latest.fig
    BY DEF LastWordShown
  <2>1. chan.queue = <<>> /\ loop.buffered = None
    BY DEF Inv, AllTold, Latest
  <2>2. Telling(loop.phase, chan.queue) = {}
    <3>1. Len(<<>>) = 0
      OBVIOUS
    <3> QED
      BY <2>1, <3>1 DEF Telling
  <2>3. Shows(Now, sent.latest) /\ Now.loop = loop /\ Now.out = out
    BY <2>2 DEF Latest, Now
  <2> QED
    BY <2>1, <2>3 DEF Shows, None
<1> QED
  BY <1>1, <1>2, <1>3, InvHolds, PTL DEF Spec
=============================================================================
