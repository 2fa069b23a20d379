------------------------------ MODULE VideoBoard ------------------------------
(***************************************************************************)
(* The composition of board/BoardModel.cpp with the engine and the monitor *)
(* when a design drives VGA: tick() captures the bound pins in every cycle *)
(* and feeds the monitor; switches and buttons go to the engine through    *)
(* the binding of the constraints that were read. No other output and no   *)
(* UART is bound: what is seen at grid crossings is BoardModel's subject.  *)
(***************************************************************************)
EXTENDS PinBinding, VgaFrameAssembler

CONSTANTS
  Drivers,      \* switches and buttons
  VgaPins,      \* the VGA resources, in setupVga()'s order: colours, hsync, vsync
  Chunk,        \* kSampleChunkCycles
  Limits,       \* bounds: records of the power-on states, the last cycle, the sizes of
                \* ticks, the numbers of transitions and of direct engine calls
  TextsOf(_)    \* constraint files read under a limit

VARIABLES
  tap,      \* vgaIds_ and the lanes of vga_: where each pin is in a sample
  vga,      \* vga_
  state,    \* switchState_ and buttonState_
  end,      \* tick()'s local
  limit,    \* the member of Limits this behaviour keeps to
  used,     \* history: transitions and calls so far
  signal    \* history: what the VGA pins showed in each cycle

boardVars == <<vga, state, end, signal>>
setupVars == <<doc, binding, tap>>
vars == <<engineVars, setupVars, boardVars, limit, used>>

-----------------------------------------------------------------------------
(* setupVga(). *)

\* The distinct ports, in the order their first pin has.
VgaPorts ==
  FoldLeft(LAMBDA ps, r : IF PinOf(r).port \in Range(ps) THEN ps
                          ELSE Append(ps, PinOf(r).port), <<>>, VgaPins)

\* Where a pin is in the packed sample.
Lane(r) ==
  LET j == CHOOSE i \in DOMAIN VgaPorts : VgaPorts[i] = PinOf(r).port
  IN  Contract!LaneOffset(VgaPorts, j) + PinOf(r).bit

\* Every pin is bound and the ports fit a word.
VgaFits ==
  /\ \A r \in Range(VgaPins) : Bound(r)
  /\ Contract!LaneOffset(VgaPorts, Len(VgaPorts) + 1) <= WordBits

SetUpVga == [ids |-> VgaPorts, lane |-> [r \in Range(VgaPins) |-> Lane(r)]]
NoVga == [ids |-> <<>>]

\* extractColor() and the sync bits of a packed sample.
SampleOf(word) ==
  [hs |-> BitOf(word, tap.lane["VGA_HS"]) = 1,
   vs |-> BitOf(word, tap.lane["VGA_VS"]) = 1,
   colour |-> [i \in 1..Len(VgaPins) - 2 |-> BitOf(word, tap.lane[VgaPins[i]])]]

-----------------------------------------------------------------------------
(* tick(). *)

\* What the wires show, for the history.
Wired == [r \in Range(VgaPins) |-> LastWire(r, Range(PortOrder))[1]]
PinsNow(data, wired) ==
  [hs |-> WireLevel(wired["VGA_HS"], data) = 1,
   vs |-> WireLevel(wired["VGA_VS"], data) = 1,
   colour |-> [i \in 1..Len(VgaPins) - 2 |-> WireLevel(wired[VgaPins[i]], data)]]

Tick(n) ==
  /\ end = cycle
  /\ cycle + n <= limit.cycles
  /\ end' = cycle + n
  /\ UNCHANGED <<engineVars, vga, state, signal, limit, used>>

SegmentLength ==
  LET nextGrid == (cycle \div Chunk + 1) * Chunk
  IN  (IF nextGrid < end THEN nextGrid ELSE end) - cycle

\* Mutant: the samples of a segment are stamped from its end.
FeedFromEnd(samples) == Consumed(vga, cycle + Len(samples), samples)

\* The monitor takes a segment's samples from the cycle the segment began at.
Feed(samples) == Consumed(vga, cycle, samples)

\* One segment: up to the grid or the end.
Segment ==
  /\ cycle < end
  /\ IF tap # NoVga
     THEN LET wired == Wired
              after == AfterCycles(SegmentLength)
          IN  /\ StepCapture(SegmentLength, tap.ids)
              /\ vga' = Feed([i \in DOMAIN answer' |-> SampleOf(answer'[i])])
              /\ signal' = signal \o [i \in 1..SegmentLength |->
                                        PinsNow(after[i].model.data, wired)]
     ELSE Step(SegmentLength) /\ UNCHANGED <<vga, signal>>
  /\ UNCHANGED <<state, end, limit, used>>

-----------------------------------------------------------------------------
(* The callers, between ticks. *)

Uses(what) == /\ end = cycle
              /\ used[what] < limit[what]
              /\ used' = [used EXCEPT ![what] = @ + 1]
              /\ UNCHANGED <<end, vga, signal, limit>>

\* setSwitch() and setButton(): the new state is recorded before the engine can
\* refuse, as it does for a resource bound to its clock.
SetDriver(r, on) ==
  /\ Uses("transitions")
  /\ Bound(r) /\ state[r] # on
  /\ state' = [state EXCEPT ![r] = on]
  /\ SetPin(r, on)

\* Other callers of the engine: the inspector reads, a tool pokes or traces.
Engine ==
  \/ \E id \in 1..Len(entries) + 1 : Peek(id)
  \/ \E n \in Names : Lookup(n)
  \/ \E n \in Range(PortOrder) \ Inputs, v \in PokeValues : Poke(n, v)
  \/ \E n \in Inputs \ {PinOf(r).port : r \in Drivers \cap DOMAIN binding}, v \in PokeValues : Poke(n, v)
  \/ \E ids \in WatchLists : StepCapture(0, ids)
  \/ Step(0)
  \/ SetTraceFile \/ TraceOn \/ TraceOff

EngineCall == Uses("calls") /\ Engine /\ UNCHANGED state

Init ==
  /\ EngineInit
  /\ vga = NoFrames
  /\ state = [r \in Drivers |-> FALSE]
  /\ end = 0
  /\ limit \in Limits /\ model.regs \in limit.powerOn
  /\ \E text \in TextsOf(limit) : doc = ParseXdc(text) /\ binding = Bind(doc)
  /\ tap = IF VgaFits THEN SetUpVga ELSE NoVga
  /\ used = [transitions |-> 0, calls |-> 0]
  /\ signal = <<>>

Next ==
  /\ \/ \E n \in limit.ticks : Tick(n)
     \/ Segment
     \/ \E r \in Drivers, on \in BOOLEAN : SetDriver(r, on)
     \/ EngineCall
  /\ UNCHANGED setupVars

Spec == Init /\ [][Next]_vars

-----------------------------------------------------------------------------
(* The signal, read off the history without the monitor. *)

Level(wire, c) == IF c < 0 THEN TRUE ELSE signal[c + 1][wire]
Falls(wire) == {c \in 0..Len(signal) - 1 : Level(wire, c - 1) /\ ~Level(wire, c)}
Previous(falls, c) == CHOOSE p \in falls : p < c /\ \A q \in falls : q < c => q <= p
HasPrevious(falls, c) == \E p \in falls : p < c

\* Cycles the wire is low from its fall at c.
LowFrom(wire, c) ==
  LET rises == {d \in c..Len(signal) - 1 : Level(wire, d)}
  IN  (IF rises = {} THEN Len(signal) ELSE Min(rises)) - c

\* The period of vsync from one fall to another is a frame of an active-low
\* 640x480 signal (the scaled raster) with a pixel clock of w cycles.
Regular(from, to, w) ==
  /\ to - from = HTotal * VTotal * w
  /\ 2 * LowFrom("vs", from) <= to - from
  /\ LET falls == Falls("hs")
         lines == {h \in falls : from <= h /\ h < to}
     IN  /\ Cardinality(lines) \in VTotal - 1..VTotal + 1
         /\ \A h \in lines : HasPrevious(falls, h) =>
              LET p == Previous(falls, h)
              IN  h - p = HTotal * w /\ 2 * LowFrom("hs", p) <= h - p

Clocks == 1..Len(signal) \div (HTotal * VTotal)

\* A frame is called good only if everything in its period was regular, and a
\* regular frame after a regular one is called good, so what went wrong before,
\* or at power-on, clears; every period is published, at its own last cycle.
FrameHealthExact ==
  LET falls == Falls("vs")
      last == vga.lastFrame
      from == Previous(falls, last)
  IN  /\ vga.completedFrames = (IF falls = {} THEN 0 ELSE Cardinality(falls) - 1)
      /\ vga.completedFrames > 0 =>
           /\ last \in falls /\ \A d \in falls : d <= last
           /\ IF vga.ok
              THEN \E w \in Clocks : Regular(from, last, w)
              ELSE \A w \in Clocks :
                     HasPrevious(falls, from) =>
                       ~(Regular(from, last, w) /\ Regular(Previous(falls, from), from, w))

\* The cycle of a pixel's centre in the frame from one fall to another: in the
\* scanline the row has since vsync fell, counted from that line's hsync fall.
Centre(from, to, w, row, col) ==
  LET first(h) == h + HVisible * w + w \div 2
      h == CHOOSE f \in Falls("hs") :
             /\ from <= f /\ f < to
             /\ (first(f) - from) \div (HTotal * w) = VBlank + row
  IN  first(h) + col * w

\* The picture of a good frame is what the colour pins showed at the centres of
\* its pixels, whichever ports and bits the pins are bound to, wherever vsync
\* falls in a line and however time was cut into segments.
PictureIsSignal ==
  (vga.completedFrames > 0 /\ vga.ok) =>
    LET last == vga.lastFrame
        from == Previous(Falls("vs"), last)
        w == CHOOSE v \in Clocks : Regular(from, last, v)
    IN  \A p \in DOMAIN vga.completed :
          vga.completed[p] = signal[Centre(from, last, w, p[1], p[2]) + 1].colour

\* A switch or button shows on the wire the constraints ask for, whichever way the
\* port's range runs and whatever other lines of the text are skipped, except on
\* the clock, which the engine refuses; its neighbours on the port are left alone,
\* and one without a wire cannot be set.
InputsMatchPins ==
  \A r \in Drivers :
    LET wire == LastWire(r, Inputs \cup {Clock})
    IN  IF wire = Nothing THEN ~state[r]
        ELSE PortOf(wire[1]) # Clock => (WireLevel(wire[1], model.data) = 1) = state[r]

\* Xdc.h: a document that was read comes back from its text, whatever characters
\* its values, keys and names have, inside a list, inside a target and bare. It
\* never changes after it was read.
ConstraintsRoundTrip == end = 0 => RoundTrips(doc)
=============================================================================
