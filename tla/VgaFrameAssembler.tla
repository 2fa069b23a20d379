-------------------------- MODULE VgaFrameAssembler --------------------------
(***************************************************************************)
(* board/Vga.cpp: a monitor that sees one packed sample for each cycle and *)
(* rebuilds frames from the edges of the sync signals. The raster's sizes  *)
(* are constants; the pixel clock is measured. A sample is a record of the *)
(* levels of hsync and vsync and the colour.                               *)
(***************************************************************************)
EXTENDS Integers, Sequences

CONSTANTS
  HTotal, VTotal,    \* kHTotal, kVTotal
  Columns, Rows,     \* kWidth, kHeight
  HVisible,          \* kHVisibleOffsetPix
  VBlank,            \* kVBlankLines
  Black              \* the colour of a pixel not yet seen

ASSUME RasterAssumption ==
  /\ {HTotal, VTotal, Columns, Rows} \subseteq Nat \ {0}
  /\ HVisible \in Nat /\ VBlank \in Nat

None == -1

Blank == [p \in (0..Rows - 1) \X (0..Columns - 1) |-> Black]

\* A monitor before its first sample; the have... flags are a value of None.
NoFrames ==
  [prevHsync |-> TRUE, prevVsync |-> TRUE,
   cpp |-> 0, prevHsyncFall |-> None, hsyncLow |-> None,
   vsyncFall |-> None, vsyncLow |-> None, hsyncFalls |-> 0,
   inVisibleRow |-> FALSE, row |-> 0, col |-> 0, nextPixel |-> 0, pixels |-> 0,
   working |-> Blank, completed |-> Blank, completedFrames |-> 0, lastFrame |-> 0,
   failing |-> FALSE, ok |-> TRUE]

\* finalizeFrame(): the structure of the period that ends at cycle c.
Malformed(a, c) ==
  LET period == c - a.vsyncFall
  IN  \/ a.hsyncFalls + 1 < VTotal \/ a.hsyncFalls > VTotal + 1
      \/ a.pixels # Columns * Rows
      \/ a.vsyncLow # None /\ a.vsyncLow > period \div 2
      \/ a.cpp # 0 /\ period # HTotal * VTotal * a.cpp

\* Mutant: what was wrong with a period counts against the next one too.
PeriodBeganFailing(a) == a.failing

\* A period begins with a clean slate.
PeriodBegan(a) == FALSE

\* onVsyncFall(): the period that ended is published, with its health.
VsyncFell(a, c) ==
  LET ended == a.vsyncFall # None
  IN  [a EXCEPT !.completed = IF ended THEN a.working ELSE @,
                !.ok = IF ended THEN ~a.failing /\ ~Malformed(a, c) ELSE @,
                !.completedFrames = IF ended THEN @ + 1 ELSE @,
                !.lastFrame = IF ended THEN c ELSE @,
                !.failing = PeriodBegan(a),
                !.vsyncFall = c, !.vsyncLow = None, !.hsyncFalls = 0,
                !.inVisibleRow = FALSE, !.pixels = 0]

\* The pixel clock an hsync period shows, and what is wrong with the period.
Whole(period) == period > 0 /\ period % HTotal = 0
Measured(a, period) == IF Whole(period) THEN period \div HTotal ELSE a.cpp
BadLine(a, period) ==
  \/ ~Whole(period)
  \/ a.cpp # 0 /\ Measured(a, period) # a.cpp
  \/ a.hsyncLow # None /\ 2 * a.hsyncLow > period

\* Mutant: lines are counted by their hsync edges, a coincident one included.
LineOfCounted(a, first) == a.hsyncFalls

\* The scanline of the row that begins, from its first pixel.
LineOf(a, first) == (first - a.vsyncFall) \div (HTotal * a.cpp)

\* The row that an hsync fall at c begins, if it is a visible one.
RowBegan(a, c) ==
  LET first == c + HVisible * a.cpp + a.cpp \div 2
      visible == a.cpp # 0 /\ LineOf(a, first) \in VBlank..VBlank + Rows - 1
  IN  IF visible
      THEN [a EXCEPT !.inVisibleRow = TRUE, !.row = LineOf(a, first) - VBlank,
                     !.col = 0, !.nextPixel = first]
      ELSE [a EXCEPT !.inVisibleRow = FALSE]

\* onHsyncFall()
HsyncFell(a, c) ==
  LET period == c - a.prevHsyncFall
      m == IF a.prevHsyncFall = None THEN a
           ELSE [a EXCEPT !.failing = @ \/ BadLine(a, period),
                          !.cpp = Measured(a, period)]
      seen == [m EXCEPT !.prevHsyncFall = c]
  IN  IF a.vsyncFall = None THEN seen
      ELSE RowBegan([seen EXCEPT !.hsyncFalls = @ + 1], c)

\* The pixel whose centre this cycle is; one at most, since a column is at least
\* one cycle wide and samples are contiguous.
PixelSeen(a, c, colour) ==
  IF a.inVisibleRow /\ a.col < Columns /\ c >= a.nextPixel
  THEN [a EXCEPT !.working[<<a.row, a.col>>] = colour, !.col = @ + 1,
                 !.pixels = @ + 1, !.nextPixel = @ + a.cpp]
  ELSE a

\* One turn of consume()'s loop: the sample of cycle c.
Sampled(a, c, s) ==
  LET v == IF a.prevVsync /\ ~s.vs THEN VsyncFell(a, c) ELSE a
      h == IF v.prevHsync /\ ~s.hs THEN HsyncFell(v, c) ELSE v
      r == [h EXCEPT !.hsyncLow = IF ~h.prevHsync /\ s.hs /\ h.prevHsyncFall # None
                                  THEN c - h.prevHsyncFall ELSE @,
                     !.vsyncLow = IF ~h.prevVsync /\ s.vs /\ h.vsyncFall # None
                                  THEN c - h.vsyncFall ELSE @]
  IN  [PixelSeen(r, c, s.colour) EXCEPT !.prevHsync = s.hs, !.prevVsync = s.vs]

\* consume(): samples of consecutive cycles, the first of them at start.
Consumed(a, start, samples) ==
  LET after[i \in 0..Len(samples)] ==
        IF i = 0 THEN a ELSE Sampled(after[i - 1], start + i - 1, samples[i])
  IN  after[Len(samples)]
=============================================================================
