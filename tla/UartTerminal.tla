---------------------------- MODULE UartTerminal ----------------------------
(***************************************************************************)
(* The UART terminal: qt/BoardAdapter.{h,cpp}, its UART path, writing      *)
(* qt/UartConsoleModel.{h,cpp}. The board decodes bytes and framing errors *)
(* while it runs; typed texts show at once, scripted ones and the board's  *)
(* traffic wait for the next refresh, and a completed reset leaves a       *)
(* notice. When refreshes come is up to wall time; what the terminal shows *)
(* must not be.                                                            *)
(*                                                                         *)
(* The board enters as its clock, the bytes it has decoded and the frames  *)
(* it has scheduled, in the way BoardModel and UartRxDriver describe.      *)
(***************************************************************************)
EXTENDS Integers, FiniteSets, SequencesExt

CONSTANTS
  Frame,            \* 10 * kUartCyclesPerBit
  Texts,            \* non-empty texts typed or scripted, as byte sequences
  TxValues,         \* bytes the design may send
  Newline,          \* the byte '\n'
  LineBytes,        \* MaximumLineBytes
  Lines,            \* MaximumLines
  Pending,          \* MaximumPendingRxBytes
  MaxCycle,         \* bound: the clock
  MaxTx,            \* bound: bytes and errors decoded
  MaxOps            \* bound: sends, clears and resets

VARIABLES
  now, txBytes, txErrors,  \* the board: clock, decoded bytes, framing errors
  slots,       \* the board: frames on UART_RX, each with its call
  txSeen,      \* uartTxSeen_
  framingSeen, \* uartFramingSeen_
  frameEnds,   \* uartRxFrameEnds_
  scriptedRx,  \* scriptedRx_
  console,     \* lines_, openLine_ and trimmedLines_
  sendError,   \* sendError_ is not empty
  pulse,       \* reset() in progress: <<>> or <<the cycle it began>>
  traffic,     \* history: what happened since the last clear, in order
  mark,        \* history: where in traffic the running pulse began
  ops          \* counter behind MaxOps

boardVars == <<now, txBytes, txErrors, slots>>
adapter == <<txSeen, framingSeen, frameEnds, scriptedRx>>
vars == <<boardVars, adapter, console, sendError, pulse, traffic, mark, ops>>

ASSUME TerminalAssumption ==
  /\ Frame \in Nat \ {0} /\ LineBytes \in Nat \ {0} /\ Lines \in Nat \ {0}
  /\ Pending \in Nat
  /\ \A t \in Texts : t \in Seq(Range(t)) /\ t # <<>>

-----------------------------------------------------------------------------
(* UartConsoleModel. *)

Row(kind, byte) == [kind |-> kind, bytes |-> <<byte.value>>,
                    ended |-> byte.value = Newline,
                    first |-> byte.cycle, last |-> byte.cycle]

\* May this byte join the last row?
Continues(t, kind) ==
  /\ t.open /\ t.lines # <<>>
  /\ LET row == Last(t.lines)
     IN  row.kind = kind /\ ~row.ended /\ Len(row.bytes) < LineBytes

Grown(row, byte) == [row EXCEPT !.bytes = Append(@, byte.value), !.last = byte.cycle,
                                !.ended = byte.value = Newline]

AddByte(t, kind, byte) ==
  IF Continues(t, kind)
  THEN [t EXCEPT !.lines[Len(t.lines)] = Grown(@, byte)]
  ELSE [t EXCEPT !.lines = Append(@, Row(kind, byte)), !.open = TRUE]

\* insertLines(): the oldest rows give way, and are counted.
Trimmed(t) ==
  LET excess == IF Len(t.lines) > Lines THEN Len(t.lines) - Lines ELSE 0
  IN  [t EXCEPT !.lines = SubSeq(@, excess + 1, Len(@)), !.trimmed = @ + excess]

\* appendTraffic(): grouping only; a batch may be of any size.
Grouped(t, kind, bytes) ==
  LET after[i \in 0..Len(bytes)] == IF i = 0 THEN t ELSE AddByte(after[i - 1], kind, bytes[i])
  IN  after[Len(bytes)]
AppendTraffic(t, kind, bytes) == Trimmed(Grouped(t, kind, bytes))

\* appendNotice().
Noticed(t, what, c) ==
  [t EXCEPT !.lines = Append(@, [kind |-> what, bytes |-> <<>>, ended |-> TRUE,
                                 first |-> c, last |-> c]),
            !.open = FALSE]
AppendNotice(t, what, c) == Trimmed(Noticed(t, what, c))

\* endLine().
EndLine(t) == [t EXCEPT !.open = FALSE]

NoLines == [lines |-> <<>>, open |-> FALSE, trimmed |-> 0]

-----------------------------------------------------------------------------
(* BoardAdapter. *)

\* stageUart(): everything the board has and the terminal has not yet seen.
NewTx == SubSeq(txBytes, txSeen + 1, Len(txBytes))
NewErrors == SubSeq(txErrors, framingSeen + 1, Len(txErrors))

\* The front of uartRxFrameEnds_ is popped while its frame is over.
Popped == CHOOSE k \in 0..Len(frameEnds) :
            /\ \A i \in 1..k : frameEnds[i] <= now
            /\ k < Len(frameEnds) => frameEnds[k + 1] > now
StillQueued == SubSeq(frameEnds, Popped + 1, Len(frameEnds))

StageUart == txSeen' = Len(txBytes) /\ framingSeen' = Len(txErrors)

\* publishUart(): rows to place among the TX bytes, in the order they are
\* collected, and then stably sorted by cycle.
Marker(c, what, bytes) == [cycle |-> c, what |-> what, bytes |-> bytes]

Collected(resets) ==
  [i \in DOMAIN NewErrors |-> Marker(NewErrors[i], "framing", <<>>)]
    \o [i \in DOMAIN resets |-> Marker(resets[i], "reset", <<>>)]
    \o [i \in DOMAIN scriptedRx |-> Marker(scriptedRx[i].sent, "rx", scriptedRx[i].bytes)]

\* Mutant: rows stay in the order they were collected.
Unsorted(markers) == markers

\* A row goes behind those that are not later than it.
NotLater(sorted, m) == CHOOSE k \in 0..Len(sorted) :
                         /\ k > 0 => sorted[k].cycle <= m.cycle
                         /\ \A i \in (k + 1)..Len(sorted) : sorted[i].cycle > m.cycle
Inserted(sorted, m) == InsertAt(sorted, NotLater(sorted, m) + 1, m)

StableSort(markers) ==
  LET sorted[i \in 0..Len(markers)] ==
        IF i = 0 THEN <<>> ELSE Inserted(sorted[i - 1], markers[i])
  IN  sorted[Len(markers)]

PutMarker(t, m) ==
  IF m.what = "rx" THEN AppendTraffic(EndLine(t), "rx", m.bytes)
                   ELSE AppendNotice(t, m.what, m.cycle)

\* One marker: first the TX bytes stamped at or before it.
Before(tx, m) == CHOOSE k \in 0..Len(tx) :
                   /\ \A i \in 1..k : tx[i].cycle <= m.cycle
                   /\ k < Len(tx) => tx[k + 1].cycle > m.cycle
PlaceMarker(acc, m) ==
  LET k == Before(acc.tx, m)
  IN  [term |-> PutMarker(AppendTraffic(acc.term, "tx", SubSeq(acc.tx, 1, k)), m),
       tx |-> SubSeq(acc.tx, k + 1, Len(acc.tx))]

Placed(acc, markers) ==
  LET after[i \in 0..Len(markers)] ==
        IF i = 0 THEN acc ELSE PlaceMarker(after[i - 1], markers[i])
  IN  after[Len(markers)]

\* The scrollback after publishUart(update, rx, reset).
Published(resets, rx) ==
  LET placed == Placed([term |-> console, tx |-> NewTx], StableSort(Collected(resets)))
      all == AppendTraffic(placed.term, "tx", placed.tx)
  IN  IF rx = <<>> THEN all ELSE AppendTraffic(EndLine(all), "rx", rx)

\* stageUart() and publishUart() together, in a refresh or a noteReset().
PublishUart(resets, rx) ==
  /\ StageUart
  /\ console' = Published(resets, rx)
  /\ scriptedRx' = <<>>

\* sendUart() for each byte: frames follow each other, behind what is queued.
LineFree == IF slots = <<>> THEN 0 ELSE Last(slots).start + Frame
FirstStart == IF LineFree > now THEN LineFree ELSE now
Starts(text) == [i \in DOMAIN text |->
                   [value |-> text[i], cycle |-> FirstStart + (i - 1) * Frame]]

Queue(text, typed) ==
  slots' = slots \o [i \in DOMAIN text |-> [start |-> Starts(text)[i].cycle,
                                            at |-> now, typed |-> typed]]

\* Mutant: a frame is over when it starts.
EndsAtStart(text) == [i \in DOMAIN text |-> Starts(text)[i].cycle]

NewEnds(text) == [i \in DOMAIN text |-> Starts(text)[i].cycle + Frame]

\* Rows a happening leaves in the history.
\* "rx" is a scripted send, which waits for its row; a typed one does not.
Happened(kind, c, bytes) == [kind |-> kind, at |-> c, bytes |-> bytes]

Idle == pulse = <<>>
Op == ops < MaxOps /\ ops' = ops + 1

\* Mutant: only the text itself is measured.
FitsAlone(text) == Len(text) <= Pending

\* sendUartText(): all of it or none of it is queued.
Fits(text) == Len(text) + Len(StillQueued) <= Pending

TypedSend(text) ==
  /\ Idle /\ Op /\ Fits(text)
  /\ Queue(text, TRUE)
  /\ frameEnds' = StillQueued \o NewEnds(text)
  /\ PublishUart(<<>>, Starts(text))
  /\ sendError' = FALSE
  /\ traffic' = Append(traffic, Happened("typed", now, Starts(text)))
  /\ UNCHANGED <<now, txBytes, txErrors, pulse, mark>>

RejectedSend(text) ==
  /\ Idle /\ Op /\ ~Fits(text)
  /\ sendError' = TRUE
  /\ frameEnds' = IF Len(text) > Pending THEN frameEnds ELSE StillQueued
  /\ UNCHANGED <<boardVars, txSeen, framingSeen, scriptedRx, console, pulse, traffic,
                 mark>>

\* sendScriptedUart(): no limit, and no row before the next refresh. Inside a
\* pulse the scheduler sends only at later cycles: it had already sent what was
\* due when the pulse began.
ScriptedSend(text) ==
  /\ Op
  /\ pulse # <<>> => now > pulse[1]
  /\ Queue(text, FALSE)
  /\ frameEnds' = frameEnds \o NewEnds(text)
  /\ scriptedRx' = Append(scriptedRx, [sent |-> now, bytes |-> Starts(text)])
  /\ traffic' = Append(traffic, Happened("rx", now, Starts(text)))
  /\ UNCHANGED <<now, txBytes, txErrors, txSeen, framingSeen, console, sendError, pulse,
                 mark>>

\* clearUart(): what was decoded or scripted before the click goes too.
ClearUart ==
  /\ Idle /\ Op
  /\ StageUart
  /\ frameEnds' = StillQueued
  /\ scriptedRx' = <<>>
  /\ console' = NoLines
  /\ sendError' = FALSE
  /\ traffic' = <<>>
  /\ UNCHANGED <<boardVars, pulse, mark>>

\* refresh(), from the controller or a widget.
Refresh ==
  /\ Idle
  /\ PublishUart(<<>>, <<>>)
  /\ frameEnds' = StillQueued
  /\ UNCHANGED <<boardVars, sendError, pulse, traffic, mark, ops>>

\* reset() of the controller advances the board with no refresh in between and
\* publishes at the end; only a pulse that succeeded leaves a notice.
BeginReset ==
  /\ Idle /\ Op
  /\ pulse' = <<now>>
  /\ mark' = Len(traffic)
  /\ UNCHANGED <<boardVars, adapter, console, sendError, traffic>>

\* noteReset(), then the refresh of the publication that follows.
EndReset ==
  /\ ~Idle /\ now > pulse[1]
  /\ PublishUart(pulse, <<>>)
  /\ frameEnds' = StillQueued
  /\ traffic' = InsertAt(traffic, mark + 1, Happened("reset", pulse[1], <<>>))
  /\ pulse' = <<>> /\ mark' = 0
  /\ UNCHANGED <<boardVars, sendError, ops>>

FailReset ==
  /\ ~Idle
  /\ PublishUart(<<>>, <<>>)
  /\ frameEnds' = StillQueued
  /\ pulse' = <<>> /\ mark' = 0
  /\ UNCHANGED <<boardVars, sendError, traffic, ops>>

\* The board runs: a grid sample ends at most one byte or one framing error.
Elapse ==
  /\ now < MaxCycle
  /\ now' = now + 1
  /\ UNCHANGED <<slots, adapter, console, sendError, pulse, mark, ops>>
  /\ \/ UNCHANGED <<txBytes, txErrors, traffic>>
     \/ /\ Len(txBytes) + Len(txErrors) < MaxTx
        /\ \/ \E v \in TxValues :
                /\ txBytes' = Append(txBytes, [value |-> v, cycle |-> now'])
                /\ traffic' = Append(traffic, Happened("tx", now',
                                       <<[value |-> v, cycle |-> now']>>))
                /\ UNCHANGED txErrors
           \/ /\ txErrors' = Append(txErrors, now')
              /\ traffic' = Append(traffic, Happened("framing", now', <<>>))
              /\ UNCHANGED txBytes

Init ==
  /\ now = 0 /\ txBytes = <<>> /\ txErrors = <<>> /\ slots = <<>>
  /\ txSeen = 0 /\ framingSeen = 0 /\ frameEnds = <<>> /\ scriptedRx = <<>>
  /\ console = NoLines /\ sendError = FALSE
  /\ pulse = <<>> /\ traffic = <<>> /\ mark = 0 /\ ops = 0

Next ==
  \/ \E text \in Texts : TypedSend(text) \/ RejectedSend(text) \/ ScriptedSend(text)
  \/ ClearUart \/ Refresh \/ BeginReset \/ EndReset \/ FailReset \/ Elapse

Spec == Init /\ [][Next]_vars

-----------------------------------------------------------------------------
\* The rows a terminal would have that saw everything as it happened.
Watched(t, h) ==
  IF h.kind \in {"rx", "typed"} THEN Grouped(EndLine(t), "rx", h.bytes)
  ELSE IF h.kind = "tx" THEN Grouped(t, "tx", h.bytes)
  ELSE Noticed(t, h.kind, h.at)

WatchedAll(h) ==
  LET after[i \in 0..Len(h)] == IF i = 0 THEN NoLines ELSE Watched(after[i - 1], h[i])
  IN  after[Len(h)]

Expected == Trimmed(WatchedAll(traffic))

AllShown == NewTx = <<>> /\ NewErrors = <<>> /\ scriptedRx = <<>>

\* "published with a notice ordered after everything stamped at or before its
\* cycle, so the order never depends on refreshes" (BoardAdapter.h): whenever
\* nothing waits to be shown, the terminal has the rows of a terminal that was
\* refreshed all the time.
RowsAreTraffic == Idle /\ AllShown => console.lines = Expected.lines

\* A scripted send and a reset at the same cycle, the reset being the later.
TiedIn(h) == \E i, j \in DOMAIN h : /\ h[i].kind = "rx"
                                    /\ h[j].kind = "reset"
                                    /\ h[i].at = h[j].at
Tied == TiedIn(traffic)

\* Unless a reset coincides with a send, rows are the traffic since the last
\* clear: every byte once, in order, grouped alike whenever refreshes came, and
\* every row that was trimmed is counted.
RowsAreTrafficUntied ==
  ~Tied /\ Idle /\ AllShown => /\ console.lines = Expected.lines
                               /\ console.trimmed = Expected.trimmed

\* The k-th frame is over; when the frames after the d-th end.
Over(k) == slots[k].start + Frame <= now
EndsAfter(d) == [i \in 1..(Len(slots) - d) |-> slots[d + i].start + Frame]

\* The adapter's own list of frames stays in step with the line: what it takes
\* for pending is exactly what the board has not finished sending.
PendingIsExact ==
  \E d \in 0..Len(slots) :
    /\ \A k \in DOMAIN slots : Over(k) <=> k <= d
    /\ StillQueued = EndsAfter(d)

\* Typing never overfills the queue, however much a script has queued: when a
\* typed byte is accepted, at most Pending frames are unfinished, its own included.
TypedFits ==
  \A k \in DOMAIN slots :
    slots[k].typed =>
      Cardinality({i \in 1..k : slots[i].start + Frame > slots[k].at}) <= Pending

-----------------------------------------------------------------------------
(* Why frameEnds_ can be trusted: an inductive invariant. *)

\* The board's frames, each with its call.
SlotsTyped ==
  /\ now \in Nat
  /\ slots \in Seq([start : Nat, at : Nat, typed : BOOLEAN])
  /\ \A k \in DOMAIN slots : slots[k].at <= now

\* Frames are scheduled one behind the other.
FramesApart ==
  \A i, j \in DOMAIN slots : i < j => slots[i].start + Frame <= slots[j].start

\* The adapter's list is the end of the board's, short of frames that are over.
EndsAreTail ==
  \E d \in 0..Len(slots) :
    /\ \A k \in 1..d : Over(k)
    /\ frameEnds = EndsAfter(d)

PendingInv == SlotsTyped /\ FramesApart /\ EndsAreTail /\ TypedFits

-----------------------------------------------------------------------------
(* Why the rows are the traffic: an inductive invariant. *)

ByteValues == TxValues \cup UNION {Range(t) : t \in Texts}
Stamped(cycles) == [value : ByteValues, cycle : cycles]
Kinds == {"tx", "rx", "typed", "framing", "reset"}
RowSet == [kind : Kinds, bytes : Seq(ByteValues), ended : BOOLEAN, first : Nat, last : Nat]
Terminals == [lines : Seq(RowSet), open : BOOLEAN, trimmed : Nat]
Happenings == [kind : Kinds, at : Nat, bytes : Seq(Stamped(Nat))]

\* Nothing that waits is stamped later than now.
WaitingTyped ==
  /\ now \in Nat
  /\ txBytes \in Seq(Stamped(0..now)) /\ txSeen \in 0..Len(txBytes)
  /\ txErrors \in Seq(0..now) /\ framingSeen \in 0..Len(txErrors)
  /\ scriptedRx \in Seq([sent : 0..now, bytes : Seq(Stamped(Nat))])
  /\ traffic \in Seq(Happenings)
  /\ console \in Terminals /\ Trimmed(console) = console
  /\ pulse # <<>> => /\ pulse \in {<<c>> : c \in 0..now}
                     /\ mark \in 0..Len(traffic)

\* A scripted send that waits for its row is part of the traffic.
ScriptsInTraffic ==
  \A i \in DOMAIN scriptedRx :
    \E j \in DOMAIN traffic : traffic[j].kind = "rx" /\ traffic[j].at = scriptedRx[i].sent

\* The traffic, should the running pulse succeed.
Noted == InsertAt(traffic, mark + 1, Happened("reset", pulse[1], <<>>))

\* Were everything that waits published now, with the notice or without it, the
\* rows would be the traffic.
RowsFollow ==
  /\ ~Tied => Published(<<>>, <<>>) = Expected
  /\ (~Idle /\ ~TiedIn(Noted)) => Published(pulse, <<>>) = Trimmed(WatchedAll(Noted))

TrafficInv == WaitingTyped /\ ScriptsInTraffic /\ RowsFollow
=============================================================================
