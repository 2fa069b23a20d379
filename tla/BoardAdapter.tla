---------------------------- MODULE BoardAdapter ----------------------------
(***************************************************************************)
(* qt/BoardAdapter.cpp with qt/SignalInspectorModel.cpp: the snapshot that *)
(* a publication takes of one board, and the watches of the inspector. The *)
(* UART side is UartTerminal; the log side is EventLog, which this module  *)
(* extends: one publication stages everything, then notifies.              *)
(*                                                                         *)
(* The inspector keeps its rows in the model and the signals they read in  *)
(* the adapter: two lists that must stay parallel.                         *)
(***************************************************************************)
EXTENDS EventLog

CONSTANTS
  Ports,           \* the design's ports, as rows that are always there
  Names,           \* names a user may ask to watch
  SignalOf(_),     \* external: findSignal(), NoSignal if there is none
  NoSignal,
  Value(_, _, _),  \* external: a signal's value at a cycle, for a switch state
  Emits(_),        \* external: the design changes an observed output at a cycle
  MaxWatches       \* SignalInspectorModel::MaximumWatches

VARIABLES
  board,         \* board_ is set
  switch,        \* BoardModel::switchState_
  rows,          \* SignalInspectorModel::rows_
  inspectorIds,  \* BoardAdapter::inspectorIds_
  haveSnapshot,  \* haveSnapshot_
  snapshotCycle, \* snapshotCycle_
  shown,         \* states of the switch model
  before         \* history: what each listed row showed one snapshot ago

inspector == <<rows, inspectorIds, haveSnapshot, snapshotCycle, before>>
snapshot == <<inspector, shown>>
adapterVars == <<logVars, board, switch, snapshot>>

Row(name, value, watch) ==
  [name |-> name, value |-> value, changed |-> FALSE, watch |-> watch]

Listed(rws) == {rws[i].name : i \in DOMAIN rws}
WatchCount == Cardinality({i \in DOMAIN rows : rows[i].watch})

\* A design's ports have different names.
ASSUME PortsAssumption ==
  /\ Ports \in Seq(Range(Ports))
  /\ \A i, j \in DOMAIN Ports : Ports[i] = Ports[j] => i = j

-----------------------------------------------------------------------------
(* The board under the adapter. *)

\* Lines of the cycles c+1..c+n.
Output(c, n) ==
  FlattenSeq([i \in 1..n |-> IF Emits(c + i) THEN <<Line(c + i, "out")>> ELSE <<>>])

\* tick(n), as far as the log and the inspector can tell.
BoardTick(n) ==
  /\ now' = now + n
  /\ lines' = Logged(Output(now, n))
  /\ Remember(Output(now, n))
  /\ UNCHANGED <<enabled, view, reader, publication, wanted, board, switch, snapshot>>

-----------------------------------------------------------------------------
(* SignalInspectorModel. *)

\* stageValues(): the rows after a snapshot of these values.
Staged(rws, values) ==
  IF Len(values) # Len(rws) THEN rws
  ELSE [i \in DOMAIN rws |->
          [name |-> rws[i].name, value |-> values[i],
           changed |-> haveSnapshot /\ rws[i].value # values[i], watch |-> rws[i].watch]]

\* Mutant: the watch is dropped from the rows, the last signal from the list.
WithoutSignalLast(k) == RemoveAt(inspectorIds, Len(inspectorIds))

\* removeWatch() erases the signal of row k.
WithoutSignal(k) == RemoveAt(inspectorIds, k)

-----------------------------------------------------------------------------
(* publish(). *)

\* Up to the first notification: one snapshot of every inspected signal, all
\* read at the same cycle, and the drained log. The arguments are the board's
\* log, switch and cycle and the adapter's rows as the caller left them.
Stage(ls, on, c, rws, ids) ==
  /\ StageLog(ls)
  /\ LET values == [i \in DOMAIN ids |-> Value(ids[i], c, on)]
     IN  IF board
         THEN /\ rows' = Staged(rws, values)
              /\ haveSnapshot' = TRUE
              /\ snapshotCycle' = c
              /\ shown' = on
              /\ before' = [n \in Listed(rows) |->
                              (CHOOSE r \in Range(rows) : r.name = n).value]
         ELSE rows' = rws /\ UNCHANGED <<haveSnapshot, snapshotCycle, shown, before>>
  /\ inspectorIds' = ids

\* refresh()
Refresh ==
  /\ Stage(lines, switch, now, rows, inspectorIds)
  /\ UNCHANGED <<now, enabled, happened, story, board, switch>>

\* Notification, then the rows of the log.
Notify == InsertRows /\ UNCHANGED <<board, switch, snapshot>>

-----------------------------------------------------------------------------
(* What the views call. *)

\* setSwitch(): transitions only, logged at the poke; then a refresh.
SetSwitch(on) ==
  /\ board
  /\ LET poke == IF on = switch THEN <<>> ELSE <<Line(now, "in")>>
     IN  Remember(poke) /\ Stage(Logged(poke), on, now, rows, inspectorIds)
  /\ switch' = on
  /\ UNCHANGED <<now, enabled, board>>

\* addWatch(), when it is not rejected; a rejection only sets the error text.
AddWatch(name) ==
  /\ board
  /\ WatchCount < MaxWatches
  /\ name \notin Listed(rows)
  /\ SignalOf(name) # NoSignal
  /\ LET id == SignalOf(name)
     IN  Stage(lines, switch, now, Append(rows, Row(name, Value(id, now, switch), TRUE)),
               Append(inspectorIds, id))
  /\ UNCHANGED <<now, enabled, happened, story, board, switch>>

\* removeWatch()
RemoveWatch(name) ==
  /\ board /\ CanAccessBoard
  /\ \E k \in DOMAIN rows :
       /\ rows[k].watch /\ rows[k].name = name
       /\ rows' = RemoveAt(rows, k)
       /\ inspectorIds' = WithoutSignal(k)
  /\ before' = [n \in DOMAIN before \ {name} |-> before[n]]
  /\ UNCHANGED <<logVars, board, switch, haveSnapshot, snapshotCycle, shown>>

SetRecording == /\ board
                /\ StartRecording \/ StopRecording
                /\ UNCHANGED <<board, switch, snapshot>>

Clear == ClearEventLog /\ UNCHANGED <<board, switch, snapshot>>

Views ==
  \/ \E on \in BOOLEAN : SetSwitch(on)
  \/ \E n \in Names : AddWatch(n) \/ RemoveWatch(n)
  \/ SetRecording
  \/ Clear

\* BoardAdapter(): buildInspector() lists the ports, a first refresh reads them.
AdapterMade(hasBoard) ==
  /\ board' = hasBoard
  /\ rows' = IF hasBoard
             THEN [i \in DOMAIN Ports |-> Row(Ports[i], Value(SignalOf(Ports[i]), 0, FALSE), FALSE)]
             ELSE <<>>
  /\ inspectorIds' = IF hasBoard THEN [i \in DOMAIN Ports |-> SignalOf(Ports[i])] ELSE <<>>
  /\ haveSnapshot' = hasBoard
  /\ UNCHANGED <<snapshotCycle, shown, before>>

AdapterInit ==
  /\ LogInit
  /\ board = FALSE /\ switch = FALSE
  /\ rows = <<>> /\ inspectorIds = <<>>
  /\ haveSnapshot = FALSE /\ snapshotCycle = 0
  /\ shown = FALSE
  /\ before = <<>>

-----------------------------------------------------------------------------
\* Every row shows its own signal, all rows and the switches at one moment of
\* the board, and is marked exactly when it showed something else one snapshot
\* before: handles and rows are two lists, edited by different functions, and a
\* listener must not get between them.
SnapshotOfOneCycle ==
  haveSnapshot =>
    /\ Len(inspectorIds) = Len(rows)
    /\ \A r \in Range(rows) :
         /\ r.value = Value(SignalOf(r.name), snapshotCycle, shown)
         /\ r.changed <=> (r.name \in DOMAIN before /\ before[r.name] # r.value)
-----------------------------------------------------------------------------
(* Why it holds: an inductive invariant. *)

RowsTyped ==
  /\ Len(rows) \in Nat /\ rows = [i \in 1..Len(rows) |-> rows[i]]
  /\ inspectorIds = [i \in 1..Len(inspectorIds) |-> inspectorIds[i]]

\* The two lists are parallel, and no name is listed twice.
Parallel ==
  /\ Len(inspectorIds) = Len(rows)
  /\ \A i \in 1..Len(rows) : inspectorIds[i] = SignalOf(rows[i].name)
  /\ \A i, j \in 1..Len(rows) : rows[i].name = rows[j].name => i = j

\* A board's rows are of the latest snapshot; without a board there is none.
InspectorInv ==
  /\ RowsTyped /\ Parallel
  /\ board \in BOOLEAN /\ haveSnapshot = board
  /\ SnapshotOfOneCycle
=============================================================================
