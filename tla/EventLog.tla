------------------------------ MODULE EventLog ------------------------------
(***************************************************************************)
(* The structured log and the view of it: board/SimLog.{h,cpp}, the log    *)
(* handling of qt/BoardAdapter.cpp and qt/EventLogModel.cpp.               *)
(*                                                                         *)
(* A view that records drains the board's log on every publication. While  *)
(* it is the only reader it clears what it has read; with a retained log   *)
(* (a log file will be written) the lines belong to somebody else, and the *)
(* view only remembers how many it has read. Publication is two steps,     *)
(* since listeners are notified after everything was read and before the   *)
(* rows are inserted.                                                      *)
(***************************************************************************)
EXTENDS Integers, SequencesExt

CONSTANTS
  MaxRows    \* EventLogModel::MaximumEvents

VARIABLES
  now,          \* SimEngine::now()
  lines,        \* SimLog::lines_
  enabled,      \* SimLog::enabled_
  recording,    \* EventLogModel::recording_
  events,       \* EventLogModel::events_
  trimmed,      \* EventLogModel::trimmed_
  recorded,     \* EventLogModel::recorded_
  logRetained,  \* BoardAdapter::logRetained_
  logRead,      \* BoardAdapter::logRead_
  logWasEnabled,\* BoardAdapter::logWasEnabled_
  publishing,   \* BoardAdapter::publishing_, between staging and the last row
  pending,      \* publish()'s local logEvents
  wanted,       \* history: what the board's owner set the log's switch to
  happened,     \* history: every event since the owner switched the log on
  story         \* history: what the view recorded since it was last cleared

boardLog == <<now, lines, enabled>>
view == <<recording, events, trimmed, recorded>>
reader == <<logRetained, logRead, logWasEnabled>>
publication == <<publishing, pending>>
logVars == <<boardLog, view, reader, publication, wanted, happened, story>>

ASSUME RowsAssumption == MaxRows \in Nat \ {0}

Lesser(a, b) == IF a < b THEN a ELSE b

-----------------------------------------------------------------------------
(* SimLog. *)

\* One line stands for the six of the header.
Header == [at |-> 0, what |-> "header"]

Line(c, what) == [at |-> c, what |-> what]

\* parseLine(): header lines are not events.
IsEvent(line) == line.what # "header"
EventsIn(ls) ==
  FlattenSeq([i \in DOMAIN ls |-> IF IsEvent(ls[i]) THEN <<ls[i]>> ELSE <<>>])

\* clear()
Cleared == <<Header>>

\* event(), for each of the lines.
Logged(ls) == IF enabled THEN lines \o ls ELSE lines

-----------------------------------------------------------------------------
(* EventLogModel. *)

\* Rows that make room for a batch.
Existing(excess) == Lesser(excess, Len(events))

\* append(): a batch larger than the view loses its own head.
AppendRows(batch) ==
  LET total == Len(events) + Len(batch)
      excess == IF total > MaxRows THEN total - MaxRows ELSE 0
      existing == Existing(excess)
  IN  /\ events' = SubSeq(events, existing + 1, Len(events))
                     \o SubSeq(batch, excess - existing + 1, Len(batch))
      /\ trimmed' = trimmed + excess
      /\ recorded' = recorded + Len(batch)

-----------------------------------------------------------------------------
(* BoardAdapter. *)

\* canAccessBoard(), on the owner's thread.
CanAccessBoard == ~publishing

\* Mutant: a retained log is read from its start.
FirstOfAll(ls) == 0

\* drainLog(): the lines the view has read already.
First(ls) == IF logRetained THEN Lesser(logRead, Len(ls)) ELSE 0

\* The events drainLog() returns when the board's log is ls.
Drained(ls) ==
  IF recording THEN EventsIn(SubSeq(ls, First(ls) + 1, Len(ls))) ELSE <<>>

\* Mutant: the view clears a log that another owner keeps.
DrainAndClear(ls) ==
  /\ lines' = IF recording THEN Cleared ELSE ls
  /\ logRead' = IF recording /\ logRetained THEN Len(ls) ELSE logRead

\* What drainLog() does to the log and to the reader's position.
Drain(ls) ==
  /\ lines' = IF recording /\ ~logRetained THEN Cleared ELSE ls
  /\ logRead' = IF recording /\ logRetained THEN Len(ls) ELSE logRead

\* setLogRecording(true)
StartRecording ==
  /\ CanAccessBoard /\ ~recording
  /\ recording' = TRUE
  /\ logWasEnabled' = enabled
  /\ enabled' = TRUE
  /\ IF logRetained THEN logRead' = Len(lines) /\ UNCHANGED lines
                    ELSE lines' = Cleared /\ UNCHANGED logRead
  /\ AppendRows(<<Line(now, "started")>>)
  /\ story' = Append(story, Line(now, "started"))
  /\ UNCHANGED <<now, logRetained, publication, wanted, happened>>

\* setLogRecording(false)
StopRecording ==
  /\ CanAccessBoard /\ recording
  /\ recording' = FALSE
  /\ Drain(lines)
  /\ enabled' = logWasEnabled
  /\ AppendRows(Append(Drained(lines), Line(now, "stopped")))
  /\ story' = Append(story, Line(now, "stopped"))
  /\ UNCHANGED <<now, logRetained, logWasEnabled, publication, wanted, happened>>

\* clearEventLog(): what was logged before the click goes too.
ClearEventLog ==
  /\ CanAccessBoard
  /\ Drain(lines)
  /\ events' = <<>> /\ trimmed' = 0
  /\ story' = <<>>
  /\ UNCHANGED <<now, enabled, recording, recorded, logRetained, logWasEnabled,
                 publication, wanted, happened>>

\* publish(), up to the first notification, when the board's log is ls.
StageLog(ls) ==
  /\ CanAccessBoard
  /\ publishing' = TRUE
  /\ pending' = Drained(ls)
  /\ Drain(ls)
  /\ UNCHANGED <<view, logRetained, logWasEnabled, wanted>>

\* Its last call: the rows.
InsertRows ==
  /\ publishing
  /\ publishing' = FALSE
  /\ AppendRows(pending)
  /\ pending' = <<>>
  /\ UNCHANGED <<boardLog, recording, reader, wanted, happened, story>>

\* ~BoardAdapter(): the log goes back to its owner, the view is no more.
ReleaseLog ==
  /\ ~publishing
  /\ enabled' = IF recording THEN logWasEnabled ELSE enabled
  /\ lines' = IF recording /\ ~logRetained THEN Cleared ELSE lines
  /\ recording' = FALSE /\ events' = <<>> /\ trimmed' = 0 /\ recorded' = 0
  /\ story' = <<>>
  /\ UNCHANGED <<now, reader, publication, wanted, happened>>

\* Histories when the board logs ls.
Remember(ls) ==
  /\ happened' = IF wanted THEN happened \o ls ELSE happened
  /\ story' = IF recording THEN story \o ls ELSE story

LogInit ==
  /\ now = 0
  /\ lines = Cleared
  /\ enabled = FALSE
  /\ recording = FALSE
  /\ events = <<>> /\ trimmed = 0 /\ recorded = 0
  /\ logRetained = FALSE /\ logRead = 0 /\ logWasEnabled = FALSE
  /\ publishing = FALSE /\ pending = <<>>
  /\ wanted = FALSE
  /\ happened = <<>> /\ story = <<>>

-----------------------------------------------------------------------------
\* The view, the batch in publication and the lines still unread are together
\* the tail of all that was recorded since the last clear, and the trimmed
\* count is exactly what is missing before it: recording, stopping, clearing
\* and refreshing at any time, from any reader position, repeat and lose no
\* event. While it records the log is on; afterwards it is as its owner left it.
ViewIsStory ==
  /\ events \o pending \o Drained(lines) = SubSeq(story, trimmed + 1, Len(story))
  /\ trimmed + Len(events) <= recorded
  /\ enabled = (recording \/ wanted)
-----------------------------------------------------------------------------
(* Why it holds: an inductive invariant. *)

AnyLine == [at : Nat, what : {"header", "started", "stopped", "in", "out"}]

LogTyped ==
  /\ now \in Nat
  /\ lines \in Seq(AnyLine) /\ events \in Seq(AnyLine) /\ pending \in Seq(AnyLine)
  /\ happened \in Seq(AnyLine) /\ story \in Seq(AnyLine)
  /\ trimmed \in Nat /\ recorded \in Nat /\ logRead \in Nat
  /\ recording \in BOOLEAN /\ logRetained \in BOOLEAN /\ enabled \in BOOLEAN
  /\ logWasEnabled \in BOOLEAN /\ wanted \in BOOLEAN

\* The owner's switch is put back when recording stops; a retained log only
\* grows, so the reader's position stays inside it; and rows wait only while a
\* publication is under way.
LogInv ==
  /\ LogTyped
  /\ recording => logWasEnabled = wanted
  /\ logRead <= IF logRetained THEN Len(lines) ELSE 0
  /\ ~publishing => pending = <<>>
  /\ trimmed <= Len(story)
  /\ ViewIsStory
=============================================================================
