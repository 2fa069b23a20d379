---------------------------- MODULE ProcessCancel ----------------------------
(***************************************************************************)
(* A build's child processes and their cancellation                        *)
(* (src/src/design/Process.cpp): the main thread runs one command after    *)
(* another, each in a process group of its own; a signal handler cancels   *)
(* the whole build.  The handler's reads and writes of the two atomics are *)
(* steps of their own, as the signal may be delivered to another thread.   *)
(***************************************************************************)
EXTENDS Naturals, FiniteSets

CONSTANTS Commands,  \* how many commands a build runs; 1..Commands are their groups
          Helpers,   \* processes a command may start
          Kinds,     \* SIGINT, SIGTERM, SIGHUP: each runs the handler once
          KillAt,    \* the unit of waiting after which the group is killed
          GiveUpAt   \* the unit of waiting after which the caller goes on anyway

ASSUME CancelAssumption == /\ Commands \in Nat \ {0}
                           /\ KillAt \in Nat /\ GiveUpAt \in Nat /\ KillAt < GiveUpAt

VARIABLES pc,         \* the main thread: where it is in runProcess() or its caller
          command,    \* the command it is at
          running,    \* the group cancelProcesses() may end, 0 for none
          cancelled,
          waited,     \* units spent waiting for a cancelled group
          leader,     \* each group's first process: "none", "alive", "zombie" or "reaped"
          helpers,    \* each group's other processes
          told,       \* the groups SIGTERM was sent to
          handler     \* each signal kind: its handler's progress and the group it read

cancelVars == <<pc, command, running, cancelled, waited, leader, helpers, told, handler>>
mainVars == <<pc, command, running, waited>>
groupVars == <<leader, helpers, told>>

Groups == 1..Commands
Ended == {"finished", "interrupted", "terminated"}
Exists(g) == leader[g] \in {"alive", "zombie"} \/ helpers[g] # {}

CancelInit ==
  /\ pc = "check" /\ command = 1 /\ running = 0 /\ cancelled = FALSE /\ waited = 0
  /\ leader = [g \in Groups |-> "none"] /\ helpers = [g \in Groups |-> {}] /\ told = {}
  /\ handler = [k \in Kinds |-> [at |-> "armed", read |-> 0]]

Goto(l) == pc' = l /\ UNCHANGED <<command, running, waited, cancelled, handler>>

\* kill(-pid, SIGTERM): nothing when the group is gone.
Terminate(g) == told' = told \cup (IF g # 0 /\ Exists(g) THEN {g} ELSE {})

(***************************************************************************)
(* runProcess()                                                            *)
(***************************************************************************)
Enter ==
  /\ pc = "check"
  /\ Goto(IF cancelled THEN "ask" ELSE "spawn") /\ UNCHANGED groupVars

Spawn ==
  /\ pc = "spawn"
  /\ \/ /\ Goto("note") /\ leader' = [leader EXCEPT ![command] = "alive"]
        /\ UNCHANGED <<helpers, told>>
     \/ Goto("ask") /\ UNCHANGED groupVars  \* it cannot be started

Note ==
  /\ pc = "note"
  /\ running' = command /\ pc' = "recheck"
  /\ UNCHANGED <<command, waited, cancelled, handler, leader, helpers, told>>

\* (Mutant.) The signal handler alone is relied on.
RecheckNothing ==
  /\ pc = "recheck"
  /\ Goto("wait") /\ UNCHANGED groupVars

\* "cancelled while it was starting"
Recheck ==
  /\ pc = "recheck"
  /\ Goto("wait") /\ UNCHANGED <<leader, helpers>>
  /\ IF cancelled THEN Terminate(command) ELSE UNCHANGED told

Reap ==
  /\ pc = "wait" /\ leader[command] = "zombie"
  /\ leader' = [leader EXCEPT ![command] = "reaped"]
  /\ Goto("clear") /\ UNCHANGED <<helpers, told>>

Clear ==
  /\ pc = "clear"
  /\ running' = 0 /\ pc' = "drain" /\ waited' = 0
  /\ UNCHANGED <<command, cancelled, handler, leader, helpers, told>>

DrainOrAsk ==
  /\ pc = "drain"
  /\ Goto(IF cancelled THEN "draining" ELSE "ask") /\ UNCHANGED groupVars

KillsNever == waited > GiveUpAt \* (Mutant.)  SIGKILL is never sent.
\* One unit of waiting for what the leader left behind.
KillsNow == waited = KillAt
Drain ==
  /\ pc = "draining"
  /\ IF waited < GiveUpAt /\ Exists(command)
     THEN /\ helpers' = IF KillsNow THEN [helpers EXCEPT ![command] = {}] ELSE helpers
          /\ waited' = waited + 1
          /\ UNCHANGED <<pc, command, running, cancelled, handler, leader, told>>
     ELSE Goto("ask") /\ UNCHANGED groupVars

\* The caller, build(): interrupted, done, or the next command.
Ask ==
  /\ pc = "ask"
  /\ IF cancelled THEN pc' = "interrupted" /\ UNCHANGED command
     ELSE IF command = Commands THEN pc' = "finished" /\ UNCHANGED command
     ELSE pc' = "check" /\ command' = command + 1
  /\ UNCHANGED <<running, waited, cancelled, handler, leader, helpers, told>>

Main == Enter \/ Spawn \/ Note \/ Recheck \/ Reap \/ Clear \/ DrainOrAsk \/ Drain \/ Ask

(***************************************************************************)
(* cancelProcesses(), in a signal handler                                  *)
(***************************************************************************)
At(k, l, r) == handler' = [handler EXCEPT ![k] = [at |-> l, read |-> r]]

Cancel(k) ==
  /\ pc \notin Ended /\ handler[k].at = "armed"
  /\ cancelled' = TRUE /\ At(k, "cancelling", 0)
  /\ UNCHANGED <<pc, command, running, waited, leader, helpers, told>>

ReadRunning(k) ==
  /\ pc # "terminated" /\ handler[k].at = "cancelling"
  /\ At(k, "killing", running)
  /\ UNCHANGED <<pc, command, running, waited, cancelled, leader, helpers, told>>

KillGroup(k) ==
  /\ pc # "terminated" /\ handler[k].at = "killing"
  /\ Terminate(handler[k].read) /\ At(k, "done", 0)
  /\ UNCHANGED <<pc, command, running, waited, cancelled, leader, helpers>>

\* SA_RESETHAND: a second signal of a kind ends the program at once.
Again(k) ==
  /\ pc \notin Ended /\ handler[k].at # "armed"
  /\ pc' = "terminated"
  /\ UNCHANGED <<command, running, waited, cancelled, leader, helpers, told, handler>>

Handler(k) == ReadRunning(k) \/ KillGroup(k)

(***************************************************************************)
(* The children (external): a command waits for what it started, unless    *)
(* SIGTERM ends it first; what it started may ignore SIGTERM.              *)
(***************************************************************************)
Fork(g, h) ==
  /\ leader[g] = "alive" /\ g \notin told /\ h \notin helpers[g]
  /\ helpers' = [helpers EXCEPT ![g] = @ \cup {h}]
  /\ UNCHANGED <<mainVars, cancelled, handler, leader, told>>

HelperExits(g, h) ==
  /\ h \in helpers[g]
  /\ helpers' = [helpers EXCEPT ![g] = @ \ {h}]
  /\ UNCHANGED <<mainVars, cancelled, handler, leader, told>>

LeaderExits(g) ==
  /\ leader[g] = "alive" /\ (helpers[g] = {} \/ g \in told)
  /\ leader' = [leader EXCEPT ![g] = "zombie"]
  /\ UNCHANGED <<mainVars, cancelled, handler, helpers, told>>

CancelNext ==
  \/ Main
  \/ \E k \in Kinds : Cancel(k) \/ Handler(k) \/ Again(k)
  \/ \E g \in Groups : LeaderExits(g) \/ \E h \in Helpers : Fork(g, h) \/ HelperExits(g, h)

CancelSpec == CancelInit /\ [][CancelNext]_cancelVars

\* The threads run, and a command that is told to end ends; its helpers need
\* not.
FairCancelSpec == /\ CancelSpec /\ WF_cancelVars(Main)
            /\ \A k \in Kinds : WF_cancelVars(Handler(k))
            /\ \A g \in Groups : WF_cancelVars(g \in told /\ LeaderExits(g))

(***************************************************************************)
(* Properties                                                              *)
(***************************************************************************)
\* When the build is over, by itself or interrupted, nothing it started still
\* runs, helpers that ignore SIGTERM and outlive their leader included.
NothingLeftRunning ==
  pc \in {"finished", "interrupted"} => \A g \in Groups : ~Exists(g)

\* A cancelled build comes back, whatever its helpers do.
CancelEnds == cancelled ~> pc \in Ended
-----------------------------------------------------------------------------
(***************************************************************************)
(* Why nothing is left running: where the main thread stands says what is  *)
(* left of each group.                                                     *)
(***************************************************************************)
Stages == {"check", "spawn", "note", "recheck", "wait", "clear", "drain", "draining",
           "ask"} \cup Ended

CancelTyped ==
  /\ pc \in Stages /\ command \in Groups /\ running \in Groups \cup {0}
  /\ cancelled \in BOOLEAN /\ waited \in 0..GiveUpAt
  /\ leader \in [Groups -> {"none", "alive", "zombie", "reaped"}]
  /\ helpers \in [Groups -> SUBSET Helpers] /\ told \subseteq Groups
  /\ handler \in [Kinds -> [at: {"armed", "cancelling", "killing", "done"},
                            read: Groups \cup {0}]]

\* Nothing is told to end before the build is cancelled: the flag is set first.
TellersCancelled ==
  /\ told # {} => cancelled
  /\ \A k \in Kinds : handler[k].at # "armed" => cancelled

\* Only a leader that was told to end leaves helpers behind, and only a leader
\* starts any.
OrphansWereTold ==
  \A g \in Groups : /\ leader[g] = "none" => helpers[g] = {}
                    /\ leader[g] \in {"zombie", "reaped"} /\ g \notin told => helpers[g] = {}

\* The group of the command the main thread is at, by where it stands.
GroupAtStage ==
  /\ pc \in {"check", "spawn"} => leader[command] = "none"
  /\ pc \in {"note", "recheck", "wait"} => leader[command] \in {"alive", "zombie"}
  /\ pc \in {"clear", "drain", "draining"} => leader[command] = "reaped"
  /\ pc = "drain" => waited = 0
  /\ pc = "draining" /\ waited > KillAt => helpers[command] = {}
  /\ pc \in {"ask", "finished", "interrupted"} => ~Exists(command)

\* One command at a time: those before it are gone, those after it not started.
OneAtATime ==
  /\ \A g \in Groups : g < command => ~Exists(g)
  /\ \A g \in Groups : g > command => leader[g] = "none"

CancelInv == /\ CancelTyped /\ TellersCancelled /\ OrphansWereTold
             /\ pc # "terminated" => GroupAtStage /\ OneAtATime
=============================================================================
