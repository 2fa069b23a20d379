------------------------- MODULE DesignBuilder_proofs -------------------------
(***************************************************************************)
(* Proofs about the design builder. ProcessCancel: for any number of       *)
(* commands, helpers and signals, and whatever the handlers interleave     *)
(* with, a build that is over has left no process behind. DesignCache: for *)
(* any number of processes, contents, edits, damaged entries, kills and    *)
(* signals, an entry never holds a module that its key does not describe;  *)
(* and about runs that share one cache root: who may take an entry away,   *)
(* which runs lose their work, what a killed run leaves behind. SharingInv *)
(* is inductive relative to CacheInv.                                      *)
(***************************************************************************)
EXTENDS ProcessCancel, DesignCache, FiniteSetTheorems, TLAPS

-----------------------------------------------------------------------------
(* Child processes. *)

USE CancelAssumption

Untold == UNCHANGED <<leader, helpers, told>>

LEMMA InitInv == CancelInit => CancelInv
<1> SUFFICES ASSUME CancelInit PROVE CancelInv  OBVIOUS
<1> USE DEF CancelInit
<1>1. CancelTyped
  <2>1. /\ pc \in Stages /\ running \in Groups \cup {0}
        /\ cancelled \in BOOLEAN /\ told \subseteq Groups
    BY DEF Stages
  <2>4. command \in Groups /\ waited \in 0..GiveUpAt  BY DEF Groups
  <2>2. /\ leader \in [Groups -> {"none", "alive", "zombie", "reaped"}]
        /\ helpers \in [Groups -> SUBSET Helpers]
    OBVIOUS
  <2>3. handler \in [Kinds -> [at: {"armed", "cancelling", "killing", "done"},
                              read: Groups \cup {0}]]
    OBVIOUS
  <2> QED  BY <2>1, <2>2, <2>3, <2>4 DEF CancelTyped
<1>2. TellersCancelled /\ OrphansWereTold  BY DEF TellersCancelled, OrphansWereTold
<1>3. GroupAtStage /\ OneAtATime  BY DEF GroupAtStage, OneAtATime, Groups
<1> QED  BY <1>1, <1>2, <1>3 DEF CancelInv

\* The steps of the main thread that leave the processes alone.
LEMMA QuietKeeps ==
  ASSUME CancelInv, Enter \/ Note \/ Clear \/ DrainOrAsk \/ Ask
  PROVE  CancelInv'
<1> USE DEF CancelInv
<1>0. Untold /\ UNCHANGED <<cancelled, handler>> /\ pc # "terminated" /\ pc' # "terminated"
  BY DEF Enter, Note, Clear, DrainOrAsk, Ask, Goto, groupVars, Untold
<1>1. CancelTyped'
  <2>1. pc' \in Stages /\ waited' \in 0..GiveUpAt /\ running' \in Groups \cup {0}
    BY DEF CancelTyped, Enter, Note, Clear, DrainOrAsk, Ask, Goto, Stages, Ended
  <2>2. command' \in Groups
    BY DEF CancelTyped, Enter, Note, Clear, DrainOrAsk, Ask, Goto, Groups
  <2> QED  BY <1>0, <2>1, <2>2 DEF CancelTyped, Untold
<1>2. TellersCancelled' /\ OrphansWereTold'
  BY <1>0 DEF TellersCancelled, OrphansWereTold, Untold
<1>3. CASE ~Ask
  <2>1. command' = command  BY <1>3 DEF Enter, Note, Clear, DrainOrAsk, Goto
  <2>2. pc' = "ask" => ~Exists(command)
    BY <1>3, <1>0 DEF Enter, Note, Clear, DrainOrAsk, Goto, Exists, CancelTyped, TellersCancelled,
       OrphansWereTold, GroupAtStage
  <2>3. GroupAtStage'
    BY <1>3, <1>0, <2>1, <2>2 DEF Enter, Note, Clear, DrainOrAsk, Goto, GroupAtStage, Untold,
       Exists, CancelTyped
  <2>4. OneAtATime'  BY <1>0, <2>1 DEF OneAtATime, Untold, Exists
  <2> QED  BY <1>0, <1>1, <1>2, <2>3, <2>4
<1>4. CASE Ask
  <2>1. ~Exists(command)  BY <1>4, <1>0 DEF Ask, GroupAtStage
  <2>2. OneAtATime'
    BY <1>4, <1>0, <1>1, <2>1 DEF Ask, OneAtATime, Untold, Exists, CancelTyped, Groups
  <2>3. GroupAtStage'
    BY <1>4, <1>0, <2>1, <1>1 DEF Ask, OneAtATime, GroupAtStage, Untold, Exists, CancelTyped, Groups
  <2> QED  BY <1>0, <1>1, <1>2, <2>2, <2>3
<1> QED  BY <1>3, <1>4

\* The steps of the main thread that start, end or collect processes.
LEMMA GroupStepKeeps ==
  ASSUME CancelInv, Spawn \/ Recheck \/ Reap \/ Drain
  PROVE  CancelInv'
<1> USE DEF CancelInv
<1>0. /\ UNCHANGED <<cancelled, handler, command, running>>
      /\ pc # "terminated" /\ pc' # "terminated"
      /\ \A g \in Groups \ {command} : leader'[g] = leader[g] /\ helpers'[g] = helpers[g]
      /\ command \in Groups
  BY DEF Spawn, Recheck, Reap, Drain, Goto, groupVars, KillsNow, CancelTyped
<1>1. CancelTyped'
  <2>1. pc' \in Stages /\ waited' \in 0..GiveUpAt
    BY DEF CancelTyped, Spawn, Recheck, Reap, Drain, Goto, Stages
  <2>2. leader' \in [Groups -> {"none", "alive", "zombie", "reaped"}]
    BY DEF CancelTyped, Spawn, Recheck, Reap, Drain, Goto, groupVars
  <2>3. helpers' \in [Groups -> SUBSET Helpers]
    BY DEF CancelTyped, Spawn, Recheck, Reap, Drain, Goto, groupVars
  <2>4. told' \subseteq Groups
    BY DEF CancelTyped, Spawn, Recheck, Reap, Drain, Goto, groupVars, Terminate
  <2> QED  BY <1>0, <2>1, <2>2, <2>3, <2>4 DEF CancelTyped
<1>2. OneAtATime'
  BY <1>0 DEF OneAtATime, Exists, Groups, CancelTyped
<1>3. TellersCancelled'
  BY <1>0 DEF TellersCancelled, Spawn, Recheck, Reap, Drain, Goto, groupVars
<1>4. OrphansWereTold' /\ GroupAtStage'
  <2>1. CASE Spawn
    BY <2>1, <1>0 DEF Spawn, Goto, groupVars, OrphansWereTold, GroupAtStage, Exists, CancelTyped
  <2>2. CASE Recheck
    BY <2>2, <1>0 DEF Recheck, Goto, Terminate, OrphansWereTold, GroupAtStage, CancelTyped
  <2>3. CASE Reap
    BY <2>3, <1>0 DEF Reap, Goto, OrphansWereTold, GroupAtStage, CancelTyped
  <2>4. CASE Drain
    BY <2>4, <1>0 DEF Drain, KillsNow, Goto, groupVars, OrphansWereTold, GroupAtStage, Exists, CancelTyped
  <2> QED  BY <2>1, <2>2, <2>3, <2>4
<1> QED  BY <1>0, <1>1, <1>2, <1>3, <1>4

\* A signal, at whatever moment: it raises the flag, reads a group that may be
\* gone by the time it is told to end, or ends the program.
LEMMA HandlerKeeps ==
  ASSUME CancelInv, NEW k \in Kinds, Cancel(k) \/ Handler(k) \/ Again(k)
  PROVE  CancelInv'
<1> USE DEF CancelInv, Handler
<1>0. /\ UNCHANGED <<command, running, waited, leader, helpers>> /\ pc' \in {pc, "terminated"}
      /\ told \subseteq told' /\ told' \subseteq Groups /\ (cancelled => cancelled')
  BY DEF Cancel, ReadRunning, KillGroup, Again, At, Terminate, CancelTyped
<1>1. CancelTyped'
  <2>1. handler' \in [Kinds -> [at: {"armed", "cancelling", "killing", "done"},
                                read: Groups \cup {0}]]
    BY DEF CancelTyped, Cancel, ReadRunning, KillGroup, Again, At
  <2>2. cancelled' \in BOOLEAN /\ pc' \in Stages
    BY DEF CancelTyped, Cancel, ReadRunning, KillGroup, Again, Stages, Ended
  <2> QED  BY <1>0, <2>1, <2>2 DEF CancelTyped
<1>2. TellersCancelled'
  BY DEF TellersCancelled, CancelTyped, Cancel, ReadRunning, KillGroup, Again, At
<1>3. OrphansWereTold'  BY <1>0 DEF OrphansWereTold
<1>4. pc' # "terminated" => GroupAtStage' /\ OneAtATime'
  BY <1>0 DEF GroupAtStage, OneAtATime, Exists
<1> QED  BY <1>1, <1>2, <1>3, <1>4

\* The children: a group that is over starts nothing again.
LEMMA ChildrenKeep ==
  ASSUME CancelInv, NEW g \in Groups,
         LeaderExits(g) \/ \E h \in Helpers : Fork(g, h) \/ HelperExits(g, h)
  PROVE  CancelInv'
<1> USE DEF CancelInv
<1>0. UNCHANGED <<pc, command, running, waited, cancelled, handler, told>>
  BY DEF LeaderExits, Fork, HelperExits, mainVars
<1>1. CancelTyped'  BY <1>0 DEF CancelTyped, LeaderExits, Fork, HelperExits
<1>2. TellersCancelled'  BY <1>0 DEF TellersCancelled
<1>3. OrphansWereTold'
  BY <1>0 DEF OrphansWereTold, CancelTyped, LeaderExits, Fork, HelperExits
<1>4. \A i \in Groups : /\ Exists(i)' => Exists(i)
                        /\ leader[i] # "alive" => leader'[i] = leader[i] /\ helpers'[i] \subseteq helpers[i]
                        /\ leader[i] = "alive" => leader'[i] \in {"alive", "zombie"}
  BY DEF Exists, CancelTyped, LeaderExits, Fork, HelperExits
<1>5. ASSUME pc # "terminated" PROVE GroupAtStage' /\ OneAtATime'
  <2>1. command \in Groups  BY DEF CancelTyped
  <2>2. GroupAtStage'  BY <1>0, <1>4, <1>5, <2>1 DEF GroupAtStage
  <2>3. OneAtATime'  BY <1>0, <1>4, <1>5 DEF OneAtATime
  <2> QED  BY <2>2, <2>3
<1> QED  BY <1>0, <1>1, <1>2, <1>3, <1>5

LEMMA NextKeeps == CancelInv /\ [CancelNext]_cancelVars => CancelInv'
<1> SUFFICES ASSUME CancelInv, [CancelNext]_cancelVars PROVE CancelInv'  OBVIOUS
<1>1. CASE Main  BY <1>1, QuietKeeps, GroupStepKeeps DEF Main
<1>2. ASSUME NEW k \in Kinds, Cancel(k) \/ Handler(k) \/ Again(k) PROVE CancelInv'
  BY <1>2, HandlerKeeps
<1>3. ASSUME NEW g \in Groups,
             LeaderExits(g) \/ \E h \in Helpers : Fork(g, h) \/ HelperExits(g, h)
      PROVE  CancelInv'
  BY <1>3, ChildrenKeep
<1>4. CASE UNCHANGED cancelVars
  BY <1>4 DEF cancelVars, CancelInv, CancelTyped, TellersCancelled, OrphansWereTold, GroupAtStage,
     OneAtATime, Exists
<1> QED  BY <1>1, <1>2, <1>3, <1>4 DEF CancelNext

LEMMA InvariantHolds == CancelSpec => []CancelInv
BY InitInv, NextKeeps, PTL DEF CancelSpec

\* Nothing is told to end, and no signal handler runs, before the build is
\* cancelled: an untouched build's processes end by themselves.
THEOREM OnlyACancelledBuildIsTold == CancelSpec => [](told # {} => cancelled)
<1>1. CancelInv => (told # {} => cancelled)  BY DEF CancelInv, TellersCancelled
<1> QED  BY InvariantHolds, <1>1, PTL

\* A build that is over, finished or interrupted, has left no process of any of
\* its commands, not even a helper that ignored SIGTERM and outlived its leader.
THEOREM NothingIsLeft == CancelSpec => []NothingLeftRunning
<1>1. CancelInv => NothingLeftRunning
  <2> SUFFICES ASSUME CancelInv, pc \in {"finished", "interrupted"}, NEW g \in Groups
               PROVE  ~Exists(g)
    BY DEF NothingLeftRunning
  <2>1. CancelTyped /\ OrphansWereTold /\ GroupAtStage /\ OneAtATime  BY DEF CancelInv
  <2>2. CASE g > command  BY <2>1, <2>2 DEF OneAtATime, OrphansWereTold, Exists
  <2>3. CASE g <= command
    BY <2>1, <2>3 DEF OneAtATime, GroupAtStage, CancelTyped, Groups
  <2> QED  BY <2>2, <2>3, <2>1 DEF CancelTyped, Groups
<1> QED  BY InvariantHolds, <1>1, PTL

HIDE CancelAssumption

-----------------------------------------------------------------------------
(* The cache. *)

USE ContentsAssumption, BoundsAssumption DEF Over

\* The part of TypeOK that CacheInv's other conjuncts rest on is stable when
\* one run changes and the world does not.
LEMMA StepKeepsRuns ==
  ASSUME CacheInv, NEW p \in Procs, NEW r \in Runs, RunOK(r, disk, copied),
         r.filled # "none" => r.pc \notin Over,
         Step(p, r), UNCHANGED <<disk, copied>>
  PROVE  /\ run' \in [Procs -> Runs]
         /\ \A q \in Procs : HoldsStage(q)' => Alive(q)'
         /\ \A q \in Procs : RunOK(run[q], disk, copied)'
<1> USE DEF CacheInv, TypeOK, Step
<1>1. \A q \in Procs : run'[q] = IF q = p THEN r ELSE run[q]  OBVIOUS
<1>2. run' \in [Procs -> Runs]  OBVIOUS
<1>3. \A q \in Procs : HoldsStage(q)' => Alive(q)'  BY <1>1 DEF HoldsStage, Alive
<1>4. ASSUME NEW q \in Procs PROVE RunOK(run'[q], disk, copied)  BY <1>1
<1> QED  BY <1>2, <1>3, <1>4

\* A run that only changes its own record keeps the invariant when the record
\* is a sound one.
LEMMA GoesKeeps ==
  ASSUME CacheInv, NEW p \in Procs, NEW r \in Runs, RunOK(r, disk, copied),
         r.filled # "none" => r.pc \notin Over,
         Goes(p, r)
  PROVE  CacheInv'
<1> USE DEF Goes
<1>1. /\ run' \in [Procs -> Runs]
      /\ \A q \in Procs : HoldsStage(q)' => Alive(q)'
      /\ \A q \in Procs : RunOK(run[q], disk, copied)'
  BY StepKeepsRuns
<1>2. TypeOK'  BY <1>1 DEF CacheInv, TypeOK
<1> QED  BY <1>1, <1>2 DEF CacheInv, EntriesMatchKeys

\* The record of a run that has left build() is sound.
LEMMA IdleSound ==
  ASSUME CacheInv, NEW p \in Procs,
         NEW goal \in {"sweep", "ended", "interrupted", "unloadable", "failed", "killed"}
  PROVE  /\ Idle(p, goal) \in Runs /\ Idle(p, goal).filled = "none" /\ Idle(p, goal).pc = goal
         /\ RunOK(Idle(p, goal), disk, copied)
<1>1. run[p] \in Runs  BY DEF CacheInv, TypeOK
<1>2. Nothing \in Reading  BY DEF Nothing, Reading
<1>a. [f \in Files |-> 0] \in Stamps  BY DEF Stamps
<1>b. Fresh \in Runs  BY <1>2, <1>a DEF Fresh, Runs, Pcs
<1>c. /\ run[p].stored \in BOOLEAN /\ run[p].disturbed \in BOOLEAN
      /\ run[p].loaded \in Reading \cup {Bad} /\ goal \in Pcs
  BY <1>1 DEF Runs, Pcs
<1>3. Idle(p, goal) \in Runs
  BY <1>b, <1>c DEF Idle, Runs
<1>4. /\ Idle(p, goal).pc = goal /\ Idle(p, goal).filled = "none" /\ Idle(p, goal).built = Nothing
      /\ Idle(p, goal).content = Nothing /\ Idle(p, goal).copy = Nothing /\ Idle(p, goal).snapshot = Nothing
  BY DEF Idle, Fresh
<1> QED  BY <1>3, <1>4 DEF RunOK, BeforeStamp, Hashing, Unbuilding, Building, Storing

\* build() ending early keeps the invariant.
LEMMA GivesKeeps ==
  ASSUME CacheInv, NEW p \in Procs, NEW goal \in {"interrupted", "failed"}, Gives(p, goal)
  PROVE  CacheInv'
<1> USE DEF Gives
<1>1. /\ run' \in [Procs -> Runs]
      /\ \A q \in Procs : HoldsStage(q)' => Alive(q)'
      /\ \A q \in Procs : RunOK(run[q], disk, copied)'
  BY StepKeepsRuns, IdleSound
<1>2. dirs' \subseteq dirs  BY DEF LeaveBuild
<1>3. TypeOK'  BY <1>1, <1>2 DEF CacheInv, TypeOK
<1> QED  BY <1>1, <1>3 DEF CacheInv, EntriesMatchKeys


\* What every step of a run starts from.
LEMMA RunTyped == ASSUME CacheInv, NEW p \in Procs PROVE run[p] \in Runs
BY DEF CacheInv, TypeOK

LEMMA RunFacts ==
  ASSUME CacheInv, NEW p \in Procs
  PROVE  /\ run[p] \in Runs /\ RunOK(run[p], disk, copied)
         /\ run[p].filled # "none" =>
              run[p].pc \notin Over
         /\ StateOf(p) \in Stamps
         /\ \A f \in Files : disk[f].content \in Contents \cup {None} /\ disk[f].stamp \in 0..MaxEdits
         /\ run[p].files \subseteq Files /\ Stamped(p) \subseteq Files
<1> USE DEF CacheInv, TypeOK
<1>1. run[p] \in Runs /\ RunOK(run[p], disk, copied)  OBVIOUS
<1>2. run[p].filled # "none" =>
        run[p].pc \notin Over
  BY DEF HoldsStage, Alive
<1>3. \A f \in Files : disk[f].content \in Contents \cup {None} /\ disk[f].stamp \in 0..MaxEdits
  OBVIOUS
<1>4. StateOf(p) \in Stamps  BY <1>3 DEF StateOf, Stamps
<1>5. run[p].files \subseteq Files  BY <1>1 DEF Runs
<1>6. Stamped(p) \subseteq Files  BY <1>5 DEF Stamped, Files
<1> QED  BY <1>1, <1>2, <1>3, <1>4, <1>5, <1>6

LEMMA ScanKeeps == ASSUME CacheInv, NEW p \in Procs, Scan(p) PROVE CacheInv'
<1> DEFINE r == [run[p] EXCEPT !.pc = "swept", !.doomed = {d \in dirs : ~Alive(d.owner)}]
<1>a. "swept" \in Pcs  BY DEF Pcs
<1>b. {d \in dirs : ~Alive(d.owner)} \in SUBSET Dirs  BY DEF CacheInv, TypeOK
<1>1. r \in Runs  BY <1>a, <1>b, RunTyped, ZenonT(40) DEF Runs
<1>2. RunOK(r, disk, copied)
  <2>1. /\ r.content = Nothing /\ r.copy = Nothing /\ r.snapshot = Nothing /\ r.built = Nothing
        /\ r.pc = "swept"
    BY RunFacts DEF Scan, RunOK, Runs, BeforeStamp
  <2> QED  BY <2>1 DEF RunOK, BeforeStamp, Hashing, Unbuilding, Building, Storing
<1>3. Goes(p, r)  BY DEF Scan
<1> HIDE DEF r
<1>4. r.filled # "none" => r.pc \notin Over
  BY DEF r, Runs
<1> QED  BY <1>1, <1>2, <1>3, <1>4, GoesKeeps

LEMMA CheckKeeps == ASSUME CacheInv, NEW p \in Procs, Check(p) PROVE CacheInv'
<1> DEFINE files == {"main", Included(disk)}
           r == [run[p] EXCEPT !.pc = "stamp", !.files = files]
<1>1. CASE Goes(p, r)
  <2>a. "stamp" \in Pcs  BY DEF Pcs
  <2>b. files \in SUBSET Files  BY DEF Included, Files
  <2>1. r \in Runs  BY <2>a, <2>b, RunTyped, ZenonT(40) DEF Runs
  <2>2. RunOK(r, disk, copied)
    <3>1. /\ r.content = Nothing /\ r.copy = Nothing /\ r.snapshot = Nothing /\ r.built = Nothing
          /\ r.pc = "stamp" /\ r.files \in {{"main", "header"}, {"main", "shadow"}}
      BY RunFacts DEF Check, RunOK, Runs, BeforeStamp, Included
    <3> QED  BY <3>1 DEF RunOK, BeforeStamp, Hashing, Unbuilding, Building, Storing
  <2>3. r.pc = "stamp"  BY RunFacts DEF Runs
  <2> QED  BY <1>1, <2>1, <2>2, <2>3, GoesKeeps
<1>2. CASE Gives(p, "failed")  BY <1>2, GivesKeeps
<1> QED  BY <1>1, <1>2 DEF Check

LEMMA StampKeeps == ASSUME CacheInv, NEW p \in Procs, Stamp(p) PROVE CacheInv'
<1> DEFINE r == [run[p] EXCEPT !.pc = "hash", !.stamp = StateOf(p)]
<1>1. CASE Goes(p, r)
  <2>a. "hash" \in Pcs /\ StateOf(p) \in Stamps  BY RunFacts DEF Pcs
  <2>1. r \in Runs  BY <2>a, RunTyped, ZenonT(40) DEF Runs
  <2>2. r.pc = "hash"  BY RunFacts DEF Runs
  <2>b. /\ r.content = Nothing /\ r.copy = Nothing /\ r.snapshot = Nothing /\ r.built = Nothing
        /\ r.files \in {{"main", "header"}, {"main", "shadow"}} /\ r.stamp = StateOf(p)
        /\ r.files = run[p].files
    BY RunFacts DEF Stamp, RunOK, Runs, BeforeStamp
  <2>c. \A f \in r.files \cup {"engine"} : Tied(r, f, disk)
    BY <2>b, RunFacts DEF Tied, StateOf, Stamped, Nothing, Files
  <2>3. RunOK(r, disk, copied)
    BY <2>2, <2>b, <2>c DEF RunOK, BeforeStamp, Hashing, Unbuilding, Building, Storing, Nothing, Files
  <2> QED  BY <1>1, <2>1, <2>2, <2>3, GoesKeeps
<1>2. CASE Gives(p, "failed")  BY <1>2, GivesKeeps
<1> QED  BY <1>1, <1>2 DEF Stamp


LEMMA HashKeeps == ASSUME CacheInv, NEW p \in Procs, Hash(p) PROVE CacheInv'
<1>1. CASE Gives(p, "failed")  BY <1>1, GivesKeeps
<1>2. ASSUME NEW f \in Unhashed(p), Present({f}),
             Goes(p, [run[p] EXCEPT !.content[f] = disk[f].content,
                                    !.pc = IF Unhashed(p) = {f} THEN "restamp" ELSE "hash"])
      PROVE  CacheInv'
  <2> DEFINE goal == IF Unhashed(p) = {f} THEN "restamp" ELSE "hash"
             r == [run[p] EXCEPT !.content[f] = disk[f].content, !.pc = goal]
  <2>1. f \in run[p].files /\ f \in Files /\ disk[f].content \in Contents \cup {None} /\ disk[f].content # None
    BY <1>2, RunFacts DEF Unhashed, Present
  <2>2. goal \in Pcs  BY DEF Pcs
  <2>a. [run[p].content EXCEPT ![f] = disk[f].content] \in Reading
    BY <2>1, RunFacts DEF Runs, Reading
  <2>3. r \in Runs  BY <2>a, <2>2, RunTyped, ZenonT(40) DEF Runs
  <2>4. /\ r.pc = goal /\ r.files = run[p].files /\ r.stamp = run[p].stamp /\ r.built = run[p].built
        /\ r.copy = run[p].copy /\ r.snapshot = run[p].snapshot
        /\ r.content = [run[p].content EXCEPT ![f] = disk[f].content]
    BY RunFacts DEF Runs
  <2>5. \A g \in Files : r.content[g] = IF g = f THEN disk[f].content ELSE run[p].content[g]
    BY <2>1, <2>4, RunFacts DEF Runs, Reading
  <2>6. run[p].pc = "hash"  BY DEF Hash
  <2>7. \A g \in r.files \cup {"engine"} : Tied(r, g, disk)
    BY <2>4, <2>5, <2>6, RunFacts DEF Tied, RunOK, Hashing, Files
  <2>8. goal = "hash" => \E g \in r.files : r.content[g] = None
    BY <2>1, <2>4, <2>5, RunFacts DEF Unhashed
  <2>9. goal = "restamp" => \A g \in r.files : r.content[g] # None
    BY <2>1, <2>4, <2>5, RunFacts DEF Unhashed
  <2>10. r.files \in {{"main", "header"}, {"main", "shadow"}}
         /\ r.built = Nothing /\ r.snapshot = Nothing /\ r.copy = Nothing
    BY <2>4, <2>6, RunFacts DEF RunOK, Hashing
  <2>11. \A g \in Files : g \notin r.files \cup {"engine"} => r.content[g] = None
    BY <2>1, <2>4, <2>5, <2>6, RunFacts DEF RunOK, Hashing
  <2> HIDE DEF r
  <2>12. RunOK(r, disk, copied)
    BY <2>4, <2>7, <2>8, <2>9, <2>10, <2>11
    DEF RunOK, BeforeStamp, Hashing, Unbuilding, Building, Storing, goal
  <2>13. Goes(p, r)  BY <1>2 DEF r
  <2> QED  BY <2>3, <2>4, <2>12, <2>13, GoesKeeps
<1> QED  BY <1>1, <1>2 DEF Hash

LEMMA RestampKeeps == ASSUME CacheInv, NEW p \in Procs, Restamp(p) PROVE CacheInv'
<1> DEFINE r == [run[p] EXCEPT !.pc = "lookup", !.snapshot = ContentOf(run[p].files)]
<1>1. CASE Gives(p, "failed")  BY <1>1, GivesKeeps
<1>2. CASE HashingUndisturbed(p) /\ Goes(p, r)
  <2>1. "lookup" \in Pcs /\ ContentOf(run[p].files) \in Reading
    BY RunFacts DEF Pcs, ContentOf, Reading
  <2>2. r \in Runs  BY <2>1, RunTyped, ZenonT(40) DEF Runs
  <2>3. /\ r.pc = "lookup" /\ r.files = run[p].files /\ r.stamp = run[p].stamp /\ r.built = run[p].built
        /\ r.copy = run[p].copy /\ r.content = run[p].content
        /\ r.snapshot = ContentOf(run[p].files)
    BY RunFacts DEF Runs
  <2>4. run[p].pc = "restamp"  BY DEF Restamp
  <2>5. \A f \in run[p].files : disk[f].stamp = run[p].stamp[f]
    BY <1>2, RunFacts DEF HashingUndisturbed, StateOf, Stamped
  <2>6. \A f \in r.files : r.content[f] = r.snapshot[f]
    BY <2>3, <2>4, <2>5, RunFacts DEF RunOK, Hashing, Tied, ContentOf
  <2>7. \A f \in r.files \cup {"engine"} : Tied(r, f, disk)
    BY <2>3, <2>4, RunFacts DEF Tied, RunOK, Hashing
  <2>8. /\ r.files \in {{"main", "header"}, {"main", "shadow"}} /\ r.copy = Nothing /\ r.built = Nothing
        /\ \A f \in r.files : r.content[f] # None
        /\ \A f \in Files : f \notin r.files \cup {"engine"} => r.content[f] = None
    BY <2>3, <2>4, RunFacts DEF RunOK, Hashing
  <2> HIDE DEF r
  <2>9. RunOK(r, disk, copied)
    BY <2>3, <2>6, <2>7, <2>8 DEF RunOK, BeforeStamp, Hashing, Unbuilding, Building, Storing
  <2> QED  BY <1>2, <2>2, <2>3, <2>9, GoesKeeps
<1> QED  BY <1>1, <1>2 DEF Restamp

LEMMA LookupKeeps == ASSUME CacheInv, NEW p \in Procs, Lookup(p) PROVE CacheInv'
<1>1. PICK goal \in {"load", "discard", "stage"}, reused \in BOOLEAN :
        Goes(p, [run[p] EXCEPT !.content["engine"] = disk["engine"].content, !.pc = goal, !.reused = reused])
  <2>1. run[p].reused \in BOOLEAN  BY RunFacts DEF Runs
  <2> DEFINE r == [run[p] EXCEPT !.content["engine"] = disk["engine"].content]
  <2>2. CASE Goes(p, [r EXCEPT !.pc = "load", !.reused = TRUE])
    <3>1. [r EXCEPT !.pc = "load", !.reused = TRUE] =
          [run[p] EXCEPT !.content["engine"] = disk["engine"].content, !.pc = "load", !.reused = TRUE]
      BY RunFacts DEF Runs
    <3> QED  BY <2>2, <3>1
  <2>3. ASSUME NEW goal \in {"discard", "stage"}, Goes(p, [r EXCEPT !.pc = goal])
        PROVE \E reused \in BOOLEAN :
          Goes(p, [run[p] EXCEPT !.content["engine"] = disk["engine"].content, !.pc = goal, !.reused = reused])
    <3>1. [r EXCEPT !.pc = goal] =
          [run[p] EXCEPT !.content["engine"] = disk["engine"].content, !.pc = goal, !.reused = run[p].reused]
      BY RunFacts DEF Runs
    <3> QED  BY <2>1, <2>3, <3>1
  <2> QED  BY <2>2, <2>3 DEF Lookup
<1> DEFINE r == [run[p] EXCEPT !.content["engine"] = disk["engine"].content, !.pc = goal, !.reused = reused]
<1>2. "engine" \in Files /\ disk["engine"].content \in Contents \cup {None} /\ disk["engine"].content # None
  BY RunFacts DEF Files, CacheInv
<1>3. goal \in Pcs  BY DEF Pcs
<1>a. [run[p].content EXCEPT !["engine"] = disk["engine"].content] \in Reading
  BY <1>2, RunFacts DEF Runs, Reading
<1>4. r \in Runs  BY <1>a, <1>3, RunTyped, ZenonT(40) DEF Runs
<1>5. /\ r.pc = goal /\ r.files = run[p].files /\ r.stamp = run[p].stamp /\ r.built = run[p].built
      /\ r.copy = run[p].copy /\ r.snapshot = run[p].snapshot
      /\ r.content = [run[p].content EXCEPT !["engine"] = disk["engine"].content]
  BY RunFacts DEF Runs
<1>6. \A g \in Files : r.content[g] = IF g = "engine" THEN disk["engine"].content ELSE run[p].content[g]
  BY <1>5, RunFacts DEF Runs, Reading
<1>7. run[p].pc = "lookup"  BY DEF Lookup
<1>8. r.files \in {{"main", "header"}, {"main", "shadow"}} /\ r.copy = Nothing /\ r.built = Nothing
  BY <1>5, <1>7, RunFacts DEF RunOK, Unbuilding
<1>9. \A g \in r.files \cup {"engine"} : Tied(r, g, disk)
  BY <1>5, <1>6, <1>7, <1>8, RunFacts DEF Tied, RunOK, Unbuilding, Files
<1>10. /\ \A f \in r.files : r.content[f] # None
       /\ \A f \in Files : f \notin r.files \cup {"engine"} => r.content[f] = None
       /\ r.snapshot # Nothing => \A f \in r.files : r.content[f] = r.snapshot[f]
  BY <1>5, <1>6, <1>7, <1>8, RunFacts DEF RunOK, Unbuilding, Files
<1>11. r.content["engine"] # None  BY <1>2, <1>6
<1>12. Goes(p, r)  BY <1>1
<1> HIDE DEF r
<1>13. RunOK(r, disk, copied)
  BY <1>5, <1>8, <1>9, <1>10, <1>11
  DEF RunOK, BeforeStamp, Hashing, Unbuilding, Building, Storing
<1> QED  BY <1>4, <1>5, <1>12, <1>13, GoesKeeps


LEMMA CopyKeeps == ASSUME CacheInv, NEW p \in Procs, CopyFile(p) PROVE CacheInv'
<1>1. CASE Gives(p, "failed")  BY <1>1, GivesKeeps
<1>2. ASSUME NEW f \in Uncopied(p), Goes(p, [run[p] EXCEPT !.copy[f] = disk[f].content])
      PROVE  CacheInv'
  <2> DEFINE r == [run[p] EXCEPT !.copy[f] = disk[f].content]
  <2>1. f \in Files /\ disk[f].content \in Contents \cup {None}  BY RunFacts DEF Uncopied
  <2>2. [run[p].copy EXCEPT ![f] = disk[f].content] \in Reading
    BY <2>1, RunFacts DEF Runs, Reading
  <2>3. r \in Runs  BY <2>2, RunTyped, ZenonT(40) DEF Runs
  <2>4. /\ r.pc = "copy" /\ r.files = run[p].files /\ r.stamp = run[p].stamp /\ r.built = run[p].built
        /\ r.content = run[p].content /\ r.snapshot = run[p].snapshot
    BY RunFacts DEF Runs, CopyFile
  <2>5. run[p].pc = "copy" /\ Goes(p, r)  BY <1>2 DEF CopyFile
  <2>6. /\ r.files \in {{"main", "header"}, {"main", "shadow"}} /\ r.built = Nothing
        /\ \A g \in r.files \cup {"engine"} : Tied(r, g, disk)
        /\ \A g \in r.files : r.content[g] # None
        /\ r.content["engine"] # None
        /\ \A g \in Files : g \notin r.files \cup {"engine"} => r.content[g] = None
        /\ r.snapshot # Nothing => \A g \in r.files : r.content[g] = r.snapshot[g]
    BY <2>4, <2>5, RunFacts DEF RunOK, Unbuilding, Tied
  <2> HIDE DEF r
  <2>7. RunOK(r, disk, copied)
    BY <2>4, <2>6 DEF RunOK, BeforeStamp, Hashing, Unbuilding, Building, Storing
  <2> QED  BY <2>3, <2>4, <2>5, <2>7, GoesKeeps
<1> QED  BY <1>1, <1>2 DEF CopyFile

LEMMA CheckCopiesKeeps == ASSUME CacheInv, NEW p \in Procs, CheckCopies(p) PROVE CacheInv'
<1> DEFINE r == [run[p] EXCEPT !.pc = "compile"]
<1>1. CASE Gives(p, "failed")  BY <1>1, GivesKeeps
<1>2. CASE CopiesMatch(p) /\ Goes(p, r)
  <2>1. "compile" \in Pcs  BY DEF Pcs
  <2>2. r \in Runs  BY <2>1, RunTyped, ZenonT(40) DEF Runs
  <2>3. /\ r.pc = "compile" /\ r.files = run[p].files /\ r.stamp = run[p].stamp /\ r.built = run[p].built
        /\ r.content = run[p].content /\ r.snapshot = run[p].snapshot /\ r.copy = run[p].copy
    BY RunFacts DEF Runs
  <2>4. run[p].pc = "copy"  BY DEF CheckCopies
  <2>5. r.built = Nothing /\ BuiltTied(r, "engine", disk)
    BY <2>3, <2>4, RunFacts DEF RunOK, Unbuilding, Nothing, BuiltTied, Files
  <2>6. \A f \in r.files : /\ r.copy[f] = r.content[f] /\ r.built[f] \in {None, r.copy[f]}
                          /\ BuiltTied(r, f, disk)
    BY <1>2, <2>3, <2>5, RunFacts DEF CopiesMatch, Nothing, BuiltTied
  <2>7. /\ r.files \in {{"main", "header"}, {"main", "shadow"}}
        /\ \A f \in r.files \cup {"engine"} : Tied(r, f, disk)
        /\ \A f \in r.files : r.content[f] # None
        /\ r.content["engine"] # None
        /\ \A f \in Files : f \notin r.files \cup {"engine"} => r.content[f] = None
        /\ r.snapshot # Nothing => \A f \in r.files : r.content[f] = r.snapshot[f]
    BY <2>3, <2>4, RunFacts DEF RunOK, Unbuilding, Tied
  <2> HIDE DEF r
  <2>8. RunOK(r, disk, copied)
    BY <2>3, <2>5, <2>6, <2>7 DEF RunOK, BeforeStamp, Hashing, Unbuilding, Building, Storing
  <2> QED  BY <1>2, <2>2, <2>3, <2>8, GoesKeeps
<1> QED  BY <1>1, <1>2 DEF CheckCopies

LEMMA CompileKeeps == ASSUME CacheInv, NEW p \in Procs, Compile(p) PROVE CacheInv'
<1>1. CASE Gives(p, "failed")  BY <1>1, GivesKeeps
<1>2. ASSUME NEW f \in Unbuilt(p), BuildRead(p, f) # None,
             Goes(p, [run[p] EXCEPT !.built[f] = BuildRead(p, f)])
      PROVE  CacheInv'
  <2> DEFINE r == [run[p] EXCEPT !.built[f] = BuildRead(p, f)]
  <2>0. run[p].pc = "compile"  BY DEF Compile
  <2>1. f \in Files  BY RunFacts DEF Unbuilt, Sources, Included, Files
  <2>2. BuildRead(p, f) \in Contents \cup {None}  BY <2>1, RunFacts DEF BuildRead, Runs, Reading
  <2>3. [run[p].built EXCEPT ![f] = BuildRead(p, f)] \in Reading
    BY <2>1, <2>2, RunFacts DEF Runs, Reading
  <2>4. r \in Runs  BY <2>3, RunTyped, ZenonT(40) DEF Runs
  <2>5. /\ r.pc = "compile" /\ r.files = run[p].files /\ r.stamp = run[p].stamp
        /\ r.built = [run[p].built EXCEPT ![f] = BuildRead(p, f)]
        /\ r.content = run[p].content /\ r.snapshot = run[p].snapshot /\ r.copy = run[p].copy
    BY <2>0, RunFacts DEF Runs
  <2>6. \A g \in Files : r.built[g] = IF g = f THEN BuildRead(p, f) ELSE run[p].built[g]
    BY <2>5, RunFacts DEF Runs, Reading
  <2>7. "engine" \in Files /\ r.files \in {{"main", "header"}, {"main", "shadow"}}
    BY <2>0, <2>5, RunFacts DEF RunOK, Building, Files
  <2>8. BuiltTied(r, "engine", disk)
    BY <2>0, <2>5, <2>6, <2>7, RunFacts DEF RunOK, Building, BuiltTied, BuildRead
  <2>9. ASSUME NEW g \in r.files
        PROVE  IF copied THEN r.copy[g] = r.content[g] /\ r.built[g] \in {None, r.copy[g]}
               ELSE BuiltTied(r, g, disk)
    BY <2>0, <2>5, <2>6, <2>7, <2>9, RunFacts DEF RunOK, Building, BuiltTied, BuildRead, Files
  <2>10. /\ \A g \in r.files \cup {"engine"} : Tied(r, g, disk)
         /\ \A g \in r.files : r.content[g] # None
         /\ r.content["engine"] # None
         /\ \A g \in Files : g \notin r.files \cup {"engine"} => r.content[g] = None
         /\ r.snapshot # Nothing => \A g \in r.files : r.content[g] = r.snapshot[g]
    BY <2>0, <2>5, RunFacts DEF RunOK, Building, Tied
  <2>11. Goes(p, r)  BY <1>2
  <2> HIDE DEF r
  <2>12. RunOK(r, disk, copied)
    BY <2>5, <2>7, <2>8, <2>9, <2>10 DEF RunOK, BeforeStamp, Hashing, Unbuilding, Building, Storing
  <2> QED  BY <2>4, <2>5, <2>11, <2>12, GoesKeeps
<1> QED  BY <1>1, <1>2 DEF Compile


LEMMA CompiledKeeps == ASSUME CacheInv, NEW p \in Procs, Compiled(p) PROVE CacheInv'
<1> DEFINE r == [run[p] EXCEPT !.pc = "verify"]
<1>0. run[p].pc = "compile" /\ Goes(p, r)  BY DEF Compiled
<1>1. "verify" \in Pcs  BY DEF Pcs
<1>2. r \in Runs  BY <1>1, RunTyped, ZenonT(40) DEF Runs
<1>3. /\ r.pc = "verify" /\ r.files = run[p].files /\ r.stamp = run[p].stamp /\ r.built = run[p].built
      /\ r.content = run[p].content /\ r.snapshot = run[p].snapshot /\ r.copy = run[p].copy
  BY RunFacts DEF Runs
<1>4. /\ r.built["engine"] # None /\ r.built["main"] # None
      /\ r.built["header"] # None \/ r.built["shadow"] # None
  <2>1. Unbuilt(p) = {}  BY DEF Compiled
  <2>2. "engine" \in Built(p) /\ "main" \in Built(p)  BY <2>1 DEF Unbuilt
  <2>3. \E x \in {"header", "shadow"} : x \in Sources(p) \ {"main"}
    BY <1>0, RunFacts DEF Sources, Included, RunOK, Building
  <2>4. Built(p) \cap {"header", "shadow"} # {}  BY <2>1, <2>3 DEF Unbuilt
  <2> QED  BY <1>3, <2>2, <2>4 DEF Built
<1>5. /\ r.files \in {{"main", "header"}, {"main", "shadow"}}
      /\ \A g \in r.files \cup {"engine"} : Tied(r, g, disk)
      /\ BuiltTied(r, "engine", disk)
      /\ \A g \in r.files : IF copied THEN r.copy[g] = r.content[g] /\ r.built[g] \in {None, r.copy[g]}
                            ELSE BuiltTied(r, g, disk)
      /\ \A g \in r.files : r.content[g] # None
      /\ r.content["engine"] # None
      /\ \A g \in Files : g \notin r.files \cup {"engine"} => r.content[g] = None
      /\ r.snapshot # Nothing => \A g \in r.files : r.content[g] = r.snapshot[g]
  BY <1>0, <1>3, RunFacts DEF RunOK, Building, Tied, BuiltTied
<1> HIDE DEF r
<1>6. RunOK(r, disk, copied)
  BY <1>3, <1>4, <1>5 DEF RunOK, BeforeStamp, Hashing, Unbuilding, Building, Storing
<1> QED  BY <1>0, <1>2, <1>3, <1>6, GoesKeeps

\* The heart of it: a build that read only the files that were checked, whose
\* stamps are those taken before they were hashed, compiled what was hashed.
LEMMA VerifiedIsKeyed ==
  ASSUME CacheInv, NEW p \in Procs, run[p].pc = "verify", ReadOnlyChecked(p), Unchanged(p)
  PROVE  run[p].built = run[p].content
<1> DEFINE r == run[p]
<1>1. r \in Runs /\ RunOK(r, disk, copied)  BY RunFacts
<1>2. \A f \in r.files \cup {"engine"} : r.stamp[f] = disk[f].stamp
  BY RunFacts DEF Unchanged, StateOf, Stamped
<1>3. \A f \in r.files \cup {"engine"} : r.content[f] = disk[f].content
  BY <1>1, <1>2 DEF RunOK, Building, Tied
<1>4. r.built["engine"] = r.content["engine"]
  BY <1>1, <1>2, <1>3 DEF RunOK, Building, BuiltTied
<1>5. \A f \in r.files : r.built[f] \in {None, r.content[f]}
  BY <1>1, <1>2, <1>3 DEF RunOK, Building, BuiltTied
<1>6. \A f \in Files : f # "engine" /\ f \notin r.files => r.built[f] = None
  BY DEF ReadOnlyChecked, Built
<1>7. \A f \in r.files : r.built[f] # None
  BY <1>1, <1>6 DEF RunOK, Building, Files
<1>8. \A f \in Files : r.built[f] = r.content[f]
  BY <1>1, <1>4, <1>5, <1>6, <1>7 DEF RunOK, Building
<1> QED  BY <1>1, <1>8 DEF Runs, Reading

LEMMA VerifyKeeps == ASSUME CacheInv, NEW p \in Procs, Verify(p) PROVE CacheInv'
<1> DEFINE r == [run[p] EXCEPT !.pc = "fill"]
<1>1. CASE Gives(p, "failed")  BY <1>1, GivesKeeps
<1>2. CASE ReadOnlyChecked(p) /\ Unchanged(p) /\ Goes(p, r)
  <2>1. "fill" \in Pcs  BY DEF Pcs
  <2>2. r \in Runs  BY <2>1, RunTyped, ZenonT(40) DEF Runs
  <2>3. /\ r.pc = "fill" /\ r.files = run[p].files /\ r.stamp = run[p].stamp /\ r.built = run[p].built
        /\ r.content = run[p].content /\ r.snapshot = run[p].snapshot /\ r.copy = run[p].copy
    BY RunFacts DEF Runs
  <2>4. run[p].pc = "verify"  BY DEF Verify
  <2>5. r.built = r.content  BY <1>2, <2>3, <2>4, VerifiedIsKeyed
  <2>6. /\ r.files \in {{"main", "header"}, {"main", "shadow"}}
        /\ \A g \in r.files \cup {"engine"} : Tied(r, g, disk)
        /\ \A g \in Files : g \notin r.files \cup {"engine"} => r.content[g] = None
        /\ r.snapshot # Nothing => \A g \in r.files : r.content[g] = r.snapshot[g]
    BY <2>3, <2>4, RunFacts DEF RunOK, Building, Tied
  <2> HIDE DEF r
  <2>7. RunOK(r, disk, copied)
    BY <2>3, <2>5, <2>6 DEF RunOK, BeforeStamp, Hashing, Unbuilding, Building, Storing
  <2> QED  BY <1>2, <2>2, <2>3, <2>7, GoesKeeps
<1> QED  BY <1>1, <1>2 DEF Verify


\* From the verification on, a run's soundness is carried by fields that only
\* the end of the run changes.
LEMMA LateSound ==
  ASSUME NEW r0 \in Runs, RunOK(r0, disk, copied), NEW r \in Runs,
         \/ r0.pc \in Storing /\ r.pc \in Storing \cup Loading
         \/ r0.pc \in Loading /\ r.pc \in Loading,
         r.pc \in Storing \ {"fill"} => r.filled = "whole",
         r.files = r0.files, r.stamp = r0.stamp, r.content = r0.content, r.built = r0.built,
         r.snapshot = r0.snapshot
  PROVE  RunOK(r, disk, copied)
<1>1. r0.pc \in Storing =>
        /\ r.files \in {{"main", "header"}, {"main", "shadow"}} /\ r.built = r.content
        /\ \A g \in r.files \cup {"engine"} : Tied(r, g, disk)
        /\ \A g \in Files : g \notin r.files \cup {"engine"} => r.content[g] = None
  BY DEF RunOK, Storing, Tied
<1>2. r.snapshot # Nothing => \A g \in r.files : r.content[g] = r.snapshot[g]
  BY DEF RunOK
<1> QED
  BY <1>1, <1>2 DEF RunOK, BeforeStamp, Hashing, Unbuilding, Building, Storing, Loading

LEMMA FillKeeps == ASSUME CacheInv, NEW p \in Procs, Fill(p) PROVE CacheInv'
<1> DEFINE goal == IF Filled(p) = "whole" THEN "publish" ELSE "fill"
           r == [run[p] EXCEPT !.filled = Filled(p), !.pc = goal]
<1>1. CASE Gives(p, "failed")  BY <1>1, GivesKeeps
<1>2. CASE Goes(p, r)
  <2>1. goal \in Pcs /\ Filled(p) \in {"none", "empty", "module", "whole"}  BY DEF Pcs, Filled
  <2>2. r \in Runs  BY <2>1, RunTyped, ZenonT(40) DEF Runs
  <2>3. /\ r.pc = goal /\ r.files = run[p].files /\ r.stamp = run[p].stamp /\ r.built = run[p].built
        /\ r.content = run[p].content /\ r.snapshot = run[p].snapshot /\ r.filled = Filled(p)
    BY RunFacts DEF Runs
  <2>4. run[p].pc \in Storing /\ r.pc \in {"fill", "publish"} /\ (r.pc = "publish" => r.filled = "whole")
    BY <2>3 DEF Fill, Storing
  <2>5. RunOK(r, disk, copied)  BY <2>2, <2>3, <2>4, RunFacts, LateSound DEF Storing
  <2> QED  BY <1>2, <2>2, <2>4, <2>5, GoesKeeps
<1> QED  BY <1>1, <1>2 DEF Fill

LEMMA CollideKeeps == ASSUME CacheInv, NEW p \in Procs, Collide(p) PROVE CacheInv'
<1> DEFINE goal == IF HasModule(Key(p)) THEN "confirm" ELSE "replace"
           r == [run[p] EXCEPT !.pc = goal]
<1>1. goal \in Pcs  BY DEF Pcs
<1>2. r \in Runs  BY <1>1, RunTyped, ZenonT(40) DEF Runs
<1>3. /\ r.pc = goal /\ r.files = run[p].files /\ r.stamp = run[p].stamp /\ r.built = run[p].built
      /\ r.content = run[p].content /\ r.snapshot = run[p].snapshot /\ r.filled = run[p].filled
  BY RunFacts DEF Runs
<1>4. run[p].pc = "collide" /\ Goes(p, r)  BY DEF Collide
<1>5. r.filled = "whole" /\ r.pc \in {"confirm", "replace"}  BY <1>3, <1>4, RunFacts DEF RunOK, Storing
<1>6. RunOK(r, disk, copied)  BY <1>2, <1>3, <1>4, <1>5, RunFacts, LateSound DEF Storing, Loading
<1> QED  BY <1>2, <1>4, <1>5, <1>6, GoesKeeps

LEMMA PublishKeeps == ASSUME CacheInv, NEW p \in Procs, Publish(p) PROVE CacheInv'
<1>1. /\ run[p].pc \in Storing /\ run[p].built = run[p].content /\ run[p].filled = "whole"
      /\ run[p].content \in Reading
  BY RunFacts DEF Publish, RunOK, Storing, Runs
<1>2. CASE CanRename(p)
  <2> DEFINE r == [run[p] EXCEPT !.pc = "confirm", !.stored = TRUE, !.filled = "none"]
  <2>1. "confirm" \in Pcs  BY DEF Pcs
  <2>2. r \in Runs  BY <2>1, RunTyped, ZenonT(40) DEF Runs
  <2>3. /\ r.pc = "confirm" /\ r.files = run[p].files /\ r.stamp = run[p].stamp
        /\ r.built = run[p].built /\ r.content = run[p].content /\ r.snapshot = run[p].snapshot
        /\ r.filled = "none"
    BY RunFacts DEF Runs
  <2>4. RunOK(r, disk, copied)  BY <1>1, <2>2, <2>3, RunFacts, LateSound DEF Storing, Loading
  <2>5. /\ Step(p, r) /\ UNCHANGED <<disk, copied, budget>> /\ dirs' = dirs \ {StageDir(p)}
        /\ cache' = [k \in DOMAIN cache \cup {Key(p)} |-> IF k = Key(p) THEN Entry(p) ELSE cache[k]]
    BY <1>2 DEF Publish
  <2>6. /\ run' \in [Procs -> Runs]
        /\ \A q \in Procs : HoldsStage(q)' => Alive(q)'
        /\ \A q \in Procs : RunOK(run[q], disk, copied)'
    BY <2>2, <2>3, <2>4, <2>5, StepKeepsRuns
  <2>7. /\ Entry(p).module = Key(p) /\ Entry(p).manifest = TRUE /\ Key(p) \in Reading
        /\ Entry(p) \in [module : Reading \cup {None, Bad}, manifest : BOOLEAN]
    BY <1>1 DEF Entry, Key
  <2>8. EntriesMatchKeys'
    <3>1. ASSUME NEW k \in DOMAIN cache', cache'[k].module \notin {None, Bad}
          PROVE  cache'[k].module = k /\ cache'[k].manifest
      <4>1. CASE k = Key(p)  BY <2>5, <2>7, <4>1
      <4>2. CASE k # Key(p)  BY <2>5, <3>1, <4>2 DEF CacheInv, EntriesMatchKeys
      <4> QED  BY <4>1, <4>2
    <3> QED  BY <3>1 DEF EntriesMatchKeys
  <2>9. \A k \in DOMAIN cache' :
          k \in Reading /\ cache'[k] \in [module : Reading \cup {None, Bad}, manifest : BOOLEAN]
    BY <2>5, <2>7 DEF CacheInv, TypeOK
  <2>10. TypeOK'  BY <2>5, <2>6, <2>9 DEF CacheInv, TypeOK
  <2> QED  BY <2>5, <2>6, <2>8, <2>10 DEF CacheInv
<1>3. CASE ~CanRename(p)
  <2> DEFINE goal == IF run[p].pc = "publish" THEN "collide" ELSE "confirm"
             r == [run[p] EXCEPT !.pc = goal]
  <2>1. goal \in Pcs  BY DEF Pcs
  <2>2. r \in Runs  BY <2>1, RunTyped, ZenonT(40) DEF Runs
  <2>3. /\ r.pc = goal /\ r.files = run[p].files /\ r.stamp = run[p].stamp
        /\ r.built = run[p].built /\ r.content = run[p].content /\ r.snapshot = run[p].snapshot
        /\ r.filled = run[p].filled
    BY RunFacts DEF Runs
  <2>a. r.pc \in {"collide", "confirm"} /\ r.filled = "whole"  BY <1>1, <2>3
  <2>5. Goes(p, r)
    <3>1. r = [run[p] EXCEPT !.pc = IF @ = "publish" THEN "collide" ELSE "confirm"]
      BY RunFacts DEF Runs
    <3> QED  BY <1>3, <3>1 DEF Publish, Goes
  <2> HIDE DEF r
  <2>4. RunOK(r, disk, copied)
    <3>1. run[p].pc \in Storing /\ r.pc \in Storing \cup Loading
      BY <1>1, <2>a DEF Storing, Loading
    <3> QED  BY <2>a, <2>2, <2>3, <3>1, RunFacts, LateSound
  <2> QED  BY <2>2, <2>3, <2>4, <2>5, GoesKeeps
<1> QED  BY <1>2, <1>3

\* Directories come and go without touching the rest of the invariant.
LEMMA DirsKeep ==
  ASSUME CacheInv, NEW p \in Procs, NEW r \in Runs, RunOK(r, disk, copied),
         r.filled # "none" => r.pc \notin Over,
         Step(p, r), UNCHANGED <<disk, copied, cache, budget>>, dirs' \subseteq Dirs
  PROVE  CacheInv'
<1>1. /\ run' \in [Procs -> Runs]
      /\ \A q \in Procs : HoldsStage(q)' => Alive(q)'
      /\ \A q \in Procs : RunOK(run[q], disk, copied)'
  BY StepKeepsRuns
<1>2. TypeOK'  BY <1>1 DEF CacheInv, TypeOK
<1> QED  BY <1>1, <1>2 DEF CacheInv, EntriesMatchKeys

LEMMA ConfirmKeeps == ASSUME CacheInv, NEW p \in Procs, Confirm(p) PROVE CacheInv'
<1>1. dirs' \subseteq Dirs /\ UNCHANGED <<disk, copied, cache, budget>>
  BY DEF Confirm, LeaveBuild, CacheInv, TypeOK
<1>2. CASE Step(p, Idle(p, "unloadable"))  BY <1>1, <1>2, IdleSound, DirsKeep
<1> DEFINE r == [run[p] EXCEPT !.pc = "load", !.filled = "none"]
<1>3. CASE Step(p, r)
  <2>1. "load" \in Pcs  BY DEF Pcs
  <2>2. r \in Runs  BY <2>1, RunTyped, ZenonT(40) DEF Runs
  <2>3. /\ r.pc = "load" /\ r.files = run[p].files /\ r.stamp = run[p].stamp
        /\ r.built = run[p].built /\ r.content = run[p].content /\ r.snapshot = run[p].snapshot
        /\ r.filled = "none"
    BY RunFacts DEF Runs
  <2>4. run[p].pc = "confirm"  BY DEF Confirm
  <2>5. RunOK(r, disk, copied)  BY <2>2, <2>3, <2>4, RunFacts, LateSound DEF Storing, Loading
  <2> QED  BY <1>1, <1>3, <2>2, <2>3, <2>5, DirsKeep
<1> QED  BY <1>2, <1>3 DEF Confirm


LEMMA RemoveStaleKeeps == ASSUME CacheInv, NEW p \in Procs, RemoveStale(p) PROVE CacheInv'
<1> DEFINE goal == IF run[p].pc = "stale" THEN "stage" ELSE "republish"
           r == [run[p] EXCEPT !.pc = goal]
<1>1. dirs' \subseteq Dirs /\ UNCHANGED <<disk, copied, cache, budget>>
  BY DEF RemoveStale, CacheInv, TypeOK
<1>2. goal \in Pcs  BY DEF Pcs
<1>3. r \in Runs  BY <1>2, RunTyped, ZenonT(40) DEF Runs
<1>4. /\ r.pc = goal /\ r.files = run[p].files /\ r.stamp = run[p].stamp /\ r.built = run[p].built
      /\ r.content = run[p].content /\ r.snapshot = run[p].snapshot /\ r.filled = run[p].filled
      /\ r.copy = run[p].copy
  BY RunFacts DEF Runs
<1>5. Step(p, r)
  <2>1. r = [run[p] EXCEPT !.pc = IF @ = "stale" THEN "stage" ELSE "republish"]
    BY RunFacts DEF Runs
  <2> QED  BY <2>1 DEF RemoveStale
<1>6. RunOK(r, disk, copied)
  <2>1. CASE run[p].pc = "stale"
    <3>1. /\ r.pc = "stage" /\ r.files \in {{"main", "header"}, {"main", "shadow"}}
          /\ r.built = Nothing /\ r.copy = Nothing
          /\ \A g \in r.files \cup {"engine"} : Tied(r, g, disk)
          /\ \A g \in r.files : r.content[g] # None
          /\ r.content["engine"] # None
          /\ \A g \in Files : g \notin r.files \cup {"engine"} => r.content[g] = None
          /\ r.snapshot # Nothing => \A g \in r.files : r.content[g] = r.snapshot[g]
      BY <1>4, <2>1, RunFacts DEF RunOK, Unbuilding, Tied
    <3> HIDE DEF r
    <3> QED  BY <3>1 DEF RunOK, BeforeStamp, Hashing, Unbuilding, Building, Storing
  <2>2. CASE run[p].pc = "stale again"
    <3>1. run[p].pc \in Storing /\ r.pc = "republish" /\ r.filled = "whole"
      BY <1>4, <2>2, RunFacts DEF RunOK, Storing
    <3> QED  BY <1>3, <1>4, <3>1, RunFacts, LateSound DEF Storing
  <2> QED  BY <2>1, <2>2 DEF RemoveStale
<1>7. r.pc \in {"stage", "republish"}  BY <1>4
<1> HIDE DEF r
<1> QED  BY <1>1, <1>3, <1>5, <1>6, <1>7, DirsKeep

LEMMA StageKeeps == ASSUME CacheInv, NEW p \in Procs, Stage(p) PROVE CacheInv'
<1>1. PICK n \in 0..MaxRuns :
        /\ dirs' = dirs \cup {[kind |-> "stage", owner |-> p, n |-> n]}
        /\ Step(p, [run[p] EXCEPT !.pc = IF copied THEN "copy" ELSE "compile",
                                  !.stage = n, !.filled = "empty"])
  BY DEF Stage
<1> DEFINE goal == IF copied THEN "copy" ELSE "compile"
           r == [run[p] EXCEPT !.pc = goal, !.stage = n, !.filled = "empty"]
<1>2. run[p].pc = "stage" /\ UNCHANGED <<disk, copied, cache, budget>>  BY DEF Stage
<1>3. dirs' \subseteq Dirs  BY <1>1 DEF CacheInv, TypeOK, Dirs
<1>4. goal \in Pcs  BY DEF Pcs
<1>5. r \in Runs
  <2>1. run[p] \in Runs  BY RunTyped
  <2> HIDE DEF goal
  <2> QED  BY <1>4, <2>1 DEF Runs
<1>6. /\ r.pc = goal /\ r.files = run[p].files /\ r.stamp = run[p].stamp /\ r.built = run[p].built
      /\ r.content = run[p].content /\ r.snapshot = run[p].snapshot /\ r.copy = run[p].copy
  BY RunFacts DEF Runs
<1>7. /\ r.files \in {{"main", "header"}, {"main", "shadow"}} /\ r.built = Nothing
      /\ \A g \in r.files \cup {"engine"} : Tied(r, g, disk)
      /\ \A g \in r.files : r.content[g] # None
      /\ r.content["engine"] # None
      /\ \A g \in Files : g \notin r.files \cup {"engine"} => r.content[g] = None
      /\ r.snapshot # Nothing => \A g \in r.files : r.content[g] = r.snapshot[g]
  BY <1>2, <1>6, RunFacts DEF RunOK, Unbuilding, Tied
<1>8. \A g \in r.files \cup {"engine"} : BuiltTied(r, g, disk)
  BY <1>7 DEF BuiltTied, Nothing, Files
<1>9. Step(p, r)  BY <1>1
<1>10. (goal = "copy" /\ copied) \/ (goal = "compile" /\ ~copied)  BY DEF CacheInv, TypeOK
<1> HIDE DEF r
<1>11. RunOK(r, disk, copied)
  BY <1>6, <1>7, <1>8, <1>10 DEF RunOK, BeforeStamp, Hashing, Unbuilding, Building, Storing
<1> HIDE DEF goal
<1> QED  BY <1>2, <1>3, <1>5, <1>6, <1>9, <1>10, <1>11, DirsKeep

LEMMA LoadKeeps == ASSUME CacheInv, NEW p \in Procs, Load(p) PROVE CacheInv'
<1>1. dirs' \subseteq Dirs /\ UNCHANGED <<disk, copied, cache, budget>>
  BY DEF Load, CacheInv, TypeOK
<1>2. CASE \E goal \in {"interrupted", "unloadable"} : Step(p, Idle(p, goal))
  BY <1>1, <1>2, IdleSound, DirsKeep
<1>3. CASE Step(p, [Idle(p, "sweep") EXCEPT !.rebuild = TRUE])
  <2> DEFINE i == Idle(p, "sweep")
             r == [i EXCEPT !.rebuild = TRUE]
  <2>1. i \in Runs /\ i.pc = "sweep" /\ i.filled = "none" /\ RunOK(i, disk, copied)  BY IdleSound
  <2> HIDE DEF i
  <2>2. r \in Runs  BY <2>1 DEF Runs
  <2>3. /\ r.pc = i.pc /\ r.filled = i.filled /\ r.built = i.built /\ r.content = i.content
        /\ r.copy = i.copy /\ r.snapshot = i.snapshot
    BY <2>1 DEF Runs
  <2>4. RunOK(r, disk, copied)
    BY <2>1, <2>3 DEF RunOK, BeforeStamp, Hashing, Unbuilding, Building, Storing
  <2>5. Step(p, r)  BY <1>3 DEF i
  <2> QED  BY <1>1, <2>1, <2>2, <2>3, <2>4, <2>5, DirsKeep
<1>4. CASE /\ Loadable(Key(p))
           /\ Step(p, [Idle(p, "ended") EXCEPT !.loaded = cache[Key(p)].module, !.content = Key(p)])
  <2> DEFINE i == Idle(p, "ended")
             m == cache[Key(p)].module
             c == Key(p)
             r == [i EXCEPT !.loaded = m, !.content = c]
  <2>a. i \in Runs /\ i.pc = "ended" /\ i.filled = "none"  BY IdleSound
  <2>b. i.snapshot = Nothing  BY DEF Idle, Fresh
  <2>1. i \in Runs /\ i.pc = "ended" /\ i.filled = "none" /\ i.snapshot = Nothing
    BY <2>a, <2>b
  <2>2. m \in Reading /\ c \in Reading
    <3>1. c \in Reading  BY RunFacts DEF Key, Runs
    <3>2. c \in DOMAIN cache /\ m # None /\ m # Bad  BY <1>4 DEF Loadable, HasModule
    <3>3. cache[c] \in [module : Reading \cup {None, Bad}, manifest : BOOLEAN]
      BY <3>2 DEF CacheInv, TypeOK
    <3> QED  BY <3>1, <3>2, <3>3
  <2>5. Step(p, r)  BY <1>4
  <2> HIDE DEF i, m, c
  <2>3. r \in Runs /\ r.pc = "ended" /\ r.filled = "none" /\ r.snapshot = Nothing
    BY <2>1, <2>2 DEF Runs
  <2>4. RunOK(r, disk, copied)
    BY <2>3 DEF RunOK, BeforeStamp, Hashing, Unbuilding, Building, Storing
  <2> QED  BY <1>1, <2>3, <2>4, <2>5, DirsKeep
<1> QED  BY <1>2, <1>3, <1>4 DEF Load


\* Being marked as disturbed changes nothing that the invariant is about.
LEMMA DisturbSound ==
  ASSUME CacheInv, NEW ps, NEW q \in Procs
  PROVE  /\ Disturb(ps)[q] \in Runs /\ RunOK(Disturb(ps)[q], disk, copied)
         /\ Disturb(ps)[q].pc = run[q].pc /\ Disturb(ps)[q].filled = run[q].filled
<1> DEFINE r == [run[q] EXCEPT !.disturbed = TRUE]
<1>1. r \in Runs  BY RunTyped, ZenonT(40) DEF Runs
<1>2. /\ r.pc = run[q].pc /\ r.files = run[q].files /\ r.stamp = run[q].stamp
      /\ r.built = run[q].built /\ r.content = run[q].content /\ r.copy = run[q].copy
      /\ r.snapshot = run[q].snapshot /\ r.filled = run[q].filled
  BY RunFacts DEF Runs
<1> HIDE DEF r
<1>3. RunOK(r, disk, copied)
  BY <1>2, RunFacts DEF RunOK, Tied, BuiltTied
<1>4. Disturb(ps)[q] \in {run[q], r}  BY DEF Disturb, r
<1> QED  BY <1>1, <1>2, <1>3, <1>4, RunFacts

\* A step that marks runs as disturbed and replaces one run's record by r.
LEMMA DisturbKeepsRuns ==
  ASSUME CacheInv, NEW ps, NEW p \in Procs, NEW r \in Runs, RunOK(r, disk, copied),
         r.filled # "none" => r.pc \notin Over,
         run' = [Disturb(ps) EXCEPT ![p] = r], UNCHANGED <<disk, copied>>
  PROVE  /\ run' \in [Procs -> Runs]
         /\ \A q \in Procs : HoldsStage(q)' => Alive(q)'
         /\ \A q \in Procs : RunOK(run[q], disk, copied)'
<1>1. \A q \in Procs : run'[q] = IF q = p THEN r ELSE Disturb(ps)[q]  BY DEF Disturb
<1>2. run' \in [Procs -> Runs]  BY <1>1, DisturbSound DEF Disturb
<1>3. \A q \in Procs : HoldsStage(q)' => Alive(q)'
  BY <1>1, DisturbSound, RunFacts DEF HoldsStage, Alive
<1>4. ASSUME NEW q \in Procs PROVE RunOK(run'[q], disk, copied)  BY <1>1, DisturbSound
<1> QED  BY <1>2, <1>3, <1>4

LEMMA SweepKeeps == ASSUME CacheInv, NEW p \in Procs, Sweep(p) PROVE CacheInv'
<1> DEFINE D == Disturb({d.owner : d \in run[p].doomed \cap dirs})
           r == [D[p] EXCEPT !.pc = "check", !.doomed = {}]
<1>1. /\ run' = [D EXCEPT ![p] = r] /\ dirs' \subseteq dirs
      /\ UNCHANGED <<disk, copied, cache, budget>>
  <2>1. run' = [D EXCEPT ![p].pc = "check", ![p].doomed = {}]  BY DEF Sweep
  <2>2. [D EXCEPT ![p].pc = "check", ![p].doomed = {}] = [D EXCEPT ![p] = r]  BY DEF Disturb
  <2> QED  BY <2>1, <2>2 DEF Sweep
<1>2. D[p] \in Runs /\ RunOK(D[p], disk, copied) /\ D[p].pc = "swept" /\ D[p].filled = run[p].filled
  BY DisturbSound DEF Sweep
<1>3. "check" \in Pcs  BY DEF Pcs
<1>4. r \in Runs  BY <1>2, <1>3 DEF Runs
<1>5. /\ r.pc = "check" /\ r.built = D[p].built /\ r.content = D[p].content
      /\ r.copy = D[p].copy /\ r.snapshot = D[p].snapshot
  BY <1>2 DEF Runs
<1>7. /\ r.built = Nothing /\ r.content = Nothing /\ r.copy = Nothing /\ r.snapshot = Nothing
  BY <1>2, <1>5 DEF RunOK, BeforeStamp
<1> HIDE DEF r, D
<1>6. RunOK(r, disk, copied)
  BY <1>5, <1>7 DEF RunOK, BeforeStamp, Hashing, Unbuilding, Building, Storing
<1>8. /\ run' \in [Procs -> Runs]
      /\ \A q \in Procs : HoldsStage(q)' => Alive(q)'
      /\ \A q \in Procs : RunOK(run[q], disk, copied)'
  BY <1>1, <1>4, <1>5, <1>6, DisturbKeepsRuns DEF D
<1>9. TypeOK'  BY <1>1, <1>8 DEF CacheInv, TypeOK
<1> QED  BY <1>1, <1>8, <1>9 DEF CacheInv, EntriesMatchKeys

LEMMA DiscardKeeps == ASSUME CacheInv, NEW p \in Procs, Discard(p) PROVE CacheInv'
<1> DEFINE goal == IF run[p].pc = "discard" THEN "stale" ELSE "stale again"
           r == [run[p] EXCEPT !.pc = goal]
<1>1. run' = [Disturb(Procs \ {p}) EXCEPT ![p] = r] \/ run' = [run EXCEPT ![p] = r]
  <2>1. Disturb(Procs \ {p})[p] = run[p]  BY DEF Disturb
  <2> QED  BY <2>1 DEF Discard, Disturb
<1>2. goal \in Pcs  BY DEF Pcs
<1>3. r \in Runs  BY <1>2, RunTyped, ZenonT(40) DEF Runs
<1>4. /\ r.pc = goal /\ r.files = run[p].files /\ r.stamp = run[p].stamp /\ r.built = run[p].built
      /\ r.content = run[p].content /\ r.snapshot = run[p].snapshot /\ r.filled = run[p].filled
      /\ r.copy = run[p].copy
  BY RunFacts DEF Runs
<1>5. RunOK(r, disk, copied)
  <2>1. CASE run[p].pc = "discard"
    <3>1. /\ r.pc = "stale" /\ r.files \in {{"main", "header"}, {"main", "shadow"}}
          /\ r.built = Nothing /\ r.copy = Nothing
          /\ \A g \in r.files \cup {"engine"} : Tied(r, g, disk)
          /\ \A g \in r.files : r.content[g] # None
          /\ r.content["engine"] # None
          /\ \A g \in Files : g \notin r.files \cup {"engine"} => r.content[g] = None
          /\ r.snapshot # Nothing => \A g \in r.files : r.content[g] = r.snapshot[g]
      BY <1>4, <2>1, RunFacts DEF RunOK, Unbuilding, Tied
    <3> HIDE DEF r
    <3> QED  BY <3>1 DEF RunOK, BeforeStamp, Hashing, Unbuilding, Building, Storing
  <2>2. CASE run[p].pc = "replace"
    <3>1. run[p].pc \in Storing /\ r.pc = "stale again" /\ r.filled = "whole"
      BY <1>4, <2>2, RunFacts DEF RunOK, Storing
    <3> QED  BY <1>3, <1>4, <3>1, RunFacts, LateSound DEF Storing
  <2> QED  BY <2>1, <2>2 DEF Discard
<1>6. r.pc \in {"stale", "stale again"}  BY <1>4
<1> HIDE DEF r
<1>7. /\ run' \in [Procs -> Runs]
      /\ \A q \in Procs : HoldsStage(q)' => Alive(q)'
      /\ \A q \in Procs : RunOK(run[q], disk, copied)'
  <2>1. UNCHANGED <<disk, copied>>  BY DEF Discard
  <2>2. CASE run' = [Disturb(Procs \ {p}) EXCEPT ![p] = r]
    BY <1>3, <1>5, <1>6, <2>1, <2>2, DisturbKeepsRuns
  <2>3. CASE run' = [run EXCEPT ![p] = r]
    BY <1>3, <1>5, <1>6, <2>1, <2>3, StepKeepsRuns DEF Step
  <2> QED  BY <1>1, <2>2, <2>3
<1>8. dirs' \subseteq Dirs /\ UNCHANGED <<disk, copied, budget>>
  <2>1. dirs \subseteq Dirs  BY DEF CacheInv, TypeOK
  <2>2. \A n \in 0..MaxRuns : [kind |-> "stale", owner |-> p, n |-> n] \in Dirs  BY DEF Dirs
  <2>3. dirs' = dirs \/ \E n \in 0..MaxRuns :
                         dirs' = dirs \cup {[kind |-> "stale", owner |-> p, n |-> n]}
    BY DEF Discard, MoveAside
  <2> QED  BY <2>1, <2>2, <2>3 DEF Discard
<1>9. /\ DOMAIN cache' \subseteq DOMAIN cache
      /\ \A k \in DOMAIN cache' : cache'[k] = cache[k]
  BY DEF Discard, MoveAside
<1>10. TypeOK'  BY <1>7, <1>8, <1>9 DEF CacheInv, TypeOK
<1>11. EntriesMatchKeys'  BY <1>9 DEF CacheInv, EntriesMatchKeys
<1> QED  BY <1>7, <1>8, <1>10, <1>11 DEF CacheInv


LEMMA InterruptKeeps == ASSUME CacheInv, NEW p \in Procs, Interrupt(p) \/ Fail(p) PROVE CacheInv'
BY GivesKeeps DEF Interrupt, Fail

\* The budgets other than that of edits only count.
LEMMA SpendTyped ==
  ASSUME CacheInv, NEW what \in {"runs", "damage", "kills", "signals"}, Spend(what),
         what = "runs" => budget.runs < MaxRuns
  PROVE  /\ budget' \in [edits : 0..MaxEdits, runs : 0..MaxRuns, damage : Nat, kills : Nat, signals : Nat]
         /\ budget'.edits = budget.edits
BY DEF CacheInv, TypeOK, Spend

LEMMA StartKeeps == ASSUME CacheInv, NEW p \in Procs, Start(p) PROVE CacheInv'
<1>1. Nothing \in Reading  BY DEF Nothing, Reading
<1>2. [f \in Files |-> 0] \in Stamps  BY DEF Stamps
<1>3. Fresh \in Runs  BY <1>1, <1>2 DEF Fresh, Runs, Pcs
<1>4. RunOK(Fresh, disk, copied) /\ Fresh.filled = "none"
  BY DEF Fresh, RunOK, BeforeStamp, Hashing, Unbuilding, Building, Storing
<1>5. /\ run' \in [Procs -> Runs]
      /\ \A q \in Procs : HoldsStage(q)' => Alive(q)'
      /\ \A q \in Procs : RunOK(run[q], disk, copied)'
  BY <1>3, <1>4, StepKeepsRuns DEF Start
<1>6. /\ budget' \in [edits : 0..MaxEdits, runs : 0..MaxRuns, damage : Nat, kills : Nat, signals : Nat]
      /\ budget'.edits = budget.edits
  BY SpendTyped DEF Start
<1>7. TypeOK'  BY <1>5, <1>6 DEF Start, CacheInv, TypeOK
<1> QED  BY <1>5, <1>6, <1>7 DEF Start, CacheInv, EntriesMatchKeys

LEMMA KillKeeps == ASSUME CacheInv, NEW p \in Procs, Kill(p) PROVE CacheInv'
<1>1. /\ run' \in [Procs -> Runs]
      /\ \A q \in Procs : HoldsStage(q)' => Alive(q)'
      /\ \A q \in Procs : RunOK(run[q], disk, copied)'
  BY IdleSound, StepKeepsRuns DEF Kill
<1>2. /\ budget' \in [edits : 0..MaxEdits, runs : 0..MaxRuns, damage : Nat, kills : Nat, signals : Nat]
      /\ budget'.edits = budget.edits
  BY SpendTyped DEF Kill
<1>3. TypeOK'  BY <1>1, <1>2 DEF Kill, CacheInv, TypeOK
<1> QED  BY <1>1, <1>2, <1>3 DEF Kill, CacheInv, EntriesMatchKeys

LEMMA SignalKeeps == ASSUME CacheInv, NEW p \in Procs, Signal(p) PROVE CacheInv'
<1> DEFINE r == [run[p] EXCEPT !.cancelled = TRUE]
<1>1. r \in Runs  BY RunTyped, ZenonT(40) DEF Runs
<1>2. /\ r.pc = run[p].pc /\ r.files = run[p].files /\ r.stamp = run[p].stamp
      /\ r.built = run[p].built /\ r.content = run[p].content /\ r.copy = run[p].copy
      /\ r.snapshot = run[p].snapshot /\ r.filled = run[p].filled
  BY RunFacts DEF Runs
<1>3. Step(p, r)  BY DEF Signal
<1> HIDE DEF r
<1>4. RunOK(r, disk, copied)  BY <1>2, RunFacts DEF RunOK, Tied, BuiltTied
<1>5. /\ run' \in [Procs -> Runs]
      /\ \A q \in Procs : HoldsStage(q)' => Alive(q)'
      /\ \A q \in Procs : RunOK(run[q], disk, copied)'
  BY <1>1, <1>2, <1>3, <1>4, RunFacts, StepKeepsRuns DEF Signal
<1>6. /\ budget' \in [edits : 0..MaxEdits, runs : 0..MaxRuns, damage : Nat, kills : Nat, signals : Nat]
      /\ budget'.edits = budget.edits
  BY SpendTyped DEF Signal
<1>7. TypeOK'  BY <1>5, <1>6 DEF Signal, CacheInv, TypeOK
<1> QED  BY <1>5, <1>6, <1>7 DEF Signal, CacheInv, EntriesMatchKeys

LEMMA DamageKeeps ==
  ASSUME CacheInv, NEW k \in DOMAIN cache, Damage(k)
  PROVE  CacheInv'
<1>1. run' = Disturb(Procs) /\ UNCHANGED <<disk, copied, dirs>>  BY DEF Damage
<1>2. \A q \in Procs : run'[q] = Disturb(Procs)[q]  BY <1>1
<1>3. run' \in [Procs -> Runs]  BY <1>1, DisturbSound DEF Disturb
<1>4. \A q \in Procs : HoldsStage(q)' => Alive(q)'
  BY <1>2, DisturbSound, RunFacts DEF HoldsStage, Alive
<1>5. \A q \in Procs : RunOK(run[q], disk, copied)'  BY <1>1, <1>2, DisturbSound
<1>6. /\ budget' \in [edits : 0..MaxEdits, runs : 0..MaxRuns, damage : Nat, kills : Nat, signals : Nat]
      /\ budget'.edits = budget.edits
  BY SpendTyped DEF Damage
<1>7. /\ DOMAIN cache' \subseteq DOMAIN cache
      /\ \A j \in DOMAIN cache' :
           \/ cache'[j] = cache[j]
           \/ \E m \in {Bad, None} : cache'[j] = [cache[j] EXCEPT !.module = m]
  <2>1. CASE cache' = [j \in DOMAIN cache \ {k} |-> cache[j]]  BY <2>1
  <2>2. CASE \E m \in {Bad, None} : cache' = [cache EXCEPT ![k].module = m]
    <3>1. PICK m \in {Bad, None} : cache' = [cache EXCEPT ![k].module = m]  BY <2>2
    <3>2. DOMAIN cache' = DOMAIN cache  BY <3>1
    <3>3. \A j \in DOMAIN cache :
            cache'[j] = IF j = k THEN [cache[k] EXCEPT !.module = m] ELSE cache[j]
      BY <3>1
    <3> QED  BY <3>2, <3>3
  <2> QED  BY <2>1, <2>2 DEF Damage
<1>8. ASSUME NEW j \in DOMAIN cache'
      PROVE  /\ j \in Reading /\ cache'[j] \in [module : Reading \cup {None, Bad}, manifest : BOOLEAN]
             /\ cache'[j].module \notin {None, Bad} => cache'[j] = cache[j]
  <2>1. j \in Reading /\ cache[j] \in [module : Reading \cup {None, Bad}, manifest : BOOLEAN]
    BY <1>7, <1>8 DEF CacheInv, TypeOK
  <2> QED  BY <1>7, <1>8, <2>1
<1>9. TypeOK'  BY <1>1, <1>3, <1>4, <1>6, <1>8 DEF CacheInv, TypeOK
<1>10. EntriesMatchKeys'
  <2>1. ASSUME NEW j \in DOMAIN cache', cache'[j].module \notin {None, Bad}
        PROVE  cache'[j].module = j /\ cache'[j].manifest
    <3>1. cache'[j] = cache[j] /\ j \in DOMAIN cache  BY <1>7, <1>8, <2>1
    <3> QED  BY <2>1, <3>1 DEF CacheInv, EntriesMatchKeys
  <2> QED  BY <2>1 DEF EntriesMatchKeys
<1> QED  BY <1>1, <1>5, <1>6, <1>9, <1>10 DEF CacheInv

\* A write gives its file a stamp no run has seen: what runs know of the file
\* is no longer tied to its content.
LEMMA EditKeeps == ASSUME CacheInv, NEW f \in Files, Edit(f) PROVE CacheInv'
<1>1. PICK c \in Contents \cup (IF f \in {"header", "shadow"} THEN {None} ELSE {}) :
        disk' = [disk EXCEPT ![f] = [content |-> c, stamp |-> budget.edits + 1]]
  BY DEF Edit
<1>2. /\ budget.edits \in 0..MaxEdits /\ budget.edits < MaxEdits
      /\ budget' = [budget EXCEPT !.edits = @ + 1]
      /\ UNCHANGED <<copied, cache, dirs, run>>
  BY DEF Edit, Spend, CacheInv, TypeOK
<1>3. budget' \in [edits : 0..MaxEdits, runs : 0..MaxRuns, damage : Nat, kills : Nat, signals : Nat]
      /\ budget'.edits = budget.edits + 1
  BY <1>2 DEF CacheInv, TypeOK
<1>4. \A g \in Files : disk'[g] = IF g = f THEN [content |-> c, stamp |-> budget.edits + 1] ELSE disk[g]
  BY <1>1 DEF CacheInv, TypeOK
<1>5. disk' \in [Files -> [content : Contents \cup {None}, stamp : 0..MaxEdits]]
  BY <1>1, <1>2 DEF CacheInv, TypeOK
<1>6. disk'["engine"].content # None
  BY <1>4 DEF CacheInv, Files
<1>7. \A g \in Files : disk'[g].stamp <= budget'.edits
  <2>1. ASSUME NEW g \in Files PROVE disk'[g].stamp <= budget'.edits
    <3>1. disk[g].stamp \in 0..MaxEdits /\ disk[g].stamp <= budget.edits  BY DEF CacheInv, TypeOK
    <3>2. disk'[g].stamp \in {disk[g].stamp, budget.edits + 1}  BY <1>4
    <3> QED  BY <1>2, <1>3, <3>1, <3>2
  <2> QED  BY <2>1
<1>8. ASSUME NEW q \in Procs PROVE RunOK(run[q], disk', copied)
  <2>1. run[q] \in Runs /\ RunOK(run[q], disk, copied) /\ run[q].files \subseteq Files  BY RunFacts
  <2>2. \A g \in Files : run[q].stamp[g] \in 0..MaxEdits  BY <2>1 DEF Runs, Stamps
  <2>3. ASSUME NEW g \in Files, Tied(run[q], g, disk)
        PROVE  /\ Tied(run[q], g, disk')
               /\ BuiltTied(run[q], g, disk) => BuiltTied(run[q], g, disk')
    <3>1. CASE g = f
      <4>1. run[q].stamp[g] <= budget.edits
        BY <1>2, <2>2, <2>3, RunFacts DEF CacheInv, Tied
      <4>2. run[q].stamp[g] < disk'[g].stamp  BY <1>2, <1>4, <2>2, <3>1, <4>1
      <4> QED  BY <1>2, <1>4, <2>2, <3>1, <4>2 DEF Tied, BuiltTied
    <3>2. CASE g # f  BY <1>4, <2>3, <3>2 DEF Tied, BuiltTied
    <3> QED  BY <3>1, <3>2
  <2>4. "engine" \in Files  BY DEF Files
  <2>5. run[q].pc \in Hashing \cup Unbuilding \cup Building \cup Storing =>
          \A g \in run[q].files \cup {"engine"} : Tied(run[q], g, disk) /\ Tied(run[q], g, disk')
    BY <2>1, <2>3, <2>4 DEF RunOK
  <2>6. run[q].pc \in Building =>
          /\ BuiltTied(run[q], "engine", disk')
          /\ \A g \in run[q].files : IF copied THEN /\ run[q].copy[g] = run[q].content[g]
                                                    /\ run[q].built[g] \in {None, run[q].copy[g]}
                                               ELSE BuiltTied(run[q], g, disk')
    BY <2>1, <2>3, <2>4, <2>5 DEF RunOK
  <2> QED  BY <2>1, <2>5, <2>6 DEF RunOK
<1>9. TypeOK'  BY <1>2, <1>3, <1>5 DEF CacheInv, TypeOK, HoldsStage, Alive
<1>10. EntriesMatchKeys'  BY <1>2 DEF CacheInv, EntriesMatchKeys
<1>11. \A q \in Procs : RunOK(run[q], disk, copied)'  BY <1>2, <1>8
<1> QED  BY <1>6, <1>7, <1>9, <1>10, <1>11 DEF CacheInv


\* Init => IInv.
LEMMA InitHolds == Init => CacheInv
<1> SUFFICES ASSUME Init PROVE CacheInv  OBVIOUS
<1>1. Nothing \in Reading  BY DEF Nothing, Reading
<1>2. [f \in Files |-> 0] \in Stamps  BY DEF Stamps
<1>3. Fresh \in Runs  BY <1>1, <1>2 DEF Fresh, Runs, Pcs
<1> DEFINE r == [Fresh EXCEPT !.pc = "idle"]
<1>4. "idle" \in Pcs  BY DEF Pcs
<1>5. Fresh.filled = "none" /\ Fresh.snapshot = Nothing  BY DEF Fresh
<1> HIDE DEF Fresh
<1>6. r \in Runs /\ r.pc = "idle" /\ r.filled = "none" /\ r.snapshot = Nothing
  BY <1>3, <1>4, <1>5 DEF Runs
<1>7. RunOK(r, disk, copied)
  BY <1>6 DEF RunOK, BeforeStamp, Hashing, Unbuilding, Building, Storing
<1>8. \A p \in Procs : run[p] = r  BY DEF Init
<1>9. (CHOOSE c \in Contents : TRUE) \in Contents  OBVIOUS
<1>10. /\ disk \in [Files -> [content : Contents \cup {None}, stamp : 0..MaxEdits]]
       /\ disk["engine"].content # None
       /\ \A f \in Files : disk[f].stamp = 0
  BY <1>9 DEF Init, Files
<1>11. /\ budget \in [edits : 0..MaxEdits, runs : 0..MaxRuns, damage : Nat, kills : Nat, signals : Nat]
       /\ budget.edits = 0
  BY DEF Init
<1>12. run \in [Procs -> Runs]  BY <1>6, <1>8 DEF Init
<1>13. DOMAIN cache = {} /\ dirs = {} /\ copied \in BOOLEAN  BY DEF Init
<1>14. TypeOK  BY <1>6, <1>8, <1>10, <1>11, <1>12, <1>13 DEF TypeOK, HoldsStage
<1>15. EntriesMatchKeys  BY <1>13 DEF EntriesMatchKeys
<1> QED  BY <1>7, <1>8, <1>10, <1>11, <1>14, <1>15 DEF CacheInv

\* IInv /\ [Next]_vars => IInv'.
LEMMA StepHolds == CacheInv /\ [Next]_vars => CacheInv'
<1> SUFFICES ASSUME CacheInv, [Next]_vars PROVE CacheInv'  OBVIOUS
<1>1. ASSUME NEW p \in Procs, BuildStep(p) PROVE CacheInv'
  BY <1>1, ScanKeeps, SweepKeeps, CheckKeeps, InterruptKeeps, StampKeeps, HashKeeps, RestampKeeps,
     LookupKeeps, DiscardKeeps, RemoveStaleKeeps, StageKeeps, CopyKeeps, CheckCopiesKeeps,
     CompileKeeps, CompiledKeeps, VerifyKeeps, FillKeeps, PublishKeeps, CollideKeeps,
     ConfirmKeeps, LoadKeeps DEF BuildStep
<1>2. ASSUME NEW p \in Procs, Start(p) \/ Fail(p) \/ Signal(p) \/ Kill(p) PROVE CacheInv'
  BY <1>2, StartKeeps, InterruptKeeps, SignalKeeps, KillKeeps
<1>3. ASSUME NEW f \in Files, Edit(f) PROVE CacheInv'  BY <1>3, EditKeeps
<1>4. ASSUME NEW k \in DOMAIN cache, Damage(k) PROVE CacheInv'  BY <1>4, DamageKeeps
<1>5. CASE UNCHANGED vars
  <2>1. UNCHANGED <<disk, copied, cache, dirs, run, budget>>  BY <1>5 DEF vars
  <2>2. TypeOK'  BY <2>1 DEF CacheInv, TypeOK, HoldsStage, Alive
  <2>3. EntriesMatchKeys'  BY <2>1 DEF CacheInv, EntriesMatchKeys
  <2>4. \A p \in Procs : RunOK(run[p], disk, copied)'  BY <2>1 DEF CacheInv
  <2> QED  BY <2>1, <2>2, <2>3, <2>4 DEF CacheInv
<1> QED  BY <1>1, <1>2, <1>3, <1>4, <1>5 DEF Next

LEMMA CacheInvariant == Spec => []CacheInv
BY InitHolds, StepHolds, PTL DEF Spec

\* The cache never serves a module under a key that does not describe it:
\* build() stores nothing that was edited, even back, while it was built.
THEOREM CacheMatchesKeys == Spec => []EntriesMatchKeys
<1>1. CacheInv => EntriesMatchKeys  BY DEF CacheInv
<1> QED  BY <1>1, CacheInvariant, PTL

\* No run makes its key from half of an edit.
THEOREM KeysAreWhole == Spec => []KeysAreSnapshots
<1>1. CacheInv => KeysAreSnapshots  BY RunFacts DEF KeysAreSnapshots, RunOK
<1> QED  BY <1>1, CacheInvariant, PTL

\* Only a live run holds a stage directory, and the state keeps its shape.
THEOREM CacheTyped == Spec => []TypeOK
<1>1. CacheInv => TypeOK  BY DEF CacheInv
<1> QED  BY <1>1, CacheInvariant, PTL

-----------------------------------------------------------------------------
(* What runs do to one another: directories. *)

\* The directories that are nobody's work stay few when none is added, and the
\* owners of those that stay go on working with them.
LEMMA FewLeftBehind ==
  ASSUME CacheInv, \E A \in SUBSET dirs : LeftBehind(A),
         dirs' \subseteq dirs, budget'.kills = budget.kills,
         \A d \in dirs' : Working(d) => Working(d)'
  PROVE  \E A \in SUBSET dirs' : LeftBehind(A)'
<1>1. PICK A \in SUBSET dirs : LeftBehind(A)  OBVIOUS
<1>2. PICK B : B = A \cap dirs'  OBVIOUS
<1>3. IsFiniteSet(A) /\ Cardinality(A) <= 2 * budget.kills /\ B \in SUBSET A  BY <1>1, <1>2 DEF LeftBehind
<1>4. IsFiniteSet(B) /\ Cardinality(B) <= Cardinality(A)  BY <1>3, FS_Subset
<1>5. Cardinality(B) <= 2 * budget'.kills
  <2>1. Cardinality(A) \in Nat /\ Cardinality(B) \in Nat /\ budget.kills \in Nat
    BY <1>3, <1>4, FS_CardinalityType DEF CacheInv, TypeOK
  <2> QED  BY <1>3, <1>4, <2>1
<1>6. \A d \in dirs' \ B : d \in dirs \ A  BY <1>2
<1>7. \A d \in dirs' \ B : Working(d)'  BY <1>1, <1>6 DEF LeftBehind
<1>8. \A d, e \in dirs' \ B : d.owner = e.owner /\ d.kind = e.kind => d = e
  BY <1>1, <1>6 DEF LeftBehind
<1>9. LeftBehind(B)'  BY <1>4, <1>5, <1>7, <1>8 DEF LeftBehind
<1>10. B \in SUBSET dirs'  BY <1>2
<1> QED  BY <1>9, <1>10

-----------------------------------------------------------------------------
(* What one run's step leaves to the others. *)

Others(p) == \A q \in Procs \ {p} : run'[q] = run[q]

\* Entries stay, and a new one can be loaded.
CacheGrows ==
  /\ \A k \in DOMAIN cache : k \in DOMAIN cache' /\ cache'[k] = cache[k]
  /\ \A k \in DOMAIN cache' : k \in DOMAIN cache \/ Loadable(k)'

LEMMA Same == ASSUME UNCHANGED cache PROVE CacheGrows
BY DEF CacheGrows

LEMMA OthersHold ==
  ASSUME NEW p \in Procs, \A q \in Procs : HoldsItsOwn(q), Others(p), CacheGrows,
         \A q \in Procs \ {p} : StageDir(q) \in dirs => StageDir(q) \in dirs'
  PROVE  \A q \in Procs \ {p} : HoldsItsOwn(q)'
<1> SUFFICES ASSUME NEW q \in Procs \ {p} PROVE HoldsItsOwn(q)'
  OBVIOUS
<1>1. run'[q] = run[q]  BY DEF Others
<1>2. HoldsItsOwn(q)  OBVIOUS
<1>3. Key(q)' = Key(q) /\ StageDir(q)' = StageDir(q) /\ HoldsStage(q)' = HoldsStage(q)
  BY <1>1 DEF Key, StageDir, HoldsStage
<1>4. Loadable(Key(q)) => Loadable(Key(q))'
  BY <1>3 DEF CacheGrows, Loadable, HasModule
<1>5. Key(q)' \in DOMAIN cache' => Loadable(Key(q))' \/ (Key(q) \in DOMAIN cache /\ cache'[Key(q)] = cache[Key(q)])
  BY <1>3 DEF CacheGrows
<1>6. Loadable(Key(q))' => cache'[Key(q)'].module # Bad  BY DEF Loadable
<1> QED  BY <1>1, <1>2, <1>3, <1>4, <1>5, <1>6 DEF HoldsItsOwn

LEMMA PeaceStays ==
  ASSUME NEW p \in Procs, Peaceful, Others(p), CacheGrows,
         budget'.damage = budget.damage, budget'.kills = 0 => budget.kills = 0,
         run'[p].disturbed => run[p].disturbed,
         budget.damage = 0 /\ (\A k \in DOMAIN cache : Loadable(k)) => Calm(p)',
         budget.damage = 0 /\ budget.kills = 0 => run'[p].doomed = {}
  PROVE  Peaceful'
<1>1. ASSUME budget.damage = 0 PROVE \A k \in DOMAIN cache' : Loadable(k)'
  BY <1>1 DEF Peaceful, CacheGrows, Loadable, HasModule
<1>2. ASSUME budget.damage = 0, NEW q \in Procs PROVE Calm(q)'
  <2>1. CASE q = p  BY <1>2, <2>1 DEF Peaceful
  <2>2. CASE q # p
    <3>1. run'[q] = run[q] /\ Key(q)' = Key(q)  BY <2>2 DEF Others, Key
    <3>2. Calm(q) /\ \A k \in DOMAIN cache : k \in DOMAIN cache'  BY <1>2 DEF Peaceful, CacheGrows
    <3>3. Loadable(Key(q)) => Loadable(Key(q))'  BY <3>1 DEF CacheGrows, Loadable, HasModule
    <3> QED  BY <3>1, <3>2, <3>3 DEF Calm
  <2> QED  BY <2>1, <2>2
<1>3. ASSUME budget'.damage = 0, budget'.kills = 0, NEW q \in Procs
      PROVE  ~run'[q].disturbed /\ run'[q].doomed = {}
  BY <1>3 DEF Peaceful, Others
<1> QED  BY <1>1, <1>2, <1>3 DEF Peaceful

\* A run moves on within build(): directories and entries stay, its stage
\* directory is still its own, and it removes no entry.
LEMMA MovesOn ==
  ASSUME CacheInv, SharingInv, NEW p \in Procs, Others(p),
         UNCHANGED <<cache, dirs>>, UNCHANGED <<budget.damage, budget.kills>>,
         run'[p].disturbed => run[p].disturbed,
         HoldsStage(p) => HoldsStage(p)' /\ StageDir(p)' = StageDir(p),
         run[p].pc \in Removing => run'[p].pc \in Removing,
         HoldsItsOwn(p)',
         budget.damage = 0 /\ (\A k \in DOMAIN cache : Loadable(k)) => Calm(p)',
         budget.damage = 0 /\ budget.kills = 0 => run'[p].doomed = {}
  PROVE  SharingInv'
<1>1. CacheGrows  BY Same
<1>2. \A q \in Procs \ {p} : StageDir(q) \in dirs => StageDir(q) \in dirs'  OBVIOUS
<1>3. \A q \in Procs : HoldsItsOwn(q)'  BY <1>1, <1>2, OthersHold DEF SharingInv
<1>4. Peaceful'  BY <1>1, PeaceStays DEF SharingInv
<1>5. ASSUME NEW d \in dirs, Working(d) PROVE Working(d)'
  <2>1. d.owner \in Procs  BY DEF CacheInv, TypeOK, Dirs
  <2>2. CASE d.owner = p  BY <1>5, <2>2 DEF Working, Removing
  <2>3. CASE d.owner # p
    <3>1. run'[d.owner] = run[d.owner]  BY <2>1, <2>3 DEF Others
    <3> QED  BY <1>5, <3>1 DEF Working, HoldsStage, StageDir
  <2> QED  BY <2>2, <2>3
<1>6. \E A \in SUBSET dirs' : LeftBehind(A)'  BY <1>5, FewLeftBehind DEF SharingInv
<1> QED  BY <1>3, <1>4, <1>6 DEF SharingInv

\* A run leaves build(), or publishes, and its stage directory goes.
LEMMA Leaves ==
  ASSUME CacheInv, SharingInv, NEW p \in Procs, Others(p),
         LeaveBuild(p), CacheGrows, UNCHANGED <<budget.damage, budget.kills>>,
         run'[p].disturbed => run[p].disturbed,
         ~HoldsStage(p)', run[p].pc \notin Removing,
         HoldsItsOwn(p)',
         budget.damage = 0 /\ (\A k \in DOMAIN cache : Loadable(k)) => Calm(p)',
         budget.damage = 0 /\ budget.kills = 0 => run'[p].doomed = {}
  PROVE  SharingInv'
<1>1. CacheGrows  OBVIOUS
<1>2. \A q \in Procs \ {p} : StageDir(q) \in dirs => StageDir(q) \in dirs'
  BY DEF LeaveBuild, StageDir
<1>3. \A q \in Procs : HoldsItsOwn(q)'  BY <1>1, <1>2, OthersHold DEF SharingInv
<1>4. Peaceful'  BY <1>1, PeaceStays DEF SharingInv
<1>5. dirs' \subseteq dirs  BY DEF LeaveBuild
<1>6. ASSUME NEW d \in dirs', Working(d) PROVE Working(d)'
  <2>1. d.owner \in Procs  BY <1>5 DEF CacheInv, TypeOK, Dirs
  <2>2. d.owner # p  BY <1>6 DEF Working, LeaveBuild, Removing
  <2>3. run'[d.owner] = run[d.owner]  BY <2>1, <2>2 DEF Others
  <2> QED  BY <1>6, <2>3 DEF Working, HoldsStage, StageDir
<1>7. \E A \in SUBSET dirs' : LeftBehind(A)'  BY <1>5, <1>6, FewLeftBehind DEF SharingInv
<1> QED  BY <1>3, <1>4, <1>7 DEF SharingInv

-----------------------------------------------------------------------------
(* Steps within build(). *)

LEMMA Moved ==
  ASSUME CacheInv, NEW p \in Procs, NEW r, Step(p, r)
  PROVE  run'[p] = r /\ Others(p)
BY DEF Step, Others, CacheInv, TypeOK

\* The same run, as the others see it.
SameWork(r, s) ==
  /\ r.disturbed = s.disturbed /\ r.rebuild = s.rebuild
  /\ r.stage = s.stage /\ (r.filled = "none" <=> s.filled = "none")

Early == {"swept", "stamp", "hash", "restamp", "lookup"}

\* Before the build begins a run counts on nothing.
LEMMA EarlyStep ==
  ASSUME CacheInv, SharingInv, NEW p \in Procs, NEW r, Goes(p, r),
         SameWork(r, run[p]), r.pc \in Early, run[p].pc \in Early \cup {"sweep", "check"},
         r.doomed = run[p].doomed \/ (budget.damage = 0 /\ budget.kills = 0 => r.doomed = {})
  PROVE  SharingInv'
<1>1. run'[p] = r /\ Others(p) /\ UNCHANGED <<cache, dirs, budget>>  BY Moved DEF Goes
<1>2. HoldsItsOwn(p) /\ Peaceful  BY DEF SharingInv
<1>3. HoldsStage(p)' = HoldsStage(p) /\ StageDir(p)' = StageDir(p)
  BY <1>1 DEF HoldsStage, StageDir, SameWork
<1>4. ~HoldsStage(p)  BY <1>2 DEF HoldsItsOwn, Early, Holding, Placing
<1>5. run'[p].pc \notin Holding \cup {"confirm"}  BY <1>1 DEF Early, Holding, Placing
<1>6. HoldsItsOwn(p)'
  BY <1>1, <1>3, <1>4, <1>5 DEF HoldsItsOwn, Early, Placing, Removing
<1>7. budget.damage = 0 => Calm(p)'  BY <1>1, <1>2 DEF Peaceful, Calm, SameWork, Early
<1>8. budget.damage = 0 /\ budget.kills = 0 => run'[p].doomed = {}  BY <1>1, <1>2 DEF Peaceful
<1>9. run[p].pc \notin Removing  BY DEF Early, Removing
<1> QED  BY <1>1, <1>3, <1>6, <1>7, <1>8, <1>9, MovesOn DEF SameWork

\* While it builds, its key stays.
LEMMA BuildingStep ==
  ASSUME CacheInv, SharingInv, NEW p \in Procs, NEW r, Goes(p, r),
         SameWork(r, run[p]), r.content = run[p].content, r.doomed = run[p].doomed,
         HoldsStage(p), run[p].pc \in Placing, r.pc \in Placing \ {"stage", "collide"}
  PROVE  SharingInv'
<1>1. run'[p] = r /\ Others(p) /\ UNCHANGED <<cache, dirs, budget>>  BY Moved DEF Goes
<1>2. HoldsItsOwn(p) /\ Peaceful  BY DEF SharingInv
<1>3. HoldsStage(p)' = HoldsStage(p) /\ StageDir(p)' = StageDir(p) /\ Key(p)' = Key(p)
  BY <1>1 DEF HoldsStage, StageDir, SameWork, Key
<1>4. HoldsItsOwn(p)'
  BY <1>1, <1>2, <1>3 DEF HoldsItsOwn, SameWork, Placing, Holding, Removing
<1>5. budget.damage = 0 => Calm(p)'
  BY <1>1, <1>2 DEF Peaceful, Calm, SameWork, Placing
<1>6. budget.damage = 0 /\ budget.kills = 0 => run'[p].doomed = {}  BY <1>1, <1>2 DEF Peaceful
<1>7. run[p].pc \notin Removing  BY DEF Placing, Removing
<1> QED  BY <1>1, <1>3, <1>4, <1>5, <1>6, <1>7, MovesOn DEF SameWork

\* The outcome of a run, as the others see it.
LEMMA IdleFacts ==
  ASSUME CacheInv, NEW p \in Procs, NEW goal
  PROVE  /\ Idle(p, goal).pc = goal /\ Idle(p, goal).disturbed = run[p].disturbed
         /\ Idle(p, goal).filled = "none" /\ ~Idle(p, goal).rebuild /\ Idle(p, goal).doomed = {}
         /\ ~Idle(p, goal).reused
BY DEF Idle, Fresh

\* build() ends with an error.
LEMMA GivesShares ==
  ASSUME CacheInv, SharingInv, NEW p \in Procs, NEW goal \in {"failed", "interrupted"},
         Gives(p, goal), run[p].pc \notin Removing
  PROVE  SharingInv'
<1>1. /\ run'[p] = Idle(p, goal) /\ Others(p) /\ LeaveBuild(p) /\ UNCHANGED <<cache, budget>>
  BY Moved DEF Gives
<1>2. /\ run'[p].pc = goal /\ run'[p].filled = "none" /\ ~run'[p].rebuild
      /\ run'[p].disturbed = run[p].disturbed /\ run'[p].doomed = {}
  BY <1>1, IdleFacts
<1>3. ~HoldsStage(p)'  BY <1>2 DEF HoldsStage
<1>4. HoldsItsOwn(p)'  BY <1>2, <1>3 DEF HoldsItsOwn, Placing, Holding, Removing
<1>5. Calm(p)'  BY <1>2 DEF Calm
<1> QED  BY <1>1, <1>2, <1>3, <1>4, <1>5, Leaves, Same

\* Without kills every directory is somebody's work.
LEMMA AllWorking ==
  ASSUME CacheInv, SharingInv, budget.kills = 0
  PROVE  \A d \in dirs : Working(d) /\ Alive(d.owner)
<1>1. PICK A \in SUBSET dirs : LeftBehind(A)  BY DEF SharingInv
<1>2. IsFiniteSet(A) /\ Cardinality(A) <= 0  BY <1>1 DEF LeftBehind
<1>3. A = {}  BY <1>2, FS_CardinalityType, FS_EmptySet
<1>4. \A d \in dirs : Working(d)  BY <1>1, <1>3 DEF LeftBehind
<1>5. \A d \in dirs : d.owner \in Procs  BY DEF CacheInv, TypeOK, Dirs
<1>6. \A q \in Procs : HoldsStage(q) \/ run[q].pc \in {"stale", "stale again"} => Alive(q)
  BY DEF CacheInv, TypeOK, Alive, Over
<1> QED  BY <1>4, <1>5, <1>6 DEF Working

LEMMA ScanShares == ASSUME CacheInv, SharingInv, NEW p \in Procs, Scan(p) PROVE SharingInv'
<1> DEFINE r == [run[p] EXCEPT !.pc = "swept", !.doomed = {d \in dirs : ~Alive(d.owner)}]
<1>1. Goes(p, r) /\ run[p].pc = "sweep"  BY DEF Scan
<1>2. SameWork(r, run[p]) /\ r.pc = "swept" /\ r.doomed = {d \in dirs : ~Alive(d.owner)}
  BY RunTyped DEF Runs, SameWork
<1>3. budget.damage = 0 /\ budget.kills = 0 => \A d \in dirs : Alive(d.owner)
  BY AllWorking
<1> HIDE DEF r
<1> QED  BY <1>1, <1>2, <1>3, EarlyStep DEF Early

LEMMA EarlyShares ==
  ASSUME CacheInv, SharingInv, NEW p \in Procs, Check(p) \/ Stamp(p) \/ Hash(p) \/ Restamp(p)
  PROVE  SharingInv'
<1>1. run[p].pc \in {"check", "stamp", "hash", "restamp"} /\ run[p].pc \notin Removing
  BY DEF Check, Stamp, Hash, Restamp, Removing
<1>2. CASE Gives(p, "failed")  BY <1>1, <1>2, GivesShares
<1>3. CASE Check(p)
  <2> DEFINE r == [run[p] EXCEPT !.pc = "stamp", !.files = {"main", Included(disk)}]
  <2>1. CASE Goes(p, r)
    <3>1. SameWork(r, run[p]) /\ r.doomed = run[p].doomed /\ r.pc = "stamp"
      BY RunTyped DEF Runs, SameWork
    <3> HIDE DEF r
    <3> QED  BY <1>1, <2>1, <3>1, EarlyStep DEF Early
  <2> QED  BY <1>2, <1>3, <2>1 DEF Check
<1>4. CASE Stamp(p)
  <2> DEFINE r == [run[p] EXCEPT !.pc = "hash", !.stamp = StateOf(p)]
  <2>1. CASE Goes(p, r)
    <3>1. SameWork(r, run[p]) /\ r.doomed = run[p].doomed /\ r.pc = "hash"
      BY RunTyped DEF Runs, SameWork
    <3> HIDE DEF r
    <3> QED  BY <1>1, <2>1, <3>1, EarlyStep DEF Early
  <2> QED  BY <1>2, <1>4, <2>1 DEF Stamp
<1>5. CASE Hash(p)
  <2>1. PICK f \in Unhashed(p) :
          \/ Goes(p, [run[p] EXCEPT !.content[f] = disk[f].content,
                                    !.pc = IF Unhashed(p) = {f} THEN "restamp" ELSE "hash"])
          \/ Gives(p, "failed")
    BY <1>5 DEF Hash
  <2> DEFINE r == [run[p] EXCEPT !.content[f] = disk[f].content,
                                 !.pc = IF Unhashed(p) = {f} THEN "restamp" ELSE "hash"]
  <2>2. CASE Goes(p, r)
    <3>1. SameWork(r, run[p]) /\ r.doomed = run[p].doomed
      BY RunTyped DEF Runs, SameWork
    <3>2. r.pc \in {"restamp", "hash"}  BY RunTyped DEF Runs
    <3> HIDE DEF r
    <3> QED  BY <1>1, <2>2, <3>1, <3>2, EarlyStep DEF Early
  <2> QED  BY <1>2, <2>1, <2>2
<1>6. CASE Restamp(p)
  <2> DEFINE r == [run[p] EXCEPT !.pc = "lookup", !.snapshot = ContentOf(run[p].files)]
  <2>1. CASE Goes(p, r)
    <3>1. SameWork(r, run[p]) /\ r.doomed = run[p].doomed /\ r.pc = "lookup"
      BY RunTyped DEF Runs, SameWork
    <3> HIDE DEF r
    <3> QED  BY <1>1, <2>1, <3>1, EarlyStep DEF Early
  <2> QED  BY <1>2, <1>6, <2>1 DEF Restamp
<1> QED  BY <1>3, <1>4, <1>5, <1>6

LEMMA BuildingShares ==
  ASSUME CacheInv, SharingInv, NEW p \in Procs,
         CopyFile(p) \/ CheckCopies(p) \/ Compile(p) \/ Compiled(p) \/ Verify(p) \/ Fill(p)
  PROVE  SharingInv'
<1>1. run[p].pc \in Placing \ {"stage", "publish", "collide"} /\ run[p].pc \notin Removing
  BY DEF CopyFile, CheckCopies, Compile, Compiled, Verify, Fill, Placing, Removing
<1>2. CASE Gives(p, "failed")  BY <1>1, <1>2, GivesShares
<1>3. HoldsStage(p)  BY <1>1 DEF SharingInv, HoldsItsOwn, Holding
<1>4. CASE CopyFile(p)
  <2>1. PICK f \in Uncopied(p) : Goes(p, [run[p] EXCEPT !.copy[f] = disk[f].content]) \/ Gives(p, "failed")
    BY <1>4 DEF CopyFile
  <2> DEFINE r == [run[p] EXCEPT !.copy[f] = disk[f].content]
  <2>2. CASE Goes(p, r)
    <3>1. /\ SameWork(r, run[p]) /\ r.content = run[p].content /\ r.doomed = run[p].doomed
          /\ r.pc = run[p].pc
      BY RunTyped DEF Runs, SameWork
    <3> HIDE DEF r
    <3> QED  BY <1>1, <1>3, <2>2, <3>1, BuildingStep DEF Placing
  <2> QED  BY <1>2, <2>1, <2>2
<1>5. CASE CheckCopies(p)
  <2> DEFINE r == [run[p] EXCEPT !.pc = "compile"]
  <2>1. CASE Goes(p, r)
    <3>1. /\ SameWork(r, run[p]) /\ r.content = run[p].content /\ r.doomed = run[p].doomed
          /\ r.pc = "compile"
      BY RunTyped DEF Runs, SameWork
    <3> HIDE DEF r
    <3> QED  BY <1>1, <1>3, <2>1, <3>1, BuildingStep DEF Placing
  <2> QED  BY <1>2, <1>5, <2>1 DEF CheckCopies
<1>6. CASE Compile(p)
  <2>1. PICK f \in Unbuilt(p) : Goes(p, [run[p] EXCEPT !.built[f] = BuildRead(p, f)]) \/ Gives(p, "failed")
    BY <1>6 DEF Compile
  <2> DEFINE r == [run[p] EXCEPT !.built[f] = BuildRead(p, f)]
  <2>2. CASE Goes(p, r)
    <3>1. /\ SameWork(r, run[p]) /\ r.content = run[p].content /\ r.doomed = run[p].doomed
          /\ r.pc = run[p].pc
      BY RunTyped DEF Runs, SameWork
    <3> HIDE DEF r
    <3> QED  BY <1>1, <1>3, <2>2, <3>1, BuildingStep DEF Placing
  <2> QED  BY <1>2, <2>1, <2>2
<1>7. CASE Compiled(p)
  <2> DEFINE r == [run[p] EXCEPT !.pc = "verify"]
  <2>1. CASE Goes(p, r)
    <3>1. /\ SameWork(r, run[p]) /\ r.content = run[p].content /\ r.doomed = run[p].doomed
          /\ r.pc = "verify"
      BY RunTyped DEF Runs, SameWork
    <3> HIDE DEF r
    <3> QED  BY <1>1, <1>3, <2>1, <3>1, BuildingStep DEF Placing
  <2> QED  BY <1>7, <2>1 DEF Compiled
<1>8. CASE Verify(p)
  <2> DEFINE r == [run[p] EXCEPT !.pc = "fill"]
  <2>1. CASE Goes(p, r)
    <3>1. /\ SameWork(r, run[p]) /\ r.content = run[p].content /\ r.doomed = run[p].doomed
          /\ r.pc = "fill"
      BY RunTyped DEF Runs, SameWork
    <3> HIDE DEF r
    <3> QED  BY <1>1, <1>3, <2>1, <3>1, BuildingStep DEF Placing
  <2> QED  BY <1>2, <1>8, <2>1 DEF Verify
<1>9. CASE Fill(p)
  <2> DEFINE r == [run[p] EXCEPT !.filled = Filled(p),
                                 !.pc = IF Filled(p) = "whole" THEN "publish" ELSE "fill"]
  <2>1. CASE Goes(p, r)
    <3>1. Filled(p) # "none" /\ run[p].filled # "none"  BY <1>3 DEF Filled, HoldsStage
    <3>2. SameWork(r, run[p]) /\ r.content = run[p].content /\ r.doomed = run[p].doomed
      BY <3>1, RunTyped DEF Runs, SameWork
    <3>3. r.pc \in {"publish", "fill"}  BY RunTyped DEF Runs
    <3> HIDE DEF r
    <3> QED  BY <1>1, <1>3, <2>1, <3>2, <3>3, BuildingStep DEF Placing
  <2> QED  BY <1>2, <1>9, <2>1 DEF Fill
<1> QED  BY <1>4, <1>5, <1>6, <1>7, <1>8, <1>9

LEMMA EndsShares ==
  ASSUME CacheInv, SharingInv, NEW p \in Procs, Interrupt(p) \/ Fail(p)
  PROVE  SharingInv'
<1>1. run[p].pc \notin Removing  BY DEF Interrupt, Fail, Removing
<1>2. Gives(p, "failed") \/ Gives(p, "interrupted")  BY DEF Interrupt, Fail
<1> QED  BY <1>1, <1>2, GivesShares

LEMMA LookupShares == ASSUME CacheInv, SharingInv, NEW p \in Procs, Lookup(p) PROVE SharingInv'
<1> DEFINE q == [run[p] EXCEPT !.content["engine"] = disk["engine"].content]
           r == IF Reuses(p, q.content) THEN [q EXCEPT !.pc = "load", !.reused = TRUE]
                ELSE [q EXCEPT !.pc = IF q.rebuild THEN "discard" ELSE "stage"]
<1>1. Goes(p, r) /\ run[p].pc = "lookup"  BY DEF Lookup
<1>2. HoldsItsOwn(p) /\ Peaceful /\ run[p] \in Runs  BY RunTyped DEF SharingInv
<1>3. /\ SameWork(r, run[p]) /\ r.doomed = run[p].doomed
      /\ Reuses(p, r.content) => r.pc = "load" /\ r.reused
      /\ ~Reuses(p, r.content) => r.pc = IF run[p].rebuild THEN "discard" ELSE "stage"
  BY <1>2 DEF Runs, SameWork
<1> HIDE DEF q, r
<1>4. /\ run'[p] = r /\ Others(p) /\ UNCHANGED <<cache, dirs, budget>>
      /\ Key(p)' = r.content
  BY <1>1, Moved DEF Goes, Key
<1>5. HoldsStage(p)' = HoldsStage(p) /\ StageDir(p)' = StageDir(p)
  BY <1>3, <1>4 DEF HoldsStage, StageDir, SameWork
<1>6. (r.pc = "load" /\ r.reused) \/ (r.pc = "discard" /\ run[p].rebuild) \/ (r.pc = "stage" /\ ~HasModule(r.content))
  BY <1>3 DEF Reuses
<1>7. ~HoldsStage(p) /\ ~HoldsStage(p)'  BY <1>1, <1>2, <1>5 DEF HoldsItsOwn, Holding, Placing
<1>8. r.pc \in Placing /\ r.content \in DOMAIN cache => cache[r.content].module # Bad
  BY <1>6, ValuesAssumption DEF Placing, HasModule
<1>9. HoldsItsOwn(p)'
  BY <1>4, <1>6, <1>7, <1>8 DEF HoldsItsOwn, Holding, Placing, Removing
<1>10. r.pc = "load" => HasModule(r.content)  BY <1>3, <1>6 DEF Reuses
<1>11. ASSUME budget.damage = 0, \A k \in DOMAIN cache : Loadable(k) PROVE Calm(p)'
  <2>1. r.pc = "load" => Loadable(r.content)  BY <1>10, <1>11 DEF HasModule
  <2>2. Loadable(Key(p))' = Loadable(r.content)  BY <1>4 DEF Loadable, HasModule
  <2>3. ~run[p].disturbed => ~run[p].rebuild  BY <1>2, <1>11 DEF Peaceful, Calm
  <2> QED  BY <1>3, <1>4, <1>6, <2>1, <2>2, <2>3 DEF Calm, SameWork
<1>12. budget.damage = 0 /\ budget.kills = 0 => run'[p].doomed = {}  BY <1>2, <1>3, <1>4 DEF Peaceful
<1>13. run[p].pc \notin Removing  BY <1>1 DEF Removing
<1> QED  BY <1>3, <1>4, <1>5, <1>7, <1>9, <1>11, <1>12, <1>13, MovesOn DEF SameWork

LEMMA CollideShares == ASSUME CacheInv, SharingInv, NEW p \in Procs, Collide(p) PROVE SharingInv'
<1> DEFINE r == [run[p] EXCEPT !.pc = IF HasModule(Key(p)) THEN "confirm" ELSE "replace"]
<1>1. Goes(p, r) /\ run[p].pc = "collide"  BY DEF Collide
<1>2. HoldsItsOwn(p) /\ Peaceful /\ run[p] \in Runs  BY RunTyped DEF SharingInv
<1>3. /\ SameWork(r, run[p]) /\ r.doomed = run[p].doomed /\ r.content = run[p].content
      /\ r.pc = IF HasModule(Key(p)) THEN "confirm" ELSE "replace"
  BY <1>2 DEF Runs, SameWork
<1> HIDE DEF r
<1>4. /\ run'[p] = r /\ Others(p) /\ UNCHANGED <<cache, dirs, budget>>
      /\ Key(p)' = Key(p)
  BY <1>1, <1>3, Moved DEF Goes, Key
<1>5. HoldsStage(p)' = HoldsStage(p) /\ StageDir(p)' = StageDir(p) /\ HoldsStage(p)
  BY <1>1, <1>2, <1>3, <1>4 DEF HoldsStage, StageDir, SameWork, HoldsItsOwn, Holding, Placing
<1>6. Loadable(Key(p))' = Loadable(Key(p))  BY <1>4 DEF Loadable, HasModule
<1>7. ~run[p].disturbed /\ HasModule(Key(p)) => Loadable(Key(p))
  BY <1>1, <1>2 DEF HoldsItsOwn, Placing, Loadable, HasModule
<1>8. ~run[p].disturbed => StageDir(p) \in dirs  BY <1>2, <1>5 DEF HoldsItsOwn
<1>9. HoldsItsOwn(p)'
  BY <1>3, <1>4, <1>5, <1>6, <1>7, <1>8 DEF HoldsItsOwn, Holding, Placing, Removing, SameWork
<1>10. ASSUME budget.damage = 0, \A k \in DOMAIN cache : Loadable(k) PROVE Calm(p)'
  <2>1. ~run[p].disturbed => ~run[p].rebuild /\ Key(p) \in DOMAIN cache
    BY <1>1, <1>2, <1>10 DEF Peaceful, Calm
  <2>2. ~run[p].disturbed => r.pc = "confirm"  BY <1>3, <1>10, <2>1 DEF Loadable
  <2> QED  BY <1>3, <1>4, <2>1, <2>2 DEF Calm, SameWork
<1>11. budget.damage = 0 /\ budget.kills = 0 => run'[p].doomed = {}  BY <1>2, <1>3, <1>4 DEF Peaceful
<1>12. run[p].pc \notin Removing  BY <1>1 DEF Removing
<1> QED  BY <1>3, <1>4, <1>5, <1>9, <1>10, <1>11, <1>12, MovesOn DEF SameWork

LEMMA ConfirmShares == ASSUME CacheInv, SharingInv, NEW p \in Procs, Confirm(p) PROVE SharingInv'
<1> DEFINE r == IF HasModule(Key(p)) THEN [run[p] EXCEPT !.pc = "load", !.filled = "none"]
                ELSE Idle(p, "unloadable")
<1>1. Step(p, r) /\ LeaveBuild(p) /\ run[p].pc = "confirm" /\ UNCHANGED <<cache, budget>>  BY DEF Confirm
<1>2. HoldsItsOwn(p) /\ Peaceful /\ run[p] \in Runs  BY RunTyped DEF SharingInv
<1>3. /\ r.disturbed = run[p].disturbed /\ r.filled = "none"
      /\ HasModule(Key(p)) => /\ r.pc = "load" /\ r.content = run[p].content
                              /\ r.doomed = run[p].doomed /\ r.rebuild = run[p].rebuild
      /\ ~HasModule(Key(p)) => r.pc = "unloadable" /\ r.doomed = {} /\ ~r.rebuild
  BY <1>2, IdleFacts DEF Runs
<1> HIDE DEF r
<1>4. /\ run'[p] = r /\ Others(p) /\ Key(p)' = r.content  BY <1>1, Moved DEF Key
<1>5. ~HoldsStage(p)'  BY <1>3, <1>4 DEF HoldsStage
<1>6. ~run[p].disturbed => Loadable(Key(p))  BY <1>1, <1>2 DEF HoldsItsOwn
<1>7. ~run[p].disturbed => r.pc = "load" /\ r.content = Key(p)  BY <1>3, <1>6 DEF Loadable, Key
<1>8. ~run[p].disturbed => Loadable(Key(p))'  BY <1>1, <1>4, <1>6, <1>7 DEF Loadable, HasModule
<1>9. r.pc \in {"load", "unloadable"}  BY <1>3
<1>10. HoldsItsOwn(p)'
  BY <1>3, <1>4, <1>5, <1>7, <1>8, <1>9 DEF HoldsItsOwn, Holding, Placing, Removing
<1>11. ASSUME budget.damage = 0 PROVE Calm(p)'
  <2>1. ~run[p].disturbed => ~run[p].rebuild  BY <1>2, <1>11 DEF Peaceful, Calm
  <2> QED  BY <1>3, <1>4, <1>8, <1>9, <2>1 DEF Calm
<1>12. budget.damage = 0 /\ budget.kills = 0 => run'[p].doomed = {}  BY <1>2, <1>3, <1>4 DEF Peaceful
<1>13. run[p].pc \notin Removing  BY <1>1 DEF Removing
<1> QED  BY <1>1, <1>3, <1>4, <1>5, <1>10, <1>11, <1>12, <1>13, Leaves, Same

LEMMA LoadShares == ASSUME CacheInv, SharingInv, NEW p \in Procs, Load(p) PROVE SharingInv'
<1> DEFINE r == IF run[p].cancelled THEN Idle(p, "interrupted")
                ELSE IF Loadable(Key(p))
                THEN [Idle(p, "ended") EXCEPT !.loaded = cache[Key(p)].module, !.content = Key(p)]
                ELSE IF BuildsAgain(p)
                THEN [Idle(p, "sweep") EXCEPT !.rebuild = TRUE]
                ELSE Idle(p, "unloadable")
<1>1. Goes(p, r) /\ run[p].pc = "load"  BY DEF Load, Goes
<1>2. HoldsItsOwn(p) /\ Peaceful /\ run[p] \in Runs  BY RunTyped DEF SharingInv
<1>3. /\ r.disturbed = run[p].disturbed /\ r.filled = "none" /\ r.doomed = {}
      /\ r.pc \in {"interrupted", "ended", "sweep", "unloadable"}
      /\ r.pc = "sweep" \/ r.pc = "unloadable" => ~Loadable(Key(p))
      /\ r.pc = "unloadable" => ~run[p].reused
      /\ r.rebuild => r.pc = "sweep"
  BY DEF Idle, Fresh, BuildsAgain
<1> HIDE DEF r
<1>4. /\ run'[p] = r /\ Others(p) /\ UNCHANGED <<cache, dirs, budget>>  BY <1>1, Moved DEF Goes
<1>5. ~HoldsStage(p) /\ ~HoldsStage(p)'
  BY <1>1, <1>2, <1>3, <1>4 DEF HoldsStage, HoldsItsOwn, Holding, Placing
<1>6. ~run[p].disturbed => r.pc # "unloadable"  BY <1>1, <1>2, <1>3 DEF HoldsItsOwn
<1>7. HoldsItsOwn(p)'
  BY <1>3, <1>4, <1>5, <1>6 DEF HoldsItsOwn, Holding, Placing, Removing
<1>8. ASSUME budget.damage = 0 PROVE Calm(p)'
  <2>1. ~run[p].disturbed => Loadable(Key(p))  BY <1>1, <1>2, <1>8 DEF Peaceful, Calm
  <2> QED  BY <1>3, <1>4, <2>1 DEF Calm
<1>9. budget.damage = 0 /\ budget.kills = 0 => run'[p].doomed = {}  BY <1>3, <1>4
<1>10. run[p].pc \notin Removing  BY <1>1 DEF Removing
<1> QED  BY <1>3, <1>4, <1>5, <1>7, <1>8, <1>9, <1>10, MovesOn

LEMMA SpentNeither ==
  ASSUME CacheInv, NEW what \in {"edits", "runs", "signals"}, Spend(what)
  PROVE  UNCHANGED <<budget.damage, budget.kills>>
BY DEF CacheInv, TypeOK, Spend

LEMMA StartShares == ASSUME CacheInv, SharingInv, NEW p \in Procs, Start(p) PROVE SharingInv'
<1>1. Step(p, Fresh) /\ ~Alive(p) /\ UNCHANGED <<cache, dirs>> /\ Spend("runs")  BY DEF Start
<1>2. run'[p] = Fresh /\ Others(p) /\ UNCHANGED <<budget.damage, budget.kills>>
  BY <1>1, Moved, SpentNeither
<1>3. /\ run'[p].pc = "sweep" /\ run'[p].filled = "none" /\ ~run'[p].disturbed /\ ~run'[p].rebuild
      /\ run'[p].doomed = {}
  BY <1>2 DEF Fresh
<1>4. ~HoldsStage(p)'  BY <1>3 DEF HoldsStage
<1>5. ~HoldsStage(p)  BY <1>1 DEF CacheInv, TypeOK
<1>6. run[p].pc \notin Removing  BY <1>1 DEF Alive, Over, Removing
<1>7. HoldsItsOwn(p)'  BY <1>3, <1>4 DEF HoldsItsOwn, Holding, Placing, Removing
<1>8. Calm(p)'  BY <1>3 DEF Calm
<1> QED  BY <1>1, <1>2, <1>3, <1>5, <1>6, <1>7, <1>8, MovesOn

LEMMA SignalShares == ASSUME CacheInv, SharingInv, NEW p \in Procs, Signal(p) PROVE SharingInv'
<1> DEFINE r == [run[p] EXCEPT !.cancelled = TRUE]
<1>1. Step(p, r) /\ UNCHANGED <<cache, dirs>> /\ Spend("signals")  BY DEF Signal
<1>2. HoldsItsOwn(p) /\ Peaceful /\ run[p] \in Runs  BY RunTyped DEF SharingInv
<1>3. /\ SameWork(r, run[p]) /\ r.doomed = run[p].doomed /\ r.content = run[p].content
      /\ r.pc = run[p].pc /\ r.reused = run[p].reused
  BY <1>2 DEF Runs, SameWork
<1> HIDE DEF r
<1>4. run'[p] = r /\ Others(p) /\ UNCHANGED <<budget.damage, budget.kills>>
  BY <1>1, Moved, SpentNeither
<1>5. Key(p)' = Key(p) /\ HoldsStage(p)' = HoldsStage(p) /\ StageDir(p)' = StageDir(p)
  BY <1>3, <1>4 DEF Key, HoldsStage, StageDir, SameWork
<1>6. Loadable(Key(p))' = Loadable(Key(p))  BY <1>1, <1>5 DEF Loadable, HasModule
<1>7. HoldsItsOwn(p)'  BY <1>1, <1>2, <1>3, <1>4, <1>5, <1>6 DEF HoldsItsOwn, SameWork
<1>8. budget.damage = 0 => Calm(p)'
  BY <1>1, <1>2, <1>3, <1>4, <1>5, <1>6 DEF Peaceful, Calm, SameWork
<1>9. budget.damage = 0 /\ budget.kills = 0 => run'[p].doomed = {}  BY <1>2, <1>3, <1>4 DEF Peaceful
<1> QED  BY <1>1, <1>3, <1>4, <1>5, <1>7, <1>8, <1>9, MovesOn DEF SameWork

LEMMA RemoveStaleShares ==
  ASSUME CacheInv, SharingInv, NEW p \in Procs, RemoveStale(p)
  PROVE  SharingInv'
<1> DEFINE r == [run[p] EXCEPT !.pc = IF @ = "stale" THEN "stage" ELSE "republish"]
<1>1. /\ Step(p, r) /\ dirs' = dirs \ Own(p, "stale") /\ UNCHANGED <<cache, budget>>
      /\ run[p].pc \in {"stale", "stale again"}
  BY DEF RemoveStale
<1>2. HoldsItsOwn(p) /\ Peaceful /\ run[p] \in Runs  BY RunTyped DEF SharingInv
<1>3. /\ SameWork(r, run[p]) /\ r.doomed = run[p].doomed /\ r.content = run[p].content
      /\ run[p].pc = "stale" => r.pc = "stage"
      /\ run[p].pc = "stale again" => r.pc = "republish"
  BY <1>2 DEF Runs, SameWork
<1> HIDE DEF r
<1>4. run'[p] = r /\ Others(p)  BY <1>1, Moved
<1>5. Key(p)' = Key(p) /\ HoldsStage(p)' = HoldsStage(p) /\ StageDir(p)' = StageDir(p)
  BY <1>3, <1>4 DEF Key, HoldsStage, StageDir, SameWork
<1>6. Loadable(Key(p))' = Loadable(Key(p))  BY <1>1, <1>5 DEF Loadable, HasModule
<1>7. \A q \in Procs : StageDir(q) \in dirs => StageDir(q) \in dirs'
  BY <1>1 DEF Own, StageDir
<1>8. Key(p)' \in DOMAIN cache' /\ Loadable(Key(p))' => cache'[Key(p)'].module # Bad
  BY DEF Loadable
<1>9. run[p].pc = "stale" \/ run[p].pc = "stale again"  BY <1>1
<1>10. HoldsItsOwn(p)'
  BY <1>1, <1>2, <1>3, <1>4, <1>5, <1>6, <1>7, <1>8, <1>9 DEF HoldsItsOwn, SameWork, Holding, Placing, Removing
<1>11. budget.damage = 0 => Calm(p)'
  BY <1>1, <1>2, <1>3, <1>4, <1>9 DEF Peaceful, Calm, SameWork
<1>12. budget.damage = 0 /\ budget.kills = 0 => run'[p].doomed = {}  BY <1>2, <1>3, <1>4 DEF Peaceful
<1>13. CacheGrows  BY <1>1, Same
<1>14. \A q \in Procs : HoldsItsOwn(q)'
  BY <1>4, <1>7, <1>10, <1>13, OthersHold DEF SharingInv
<1>15. Peaceful'
  BY <1>1, <1>2, <1>3, <1>4, <1>11, <1>12, <1>13, PeaceStays DEF SameWork
<1>16. dirs' \subseteq dirs  BY <1>1
<1>17. ASSUME NEW d \in dirs', Working(d) PROVE Working(d)'
  <2>1. d.owner \in Procs  BY <1>16 DEF CacheInv, TypeOK, Dirs
  <2>2. CASE d.owner # p
    <3>1. run'[d.owner] = run[d.owner]  BY <2>1, <2>2, <1>4 DEF Others
    <3> QED  BY <1>17, <3>1 DEF Working, HoldsStage, StageDir
  <2>3. CASE d.owner = p
    <3>1. d.kind # "stale"  BY <1>1, <1>16, <2>3 DEF Own
    <3>2. HoldsStage(p) /\ d = StageDir(p) /\ d.kind = "stage"  BY <1>17, <2>3, <3>1 DEF Working
    <3>3. HoldsStage(p)' /\ d = StageDir(p)'  BY <1>5, <3>2
    <3> QED  BY <2>3, <3>2, <3>3 DEF Working
  <2> QED  BY <2>2, <2>3
<1>18. \E A \in SUBSET dirs' : LeftBehind(A)'  BY <1>1, <1>16, <1>17, FewLeftBehind DEF SharingInv
<1> QED  BY <1>14, <1>15, <1>18 DEF SharingInv

LEMMA PublishShares == ASSUME CacheInv, SharingInv, NEW p \in Procs, Publish(p) PROVE SharingInv'
<1>1. HoldsItsOwn(p) /\ Peaceful /\ run[p] \in Runs /\ RunOK(run[p], disk, copied)
  BY RunTyped, RunFacts DEF SharingInv
<1>2. run[p].pc \in {"publish", "republish"} /\ UNCHANGED budget  BY DEF Publish
<1>3. HoldsStage(p) /\ run[p].pc \notin Removing
  BY <1>1, <1>2 DEF HoldsItsOwn, Holding, Placing, Removing
<1>4. CASE CanRename(p)
  <2> DEFINE r == [run[p] EXCEPT !.pc = "confirm", !.stored = TRUE, !.filled = "none"]
  <2>1. /\ Step(p, r) /\ LeaveBuild(p)
        /\ cache' = [k \in DOMAIN cache \cup {Key(p)} |-> IF k = Key(p) THEN Entry(p) ELSE cache[k]]
    BY <1>3, <1>4 DEF Publish, LeaveBuild
  <2>2. /\ r.disturbed = run[p].disturbed /\ r.rebuild = run[p].rebuild /\ r.doomed = run[p].doomed
        /\ r.content = run[p].content /\ r.pc = "confirm" /\ r.filled = "none"
    BY <1>1 DEF Runs
  <2> HIDE DEF r
  <2>3. run'[p] = r /\ Others(p) /\ Key(p)' = Key(p)  BY <2>1, <2>2, Moved DEF Key
  <2>4. Entry(p).module = run[p].content  BY <1>1, <1>2 DEF Entry, RunOK, Storing
  <2>5. Entry(p).module \notin {None, Bad}
    BY <1>1, <2>4, ValuesAssumption DEF Runs
  <2>6. Loadable(Key(p))'  BY <2>1, <2>3, <2>5 DEF Loadable, HasModule
  <2>7. CacheGrows
    <3>1. \A k \in DOMAIN cache : k # Key(p)  BY <1>4 DEF CanRename
    <3> QED  BY <2>1, <2>3, <2>6, <3>1 DEF CacheGrows
  <2>8. ~HoldsStage(p)'  BY <2>2, <2>3 DEF HoldsStage
  <2>9. HoldsItsOwn(p)'
    BY <2>2, <2>3, <2>6, <2>8 DEF HoldsItsOwn, Holding, Placing, Removing
  <2>10. budget.damage = 0 => Calm(p)'  BY <1>1, <2>2, <2>3 DEF Peaceful, Calm
  <2>11. budget.damage = 0 /\ budget.kills = 0 => run'[p].doomed = {}  BY <1>1, <2>2, <2>3 DEF Peaceful
  <2> QED  BY <1>2, <1>3, <2>1, <2>2, <2>3, <2>7, <2>8, <2>9, <2>10, <2>11, Leaves
<1>5. CASE ~CanRename(p)
  <2> DEFINE r == [run[p] EXCEPT !.pc = IF @ = "publish" THEN "collide" ELSE "confirm"]
  <2>1. Step(p, r) /\ UNCHANGED <<cache, dirs>>  BY <1>5 DEF Publish
  <2>2. /\ SameWork(r, run[p]) /\ r.doomed = run[p].doomed /\ r.content = run[p].content
        /\ run[p].pc = "publish" => r.pc = "collide"
        /\ run[p].pc = "republish" => r.pc = "confirm"
    BY <1>1 DEF Runs, SameWork
  <2> HIDE DEF r
  <2>3. run'[p] = r /\ Others(p) /\ Key(p)' = Key(p)  BY <2>1, <2>2, Moved DEF Key
  <2>4. HoldsStage(p)' /\ StageDir(p)' = StageDir(p)
    BY <1>3, <2>2, <2>3 DEF HoldsStage, StageDir, SameWork
  <2>5. ~run[p].disturbed => StageDir(p) \in dirs /\ Key(p) \in DOMAIN cache
    BY <1>1, <1>3, <1>5 DEF HoldsItsOwn, CanRename
  <2>6. ~run[p].disturbed /\ run[p].pc = "republish" => Loadable(Key(p))
    BY <1>1, <2>5 DEF HoldsItsOwn
  <2>7. ~run[p].disturbed /\ run[p].pc = "publish" => cache[Key(p)].module # Bad
    BY <1>1, <2>5 DEF HoldsItsOwn, Placing
  <2>8. Loadable(Key(p))' = Loadable(Key(p))  BY <2>1, <2>3 DEF Loadable, HasModule
  <2>9. run[p].pc = "publish" \/ run[p].pc = "republish"  BY <1>2
  <2>10. HoldsItsOwn(p)'
    BY <2>1, <2>2, <2>3, <2>4, <2>5, <2>6, <2>7, <2>8, <2>9
       DEF HoldsItsOwn, Holding, Placing, Removing, SameWork
  <2>11. budget.damage = 0 => Calm(p)'
    BY <1>1, <2>1, <2>2, <2>3, <2>5, <2>9 DEF Peaceful, Calm, SameWork
  <2>12. budget.damage = 0 /\ budget.kills = 0 => run'[p].doomed = {}  BY <1>1, <2>2, <2>3 DEF Peaceful
  <2> QED  BY <1>2, <1>3, <2>1, <2>2, <2>3, <2>4, <2>10, <2>11, <2>12, MovesOn DEF SameWork
<1> QED  BY <1>4, <1>5

-----------------------------------------------------------------------------
(* Steps that make a directory. *)

LEMMA OneMore ==
  ASSUME CacheInv, \E A \in SUBSET dirs : LeftBehind(A),
         NEW new, new \notin dirs, dirs' = dirs \cup {new}, budget'.kills = budget.kills,
         Working(new)', \A d \in dirs : Working(d) => Working(d)',
         \A d \in dirs : Working(d) => ~(d.owner = new.owner /\ d.kind = new.kind)
  PROVE  \E A \in SUBSET dirs' : LeftBehind(A)'
<1>1. PICK A \in SUBSET dirs : LeftBehind(A)  OBVIOUS
<1>2. \A d \in dirs' \ A : d = new \/ d \in dirs \ A  OBVIOUS
<1>3. \A d \in dirs \ A : Working(d)  BY <1>1 DEF LeftBehind
<1>4. \A d \in dirs' \ A : Working(d)'  BY <1>2, <1>3
<1>5. \A d, e \in dirs' \ A : d.owner = e.owner /\ d.kind = e.kind => d = e
  BY <1>1, <1>2, <1>3 DEF LeftBehind
<1>6. LeftBehind(A)'  BY <1>1, <1>4, <1>5 DEF LeftBehind
<1> QED  BY <1>6

LEMMA StageShares == ASSUME CacheInv, SharingInv, NEW p \in Procs, Stage(p) PROVE SharingInv'
<1>1. PICK n \in 0..MaxRuns :
        /\ FirstFree(p, "stage", n)
        /\ dirs' = dirs \cup {[kind |-> "stage", owner |-> p, n |-> n]}
        /\ Step(p, [run[p] EXCEPT !.pc = IF copied THEN "copy" ELSE "compile",
                                  !.stage = n, !.filled = "empty"])
  BY DEF Stage
<1> DEFINE r == [run[p] EXCEPT !.pc = IF copied THEN "copy" ELSE "compile",
                               !.stage = n, !.filled = "empty"]
           new == [kind |-> "stage", owner |-> p, n |-> n]
<1>2. run[p].pc = "stage" /\ UNCHANGED <<cache, budget>>  BY DEF Stage
<1>3. HoldsItsOwn(p) /\ Peaceful /\ run[p] \in Runs  BY RunTyped DEF SharingInv
<1>4. /\ r.disturbed = run[p].disturbed /\ r.rebuild = run[p].rebuild /\ r.doomed = run[p].doomed
      /\ r.content = run[p].content /\ r.filled = "empty" /\ r.stage = n
      /\ r.pc = "copy" \/ r.pc = "compile"
  BY <1>3 DEF Runs
<1> HIDE DEF r
<1>5. run'[p] = r /\ Others(p) /\ Key(p)' = Key(p)  BY <1>1, <1>4, Moved DEF Key, r
<1>6. HoldsStage(p)' /\ StageDir(p)' = new  BY <1>4, <1>5 DEF HoldsStage, StageDir
<1>7. new \notin dirs  BY <1>1 DEF FirstFree, Taken, Own
<1>8. dirs' = dirs \cup {new}  BY <1>1
<1>9. ~HoldsStage(p) /\ run[p].pc \notin Removing
  BY <1>2, <1>3 DEF HoldsItsOwn, Holding, Placing, Removing
<1>10. HoldsItsOwn(p)'
  BY <1>2, <1>3, <1>4, <1>5, <1>6, <1>8 DEF HoldsItsOwn, Holding, Placing, Removing
<1>11. budget.damage = 0 => Calm(p)'  BY <1>3, <1>4, <1>5 DEF Peaceful, Calm
<1>12. budget.damage = 0 /\ budget.kills = 0 => run'[p].doomed = {}  BY <1>3, <1>4, <1>5 DEF Peaceful
<1>13. CacheGrows  BY <1>2, Same
<1>14. \A q \in Procs : HoldsItsOwn(q)'
  BY <1>5, <1>8, <1>10, <1>13, OthersHold DEF SharingInv
<1>15. Peaceful'  BY <1>2, <1>3, <1>4, <1>5, <1>11, <1>12, <1>13, PeaceStays
<1>16. ASSUME NEW d \in dirs, Working(d) PROVE d.owner # p /\ Working(d)'
  <2>1. d.owner \in Procs  BY DEF CacheInv, TypeOK, Dirs
  <2>2. d.owner # p  BY <1>9, <1>16 DEF Working, Removing
  <2>3. run'[d.owner] = run[d.owner]  BY <1>5, <2>1, <2>2 DEF Others
  <2> QED  BY <1>16, <2>2, <2>3 DEF Working, HoldsStage, StageDir
<1>17. new.owner = p /\ new.kind = "stage"  OBVIOUS
<1> HIDE DEF new
<1>18. Working(new)'  BY <1>6, <1>17 DEF Working
<1>19. \E A \in SUBSET dirs' : LeftBehind(A)'
  BY <1>2, <1>7, <1>8, <1>16, <1>17, <1>18, OneMore DEF SharingInv
<1> QED  BY <1>14, <1>15, <1>19 DEF SharingInv

-----------------------------------------------------------------------------
(* Steps that disturb other runs. *)

Disturbed(q) == run'[q] = IF Alive(q) THEN [run[q] EXCEPT !.disturbed = TRUE] ELSE run[q]

\* A disturbed run counts on nothing any more, and keeps its directories.
LEMMA DisturbedHolds ==
  ASSUME CacheInv, NEW q \in Procs, HoldsItsOwn(q), Disturbed(q)
  PROVE  /\ HoldsItsOwn(q)' /\ (Calm(q) => Calm(q)')
         /\ HoldsStage(q)' = HoldsStage(q) /\ StageDir(q)' = StageDir(q)
         /\ run'[q].pc = run[q].pc
<1>1. run[q] \in Runs  BY RunTyped
<1>2. CASE Alive(q)
  <2>1. /\ run'[q].disturbed /\ run'[q].pc = run[q].pc
        /\ run'[q].filled = run[q].filled /\ run'[q].stage = run[q].stage
    BY <1>1, <1>2 DEF Runs, Disturbed
  <2>2. HoldsStage(q)' = HoldsStage(q) /\ StageDir(q)' = StageDir(q)
    BY <2>1 DEF HoldsStage, StageDir
  <2>3. HoldsItsOwn(q)'  BY <2>1, <2>2 DEF HoldsItsOwn
  <2> QED  BY <2>1, <2>2, <2>3 DEF Calm
<1>3. CASE ~Alive(q)
  <2>1. run'[q] = run[q]  BY <1>3 DEF Disturbed
  <2>2. HoldsStage(q)' = HoldsStage(q) /\ StageDir(q)' = StageDir(q)
    BY <2>1 DEF HoldsStage, StageDir
  <2>3. ~HoldsStage(q)  BY <1>3 DEF CacheInv, TypeOK
  <2>4. run[q].pc \in Over  BY <1>3 DEF Alive
  <2>5. HoldsItsOwn(q)'
    BY <2>1, <2>2, <2>3, <2>4 DEF HoldsItsOwn, Over, Holding, Placing, Removing
  <2>6. Calm(q) => Calm(q)'  BY <2>1, <2>4 DEF Calm, Over
  <2> QED  BY <2>1, <2>2, <2>5, <2>6
<1> QED  BY <1>2, <1>3

LEMMA DiscardShares == ASSUME CacheInv, SharingInv, NEW p \in Procs, Discard(p) PROVE SharingInv'
<1>1. run[p].pc \in {"discard", "replace"} /\ UNCHANGED budget /\ MoveAside(p)  BY DEF Discard
<1>2. HoldsItsOwn(p) /\ Peaceful /\ run[p] \in Runs  BY RunTyped DEF SharingInv
<1> DEFINE r == [run[p] EXCEPT !.pc = IF run[p].pc = "discard" THEN "stale" ELSE "stale again"]
<1>3. /\ SameWork(r, run[p]) /\ r.doomed = run[p].doomed /\ r.content = run[p].content
      /\ run[p].pc = "discard" => r.pc = "stale"
      /\ run[p].pc = "replace" => r.pc = "stale again"
  BY <1>1, <1>2 DEF Runs, SameWork
<1>4. run'[p] = r
  BY DEF Discard, Disturb, CacheInv, TypeOK
<1>5. /\ Key(p) \in DOMAIN cache => \A q \in Procs \ {p} : Disturbed(q)
      /\ Key(p) \notin DOMAIN cache => Others(p)
  BY DEF Discard, Disturb, Disturbed, Others, CacheInv, TypeOK
<1> HIDE DEF r
<1>6. /\ Key(p)' = Key(p) /\ HoldsStage(p)' = HoldsStage(p) /\ StageDir(p)' = StageDir(p)
  BY <1>3, <1>4 DEF Key, HoldsStage, StageDir, SameWork
<1>7. /\ Key(p) \notin DOMAIN cache' /\ dirs \subseteq dirs'
      /\ \A k \in DOMAIN cache' : k \in DOMAIN cache /\ cache'[k] = cache[k]
      /\ Key(p) \notin DOMAIN cache => UNCHANGED <<cache, dirs>>
  BY <1>1 DEF MoveAside
<1>8. r.pc = "stale" \/ r.pc = "stale again"  BY <1>1, <1>3
<1>9. HoldsItsOwn(p)'
  <2>1. run[p].pc = "discard" => ~HoldsStage(p)  BY <1>2 DEF HoldsItsOwn, Holding, Placing
  <2>2. run[p].pc = "replace" => HoldsStage(p)  BY <1>2 DEF HoldsItsOwn, Holding, Placing
  <2>3. ~run[p].disturbed /\ HoldsStage(p) => StageDir(p) \in dirs'  BY <1>2, <1>7 DEF HoldsItsOwn
  <2>4. (HoldsStage(p) <=> r.pc = "stale again") /\ (~HoldsStage(p) <=> r.pc = "stale")
    BY <1>1, <1>3, <2>1, <2>2
  <2> QED
    BY <1>3, <1>4, <1>6, <1>7, <1>8, <2>3, <2>4 DEF HoldsItsOwn, Holding, Placing, Removing, SameWork
<1>10. \A q \in Procs \ {p} : HoldsItsOwn(q)' /\ (Calm(q) => Calm(q)')
  <2>1. CASE Key(p) \in DOMAIN cache  BY <1>5, <2>1, DisturbedHolds DEF SharingInv
  <2>2. CASE Key(p) \notin DOMAIN cache
    <3>1. CacheGrows /\ Others(p) /\ UNCHANGED <<cache, dirs>>  BY <1>5, <1>7, <2>2, Same
    <3>2. \A q \in Procs \ {p} : HoldsItsOwn(q)'  BY <3>1, OthersHold DEF SharingInv
    <3>3. \A q \in Procs \ {p} : Calm(q) => Calm(q)'
      <4> SUFFICES ASSUME NEW q \in Procs \ {p}, Calm(q) PROVE Calm(q)'
        OBVIOUS
      <4>1. run'[q] = run[q] /\ Key(q)' = Key(q)  BY <3>1 DEF Others, Key
      <4>2. Loadable(Key(q))' = Loadable(Key(q))  BY <3>1, <4>1 DEF Loadable, HasModule
      <4> QED  BY <3>1, <4>1, <4>2 DEF Calm
    <3> QED  BY <3>2, <3>3
  <2> QED  BY <2>1, <2>2
<1>11. Peaceful'
  <2>1. ASSUME budget.damage = 0 PROVE run[p].disturbed  BY <1>1, <1>2, <2>1 DEF Peaceful, Calm
  <2>2. ASSUME budget.damage = 0 PROVE Calm(p)'  BY <1>3, <1>4, <2>1, <2>2 DEF Calm, SameWork
  <2>3. ASSUME budget.damage = 0 PROVE \A q \in Procs : Calm(q)'
    BY <1>2, <1>10, <2>2, <2>3 DEF Peaceful
  <2>4. ASSUME budget.damage = 0 PROVE \A k \in DOMAIN cache' : Loadable(k)'
    BY <1>2, <1>7, <2>4 DEF Peaceful, Loadable, HasModule
  <2>5. budget.damage = 0 /\ budget.kills = 0 => FALSE  BY <1>2, <2>1 DEF Peaceful
  <2> QED  BY <1>1, <2>3, <2>4, <2>5 DEF Peaceful
<1>12. ASSUME NEW d \in dirs, Working(d) PROVE Working(d)' /\ ~(d.owner = p /\ d.kind = "stale")
  <2>1. d.owner \in Procs  BY DEF CacheInv, TypeOK, Dirs
  <2>2. CASE d.owner = p
    <3>1. d.kind # "stale"  BY <1>1, <1>12, <2>2 DEF Working
    <3>2. d.kind = "stage" /\ HoldsStage(p) /\ d = StageDir(p)  BY <1>12, <2>2, <3>1 DEF Working
    <3> QED  BY <1>6, <2>2, <3>1, <3>2 DEF Working
  <2>3. CASE d.owner # p
    <3>1. /\ HoldsStage(d.owner)' = HoldsStage(d.owner) /\ StageDir(d.owner)' = StageDir(d.owner)
          /\ run'[d.owner].pc = run[d.owner].pc
      <4>1. CASE Key(p) \in DOMAIN cache  BY <1>5, <2>1, <2>3, <4>1, DisturbedHolds DEF SharingInv
      <4>2. CASE Key(p) \notin DOMAIN cache
        <5>1. run'[d.owner] = run[d.owner]  BY <1>5, <2>1, <2>3, <4>2 DEF Others
        <5> QED  BY <5>1 DEF HoldsStage, StageDir
      <4> QED  BY <4>1, <4>2
    <3> QED  BY <1>12, <2>3, <3>1 DEF Working
  <2> QED  BY <2>2, <2>3
<1>13. \E A \in SUBSET dirs' : LeftBehind(A)'
  <2>1. CASE dirs' = dirs  BY <1>1, <1>12, <2>1, FewLeftBehind DEF SharingInv
  <2>2. CASE dirs' # dirs
    <3>1. PICK n \in 0..MaxRuns : /\ FirstFree(p, "stale", n)
                                 /\ dirs' = dirs \cup {[kind |-> "stale", owner |-> p, n |-> n]}
      BY <1>1, <2>2 DEF MoveAside
    <3> DEFINE new == [kind |-> "stale", owner |-> p, n |-> n]
    <3>2. new \notin dirs  BY <3>1 DEF FirstFree, Taken, Own
    <3>3. dirs' = dirs \cup {new} /\ new.owner = p /\ new.kind = "stale"  BY <3>1
    <3> HIDE DEF new
    <3>4. Working(new)'  BY <1>4, <1>8, <3>3 DEF Working
    <3> QED  BY <1>1, <1>12, <3>2, <3>3, <3>4, OneMore DEF SharingInv
  <2> QED  BY <2>1, <2>2
<1>14. \A q \in Procs : HoldsItsOwn(q)'  BY <1>9, <1>10
<1> QED  BY <1>11, <1>13, <1>14 DEF SharingInv

LEMMA SweepShares == ASSUME CacheInv, SharingInv, NEW p \in Procs, Sweep(p) PROVE SharingInv'
<1> DEFINE gone == {d.owner : d \in run[p].doomed \cap dirs}
<1>1. /\ run[p].pc = "swept" /\ dirs' = dirs \ run[p].doomed /\ UNCHANGED <<cache, budget>>
      /\ run' = [Disturb(gone) EXCEPT ![p].pc = "check", ![p].doomed = {}]
  BY DEF Sweep
<1>2. HoldsItsOwn(p) /\ Peaceful /\ \A q \in Procs : run[q] \in Runs  BY RunTyped DEF SharingInv
<1>3. \A q \in Procs \ {p} : run'[q] = run[q] \/ Disturbed(q)
  BY <1>1 DEF Disturb, Disturbed
<1>4. \A q \in Procs \ gone : q # p => run'[q] = run[q]  BY <1>1 DEF Disturb
<1>5. /\ run'[p].pc = "check" /\ run'[p].doomed = {} /\ run'[p].filled = run[p].filled
      /\ run'[p].stage = run[p].stage /\ run'[p].rebuild = run[p].rebuild
      /\ ~run'[p].disturbed => ~run[p].disturbed
  <2> DEFINE s == Disturb(gone)[p]
  <2>1. s = run[p] \/ s = [run[p] EXCEPT !.disturbed = TRUE]  BY DEF Disturb
  <2>2. /\ s \in Runs /\ s.filled = run[p].filled /\ s.stage = run[p].stage
        /\ s.rebuild = run[p].rebuild /\ (~s.disturbed => ~run[p].disturbed)
    BY <1>2, <2>1 DEF Runs
  <2>3. run'[p] = [s EXCEPT !.pc = "check", !.doomed = {}]  BY <1>1 DEF Disturb
  <2> HIDE DEF s
  <2> QED  BY <2>2, <2>3 DEF Runs
<1>6. HoldsStage(p)' = HoldsStage(p) /\ StageDir(p)' = StageDir(p)  BY <1>5 DEF HoldsStage, StageDir
<1>7. ~HoldsStage(p)  BY <1>1, <1>2 DEF HoldsItsOwn, Holding, Placing
<1>8. HoldsItsOwn(p)'  BY <1>5, <1>6, <1>7 DEF HoldsItsOwn, Holding, Placing, Removing
<1>9. Calm(p) => Calm(p)'  BY <1>5 DEF Calm
<1>10. ASSUME NEW q \in Procs \ {p}
       PROVE  /\ HoldsItsOwn(q)' /\ (Calm(q) => Calm(q)')
              /\ HoldsStage(q)' = HoldsStage(q) /\ StageDir(q)' = StageDir(q)
              /\ run'[q].pc = run[q].pc
  <2>1. HoldsItsOwn(q)  BY DEF SharingInv
  <2>2. CASE Disturbed(q)  BY <2>1, <2>2, DisturbedHolds
  <2>3. CASE run'[q] = run[q] /\ ~Disturbed(q)
    <3>1. /\ HoldsStage(q)' = HoldsStage(q) /\ StageDir(q)' = StageDir(q) /\ Key(q)' = Key(q)
      BY <2>3 DEF HoldsStage, StageDir, Key
    <3>2. Loadable(Key(q))' = Loadable(Key(q))  BY <1>1, <3>1 DEF Loadable, HasModule
    <3>3. q \notin gone  BY <1>1, <2>3 DEF Disturb, Disturbed
    <3>4. StageDir(q).owner = q  BY DEF StageDir
    <3>5. StageDir(q) \in dirs => StageDir(q) \in dirs'  BY <1>1, <3>3, <3>4
    <3>6. HoldsItsOwn(q)'  BY <1>1, <2>1, <2>3, <3>1, <3>2, <3>5 DEF HoldsItsOwn
    <3>7. Calm(q) => Calm(q)'  BY <1>1, <2>3, <3>1, <3>2 DEF Calm
    <3> QED  BY <2>3, <3>1, <3>6, <3>7
  <2> QED  BY <1>3, <2>2, <2>3
<1>11. Peaceful'
  <2>1. ASSUME budget.damage = 0 PROVE \A q \in Procs : Calm(q)'
    BY <1>2, <1>9, <1>10, <2>1 DEF Peaceful
  <2>2. ASSUME budget.damage = 0 PROVE \A k \in DOMAIN cache' : Loadable(k)'
    BY <1>1, <1>2, <2>2 DEF Peaceful, Loadable, HasModule
  <2>3. ASSUME budget.damage = 0, budget.kills = 0, NEW q \in Procs
        PROVE  ~run'[q].disturbed /\ run'[q].doomed = {}
    <3>1. gone = {} /\ ~run[q].disturbed /\ run[q].doomed = {}  BY <1>2, <2>3 DEF Peaceful
    <3>2. q # p => run'[q] = run[q]  BY <1>4, <3>1
    <3>3. run'[p].disturbed = run[p].disturbed  BY <1>1, <1>2, <3>1 DEF Disturb, Runs
    <3> QED  BY <1>5, <3>1, <3>2, <3>3
  <2> QED  BY <1>1, <2>1, <2>2, <2>3 DEF Peaceful
<1>12. dirs' \subseteq dirs  BY <1>1
<1>13. ASSUME NEW d \in dirs', Working(d) PROVE Working(d)'
  <2>1. d.owner \in Procs  BY <1>12 DEF CacheInv, TypeOK, Dirs
  <2>2. d.owner # p  BY <1>1, <1>7, <1>13 DEF Working
  <2> QED  BY <1>10, <1>13, <2>1, <2>2 DEF Working
<1>14. \E A \in SUBSET dirs' : LeftBehind(A)'  BY <1>1, <1>12, <1>13, FewLeftBehind DEF SharingInv
<1>15. \A q \in Procs : HoldsItsOwn(q)'  BY <1>8, <1>10
<1> QED  BY <1>11, <1>14, <1>15 DEF SharingInv

LEMMA DamageShares ==
  ASSUME CacheInv, SharingInv, NEW k \in DOMAIN cache, Damage(k)
  PROVE  SharingInv'
<1>1. run' = Disturb(Procs) /\ Spend("damage") /\ UNCHANGED dirs  BY DEF Damage
<1>2. \A q \in Procs : Disturbed(q)  BY <1>1 DEF Disturb, Disturbed
<1>3. \A q \in Procs : /\ HoldsItsOwn(q)'
                       /\ HoldsStage(q)' = HoldsStage(q) /\ StageDir(q)' = StageDir(q)
                       /\ run'[q].pc = run[q].pc
  BY <1>2, DisturbedHolds DEF SharingInv
<1>4. budget'.damage = budget.damage + 1 /\ budget'.kills = budget.kills /\ budget.damage \in Nat
  BY <1>1 DEF Spend, CacheInv, TypeOK
<1>5. Peaceful'  BY <1>4 DEF Peaceful
<1>6. ASSUME NEW d \in dirs, Working(d) PROVE Working(d)'
  <2>1. d.owner \in Procs  BY DEF CacheInv, TypeOK, Dirs
  <2> QED  BY <1>3, <1>6, <2>1 DEF Working
<1>7. \E A \in SUBSET dirs' : LeftBehind(A)'  BY <1>1, <1>4, <1>6, FewLeftBehind DEF SharingInv
<1> QED  BY <1>3, <1>5, <1>7 DEF SharingInv

-----------------------------------------------------------------------------
(* A killed process leaves its stage directory and one discarded entry. *)

LEMMA TwoMore ==
  ASSUME NEW A, IsFiniteSet(A), NEW x, NEW y, NEW B, B \subseteq A \cup {x, y}
  PROVE  /\ IsFiniteSet(B) /\ Cardinality(B) <= Cardinality(A) + 2
         /\ Cardinality(A) \in Nat /\ Cardinality(B) \in Nat
<1> DEFINE X == A \cup {x}
           Y == X \cup {y}
<1>1. IsFiniteSet(X) /\ (Cardinality(X) = Cardinality(A) \/ Cardinality(X) = Cardinality(A) + 1)
  BY FS_AddElement
<1>2. IsFiniteSet(Y) /\ (Cardinality(Y) = Cardinality(X) \/ Cardinality(Y) = Cardinality(X) + 1)
  BY <1>1, FS_AddElement
<1>3. B \subseteq Y  OBVIOUS
<1> HIDE DEF X, Y
<1>4. IsFiniteSet(B) /\ Cardinality(B) <= Cardinality(Y)  BY <1>2, <1>3, FS_Subset
<1>5. /\ Cardinality(A) \in Nat /\ Cardinality(X) \in Nat /\ Cardinality(Y) \in Nat
      /\ Cardinality(B) \in Nat
  BY <1>1, <1>2, <1>4, FS_CardinalityType
<1> QED  BY <1>1, <1>2, <1>4, <1>5

LEMMA KillShares == ASSUME CacheInv, SharingInv, NEW p \in Procs, Kill(p) PROVE SharingInv'
<1>1. Step(p, Idle(p, "killed")) /\ Spend("kills") /\ UNCHANGED <<cache, dirs>>  BY DEF Kill
<1>2. run'[p] = Idle(p, "killed") /\ Others(p)  BY <1>1, Moved
<1>3. /\ run'[p].pc = "killed" /\ run'[p].disturbed = run[p].disturbed /\ run'[p].filled = "none"
      /\ ~run'[p].rebuild
  BY <1>2, IdleFacts
<1>4. /\ budget'.kills = budget.kills + 1 /\ budget'.damage = budget.damage /\ budget.kills \in Nat
  BY <1>1 DEF Spend, CacheInv, TypeOK
<1>5. ~HoldsStage(p)'  BY <1>3 DEF HoldsStage
<1>6. HoldsItsOwn(p)'  BY <1>3, <1>5 DEF HoldsItsOwn, Holding, Placing, Removing
<1>7. Calm(p)'  BY <1>3 DEF Calm
<1>8. CacheGrows  BY <1>1, Same
<1>9. \A q \in Procs : HoldsItsOwn(q)'  BY <1>1, <1>2, <1>6, <1>8, OthersHold DEF SharingInv
<1>10. Peaceful'
  <2>1. budget'.kills # 0  BY <1>4
  <2>2. ASSUME budget.damage = 0 PROVE \A k \in DOMAIN cache' : Loadable(k)'
    BY <1>8, <2>2 DEF SharingInv, Peaceful, CacheGrows, Loadable, HasModule
  <2>3. ASSUME budget.damage = 0, NEW q \in Procs PROVE Calm(q)'
    <3>1. CASE q = p  BY <1>7, <3>1
    <3>2. CASE q # p
      <4>1. run'[q] = run[q] /\ Key(q)' = Key(q)  BY <1>2, <3>2 DEF Others, Key
      <4>2. Calm(q)  BY <2>3 DEF SharingInv, Peaceful
      <4>3. Loadable(Key(q))' = Loadable(Key(q))  BY <1>1, <4>1 DEF Loadable, HasModule
      <4> QED  BY <1>1, <4>1, <4>2, <4>3 DEF Calm
    <3> QED  BY <3>1, <3>2
  <2> QED  BY <1>4, <2>1, <2>2, <2>3 DEF Peaceful
<1>11. PICK A \in SUBSET dirs : LeftBehind(A)  BY DEF SharingInv
<1> DEFINE Mine == {d \in dirs \ A : d.owner = p}
<1>12. PICK x : \A d \in Mine : d.kind = "stage" => d = x  BY <1>11 DEF LeftBehind
<1>13. PICK y : \A d \in Mine : d.kind = "stale" => d = y  BY <1>11 DEF LeftBehind
<1>14. \A d \in dirs : d.owner \in Procs /\ d.kind \in {"stage", "stale"}
  BY DEF CacheInv, TypeOK, Dirs
<1>15. PICK B : B = A \cup Mine  OBVIOUS
<1>16. B \in SUBSET dirs /\ B \subseteq A \cup {x, y}  BY <1>12, <1>13, <1>14, <1>15
<1>17. IsFiniteSet(A) /\ Cardinality(A) <= 2 * budget.kills  BY <1>11 DEF LeftBehind
<1>18. IsFiniteSet(B) /\ Cardinality(B) <= 2 * budget'.kills
  <2>1. /\ IsFiniteSet(B) /\ Cardinality(B) <= Cardinality(A) + 2
        /\ Cardinality(A) \in Nat /\ Cardinality(B) \in Nat
    BY <1>16, <1>17, TwoMore
  <2> QED  BY <1>4, <1>17, <2>1
<1>19. ASSUME NEW d \in dirs \ B PROVE d \in dirs \ A /\ Working(d)'
  <2>1. d \in dirs \ A /\ d.owner # p  BY <1>15
  <2>2. run'[d.owner] = run[d.owner]  BY <1>2, <1>14, <2>1 DEF Others
  <2>3. Working(d)  BY <1>11, <2>1 DEF LeftBehind
  <2> QED  BY <2>1, <2>2, <2>3 DEF Working, HoldsStage, StageDir
<1>20. \A d, e \in dirs \ B : d.owner = e.owner /\ d.kind = e.kind => d = e
  BY <1>11, <1>19 DEF LeftBehind
<1>21. LeftBehind(B)'  BY <1>1, <1>18, <1>19, <1>20 DEF LeftBehind
<1>22. B \in SUBSET dirs'  BY <1>1, <1>16
<1> QED  BY <1>9, <1>10, <1>21, <1>22 DEF SharingInv

-----------------------------------------------------------------------------
(* The invariant. *)

LEMMA StillShares ==
  ASSUME CacheInv, SharingInv, UNCHANGED <<cache, dirs, run>>,
         UNCHANGED <<budget.damage, budget.kills>>
  PROVE  SharingInv'
<1>1. \A q \in Procs : HoldsItsOwn(q)'
  BY DEF SharingInv, HoldsItsOwn, HoldsStage, StageDir, Key, Loadable, HasModule
<1>2. Peaceful'  BY DEF SharingInv, Peaceful, Calm, Key, Loadable, HasModule
<1>3. \A d \in dirs : Working(d) => Working(d)'  BY DEF Working, HoldsStage, StageDir
<1>4. \E A \in SUBSET dirs' : LeftBehind(A)'  BY <1>3, FewLeftBehind DEF SharingInv
<1> QED  BY <1>1, <1>2, <1>4 DEF SharingInv

\* No run has begun, and nothing is in the cache root.
LEMMA InitShares == Init => SharingInv
<1> SUFFICES ASSUME Init PROVE SharingInv
  OBVIOUS
<1>1. /\ dirs = {} /\ DOMAIN cache = {} /\ budget.kills = 0
      /\ \A p \in Procs : /\ run[p].pc = "idle" /\ run[p].filled = "none" /\ ~run[p].disturbed
                          /\ ~run[p].rebuild /\ run[p].doomed = {}
  BY DEF Init, Fresh
<1>2. \A p \in Procs : HoldsItsOwn(p)
  BY <1>1 DEF HoldsItsOwn, HoldsStage, Holding, Placing, Removing
<1>3. Peaceful  BY <1>1 DEF Peaceful, Calm
<1>4. LeftBehind({})  BY <1>1, FS_EmptySet DEF LeftBehind
<1> QED  BY <1>2, <1>3, <1>4 DEF SharingInv

LEMMA NextShares == CacheInv /\ SharingInv /\ [Next]_vars => SharingInv'
<1> SUFFICES ASSUME CacheInv, SharingInv, [Next]_vars PROVE SharingInv'
  OBVIOUS
<1>1. CASE UNCHANGED vars  BY <1>1, StillShares DEF vars
<1>2. ASSUME NEW p \in Procs, Start(p) \/ Fail(p) \/ Signal(p) \/ Kill(p) PROVE SharingInv'
  BY <1>2, StartShares, EndsShares, SignalShares, KillShares
<1>3. ASSUME NEW p \in Procs, BuildStep(p) PROVE SharingInv'
  <2>1. CASE Scan(p) \/ Sweep(p) \/ Check(p) \/ Interrupt(p) \/ Stamp(p) \/ Hash(p) \/ Restamp(p)
    BY <2>1, ScanShares, SweepShares, EarlyShares, EndsShares
  <2>2. CASE Lookup(p) \/ Discard(p) \/ RemoveStale(p) \/ Stage(p)
    BY <2>2, LookupShares, DiscardShares, RemoveStaleShares, StageShares
  <2>3. CASE CopyFile(p) \/ CheckCopies(p) \/ Compile(p) \/ Compiled(p) \/ Verify(p) \/ Fill(p)
    BY <2>3, BuildingShares
  <2>4. CASE Publish(p) \/ Collide(p) \/ Confirm(p) \/ Load(p)
    BY <2>4, PublishShares, CollideShares, ConfirmShares, LoadShares
  <2> QED  BY <1>3, <2>1, <2>2, <2>3, <2>4 DEF BuildStep
<1>4. ASSUME NEW f \in Files, Edit(f) PROVE SharingInv'
  <2>1. UNCHANGED <<cache, dirs, run>> /\ Spend("edits")  BY <1>4 DEF Edit
  <2> QED  BY <2>1, SpentNeither, StillShares
<1>5. ASSUME NEW k \in DOMAIN cache, Damage(k) PROVE SharingInv'  BY <1>5, DamageShares
<1> QED  BY <1>1, <1>2, <1>3, <1>4, <1>5 DEF Next

\* The strengthened invariant: what a run nobody disturbed can count on, that
\* without damage only disturbed runs discard entries, and that every directory
\* but two for each killed process is its owner's present work.
THEOREM RunsShareTheCache == Spec => []SharingInv
<1>1. Init => SharingInv  BY InitShares
<1>2. CacheInv /\ CacheInv' /\ SharingInv /\ [Next]_vars => SharingInv'  BY NextShares
<1>3. Spec => []CacheInv  BY CacheInvariant
<1> QED  BY <1>1, <1>2, <1>3, PTL DEF Spec

\* A run that loses the module it built or found lost it to somebody.
THEOREM NobodyLosesAlone == Spec => []LostOnlyToOthers
<1>1. SharingInv => LostOnlyToOthers  BY DEF SharingInv, HoldsItsOwn, LostOnlyToOthers
<1> QED  BY <1>1, RunsShareTheCache, PTL

\* A run removes its work directories however it ends: what is nobody's work is
\* at most two directories for each killed process.
THEOREM OnlyKilledRunsLeave == Spec => []LeftoversAreOfKilled
<1>1. ASSUME CacheInv, SharingInv PROVE LeftoversAreOfKilled
  <2>1. PICK A \in SUBSET dirs : LeftBehind(A)  BY <1>1 DEF SharingInv
  <2> DEFINE Left == {d \in dirs : ~Working(d)}
  <2>2. IsFiniteSet(A) /\ Cardinality(A) <= 2 * budget.kills /\ Left \subseteq A
    BY <2>1 DEF LeftBehind
  <2>3. IsFiniteSet(Left) /\ Cardinality(Left) <= Cardinality(A)  BY <2>2, FS_Subset
  <2>4. Cardinality(A) \in Nat /\ Cardinality(Left) \in Nat /\ budget.kills \in Nat
    BY <1>1, <2>2, <2>3, FS_CardinalityType DEF CacheInv, TypeOK
  <2>5. Cardinality(Left) <= 2 * budget.kills  BY <2>2, <2>3, <2>4
  <2> QED  BY <2>5 DEF LeftoversAreOfKilled
<1> QED  BY <1>1, RunsShareTheCache, CacheInvariant, PTL

\* Every step but a discard and damage leaves the entries that are there.
LEMMA EntriesRemain ==
  ASSUME CacheInv, [Next]_vars, NEW k \in DOMAIN cache
  PROVE  \/ k \in DOMAIN cache' /\ cache'[k] = cache[k]
         \/ \E p \in Procs : Discard(p) /\ k = Key(p)
         \/ budget'.damage # 0
<1>1. CASE UNCHANGED cache  BY <1>1
<1>2. ASSUME NEW p \in Procs, Start(p) \/ Fail(p) \/ Signal(p) \/ Kill(p) PROVE UNCHANGED cache
  BY <1>2 DEF Start, Fail, Signal, Kill, Gives
<1>3. ASSUME NEW p \in Procs, BuildStep(p), ~Publish(p), ~Discard(p) PROVE UNCHANGED cache
  BY <1>3 DEF BuildStep, Scan, Sweep, Check, Interrupt, Stamp, Hash, Restamp, Lookup, RemoveStale,
              Stage, CopyFile, CheckCopies, Compile, Compiled, Verify, Fill, Collide, Confirm,
              Load, Goes, Gives
<1>4. ASSUME NEW p \in Procs, Publish(p) PROVE k \in DOMAIN cache' /\ cache'[k] = cache[k]
  BY <1>4 DEF Publish, CanRename
<1>5. ASSUME NEW p \in Procs, Discard(p), k # Key(p) PROVE k \in DOMAIN cache' /\ cache'[k] = cache[k]
  BY <1>5 DEF Discard, MoveAside
<1>6. ASSUME NEW f \in Files, Edit(f) PROVE UNCHANGED cache  BY <1>6 DEF Edit
<1>7. ASSUME NEW j \in DOMAIN cache, Damage(j) PROVE budget'.damage # 0
  <2>1. budget'.damage = budget.damage + 1 /\ budget.damage \in Nat
    BY <1>7 DEF Damage, Spend, CacheInv, TypeOK
  <2> QED  BY <2>1
<1>8. CASE UNCHANGED vars  BY <1>8 DEF vars
<1> QED  BY <1>1, <1>2, <1>3, <1>4, <1>5, <1>6, <1>7, <1>8 DEF Next

\* While nothing is damaged, entries stay as they were published; only a run
\* disturbed through a killed run's process id takes one away.
THEOREM PublishedEntriesStay == Spec => EntriesStay
<1> DEFINE Stays == budget'.damage = 0 => \A k \in DOMAIN cache :
                      \/ k \in DOMAIN cache' /\ cache'[k] = cache[k]
                      \/ budget.kills > 0 /\ \E p \in Procs : k = Key(p) /\ run[p].disturbed
<1>1. ASSUME CacheInv, SharingInv, [Next]_vars PROVE Stays
  <2> SUFFICES ASSUME budget'.damage = 0, NEW k \in DOMAIN cache,
                      NEW p \in Procs, Discard(p), k = Key(p)
               PROVE  budget.kills > 0 /\ run[p].disturbed
    BY <1>1, EntriesRemain
  <2>1. budget.damage = 0 /\ run[p].pc \in {"discard", "replace"}  BY DEF Discard
  <2>2. run[p].disturbed  BY <1>1, <2>1 DEF SharingInv, Peaceful, Calm
  <2>3. budget.kills # 0  BY <1>1, <2>1, <2>2 DEF SharingInv, Peaceful
  <2>4. budget.kills \in Nat  BY <1>1 DEF CacheInv, TypeOK
  <2> QED  BY <2>2, <2>3, <2>4
<1>2. CacheInv /\ SharingInv /\ [Next]_vars => [Stays]_vars  BY <1>1
<1> QED  BY <1>2, RunsShareTheCache, CacheInvariant, PTL DEF Spec, EntriesStay
=============================================================================
