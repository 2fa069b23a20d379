----------------------------- MODULE DesignCache -----------------------------
(***************************************************************************)
(* The design cache: `virtualbasys run` processes that check a design,     *)
(* look its module up, build it on a miss and publish it with one rename,  *)
(* while the user edits the sources, other runs use the same cache         *)
(* directory, and processes are interrupted or killed                      *)
(* (src/src/design/DesignBuilder.cpp, src/src/qt/main_run.cpp).            *)
(*                                                                         *)
(* The design is a source "main" that includes one header.  The header is  *)
(* "header" unless a file of that name appears in an earlier include       *)
(* directory ("shadow").  "engine" stands for the engine sources, which    *)
(* every module is also built from.  A file's stamp stands for everything  *)
(* stateOf() fingerprints (identity, size, times, links): every write      *)
(* changes it for good, also a write that puts the contents back.          *)
(***************************************************************************)
EXTENDS Naturals, FiniteSets

CONSTANTS Procs,       \* process identifiers; a new run may reuse a dead one's
          Contents,    \* what a file may contain
          None,        \* no file, or a file that is not part of the design
          Bad,         \* a module file that dlopen() or the ABI check refuses
          MaxEdits,    \* bound: writes to the files
          MaxRuns,     \* bound: runs started
          MaxDamage,   \* bound: cache entries damaged from outside
          MaxKills,    \* bound: processes killed outright
          MaxSignals   \* bound: Ctrl-C, SIGTERM or SIGHUP

ASSUME ContentsAssumption == Contents # {} /\ None \notin Contents
ASSUME BoundsAssumption == MaxEdits \in Nat /\ MaxRuns \in Nat

VARIABLES disk,     \* each file's content and stamp
          copied,   \* this design is built from copies (paths with spaces)
          cache,    \* the entries: key -> [module, manifest]
          dirs,     \* the .stage- and .stale- directories in the cache root
          run,      \* each process's latest run
          budget    \* edits, runs, damage, kills and signals so far

vars == <<disk, copied, cache, dirs, run, budget>>

Files == {"main", "header", "shadow", "engine"}

\* What a key names and what a module was compiled from: the content of each
\* file, None for the files that are not read.
Reading == [Files -> Contents \cup {None}]
Nothing == [f \in Files |-> None]
Stamps == [Files -> 0..MaxEdits]

\* No file and a module that does not load are not things that were compiled.
ASSUME ValuesAssumption == None # Bad /\ None \notin Reading /\ Bad \notin Reading

\* The file the design's `include resolves to now.
Included(d) == IF d["shadow"].content # None THEN "shadow" ELSE "header"
Present(fs) == \A f \in fs : disk[f].content # None
ContentOf(fs) == [f \in Files |-> IF f \in fs THEN disk[f].content ELSE None]

(***************************************************************************)
(* A run                                                                   *)
(***************************************************************************)
Fresh == [pc |-> "sweep", doomed |-> {}, files |-> {}, stamp |-> [f \in Files |-> 0],
          content |-> Nothing, snapshot |-> Nothing, copy |-> Nothing, built |-> Nothing,
          stage |-> 0, filled |-> "none", rebuild |-> FALSE, reused |-> FALSE,
          cancelled |-> FALSE, stored |-> FALSE, disturbed |-> FALSE,
          loaded |-> Nothing]

Over == {"idle", "ended", "interrupted", "unloadable", "failed", "killed"}
Alive(p) == run[p].pc \notin Over
Key(p) == run[p].content

\* Design files the stamps cover, the engine sources included.
Stamped(p) == run[p].files \cup {"engine"}
StateOf(p) == [f \in Files |-> IF f \in Stamped(p) THEN disk[f].stamp ELSE 0]

Own(p, kind) == {d \in dirs : d.kind = kind /\ d.owner = p}
Taken(p, kind) == {d.n : d \in Own(p, kind)}
\* The first name create_directory() or the search for a free name settles on.
FirstFree(p, kind, n) == n \notin Taken(p, kind) /\ \A m \in 0..MaxRuns : m < n => m \in Taken(p, kind)
StageDir(p) == [kind |-> "stage", owner |-> p, n |-> run[p].stage]
HoldsStage(p) == run[p].filled # "none"

LeaveBuildLeaks(p) == dirs' = dirs \* (Mutant.)
\* build() returns or throws: the stage directory goes with it (~WorkDir).
LeaveBuild(p) == dirs' = IF HoldsStage(p) THEN dirs \ {StageDir(p)} ELSE dirs
Step(p, r) == run' = [run EXCEPT ![p] = r]
\* (Mutant.) The outcome keeps the work directory's handle.
IdleKeepsStage(p, pc) == [Fresh EXCEPT !.pc = pc, !.stored = run[p].stored, !.filled = run[p].filled,
                                       !.stage = run[p].stage,
                                       !.disturbed = run[p].disturbed, !.loaded = run[p].loaded]
Idle(p, pc) == [Fresh EXCEPT !.pc = pc, !.stored = run[p].stored,
                             !.disturbed = run[p].disturbed, !.loaded = run[p].loaded]

\* build() ends with an error, or with `interrupted`.
Gives(p, pc) == LeaveBuild(p) /\ Step(p, Idle(p, pc)) /\ UNCHANGED <<disk, copied, cache, budget>>
Goes(p, r) == Step(p, r) /\ UNCHANGED <<disk, copied, cache, dirs, budget>>

\* Those other runs may find an entry or a directory gone that they count on.
Disturb(ps) == [p \in Procs |->
  IF p \in ps /\ Alive(p) THEN [run[p] EXCEPT !.disturbed = TRUE] ELSE run[p]]

Init ==
  /\ disk = [f \in Files |-> [content |-> IF f = "shadow" THEN None
                                          ELSE CHOOSE c \in Contents : TRUE, stamp |-> 0]]
  /\ copied \in BOOLEAN
  /\ cache = [k \in {} |-> Nothing]
  /\ dirs = {}
  /\ run = [p \in Procs |-> [Fresh EXCEPT !.pc = "idle"]]
  /\ budget = [edits |-> 0, runs |-> 0, damage |-> 0, kills |-> 0, signals |-> 0]

Spend(what) == budget' = [budget EXCEPT ![what] = @ + 1]

Start(p) ==
  /\ ~Alive(p) /\ budget.runs < MaxRuns
  /\ Step(p, Fresh) /\ Spend("runs")
  /\ UNCHANGED <<disk, copied, cache, dirs>>

(***************************************************************************)
(* removeAbandoned(): a directory whose process is gone is removed.        *)
(***************************************************************************)
Scan(p) ==
  /\ run[p].pc = "sweep"
  /\ Goes(p, [run[p] EXCEPT !.pc = "swept", !.doomed = {d \in dirs : ~Alive(d.owner)}])

Sweep(p) ==
  /\ run[p].pc = "swept"
  /\ dirs' = dirs \ run[p].doomed
  /\ run' = [Disturb({d.owner : d \in run[p].doomed \cap dirs})
             EXCEPT ![p].pc = "check", ![p].doomed = {}]
  /\ UNCHANGED <<disk, copied, cache, budget>>

(***************************************************************************)
(* The check: Verilator's passes, the files they read, and the contents    *)
(* of those files between two equal stamps.                                *)
(***************************************************************************)
Check(p) ==
  /\ run[p].pc = "check" /\ ~run[p].cancelled
  /\ LET files == {"main", Included(disk)} IN
     IF Present(files) THEN Goes(p, [run[p] EXCEPT !.pc = "stamp", !.files = files])
     ELSE Gives(p, "failed")

\* A tool ends early when the run is cancelled, and its caller asks
\* cancelRequested() before it looks at the result.
Interrupt(p) ==
  /\ run[p].pc \in {"check", "compile"} /\ run[p].cancelled
  /\ Gives(p, "interrupted")

Stamp(p) ==
  /\ run[p].pc = "stamp"
  /\ IF Present(Stamped(p)) THEN Goes(p, [run[p] EXCEPT !.pc = "hash", !.stamp = StateOf(p)])
     ELSE Gives(p, "failed")

Unhashed(p) == {f \in run[p].files : run[p].content[f] = None}

Hash(p) ==
  /\ run[p].pc = "hash"
  /\ \E f \in Unhashed(p) :
       IF Present({f})
       THEN Goes(p, [run[p] EXCEPT !.content[f] = disk[f].content,
                                   !.pc = IF Unhashed(p) = {f} THEN "restamp" ELSE "hash"])
       ELSE Gives(p, "failed")

HashingTrusted(p) == run[p].files # {} \* (Mutant.) No second stamp.
\* The two stamps around the hashing agree.
HashingUndisturbed(p) == StateOf(p) = run[p].stamp

Restamp(p) ==
  /\ run[p].pc = "restamp"
  /\ IF Present(Stamped(p)) /\ HashingUndisturbed(p)
     THEN Goes(p, [run[p] EXCEPT !.pc = "lookup", !.snapshot = ContentOf(run[p].files)])
     ELSE Gives(p, "failed")

(***************************************************************************)
(* The lookup and the discarding of an entry                               *)
(***************************************************************************)
HasModule(k) == k \in DOMAIN cache /\ cache[k].module # None

\* Only a caller that could not load the module asks for a rebuild.
Reuses(p, k) == ~run[p].rebuild /\ HasModule(k)

Lookup(p) ==
  /\ run[p].pc = "lookup"
  /\ LET r == [run[p] EXCEPT !.content["engine"] = disk["engine"].content] IN
     IF Reuses(p, r.content) THEN Goes(p, [r EXCEPT !.pc = "load", !.reused = TRUE])
     ELSE Goes(p, [r EXCEPT !.pc = IF r.rebuild THEN "discard" ELSE "stage"])

\* The entry is moved aside, when there is one, under the caller's own name.
MoveAside(p) ==
  IF Key(p) \in DOMAIN cache
  THEN /\ cache' = [k \in DOMAIN cache \ {Key(p)} |-> cache[k]]
       /\ \E n \in 0..MaxRuns : /\ FirstFree(p, "stale", n)
                               /\ dirs' = dirs \cup {[kind |-> "stale", owner |-> p, n |-> n]}
  ELSE UNCHANGED <<cache, dirs>>

Discard(p) ==
  /\ run[p].pc \in {"discard", "replace"}
  /\ MoveAside(p)
  /\ run' = [(IF Key(p) \in DOMAIN cache THEN Disturb(Procs \ {p}) ELSE run)
             EXCEPT ![p].pc = IF run[p].pc = "discard" THEN "stale" ELSE "stale again"]
  /\ UNCHANGED <<disk, copied, budget>>

RemoveStale(p) ==
  /\ run[p].pc \in {"stale", "stale again"}
  /\ dirs' = dirs \ Own(p, "stale")
  /\ Step(p, [run[p] EXCEPT !.pc = IF @ = "stale" THEN "stage" ELSE "republish"])
  /\ UNCHANGED <<disk, copied, cache, budget>>

(***************************************************************************)
(* The build                                                               *)
(***************************************************************************)
Stage(p) ==
  /\ run[p].pc = "stage"
  /\ \E n \in 0..MaxRuns :
       /\ FirstFree(p, "stage", n)
       /\ dirs' = dirs \cup {[kind |-> "stage", owner |-> p, n |-> n]}
       /\ Step(p, [run[p] EXCEPT !.pc = IF copied THEN "copy" ELSE "compile",
                                 !.stage = n, !.filled = "empty"])
  /\ UNCHANGED <<disk, copied, cache, budget>>

Uncopied(p) == {f \in run[p].files : run[p].copy[f] = None}

CopyFile(p) ==
  /\ run[p].pc = "copy"
  /\ \E f \in Uncopied(p) :
       IF Present({f}) THEN Goes(p, [run[p] EXCEPT !.copy[f] = disk[f].content])
       ELSE Gives(p, "failed")

\* The copies are compared with the contents the key was made from.
CopiesMatch(p) == \A f \in run[p].files : run[p].copy[f] = run[p].content[f]

CheckCopies(p) ==
  /\ run[p].pc = "copy" /\ Uncopied(p) = {}
  /\ IF CopiesMatch(p) THEN Goes(p, [run[p] EXCEPT !.pc = "compile"]) ELSE Gives(p, "failed")

\* What the compiler still has to read, and where it finds it.
Built(p) == {f \in Files : run[p].built[f] # None}
Sources(p) == IF copied THEN run[p].files ELSE {"main", Included(disk)}
Unbuilt(p) == (IF "engine" \in Built(p) THEN {} ELSE {"engine"})
              \cup (IF "main" \in Built(p) THEN {} ELSE {"main"})
              \cup (IF Built(p) \cap {"header", "shadow"} # {} THEN {} ELSE Sources(p) \ {"main"})
BuildRead(p, f) == IF copied /\ f # "engine" THEN run[p].copy[f] ELSE disk[f].content

Compile(p) ==
  /\ run[p].pc = "compile"
  /\ \E f \in Unbuilt(p) :
       IF BuildRead(p, f) = None THEN Gives(p, "failed")
       ELSE Goes(p, [run[p] EXCEPT !.built[f] = BuildRead(p, f)])

Compiled(p) ==
  /\ run[p].pc = "compile" /\ Unbuilt(p) = {} /\ ~run[p].cancelled
  /\ Goes(p, [run[p] EXCEPT !.pc = "verify"])

(***************************************************************************)
(* Storing the module: the build read the files the check read, and none   *)
(* of them changed since.                                                  *)
(***************************************************************************)
ReadOnlyChecked(p) == Built(p) \ {"engine"} \subseteq run[p].files
Rewritten(p) == ~copied /\ ContentOf(run[p].files) # [run[p].content EXCEPT !["engine"] = None]
UnchangedContents(p) == Present(Stamped(p)) \* (Mutant.) Contents alone, no stamps.
Unchanged(p) == Present(Stamped(p)) /\ StateOf(p) = run[p].stamp

Verify(p) ==
  /\ run[p].pc = "verify"
  /\ IF ReadOnlyChecked(p) /\ Unchanged(p) /\ ~Rewritten(p)
     THEN Goes(p, [run[p] EXCEPT !.pc = "fill"])
     ELSE Gives(p, "failed")

\* design.so, then manifest.txt, into the stage directory.
Filled(p) == IF run[p].filled = "empty" THEN "module" ELSE "whole"
Fill(p) ==
  /\ run[p].pc = "fill"
  /\ IF StageDir(p) \in dirs
     THEN Goes(p, [run[p] EXCEPT !.filled = Filled(p),
                                 !.pc = IF Filled(p) = "whole" THEN "publish" ELSE "fill"])
     ELSE Gives(p, "failed")

\* rename() of a directory fails onto one that holds anything.
CanRename(p) == StageDir(p) \in dirs /\ Key(p) \notin DOMAIN cache
Entry(p) == [module |-> run[p].built, manifest |-> run[p].filled = "whole"]

Publish(p) ==
  /\ run[p].pc \in {"publish", "republish"}
  /\ IF CanRename(p)
     THEN /\ cache' = [k \in DOMAIN cache \cup {Key(p)} |-> IF k = Key(p) THEN Entry(p) ELSE cache[k]]
          /\ dirs' = dirs \ {StageDir(p)}
          /\ Step(p, [run[p] EXCEPT !.pc = "confirm", !.stored = TRUE, !.filled = "none"])
     ELSE /\ Step(p, [run[p] EXCEPT !.pc = IF @ = "publish" THEN "collide" ELSE "confirm"])
          /\ UNCHANGED <<cache, dirs>>
  /\ UNCHANGED <<disk, copied, budget>>

\* (Mutant.) Whatever is in the way is replaced.
CollideReplaces(p) ==
  /\ run[p].pc = "collide"
  /\ Goes(p, [run[p] EXCEPT !.pc = "replace"])

\* (Mutant.) Anything else is tried again without being discarded.
CollideRetries(p) ==
  /\ run[p].pc = "collide"
  /\ Goes(p, [run[p] EXCEPT !.pc = IF HasModule(Key(p)) THEN "confirm" ELSE "publish"])

\* Another process's identical module will do; anything else is replaced.
Collide(p) ==
  /\ run[p].pc = "collide"
  /\ Goes(p, [run[p] EXCEPT !.pc = IF HasModule(Key(p)) THEN "confirm" ELSE "replace"])

Confirm(p) ==
  /\ run[p].pc = "confirm"
  /\ LeaveBuild(p)
  /\ Step(p, IF HasModule(Key(p)) THEN [run[p] EXCEPT !.pc = "load", !.filled = "none"]
             ELSE Idle(p, "unloadable"))
  /\ UNCHANGED <<disk, copied, cache, budget>>

(***************************************************************************)
(* main(): load the module; a reused one that does not load is built again *)
(* once.                                                                   *)
(***************************************************************************)
Loadable(k) == HasModule(k) /\ cache[k].module # Bad
BuildsAgainNever(p) == run[p].reused /\ run[p].rebuild          \* (Mutant.)
BuildsAgain(p) == run[p].reused

Load(p) ==
  /\ run[p].pc = "load"
  /\ Step(p, IF run[p].cancelled THEN Idle(p, "interrupted")
             ELSE IF Loadable(Key(p))
             THEN [Idle(p, "ended") EXCEPT !.loaded = cache[Key(p)].module, !.content = Key(p)]
             ELSE IF BuildsAgain(p)
             THEN [Idle(p, "sweep") EXCEPT !.rebuild = TRUE]
             ELSE Idle(p, "unloadable"))
  /\ UNCHANGED <<disk, copied, cache, dirs, budget>>

(***************************************************************************)
(* The world around the runs                                               *)
(***************************************************************************)
\* A full disk, a tool that cannot run, a build step that fails.
Fail(p) == Alive(p) /\ run[p].pc \in {"check", "stage", "copy", "compile", "fill"} /\ Gives(p, "failed")

Signal(p) ==
  /\ Alive(p) /\ ~run[p].cancelled /\ budget.signals < MaxSignals
  /\ Step(p, [run[p] EXCEPT !.cancelled = TRUE]) /\ Spend("signals")
  /\ UNCHANGED <<disk, copied, cache, dirs>>

Kill(p) ==
  /\ Alive(p) /\ budget.kills < MaxKills
  /\ Step(p, Idle(p, "killed")) /\ Spend("kills")
  /\ UNCHANGED <<disk, copied, cache, dirs>>

\* main and the engine sources are rewritten; the header and the shadow may
\* also be deleted or created.
Edit(f) ==
  /\ budget.edits < MaxEdits
  /\ \E c \in Contents \cup (IF f \in {"header", "shadow"} THEN {None} ELSE {}) :
       /\ c # None \/ disk[f].content # None
       /\ disk' = [disk EXCEPT ![f] = [content |-> c, stamp |-> budget.edits + 1]]
  /\ Spend("edits")
  /\ UNCHANGED <<copied, cache, dirs, run>>

\* The user deletes an entry, or it is damaged: its module cannot be loaded
\* or is missing from the directory.
Damage(k) ==
  /\ budget.damage < MaxDamage
  /\ \/ cache' = [j \in DOMAIN cache \ {k} |-> cache[j]]
     \/ \E m \in {Bad, None} : cache' = [cache EXCEPT ![k].module = m]
  /\ run' = Disturb(Procs)
  /\ Spend("damage")
  /\ UNCHANGED <<disk, copied, dirs>>

BuildStep(p) ==
  \/ Scan(p) \/ Sweep(p) \/ Check(p) \/ Interrupt(p) \/ Stamp(p) \/ Hash(p) \/ Restamp(p) \/ Lookup(p)
  \/ Discard(p) \/ RemoveStale(p) \/ Stage(p) \/ CopyFile(p) \/ CheckCopies(p)
  \/ Compile(p) \/ Compiled(p) \/ Verify(p) \/ Fill(p) \/ Publish(p) \/ Collide(p)
  \/ Confirm(p) \/ Load(p)

Next ==
  \/ \E p \in Procs : Start(p) \/ BuildStep(p) \/ Fail(p) \/ Signal(p) \/ Kill(p)
  \/ \E f \in Files : Edit(f)
  \/ \E k \in DOMAIN cache : Damage(k)

Spec == Init /\ [][Next]_vars

\* The system schedules every process, and every tool comes back.
FairSpec == Spec /\ \A p \in Procs : WF_vars(BuildStep(p))

(***************************************************************************)
(* Properties                                                              *)
(***************************************************************************)
Pcs == {"idle", "sweep", "swept", "check", "stamp", "hash", "restamp", "lookup", "discard", "stale",
        "stage", "copy", "compile", "verify", "fill", "publish", "collide", "replace",
        "stale again", "republish", "confirm", "load", "ended", "interrupted", "unloadable",
        "failed", "killed"}
Dirs == [kind : {"stage", "stale"}, owner : Procs, n : 0..MaxRuns]
Runs == [pc : Pcs, doomed : SUBSET Dirs, files : SUBSET Files, stamp : Stamps,
         content : Reading, snapshot : Reading, copy : Reading, built : Reading,
         stage : 0..MaxRuns, filled : {"none", "empty", "module", "whole"}, rebuild : BOOLEAN,
         reused : BOOLEAN, cancelled : BOOLEAN, stored : BOOLEAN, disturbed : BOOLEAN,
         loaded : Reading \cup {Bad}]

\* The state's shape; also, a run holds a stage directory exactly from its
\* creation to the rename or the end of build().
TypeOK ==
  /\ disk \in [Files -> [content : Contents \cup {None}, stamp : 0..MaxEdits]]
  /\ copied \in BOOLEAN
  /\ \A k \in DOMAIN cache : k \in Reading /\ cache[k] \in [module : Reading \cup {None, Bad}, manifest : BOOLEAN]
  /\ dirs \subseteq Dirs
  /\ run \in [Procs -> Runs]
  /\ budget \in [edits : 0..MaxEdits, runs : 0..MaxRuns, damage : Nat, kills : Nat, signals : Nat]
  /\ \A p \in Procs : HoldsStage(p) => Alive(p)

\* An entry under a key holds a module compiled from exactly the contents the
\* key names, whatever was edited (and put back) while it was built, and its
\* manifest: build()'s stamps, its list of inputs and the single rename.
EntriesMatchKeys ==
  \A k \in DOMAIN cache : cache[k].module \notin {None, Bad} =>
                           cache[k].module = k /\ cache[k].manifest

\* The contents a key is made from are the contents the design's files had
\* together, at one moment: no run uses half of an edit.
KeysAreSnapshots ==
  \A p \in Procs : run[p].snapshot # Nothing =>
                    \A f \in run[p].files : run[p].content[f] = run[p].snapshot[f]

\* Why a published module matches its key.  What a run has hashed or compiled
\* of a file is the file's content for as long as the file has the stamp the
\* run took first, or else the file's stamp has moved on for good; a build
\* from copies has copied exactly what was hashed.
BeforeStamp == {"sweep", "swept", "check", "stamp"}
Hashing == {"hash", "restamp"}
Unbuilding == {"lookup", "discard", "stale", "stage", "copy"}
Building == {"compile", "verify"}
Storing == {"fill", "publish", "collide", "replace", "stale again", "republish"}
Loading == {"confirm", "load"}

Tied(r, f, d) ==
  /\ r.stamp[f] <= d[f].stamp
  /\ r.stamp[f] = d[f].stamp => r.content[f] \in {None, d[f].content}
BuiltTied(r, f, d) == r.stamp[f] = d[f].stamp => r.built[f] \in {None, d[f].content}

RunOK(r, d, c) ==
  /\ r.pc \in BeforeStamp \cup Hashing \cup Unbuilding => r.built = Nothing
  /\ r.pc \in BeforeStamp => r.content = Nothing /\ r.copy = Nothing /\ r.snapshot = Nothing
  /\ r.pc \in {"stamp"} \cup Hashing \cup Unbuilding \cup Building \cup Storing =>
       r.files \in {{"main", "header"}, {"main", "shadow"}}
  /\ r.pc \in Hashing \cup Unbuilding \cup Building \cup Storing =>
       /\ \A f \in Files : f \notin r.files \cup {"engine"} => r.content[f] = None
       /\ \A f \in r.files \cup {"engine"} : Tied(r, f, d)
  /\ r.pc \in Hashing => r.snapshot = Nothing /\ r.copy = Nothing
  /\ r.pc = "hash" => \E f \in r.files : r.content[f] = None
  /\ r.pc \in {"restamp"} \cup Unbuilding \cup Building => \A f \in r.files : r.content[f] # None
  /\ r.pc \in (Unbuilding \ {"lookup"}) \cup Building => r.content["engine"] # None
  /\ r.pc \in {"lookup", "discard", "stale", "stage"} => r.copy = Nothing
  /\ r.pc \in Building => /\ BuiltTied(r, "engine", d)
                         /\ \A f \in r.files : IF c THEN /\ r.copy[f] = r.content[f]
                                                         /\ r.built[f] \in {None, r.copy[f]}
                                                    ELSE BuiltTied(r, f, d)
  /\ r.pc = "verify" => /\ r.built["engine"] # None /\ r.built["main"] # None
                        /\ r.built["header"] # None \/ r.built["shadow"] # None
  /\ r.pc \in Storing => r.built = r.content
  /\ r.pc \in Storing \ {"fill"} => r.filled = "whole"
  /\ r.snapshot # Nothing => \A f \in r.files : r.content[f] = r.snapshot[f]

CacheInv ==
  /\ TypeOK
  /\ disk["engine"].content # None
  /\ \A f \in Files : disk[f].stamp <= budget.edits
  /\ \A p \in Procs : RunOK(run[p], disk, copied)
  /\ EntriesMatchKeys

\* A run that built or found its module but could not store or load it lost it
\* to someone: another run's discard or sweep, or damage during the run.  A
\* damaged entry it found is always replaced.
LostOnlyToOthers ==
  \A p \in Procs : run[p].pc = "unloadable" => run[p].disturbed

\* A run removes its work directories however it ends, an error halfway
\* included; only a process killed outright leaves any, its stage directory and
\* a discarded entry at most.
Working(d) == \/ d.kind = "stage" /\ HoldsStage(d.owner) /\ d = StageDir(d.owner)
              \/ d.kind = "stale" /\ run[d.owner].pc \in {"stale", "stale again"}
LeftoversAreOfKilled == Cardinality({d \in dirs : ~Working(d)}) <= 2 * budget.kills

\* While nothing is damaged, an entry never changes once it is published:
\* another run may be about to load it.  The one exception needs a killed run
\* whose process id is used again: a sweep that looked at the id before then
\* removes the new run's directory, and a run disturbed in that way may take
\* another run's good entry for what stands in its way.
EntriesStay ==
  [][budget'.damage = 0 => \A k \in DOMAIN cache :
       \/ k \in DOMAIN cache' /\ cache'[k] = cache[k]
       \/ budget.kills > 0 /\ \E p \in Procs : k = Key(p) /\ run[p].disturbed]_vars

\* Every run ends: two runs cannot go on discarding each other's entries.
RunsEnd == \A p \in Procs : Alive(p) ~> ~Alive(p)

\* "Ctrl-C, SIGTERM or closing the terminal during a compile stops it at once:
\* `virtualbasys: interrupted`, exit code 130, and nothing is cached."
InterruptedStoresNothing ==
  [][\A p \in Procs : run[p].cancelled /\ run'[p].stored => run[p].stored]_vars

\* Why runs do not lose their work to each other.  What a run that nobody
\* disturbed can count on: its stage directory, and whatever stands under its
\* key being a module that can replace its own.
Placing == {"stage", "copy", "compile", "verify", "fill", "publish", "collide"}
Holding == (Placing \ {"stage"}) \cup {"replace", "stale again", "republish"}
Removing == {"stale", "stale again"}

HoldsItsOwn(p) ==
  /\ run[p].pc \in Holding => HoldsStage(p)
  /\ HoldsStage(p) => run[p].pc \in Holding \cup {"confirm"}
  /\ ~run[p].disturbed =>
      /\ HoldsStage(p) => StageDir(p) \in dirs
      /\ run[p].pc \in Placing /\ Key(p) \in DOMAIN cache => cache[Key(p)].module # Bad
      /\ run[p].pc \in Removing \cup {"republish"} /\ Key(p) \in DOMAIN cache => Loadable(Key(p))
      /\ run[p].pc = "confirm" \/ (run[p].pc = "load" /\ ~run[p].reused) => Loadable(Key(p))
      /\ run[p].pc # "unloadable"

\* Without damage, only a disturbed run discards an entry.
Calm(p) ==
  ~run[p].disturbed =>
    /\ ~run[p].rebuild /\ run[p].pc \notin {"discard", "replace"}
    /\ run[p].pc = "collide" => Key(p) \in DOMAIN cache
    /\ run[p].pc = "load" => Loadable(Key(p))

Peaceful ==
  /\ budget.damage = 0 => /\ \A k \in DOMAIN cache : Loadable(k)
                          /\ \A p \in Procs : Calm(p)
  /\ budget.damage = 0 /\ budget.kills = 0 =>
       \A p \in Procs : ~run[p].disturbed /\ run[p].doomed = {}

\* Every kill leaves at most two directories; any other is its owner's present
\* stage directory, or the one entry its owner is removing.
LeftBehind(A) ==
  /\ IsFiniteSet(A) /\ Cardinality(A) <= 2 * budget.kills
  /\ \A d \in dirs \ A : Working(d)
  /\ \A d, e \in dirs \ A : d.owner = e.owner /\ d.kind = e.kind => d = e

SharingInv == /\ \A p \in Procs : HoldsItsOwn(p)
              /\ Peaceful
              /\ \E A \in SUBSET dirs : LeftBehind(A)
=============================================================================
