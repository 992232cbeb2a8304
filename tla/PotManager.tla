----------------------------- MODULE PotManager -----------------------------
(***************************************************************************)
(* The honeypot manager of a node: the install directories on disk, the    *)
(* in-memory manifest, the table of running processes and the monitor      *)
(* goroutine of each process, driven by the task goroutines of the agent.  *)
(* The agent starts one goroutine per task, and only the maps are locked:  *)
(* an install, a remove or a stop of the same pot may overlap.             *)
(*                                                                         *)
(* One step is one critical section of Manager.mu, one system call on the  *)
(* directory of the pot (git clone, the type-specific set-up and RemoveAll *)
(* are one each), or one event of a process.                               *)
(***************************************************************************)
EXTENDS Naturals, FiniteSets

CONSTANTS
  Pots, Procs, Workers,  \* pot ids, process slots (reused), task goroutines
  NoPot, NoProc,
  Kinds,                 \* the commands that arrive
  MaxRestarts,           \* bound on restarts of the agent
  Watched                \* the circumstances whose pots and processes a run writes down

Commands == {"install", "start", "stop", "restart", "remove"}

\* What may befall a pot: it was reported removed; an install ran beside another, or
\* a removal beside any command; a failing disk, or a death of the agent, left a
\* manifest file; a process started while the exit of another had yet to be recorded.
Circumstances == {"removed", "overlap", "disk", "late"}

ASSUME PotAssumption ==
  /\ NoPot \notin Pots /\ NoProc \notin Procs
  /\ Kinds \subseteq Commands
  /\ Watched \subseteq Circumstances
  /\ MaxRestarts \in Nat

VARIABLES
  \* disk
  files,     \* files[p]: the directory is "absent", "empty" or holds a clone
  mfile,     \* mfile[p]: pot_manifest.json is missing ("none"), "torn" or "whole"
  \* Manager
  manifest,  \* the pots of Manager.manifest
  procs,     \* procs[p]: the process of Manager.procs, or NoProc
  stopping,  \* the pots of Manager.stopping
  \* task goroutines
  pc, pot, kind,  \* where a goroutine stands, its pot and its command
  target,         \* the process a Stop waits for
  \* processes
  of,        \* of[g]: the pot g runs
  alive,     \* the processes that run
  mon,       \* the processes whose monitor goroutine has not recorded the exit
  asked,     \* those that a Stop has taken from the table
  crashed,   \* those that ended by themselves with an error
  report,    \* report[g]: what ExitFn said of g
  astray,    \* history: those that shared their pot with one whose exit was late
  met,       \* history: met[p]: what befell p since its last fresh install
  restarts

disk == <<files, mfile>>
tables == <<manifest, procs, stopping>>
workers == <<pc, pot, kind, target>>
processes == <<of, alive, mon, asked, crashed, report, astray>>
vars == <<disk, tables, workers, processes, met, restarts>>

InstallPc == {"stat", "clean", "mkdir", "clone", "setup", "write", "record"}
WorkerPc == {"idle", "start", "stop", "wait", "unrecord", "erase"} \union InstallPc

TypeOK ==
  /\ files \in [Pots -> {"absent", "empty", "cloned"}]
  /\ mfile \in [Pots -> {"none", "torn", "whole"}]
  /\ manifest \subseteq Pots
  /\ procs \in [Pots -> Procs \union {NoProc}]
  /\ stopping \subseteq Pots
  /\ pc \in [Workers -> WorkerPc]
  /\ pot \in [Workers -> Pots \union {NoPot}]
  /\ kind \in [Workers -> Commands \union {"none"}]
  /\ target \in [Workers -> Procs \union {NoProc}]
  /\ of \in [Procs -> Pots \union {NoPot}]
  /\ alive \subseteq Procs /\ mon \subseteq Procs
  /\ asked \subseteq Procs /\ crashed \subseteq Procs
  /\ report \in [Procs -> {"none", "stopped", "failed"}]
  /\ astray \subseteq Procs
  /\ met \in [Pots -> SUBSET Circumstances]
  /\ restarts \in Nat

Init ==
  /\ files = [p \in Pots |-> "absent"]
  /\ mfile = [p \in Pots |-> "none"]
  /\ manifest = {}
  /\ procs = [p \in Pots |-> NoProc]
  /\ stopping = {}
  /\ pc = [w \in Workers |-> "idle"]
  /\ pot = [w \in Workers |-> NoPot]
  /\ kind = [w \in Workers |-> "none"]
  /\ target = [w \in Workers |-> NoProc]
  /\ of = [g \in Procs |-> NoPot]
  /\ alive = {} /\ mon = {} /\ asked = {} /\ crashed = {}
  /\ report = [g \in Procs |-> "none"]
  /\ astray = {}
  /\ met = [p \in Pots |-> {}]
  /\ restarts = 0

-----------------------------------------------------------------------------
(* A task goroutine.                                                       *)

Busy(p) == \E w \in Workers : pc[w] # "idle" /\ pot[w] = p

Goto(w, next) == pc' = [pc EXCEPT ![w] = next] /\ UNCHANGED <<pot, kind, target>>

\* The command is over; a goroutine that ended leaves nothing behind.
Done(w) ==
  /\ pc' = [pc EXCEPT ![w] = "idle"]
  /\ pot' = [pot EXCEPT ![w] = NoPot]
  /\ kind' = [kind EXCEPT ![w] = "none"]
  /\ target' = [target EXCEPT ![w] = NoProc]

FirstStep(k) ==
  CASE k = "install" -> "stat"
    [] k = "start" -> "start"
    [] k \in {"stop", "restart", "remove"} -> "stop"

\* An install of p beside another, or a removal beside any command.
Overlaps(k, p) ==
  \E w \in Workers :
    pot[w] = p /\ ("remove" \in {k, kind[w]} \/ {k, kind[w]} = {"install"})

\* An install of a pot that nothing is left of.
Fresh(k, p) == k = "install" /\ p \notin manifest /\ mfile[p] = "none" /\ ~Busy(p)

Meets(some, p) == met' = [met EXCEPT ![p] = @ \union (some \intersect Watched)]

\* handleTask begins: the agent starts a goroutine per task, whatever else runs.
Assign(w, k, p) ==
  /\ pc[w] = "idle"
  /\ pc' = [pc EXCEPT ![w] = FirstStep(k)]
  /\ pot' = [pot EXCEPT ![w] = p]
  /\ kind' = [kind EXCEPT ![w] = k]
  /\ met' = [met EXCEPT ![p] =
       IF Fresh(k, p) THEN {}
       ELSE (@ \ (IF k = "install" THEN {"removed"} ELSE {}))
              \union (IF Overlaps(k, p) THEN {"overlap"} \intersect Watched ELSE {})]
  /\ UNCHANGED <<target, disk, tables, processes, restarts>>

-----------------------------------------------------------------------------
(* Install.  With auto_start the handler goes on with Start, whether the   *)
(* pot was installed now or earlier.                                       *)

InstallEnds(w) == Done(w) \/ Goto(w, "start")

RemoveDir(p) ==
  /\ files' = [files EXCEPT ![p] = "absent"]
  /\ mfile' = [mfile EXCEPT ![p] = "none"]

\* RemoveAll stops half way: the manifest file may be gone by then.
RemoveFails(p) ==
  /\ mfile' \in {mfile, [mfile EXCEPT ![p] = "none"]}
  /\ UNCHANGED files

\* The directory, then the manifest file, are looked for.
InstallStat(w) ==
  /\ pc[w] = "stat"
  /\ \/ files[pot[w]] = "absent" /\ Goto(w, "mkdir")
     \/ files[pot[w]] # "absent" /\ mfile[pot[w]] = "none" /\ Goto(w, "clean")
     \/ mfile[pot[w]] # "none" /\ InstallEnds(w)
  /\ UNCHANGED <<disk, tables, processes, met, restarts>>

InstallClean(w) ==
  /\ pc[w] = "clean"
  /\ \/ RemoveDir(pot[w]) /\ Goto(w, "mkdir")
     \/ RemoveFails(pot[w]) /\ Done(w)
  /\ UNCHANGED <<tables, processes, met, restarts>>

InstallMkdir(w) ==
  /\ pc[w] = "mkdir"
  /\ \/ /\ files' = [files EXCEPT ![pot[w]] = IF @ = "absent" THEN "empty" ELSE @]
        /\ Goto(w, "clone")
     \/ UNCHANGED files /\ Done(w)
  /\ UNCHANGED <<mfile, tables, processes, met, restarts>>

\* git clone accepts only a directory that is missing or empty.
Clone(w) ==
  /\ pc[w] = "clone"
  /\ files[pot[w]] # "cloned" /\ mfile[pot[w]] = "none"
  /\ files' = [files EXCEPT ![pot[w]] = "cloned"]
  /\ Goto(w, "setup")
  /\ UNCHANGED <<mfile, tables, processes, met, restarts>>

\* A clone that fails is tried again.
InstallFails_SetupOnly(w) ==
  /\ pc[w] = "setup"
  /\ RemoveDir(pot[w])
  /\ Done(w)
  /\ UNCHANGED <<tables, processes, met, restarts>>

\* The clone or the set-up fails: the directory goes, whoever filled it.
InstallFails(w) ==
  /\ pc[w] \in {"clone", "setup"}
  /\ RemoveDir(pot[w]) \/ RemoveFails(pot[w])
  /\ Done(w)
  /\ UNCHANGED <<tables, processes, met, restarts>>

SetUp(w) ==
  /\ pc[w] = "setup"
  /\ Goto(w, "write")
  /\ UNCHANGED <<disk, tables, processes, met, restarts>>

\* saveManifest; it fails when the directory has vanished, and on a full disk,
\* where it leaves what it has written.
SaveManifest(w) ==
  /\ pc[w] = "write"
  /\ \/ /\ files[pot[w]] = "absent"
        /\ Done(w) /\ UNCHANGED <<mfile, met>>
     \/ /\ files[pot[w]] # "absent"
        /\ Goto(w, "record") /\ mfile' = [mfile EXCEPT ![pot[w]] = "whole"]
        /\ UNCHANGED met
     \/ /\ files[pot[w]] # "absent"
        /\ Done(w) /\ mfile' = [mfile EXCEPT ![pot[w]] = "torn"]
        /\ Meets({"disk"}, pot[w])
  /\ UNCHANGED <<files, tables, processes, restarts>>

Record(w) ==
  /\ pc[w] = "record"
  /\ manifest' = manifest \union {pot[w]}
  /\ InstallEnds(w)
  /\ UNCHANGED <<disk, procs, stopping, processes, met, restarts>>

-----------------------------------------------------------------------------
(* Start, in one critical section.                                         *)

FreeSlot(g) == g \notin alive \union mon /\ \A w \in Workers : target[w] # g

\* Processes of p that ended, or were told to, and whose monitor still has to
\* clear the table, and those that shared their pot with one of these.
Unsettled(p) == {h \in mon : of[h] = p /\ (h \notin alive \/ h \in asked \union astray)}

\* The process runs and a monitor goroutine waits for it.
Launch(w, g) ==
  LET p == pot[w]
  IN  /\ p \in manifest
      /\ files[p] = "cloned"
      /\ FreeSlot(g)
      /\ procs' = [procs EXCEPT ![p] = g]
      /\ of' = [of EXCEPT ![g] = p]
      /\ alive' = alive \union {g}
      /\ mon' = mon \union {g}
      /\ asked' = asked \ {g}
      /\ crashed' = crashed \ {g}
      /\ report' = [report EXCEPT ![g] = "none"]
      /\ astray' = IF "late" \notin Watched \/ Unsettled(p) = {} THEN astray \ {g}
                   ELSE astray \union Unsettled(p) \union {g}

\* The table is not consulted before the launch.
Start_Always(w) ==
  /\ pc[w] = "start"
  /\ \/ \E g \in Procs : Launch(w, g)
     \/ UNCHANGED <<procs, processes>>
  /\ Done(w)
  /\ UNCHANGED <<disk, manifest, stopping, met, restarts>>

\* Without the entry in the table, without the manifest or when the launch fails
\* nothing changes.
Start(w) ==
  /\ pc[w] = "start"
  /\ \/ procs[pot[w]] = NoProc /\ \E g \in Procs : Launch(w, g)
     \/ UNCHANGED <<procs, processes>>
  /\ Done(w)
  /\ UNCHANGED <<disk, manifest, stopping, met, restarts>>

-----------------------------------------------------------------------------
(* Stop, Restart and Remove.                                               *)

\* What follows the Stop of each command.
AfterStop(w) ==
  CASE kind[w] = "stop" -> Done(w)
    [] kind[w] = "restart" -> Goto(w, "start")
    [] kind[w] = "remove" -> Goto(w, "unrecord")

\* The stop flag is not set.
Stop_NoFlag(w) ==
  /\ pc[w] = "stop"
  /\ LET g == procs[pot[w]]
     IN  IF g = NoProc
         THEN AfterStop(w) /\ UNCHANGED <<procs, stopping, asked>>
         ELSE /\ procs' = [procs EXCEPT ![pot[w]] = NoProc]
              /\ asked' = asked \union {g}
              /\ target' = [target EXCEPT ![w] = g]
              /\ pc' = [pc EXCEPT ![w] = "wait"]
              /\ UNCHANGED <<pot, kind, stopping>>
  /\ UNCHANGED <<disk, manifest, of, alive, mon, crashed, report, astray, met, restarts>>

\* The critical section of Stop.  SIGTERM follows at once.
Stop(w) ==
  /\ pc[w] = "stop"
  /\ LET g == procs[pot[w]]
     IN  IF g = NoProc
         THEN AfterStop(w) /\ UNCHANGED <<procs, stopping, asked>>
         ELSE /\ procs' = [procs EXCEPT ![pot[w]] = NoProc]
              /\ stopping' = stopping \union {pot[w]}
              /\ asked' = asked \union {g}
              /\ target' = [target EXCEPT ![w] = g]
              /\ pc' = [pc EXCEPT ![w] = "wait"]
              /\ UNCHANGED <<pot, kind>>
  /\ UNCHANGED <<disk, manifest, of, alive, mon, crashed, report, astray, met, restarts>>

\* Stop returns after ten seconds without killing what ignored SIGTERM.
StopEnds_NoKill(w) ==
  /\ pc[w] = "wait"
  /\ AfterStop(w)
  /\ UNCHANGED <<disk, tables, processes, met, restarts>>

\* The process has ended, or it is killed after ten seconds.
StopEnds(w) ==
  /\ pc[w] = "wait"
  /\ alive' = alive \ {target[w]}
  /\ AfterStop(w)
  /\ UNCHANGED <<disk, tables, of, mon, asked, crashed, report, astray, met, restarts>>

\* The entry stays in the manifest.
Unrecord_KeepsEntry(w) ==
  /\ pc[w] = "unrecord"
  /\ IF pot[w] \in manifest
     THEN Goto(w, "erase") /\ UNCHANGED met
     ELSE Done(w) /\ Meets({"removed"}, pot[w])
  /\ UNCHANGED <<disk, tables, processes, restarts>>

\* Remove's critical section; a pot without an entry counts as removed.
Unrecord(w) ==
  /\ pc[w] = "unrecord"
  /\ IF pot[w] \in manifest
     THEN Goto(w, "erase") /\ UNCHANGED met
     ELSE Done(w) /\ Meets({"removed"}, pot[w])
  /\ manifest' = manifest \ {pot[w]}
  /\ UNCHANGED <<disk, procs, stopping, processes, restarts>>

\* The directory survives.
Erase_KeepsFiles(w) ==
  /\ pc[w] = "erase"
  /\ UNCHANGED disk
  /\ Meets({"removed"}, pot[w])
  /\ Done(w)
  /\ UNCHANGED <<tables, processes, restarts>>

\* A failure of RemoveAll is logged and success reported.
Erase(w) ==
  /\ pc[w] = "erase"
  /\ \/ RemoveDir(pot[w]) /\ Meets({"removed"}, pot[w])
     \/ RemoveFails(pot[w]) /\ Meets({"removed", "disk"}, pot[w])
  /\ Done(w)
  /\ UNCHANGED <<tables, processes, restarts>>

-----------------------------------------------------------------------------
(* Processes, their monitors, and the agent.                               *)

\* The pot ends: stopped by a signal, cleanly, or with an error of its own.
ProcessExit(g) ==
  /\ g \in alive
  /\ alive' = alive \ {g}
  /\ crashed' \in {crashed, crashed \union ({g} \ asked)}
  /\ UNCHANGED <<disk, tables, workers, of, mon, asked, report, astray, met, restarts>>

\* The exit code is passed on as it is.
ExitReports_Raw(g) == {"exit status"}

\* What ExitFn can say of g: the flag decides, then the exit code.
ExitReports(g) ==
  IF of[g] \in stopping THEN {"stopped"}
  ELSE IF g \in crashed THEN {"failed"}
  ELSE IF g \in asked THEN {"stopped", "failed"}  \* killed by a signal, or not
  ELSE {"stopped"}

\* The entry of the dead process stays in the table.
MonitorExit_KeepsEntry(g) ==
  /\ g \in mon \ alive
  /\ mon' = mon \ {g}
  /\ stopping' = stopping \ {of[g]}
  /\ report' \in {[report EXCEPT ![g] = r] : r \in ExitReports(g)}
  /\ UNCHANGED <<disk, manifest, procs, workers, of, alive, asked, crashed, astray, met,
                 restarts>>

\* The stop flag outlives the process it was set for.
MonitorExit_KeepsFlag(g) ==
  /\ g \in mon \ alive
  /\ mon' = mon \ {g}
  /\ procs' = [procs EXCEPT ![of[g]] = NoProc]
  /\ report' \in {[report EXCEPT ![g] = r] : r \in ExitReports(g)}
  /\ UNCHANGED <<disk, manifest, stopping, workers, of, alive, asked, crashed, astray,
                 met, restarts>>

\* The monitor clears entry and flag of the pot, whichever process they are of.
MonitorExit(g) ==
  /\ g \in mon \ alive
  /\ mon' = mon \ {g}
  /\ procs' = [procs EXCEPT ![of[g]] = NoProc]
  /\ stopping' = stopping \ {of[g]}
  /\ report' \in {[report EXCEPT ![g] = r] : r \in ExitReports(g)}
  /\ UNCHANGED <<disk, manifest, workers, of, alive, asked, crashed, astray, met, restarts>>

\* A directory is taken for an installed pot.
LoadAll_AnyDir(m) == {p \in Pots : files[p] # "absent"}

\* Only a manifest file that parses is loaded.
LoadAll(m) == {p \in Pots : m[p] = "whole"}

\* The agent is restarted or dies, and NewManager loads what is on disk.  The pots
\* die with it where a service manager kills its process group.
AgentRestart ==
  /\ restarts < MaxRestarts
  /\ restarts' = restarts + 1
  /\ \E torn \in SUBSET {p \in Pots : files[p] # "absent"
                           /\ \E w \in Workers : pc[w] = "write" /\ pot[w] = p} :
       /\ mfile' = [p \in Pots |-> IF p \in torn THEN "torn" ELSE mfile[p]]
       /\ met' = [p \in Pots |-> IF p \in torn
                            THEN met[p] \union ({"disk"} \intersect Watched) ELSE met[p]]
  /\ manifest' = LoadAll(mfile')
  /\ procs' = [p \in Pots |-> NoProc]
  /\ stopping' = {}
  /\ pc' = [w \in Workers |-> "idle"]
  /\ pot' = [w \in Workers |-> NoPot]
  /\ kind' = [w \in Workers |-> "none"]
  /\ target' = [w \in Workers |-> NoProc]
  /\ alive' \in {alive, {}}
  /\ mon' = {}
  /\ UNCHANGED <<files, of, asked, crashed, report, astray>>

-----------------------------------------------------------------------------
Install(w) ==
  \/ InstallStat(w) \/ InstallClean(w) \/ InstallMkdir(w) \/ Clone(w)
  \/ InstallFails(w) \/ SetUp(w) \/ SaveManifest(w) \/ Record(w)

Work(w) ==
  Install(w) \/ Start(w) \/ Stop(w) \/ StopEnds(w) \/ Unrecord(w) \/ Erase(w)

Next ==
  \/ \E w \in Workers, k \in Kinds, p \in Pots : Assign(w, k, p)
  \/ \E w \in Workers : Work(w)
  \/ \E g \in Procs : ProcessExit(g) \/ MonitorExit(g)
  \/ AgentRestart

Spec == Init /\ [][Next]_vars

\* Goroutines are scheduled.  Nothing makes a pot end by itself.
Fairness ==
  /\ \A w \in Workers : WF_vars(Work(w))
  /\ \A g \in Procs : WF_vars(MonitorExit(g))

FairSpec == Spec /\ Fairness

-----------------------------------------------------------------------------
(* Properties of the program as it is.  The comments of the code promise   *)
(* more; README, "Where code and words part", says what the excepted       *)
(* processes and pots suffer.                                              *)

\* An entry of the process table always has a monitor that will clear it, and no
\* Stop has claimed it: a Start that finds an entry cannot be refused for ever,
\* and two Stops never wait for one process (manager.go 329-340, 370-385).
TrackedIsMonitored ==
  \A p \in Pots : procs[p] # NoProc =>
    procs[p] \in mon \ asked /\ of[procs[p]] = p

\* The processes of this agent that run: one that outlived an agent has no monitor.
Running == alive \intersect mon

\* Stop is effective: the process it took from the table ends, although nobody
\* can find it there any more (manager.go 394-402), unless the agent dies first.
StoppedEnds == \A g \in Procs : g \in asked ~> g \notin Running

\* Every command comes to an end, whatever the others do meanwhile.
CommandsEnd == \A w \in Workers : pc[w] # "idle" ~> pc[w] = "idle"

\* "Idempotent: returns nil if the pot is already running" (manager.go:266): no
\* pot runs twice, but for processes started while the exit of an earlier one was
\* yet to be recorded.
OneLiveProcess == \A g, h \in Running \ astray : of[g] = of[h] => g = h

\* A pot that runs can be stopped: it is in the table, or a Stop is at work on it.
\* The late monitor of an earlier process alone takes a running one from the table.
RunningIsTracked ==
  \A g \in Running \ astray :
    procs[of[g]] = g \/ \E w \in Workers : pc[w] = "wait" /\ target[w] = g

\* At most one process of a pot, and one the manager can find again, however the
\* commands of the pot overlap.
OneTrackedProcess == OneLiveProcess /\ RunningIsTracked

\* An exit after Stop "is intentional and must NOT be reported as failed"
\* (manager.go:345).
StopIsNotFailure == \A g \in asked \ astray : report[g] # "failed"

\* "status is 'failed' for non-zero exit" (manager.go:66), when nobody stopped it.
CrashIsFailure == \A g \in crashed \ (asked \union astray) : report[g] # "stopped"

\* What is reported of an exit is what it was, a stop or a crash, whichever commands
\* overlap: the flag of the pot misleads only about processes that shared it.
ExitsAreJudged == StopIsNotFailure /\ CrashIsFailure

\* A recorded pot has its files: a directory without manifest file is "the
\* previous attempt [that] was interrupted mid-install" (manager.go:138), so that
\* cleaning it up takes nothing from a pot that is or will be recorded, unless an
\* install or a removal of the pot overlapped with another command.
InstalledHasFiles ==
  \A p \in manifest :
    "overlap" \notin met[p] => files[p] = "cloned" /\ mfile[p] = "whole"

\* A pot that was reported removed stays removed until it is installed again, across
\* restarts of the agent (manager.go:431), unless another command of the pot ran
\* beside the removal, its files could not be deleted, or the process was astray.
RemovedStaysRemoved ==
  \A p \in Pots : met[p] = {"removed"} =>
    p \notin manifest /\ \A g \in Running \ astray : of[g] # p

\* An interrupted install does not block the next one, "so this attempt can start
\* fresh instead of failing silently" (manager.go:139): a manifest file on disk
\* belongs to a pot that is recorded, or about to be, or being removed, unless the
\* disk failed or the agent died in the middle of a write.
InstallCanBeRepeated ==
  \A p \in Pots : mfile[p] # "none" =>
    \/ p \in manifest
    \/ \E w \in Workers : pc[w] \in {"record", "erase"} /\ pot[w] = p
    \/ "disk" \in met[p]
=============================================================================
