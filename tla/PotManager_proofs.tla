------------------------- MODULE PotManager_proofs -------------------------
(***************************************************************************)
(* Machine-checked facts about PotManager, for any pots, processes and     *)
(* task goroutines, any commands and any circumstances.                    *)
(***************************************************************************)
EXTENDS PotManager, TLAPS

-----------------------------------------------------------------------------
(* Types.                                                                  *)

\* A goroutine that is not idle has a pot, and one that stops a process has a
\* command that says what comes next.
Engaged ==
  \A w \in Workers :
    /\ pc[w] # "idle" => pot[w] \in Pots
    /\ pc[w] \in {"stop", "wait"} => kind[w] \in {"stop", "restart", "remove"}
    /\ pc[w] \in InstallPc => kind[w] = "install"
    /\ pc[w] \in {"unrecord", "erase"} => kind[w] = "remove"

ManagerTyped == TypeOK /\ Engaged

WorkersTyped ==
  /\ pc \in [Workers -> WorkerPc]
  /\ pot \in [Workers -> Pots \union {NoPot}]
  /\ kind \in [Workers -> Commands \union {"none"}]
  /\ target \in [Workers -> Procs \union {NoProc}]
  /\ Engaged

\* The step that follows a Stop leaves the goroutines as they should be.
LEMMA AfterStopTyped ==
  ASSUME WorkersTyped, NEW w \in Workers, pc[w] \in {"stop", "wait"}, AfterStop(w)
  PROVE  WorkersTyped'
<1>. USE DEF WorkersTyped, Engaged, WorkerPc, InstallPc, Commands
<1>1. CASE kind[w] = "stop"
  BY <1>1 DEF AfterStop, Done
<1>2. CASE kind[w] = "restart"
  BY <1>2 DEF AfterStop, Goto
<1>3. CASE kind[w] = "remove"
  BY <1>3 DEF AfterStop, Goto
<1>. QED  BY <1>1, <1>2, <1>3

\* Every variable of the manager keeps its type.  Engaged is needed because a
\* goroutine goes back to its pot and command step after step.
LEMMA ManagerTypedInvariant == Spec => []ManagerTyped
<1>1. Init => ManagerTyped
  BY PotAssumption DEF Init, ManagerTyped, TypeOK, Engaged, WorkerPc, InstallPc, Circumstances
<1>2. ASSUME ManagerTyped, [Next]_vars PROVE ManagerTyped'
  <2>. USE <1>2, PotAssumption
       DEF ManagerTyped, TypeOK, Engaged, WorkerPc, InstallPc, Commands, Circumstances, Meets
  <2>1. ASSUME NEW w \in Workers, NEW k \in Kinds, NEW p \in Pots, Assign(w, k, p)
        PROVE  ManagerTyped'
    BY <2>1 DEF Assign, FirstStep, disk, tables, processes
  <2>2. ASSUME NEW w \in Workers, InstallStat(w) PROVE ManagerTyped'
    BY <2>2 DEF InstallStat, InstallEnds, Done, Goto, disk, tables, processes
  <2>3. ASSUME NEW w \in Workers, InstallClean(w) PROVE ManagerTyped'
    BY <2>3 DEF InstallClean, RemoveDir, RemoveFails, Done, Goto, tables, processes
  <2>4. ASSUME NEW w \in Workers, InstallMkdir(w) PROVE ManagerTyped'
    BY <2>4 DEF InstallMkdir, Done, Goto, tables, processes
  <2>5. ASSUME NEW w \in Workers, Clone(w) PROVE ManagerTyped'
    BY <2>5 DEF Clone, Goto, tables, processes
  <2>6. ASSUME NEW w \in Workers, InstallFails(w) PROVE ManagerTyped'
    BY <2>6 DEF InstallFails, RemoveDir, RemoveFails, Done, tables, processes
  <2>7. ASSUME NEW w \in Workers, SetUp(w) PROVE ManagerTyped'
    BY <2>7 DEF SetUp, Goto, disk, tables, processes
  <2>8. ASSUME NEW w \in Workers, SaveManifest(w) PROVE ManagerTyped'
    BY <2>8 DEF SaveManifest, Done, Goto, tables, processes
  <2>9. ASSUME NEW w \in Workers, Record(w) PROVE ManagerTyped'
    BY <2>9 DEF Record, InstallEnds, Done, Goto, disk, processes
  <2>10. ASSUME NEW w \in Workers, Start(w) PROVE ManagerTyped'
    BY <2>10 DEF Start, Launch, Unsettled, Done, disk, processes
  <2>11. ASSUME NEW w \in Workers, Stop(w) PROVE ManagerTyped'
    <3>. DEFINE g == procs[pot[w]]
    <3>1. WorkersTyped /\ pc[w] = "stop" /\ pot[w] \in Pots /\ g \in Procs \union {NoProc}
      BY <2>11 DEF Stop, WorkersTyped
    <3>2. CASE g = NoProc
      <4>1. WorkersTyped'
        BY <2>11, <3>1, <3>2, AfterStopTyped DEF Stop
      <4>. QED  BY <2>11, <3>2, <4>1 DEF Stop, WorkersTyped, disk
    <3>3. CASE g # NoProc
      BY <2>11, <3>1, <3>3 DEF Stop, disk
    <3>. QED  BY <3>2, <3>3
  <2>12. ASSUME NEW w \in Workers, StopEnds(w) PROVE ManagerTyped'
    <3>1. WorkersTyped'
      BY <2>12, AfterStopTyped DEF StopEnds, WorkersTyped
    <3>. QED  BY <2>12, <3>1 DEF StopEnds, WorkersTyped, disk, tables
  <2>13. ASSUME NEW w \in Workers, Unrecord(w) PROVE ManagerTyped'
    BY <2>13 DEF Unrecord, Done, Goto, disk, processes
  <2>14. ASSUME NEW w \in Workers, Erase(w) PROVE ManagerTyped'
    BY <2>14 DEF Erase, RemoveDir, RemoveFails, Done, disk, tables, processes
  <2>15. ASSUME NEW g \in Procs, ProcessExit(g) PROVE ManagerTyped'
    BY <2>15 DEF ProcessExit, disk, tables, workers
  <2>16. ASSUME NEW g \in Procs, MonitorExit(g) PROVE ManagerTyped'
    <3>1. PICK r \in {"stopped", "failed"} : report' = [report EXCEPT ![g] = r]
      BY <2>16 DEF MonitorExit, ExitReports
    <3>. QED  BY <2>16, <3>1 DEF MonitorExit, disk, workers
  <2>17. ASSUME AgentRestart PROVE ManagerTyped'
    BY <2>17 DEF AgentRestart, LoadAll
  <2>18. CASE UNCHANGED vars
    BY <2>18 DEF vars, disk, tables, workers, processes
  <2>. QED
    BY <2>1, <2>2, <2>3, <2>4, <2>5, <2>6, <2>7, <2>8, <2>9, <2>10, <2>11,
       <2>12, <2>13, <2>14, <2>15, <2>16, <2>17, <2>18
    DEF Next, Work, Install
<1>. QED  BY <1>1, <1>2, PTL DEF Spec

\* Every variable keeps its type.
THEOREM ManagerTypeCorrect == Spec => []TypeOK
  BY ManagerTypedInvariant, PTL DEF ManagerTyped

-----------------------------------------------------------------------------
(* The process table.                                                      *)

\* The table never names a process without a monitor, or one that a Stop has
\* claimed, or one of another pot: whatever overlaps, an entry can be cleared.
THEOREM TableIsMonitored == Spec => []TrackedIsMonitored
<1>1. Init => TrackedIsMonitored
  BY DEF Init, TrackedIsMonitored
<1>2. ASSUME ManagerTyped, TrackedIsMonitored, [Next]_vars
      PROVE  TrackedIsMonitored'
  <2>. USE <1>2, PotAssumption
       DEF ManagerTyped, TypeOK, Engaged, TrackedIsMonitored
  <2>1. ASSUME NEW w \in Workers, NEW k \in Kinds, NEW p \in Pots, Assign(w, k, p)
        PROVE  TrackedIsMonitored'
    BY <2>1 DEF Assign, tables, processes
  <2>2. ASSUME NEW w \in Workers, InstallStat(w) PROVE TrackedIsMonitored'
    BY <2>2 DEF InstallStat, tables, processes
  <2>3. ASSUME NEW w \in Workers, InstallClean(w) PROVE TrackedIsMonitored'
    BY <2>3 DEF InstallClean, tables, processes
  <2>4. ASSUME NEW w \in Workers, InstallMkdir(w) PROVE TrackedIsMonitored'
    BY <2>4 DEF InstallMkdir, tables, processes
  <2>5. ASSUME NEW w \in Workers, Clone(w) PROVE TrackedIsMonitored'
    BY <2>5 DEF Clone, tables, processes
  <2>6. ASSUME NEW w \in Workers, InstallFails(w) PROVE TrackedIsMonitored'
    BY <2>6 DEF InstallFails, tables, processes
  <2>7. ASSUME NEW w \in Workers, SetUp(w) PROVE TrackedIsMonitored'
    BY <2>7 DEF SetUp, tables, processes
  <2>8. ASSUME NEW w \in Workers, SaveManifest(w) PROVE TrackedIsMonitored'
    BY <2>8 DEF SaveManifest, tables, processes
  <2>9. ASSUME NEW w \in Workers, Record(w) PROVE TrackedIsMonitored'
    BY <2>9 DEF Record, processes
  <2>10. ASSUME NEW w \in Workers, Start(w) PROVE TrackedIsMonitored'
    BY <2>10 DEF Start, Launch, FreeSlot, processes
  <2>11. ASSUME NEW w \in Workers, Stop(w) PROVE TrackedIsMonitored'
    BY <2>11 DEF Stop, processes
  <2>12. ASSUME NEW w \in Workers, StopEnds(w) PROVE TrackedIsMonitored'
    BY <2>12 DEF StopEnds, tables, processes
  <2>13. ASSUME NEW w \in Workers, Unrecord(w) PROVE TrackedIsMonitored'
    BY <2>13 DEF Unrecord, processes
  <2>14. ASSUME NEW w \in Workers, Erase(w) PROVE TrackedIsMonitored'
    BY <2>14 DEF Erase, tables, processes
  <2>15. ASSUME NEW g \in Procs, ProcessExit(g) PROVE TrackedIsMonitored'
    BY <2>15 DEF ProcessExit, tables
  <2>16. ASSUME NEW g \in Procs, MonitorExit(g) PROVE TrackedIsMonitored'
    BY <2>16 DEF MonitorExit
  <2>17. ASSUME AgentRestart PROVE TrackedIsMonitored'
    BY <2>17 DEF AgentRestart
  <2>18. CASE UNCHANGED vars
    BY <2>18 DEF vars, tables, processes
  <2>. QED
    BY <2>1, <2>2, <2>3, <2>4, <2>5, <2>6, <2>7, <2>8, <2>9, <2>10, <2>11,
       <2>12, <2>13, <2>14, <2>15, <2>16, <2>17, <2>18
    DEF Next, Work, Install
<1>. QED  BY <1>1, <1>2, ManagerTypedInvariant, PTL DEF Spec

-----------------------------------------------------------------------------
(* What the honeypot manager promises, with every circumstance there is.   *)
(* Each theorem names the circumstances that it excepts, and a run has to  *)
(* write these down for the exception to mean anything.                    *)

-----------------------------------------------------------------------------
(* Goroutines.                                                             *)

\* A goroutine at work touches neither the others nor what it works on, and what
\* befell its pot stays written down.
LEMMA WorkStep ==
  ASSUME ManagerTyped, NEW w \in Workers, Work(w)
  PROVE  /\ pc[w] # "idle" /\ pot[w] \in Pots /\ pc' \in [Workers -> WorkerPc]
         /\ \A v \in Workers \ {w} :
              pc'[v] = pc[v] /\ pot'[v] = pot[v] /\ kind'[v] = kind[v] /\ target'[v] = target[v]
         /\ pc'[w] # "idle" => pot'[w] = pot[w] /\ kind'[w] = kind[w]
         /\ \A p \in Pots : met[p] \subseteq met'[p]
<1>. USE DEF ManagerTyped, TypeOK, Engaged, WorkerPc, InstallPc
<1>1. CASE Install(w)
  BY <1>1 DEF Install, InstallStat, InstallClean, InstallMkdir, Clone, InstallFails,
              SetUp, SaveManifest, Record, InstallEnds, Goto, Done, Meets
<1>2. CASE Start(w) \/ Unrecord(w) \/ Erase(w)
  BY <1>2 DEF Start, Unrecord, Erase, Goto, Done, Meets
<1>3. CASE Stop(w) \/ StopEnds(w)
  <2>1. pc[w] \in {"stop", "wait"} /\ kind[w] \in {"stop", "restart", "remove"}
    BY <1>3 DEF Stop, StopEnds
  <2>2. UNCHANGED met
    BY <1>3 DEF Stop, StopEnds
  <2>3. CASE AfterStop(w)
    BY <2>1, <2>2, <2>3 DEF AfterStop, Goto, Done
  <2>4. CASE ~AfterStop(w)
    BY <1>3, <2>1, <2>2, <2>4 DEF Stop, StopEnds
  <2>. QED  BY <2>3, <2>4
<1>. QED  BY <1>1, <1>2, <1>3 DEF Work

LEMMA Steps ==
  ASSUME NEW w \in Workers
  PROVE  /\ InstallStat(w) \/ InstallClean(w) \/ InstallMkdir(w) \/ Clone(w) => Work(w)
         /\ InstallFails(w) \/ SetUp(w) \/ SaveManifest(w) \/ Record(w) => Work(w)
         /\ Start(w) \/ Stop(w) \/ StopEnds(w) \/ Unrecord(w) \/ Erase(w) => Work(w)
         /\ Install(w) => Work(w)
BY DEF Work, Install

\* Where two goroutines are at work on a pot, one of them removing it or both
\* installing it, the overlap has been written down.
Noted ==
  \A v, w \in Workers :
    /\ v # w /\ pc[v] # "idle" /\ pc[w] # "idle" /\ pot[v] = pot[w]
    /\ "remove" \in {kind[v], kind[w]} \/ (kind[v] = "install" /\ kind[w] = "install")
    => "overlap" \in met[pot[w]]

\* It is written down when the later one begins, and forgotten only when neither
\* is left.
LEMMA OverlapsAreNoted ==
  ASSUME "overlap" \in Watched PROVE Spec => []Noted
<1>1. Init => Noted
  BY DEF Init, Noted
<1>2. ASSUME ManagerTyped, Noted, [Next]_vars PROVE Noted'
  <2>. USE <1>2 DEF Noted
  <2>1. ASSUME NEW w \in Workers, NEW k \in Kinds, NEW p \in Pots, Assign(w, k, p)
        PROVE  Noted'
    <3>1. /\ pc[w] = "idle" /\ pot' = [pot EXCEPT ![w] = p] /\ kind' = [kind EXCEPT ![w] = k]
          /\ \A v \in Workers \ {w} : pc'[v] = pc[v]
          /\ met' = [met EXCEPT ![p] =
               IF Fresh(k, p) THEN {}
               ELSE (@ \ (IF k = "install" THEN {"removed"} ELSE {}))
                      \union (IF Overlaps(k, p) THEN {"overlap"} \intersect Watched ELSE {})]
      BY <2>1 DEF Assign, ManagerTyped, TypeOK
    <3>2. ASSUME NEW q \in Pots, "overlap" \in met[q], \E v \in Workers : pc[v] # "idle" /\ pot[v] = q
          PROVE  "overlap" \in met'[q]
      <4>1. q = p => ~Fresh(k, p)
        BY <3>2 DEF Fresh, Busy
      <4>. QED  BY <3>1, <3>2, <4>1 DEF ManagerTyped, TypeOK
    <3>3. ASSUME NEW v \in Workers \ {w}, pc[v] # "idle", pot[v] = p,
                 "remove" \in {k, kind[v]} \/ (k = "install" /\ kind[v] = "install")
          PROVE  "overlap" \in met'[p]
      <4>1. ~Fresh(k, p) /\ Overlaps(k, p)
        BY <3>3 DEF Fresh, Busy, Overlaps
      <4>. QED  BY <3>1, <4>1 DEF ManagerTyped, TypeOK
    <3>. SUFFICES ASSUME NEW u \in Workers, NEW v \in Workers,
                         u # v, pc'[u] # "idle", pc'[v] # "idle", pot'[u] = pot'[v],
                         \/ "remove" \in {kind'[u], kind'[v]}
                         \/ kind'[u] = "install" /\ kind'[v] = "install"
                  PROVE  "overlap" \in met'[pot'[v]]
      OBVIOUS
    <3>4. CASE u # w /\ v # w
      BY <3>1, <3>2, <3>4 DEF ManagerTyped, TypeOK, Engaged
    <3>5. CASE u = w \/ v = w
      BY <3>1, <3>3, <3>5 DEF ManagerTyped, TypeOK
    <3>. QED  BY <3>4, <3>5
  <2>2. ASSUME NEW w \in Workers, Work(w) PROVE Noted'
    BY <2>2, WorkStep DEF ManagerTyped, Engaged
  <2>3. CASE UNCHANGED <<workers, met>>
    BY <2>3 DEF workers
  <2>4. CASE AgentRestart
    BY <2>4 DEF AgentRestart
  <2>. QED  BY <2>1, <2>2, <2>3, <2>4 DEF Next, vars, ProcessExit, MonitorExit
<1>. QED  BY <1>1, <1>2, ManagerTypedInvariant, PTL DEF Spec
-----------------------------------------------------------------------------
(* Processes.                                                              *)

\* Nothing has been said of the exit of a process that runs or is monitored, those
\* that share a pot are astray, and the stop flag of a pot belongs to the one
\* process that a Stop has claimed.
Monitored ==
  /\ \A g \in alive : report[g] = "none"
  /\ \A g \in mon : of[g] \in Pots /\ report[g] = "none"
  /\ \A g, h \in mon : g # h /\ of[g] = of[h] => g \in astray
  /\ \A g \in mon \ astray : of[g] \in stopping <=> g \in asked
  /\ \A p \in stopping : \E g \in mon : of[g] = p

\* A Stop that waits has claimed a process of its pot.
Awaited ==
  \A w \in Workers : pc[w] = "wait" => target[w] \in asked /\ of[target[w]] = pot[w]

Served == Monitored /\ Awaited /\ RunningIsTracked /\ StopIsNotFailure /\ CrashIsFailure

\* A step of a goroutine that leaves tables and processes alone, and does not begin
\* to wait, cannot disturb them.
LEMMA ServedByOthers ==
  ASSUME ManagerTyped, Served, NEW w \in Workers,
         UNCHANGED <<procs, stopping, of, alive, mon, asked, crashed, report, astray>>,
         \A v \in Workers \ {w} :
           pc'[v] = pc[v] /\ pot'[v] = pot[v] /\ target'[v] = target[v],
         pc[w] # "wait", pc'[w] # "wait"
  PROVE  Served'
<1>1. Monitored' /\ StopIsNotFailure' /\ CrashIsFailure'
  BY DEF Served, Monitored, StopIsNotFailure, CrashIsFailure
<1>2. Awaited'
  BY DEF Served, Awaited
<1>3. RunningIsTracked'
  BY DEF Served, RunningIsTracked, Running
<1>. QED  BY <1>1, <1>2, <1>3 DEF Served

\* Launch is where it could go wrong: every monitor that would clear the entry of
\* the new process is one of a process that ended, or was told to, or is astray,
\* because the table has no entry for the pot.
LEMMA ServedInvariant ==
  ASSUME "late" \in Watched PROVE Spec => []Served
<1>1. Init => Served
  BY DEF Init, Served, Monitored, Awaited, RunningIsTracked, Running, StopIsNotFailure,
         CrashIsFailure
<1>2. ASSUME ManagerTyped, TrackedIsMonitored, Served, [Next]_vars PROVE Served'
  <2>. USE <1>2
  <2>1. ASSUME NEW w \in Workers, NEW k \in Kinds, NEW p \in Pots, Assign(w, k, p)
        PROVE  Served'
    <3>1. /\ \A v \in Workers \ {w} :
               pc'[v] = pc[v] /\ pot'[v] = pot[v] /\ target'[v] = target[v]
          /\ pc[w] = "idle" /\ pc'[w] \in {"stat", "start", "stop"}
      BY <2>1, PotAssumption DEF Assign, FirstStep, ManagerTyped, TypeOK, Commands
    <3>. QED  BY <2>1, <3>1, ServedByOthers DEF Assign, tables, processes
  <2>2. ASSUME NEW w \in Workers, Install(w) PROVE Served'
    <3>1. UNCHANGED <<procs, stopping, of, alive, mon, asked, crashed, report, astray>>
      BY <2>2 DEF Install, InstallStat, InstallClean, InstallMkdir, Clone, InstallFails,
                  SetUp, SaveManifest, Record, tables, processes
    <3>2. pc[w] \in InstallPc /\ pc'[w] \in InstallPc \union {"idle", "start"}
      BY <2>2 DEF Install, InstallStat, InstallClean, InstallMkdir, Clone, InstallFails,
                  SetUp, SaveManifest, Record, InstallEnds, Goto, Done, InstallPc,
                  ManagerTyped, TypeOK
    <3>. QED  BY <2>2, <3>1, <3>2, WorkStep, ServedByOthers DEF Work, InstallPc
  <2>3. ASSUME NEW w \in Workers, Unrecord(w) \/ Erase(w) PROVE Served'
    <3>1. UNCHANGED <<procs, stopping, of, alive, mon, asked, crashed, report, astray>>
      BY <2>3 DEF Unrecord, Erase, tables, processes
    <3>2. pc[w] \in {"unrecord", "erase"} /\ pc'[w] \in {"idle", "erase"}
      BY <2>3 DEF Unrecord, Erase, Goto, Done, ManagerTyped, TypeOK
    <3>. QED  BY <2>3, <3>1, <3>2, WorkStep, ServedByOthers DEF Work
  <2>4. ASSUME NEW w \in Workers, Start(w) PROVE Served'
    <3>1. Work(w) /\ pc[w] = "start" /\ pc'[w] = "idle" /\ pot[w] \in Pots
      BY <2>4, WorkStep DEF Work, Start, Done, ManagerTyped, TypeOK
    <3>2. CASE UNCHANGED <<procs, processes>>
      BY <2>4, <3>1, <3>2, WorkStep, ServedByOthers DEF Start, processes
    <3>3. ASSUME NEW g \in Procs, procs[pot[w]] = NoProc, Launch(w, g) PROVE Served'
      <4>. DEFINE others == Unsettled(pot[w])
      <4>1. UNCHANGED stopping
        BY <2>4 DEF Start
      <4>2. /\ g \notin alive /\ g \notin mon /\ \A v \in Workers : target[v] # g
            /\ procs' = [procs EXCEPT ![pot[w]] = g] /\ of' = [of EXCEPT ![g] = pot[w]]
            /\ alive' = alive \union {g} /\ mon' = mon \union {g}
            /\ asked' = asked \ {g} /\ crashed' = crashed \ {g}
            /\ report' = [report EXCEPT ![g] = "none"]
            /\ astray' = IF others = {} THEN astray \ {g} ELSE astray \union others \union {g}
        BY <3>3 DEF Launch, FreeSlot
      <4>3. \A h \in mon : of[h] = pot[w] => h \in others
        <5>. SUFFICES ASSUME NEW h \in mon, of[h] = pot[w], h \in alive,
                             h \notin asked, h \notin astray
                      PROVE  FALSE
          BY DEF Unsettled
        <5>1. procs[of[h]] = h \/ \E v \in Workers : pc[v] = "wait" /\ target[v] = h
          BY DEF Served, RunningIsTracked, Running
        <5>2. h # NoProc
          BY PotAssumption DEF ManagerTyped, TypeOK
        <5>. QED  BY <3>3, <5>1, <5>2 DEF Served, Awaited
      <4>4. others \subseteq mon /\ \A h \in others : of[h] = pot[w]
        BY DEF Unsettled
      <4>. HIDE DEF others
      <4>5. Monitored'
        <5>1. \A h \in alive' : report'[h] = "none"
          BY <4>2 DEF Served, Monitored, ManagerTyped, TypeOK
        <5>2. \A h \in mon' : of'[h] \in Pots /\ report'[h] = "none"
          BY <3>1, <4>2 DEF Served, Monitored, ManagerTyped, TypeOK
        <5>3. ASSUME NEW x \in mon', NEW y \in mon', x # y, of'[x] = of'[y] PROVE x \in astray'
          <6>1. CASE x # g /\ y # g
            BY <4>2, <5>3, <6>1 DEF Served, Monitored, ManagerTyped, TypeOK
          <6>2. CASE x = g
            <7>1. y \in mon /\ of[y] = pot[w]
              BY <4>2, <5>3, <6>2 DEF ManagerTyped, TypeOK
            <7>. QED  BY <4>2, <4>3, <6>2, <7>1
          <6>3. CASE y = g
            <7>1. x \in mon /\ of[x] = pot[w]
              BY <4>2, <5>3, <6>3 DEF ManagerTyped, TypeOK
            <7>. QED  BY <4>2, <4>3, <7>1
          <6>. QED  BY <6>1, <6>2, <6>3
        <5>4. ASSUME NEW x \in mon' \ astray' PROVE of'[x] \in stopping' <=> x \in asked'
          <6>1. CASE x # g
            BY <4>1, <4>2, <6>1 DEF Served, Monitored, ManagerTyped, TypeOK
          <6>2. CASE x = g
            <7>1. pot[w] \notin stopping
              BY <4>2, <4>3, <6>2 DEF Served, Monitored
            <7>. QED  BY <4>1, <4>2, <6>2, <7>1 DEF ManagerTyped, TypeOK
          <6>. QED  BY <6>1, <6>2
        <5>5. \A p \in stopping' : \E h \in mon' : of'[h] = p
          BY <4>1, <4>2 DEF Served, Monitored, ManagerTyped, TypeOK
        <5>. QED  BY <5>1, <5>2, <5>3, <5>4, <5>5 DEF Monitored
      <4>6. Awaited'
        BY <3>1, <4>2, WorkStep DEF Served, Awaited, ManagerTyped, TypeOK
      <4>7. RunningIsTracked'
        <5>. SUFFICES ASSUME NEW h \in (Running \ astray)'
             PROVE  procs'[of'[h]] = h \/ \E v \in Workers : pc'[v] = "wait" /\ target'[v] = h
          BY DEF RunningIsTracked
        <5>1. CASE h = g
          BY <3>1, <4>2, <5>1 DEF ManagerTyped, TypeOK
        <5>2. CASE h # g
          <6>1. h \in Running \ astray /\ of'[h] = of[h] /\ h # NoProc
            BY <4>2, <5>2, PotAssumption DEF Running, ManagerTyped, TypeOK
          <6>2. CASE procs[of[h]] = h
            BY <3>3, <4>2, <6>1, <6>2 DEF ManagerTyped, TypeOK
          <6>3. ASSUME NEW v \in Workers, pc[v] = "wait", target[v] = h
                PROVE  pc'[v] = "wait" /\ target'[v] = h
            BY <3>1, <6>3, WorkStep
          <6>. QED  BY <6>1, <6>2, <6>3 DEF Served, RunningIsTracked
        <5>. QED  BY <5>1, <5>2
      <4>8. StopIsNotFailure' /\ CrashIsFailure'
        BY <4>2 DEF Served, StopIsNotFailure, CrashIsFailure, ManagerTyped, TypeOK
      <4>. QED  BY <4>5, <4>6, <4>7, <4>8 DEF Served
    <3>. QED  BY <2>4, <3>2, <3>3 DEF Start
  <2>5. ASSUME NEW w \in Workers, Stop(w) PROVE Served'
    <3>1. Work(w) /\ pc[w] = "stop" /\ UNCHANGED <<of, alive, mon, crashed, report, astray>>
      BY <2>5 DEF Work, Stop
    <3>2. CASE procs[pot[w]] = NoProc
      <4>1. UNCHANGED <<procs, stopping, asked>> /\ AfterStop(w)
        BY <2>5, <3>2 DEF Stop
      <4>2. pc'[w] \in {"idle", "start", "unrecord"}
        BY <3>1, <4>1 DEF AfterStop, Goto, Done, ManagerTyped, TypeOK, Engaged
      <4>. QED  BY <3>1, <4>1, <4>2, WorkStep, ServedByOthers
    <3>3. CASE procs[pot[w]] # NoProc
      <4>. DEFINE g == procs[pot[w]]
      <4>1. /\ pot[w] \in Pots /\ g \in Procs /\ g \in mon \ asked /\ of[g] = pot[w]
        BY <3>1, <3>3, WorkStep DEF TrackedIsMonitored, ManagerTyped, TypeOK
      <4>2. /\ procs' = [procs EXCEPT ![pot[w]] = NoProc]
            /\ stopping' = stopping \union {pot[w]} /\ asked' = asked \union {g}
            /\ target' = [target EXCEPT ![w] = g] /\ pc' = [pc EXCEPT ![w] = "wait"]
            /\ UNCHANGED pot
        BY <2>5, <3>3 DEF Stop
      <4>3. \A h \in mon \ astray : of[h] = pot[w] => h = g
        BY <4>1 DEF Served, Monitored
      <4>4. procs[pot[w]] = g
        OBVIOUS
      <4>. HIDE DEF g
      <4>5. Monitored'
        BY <3>1, <4>1, <4>2, <4>3 DEF Served, Monitored
      <4>6. Awaited'
        BY <3>1, <4>1, <4>2 DEF Served, Awaited, ManagerTyped, TypeOK
      <4>7. RunningIsTracked'
        <5>. SUFFICES ASSUME NEW h \in Running \ astray
             PROVE  procs'[of[h]] = h \/ \E v \in Workers : pc'[v] = "wait" /\ target'[v] = h
          BY <3>1 DEF RunningIsTracked, Running
        <5>1. CASE h = g
          BY <4>2, <5>1 DEF ManagerTyped, TypeOK
        <5>2. CASE h # g
          <6>1. of[h] # pot[w] /\ of[h] \in Pots
            BY <4>3, <5>2 DEF Served, Monitored, Running
          <6>2. CASE procs[of[h]] = h
            BY <4>2, <6>1, <6>2 DEF ManagerTyped, TypeOK
          <6>3. ASSUME NEW v \in Workers, pc[v] = "wait", target[v] = h
                PROVE  pc'[v] = "wait" /\ target'[v] = h
            BY <3>1, <4>2, <6>3 DEF ManagerTyped, TypeOK
          <6>. QED  BY <6>2, <6>3 DEF Served, RunningIsTracked
        <5>. QED  BY <5>1, <5>2
      <4>8. StopIsNotFailure' /\ CrashIsFailure'
        BY <3>1, <4>1, <4>2 DEF Served, Monitored, StopIsNotFailure, CrashIsFailure
      <4>. QED  BY <4>5, <4>6, <4>7, <4>8 DEF Served
    <3>. QED  BY <3>2, <3>3
  <2>6. ASSUME NEW w \in Workers, StopEnds(w) PROVE Served'
    <3>1. /\ Work(w) /\ pc[w] = "wait" /\ AfterStop(w) /\ alive' = alive \ {target[w]}
          /\ UNCHANGED <<procs, stopping, of, mon, asked, crashed, report, astray>>
      BY <2>6 DEF Work, StopEnds, tables
    <3>2. pc'[w] \in {"idle", "start", "unrecord"}
      BY <3>1 DEF AfterStop, Goto, Done, ManagerTyped, TypeOK, Engaged
    <3>3. Monitored' /\ StopIsNotFailure' /\ CrashIsFailure'
      BY <3>1 DEF Served, Monitored, StopIsNotFailure, CrashIsFailure
    <3>4. Awaited'
      BY <3>1, <3>2, WorkStep DEF Served, Awaited
    <3>5. RunningIsTracked'
      BY <3>1, WorkStep DEF Served, RunningIsTracked, Running
    <3>. QED  BY <3>3, <3>4, <3>5 DEF Served
  <2>7. ASSUME NEW g \in Procs, ProcessExit(g) PROVE Served'
    <3>1. /\ g \in alive /\ alive' = alive \ {g}
          /\ crashed' \in {crashed, crashed \union ({g} \ asked)}
          /\ UNCHANGED <<procs, stopping, pc, pot, kind, target, of, mon, asked, report, astray>>
      BY <2>7 DEF ProcessExit, tables, workers
    <3>2. Monitored' /\ StopIsNotFailure' /\ CrashIsFailure'
      BY <3>1 DEF Served, Monitored, StopIsNotFailure, CrashIsFailure
    <3>3. Awaited' /\ RunningIsTracked'
      BY <3>1 DEF Served, Awaited, RunningIsTracked, Running
    <3>. QED  BY <3>2, <3>3 DEF Served
  <2>8. ASSUME NEW g \in Procs, MonitorExit(g) PROVE Served'
    <3>1. /\ g \in mon \ alive /\ mon' = mon \ {g}
          /\ procs' = [procs EXCEPT ![of[g]] = NoProc] /\ stopping' = stopping \ {of[g]}
          /\ UNCHANGED <<pc, pot, kind, target, of, alive, asked, crashed, astray>>
      BY <2>8 DEF MonitorExit, workers
    <3>2. PICK r \in ExitReports(g) : report' = [report EXCEPT ![g] = r]
      BY <2>8 DEF MonitorExit
    <3>3. /\ g \in asked \ astray => r = "stopped"
          /\ g \in crashed \ (asked \union astray) => r = "failed"
      BY <3>1, <3>2 DEF ExitReports, Served, Monitored
    <3>4. \A h \in mon' \ astray : of[h] # of[g]
      BY <3>1 DEF Served, Monitored
    <3>5. Monitored'
      BY <3>1, <3>2, <3>4 DEF Served, Monitored, ManagerTyped, TypeOK
    <3>6. StopIsNotFailure' /\ CrashIsFailure'
      BY <3>1, <3>2, <3>3 DEF Served, StopIsNotFailure, CrashIsFailure, ManagerTyped, TypeOK
    <3>7. Awaited'
      BY <3>1 DEF Served, Awaited, ManagerTyped, TypeOK
    <3>8. RunningIsTracked'
      BY <3>1, <3>4 DEF Served, Monitored, RunningIsTracked, Running, ManagerTyped, TypeOK
    <3>. QED  BY <3>5, <3>6, <3>7, <3>8 DEF Served
  <2>9. CASE AgentRestart
    <3>1. /\ alive' \in {alive, {}} /\ mon' = {} /\ stopping' = {}
          /\ \A w \in Workers : pc'[w] = "idle"
          /\ UNCHANGED <<asked, crashed, report, astray>>
      BY <2>9 DEF AgentRestart
    <3>. QED
      BY <3>1 DEF Served, Monitored, Awaited, RunningIsTracked, Running, StopIsNotFailure,
                  CrashIsFailure
  <2>10. CASE UNCHANGED vars
    BY <2>10 DEF vars, tables, workers, processes, Served, Monitored, Awaited,
                 RunningIsTracked, Running, StopIsNotFailure, CrashIsFailure
  <2>. QED
    BY <2>1, <2>2, <2>3, <2>4, <2>5, <2>6, <2>7, <2>8, <2>9, <2>10 DEF Next, Work
<1>. QED  BY <1>1, <1>2, ManagerTypedInvariant, TableIsMonitored, PTL DEF Spec

\* No pot runs twice and none runs that a Stop could not find (manager.go:266),
\* whatever overlaps and crashes, but for processes started while the exit of an
\* earlier one was yet to be recorded.
THEOREM OneCopyOfEachPot ==
  ASSUME "late" \in Watched PROVE Spec => []OneTrackedProcess
<1>1. Served => OneTrackedProcess
  BY DEF Served, Monitored, OneTrackedProcess, OneLiveProcess, Running
<1>. QED  BY <1>1, ServedInvariant, PTL

\* An exit that was asked for is never reported as a failure, and a crash never
\* as a stop (manager.go:345, 66), whatever overlaps: the flag of one process answers
\* for another of the same pot only if that one was started before the exit of the
\* first had been recorded.
THEOREM ExitsAreTold ==
  ASSUME "late" \in Watched PROVE Spec => []ExitsAreJudged
<1>1. Served => ExitsAreJudged
  BY DEF Served, ExitsAreJudged
<1>. QED  BY <1>1, ServedInvariant, PTL

-----------------------------------------------------------------------------
(* The disk.                                                               *)

\* A step of a goroutine leaves the other pots, and who works on them, alone.
LEMMA OtherPots ==
  ASSUME ManagerTyped, NEW w \in Workers, Work(w), NEW p \in Pots, p # pot[w]
  PROVE  /\ files'[p] = files[p] /\ mfile'[p] = mfile[p] /\ met'[p] = met[p]
         /\ p \in manifest' <=> p \in manifest
         /\ \A v \in Workers : pot'[v] = p /\ pc'[v] # "idle" => pc'[v] = pc[v] /\ pot[v] = p
<1>1. /\ files'[p] = files[p] /\ mfile'[p] = mfile[p] /\ met'[p] = met[p]
      /\ p \in manifest' <=> p \in manifest
  <2>. USE DEF ManagerTyped, TypeOK
  <2>1. CASE Install(w)
    BY <2>1 DEF Install, InstallStat, InstallClean, InstallMkdir, Clone, InstallFails, SetUp,
                SaveManifest, Record, RemoveDir, RemoveFails, Meets, disk, tables
  <2>2. CASE Start(w) \/ Stop(w) \/ StopEnds(w)
    BY <2>2 DEF Start, Stop, StopEnds, disk, tables
  <2>3. CASE Unrecord(w) \/ Erase(w)
    BY <2>3 DEF Unrecord, Erase, RemoveDir, RemoveFails, Meets, disk, tables
  <2>. QED  BY <2>1, <2>2, <2>3 DEF Work
<1>. QED  BY <1>1, WorkStep

\* Beside a goroutine that installs or removes a pot, nobody else does: else the
\* overlap is written down.
LEMMA AloneOnDisk ==
  ASSUME ManagerTyped, Noted, NEW w \in Workers, Work(w),
         pc[w] \in InstallPc \union {"unrecord", "erase"}, "overlap" \notin met'[pot[w]],
         NEW v \in Workers \ {w}, pot'[v] = pot[w]
  PROVE  /\ pc'[v] = pc[v] /\ pot[v] = pot[w] /\ pc[v] \notin InstallPc \union {"unrecord", "erase"}
         /\ kind[w] = "remove" => pc[v] = "idle"
BY WorkStep DEF Noted, ManagerTyped, Engaged, InstallPc

\* What the stages of an install or a removal may rely on.
Stage(w) ==
  /\ pc[w] \in {"clean", "mkdir", "clone", "setup", "write"} => mfile[pot[w]] = "none"
  /\ pc[w] \in {"setup", "write"} => files[pot[w]] = "cloned"
  /\ pc[w] = "record" => mfile[pot[w]] = "whole"
  /\ pc[w] = "erase" => pot[w] \notin manifest

\* A manifest file stands in a complete directory, and what is recorded has one.
PotOnDisk(p) ==
  /\ files[p] = "absent" => mfile[p] = "none"
  /\ mfile[p] = "whole" => files[p] = "cloned"
  /\ p \in manifest => mfile[p] = "whole"
  /\ \A w \in Workers : pc[w] # "idle" /\ pot[w] = p => Stage(w)

OnDisk == \A p \in Pots : "overlap" \notin met[p] => PotOnDisk(p)

\* Without an overlap only one goroutine writes to the directory of a pot, so that
\* each stage of an install or a removal finds what the stage before left.
LEMMA OnDiskInvariant ==
  ASSUME "overlap" \in Watched PROVE Spec => []OnDisk
<1>1. Init => OnDisk
  BY DEF Init, OnDisk, PotOnDisk, Stage
<1>2. ASSUME ManagerTyped, Noted, OnDisk, [Next]_vars PROVE OnDisk'
  <2>. USE <1>2
  <2>1. ASSUME NEW w \in Workers, NEW k \in Kinds, NEW q \in Pots, Assign(w, k, q)
        PROVE  OnDisk'
    <3>1. /\ pc[w] = "idle" /\ pc'[w] \in {"stat", "start", "stop"} /\ pot'[w] = q
          /\ \A v \in Workers \ {w} : pc'[v] = pc[v] /\ pot'[v] = pot[v]
          /\ UNCHANGED <<files, mfile, manifest>>
      BY <2>1, PotAssumption
      DEF Assign, FirstStep, ManagerTyped, TypeOK, Commands, disk, tables
    <3>2. ASSUME NEW p \in Pots, "overlap" \notin met'[p] PROVE PotOnDisk(p)
      <4>1. CASE p = q /\ Fresh(k, q)
        BY <4>1 DEF Fresh, Busy, PotOnDisk, ManagerTyped, TypeOK
      <4>2. CASE ~(p = q /\ Fresh(k, q))
        <5>1. "overlap" \notin met[p]
          BY <2>1, <3>2, <4>2 DEF Assign, ManagerTyped, TypeOK
        <5>. QED  BY <5>1 DEF OnDisk
      <4>. QED  BY <4>1, <4>2
    <3>. QED  BY <3>1, <3>2 DEF OnDisk, PotOnDisk, Stage
  <2>2. ASSUME NEW w \in Workers, Work(w) PROVE OnDisk'
    <3>. SUFFICES ASSUME NEW p \in Pots, "overlap" \notin met'[p] PROVE PotOnDisk(p)'
      BY DEF OnDisk
    <3>1. PotOnDisk(p)
      BY <2>2, WorkStep DEF OnDisk
    <3>2. CASE p # pot[w]
      BY <2>2, <3>1, <3>2, OtherPots DEF PotOnDisk, Stage
    <3>3. CASE p = pot[w]
      <4>1. /\ pc[w] # "idle" /\ Stage(w) /\ pot[w] \in Pots
            /\ pc'[w] # "idle" => pot'[w] = pot[w]
            /\ \A v \in Workers \ {w} : pc'[v] = pc[v] /\ pot'[v] = pot[v]
        BY <2>2, <3>1, <3>3, WorkStep DEF PotOnDisk
      <4>2. CASE Start(w) \/ Stop(w) \/ StopEnds(w)
        <5>1. pc'[w] \in {"idle", "start", "wait", "unrecord"} /\ UNCHANGED <<files, mfile, manifest>>
          BY <4>2 DEF Start, Stop, StopEnds, AfterStop, Goto, Done, disk, tables, ManagerTyped,
                      TypeOK, Engaged
        <5>. QED  BY <3>1, <4>1, <5>1 DEF PotOnDisk, Stage
      <4>3. CASE Install(w) \/ Unrecord(w) \/ Erase(w)
        <5>1. pc[w] \in InstallPc \union {"unrecord", "erase"}
          BY <4>3 DEF Install, InstallStat, InstallClean, InstallMkdir, Clone, InstallFails,
                      SetUp, SaveManifest, Record, Unrecord, Erase, InstallPc
        <5>2. \A v \in Workers \ {w} : pot'[v] = p => pc'[v] \notin InstallPc \union {"erase"}
          BY <2>2, <3>3, <5>1, AloneOnDisk
        <5>. SUFFICES /\ (files[p] = "absent" => mfile[p] = "none")'
                      /\ (mfile[p] = "whole" => files[p] = "cloned")'
                      /\ (p \in manifest => mfile[p] = "whole")'
                      /\ pc'[w] # "idle" => Stage(w)'
          BY <5>2 DEF PotOnDisk, Stage, InstallPc
        <5>3. /\ files[p] = "absent" => mfile[p] = "none"
              /\ mfile[p] = "whole" => files[p] = "cloned"
              /\ p \in manifest => mfile[p] = "whole"
          BY <3>1 DEF PotOnDisk
        <5>. USE <3>3, <4>1, <5>3 DEF Stage, ManagerTyped, TypeOK
        <5>4. CASE InstallStat(w) \/ SetUp(w) \/ Record(w)
          BY <5>4 DEF InstallStat, SetUp, Record, InstallEnds, Goto, Done, disk, tables
        <5>5. CASE InstallClean(w) \/ InstallFails(w)
          BY <5>5 DEF InstallClean, InstallFails, RemoveDir, RemoveFails, Goto, Done, tables
        <5>6. CASE InstallMkdir(w) \/ Clone(w)
          BY <5>6 DEF InstallMkdir, Clone, Goto, Done, tables
        <5>7. CASE SaveManifest(w)
          BY <5>7 DEF SaveManifest, Goto, Done, tables
        <5>8. CASE Unrecord(w)
          BY <5>8 DEF Unrecord, Goto, Done, disk
        <5>9. CASE Erase(w)
          BY <5>9 DEF Erase, RemoveDir, RemoveFails, Done, tables
        <5>. QED  BY <4>3, <5>4, <5>5, <5>6, <5>7, <5>8, <5>9 DEF Install
      <4>. QED  BY <2>2, <4>2, <4>3 DEF Work
    <3>. QED  BY <3>2, <3>3
  <2>3. ASSUME NEW g \in Procs, ProcessExit(g) \/ MonitorExit(g) PROVE OnDisk'
    BY <2>3 DEF ProcessExit, MonitorExit, disk, tables, workers, OnDisk, PotOnDisk, Stage
  <2>4. CASE AgentRestart
    <3>1. /\ \A w \in Workers : pc'[w] = "idle"
          /\ UNCHANGED files /\ manifest' = LoadAll(mfile')
      BY <2>4 DEF AgentRestart
    <3>2. ASSUME NEW p \in Pots
          PROVE  /\ mfile'[p] = mfile[p] \/ (mfile'[p] = "torn" /\ files[p] # "absent")
                 /\ met[p] \subseteq met'[p]
      BY <2>4 DEF AgentRestart, ManagerTyped, TypeOK
    <3>. QED  BY <3>1, <3>2 DEF OnDisk, PotOnDisk, LoadAll
  <2>5. CASE UNCHANGED vars
    BY <2>5 DEF vars, disk, tables, workers, OnDisk, PotOnDisk, Stage
  <2>. QED  BY <2>1, <2>2, <2>3, <2>4, <2>5 DEF Next
<1>. QED  BY <1>1, <1>2, ManagerTypedInvariant, OverlapsAreNoted, PTL DEF Spec

\* A recorded pot has its files (manager.go:138), across failed installs, torn
\* manifest files, failing disks and restarts: only an install or a removal of the
\* pot that overlapped with another command can break it.
THEOREM RecordedIsComplete ==
  ASSUME "overlap" \in Watched PROVE Spec => []InstalledHasFiles
<1>1. ManagerTyped /\ OnDisk => InstalledHasFiles
  <2>. SUFFICES ASSUME ManagerTyped, OnDisk, NEW p \in manifest, "overlap" \notin met[p]
                PROVE  files[p] = "cloned" /\ mfile[p] = "whole"
    BY DEF InstalledHasFiles
  <2>1. p \in Pots
    BY DEF ManagerTyped, TypeOK
  <2>. QED  BY <2>1 DEF OnDisk, PotOnDisk
<1>. QED  BY <1>1, ManagerTypedInvariant, OnDiskInvariant, PTL

-----------------------------------------------------------------------------
(* Interrupted installs.                                                   *)

\* A manifest file belongs to a record, or to a goroutine on its way to write or to
\* erase one; a torn one comes from the disk, or from a death during the write.
Kept ==
  \A p \in Pots :
    /\ mfile[p] # "none" =>
         \/ p \in manifest
         \/ \E w \in Workers : pc[w] \in {"record", "erase"} /\ pot[w] = p
         \/ "disk" \in met[p]
    /\ mfile[p] = "torn" => "disk" \in met[p]

\* This needs no goroutine to be alone: whoever removes a file leaves none, and a
\* record is taken away by one that goes on to erase the file.
LEMMA KeptInvariant ==
  ASSUME "disk" \in Watched PROVE Spec => []Kept
<1>1. Init => Kept
  BY DEF Init, Kept
<1>2. ASSUME ManagerTyped, Kept, [Next]_vars PROVE Kept'
  <2>. USE <1>2 DEF Kept
  <2>1. ASSUME NEW w \in Workers, NEW k \in Kinds, NEW q \in Pots, Assign(w, k, q)
        PROVE  Kept'
    <3>1. /\ pc[w] = "idle" /\ UNCHANGED <<mfile, manifest>>
          /\ \A v \in Workers \ {w} : pc'[v] = pc[v] /\ pot'[v] = pot[v]
      BY <2>1 DEF Assign, disk, tables, ManagerTyped, TypeOK
    <3>2. ASSUME NEW p \in Pots, mfile[p] # "none", "disk" \in met[p] PROVE "disk" \in met'[p]
      BY <2>1, <3>2 DEF Assign, Fresh, ManagerTyped, TypeOK
    <3>. QED  BY <3>1, <3>2
  <2>2. ASSUME NEW w \in Workers, Work(w) PROVE Kept'
    <3>1. /\ \A p \in Pots : met[p] \subseteq met'[p]
          /\ pot[w] \in Pots
          /\ pc'[w] # "idle" => pot'[w] = pot[w]
          /\ \A v \in Workers \ {w} : pc'[v] = pc[v] /\ pot'[v] = pot[v]
      BY <2>2, WorkStep
    <3>2. SUFFICES
            /\ mfile'[pot[w]] # "none" =>
                 \/ pot[w] \in manifest'
                 \/ mfile[pot[w]] # "none" /\ pot[w] \notin manifest /\ pc[w] \notin {"record", "erase"}
                 \/ pc'[w] \in {"record", "erase"}
                 \/ "disk" \in met'[pot[w]]
            /\ mfile'[pot[w]] = "torn" => "disk" \in met'[pot[w]]
      <4>. SUFFICES ASSUME NEW p \in Pots
                    PROVE  /\ mfile'[p] # "none" =>
                                \/ p \in manifest'
                                \/ \E v \in Workers : pc'[v] \in {"record", "erase"} /\ pot'[v] = p
                                \/ "disk" \in met'[p]
                           /\ mfile'[p] = "torn" => "disk" \in met'[p]
        OBVIOUS
      <4>1. CASE p # pot[w]
        BY <2>2, <3>1, <4>1, OtherPots
      <4>2. CASE p = pot[w]
        BY <3>1, <3>2, <4>2
      <4>. QED  BY <4>1, <4>2
    <3>. USE <3>1 DEF ManagerTyped, TypeOK
    <3>3. CASE InstallStat(w) \/ SetUp(w) \/ Record(w) \/ Start(w)
      BY <3>3 DEF InstallStat, SetUp, Record, Start, disk, tables
    <3>4. CASE InstallClean(w) \/ InstallFails(w)
      BY <3>4 DEF InstallClean, InstallFails, RemoveDir, RemoveFails, tables
    <3>5. CASE InstallMkdir(w) \/ Clone(w)
      BY <3>5 DEF InstallMkdir, Clone, tables
    <3>6. CASE SaveManifest(w)
      BY <3>6 DEF SaveManifest, Goto, Meets, tables
    <3>7. CASE Stop(w) \/ StopEnds(w)
      BY <3>7 DEF Stop, StopEnds, disk, tables
    <3>8. CASE Unrecord(w)
      BY <3>8 DEF Unrecord, Goto, disk
    <3>9. CASE Erase(w)
      BY <3>9 DEF Erase, RemoveDir, RemoveFails, Meets, tables
    <3>. QED
      BY <2>2, <3>3, <3>4, <3>5, <3>6, <3>7, <3>8, <3>9 DEF Work, Install
  <2>3. ASSUME NEW g \in Procs, ProcessExit(g) \/ MonitorExit(g) PROVE Kept'
    BY <2>3 DEF ProcessExit, MonitorExit, disk, tables, workers
  <2>4. CASE AgentRestart
    <3>1. manifest' = LoadAll(mfile')
      BY <2>4 DEF AgentRestart
    <3>2. ASSUME NEW p \in Pots
          PROVE  /\ mfile'[p] = mfile[p] \/ (mfile'[p] = "torn" /\ "disk" \in met'[p])
                 /\ met[p] \subseteq met'[p]
      BY <2>4 DEF AgentRestart, ManagerTyped, TypeOK
    <3>. QED  BY <3>1, <3>2 DEF LoadAll, ManagerTyped, TypeOK
  <2>5. CASE UNCHANGED vars
    BY <2>5 DEF vars, disk, tables, workers
  <2>. QED  BY <2>1, <2>2, <2>3, <2>4, <2>5 DEF Next
<1>. QED  BY <1>1, <1>2, ManagerTypedInvariant, PTL DEF Spec

\* An install that was interrupted blocks no later one (manager.go:139), unless
\* the disk failed or the agent died in the middle of a write; this holds however
\* the commands on a pot overlap.
THEOREM InstallIsRepeatable ==
  ASSUME "disk" \in Watched PROVE Spec => []InstallCanBeRepeated
<1>1. Kept => InstallCanBeRepeated
  BY DEF Kept, InstallCanBeRepeated
<1>. QED  BY <1>1, KeptInvariant, PTL

-----------------------------------------------------------------------------
(* Removal.                                                                *)

\* The processes of this agent that a Start did not put beside a late exit.
Tracked == Running \ astray

\* While a goroutine removes a pot by itself, nothing is in the table once it has
\* taken the process, and nothing runs once it has waited for that.
Cleared ==
  \A w \in Workers : kind[w] = "remove" /\ "overlap" \notin met[pot[w]] =>
    /\ pc[w] = "wait" => procs[pot[w]] = NoProc
    /\ pc[w] \in {"unrecord", "erase"} => \A g \in Tracked : of[g] # pot[w]

\* A process that is tracked now was before, or a Start has just launched it.
LEMMA TrackedSteps ==
  ASSUME ManagerTyped, NEW w \in Workers, Work(w), NEW g \in Tracked'
  PROVE  \/ g \in Tracked /\ of'[g] = of[g]
         \/ Start(w) /\ pot[w] \in manifest /\ of'[g] = pot[w]
<1>. USE DEF Tracked, Running
<1>1. CASE Install(w) \/ Unrecord(w) \/ Erase(w)
  BY <1>1 DEF Install, InstallStat, InstallClean, InstallMkdir, Clone, InstallFails, SetUp,
              SaveManifest, Record, Unrecord, Erase, processes
<1>2. CASE Stop(w) \/ StopEnds(w)
  BY <1>2 DEF Stop, StopEnds
<1>3. CASE Start(w)
  BY <1>3 DEF Start, Launch, processes, ManagerTyped, TypeOK
<1>. QED  BY <1>1, <1>2, <1>3 DEF Work

\* A Start of the pot beside the removal would have been written down, so that what
\* runs is what the table names, or what the removal waits for.
LEMMA ClearedInvariant ==
  ASSUME "overlap" \in Watched, "late" \in Watched PROVE Spec => []Cleared
<1>1. Init => Cleared
  BY DEF Init, Cleared
<1>2. ASSUME ManagerTyped, ManagerTyped', Noted, Noted', Served, Cleared, [Next]_vars
      PROVE  Cleared'
  <2>. USE <1>2
  <2>1. ASSUME NEW w \in Workers, NEW k \in Kinds, NEW q \in Pots, Assign(w, k, q)
        PROVE  Cleared'
    <3>1. /\ pc[w] = "idle" /\ pc'[w] \in {"stat", "start", "stop"} /\ pot'[w] = q
          /\ \A v \in Workers \ {w} : pc'[v] = pc[v] /\ pot'[v] = pot[v] /\ kind'[v] = kind[v]
          /\ UNCHANGED <<procs, of, alive, mon, astray>>
      BY <2>1, PotAssumption
      DEF Assign, FirstStep, ManagerTyped, TypeOK, Commands, tables, processes
    <3>2. ASSUME NEW v \in Workers, pc[v] # "idle", "overlap" \notin met'[pot[v]]
          PROVE  "overlap" \notin met[pot[v]]
      BY <2>1, <3>2 DEF Assign, Fresh, Busy, ManagerTyped, TypeOK, Engaged
    <3>. QED  BY <3>1, <3>2 DEF Cleared, Tracked, Running
  <2>2. ASSUME NEW w \in Workers, Work(w) PROVE Cleared'
    <3>. SUFFICES ASSUME NEW v \in Workers, kind'[v] = "remove", pc'[v] # "idle",
                         "overlap" \notin met'[pot'[v]]
                  PROVE  /\ pc'[v] = "wait" => procs'[pot'[v]] = NoProc
                         /\ pc'[v] \in {"unrecord", "erase"} =>
                              \A g \in Tracked' : of'[g] # pot'[v]
      BY DEF Cleared
    <3>1. /\ pc[v] # "idle" /\ pot'[v] = pot[v] /\ kind[v] = "remove" /\ pot[v] \in Pots
          /\ "overlap" \notin met[pot[v]] /\ (v # w => pc'[v] = pc[v])
      BY <2>2, WorkStep DEF ManagerTyped, Engaged
    <3>2. /\ pc[v] = "wait" => procs[pot[v]] = NoProc
          /\ pc[v] \in {"unrecord", "erase"} => \A g \in Tracked : of[g] # pot[v]
      BY <3>1 DEF Cleared
    <3>3. CASE v # w
      <4>1. pot[w] # pot[v]
        BY <2>2, <3>1, <3>3, WorkStep DEF Noted
      <4>2. procs'[pot[v]] = procs[pot[v]]
        BY <2>2, <4>1, <3>1
        DEF Work, Install, InstallStat, InstallClean, InstallMkdir, Clone, InstallFails, SetUp,
            SaveManifest, Record, Start, Launch, Stop, StopEnds, Unrecord, Erase, tables,
            ManagerTyped, TypeOK
      <4>3. \A g \in Tracked' : of'[g] = pot[v] => g \in Tracked /\ of[g] = pot[v]
        BY <2>2, <4>1, TrackedSteps
      <4>. QED  BY <3>1, <3>2, <3>3, <4>2, <4>3
    <3>4. CASE v = w
      <4>1. CASE pc'[w] = "wait"
        BY <2>2, <3>1, <3>4, <4>1
        DEF Work, Install, InstallStat, InstallClean, InstallMkdir, Clone, InstallFails, SetUp,
            SaveManifest, Record, InstallEnds, Start, Stop, StopEnds, Unrecord, Erase, AfterStop,
            Goto, Done, ManagerTyped, TypeOK, Engaged
      <4>2. CASE pc'[w] = "erase"
        <5>1. pc[w] = "unrecord" /\ UNCHANGED <<of, alive, mon, astray>>
          BY <2>2, <3>1, <3>4, <4>2
          DEF Work, Install, InstallStat, InstallClean, InstallMkdir, Clone, InstallFails, SetUp,
              SaveManifest, Record, InstallEnds, Start, Stop, StopEnds, Unrecord, Erase, AfterStop,
              Goto, Done, processes, ManagerTyped, TypeOK, Engaged, InstallPc
        <5>. QED  BY <3>1, <3>2, <3>4, <4>2, <5>1 DEF Tracked, Running
      <4>3. CASE pc'[w] = "unrecord"
        <5>1. /\ \/ pc[w] = "stop" /\ procs[pot[w]] = NoProc /\ UNCHANGED alive
                 \/ pc[w] = "wait" /\ alive' = alive \ {target[w]}
              /\ UNCHANGED <<of, mon, astray>>
          BY <2>2, <3>1, <3>4, <4>3
          DEF Work, Install, InstallStat, InstallClean, InstallMkdir, Clone, InstallFails, SetUp,
              SaveManifest, Record, InstallEnds, Start, Stop, StopEnds, Unrecord, Erase, AfterStop,
              Goto, Done, ManagerTyped, TypeOK, Engaged, InstallPc
        <5>. SUFFICES ASSUME NEW g \in Tracked', of'[g] = pot[w] PROVE FALSE
          BY <3>1, <3>4, <4>3
        <5>2. g \in Running \ astray /\ of[g] = pot[w] /\ g \in alive'
          BY <5>1 DEF Tracked, Running
        <5>3. procs[pot[w]] = NoProc /\ g # NoProc
          BY <3>2, <3>4, <5>1, <5>2, PotAssumption DEF Running, ManagerTyped, TypeOK
        <5>4. PICK u \in Workers : pc[u] = "wait" /\ target[u] = g
          BY <5>2, <5>3 DEF Served, RunningIsTracked
        <5>5. pot[u] = pot[w]
          BY <5>2, <5>4 DEF Served, Awaited
        <5>6. u = w
          BY <3>1, <3>4, <5>4, <5>5 DEF Noted
        <5>. QED  BY <5>1, <5>2, <5>4, <5>6
      <4>. QED  BY <3>4, <4>1, <4>2, <4>3
    <3>. QED  BY <3>3, <3>4
  <2>3. ASSUME NEW g \in Procs, ProcessExit(g) \/ MonitorExit(g) PROVE Cleared'
    <3>1. /\ UNCHANGED <<pc, pot, kind, met, of, astray>>
          /\ alive' \subseteq alive /\ mon' \subseteq mon
          /\ procs' \in {procs, [procs EXCEPT ![of[g]] = NoProc]}
      BY <2>3 DEF ProcessExit, MonitorExit, workers, tables
    <3>2. \A w \in Workers :
            pc[w] = "wait" /\ procs[pot[w]] = NoProc => procs'[pot[w]] = NoProc
      BY <3>1 DEF ManagerTyped, TypeOK, Engaged
    <3>. QED  BY <3>1, <3>2 DEF Cleared, Tracked, Running
  <2>4. CASE AgentRestart
    BY <2>4 DEF AgentRestart, Cleared
  <2>5. CASE UNCHANGED vars
    BY <2>5 DEF vars, tables, workers, processes, Cleared, Tracked, Running
  <2>. QED  BY <2>1, <2>2, <2>3, <2>4, <2>5 DEF Next
<1>. QED
  BY <1>1, <1>2, ManagerTypedInvariant, OverlapsAreNoted, ServedInvariant, PTL DEF Spec

\* Of a pot that was reported removed, and that nothing else befell, nothing is left
\* that could come back.
PotForgotten(p) ==
  /\ p \notin manifest /\ mfile[p] # "whole"
  /\ \A g \in Tracked : of[g] # p
  /\ \A w \in Workers : pot[w] = p => pc[w] \notin InstallPc

Forgotten == \A p \in Pots : met[p] = {"removed"} => PotForgotten(p)

\* Remove reports when the process has ended, the record is gone and so is the
\* directory; only an install, which takes the note of the removal off, undoes that.
LEMMA ForgottenInvariant ==
  ASSUME Watched = Circumstances PROVE Spec => []Forgotten
<1>. USE DEF Circumstances
<1>1. Init => Forgotten
  BY DEF Init, Forgotten
<1>2. ASSUME ManagerTyped, Noted, OnDisk, Kept, Cleared, Forgotten, [Next]_vars
      PROVE  Forgotten'
  <2>. USE <1>2
  <2>1. ASSUME NEW w \in Workers, NEW k \in Kinds, NEW q \in Pots, Assign(w, k, q)
        PROVE  Forgotten'
    <3>1. /\ pot'[w] = q /\ (k # "install" => pc'[w] \notin InstallPc)
          /\ \A v \in Workers \ {w} : pc'[v] = pc[v] /\ pot'[v] = pot[v]
          /\ UNCHANGED <<mfile, manifest, of, alive, mon, astray>>
      BY <2>1, PotAssumption
      DEF Assign, FirstStep, ManagerTyped, TypeOK, Commands, disk, tables, processes, InstallPc
    <3>2. ASSUME NEW p \in Pots, met'[p] = {"removed"}
          PROVE  met[p] = {"removed"} /\ (p = q => k # "install")
      BY <2>1, <3>2 DEF Assign, Fresh, ManagerTyped, TypeOK
    <3>. QED  BY <3>1, <3>2 DEF Forgotten, PotForgotten, Tracked, Running
  <2>2. ASSUME NEW w \in Workers, Work(w) PROVE Forgotten'
    <3>. SUFFICES ASSUME NEW p \in Pots, met'[p] = {"removed"} PROVE PotForgotten(p)'
      BY DEF Forgotten
    <3>1. CASE p # pot[w]
      <4>1. PotForgotten(p)
        BY <2>2, <3>1, OtherPots DEF Forgotten
      <4>2. \A g \in Tracked' : of'[g] = p => g \in Tracked /\ of[g] = p
        BY <2>2, <3>1, TrackedSteps
      <4>. QED
        BY <2>2, <3>1, <4>1, <4>2, OtherPots DEF PotForgotten, InstallPc
    <3>2. CASE p = pot[w] /\ met[p] = {"removed"}
      <4>1. PotForgotten(p) /\ pc[w] \notin InstallPc
        BY <3>2 DEF Forgotten, PotForgotten
      <4>2. ~Install(w)
        BY <4>1 DEF Install, InstallStat, InstallClean, InstallMkdir, Clone, InstallFails, SetUp,
                    SaveManifest, Record, InstallPc
      <4>3. /\ p \notin manifest' /\ mfile'[p] # "whole"
            /\ pc'[w] \notin InstallPc
        <5>. USE <3>2, <4>1 DEF PotForgotten, ManagerTyped, TypeOK, InstallPc
        <5>1. CASE Start(w)
          BY <5>1 DEF Start, Done, disk
        <5>2. CASE Stop(w) \/ StopEnds(w)
          <6>1. pc'[w] \in {"idle", "start", "unrecord", "wait"} /\ UNCHANGED <<mfile, manifest>>
            BY <5>2 DEF Stop, StopEnds, AfterStop, Goto, Done, disk, tables, Engaged
          <6>. QED  BY <6>1
        <5>3. CASE Unrecord(w)
          BY <5>3 DEF Unrecord, Goto, Done, disk
        <5>4. CASE Erase(w)
          BY <5>4 DEF Erase, RemoveDir, RemoveFails, Done, tables
        <5>. QED  BY <2>2, <4>2, <5>1, <5>2, <5>3, <5>4 DEF Work
      <4>4. \A g \in Tracked' : of'[g] # p
        BY <2>2, <3>2, <4>1, TrackedSteps DEF PotForgotten
      <4>. QED  BY <2>2, <3>2, <4>1, <4>3, <4>4, WorkStep DEF PotForgotten
    <3>3. CASE p = pot[w] /\ met[p] # {"removed"}
      <4>1. /\ Unrecord(w) \/ Erase(w)
            /\ pc[w] \in {"unrecord", "erase"} /\ kind[w] = "remove"
        <5>1. met' # met
          BY <3>3 DEF ManagerTyped, TypeOK
        <5>2. ~SaveManifest(w)
          BY <3>3 DEF SaveManifest, Meets, ManagerTyped, TypeOK
        <5>3. Unrecord(w) \/ Erase(w)
          BY <2>2, <5>1, <5>2 DEF Work, Install, InstallStat, InstallClean, InstallMkdir, Clone,
                           InstallFails, SetUp, Record, Start, Stop, StopEnds
        <5>. QED  BY <5>1, <5>3 DEF Unrecord, Erase, ManagerTyped, Engaged
      <4>2. /\ "overlap" \notin met[p] /\ "disk" \notin met[p]
            /\ "overlap" \notin met'[p] /\ "disk" \notin met'[p]
        BY <2>2, WorkStep
      <4>3. \A v \in Workers \ {w} : pc[v] # "idle" => pot[v] # p
        BY <3>3, <4>1, <4>2 DEF Noted
      <4>4. p \notin manifest' /\ mfile'[p] # "whole" /\ pc'[w] = "idle"
        <5>1. CASE Unrecord(w)
          <6>1. /\ pot[w] \notin manifest /\ UNCHANGED <<mfile, manifest>> /\ pc'[w] = "idle"
                /\ pc[w] = "unrecord"
            BY <3>3, <5>1 DEF Unrecord, Done, disk, ManagerTyped, TypeOK
          <6>. QED  BY <3>3, <4>2, <4>3, <6>1 DEF Kept
        <5>2. CASE Erase(w)
          <6>1. mfile'[p] = "none"
            BY <3>3, <4>2, <5>2 DEF Erase, RemoveDir, Meets, ManagerTyped, TypeOK
          <6>2. p \notin manifest
            BY <3>3, <4>2, <5>2 DEF Erase, OnDisk, PotOnDisk, Stage
          <6>. QED  BY <5>2, <6>1, <6>2 DEF Erase, Done, tables, ManagerTyped, TypeOK
        <5>. QED  BY <4>1, <5>1, <5>2
      <4>5. \A g \in Tracked' : of'[g] # p
        <5>1. \A g \in Tracked : of[g] # p
          BY <3>3, <4>1, <4>2 DEF Cleared
        <5>2. UNCHANGED <<of, alive, mon, astray>>
          BY <4>1 DEF Unrecord, Erase, processes
        <5>. QED  BY <5>1, <5>2 DEF Tracked, Running
      <4>6. \A v \in Workers \ {w} : pot'[v] = p => pc'[v] \notin InstallPc
        BY <2>2, <4>3, WorkStep DEF InstallPc
      <4>. QED  BY <4>4, <4>5, <4>6 DEF PotForgotten, InstallPc
    <3>. QED  BY <3>1, <3>2, <3>3
  <2>3. ASSUME NEW g \in Procs, ProcessExit(g) \/ MonitorExit(g) PROVE Forgotten'
    BY <2>3 DEF ProcessExit, MonitorExit, disk, tables, workers, Forgotten, PotForgotten,
                Tracked, Running
  <2>4. CASE AgentRestart
    <3>1. ASSUME NEW p \in Pots, met'[p] = {"removed"}
          PROVE  met[p] = {"removed"} /\ mfile'[p] = mfile[p]
      <4>1. PICK torn \in SUBSET Pots :
              /\ mfile' = [q \in Pots |-> IF q \in torn THEN "torn" ELSE mfile[q]]
              /\ met' = [q \in Pots |-> IF q \in torn
                           THEN met[q] \union ({"disk"} \intersect Watched) ELSE met[q]]
        BY <2>4 DEF AgentRestart
      <4>2. CASE p \in torn
        <5>1. "disk" \in met'[p]
          BY <4>1, <4>2
        <5>. QED  BY <3>1, <5>1
      <4>3. CASE p \notin torn
        BY <3>1, <4>1, <4>3
      <4>. QED  BY <4>2, <4>3
    <3>. QED  BY <2>4, <3>1 DEF AgentRestart, LoadAll, Forgotten, PotForgotten, Tracked, Running,
                                InstallPc
  <2>5. CASE UNCHANGED vars
    BY <2>5 DEF vars, disk, tables, workers, processes, Forgotten, PotForgotten, Tracked, Running
  <2>. QED  BY <2>1, <2>2, <2>3, <2>4, <2>5 DEF Next
<1>3. Spec => []Noted /\ []OnDisk /\ []Kept /\ []Cleared
  <2>1. "overlap" \in Watched /\ "disk" \in Watched /\ "late" \in Watched
    OBVIOUS
  <2>. QED
    BY <2>1, OverlapsAreNoted, OnDiskInvariant, KeptInvariant, ClearedInvariant
<1>. QED  BY <1>1, <1>2, <1>3, ManagerTypedInvariant, PTL DEF Spec

\* A pot reported removed stays removed until it is installed again (manager.go:431),
\* across restarts of the agent and with every circumstance there is, but for a pot
\* whose removal overlapped with another command or met a failing disk, and for
\* processes started while the exit of an earlier one was yet to be recorded.
THEOREM RemovedIsRemoved ==
  ASSUME Watched = Circumstances PROVE Spec => []RemovedStaysRemoved
<1>1. Forgotten => RemovedStaysRemoved
  BY DEF Forgotten, PotForgotten, Tracked, RemovedStaysRemoved
<1>. QED  BY <1>1, ForgottenInvariant, PTL
=============================================================================
