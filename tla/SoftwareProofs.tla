---------------------------- MODULE SoftwareProofs ----------------------------
(***************************************************************************)
(* The safety properties of Software and of Cores, whatever the two        *)
(* versions are like, for any number of scripts, hooks, commands and       *)
(* faults, and any releases of a core.                                     *)
(***************************************************************************)
EXTENDS Software, TLAPS

-----------------------------------------------------------------------------
(* The cores.  An installer's file is renamed over the core only after it   *)
(* has run, and nobody else writes to it.                                   *)

CoresTyped == /\ core \in [Kind -> File] /\ pin \in Tag
              /\ job \in [Installer -> Job] /\ temp \in [Installer -> File]
SmokedRuns == \A i \in Installer : job[i].stage = "smoked" => Runs(temp[i])
CoresSound == CoresTyped /\ SmokedRuns

\* What may happen to the cores in one step of the system.
BotKilled == job' = Killed("bot") /\ UNCHANGED <<core, pin, temp>>
Rebooted == job' = [i \in Installer |-> Idle] /\ UNCHANGED <<core, pin, temp>>
Caller == \/ PostinstCore \/ (\E tag \in Tag : UpdateCore(tag)) \/ EnsureCore
          \/ cmdEnsureXrayCore \/ cmdEnsureNaiveCore
CoresMove == UNCHANGED coreVars \/ CoresStep \/ BotKilled \/ Rebooted \/ Caller

LEMMA IdleIsJob == Idle \in Job /\ Idle.stage = "idle"
BY TagAssumption DEF Idle, Job, Kind

LEMMA InitCores == CoresInit => CoresSound
<1> SUFFICES ASSUME CoresInit PROVE CoresSound
  OBVIOUS
<1>1. CoresTyped
  BY IdleIsJob, TagAssumption DEF CoresInit, CoresTyped, Kind, File
<1>2. \A i \in Installer : job[i].stage # "smoked"
  BY IdleIsJob DEF CoresInit
<1> QED BY <1>1, <1>2 DEF CoresSound, SmokedRuns

\* A job that moves on, without its file or with it.
LEMMA JobMoves ==
    ASSUME CoresSound, NEW i \in Installer, NEW entry \in Job, NEW file \in File,
           job' = [job EXCEPT ![i] = entry], temp' = [temp EXCEPT ![i] = file],
           entry.stage = "smoked" => Runs(file), core' \in [Kind -> File], pin' \in Tag
    PROVE  CoresSound'
<1>1. CoresTyped'
  BY DEF CoresSound, CoresTyped
<1>2. \A j \in Installer : job'[j].stage = "smoked" => Runs(temp'[j])
  BY DEF CoresSound, CoresTyped, SmokedRuns
<1> QED BY <1>1, <1>2 DEF CoresSound, SmokedRuns, Runs

LEMMA ToMoves ==
    ASSUME CoresSound, NEW i \in Installer,
           NEW stage \in {"idle", "sum", "body", "whole", "smoked", "opkg", "done"}, To(i, stage)
    PROVE  \E entry \in Job : entry.stage = stage /\ job' = [job EXCEPT ![i] = entry]
<1>1. job[i] \in Job
  BY DEF CoresSound, CoresTyped
<1> DEFINE entry == [job[i] EXCEPT !.stage = stage]
<1>2. entry \in Job /\ entry.stage = stage
  BY <1>1 DEF Job
<1>3. job' = [job EXCEPT ![i] = entry]
  BY DEF To
<1> QED BY <1>2, <1>3

LEMMA SameTemp ==
    ASSUME CoresSound, NEW i \in Installer
    PROVE  temp = [temp EXCEPT ![i] = temp[i]] /\ temp[i] \in File
BY DEF CoresSound, CoresTyped

LEMMA InstallerStepSound ==
    ASSUME CoresSound, NEW i \in Installer, InstallerStep(i) PROVE CoresSound'
<1>1. /\ job[i] \in Job /\ job[i].tag \in File /\ job[i].kind \in Kind /\ temp[i] \in File
      /\ NoCore \in File /\ PartOfFile \in File /\ Entware \in File
      /\ core \in [Kind -> File] /\ pin \in Tag /\ "xray" \in Kind
  BY DEF CoresSound, CoresTyped, Job, File, Kind
<1>2. CASE VendoredFails(i)
  <2>1. \/ To(i, "opkg") /\ temp' = [temp EXCEPT ![i] = NoCore]
        \/ To(i, "idle") /\ temp' = [temp EXCEPT ![i] = NoCore]
    BY <1>2 DEF VendoredFails, TempOf
  <2>2. UNCHANGED <<core, pin>>
    BY <1>2 DEF VendoredFails
  <2>3. PICK stage \in {"opkg", "idle"} : To(i, stage)
    BY <2>1
  <2>4. PICK entry \in Job : entry.stage = stage /\ job' = [job EXCEPT ![i] = entry]
    BY <2>3, ToMoves
  <2> QED BY <1>1, <2>1, <2>2, <2>4, JobMoves
<1>3. CASE FetchExpectedSum(i)
  <2>1. To(i, "body") /\ temp' = [temp EXCEPT ![i] = PartOfFile] /\ UNCHANGED <<core, pin>>
    BY <1>3 DEF FetchExpectedSum, TempOf
  <2>2. PICK entry \in Job : entry.stage = "body" /\ job' = [job EXCEPT ![i] = entry]
    BY <2>1, ToMoves
  <2> QED BY <1>1, <2>1, <2>2, JobMoves
<1>4. CASE DownloadVerified(i)
  <2>1. To(i, "whole") /\ temp' = [temp EXCEPT ![i] = job[i].tag] /\ UNCHANGED <<core, pin>>
    BY <1>4 DEF DownloadVerified, TempOf
  <2>2. PICK entry \in Job : entry.stage = "whole" /\ job' = [job EXCEPT ![i] = entry]
    BY <2>1, ToMoves
  <2> QED BY <1>1, <2>1, <2>2, JobMoves
<1>5. CASE Smoke(i)
  <2>1. Runs(temp[i]) /\ To(i, "smoked") /\ UNCHANGED <<core, pin, temp>>
    BY <1>5 DEF Smoke, TempOf
  <2> QED BY <1>1, <2>1, ToMoves, SameTemp, JobMoves
<1>6. CASE Rename(i)
  <2>1. core' \in [Kind -> File]
    BY <1>1, <1>6 DEF Rename, TempOf
  <2>2. /\ temp' = [temp EXCEPT ![i] = NoCore] /\ pin' = pin
        /\ To(i, "done") \/ To(i, "idle")
    BY <1>6 DEF Rename, TempOf
  <2> QED BY <1>1, <2>1, <2>2, ToMoves, JobMoves
<1>7. CASE OpkgInstallCore(i)
  <2>1. core' \in [Kind -> File]
    BY <1>1, <1>7 DEF OpkgInstallCore
  <2>2. To(i, "idle") /\ UNCHANGED <<pin, temp>>
    BY <1>7 DEF OpkgInstallCore
  <2> QED BY <1>1, <2>1, <2>2, ToMoves, SameTemp, JobMoves
<1> QED BY <1>2, <1>3, <1>4, <1>5, <1>6, <1>7 DEF InstallerStep

LEMMA EnsureSound ==
    ASSUME CoresSound, NEW i \in Installer, NEW k \in Kind, NEW tag \in Tag, NEW force \in BOOLEAN,
           NEW prefer \in {"auto", "vendored", "entware"}, Ensure(i, k, tag, force, prefer), pin' \in Tag
    PROVE  CoresSound'
<1> DEFINE entry == [stage |-> IF prefer = "entware" THEN "opkg" ELSE "sum",
                     kind |-> k, tag |-> tag, prefer |-> prefer]
<1>1. entry \in Job /\ entry.stage # "smoked"
  BY DEF Job
<1>2. core' \in [Kind -> File] /\ UNCHANGED temp
  BY DEF Ensure, CoresSound, CoresTyped
<1>3. CASE UNCHANGED job
  BY <1>2, <1>3 DEF CoresSound, CoresTyped, SmokedRuns, Runs
<1>4. CASE job' = [job EXCEPT ![i] = entry]
  <2> HIDE DEF entry
  <2> QED BY <1>1, <1>2, <1>4, SameTemp, JobMoves
<1> QED BY <1>3, <1>4 DEF Ensure

LEMMA CallerSound == ASSUME CoresSound, Caller PROVE CoresSound'
<1>1. /\ pin \in Tag /\ DefaultTag \in Tag /\ "xray" \in Kind /\ "naive" \in Kind
      /\ "bot" \in Installer /\ "postinst" \in Installer /\ "cli" \in Installer
  BY TagAssumption DEF CoresSound, CoresTyped, Kind, Installer
<1>2. CASE PostinstCore
  BY <1>1, <1>2, EnsureSound DEF PostinstCore
<1>3. CASE \E tag \in Tag : UpdateCore(tag)
  BY <1>1, <1>3, EnsureSound DEF UpdateCore
<1>4. CASE EnsureCore
  BY <1>1, <1>4, EnsureSound DEF EnsureCore
<1>5. CASE cmdEnsureXrayCore
  <2>1. PICK prefer \in {"auto", "entware"} :
           \/ Ensure("cli", "xray", pin, FALSE, prefer) /\ UNCHANGED pin
           \/ \E tag \in Tag : pin' = tag /\ Ensure("cli", "xray", tag, TRUE, prefer)
    BY <1>5 DEF cmdEnsureXrayCore
  <2>2. prefer \in {"auto", "vendored", "entware"}
    OBVIOUS
  <2> QED BY <1>1, <2>1, <2>2, EnsureSound
<1>6. CASE cmdEnsureNaiveCore
  BY <1>1, <1>6, EnsureSound DEF cmdEnsureNaiveCore
<1> QED BY <1>2, <1>3, <1>4, <1>5, <1>6 DEF Caller

LEMMA CoresStaySound == ASSUME CoresSound, CoresMove PROVE CoresSound'
<1>1. CASE UNCHANGED coreVars
  BY <1>1 DEF coreVars, CoresSound, CoresTyped, SmokedRuns, Runs
<1>2. CASE UpdateCoreSaves
  <2>1. "bot" \in Installer /\ To("bot", "idle") /\ UNCHANGED <<core, temp>>
    BY <1>2 DEF UpdateCoreSaves, Installer
  <2>2. pin' \in Tag /\ core' \in [Kind -> File]
    BY <1>2, <2>1 DEF UpdateCoreSaves, CoresSound, CoresTyped, Job
  <2> QED BY <2>1, <2>2, ToMoves, SameTemp, JobMoves
<1>3. CASE BotKilled
  <2>1. "bot" \in Installer /\ job' = [job EXCEPT !["bot"] = Idle]
    BY <1>3 DEF BotKilled, Killed, Installer
  <2>2. UNCHANGED <<core, pin, temp>> /\ pin \in Tag /\ core \in [Kind -> File]
    BY <1>3 DEF BotKilled, CoresSound, CoresTyped
  <2> QED BY <2>1, <2>2, IdleIsJob, SameTemp, JobMoves
<1>4. CASE Rebooted
  <2>1. CoresTyped'
    BY <1>4, IdleIsJob DEF Rebooted, CoresSound, CoresTyped
  <2>2. \A i \in Installer : job'[i].stage # "smoked"
    BY <1>4, IdleIsJob DEF Rebooted
  <2> QED BY <2>1, <2>2 DEF CoresSound, SmokedRuns
<1> QED BY <1>1, <1>2, <1>3, <1>4, InstallerStepSound, CallerSound DEF CoresMove, CoresStep
LEMMA CoresKeepRunning ==
    ASSUME CoresSound, CoresMove, NEW k \in Kind, Runs(core[k])
    PROVE  \/ Runs(core'[k])
           \/ \E i \in Installer : job[i].stage = "opkg" /\ job'[i].stage = "idle"
<1>1. CASE UNCHANGED core
  BY <1>1 DEF Runs
<1>2. ASSUME NEW i \in Installer, Rename(i) PROVE Runs(core'[k])
  <2>1. Runs(temp[i])
    BY <1>2 DEF Rename, CoresSound, SmokedRuns
  <2>2. core' = [core EXCEPT ![job[i].kind] = temp[i]] /\ core \in [Kind -> File]
    BY <1>2 DEF Rename, TempOf, CoresSound, CoresTyped
  <2>3. core'[k] = core[k] \/ core'[k] = temp[i]
    BY <2>2
  <2> QED BY <2>1, <2>3 DEF Runs
<1>3. ASSUME NEW i \in Installer, OpkgInstallCore(i)
      PROVE  job[i].stage = "opkg" /\ job'[i].stage = "idle"
  <2>1. job[i].stage = "opkg" /\ To(i, "idle")
    BY <1>3 DEF OpkgInstallCore
  <2> QED BY <2>1 DEF To, CoresSound, CoresTyped, Job
<1>4. ASSUME NEW i \in Installer, VendoredFails(i) \/ FetchExpectedSum(i) \/ DownloadVerified(i) \/ Smoke(i)
      PROVE  UNCHANGED core
  BY <1>4 DEF VendoredFails, FetchExpectedSum, DownloadVerified, Smoke
<1>5. UNCHANGED coreVars \/ UpdateCoreSaves \/ BotKilled \/ Rebooted \/ Caller => UNCHANGED core
  BY DEF coreVars, UpdateCoreSaves, BotKilled, Rebooted, Caller, PostinstCore, UpdateCore, EnsureCore,
         cmdEnsureXrayCore, cmdEnsureNaiveCore, Ensure
<1> QED BY <1>1, <1>2, <1>3, <1>4, <1>5 DEF CoresMove, CoresStep, InstallerStep

-----------------------------------------------------------------------------
(* What the steps of the system do to the cores. *)

LEMMA StepMovesCores == [Next]_vars => CoresMove
<1> SUFFICES ASSUME [Next]_vars PROVE CoresMove
  OBVIOUS
<1> USE DEF CoresMove
<1>1. CASE SelfUpdate \/ Chain
  BY <1>1 DEF SelfUpdate, Chain, ChainFails, ChainInstalls
<1>2. CASE Opkg
  BY <1>2 DEF Opkg, Prerm, Files, PostinstEnsuresCore, PostinstSetup, PostinstStart, Down, BotKilled, Caller
<1>3. CASE Daemon
  BY <1>3 DEF Daemon, AgentStarts, Confirm, WindowOver, DaemonDies, Down, BotKilled
<1>4. CASE Tick
  BY <1>4 DEF Tick
<1>5. CASE SelfRollback \/ WatchdogSwitch \/ OperatorStarts
  BY <1>5 DEF SelfRollback, WatchdogSwitch, OperatorStarts
<1>6. CASE CoreCommand
  BY <1>6 DEF CoreCommand, Caller
<1>7. CASE Faults
  BY <1>7 DEF Faults, Reboot, OpkgFails, FetchFails, HookKilled, Rebooted
<1>8. CASE \E p \in Proc : ProcStep(p)
  BY <1>8 DEF ProcStep, FirstLook, SecondLook, Rollback, Fetched, InstallIPK, Installed,
              writeAutoRollbackNotice, execInitStart, ScriptRollback
<1>9. CASE CoresStep
  BY <1>9
<1>10. CASE UNCHANGED vars
  BY <1>10 DEF vars
<1> QED BY <1>1, <1>2, <1>3, <1>4, <1>5, <1>6, <1>7, <1>8, <1>9, <1>10 DEF Next, Operator

LEMMA AlwaysSound == Spec => []CoresSound
<1>1. Init => CoresSound
  BY InitCores DEF Init
<1>2. CoresSound /\ [Next]_vars => CoresSound'
  BY StepMovesCores, CoresStaySound
<1> QED BY <1>1, <1>2, PTL DEF Spec

\* However installers overlap and die, a core that runs gives way only to one that has been run,
\* or to opkg (installVendored and Ensure, xraycore.go and naivecore.go).
THEOREM RunningCoreStays == Spec => CoreKeepsRunning
<1> DEFINE A == \A k \in Kind : Runs(core[k]) =>
                   \/ Runs(core'[k])
                   \/ \E i \in Installer : job[i].stage = "opkg" /\ job'[i].stage = "idle"
<1>1. CoresSound /\ [Next]_vars => [A]_coreVars
  BY StepMovesCores, CoresKeepRunning
<1> QED BY <1>1, AlwaysSound, PTL DEF Spec, CoreKeepsRunning
-----------------------------------------------------------------------------
(* Types. *)

ProcRecord == [kind: {"none", "hook", "cli", "shell"}, prev: 0 .. 2, late: BOOLEAN, stage: ProcStage,
               doubt: BOOLEAN]
OpkgRecord == [by: {"nobody", "chain"} \cup Proc, ver: Version,
               stage: {"prerm", "files", "core", "setup", "start"}]
DaemonRecord == [ver: 0 .. 2, watch: {"off", "look", "watching"}]

ProcTyped == proc \in [Proc -> ProcRecord]
OpkgTyped == opkg \in OpkgRecord /\ fetching \in Nat
DaemonTyped == daemon \in DaemonRecord /\ inst \in Version /\ health \in Healths
MarkerTyped == marker \in 0 .. 2 /\ ipk \in 0 .. 3
ClockTyped == age \in 0 .. AgeLimit /\ lock \in 0 .. Unlocked /\ span \in Nat
Typed == ProcTyped /\ OpkgTyped /\ DaemonTyped /\ MarkerTyped /\ ClockTyped

LEMMA InitTyped == Init => Typed
BY SoftwareBounds DEF Init, Typed, ProcTyped, OpkgTyped, DaemonTyped, MarkerTyped, ClockTyped, ProcRecord,
   OpkgRecord, DaemonRecord, NoProc, NoOpkg, ProcStage, Unlocked, Version

\* The processes of the watchdog.
LEMMA OneProcMoves ==
    ASSUME ProcTyped, NEW p \in Proc, NEW stage \in ProcStage
    PROVE  [proc EXCEPT ![p].stage = stage] \in [Proc -> ProcRecord]
BY DEF ProcTyped, ProcRecord

LEMMA ProcGoesOn ==
    ASSUME ProcTyped, NEW p \in Proc, NEW stage \in ProcStage, OnTo(p, stage) PROVE ProcTyped'
BY OneProcMoves DEF OnTo, ProcTyped

LEMMA ProcGoesFor ==
    ASSUME ProcTyped, NEW p \in Proc, NEW stage \in ProcStage, NEW prev \in 0 .. 2,
           NEW kind \in {"none", "hook", "cli", "shell"},
           proc' = [proc EXCEPT ![p] = [proc[p] EXCEPT !.kind = kind, !.stage = stage, !.prev = prev]]
    PROVE  ProcTyped'
<1>1. [proc[p] EXCEPT !.kind = kind, !.stage = stage, !.prev = prev] \in ProcRecord
  BY DEF ProcTyped, ProcRecord
<1> QED BY <1>1 DEF ProcTyped

LEMMA NoProcTyped == NoProc \in ProcRecord
BY DEF NoProc, ProcRecord, ProcStage

LEMMA ProcBegins ==
    ASSUME NEW kind \in {"none", "hook", "cli", "shell"}, NEW stage \in ProcStage
    PROVE  [NoProc EXCEPT !.kind = kind, !.stage = stage] \in ProcRecord
BY NoProcTyped DEF ProcRecord

LEMMA ProcIsReplaced ==
    ASSUME ProcTyped, NEW p \in Proc, NEW entry \in ProcRecord, proc' = [proc EXCEPT ![p] = entry]
    PROVE  ProcTyped'
BY DEF ProcTyped

LEMMA Stages ==
    /\ "look" \in ProcStage /\ "sleep" \in ProcStage /\ "rollback" \in ProcStage
    /\ "fetch" \in ProcStage /\ "verify" \in ProcStage /\ "opkg" \in ProcStage
    /\ "clear" \in ProcStage /\ "notice" \in ProcStage /\ "start" \in ProcStage
    /\ "script" \in ProcStage
BY DEF ProcStage

LEMMA ProcStepTyped == ASSUME Typed, NEW p \in Proc, ProcStep(p) PROVE ProcTyped'
<1>1. ProcTyped /\ proc[p] \in ProcRecord /\ marker \in 0 .. 2
  BY DEF Typed, ProcTyped, MarkerTyped
<1>2. Ends(p) => ProcTyped'
  BY <1>1, NoProcTyped, ProcIsReplaced DEF Ends
<1>3. CASE FirstLook(p)
  <2>1. \/ OnTo(p, "script") \/ OnTo(p, "start") \/ Ends(p)
        \/ proc' = [proc EXCEPT ![p].stage = "sleep", ![p].prev = marker]
    BY <1>3 DEF FirstLook
  <2>2. CASE proc' = [proc EXCEPT ![p].stage = "sleep", ![p].prev = marker]
    <3>1. proc[p].kind \in {"none", "hook", "cli", "shell"}
      BY <1>1 DEF ProcRecord
    <3>2. proc' = [proc EXCEPT ![p] = [proc[p] EXCEPT !.kind = proc[p].kind, !.stage = "sleep", !.prev = marker]]
      BY <1>1, <2>2 DEF ProcTyped, ProcRecord
    <3> QED BY <1>1, <3>1, <3>2, Stages, ProcGoesFor
  <2> QED BY <1>1, <1>2, <2>1, <2>2, Stages, ProcGoesOn
<1>4. CASE SecondLook(p)
  BY <1>1, <1>2, <1>4, Stages, ProcGoesOn DEF SecondLook
<1>5. CASE Rollback(p)
  <2>0. PICK doubt \in BOOLEAN : doubt = (~ confirmed \/ marker = inst)
    OBVIOUS
  <2>1. \/ OnTo(p, "start")
        \/ proc' = [proc EXCEPT ![p].stage = "fetch", ![p].prev = marker, ![p].doubt = doubt]
    BY <1>5, <2>0 DEF Rollback, RollbackTarget
  <2>2. CASE proc' = [proc EXCEPT ![p].stage = "fetch", ![p].prev = marker, ![p].doubt = doubt]
    <3>1. [proc[p] EXCEPT !.stage = "fetch", !.prev = marker, !.doubt = doubt] \in ProcRecord
      BY <1>1, Stages DEF ProcRecord
    <3>2. proc' = [proc EXCEPT ![p] = [proc[p] EXCEPT !.stage = "fetch", !.prev = marker, !.doubt = doubt]]
      BY <1>1, <2>2 DEF ProcTyped, ProcRecord
    <3> QED BY <1>1, <3>1, <3>2, ProcIsReplaced
  <2> QED BY <1>1, <2>1, <2>2, Stages, ProcGoesOn
<1>6. CASE Fetched(p)
  BY <1>1, <1>6, Stages, ProcGoesOn DEF Fetched
<1>7. CASE InstallIPK(p)
  <2>1. OnTo(p, "opkg") \/ OnTo(p, "start")
    BY <1>7 DEF InstallIPK
  <2> QED BY <1>1, <2>1, Stages, ProcGoesOn
<1>8. CASE Installed(p)
  <2>1. OnTo(p, "notice") \/ OnTo(p, "start")
    BY <1>8 DEF Installed
  <2> QED BY <1>1, <2>1, Stages, ProcGoesOn
<1>9. CASE writeAutoRollbackNotice(p) \/ execInitStart(p)
  BY <1>1, <1>2, <1>9, Stages, ProcGoesOn DEF writeAutoRollbackNotice, execInitStart
<1>10. CASE ScriptRollback(p)
  <2>1. Ends(p) \/ proc' = [proc EXCEPT ![p].kind = "shell", ![p].stage = "fetch", ![p].prev = marker]
    BY <1>10 DEF ScriptRollback
  <2>2. CASE proc' = [proc EXCEPT ![p].kind = "shell", ![p].stage = "fetch", ![p].prev = marker]
    <3>1. proc' = [proc EXCEPT ![p] = [proc[p] EXCEPT !.kind = "shell", !.stage = "fetch", !.prev = marker]]
      BY <1>1, <2>2 DEF ProcTyped, ProcRecord
    <3> QED BY <1>1, <3>1, Stages, ProcGoesFor
  <2> QED BY <1>2, <2>1, <2>2
<1> QED BY <1>3, <1>4, <1>5, <1>6, <1>7, <1>8, <1>9, <1>10 DEF ProcStep

LEMMA TickTyped == ASSUME Typed, Tick PROVE ProcTyped'
<1> DEFINE aged == [p \in Proc |-> [proc[p] EXCEPT !.late = ~ Free(p)]]
<1>1. \A p \in Proc : [proc[p] EXCEPT !.late = ~ Free(p)] \in ProcRecord
  BY DEF Typed, ProcTyped, ProcRecord, Free
<1>2. aged \in [Proc -> ProcRecord]
  BY <1>1
<1>3. [NoProc EXCEPT !.kind = "hook", !.stage = "look"] \in ProcRecord
  BY Stages, ProcBegins
<1>4. proc' = aged \/ \E p \in Proc : proc' = [aged EXCEPT ![p] = [NoProc EXCEPT !.kind = "hook", !.stage = "look"]]
  BY DEF Tick
<1> HIDE DEF aged
<1> QED BY <1>2, <1>3, <1>4 DEF ProcTyped

\* opkg returns to the run that called it, or to a chain.
LEMMA ReturnsTyped ==
    ASSUME ProcTyped, NEW then \in ProcStage, OpkgReturns(then)
    PROVE  proc' \in [Proc -> ProcRecord]
<1>1. CASE opkg.by = "chain"
  BY <1>1 DEF OpkgReturns, ProcTyped
<1>2. CASE opkg.by # "chain"
  <2>1. proc' = [proc EXCEPT ![opkg.by].stage = IF @ = "opkg" THEN then ELSE @]
    BY <1>2 DEF OpkgReturns
  <2>2. CASE opkg.by \in Proc
    <3>1. PICK stage \in ProcStage : stage = IF proc[opkg.by].stage = "opkg" THEN then ELSE proc[opkg.by].stage
      BY <2>2 DEF ProcTyped, ProcRecord
    <3>2. proc' = [proc EXCEPT ![opkg.by].stage = stage]
      BY <2>1, <3>1
    <3> QED BY <2>2, <3>2, OneProcMoves
  <2>3. CASE opkg.by \notin Proc
    BY <2>1, <2>3 DEF ProcTyped
  <2> QED BY <2>2, <2>3
<1> QED BY <1>1, <1>2

LEMMA NextProcTyped == ASSUME Typed, [Next]_vars PROVE ProcTyped'
<1>1. ProcTyped
  BY DEF Typed
<1>2. CASE SelfUpdate \/ Chain \/ Daemon \/ WatchdogSwitch \/ OperatorStarts \/ CoreCommand
           \/ (CoresStep /\ UNCHANGED upVars) \/ UNCHANGED vars
  <2>1. UNCHANGED proc
    BY <1>2 DEF SelfUpdate, Chain, ChainFails, ChainInstalls, Daemon, AgentStarts, Confirm, WindowOver, DaemonDies,
       WatchdogSwitch, OperatorStarts, CoreCommand, upVars, vars
  <2> QED BY <1>1, <2>1 DEF ProcTyped
<1>3. CASE Opkg
  <2>1. Prerm \/ Files \/ PostinstEnsuresCore \/ PostinstSetup => UNCHANGED proc
    BY DEF Prerm, Files, PostinstEnsuresCore, PostinstSetup
  <2>2. PostinstStart => proc' \in [Proc -> ProcRecord]
    BY <1>1, Stages, ReturnsTyped DEF PostinstStart
  <2> QED BY <1>1, <1>3, <2>1, <2>2 DEF Opkg, ProcTyped
<1>4. CASE SelfRollback
  <2>1. [NoProc EXCEPT !.kind = "cli", !.stage = "rollback"] \in ProcRecord
    BY Stages, ProcBegins
  <2> QED BY <1>1, <1>4, <2>1, ProcIsReplaced DEF SelfRollback
<1>5. CASE Faults
  <2>1. Reboot \/ OpkgFails => proc' \in [Proc -> ProcRecord]
    BY <1>1, Stages, NoProcTyped, ReturnsTyped DEF Reboot, OpkgFails
  <2>2. ASSUME NEW p \in Proc, FetchFails(p) \/ HookKilled(p) PROVE ProcTyped'
    <3>1. OnTo(p, "start") \/ OnTo(p, "script")
      BY <2>2 DEF FetchFails, HookKilled
    <3> QED BY <1>1, <3>1, Stages, ProcGoesOn
  <2> QED BY <1>5, <2>1, <2>2 DEF Faults, ProcTyped
<1> QED BY <1>2, <1>3, <1>4, <1>5, ProcStepTyped, TickTyped DEF Next, Operator
LEMMA NextOpkgTyped == ASSUME Typed, [Next]_vars PROVE OpkgTyped'
<1>1. opkg \in OpkgRecord /\ fetching \in Nat /\ inst \in Version
  BY DEF Typed, OpkgTyped, DaemonTyped
<1>2. \A stage \in {"prerm", "files", "core", "setup", "start"} :
         OpkgTo(stage) => opkg' \in OpkgRecord
  BY <1>1 DEF OpkgTo, OpkgRecord
<1>3. CASE SelfUpdate \/ ChainFails
  <2>1. UNCHANGED opkg /\ fetching' \in Nat
    BY <1>1, <1>3 DEF SelfUpdate, ChainFails
  <2> QED BY <1>1, <2>1 DEF OpkgTyped
<1>4. CASE ChainInstalls
  <2>1. opkg' = [by |-> "chain", stage |-> "prerm", ver |-> 2] /\ fetching' \in Nat
    BY <1>1, <1>4 DEF ChainInstalls
  <2> QED BY <2>1 DEF OpkgTyped, OpkgRecord, Version
<1>5. CASE Prerm \/ Files \/ PostinstEnsuresCore \/ PostinstSetup
  <2>1. UNCHANGED fetching
    BY <1>5 DEF Prerm, Files, PostinstEnsuresCore, PostinstSetup, update, chains
  <2>2. OpkgTo("files") \/ OpkgTo("core") \/ OpkgTo("setup") \/ OpkgTo("start")
    BY <1>5 DEF Prerm, Files, PostinstEnsuresCore, PostinstSetup
  <2> QED BY <1>1, <1>2, <2>1, <2>2 DEF OpkgTyped
<1>6. CASE PostinstStart \/ OpkgFails
  <2>1. NoOpkg \in OpkgRecord
    BY DEF NoOpkg, OpkgRecord, Version
  <2>2. opkg' = NoOpkg /\ fetching' = fetching
    BY <1>6 DEF PostinstStart, OpkgFails, OpkgReturns
  <2> QED BY <1>1, <2>1, <2>2 DEF OpkgTyped
<1>7. CASE \E p \in Proc : ProcStep(p)
  <2>1. PICK p \in Proc : ProcStep(p)
    BY <1>7
  <2>2. fetching' = fetching
    BY <2>1 DEF ProcStep, FirstLook, SecondLook, Rollback, Fetched, InstallIPK, Installed,
                writeAutoRollbackNotice, execInitStart, ScriptRollback, update, chains
  <2>3. CASE InstallIPK(p) /\ opkg' # opkg
    <3>1. PICK file \in Version : opkg' = [by |-> p, stage |-> "prerm", ver |-> file]
      BY <2>3 DEF InstallIPK
    <3> QED BY <1>1, <2>2, <3>1 DEF OpkgTyped, OpkgRecord
  <2>4. CASE ~ InstallIPK(p) \/ opkg' = opkg
    <3>1. opkg' = opkg
      BY <2>1, <2>4 DEF ProcStep, FirstLook, SecondLook, Rollback, Fetched, Installed,
                writeAutoRollbackNotice, execInitStart, ScriptRollback
    <3> QED BY <1>1, <2>2, <3>1 DEF OpkgTyped
  <2> QED BY <2>3, <2>4
<1>8. CASE Daemon \/ Tick \/ SelfRollback \/ WatchdogSwitch \/ OperatorStarts \/ CoreCommand \/ Reboot
           \/ (\E p \in Proc : FetchFails(p) \/ HookKilled(p))
           \/ (CoresStep /\ UNCHANGED upVars) \/ UNCHANGED vars
  <2>1. UNCHANGED opkg /\ fetching' \in {fetching, 0}
    BY <1>8 DEF Daemon, AgentStarts, Confirm, WindowOver, DaemonDies, Tick, SelfRollback, WatchdogSwitch,
       OperatorStarts, CoreCommand, Reboot, FetchFails, HookKilled, update, chains, upVars, vars
  <2> QED BY <1>1, <2>1 DEF OpkgTyped
<1> QED BY <1>3, <1>4, <1>5, <1>6, <1>7, <1>8 DEF Next, Chain, Opkg, Operator, Faults

LEMMA StartTyped == ASSUME DaemonTyped, Start PROVE daemon' \in DaemonRecord
BY DEF Start, DaemonTyped, DaemonRecord, Version

LEMMA NextDaemonTyped == ASSUME Typed, [Next]_vars PROVE DaemonTyped'
<1>1. /\ DaemonTyped /\ daemon \in DaemonRecord /\ inst \in Version /\ health \in Healths
      /\ opkg.ver \in Version /\ NoDaemon \in DaemonRecord
      /\ [ver |-> inst, watch |-> "look"] \in DaemonRecord
  BY DEF Typed, OpkgTyped, OpkgRecord, DaemonTyped, NoDaemon, DaemonRecord, Version
<1>2. health' = health
  BY DEF Next, SelfUpdate, Chain, ChainFails, ChainInstalls, Opkg, Prerm, Files, PostinstEnsuresCore,
     PostinstSetup, PostinstStart, Daemon, AgentStarts, Confirm, WindowOver, DaemonDies, Tick, Operator,
     SelfRollback, WatchdogSwitch, OperatorStarts, CoreCommand, Faults, Reboot, OpkgFails, OpkgReturns, ChainEnds, FetchFails, HookKilled,
     ProcStep, FirstLook, SecondLook, Rollback, Fetched, InstallIPK, Installed,
     writeAutoRollbackNotice, execInitStart, ScriptRollback, upVars, vars
<1>3. inst' \in {inst, opkg.ver}
  BY DEF Next, SelfUpdate, Chain, ChainFails, ChainInstalls, Opkg, Prerm, Files, PostinstEnsuresCore,
     PostinstSetup, PostinstStart, Daemon, AgentStarts, Confirm, WindowOver, DaemonDies, Tick, Operator,
     SelfRollback, WatchdogSwitch, OperatorStarts, CoreCommand, Faults, Reboot, OpkgFails, OpkgReturns, ChainEnds, FetchFails, HookKilled,
     ProcStep, FirstLook, SecondLook, Rollback, Fetched, InstallIPK, Installed,
     writeAutoRollbackNotice, execInitStart, ScriptRollback, router, upVars, vars
<1>4. daemon' \in DaemonRecord
  <2>1. CASE Prerm \/ DaemonDies
    BY <1>1, <2>1 DEF Prerm, DaemonDies, Down
  <2>2. CASE PostinstStart \/ OperatorStarts \/ \E p \in Proc : execInitStart(p)
    BY <1>1, <2>2, StartTyped DEF PostinstStart, OperatorStarts, execInitStart
  <2>3. CASE AgentStarts \/ Confirm \/ WindowOver
    <3>1. daemon' = [daemon EXCEPT !.watch = "off"] \/ daemon' = [daemon EXCEPT !.watch = "watching"]
      BY <2>3 DEF AgentStarts, Confirm, WindowOver
    <3> QED BY <1>1, <3>1 DEF DaemonRecord
  <2>4. CASE Reboot
    BY <1>1, <2>4 DEF Reboot
  <2>5. CASE SelfUpdate \/ Chain \/ Files \/ PostinstEnsuresCore \/ PostinstSetup \/ Tick \/ SelfRollback
             \/ WatchdogSwitch \/ CoreCommand \/ (CoresStep /\ UNCHANGED upVars) \/ UNCHANGED vars
    BY <1>1, <2>5 DEF SelfUpdate, Chain, ChainFails, ChainInstalls, Files, PostinstEnsuresCore, PostinstSetup,
       Tick, SelfRollback, WatchdogSwitch, CoreCommand, upVars, vars
  <2>7. CASE OpkgFails
    BY <1>1, <2>7 DEF OpkgFails
  <2>6. CASE \E p \in Proc : \/ FirstLook(p) \/ SecondLook(p) \/ Rollback(p) \/ Fetched(p) \/ InstallIPK(p)
                             \/ Installed(p) \/ writeAutoRollbackNotice(p) \/ ScriptRollback(p)
                             \/ FetchFails(p) \/ HookKilled(p)
    BY <1>1, <2>6 DEF FirstLook, SecondLook, Rollback, Fetched, InstallIPK, Installed,
       writeAutoRollbackNotice, ScriptRollback, FetchFails, HookKilled
  <2> QED BY <2>1, <2>2, <2>3, <2>4, <2>5, <2>6, <2>7 DEF Next, Opkg, Daemon, Operator, Faults, ProcStep
<1> QED BY <1>1, <1>2, <1>3, <1>4 DEF DaemonTyped

LEMMA NextMarkerTyped == ASSUME Typed, [Next]_vars PROVE MarkerTyped'
<1>1. /\ marker \in 0 .. 2 /\ ipk \in 0 .. 3 /\ daemon.ver \in 0 .. 2
      /\ \A p \in Proc : proc[p].prev \in 0 .. 2
  BY DEF Typed, MarkerTyped, DaemonTyped, DaemonRecord, ProcTyped, ProcRecord
<1>2. marker' \in {marker, 0, daemon.ver}
  BY DEF Next, SelfUpdate, Chain, ChainFails, ChainInstalls, Opkg, Prerm, Files, PostinstEnsuresCore,
     PostinstSetup, PostinstStart, Daemon, AgentStarts, Confirm, WindowOver, DaemonDies, Tick, Operator,
     SelfRollback, WatchdogSwitch, OperatorStarts, CoreCommand, Faults, Reboot, OpkgFails, OpkgReturns, ChainEnds, FetchFails, HookKilled,
     ProcStep, FirstLook, SecondLook, Rollback, Fetched, InstallIPK, Installed,
     writeAutoRollbackNotice, execInitStart, ScriptRollback, update, chains, upVars, vars
<1>3. ipk' \in {ipk, 0, 3} \/ \E p \in Proc : ipk' = proc[p].prev
  BY DEF Next, SelfUpdate, Chain, ChainFails, ChainInstalls, Opkg, Prerm, Files, PostinstEnsuresCore,
     PostinstSetup, PostinstStart, Daemon, AgentStarts, Confirm, WindowOver, DaemonDies, Tick, Operator,
     SelfRollback, WatchdogSwitch, OperatorStarts, CoreCommand, Faults, Reboot, OpkgFails, OpkgReturns, ChainEnds, FetchFails, HookKilled,
     ProcStep, FirstLook, SecondLook, Rollback, Fetched, InstallIPK, Installed,
     writeAutoRollbackNotice, execInitStart, ScriptRollback, upVars, vars
<1>4. marker' \in 0 .. 2
  BY <1>1, <1>2
<1>5. ipk' \in 0 .. 3
  BY <1>1, <1>3
<1> QED BY <1>4, <1>5 DEF MarkerTyped

LEMMA OlderInRange ==
    ASSUME NEW most \in Nat, NEW n \in 0 .. most PROVE Older(n, most) \in 0 .. most
BY DEF Older

LEMMA NextClockTyped == ASSUME Typed, [Next]_vars PROVE ClockTyped'
<1>1. age \in 0 .. AgeLimit /\ lock \in 0 .. Unlocked /\ span \in Nat /\ AgeLimit \in Nat /\ Unlocked = AgeLimit + 1
  BY SoftwareBounds DEF Typed, ClockTyped, Unlocked
<1>2. CASE Tick
  <2>1. age' = 0 \/ age' = Older(age, AgeLimit)
    BY <1>2 DEF Tick
  <2>2. lock' = lock \/ (lock # Unlocked /\ lock' = Older(lock, AgeLimit))
    BY <1>2 DEF Tick
  <2>3. lock # Unlocked => Older(lock, AgeLimit) \in 0 .. AgeLimit
    BY <1>1, OlderInRange
  <2>4. age' \in 0 .. AgeLimit
    BY <1>1, <2>1, OlderInRange
  <2>5. lock' \in 0 .. Unlocked
    BY <1>1, <2>2, <2>3
  <2>6. span' \in Nat
    BY <1>1, <1>2 DEF Tick
  <2> QED BY <2>4, <2>5, <2>6 DEF ClockTyped, Unlocked
<1>3. CASE ~ Tick
  <2>1. age' \in {age, 0} /\ lock' \in {lock, 0, Unlocked} /\ span' \in {span, 0}
    BY <1>3 DEF Next, SelfUpdate, Chain, ChainFails, ChainInstalls, Opkg, Prerm, Files, PostinstEnsuresCore,
     PostinstSetup, PostinstStart, Daemon, AgentStarts, Confirm, WindowOver, DaemonDies, Operator,
     SelfRollback, WatchdogSwitch, OperatorStarts, CoreCommand, Faults, Reboot, OpkgFails, OpkgReturns, ChainEnds, FetchFails, HookKilled,
     ProcStep, FirstLook, SecondLook, Rollback, Fetched, InstallIPK, Installed,
     writeAutoRollbackNotice, execInitStart, ScriptRollback, update, chains, upVars, vars
  <2> QED BY <1>1, <2>1 DEF ClockTyped, Unlocked
<1> QED BY <1>2, <1>3

LEMMA NextTyped == Typed /\ [Next]_vars => Typed'
BY NextProcTyped, NextOpkgTyped, NextDaemonTyped, NextMarkerTyped, NextClockTyped DEF Typed

LEMMA AlwaysTyped == Spec => []Typed
BY InitTyped, NextTyped, PTL DEF Spec

\* The versions, the processes, the marker and the cores' files keep their types.
THEOREM TypeCorrect == Spec => []TypeOK
<1>1. Typed /\ CoresSound => TypeOK
  BY DEF Typed, CoresSound, CoresTyped, ProcTyped, OpkgTyped, DaemonTyped, MarkerTyped, ClockTyped, TypeOK,
         ProcRecord, OpkgRecord, DaemonRecord
<1> QED BY <1>1, AlwaysTyped, AlwaysSound, PTL

-----------------------------------------------------------------------------
(* The watchdog's entry.  Only prerm takes it out without the operator's    *)
(* word, and only for as long as opkg is between prerm and the new          *)
(* version's setup.                                                         *)

Between == OpkgBusy /\ opkg.stage \in {"files", "core", "setup"}
Watched == Between \/ cron \/ declined \/ missed

LEMMA NextWatched == Typed /\ Watched /\ [Next]_vars => Watched'
<1> SUFFICES ASSUME Typed, Watched, [Next]_vars PROVE Watched'
  OBVIOUS
<1>1. opkg \in OpkgRecord
  BY DEF Typed, OpkgTyped
<1>2. CASE Prerm \/ Files \/ PostinstEnsuresCore
  <2>1. OpkgTo("files") \/ OpkgTo("core") \/ OpkgTo("setup")
    BY <1>2 DEF Prerm, Files, PostinstEnsuresCore
  <2>2. Between'
    BY <1>1, <2>1 DEF OpkgTo, OpkgBusy, OpkgRecord, Between
  <2> QED BY <2>2 DEF Watched
<1>3. CASE PostinstSetup
  <2>1. cron' \/ missed'
    BY <1>3 DEF PostinstSetup, SetupWatchdog
  <2> QED BY <2>1 DEF Watched
<1>4. CASE OpkgFails
  BY <1>4 DEF OpkgFails, Watched
<1>5. CASE WatchdogSwitch
  <2>1. cron' \/ declined'
    BY <1>5 DEF WatchdogSwitch
  <2> QED BY <2>1 DEF Watched
<1>6. CASE ChainInstalls \/ PostinstStart \/ \E p \in Proc : InstallIPK(p)
  <2>1. UNCHANGED <<cron, declined, missed>> /\ (~ Between \/ opkg' = opkg)
    BY <1>6 DEF ChainInstalls, PostinstStart, InstallIPK, Between, OpkgBusy, router
  <2> QED BY <2>1 DEF Watched, Between, OpkgBusy
<1>7. CASE \/ SelfUpdate \/ ChainFails \/ Daemon \/ Tick \/ SelfRollback \/ OperatorStarts \/ CoreCommand \/ Reboot
           \/ (CoresStep /\ UNCHANGED upVars) \/ UNCHANGED vars
           \/ \E p \in Proc : \/ FirstLook(p) \/ SecondLook(p) \/ Rollback(p) \/ Fetched(p) \/ Installed(p)
                              \/ writeAutoRollbackNotice(p) \/ execInitStart(p) \/ ScriptRollback(p)
                              \/ FetchFails(p) \/ HookKilled(p)
  <2>1. UNCHANGED <<opkg, cron, declined, missed>>
    BY <1>7 DEF SelfUpdate, ChainFails, Daemon, AgentStarts, Confirm, WindowOver, DaemonDies, Tick, SelfRollback,
       OperatorStarts, CoreCommand, Reboot, FetchFails, HookKilled, FirstLook, SecondLook, Rollback,
       Fetched, Installed, writeAutoRollbackNotice, execInitStart, ScriptRollback, router, upVars, vars
  <2> QED BY <2>1 DEF Watched, Between, OpkgBusy
<1> QED BY <1>2, <1>3, <1>4, <1>5, <1>6, <1>7 DEF Next, Chain, Opkg, Operator, ProcStep, Faults

\* Unless the operator took the watchdog out, or the last install ended without its
\* postinst-setup having put it back, a daemon that is down has someone to look after it
\* (cmdPostinstSetup and cmdPrermCleanup, cmd/keenetic-xray/internal.go), whatever the builds are
\* like and however updates, rollbacks, failures, deaths and restarts interleave.
THEOREM SomeoneLooks == Spec => []SomeoneWillLook
<1>1. Init => Watched
  BY DEF Init, Watched
<1>2. Typed /\ Watched /\ [Next]_vars => Watched'
  BY NextWatched
<1>3. Watched => SomeoneWillLook
  BY DEF Watched, Between, SomeoneWillLook
<1> QED BY <1>1, <1>2, <1>3, AlwaysTyped, PTL DEF Spec

-----------------------------------------------------------------------------
(* The marker.  A version in the air has cleared the marker it was started  *)
(* with, and a marker is written by the daemon that runs: beside a version  *)
(* in the air it names that version.                                        *)

AirIsOwn == confirmed /\ Alive => daemon.ver = inst
MarkerIsOwn == confirmed /\ marker # 0 => marker = inst
Own == AirIsOwn /\ MarkerIsOwn

LEMMA NextOwn == Typed /\ Own /\ [Next]_vars => Own'
<1> SUFFICES ASSUME Typed, Own, [Next]_vars PROVE Own'
  OBVIOUS
<1>0. daemon \in DaemonRecord
  BY DEF Typed, DaemonTyped
<1>1. CASE Files
  BY <1>1 DEF Files, Own, AirIsOwn, MarkerIsOwn
<1>2. CASE Confirm
  <2>1. marker' = 0 /\ confirmed' = (confirmed \/ daemon.ver = inst) /\ inst' = inst
    BY <1>2 DEF Confirm
  <2>2. daemon'.ver = daemon.ver
    BY <1>0, <1>2 DEF Confirm, DaemonRecord
  <2> QED BY <2>1, <2>2 DEF Own, AirIsOwn, MarkerIsOwn, Alive
<1>3. CASE ~ Files /\ ~ Confirm
  <2>1. UNCHANGED <<inst, confirmed>>
    BY <1>3 DEF Next, SelfUpdate, Chain, ChainFails, ChainInstalls, Opkg, Prerm, PostinstEnsuresCore,
     PostinstSetup, PostinstStart, Daemon, AgentStarts, WindowOver, DaemonDies, Tick, Operator,
     SelfRollback, WatchdogSwitch, OperatorStarts, CoreCommand, Faults, Reboot, OpkgFails, FetchFails, HookKilled,
     ProcStep, FirstLook, SecondLook, Rollback, Fetched, InstallIPK, Installed,
     writeAutoRollbackNotice, execInitStart, ScriptRollback, router, upVars, vars
  <2>2. marker' \in {marker, 0} \/ (Alive /\ marker' = daemon.ver)
    BY <1>3 DEF Next, SelfUpdate, Serves, Chain, ChainFails, ChainInstalls, Opkg, Prerm, PostinstEnsuresCore,
     PostinstSetup, PostinstStart, Daemon, AgentStarts, WindowOver, DaemonDies, Tick, Operator,
     SelfRollback, WatchdogSwitch, OperatorStarts, CoreCommand, Faults, Reboot, OpkgFails, FetchFails, HookKilled,
     ProcStep, FirstLook, SecondLook, Rollback, Fetched, InstallIPK, Installed,
     writeAutoRollbackNotice, execInitStart, ScriptRollback, update, upVars, vars
  <2>3. daemon'.ver \in {daemon.ver, inst, 0}
    <3>1. CASE AgentStarts \/ WindowOver
      <4>1. daemon' = [daemon EXCEPT !.watch = "off"] \/ daemon' = [daemon EXCEPT !.watch = "watching"]
        BY <3>1 DEF AgentStarts, WindowOver
      <4> QED BY <1>0, <4>1 DEF DaemonRecord
    <3>2. CASE Prerm \/ DaemonDies
      BY <3>2 DEF Prerm, DaemonDies, Down, NoDaemon
    <3>3. CASE PostinstStart \/ OperatorStarts \/ \E p \in Proc : execInitStart(p)
      BY <3>3 DEF PostinstStart, OperatorStarts, execInitStart, Start
    <3>4. CASE Reboot
      BY <3>4 DEF Reboot, NoDaemon
    <3>5. CASE \/ SelfUpdate \/ Chain \/ PostinstEnsuresCore \/ PostinstSetup \/ Tick \/ SelfRollback
               \/ WatchdogSwitch \/ CoreCommand \/ OpkgFails \/ (CoresStep /\ UNCHANGED upVars) \/ UNCHANGED vars
               \/ \E p \in Proc : \/ FirstLook(p) \/ SecondLook(p) \/ Rollback(p) \/ Fetched(p) \/ InstallIPK(p)
                                  \/ Installed(p) \/ writeAutoRollbackNotice(p) \/ ScriptRollback(p)
                                  \/ FetchFails(p) \/ HookKilled(p)
      BY <3>5 DEF SelfUpdate, Chain, ChainFails, ChainInstalls, PostinstEnsuresCore, PostinstSetup, Tick,
         SelfRollback, WatchdogSwitch, CoreCommand, OpkgFails, FirstLook, SecondLook, Rollback, Fetched,
         InstallIPK, Installed, writeAutoRollbackNotice, ScriptRollback, FetchFails, HookKilled, upVars, vars
    <3> QED BY <1>3, <3>1, <3>2, <3>3, <3>4, <3>5 DEF Next, Opkg, Daemon, Operator, Faults, ProcStep
  <2> QED BY <2>1, <2>2, <2>3 DEF Own, AirIsOwn, MarkerIsOwn, Alive
<1> QED BY <1>1, <1>2, <1>3

-----------------------------------------------------------------------------
(* A hook that has set out found the installed version not to have been in  *)
(* the air.                                                                 *)

OnItsWay(p) == proc[p].kind = "hook" /\ proc[p].stage \in {"fetch", "verify"}
Grounds == \A p \in Proc : OnItsWay(p) => proc[p].doubt

\* One run goes on to another stage; only the download's two are of interest.
LEMMA GroundsOnTo ==
    ASSUME Typed, Grounds, NEW p \in Proc, NEW stage \in ProcStage, OnTo(p, stage),
           stage \in {"fetch", "verify"} => OnItsWay(p) \/ proc[p].kind # "hook"
    PROVE  Grounds'
<1>1. proc \in [Proc -> ProcRecord]
  BY DEF Typed, ProcTyped
<1>2. \A q \in Proc : /\ proc'[q].kind = proc[q].kind /\ proc'[q].doubt = proc[q].doubt
                      /\ proc'[q].stage = IF q = p THEN stage ELSE proc[q].stage
  BY <1>1 DEF OnTo, ProcRecord
<1> QED BY <1>2 DEF Grounds, OnItsWay

LEMMA GroundsReplaced ==
    ASSUME Typed, Grounds, NEW p \in Proc, NEW entry \in ProcRecord, proc' = [proc EXCEPT ![p] = entry],
           entry.kind = "hook" /\ entry.stage \in {"fetch", "verify"} => entry.doubt
    PROVE  Grounds'
<1>1. proc \in [Proc -> ProcRecord]
  BY DEF Typed, ProcTyped
<1>2. \A q \in Proc : proc'[q] = IF q = p THEN entry ELSE proc[q]
  BY <1>1
<1> QED BY <1>2 DEF Grounds, OnItsWay

LEMMA GroundsReturn ==
    ASSUME Typed, Grounds, NEW then \in {"clear", "start"}, OpkgReturns(then)
    PROVE  Grounds'
<1>1. proc \in [Proc -> ProcRecord] /\ then \in ProcStage
  BY Stages DEF Typed, ProcTyped
<1>2. CASE proc' = proc
  BY <1>2 DEF Grounds, OnItsWay
<1>3. CASE proc' # proc
  <2>1. proc' = [proc EXCEPT ![opkg.by].stage = IF @ = "opkg" THEN then ELSE @]
    BY <1>3 DEF OpkgReturns
  <2>2. \A q \in Proc : /\ proc'[q].kind = proc[q].kind /\ proc'[q].doubt = proc[q].doubt
                        /\ proc'[q].stage \in {proc[q].stage, then}
    BY <1>1, <2>1 DEF ProcRecord
  <2> QED BY <2>2 DEF Grounds, OnItsWay
<1> QED BY <1>2, <1>3

LEMMA TickGrounds == ASSUME Typed, Grounds, Tick PROVE Grounds'
<1>1. proc \in [Proc -> ProcRecord]
  BY DEF Typed, ProcTyped
<1>2. PICK aged : aged = [p \in Proc |-> [proc[p] EXCEPT !.late = ~ Free(p)]]
  OBVIOUS
<1>3. PICK hook \in ProcRecord : hook = [NoProc EXCEPT !.kind = "hook", !.stage = "look"]
  BY Stages, ProcBegins
<1>4. hook.stage = "look"
  BY <1>3, NoProcTyped DEF ProcRecord
<1>5. proc' = aged \/ \E p \in Proc : proc' = [aged EXCEPT ![p] = hook]
  BY <1>2, <1>3 DEF Tick
<1>6. \A q \in Proc : aged[q].kind = proc[q].kind /\ aged[q].stage = proc[q].stage /\ aged[q].doubt = proc[q].doubt
  BY <1>1, <1>2 DEF ProcRecord
<1>7. \A q \in Proc : proc'[q] = aged[q] \/ proc'[q] = hook
  BY <1>2, <1>5
<1> QED BY <1>4, <1>6, <1>7 DEF Grounds, OnItsWay

LEMMA StepGrounds == ASSUME Typed, Own, Grounds, NEW p \in Proc, ProcStep(p) PROVE Grounds'
<1>1. proc \in [Proc -> ProcRecord] /\ proc[p] \in ProcRecord /\ marker \in 0 .. 2
  BY DEF Typed, ProcTyped, MarkerTyped
<1>2. Ends(p) => Grounds'
  BY NoProcTyped, GroundsReplaced DEF Ends, NoProc
<1>3. CASE FirstLook(p)
  <2>1. \/ OnTo(p, "script") \/ OnTo(p, "start") \/ Ends(p)
        \/ proc' = [proc EXCEPT ![p].stage = "sleep", ![p].prev = marker]
    BY <1>3 DEF FirstLook
  <2>2. CASE proc' = [proc EXCEPT ![p].stage = "sleep", ![p].prev = marker]
    <3>1. PICK entry \in ProcRecord : entry = [proc[p] EXCEPT !.stage = "sleep", !.prev = marker]
      BY <1>1, Stages DEF ProcRecord
    <3>2. proc' = [proc EXCEPT ![p] = entry] /\ entry.stage = "sleep"
      BY <1>1, <2>2, <3>1 DEF ProcRecord
    <3> QED BY <3>2, GroundsReplaced
  <2> QED BY <1>2, <2>1, <2>2, Stages, GroundsOnTo
<1>4. CASE SecondLook(p)
  BY <1>2, <1>4, Stages, GroundsOnTo DEF SecondLook
<1>5. CASE Rollback(p)
  <2>1. CASE marker = 0
    BY <1>5, <2>1, Stages, GroundsOnTo DEF Rollback, RollbackTarget
  <2>2. CASE marker # 0
    <3>1. PICK doubt \in BOOLEAN : doubt = (~ confirmed \/ marker = inst)
      OBVIOUS
    <3>2. proc' = [proc EXCEPT ![p].stage = "fetch", ![p].prev = marker, ![p].doubt = doubt]
      BY <1>5, <2>2, <3>1 DEF Rollback, RollbackTarget
    <3>3. PICK entry \in ProcRecord : entry = [proc[p] EXCEPT !.stage = "fetch", !.prev = marker, !.doubt = doubt]
      BY <1>1, Stages DEF ProcRecord
    <3>4. proc' = [proc EXCEPT ![p] = entry] /\ entry.doubt = doubt
      BY <1>1, <3>2, <3>3 DEF ProcRecord
    <3>5. doubt
      BY <2>2, <3>1 DEF Own, MarkerIsOwn
    <3> QED BY <3>4, <3>5, GroundsReplaced
  <2> QED BY <2>1, <2>2
<1>6. CASE Fetched(p)
  <2>1. OnTo(p, "verify") /\ proc[p].stage = "fetch"
    BY <1>6 DEF Fetched
  <2> QED BY <2>1, Stages, GroundsOnTo DEF OnItsWay
<1>7. CASE InstallIPK(p)
  <2>1. OnTo(p, "opkg") \/ OnTo(p, "start")
    BY <1>7 DEF InstallIPK
  <2> QED BY <2>1, Stages, GroundsOnTo
<1>8. CASE Installed(p)
  <2>1. OnTo(p, "notice") \/ OnTo(p, "start")
    BY <1>8 DEF Installed
  <2> QED BY <2>1, Stages, GroundsOnTo
<1>9. CASE writeAutoRollbackNotice(p) \/ execInitStart(p)
  BY <1>2, <1>9, Stages, GroundsOnTo DEF writeAutoRollbackNotice, execInitStart
<1>10. CASE ScriptRollback(p)
  <2>1. Ends(p) \/ proc' = [proc EXCEPT ![p].kind = "shell", ![p].stage = "fetch", ![p].prev = marker]
    BY <1>10 DEF ScriptRollback
  <2>2. CASE proc' = [proc EXCEPT ![p].kind = "shell", ![p].stage = "fetch", ![p].prev = marker]
    <3>1. PICK entry \in ProcRecord : entry = [proc[p] EXCEPT !.kind = "shell", !.stage = "fetch", !.prev = marker]
      BY <1>1, Stages DEF ProcRecord
    <3>2. proc' = [proc EXCEPT ![p] = entry] /\ entry.kind = "shell"
      BY <1>1, <2>2, <3>1 DEF ProcRecord
    <3> QED BY <3>2, GroundsReplaced
  <2> QED BY <1>2, <2>1, <2>2
<1> QED BY <1>3, <1>4, <1>5, <1>6, <1>7, <1>8, <1>9, <1>10 DEF ProcStep

LEMMA NextGrounds == Typed /\ Own /\ Grounds /\ [Next]_vars => Grounds'
<1> SUFFICES ASSUME Typed, Own, Grounds, [Next]_vars PROVE Grounds'
  OBVIOUS
<1>1. CASE PostinstStart \/ OpkgFails
  BY <1>1, GroundsReturn DEF PostinstStart, OpkgFails
<1>2. CASE SelfRollback
  <2>1. PICK p \in Proc : proc' = [proc EXCEPT ![p] = [NoProc EXCEPT !.kind = "cli", !.stage = "rollback"]]
    BY <1>2 DEF SelfRollback
  <2>2. PICK entry \in ProcRecord : entry = [NoProc EXCEPT !.kind = "cli", !.stage = "rollback"]
    BY Stages, ProcBegins
  <2>3. entry.stage = "rollback"
    BY <2>2, NoProcTyped DEF ProcRecord
  <2> QED BY <2>1, <2>2, <2>3, GroundsReplaced
<1>3. CASE Reboot
  BY <1>3 DEF Reboot, Grounds, OnItsWay, NoProc
<1>4. ASSUME NEW p \in Proc, FetchFails(p) \/ HookKilled(p) PROVE Grounds'
  <2>1. OnTo(p, "start") \/ OnTo(p, "script")
    BY <1>4 DEF FetchFails, HookKilled
  <2> QED BY <2>1, Stages, GroundsOnTo
<1>5. CASE \/ SelfUpdate \/ Chain \/ Daemon \/ WatchdogSwitch \/ OperatorStarts \/ CoreCommand
           \/ Prerm \/ Files \/ PostinstEnsuresCore \/ PostinstSetup
           \/ (CoresStep /\ UNCHANGED upVars) \/ UNCHANGED vars
  <2>1. UNCHANGED proc
    BY <1>5 DEF SelfUpdate, Chain, ChainFails, ChainInstalls, Daemon, AgentStarts, Confirm, WindowOver, DaemonDies,
       WatchdogSwitch, OperatorStarts, CoreCommand, Prerm, Files, PostinstEnsuresCore, PostinstSetup, upVars, vars
  <2> QED BY <2>1 DEF Grounds, OnItsWay
<1> QED BY <1>1, <1>2, <1>3, <1>4, <1>5, TickGrounds, StepGrounds DEF Next, Opkg, Operator, Faults

\* Only InstallIPK gives opkg to a run of the watchdog.
LEMMA OnlyInstallIPK ==
    ASSUME Typed, [Next]_vars, NEW p \in Proc, opkg.by # p, opkg'.by = p
    PROVE  InstallIPK(p)
<1>1. p # "chain" /\ p # "nobody"
  BY ProcAssumption
<1>2. ASSUME NEW q \in Proc, InstallIPK(q), q # p PROVE FALSE
  BY <1>2 DEF InstallIPK
<1>3. ~ ChainInstalls
  BY <1>1 DEF ChainInstalls
<1>4. ~ PostinstStart /\ ~ OpkgFails
  BY <1>1 DEF PostinstStart, OpkgFails, OpkgReturns, NoOpkg
<1>5. ~ (Prerm \/ Files \/ PostinstEnsuresCore \/ PostinstSetup)
  <2>1. opkg \in OpkgRecord
    BY DEF Typed, OpkgTyped
  <2>2. \A stage : OpkgTo(stage) => opkg'.by = opkg.by
    BY <2>1 DEF OpkgTo, OpkgRecord
  <2> QED BY <2>2 DEF Prerm, Files, PostinstEnsuresCore, PostinstSetup
<1>6. ~ (\/ SelfUpdate \/ ChainFails \/ Daemon \/ Tick \/ SelfRollback \/ WatchdogSwitch \/ OperatorStarts
         \/ CoreCommand \/ Reboot \/ (CoresStep /\ UNCHANGED upVars) \/ UNCHANGED vars)
  BY DEF SelfUpdate, ChainFails, Daemon, AgentStarts, Confirm, WindowOver, DaemonDies, Tick, SelfRollback,
     WatchdogSwitch, OperatorStarts, CoreCommand, Reboot, upVars, vars
<1>7. ASSUME NEW q \in Proc,
             \/ FirstLook(q) \/ SecondLook(q) \/ Rollback(q) \/ Fetched(q) \/ Installed(q)
             \/ writeAutoRollbackNotice(q) \/ execInitStart(q) \/ ScriptRollback(q)
             \/ FetchFails(q) \/ HookKilled(q)
      PROVE  FALSE
  BY <1>7 DEF FirstLook, SecondLook, Rollback, Fetched, Installed, writeAutoRollbackNotice, execInitStart,
     ScriptRollback, FetchFails, HookKilled
<1> QED BY <1>2, <1>3, <1>4, <1>5, <1>6, <1>7 DEF Next, Chain, Opkg, Operator, Faults, ProcStep

\* The hook never installs another version over one that had been in the air, since its install,
\* when the hook's download began (Rollback, internal/selfupdate; watchPostUpdate,
\* cmd/keenetic-xray/selfupdate.go), however scripts, updates and confirmations interleave.
THEOREM ConfirmedIsKept == Spec => OnlyUnconfirmedIsUndone
<1> DEFINE A == \A p \in Proc : Undoes(p) => proc[p].doubt
<1>1. Init => Own /\ Grounds
  BY DEF Init, Own, AirIsOwn, MarkerIsOwn, Alive, Grounds, OnItsWay, NoProc
<1>2. Typed /\ Own /\ Grounds /\ [Next]_vars => [A]_vars
  <2> SUFFICES ASSUME Typed, Own, Grounds, [Next]_vars, NEW p \in Proc, Undoes(p) PROVE proc[p].doubt
    OBVIOUS
  <2>1. InstallIPK(p) /\ proc[p].kind = "hook"
    BY OnlyInstallIPK DEF Undoes
  <2> QED BY <2>1 DEF InstallIPK, Grounds, OnItsWay
<1>3. Typed /\ Own /\ Grounds /\ [Next]_vars => Own' /\ Grounds'
  BY NextOwn, NextGrounds
<1> QED BY <1>1, <1>2, <1>3, AlwaysTyped, PTL DEF Spec, OnlyUnconfirmedIsUndone
=============================================================================
