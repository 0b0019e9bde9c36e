------------------------------ MODULE Software ------------------------------
(***************************************************************************)
(* The agent replacing itself, and what undoes a bad replacement           *)
(* (internal/selfupdate, internal/install, cmd/keenetic-xray: selfupdate.go,*)
(* internal.go, watchdog.go; selfUpdate in internal/botcontrol/commands.go; *)
(* the package's scripts as those call them).                              *)
(*                                                                         *)
(* An update drops a marker naming the version it leaves, and a detached   *)
(* chain of processes installs the package, whose prerm and postinst stop  *)
(* and start the daemon.  The new daemon confirms itself and clears the    *)
(* marker; if none runs, cron's script calls a hook that rolls back to the *)
(* marker while it is fresh.  Each of these is a process of its own that   *)
(* looks, waits, and acts on what it saw.                                  *)
(***************************************************************************)
EXTENDS Cores

CONSTANTS
    Proc,          \* runs of the watchdog's script and of internal self-rollback: a bound
    Healths,       \* what the versions may be like: functions of Version
    AgeLimit,      \* 15 minutes, in ticks of cron
    SlowNet,       \* whether a package's download may outlast a tick
    ChainTicks,    \* ticks the updates under way take at most: a bound
    MaxCommands,   \* commands of an operator: a bound
    MaxFaults      \* crashes, reboots, failed downloads, installs and setups: a bound

(* Version 1 is the one left, 2 the one install.sh brings.  A version "works", runs but is
   "mute", "dies" soon after its start, or has a binary that cannot be executed: "norun". *)
Version == 1 .. 2
Health == {"works", "mute", "dies", "norun"}

ASSUME ProcAssumption == {"nobody", "chain"} \cap Proc = {}
ASSUME HealthsAssumption == Healths \subseteq [Version -> Health]
ASSUME SoftwareBounds == SlowNet \in BOOLEAN /\ AgeLimit \in Nat /\ ChainTicks \in Nat /\ MaxCommands \in Nat /\ MaxFaults \in Nat

VARIABLES
    health,
    inst,      \* the version whose files are installed
    daemon,    \* the running daemon's version, 0 for none, and how far watchPostUpdate is
    marker,    \* PrevVersion, 0 for no marker
    age,       \* ticks since the marker was written
    lock,      \* ticks since the self-update lock was taken, Unlocked when there is none
    fetching,  \* detached chains that have not come to opkg yet
    span,      \* ticks since there is a chain
    opkg,      \* who runs opkg install, how far the package's scripts are, and which version
    cron,      \* the watchdog's cron entry and script
    declined,  \* history: the operator disabled it since it was last put there
    missed,    \* history: the last install did not get as far as putting it back
    proc,
    ipk,       \* /opt/keenetic-xray-rollback.ipk: its version, 0 for none, 3 for a part
    notice,    \* autoRollbackNotice
    commands, faults,
    confirmed  \* history: the installed version has been in the air

router == <<inst, cron, declined, missed, confirmed>>
chains == <<fetching, span>>
update == <<marker, age, lock, chains>>
counts == <<commands, faults>>
upVars == <<health, router, daemon, update, opkg, proc, ipk, notice, counts>>
vars == <<upVars, coreVars>>

Unlocked == AgeLimit + 1
NoDaemon == [ver |-> 0, watch |-> "off"]
NoOpkg == [by |-> "nobody", stage |-> "prerm", ver |-> 1]
(* doubt is history: the installed version had not been in the air when this run set out to
   replace it. *)
NoProc == [kind |-> "none", stage |-> "none", prev |-> 0, late |-> FALSE, doubt |-> FALSE]
ProcStage == {"none", "look", "sleep", "rollback", "fetch", "verify", "opkg", "clear", "notice",
              "start", "script"}

Init ==
    /\ health \in Healths
    /\ inst = 1 /\ cron = TRUE /\ declined = FALSE /\ missed = FALSE /\ confirmed = TRUE
    /\ daemon = [ver |-> 1, watch |-> "off"]
    /\ marker = 0 /\ age = 0 /\ lock = Unlocked /\ fetching = 0 /\ span = 0
    /\ opkg = NoOpkg /\ ipk = 0 /\ notice = FALSE
    /\ proc = [p \in Proc |-> NoProc]
    /\ commands = 0 /\ faults = 0
    /\ CoresInit

Alive == daemon.ver # 0
Serves == Alive /\ health[daemon.ver] \in {"works", "mute"}
OpkgBusy == opkg.by # "nobody"
CanRun(ver) == health[ver] # "norun"

Fault == faults < MaxFaults /\ faults' = faults + 1 /\ UNCHANGED commands
Command == commands < MaxCommands /\ commands' = commands + 1 /\ UNCHANGED faults

(* S99 start: nothing when a daemon runs; a binary that cannot run leaves none behind. *)
Start == daemon' = IF ~ Alive /\ CanRun(inst) THEN [ver |-> inst, watch |-> "look"] ELSE daemon

(* The daemon is gone, and its bot's installer with it. *)
Down == daemon' = NoDaemon /\ job' = Killed("bot") /\ UNCHANGED <<core, pin, temp>>

-----------------------------------------------------------------------------
(* The bot's self_update.  The lock is written if it can be, then the marker, naming the version
   that runs; a router whose architecture opkg does not tell keeps the marker it had.  If the
   chain cannot be started the lock goes, and the marker if this call wrote it. *)

NoChain == lock >= AgeLimit                    \* no lock, or one too old to believe
Chains == fetching + (IF opkg.by = "chain" THEN 1 ELSE 0)

SelfUpdate ==
    /\ Serves /\ NoChain /\ Command
    /\ \/ /\ lock' \in {0, lock} /\ fetching' = fetching + 1
          /\ (marker' = daemon.ver /\ age' = 0) \/ UNCHANGED <<marker, age>>
       \/ lock' = Unlocked /\ marker' \in {0, marker} /\ UNCHANGED <<fetching, age>>
    /\ UNCHANGED <<health, router, daemon, span, opkg, proc, ipk, notice, coreVars>>

(* The last thing a chain does is to remove the lock, whoever's it is. *)
ChainEnds == lock' = Unlocked /\ span' = IF Chains = 1 THEN 0 ELSE span

(* install.sh or its package does not come, or another opkg is at work; the marker stays. *)
ChainFails ==
    /\ fetching > 0
    /\ (OpkgBusy /\ UNCHANGED counts) \/ Fault
    /\ fetching' = fetching - 1 /\ ChainEnds
    /\ UNCHANGED <<health, router, daemon, marker, age, opkg, proc, ipk, notice, coreVars>>

ChainInstalls ==
    /\ fetching > 0 /\ ~ OpkgBusy
    /\ fetching' = fetching - 1 /\ opkg' = [by |-> "chain", stage |-> "prerm", ver |-> 2]
    /\ UNCHANGED <<health, router, daemon, marker, age, lock, span, proc, ipk, notice, counts, coreVars>>

-----------------------------------------------------------------------------
(* opkg install, whoever runs it: the outgoing package's prerm, the files, the new postinst. *)

OpkgTo(stage) == OpkgBusy /\ opkg' = [opkg EXCEPT !.stage = stage]

(* prerm: S99 stop, then internal prerm-cleanup by the binary that is leaving, if it can run and
   the files of cron can be written. *)
Prerm ==
    /\ opkg.stage = "prerm" /\ OpkgTo("files")
    /\ Down
    /\ \/ cron' = (cron /\ ~ CanRun(inst)) /\ UNCHANGED counts
       \/ cron' = cron /\ Fault
    /\ UNCHANGED <<health, inst, declined, missed, confirmed, update, proc, ipk, notice>>

Files ==
    /\ opkg.stage = "files" /\ OpkgTo("core")
    /\ inst' = opkg.ver /\ confirmed' = FALSE
    /\ UNCHANGED <<health, cron, declined, missed, daemon, update, proc, ipk, notice, counts, coreVars>>

(* postinst, ensure-xray-core: best effort, and so is what follows. *)
PostinstEnsuresCore ==
    /\ opkg.stage = "core" /\ OpkgTo("setup")
    /\ IF CanRun(inst) THEN PostinstCore ELSE UNCHANGED coreVars
    /\ UNCHANGED <<health, router, daemon, update, proc, ipk, notice, counts>>

(* postinst-setup switches the watchdog on, whatever it was before. *)
SetupKeepsWatchdog == cron' = cron
SetupWatchdog == cron' = TRUE

(* It may fail before it comes to that, be unable to write cron's files (script and entry are
   two of them) or to get a cron daemon, and a binary that cannot run does nothing: a warning
   each time, and postinst goes on. *)
PostinstSetup ==
    /\ opkg.stage = "setup" /\ job["postinst"].stage = "idle" /\ OpkgTo("start")
    /\ \/ CanRun(inst) /\ SetupWatchdog /\ declined' = FALSE /\ missed' = FALSE /\ UNCHANGED counts
       \/ ~ CanRun(inst) /\ UNCHANGED <<cron, declined, counts>> /\ missed' = TRUE
       \/ CanRun(inst) /\ Fault /\ cron' \in {cron, FALSE} /\ UNCHANGED declined /\ missed' = TRUE
    /\ UNCHANGED <<health, inst, confirmed, daemon, update, proc, ipk, notice, coreVars>>

(* opkg returns to whoever called it; a rollback then goes on as "then" says. *)
OpkgReturns(then) ==
    /\ opkg' = NoOpkg
    /\ IF opkg.by = "chain"
       THEN ChainEnds /\ UNCHANGED proc
       ELSE /\ proc' = [proc EXCEPT ![opkg.by].stage = IF @ = "opkg" THEN then ELSE @]
            /\ UNCHANGED <<lock, span>>

(* postinst starts the daemon. *)
PostinstStart ==
    /\ opkg.stage = "start" /\ OpkgReturns("clear")
    /\ Start
    /\ UNCHANGED <<health, router, marker, age, fetching, ipk, notice, counts, coreVars>>

(* opkg fails after prerm, before or after it has unpacked the files: no postinst, and the
   daemon stays down.  A rollback removes its file and starts what is there; a chain only ends. *)
OpkgFails ==
    /\ opkg.stage \in {"files", "core"} /\ OpkgReturns("start")
    /\ Fault
    /\ missed' = TRUE
    /\ ipk' = IF opkg.by = "chain" \/ proc[opkg.by].kind = "shell" THEN ipk ELSE 0
    /\ UNCHANGED <<health, inst, cron, declined, confirmed, daemon, marker, age, fetching, notice, coreVars>>

Opkg == Prerm \/ Files \/ PostinstEnsuresCore \/ PostinstSetup \/ PostinstStart

-----------------------------------------------------------------------------
(* The daemon after its start. *)

(* watchPostUpdate and watchAutoRollbackNotice look once. *)
AgentStarts ==
    /\ daemon.watch = "look"
    /\ LET leftover == marker # 0 /\ (age >= AgeLimit \/ marker = daemon.ver)
       IN  /\ marker' = IF leftover THEN 0 ELSE marker
           /\ daemon' = [daemon EXCEPT !.watch = IF marker = 0 \/ leftover THEN "off" ELSE "watching"]
    /\ notice' = FALSE
    /\ UNCHANGED <<health, router, age, lock, chains, opkg, proc, ipk, counts, coreVars>>

InTheAir == health[daemon.ver] = "works" /\ Runs(core["xray"])

(* Steady state and a probe that passes: the marker goes. *)
Confirm ==
    /\ daemon.watch = "watching" /\ InTheAir
    /\ daemon' = [daemon EXCEPT !.watch = "off"]
    /\ marker' = 0 /\ confirmed' = (confirmed \/ daemon.ver = inst)
    /\ UNCHANGED <<health, inst, cron, declined, missed, age, lock, chains, opkg, proc, ipk, notice,
                   counts, coreVars>>

(* Two minutes without it: the operator is told, the marker kept for self-rollback. *)
WindowOver ==
    /\ daemon.watch = "watching" /\ ~ InTheAir
    /\ daemon' = [daemon EXCEPT !.watch = "off"]
    /\ UNCHANGED <<health, router, update, opkg, proc, ipk, notice, counts, coreVars>>

DaemonDies ==
    /\ Alive /\ Down
    /\ (health[daemon.ver] = "dies" /\ UNCHANGED counts) \/ Fault
    /\ UNCHANGED <<health, router, update, opkg, proc, ipk, notice>>

-----------------------------------------------------------------------------
(* cron's script, its hook, and internal self-rollback. *)

Free(p) == proc[p].kind = "none"
OnTo(p, stage) == proc' = [proc EXCEPT ![p].stage = stage]
Ends(p) == proc' = [proc EXCEPT ![p] = NoProc]
Older(n, most) == IF n < most THEN n + 1 ELSE n

(* Two minutes pass.  A build that dies has died by then, updates are over within ChainTicks,
   a hook has decided, and a rollback outlives one tick and not two: bounds, and the code's own
   patience.  The script finds the daemon down and calls the hook. *)
Tick ==
    /\ \A p \in Proc : ~ proc[p].late /\ proc[p].stage \notin {"look", "sleep", "rollback"}
    /\ SlowNet \/ \A p \in Proc : proc[p].stage \in {"none", "opkg"}
    /\ Chains > 0 => span < ChainTicks
    /\ span' = IF Chains > 0 THEN span + 1 ELSE 0
    /\ Alive => health[daemon.ver] # "dies" /\ daemon.watch # "look"
    /\ age' = IF marker = 0 THEN 0 ELSE Older(age, AgeLimit)
    /\ lock' = IF lock = Unlocked THEN lock ELSE Older(lock, AgeLimit)
    /\ LET aged == [p \in Proc |-> [proc[p] EXCEPT !.late = ~ Free(p)]]
       IN  IF cron /\ ~ Alive /\ \E p \in Proc : Free(p)
           THEN \E p \in Proc :
                   Free(p) /\ proc' = [aged EXCEPT ![p] = [NoProc EXCEPT !.kind = "hook", !.stage = "look"]]
           ELSE proc' = aged
    /\ UNCHANGED <<health, router, daemon, marker, fetching, opkg, ipk, notice, counts, coreVars>>

(* markerIsFreshForRollback *)
FreshOnceOld(prev) == prev # 0 /\ age >= AgeLimit /\ prev # inst
Fresh(prev) == prev # 0 /\ age < AgeLimit /\ prev # inst

(* decideWatchdog: the marker is read, then two looks, the second only for a rollback. *)
FirstLook(p) ==
    /\ proc[p].stage = "look"
    /\ IF ~ CanRun(inst) THEN OnTo(p, "script")
       ELSE IF Alive \/ OpkgBusy THEN Ends(p)
       ELSE IF Fresh(marker) THEN proc' = [proc EXCEPT ![p].stage = "sleep", ![p].prev = marker]
       ELSE OnTo(p, "start")
    /\ UNCHANGED <<health, router, daemon, update, opkg, ipk, notice, counts, coreVars>>

SecondLook(p) ==
    /\ proc[p].stage = "sleep"
    /\ IF Alive \/ OpkgBusy THEN Ends(p) ELSE OnTo(p, "rollback")
    /\ UNCHANGED <<health, router, daemon, update, opkg, ipk, notice, counts, coreVars>>

(* Rollback reads the marker again. *)
RollbackTargetSeen(p) == IF proc[p].prev = 0 THEN marker ELSE proc[p].prev
RollbackTarget(p) == marker

Rollback(p) ==
    /\ proc[p].stage = "rollback"
    /\ IF RollbackTarget(p) = 0 THEN OnTo(p, "start") /\ UNCHANGED ipk
       ELSE /\ proc' = [proc EXCEPT ![p].stage = "fetch", ![p].prev = RollbackTarget(p),
                                    ![p].doubt = ~ confirmed \/ RollbackTarget(p) = inst]
            /\ ipk' = 3
    /\ UNCHANGED <<health, router, daemon, update, opkg, notice, counts, coreVars>>

Fetched(p) ==
    /\ proc[p].stage = "fetch"
    /\ IF proc[p].kind = "shell" THEN UNCHANGED ipk ELSE ipk' = proc[p].prev
    /\ OnTo(p, "verify")
    /\ UNCHANGED <<health, router, daemon, update, opkg, notice, counts, coreVars>>

FetchFails(p) ==
    /\ proc[p].stage = "fetch" /\ Fault
    /\ IF proc[p].kind = "shell" THEN UNCHANGED ipk ELSE ipk' = 0
    /\ OnTo(p, "start")
    /\ UNCHANGED <<health, router, daemon, update, opkg, notice, coreVars>>

(* verifyIPK refuses a file that is not the release's, when the release's sums can be had; then
   opkg, which refuses a part of a file and to run twice.  The script's own rollback checks
   nothing and has a file of its own. *)
InstallIPK(p) ==
    /\ proc[p].stage = "verify"
    /\ LET file == IF proc[p].kind = "shell" THEN proc[p].prev ELSE ipk
       IN  \/ /\ file \in Version /\ ~ OpkgBusy
              /\ opkg' = [by |-> p, stage |-> "prerm", ver |-> file]
              /\ OnTo(p, "opkg") /\ UNCHANGED ipk
           \/ /\ file # proc[p].prev \/ file \notin Version \/ OpkgBusy
              /\ ipk' = IF proc[p].kind = "shell" THEN ipk ELSE 0
              /\ OnTo(p, "start") /\ UNCHANGED opkg
    /\ UNCHANGED <<health, router, daemon, update, notice, counts, coreVars>>

(* opkg has returned: the marker and the file go; the script's rollback moved its marker away
   before it began. *)
Installed(p) ==
    /\ proc[p].stage = "clear"
    /\ IF proc[p].kind = "shell" THEN UNCHANGED <<marker, ipk>> ELSE marker' = 0 /\ ipk' = 0
    /\ OnTo(p, IF proc[p].kind = "hook" THEN "notice" ELSE "start")
    /\ UNCHANGED <<health, router, daemon, age, lock, chains, opkg, notice, counts, coreVars>>

writeAutoRollbackNotice(p) ==
    /\ proc[p].stage = "notice"
    /\ notice' = TRUE
    /\ OnTo(p, "start")
    /\ UNCHANGED <<health, router, daemon, update, opkg, ipk, counts, coreVars>>

execInitStart(p) ==
    /\ proc[p].stage = "start"
    /\ Start
    /\ Ends(p)
    /\ UNCHANGED <<health, router, update, opkg, ipk, notice, counts, coreVars>>

(* The hook is killed, or could not run at all: the script reads its exit status, and with a
   marker there it rolls back by itself, once, having moved the marker away. *)
HookKilled(p) ==
    /\ proc[p].kind = "hook" /\ proc[p].stage \in {"look", "sleep", "rollback", "fetch", "start"}
    /\ Fault
    /\ OnTo(p, "script")
    /\ UNCHANGED <<health, router, daemon, update, opkg, ipk, notice, coreVars>>

ScriptRollback(p) ==
    /\ proc[p].stage = "script"
    /\ IF Alive \/ marker = 0 \/ OpkgBusy
       THEN Ends(p) /\ UNCHANGED marker
       ELSE /\ proc' = [proc EXCEPT ![p].kind = "shell", ![p].stage = "fetch", ![p].prev = marker]
            /\ marker' = 0
    /\ UNCHANGED <<health, router, daemon, age, lock, chains, opkg, ipk, notice, counts, coreVars>>

ProcStep(p) ==
    \/ FirstLook(p) \/ SecondLook(p) \/ Rollback(p) \/ Fetched(p) \/ InstallIPK(p)
    \/ Installed(p) \/ writeAutoRollbackNotice(p) \/ execInitStart(p) \/ ScriptRollback(p)

-----------------------------------------------------------------------------
(* Commands of an operator, at the bot or a shell. *)

SelfRollback ==
    /\ CanRun(inst) /\ Command
    /\ \E p \in Proc :
          Free(p) /\ proc' = [proc EXCEPT ![p] = [NoProc EXCEPT !.kind = "cli", !.stage = "rollback"]]
    /\ UNCHANGED <<health, router, daemon, update, opkg, ipk, notice, coreVars>>

WatchdogSwitch ==
    /\ CanRun(inst) /\ ~ OpkgBusy /\ Command
    /\ cron' = ~ cron /\ declined' = cron /\ missed' = (missed /\ cron)
    /\ UNCHANGED <<health, inst, confirmed, daemon, update, opkg, proc, ipk, notice, coreVars>>

OperatorStarts ==
    /\ Start /\ Command /\ ~ Alive
    /\ UNCHANGED <<health, router, update, opkg, proc, ipk, notice, coreVars>>

CoreCommand ==
    /\ Command
    /\ \/ Serves /\ ((\E tag \in Tag : UpdateCore(tag)) \/ EnsureCore)
       \/ CanRun(inst) /\ (cmdEnsureXrayCore \/ cmdEnsureNaiveCore)
    /\ UNCHANGED <<health, router, daemon, update, opkg, proc, ipk, notice>>

(* The router restarts: what is on flash stays, the lock and a half-written file included; init
   starts the daemon.  Not in the middle of opkg: what a package half unpacked does is unknown. *)
Reboot ==
    /\ ~ OpkgBusy /\ Fault
    /\ daemon' = IF CanRun(inst) THEN [ver |-> inst, watch |-> "look"] ELSE NoDaemon
    /\ fetching' = 0 /\ span' = 0 /\ proc' = [p \in Proc |-> NoProc]
    /\ job' = [i \in Installer |-> Idle]
    /\ UNCHANGED <<health, router, marker, age, lock, opkg, ipk, notice, core, pin, temp>>

-----------------------------------------------------------------------------
Chain == ChainFails \/ ChainInstalls
Daemon == AgentStarts \/ Confirm \/ WindowOver \/ DaemonDies
Operator == SelfUpdate \/ SelfRollback \/ WatchdogSwitch \/ OperatorStarts \/ CoreCommand
Faults == Reboot \/ OpkgFails \/ \E p \in Proc : FetchFails(p) \/ HookKilled(p)

Next ==
    \/ Chain \/ Opkg \/ Daemon \/ Tick \/ Operator \/ Faults
    \/ \E p \in Proc : ProcStep(p)
    \/ CoresStep /\ UNCHANGED upVars

Spec == Init /\ [][Next]_vars

(* Processes and cron go on; commands and faults need not come, and a daemon that works need
   not die. *)
FairSpec ==
    /\ Spec
    /\ WF_vars(ChainInstalls \/ (ChainFails /\ OpkgBusy)) /\ WF_vars(Opkg) /\ WF_vars(Tick)
    /\ WF_vars(AgentStarts \/ Confirm \/ WindowOver \/ (DaemonDies /\ UNCHANGED faults))
    /\ \A p \in Proc : WF_vars(ProcStep(p))
    /\ \A i \in Installer : WF_vars(InstallerStep(i) /\ UNCHANGED upVars)

-----------------------------------------------------------------------------
TypeOK ==
    /\ inst \in Version /\ marker \in 0 .. 2 /\ age \in 0 .. AgeLimit /\ lock \in 0 .. Unlocked
    /\ daemon \in [ver: 0 .. 2, watch: {"off", "look", "watching"}]
    /\ fetching \in Nat /\ span \in Nat /\ ipk \in 0 .. 3
    /\ opkg \in [by: {"nobody", "chain"} \cup Proc, ver: Version,
                 stage: {"prerm", "files", "core", "setup", "start"}]
    /\ proc \in [Proc -> [kind: {"none", "hook", "cli", "shell"}, prev: 0 .. 2, late: BOOLEAN,
                          stage: ProcStage, doubt: BOOLEAN]]
    /\ core \in [Kind -> File] /\ pin \in Tag
    /\ job \in [Installer -> Job] /\ temp \in [Installer -> File]

(* A daemon that is down has someone to look after it: whenever opkg is not at work, the
   watchdog's entry is in cron, unless the operator took it out himself, or the last install
   ended without its postinst-setup having put it back.  prerm removes it in the middle of every
   update and rollback, and their failures, deaths and overlaps must not lose it otherwise. *)
SomeoneWillLook == ~ Alive /\ ~ OpkgBusy => cron \/ declined \/ missed

(* Without that excuse it is refuted: internal.go:189 calls what prerm does "a harmless
   tear-down-and-rebuild for an upgrade", and an upgrade whose setup fails, or whose opkg fails
   after prerm, is left without either a daemon or anyone to look after it. *)
HarmlessTearDown == ~ Alive /\ ~ OpkgBusy => cron \/ declined

Undoes(p) == proc[p].kind = "hook" /\ opkg.by # p /\ opkg'.by = p /\ opkg'.ver # inst

(* What the watchdog's hook installs another version over had not been in the air, since it was
   installed, when the hook set out to fetch that other version (selfupdate.go: "a rollback is
   the one thing here that must never fire on a false alarm").  What comes into the air while
   the hook downloads is replaced all the same: there is no look after the download. *)
OnlyUnconfirmedIsUndone == [][\A p \in Proc : Undoes(p) => proc[p].doubt]_vars

(* So a version that is in the air can be undone: refuted. *)
NeverUndone == [][\A p \in Proc : Undoes(p) => ~ confirmed]_vars

(* Two updates at once, which commands.go says the lock is there against ("two overlapping opkg
   installs, two prerm/postinst cycles"): refuted, the lock being written on best effort. *)
OneChain == Chains <= 1

(* A build that dies at start is undone: an update that left a marker of its own and starts such
   a version, with no rollback of an earlier one and no second update under way, ends on the version it left, running,
   when downloads are quicker than cron's schedule and no package's setup failed on the way
   (selfupdate.go: "rather than blindly restart the same broken build every 2 minutes forever"). *)
BadBuildIsUndone ==
    (/\ opkg.by = "chain" /\ opkg.stage = "start" /\ ~ Alive /\ fetching = 0
     /\ inst = 2 /\ marker = 1 /\ age <= ChainTicks /\ health[2] = "dies" /\ \A p \in Proc : Free(p))
        ~> ((inst = 1 /\ Alive) \/ declined \/ missed)
=============================================================================
