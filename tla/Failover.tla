------------------------------ MODULE Failover ------------------------------
(***************************************************************************)
(* The failover daemon of internal/failover: the state machine (Machine,   *)
(* state.go), what it does to the xray and naive processes (realActions,   *)
(* daemon.go) and the loop that drives both (Daemon.Run).  Everything here *)
(* happens on Run's own goroutine, one tick or one command closure at a    *)
(* time, so each of those is one action.                                   *)
(*                                                                         *)
(* The network and the file system are the environment: until Settle a     *)
(* probe may answer anything and starting a process or writing a config    *)
(* may fail; from then on the set `up' of servers that work stays the same *)
(* and probes report it.                                                   *)
(***************************************************************************)
EXTENDS Naturals, Sequences

CONSTANTS
    Profile,        \* the servers a configuration can name (identity: ImportKey)
    NaiveProfile,   \* those reached through a naive sidecar process
    Configs,        \* the configurations that can be loaded
    None,           \* no profile: nil
    StreakBound     \* cap of the two history counters below

ConfigType == [Profiles : Seq(Profile),
               primary : Profile \cup {None},
               backup : Profile \cup {None},
               FailuresRequired : Nat \ {0},
               RecoverySuccessesRequired : Nat \ {0},
               CooldownCycles : Nat,
               RollbackBackoff : Nat]

ASSUME ProfileAssumption == None \notin Profile /\ NaiveProfile \subseteq Profile
ASSUME ConfigAssumption == Configs \subseteq ConfigType
ASSUME StreakAssumption ==
    /\ StreakBound \in Nat
    /\ \A c \in Configs : /\ c.FailuresRequired <= StreakBound
                          /\ c.RecoverySuccessesRequired <= StreakBound

Role == {"primary", "backup"}
State == {"ActivePrimary", "ActiveBackup", "TestingRecovery", "Cooldown",
          "ConfirmingRecovery"}
AfterCooldown == {"ActivePrimary", "TestingRecovery"}
Phase == {"idle", "starting", "single", "loop", "stopped"}

VARIABLES
    \* Machine
    state, consecutiveFailures, isolatedSuccesses, backupFailures,
    confirmFailures, cooldownRemaining, cooldownNext,
    backoff,            \* time left until backoffUntil
    \* realActions
    liveRole,
    running,            \* the profile production xray was last restarted on
    prodNaive,          \* the profile of the live production sidecar
    pretest,            \* the profile the isolated instance runs
    pretestNaive,       \* the profile of the live pretest sidecar
    backupOverride, backupTried,
    \* Daemon
    phase, cfg,
    \* environment
    calm, up,
    \* history, read by no action
    liveStreak,         \* failing live probes in a row since the last switch
    isoStreak,          \* successful isolated probes in a row this episode
    held                \* time the operator's choice of backup must still stand

counters == <<consecutiveFailures, isolatedSuccesses, backupFailures, confirmFailures>>
machineVars == <<state, counters, cooldownRemaining, cooldownNext, backoff>>
liveVars == <<liveRole, running, prodNaive, backupOverride, backupTried>>
pretestVars == <<pretest, pretestNaive>>
daemonVars == <<phase, cfg>>
envVars == <<calm, up>>
historyVars == <<liveStreak, isoStreak, held>>
vars == <<machineVars, liveVars, pretestVars, daemonVars, envVars, historyVars>>

-----------------------------------------------------------------------------
(* realActions *)

\* Where traffic through an xray instance leaves: its own profile, or for a
\* naive profile whatever the sidecar on the fixed local port is connected to.
ExitOf(profile, sidecar) ==
    IF profile \in NaiveProfile THEN sidecar ELSE profile

LiveExit == ExitOf(running, prodNaive)
PretestExit == ExitOf(pretest, pretestNaive)

\* What a probe through an instance with this exit may report.
ProbeResults(exit) ==
    IF calm THEN {exit \in up} ELSE IF exit = None THEN {FALSE} ELSE BOOLEAN

ProbeLive == ProbeResults(LiveExit)
ProbeIsolated == ProbeResults(PretestExit)

\* ensureNaiveSidecar stops the old sidecar before anything else.
Sidecar(profile) == IF profile \in NaiveProfile THEN profile ELSE None

\* How applying a profile can end.
Outcome == {"ok", "noProfile", "noSidecar", "notWritten"}
Outcomes(profile) ==
    IF profile = None THEN {"noProfile"}
    ELSE IF calm THEN {"ok"}
    ELSE {"ok", "notWritten"} \cup (IF profile \in NaiveProfile THEN {"noSidecar"} ELSE {})

SidecarKept(old, profile, outcome) == old     \* mutant: nothing restarted
EnsureNaiveSidecar(old, profile, outcome) ==
    IF outcome = "noProfile" THEN old
    ELSE IF outcome = "noSidecar" THEN None ELSE Sidecar(profile)

CurrentBackup(c, override) == IF override # None THEN override ELSE c.backup

RoleProfile(role, c, override) ==
    IF role = "primary" THEN c.primary ELSE CurrentBackup(c, override)

\* liveRole is set last, once production has been restarted.
RoleAfter(role, outcome) == IF outcome = "ok" THEN role ELSE liveRole

\* SwitchLiveTo(role) under configuration c, called with this override and
\* these tried candidates.
SwitchLiveTo(role, c, override, tried, outcome) ==
    LET profile == RoleProfile(role, c, override)
    IN  /\ outcome \in Outcomes(profile)
        /\ backupOverride' = IF role = "primary" THEN None ELSE override
        /\ backupTried' = IF role = "primary" THEN {} ELSE tried
        /\ prodNaive' = EnsureNaiveSidecar(prodNaive, profile, outcome)
        /\ running' = IF outcome = "ok" THEN profile ELSE running
        /\ liveRole' = RoleAfter(role, outcome)

StartIsolatedPretest ==
    \E outcome \in Outcomes(cfg.primary) :
        /\ pretestNaive' = EnsureNaiveSidecar(pretestNaive, cfg.primary, outcome)
        /\ pretest' = IF outcome = "ok" THEN cfg.primary ELSE pretest

StopIsolatedPretest == pretest' = None /\ pretestNaive' = None

\* RotateBackupCandidate: the pool's first profile that is neither primary nor
\* tried this episode, the current backup counting as tried.
TriedBefore == backupTried                    \* mutant: the current one forgotten
Tried == backupTried \cup ({CurrentBackup(cfg, backupOverride)} \ {None})
Candidates == {i \in DOMAIN cfg.Profiles :
                  cfg.Profiles[i] \notin Tried \cup {cfg.primary}}
FirstCandidate ==
    cfg.Profiles[CHOOSE i \in Candidates : \A j \in Candidates : i <= j]

-----------------------------------------------------------------------------
(* Machine *)

EnterCooldown(next) ==
    /\ cooldownRemaining' = cfg.CooldownCycles
    /\ cooldownNext' = next
    /\ state' = IF cfg.CooldownCycles = 0 THEN next ELSE "Cooldown"

NoCooldown == UNCHANGED <<cooldownRemaining, cooldownNext>>

\* History: the outcome of a probe, and a switch of production that ends every
\* run of probes.
Streak(n, more) == IF ~more THEN 0 ELSE IF n < StreakBound THEN n + 1 ELSE n
LiveProbed(ok) == liveStreak' = Streak(liveStreak, ~ok) /\ UNCHANGED <<isoStreak, held>>
Switched == liveStreak' = 0 /\ isoStreak' = 0 /\ UNCHANGED held

PrimaryAnswers ==
    /\ TRUE \in ProbeLive
    /\ consecutiveFailures' = 0
    /\ LiveProbed(TRUE)
    /\ UNCHANGED <<state, isolatedSuccesses, backupFailures, confirmFailures,
                   cooldownRemaining, cooldownNext, backoff, liveVars, pretestVars>>

PrimaryFails ==
    /\ FALSE \in ProbeLive
    /\ consecutiveFailures + 1 < cfg.FailuresRequired
    /\ consecutiveFailures' = consecutiveFailures + 1
    /\ LiveProbed(FALSE)
    /\ UNCHANGED <<state, isolatedSuccesses, backupFailures, confirmFailures,
                   cooldownRemaining, cooldownNext, backoff, liveVars, pretestVars>>

FailOver(outcome) ==
    /\ FALSE \in ProbeLive
    /\ consecutiveFailures + 1 >= cfg.FailuresRequired
    /\ consecutiveFailures' = 0
    /\ SwitchLiveTo("backup", cfg, backupOverride, backupTried, outcome)
    /\ IF outcome = "ok"
       THEN StartIsolatedPretest /\ EnterCooldown("TestingRecovery") /\ Switched
       ELSE LiveProbed(FALSE) /\ NoCooldown /\ UNCHANGED <<state, pretestVars>>
    /\ UNCHANGED <<isolatedSuccesses, backupFailures, confirmFailures, backoff>>

TickActivePrimary ==
    /\ state = "ActivePrimary"
    /\ \/ PrimaryAnswers
       \/ PrimaryFails
       \/ \E outcome \in Outcome : FailOver(outcome)

BackoffIgnored == TRUE                        \* mutant: the clock not read
BackoffElapsed == backoff = 0

BackoffRuns ==
    /\ ~BackoffElapsed
    /\ UNCHANGED <<machineVars, liveVars, pretestVars, historyVars>>

BackoffOver ==
    /\ BackoffElapsed
    /\ StartIsolatedPretest
    /\ isolatedSuccesses' = 0
    /\ state' = "TestingRecovery"
    /\ isoStreak' = 0
    /\ UNCHANGED <<consecutiveFailures, backupFailures, confirmFailures, backoff,
                   cooldownRemaining, cooldownNext, liveVars, liveStreak, held>>

TickActiveBackup ==
    /\ state = "ActiveBackup"
    /\ BackoffRuns \/ BackoffOver

BackupFails ==
    /\ FALSE \in ProbeLive
    /\ backupFailures + 1 < cfg.FailuresRequired
    /\ backupFailures' = backupFailures + 1
    /\ LiveProbed(FALSE)
    /\ UNCHANGED <<state, consecutiveFailures, isolatedSuccesses, confirmFailures,
                   cooldownRemaining, cooldownNext, backoff, liveVars, pretestVars>>

\* RotateBackupCandidate decides before the switch can fail, so a failed
\* rotation has still used its candidate up.
Rotate(outcome) ==
    /\ FALSE \in ProbeLive
    /\ backupFailures + 1 >= cfg.FailuresRequired
    /\ Candidates # {}
    /\ backupFailures' = 0
    /\ SwitchLiveTo("backup", cfg, FirstCandidate, Tried, outcome)
    /\ IF outcome = "ok"
       THEN /\ EnterCooldown("TestingRecovery")
            /\ liveStreak' = 0
            /\ UNCHANGED <<isoStreak, held>>
       ELSE LiveProbed(FALSE) /\ NoCooldown /\ UNCHANGED state
    /\ UNCHANGED <<consecutiveFailures, isolatedSuccesses, confirmFailures, backoff,
                   pretestVars>>

PoolExhausted ==
    /\ FALSE \in ProbeLive
    /\ backupFailures + 1 >= cfg.FailuresRequired
    /\ Candidates = {}
    /\ backupFailures' = 0
    /\ backupTried' = Tried
    /\ LiveProbed(FALSE)
    /\ UNCHANGED <<state, consecutiveFailures, isolatedSuccesses, confirmFailures,
                   cooldownRemaining, cooldownNext, backoff, liveRole, running,
                   prodNaive, backupOverride, pretestVars>>

\* The live backup answered; now the isolated instance is asked about primary.
PretestAnswered(ok) ==
    /\ TRUE \in ProbeLive
    /\ ok \in ProbeIsolated
    /\ backupFailures' = 0
    /\ isolatedSuccesses' = IF ok THEN isolatedSuccesses + 1 ELSE 0
    /\ ok => isolatedSuccesses + 1 < cfg.RecoverySuccessesRequired
    /\ liveStreak' = 0
    /\ isoStreak' = Streak(isoStreak, ok)
    /\ UNCHANGED <<state, consecutiveFailures, confirmFailures, cooldownRemaining,
                   cooldownNext, backoff, liveVars, pretestVars, held>>

FailBack(outcome) ==
    /\ TRUE \in ProbeLive
    /\ TRUE \in ProbeIsolated
    /\ isolatedSuccesses + 1 >= cfg.RecoverySuccessesRequired
    /\ backupFailures' = 0
    /\ isolatedSuccesses' = 0
    /\ SwitchLiveTo("primary", cfg, backupOverride, backupTried, outcome)
    /\ IF outcome = "ok"
       THEN /\ StopIsolatedPretest
            /\ confirmFailures' = 0
            /\ state' = "ConfirmingRecovery"
            /\ Switched
       ELSE /\ liveStreak' = 0
            /\ isoStreak' = Streak(isoStreak, TRUE)
            /\ UNCHANGED <<pretestVars, confirmFailures, state, held>>
    /\ UNCHANGED <<consecutiveFailures, cooldownRemaining, cooldownNext, backoff>>

TickTestingRecovery ==
    /\ state = "TestingRecovery"
    /\ \/ BackupFails
       \/ \E outcome \in Outcome : Rotate(outcome)
       \/ PoolExhausted
       \/ \E ok \in BOOLEAN : PretestAnswered(ok)
       \/ \E outcome \in Outcome : FailBack(outcome)

RecoveryConfirmed ==
    /\ TRUE \in ProbeLive
    /\ confirmFailures' = 0
    /\ EnterCooldown("ActivePrimary")
    /\ LiveProbed(TRUE)
    /\ UNCHANGED <<consecutiveFailures, isolatedSuccesses, backupFailures, backoff,
                   liveVars, pretestVars>>

StillSettling ==
    /\ FALSE \in ProbeLive
    /\ confirmFailures + 1 < cfg.FailuresRequired
    /\ confirmFailures' = confirmFailures + 1
    /\ LiveProbed(FALSE)
    /\ UNCHANGED <<state, consecutiveFailures, isolatedSuccesses, backupFailures,
                   cooldownRemaining, cooldownNext, backoff, liveVars, pretestVars>>

RollBack(outcome) ==
    /\ FALSE \in ProbeLive
    /\ confirmFailures + 1 >= cfg.FailuresRequired
    /\ confirmFailures' = 0
    /\ SwitchLiveTo("backup", cfg, backupOverride, backupTried, outcome)
    /\ IF outcome = "ok"
       THEN backoff' = cfg.RollbackBackoff /\ state' = "ActiveBackup" /\ Switched
       ELSE LiveProbed(FALSE) /\ UNCHANGED <<backoff, state>>
    /\ UNCHANGED <<consecutiveFailures, isolatedSuccesses, backupFailures,
                   cooldownRemaining, cooldownNext, pretestVars>>

TickConfirmingRecovery ==
    /\ state = "ConfirmingRecovery"
    /\ \/ RecoveryConfirmed
       \/ StillSettling
       \/ \E outcome \in Outcome : RollBack(outcome)

TickCooldown ==
    /\ state = "Cooldown"
    /\ cooldownRemaining' = cooldownRemaining - 1
    /\ state' = IF cooldownRemaining' = 0 THEN cooldownNext ELSE state
    /\ UNCHANGED <<counters, cooldownNext, backoff, liveVars, pretestVars, historyVars>>

Tick ==
    /\ phase = "loop"
    /\ \/ TickActivePrimary
       \/ TickActiveBackup
       \/ TickTestingRecovery
       \/ TickConfirmingRecovery
       \/ TickCooldown
    /\ UNCHANGED <<daemonVars, envVars>>

-----------------------------------------------------------------------------
(* Daemon *)

HasBackup(c) == c.backup # None /\ c.backup # c.primary

\* startProduction's first attempt and every retry; Run then decides, once,
\* whether there is anything to fail over to.
StartProduction(outcome) ==
    /\ phase = "starting"
    /\ SwitchLiveTo("primary", cfg, backupOverride, backupTried, outcome)
    /\ phase' = IF outcome # "ok" THEN phase
                ELSE IF HasBackup(cfg) THEN "loop" ELSE "single"
    /\ IF outcome = "ok" THEN Switched ELSE UNCHANGED historyVars
    /\ UNCHANGED <<machineVars, pretestVars, cfg, envVars>>

\* Commands are served in every phase of Run; the operator is done once calm.
Serving == phase # "stopped" /\ ~calm

ForceKeepsFailures ==                         \* mutant: a counter not cleared
    /\ isolatedSuccesses' = 0
    /\ confirmFailures' = 0
    /\ UNCHANGED <<consecutiveFailures, backupFailures, cooldownRemaining, cooldownNext>>
ForceKeepsSuccesses ==                        \* mutant: a counter not cleared
    /\ consecutiveFailures' = 0
    /\ confirmFailures' = 0
    /\ UNCHANGED <<isolatedSuccesses, backupFailures, cooldownRemaining, cooldownNext>>
ResetByForce ==
    /\ consecutiveFailures' = 0
    /\ isolatedSuccesses' = 0
    /\ confirmFailures' = 0
    /\ UNCHANGED <<backupFailures, cooldownRemaining, cooldownNext>>

ForcePrimary(outcome) ==
    /\ Serving
    /\ SwitchLiveTo("primary", cfg, backupOverride, backupTried, outcome)
    /\ IF outcome = "ok"
       THEN /\ StopIsolatedPretest
            /\ ResetByForce
            /\ backoff' = 0
            /\ state' = "ActivePrimary"
            /\ liveStreak' = 0 /\ isoStreak' = 0 /\ held' = 0
       ELSE UNCHANGED <<machineVars, pretestVars, historyVars>>
    /\ UNCHANGED <<daemonVars, envVars>>

ForceBackup(outcome) ==
    /\ Serving
    /\ SwitchLiveTo("backup", cfg, None, {}, outcome)
    /\ IF outcome = "ok"
       THEN /\ ResetByForce
            /\ backoff' = cfg.RollbackBackoff
            /\ state' = "ActiveBackup"
            /\ liveStreak' = 0 /\ isoStreak' = 0 /\ held' = cfg.RollbackBackoff
       ELSE UNCHANGED <<machineVars, historyVars>>
    /\ UNCHANGED <<pretestVars, daemonVars, envVars>>

ForceSwitch ==
    \E outcome \in Outcome : ForcePrimary(outcome) \/ ForceBackup(outcome)

\* The live role is applied again whatever phase and state the daemon is in;
\* an error of that is dropped.
ReloadConfig(c) ==
    /\ Serving
    /\ cfg' = c
    /\ IF c.primary # None
       THEN \E outcome \in Outcome : SwitchLiveTo(liveRole, c, None, {}, outcome)
       ELSE /\ backupOverride' = None
            /\ backupTried' = {}
            /\ UNCHANGED <<liveRole, running, prodNaive>>
    /\ UNCHANGED <<machineVars, pretestVars, phase, envVars, historyVars>>

\* RebindInbound, RefreshTunInbound and dropTunInbound: the same role written
\* out again because an inbound has to change.
Reapply ==
    /\ Serving
    /\ running # None \/ cfg.primary # None
    /\ \E outcome \in Outcome :
           SwitchLiveTo(liveRole, cfg, backupOverride, backupTried, outcome)
    /\ UNCHANGED <<machineVars, pretestVars, daemonVars, envVars, historyVars>>

\* ctx is cancelled.  Only the branches behind startProduction have their
\* deferred prod.Stop registered; only the full loop stops the pretest.
Shutdown ==
    /\ Serving
    /\ phase' = "stopped"
    /\ IF phase \in {"single", "loop"}
       THEN running' = None /\ prodNaive' = None
       ELSE UNCHANGED <<running, prodNaive>>
    /\ IF phase = "loop" THEN StopIsolatedPretest ELSE UNCHANGED pretestVars
    /\ UNCHANGED <<machineVars, liveRole, backupOverride, backupTried, cfg, envVars, historyVars>>

-----------------------------------------------------------------------------
(* Environment *)

Elapse ==
    /\ backoff > 0
    /\ backoff' = backoff - 1
    /\ held' = IF held > 0 THEN held - 1 ELSE 0
    /\ UNCHANGED <<state, counters, cooldownRemaining, cooldownNext, liveVars,
                   pretestVars, daemonVars, envVars, liveStreak, isoStreak>>

Settle ==
    /\ ~calm
    /\ calm' = TRUE
    /\ up' \in SUBSET Profile
    /\ UNCHANGED <<machineVars, liveVars, pretestVars, daemonVars, historyVars>>

Init ==
    /\ cfg \in Configs
    /\ phase = IF cfg.primary = None THEN "idle" ELSE "starting"
    /\ state = "ActivePrimary"
    /\ consecutiveFailures = 0 /\ isolatedSuccesses = 0
    /\ backupFailures = 0 /\ confirmFailures = 0
    /\ cooldownRemaining = 0 /\ cooldownNext = "ActivePrimary" /\ backoff = 0
    /\ liveRole = "primary" /\ running = None /\ prodNaive = None
    /\ pretest = None /\ pretestNaive = None
    /\ backupOverride = None /\ backupTried = {}
    /\ calm = FALSE /\ up = {}
    /\ liveStreak = 0 /\ isoStreak = 0 /\ held = 0

RunStep == \E outcome \in Outcome : StartProduction(outcome)

Next ==
    \/ Tick
    \/ RunStep
    \/ ForceSwitch
    \/ \E c \in Configs : ReloadConfig(c)
    \/ Reapply
    \/ Shutdown
    \/ Elapse
    \/ Settle

\* The ticker and the retry timer fire again and again and Run's select takes
\* them; time passes.
Fairness == WF_vars(Tick) /\ WF_vars(RunStep) /\ WF_vars(Elapse)

Spec == Init /\ [][Next]_vars
FairSpec == Spec /\ Fairness

-----------------------------------------------------------------------------
(* Properties *)

\* Every variable stays in its range, counters included.
TypeOK ==
    /\ state \in State /\ cooldownNext \in AfterCooldown
    /\ consecutiveFailures \in Nat /\ isolatedSuccesses \in Nat
    /\ backupFailures \in Nat /\ confirmFailures \in Nat
    /\ cooldownRemaining \in Nat /\ backoff \in Nat
    /\ liveRole \in Role
    /\ running \in Profile \cup {None} /\ prodNaive \in NaiveProfile \cup {None}
    /\ pretest \in Profile \cup {None} /\ pretestNaive \in NaiveProfile \cup {None}
    /\ backupOverride \in Profile \cup {None} /\ backupTried \subseteq Profile
    /\ phase \in Phase /\ cfg \in Configs
    /\ calm \in BOOLEAN /\ up \subseteq Profile
    /\ liveStreak \in 0..StreakBound /\ isoStreak \in 0..StreakBound /\ held \in Nat
    /\ state = "Cooldown" => cooldownRemaining > 0

\* The states in which the machine believes primary carries the traffic.
OnPrimary ==
    \/ state \in {"ActivePrimary", "ConfirmingRecovery"}
    \/ state = "Cooldown" /\ cooldownNext = "ActivePrimary"

\* FAIL-02: the machine never claims primary while production was last
\* pointed at backup, however switches, forced switches and reloads fail.
PrimaryStatesOnPrimary == OnPrimary => liveRole = "primary"

\* The isolated instance lives only while a recovery is being tested or waited
\* for: none is left behind by a return to primary, forced or automatic, nor by
\* the end of the daemon.
PretestOnlyOnBackup ==
    (OnPrimary \/ phase # "loop") => pretest = None /\ pretestNaive = None

\* A pool substitute is not the primary, and with its tried candidates it ends
\* with the episode: on primary the next failover starts from the configured
\* backup and has the whole pool before it.
SubstituteEndsWithEpisode ==
    /\ backupOverride # None => backupOverride # cfg.primary
    /\ OnPrimary => backupOverride = None /\ backupTried = {}

\* The health checks leave primary only after FailuresRequired failing live
\* probes in a row with no switch between them.
NoHastyFailover ==
    [][Tick /\ liveRole = "primary" /\ liveRole' = "backup"
        => liveStreak + 1 >= cfg.FailuresRequired]_vars

\* They return to primary only after RecoverySuccessesRequired successful
\* isolated probes in a row within this stay on backup.
NoUntestedFailback ==
    [][Tick /\ liveRole = "backup" /\ liveRole' = "primary"
        => isoStreak + 1 >= cfg.RecoverySuccessesRequired]_vars

\* An operator's switch to backup stands for the rollback backoff: no tick
\* undoes it earlier.
HonoursOperatorBackup ==
    [][Tick /\ held > 0 => liveRole' = liveRole]_vars

LiveWorks == running # None /\ LiveExit \in up

\* Once the network is calm, a daemon on a working backup returns to a primary
\* that works, provided its pretest runs or is still to be started.
PretestComing ==
    \/ state = "ActiveBackup" /\ cfg.primary \in up
    \/ pretest = cfg.primary /\ PretestExit \in up
FailsBack ==
    (calm /\ phase = "loop" /\ liveRole = "backup" /\ LiveWorks /\ PretestComing)
    ~> (liveRole = "primary" /\ LiveWorks)

\* With a working server left that failover has not tried this episode, the
\* daemon gets to a connection that works.
HopeLeft ==
    /\ cfg.backup # None
    /\ \/ OnPrimary /\ cfg.backup \in up
       \/ \E i \in Candidates : cfg.Profiles[i] \in up
FindsWorkingServer == (calm /\ phase = "loop" /\ HopeLeft) ~> LiveWorks

-----------------------------------------------------------------------------
(* What comments and documents promise and the code does not keep *)

\* README.md: "... and when the main one works again, it returns."
ReturnsWhenPrimaryWorks ==
    (calm /\ phase = "loop" /\ liveRole = "backup" /\ PretestComing)
    ~> (liveRole = "primary")

\* daemon.go: a pretest of the primary before a reload is replaced by the
\* state machine's own next cycle.
PretestCatchesUp ==
    (calm /\ phase = "loop" /\ state = "TestingRecovery" /\ pretest # cfg.primary)
    ~> (state # "TestingRecovery" \/ pretest = cfg.primary)

\* state.go: in StateActiveBackup backup is live.
ActiveBackupIsLive == state = "ActiveBackup" => liveRole = "backup"

\* daemon.go: the substitute is cleared the moment SwitchLiveTo(RolePrimary)
\* succeeds, not before.
SubstituteClearedOnSuccess ==
    [][Tick /\ backupOverride # None /\ backupOverride' = None
        => liveRole' = "primary"]_vars

\* state.go: RotateBackupCandidate is called when the live backup itself has
\* failed FailuresRequired checks in a row.
NoHastyRotation ==
    [][Tick /\ backupOverride' \notin {backupOverride, None}
        => liveStreak + 1 >= cfg.FailuresRequired]_vars

\* daemon.go: a setup that adds a real backup brings Run into the full loop.
BackupStartsFullLoop ==
    (calm /\ phase = "single" /\ HasBackup(cfg)) ~> (phase = "loop")

\* S99keenetic-xray: a daemon that exits takes its xray child with it.
StopTakesXrayDown == phase = "stopped" => running = None
=============================================================================
