---------------------------- MODULE FailoverProofs ----------------------------
(***************************************************************************)
(* Proofs about the failover daemon, for every set of servers and of       *)
(* configurations: its type invariant, that the machine's state tells the  *)
(* truth about what production runs, and that health checks never switch   *)
(* on less evidence than the configuration asks for.  Then about the gate  *)
(* beside it, which takes the TUN interface down while its tunnel is dead. *)
(***************************************************************************)
EXTENDS Failover, TunGate, WellFoundedInduction, TLAPS

-----------------------------------------------------------------------------
(* The pool has a first candidate *)

LessThan == {ss \in Nat \X Nat : ss[1] < ss[2]}

\* Every non-empty set of positions has a first one: the loop of
\* RotateBackupCandidate over cfg.Profiles stops at a definite candidate.
LEMMA LeastElement ==
    ASSUME NEW T, T \subseteq Nat, T # {}
    PROVE  \E x \in T : \A y \in T : x <= y
<1>1. IsWellFoundedOn(LessThan, Nat)
  <2>1. LessThan = OpToRel(<, Nat)
    BY DEF LessThan, OpToRel
  <2> QED BY <2>1, NatLessThanWellFounded
<1>2. PICK x \in T : \A y \in T : ~(<<y, x>> \in LessThan)
  BY <1>1, WFMin
<1>3. ASSUME NEW y \in T PROVE x <= y
  <2>1. x \in Nat /\ y \in Nat /\ ~(<<y, x>> \in LessThan)
    BY <1>2
  <2>2. ~(y < x)
    BY <2>1 DEF LessThan
  <2> QED BY <2>1, <2>2
<1> QED BY <1>3

\* The fields of a loaded configuration.
LEMMA ConfigFields ==
    ASSUME NEW c \in Configs
    PROVE  /\ c.Profiles \in Seq(Profile)
           /\ c.primary \in Profile \cup {None} /\ c.backup \in Profile \cup {None}
           /\ c.FailuresRequired \in Nat \ {0}
           /\ c.RecoverySuccessesRequired \in Nat \ {0}
           /\ c.CooldownCycles \in Nat /\ c.RollbackBackoff \in Nat
           /\ c.FailuresRequired <= StreakBound
           /\ c.RecoverySuccessesRequired <= StreakBound
BY ConfigAssumption, StreakAssumption DEF ConfigType

\* What RotateBackupCandidate picks is a profile that is neither the primary
\* nor tried.
LEMMA FirstCandidateIsCandidate ==
    ASSUME TypeOK, Candidates # {}
    PROVE  FirstCandidate \in Profile \ (Tried \cup {cfg.primary})
<1>1. cfg.Profiles \in Seq(Profile)
  BY ConfigFields DEF TypeOK
<1>2. Candidates \subseteq Nat
  BY <1>1 DEF Candidates
<1>3. \E i \in Candidates : \A j \in Candidates : i <= j
  BY <1>2, LeastElement
<1>4. PICK i \in Candidates : FirstCandidate = cfg.Profiles[i]
  BY <1>3 DEF FirstCandidate
<1> QED BY <1>1, <1>4 DEF Candidates

\* The pool bookkeeping of an episode names profiles.
LEMMA TriedType ==
    ASSUME TypeOK
    PROVE  Tried \subseteq Profile
BY ConfigFields, ProfileAssumption DEF TypeOK, Tried, CurrentBackup

-----------------------------------------------------------------------------
(* Type correctness *)

\* SwitchLiveTo keeps what it writes in range, whatever it was called with.
LEMMA SwitchType ==
    ASSUME TypeOK, NEW c \in Configs, NEW role \in Role,
           NEW override \in Profile \cup {None}, NEW tried \in SUBSET Profile,
           NEW outcome, SwitchLiveTo(role, c, override, tried, outcome)
    PROVE  /\ backupOverride' \in Profile \cup {None}
           /\ backupTried' \in SUBSET Profile
           /\ prodNaive' \in NaiveProfile \cup {None}
           /\ running' \in Profile \cup {None}
           /\ liveRole' \in Role
<1>1. RoleProfile(role, c, override) \in Profile \cup {None}
  BY ConfigFields DEF RoleProfile, CurrentBackup
<1> QED BY <1>1 DEF SwitchLiveTo, RoleAfter, TypeOK, EnsureNaiveSidecar, Sidecar

\* Starting the isolated instance runs a profile, or none.
LEMMA PretestType ==
    ASSUME TypeOK, StartIsolatedPretest
    PROVE  pretest' \in Profile \cup {None} /\ pretestNaive' \in NaiveProfile \cup {None}
BY ConfigFields DEF StartIsolatedPretest, TypeOK, EnsureNaiveSidecar, Sidecar

\* A cooldown lasts a tick at least, and stands for a steady state.
LEMMA CooldownType ==
    ASSUME TypeOK, NEW next \in AfterCooldown, EnterCooldown(next)
    PROVE  /\ state' \in State /\ cooldownNext' \in AfterCooldown
           /\ cooldownRemaining' \in Nat
           /\ state' = "Cooldown" => cooldownRemaining' > 0
BY ConfigFields DEF EnterCooldown, TypeOK, State, AfterCooldown

\* The history counts up to its bound.
LEMMA StreakType ==
    ASSUME NEW n \in 0..StreakBound, NEW more \in BOOLEAN
    PROVE  Streak(n, more) \in 0..StreakBound
BY StreakAssumption DEF Streak

\* A live probe keeps the history in range,
LEMMA LiveProbedType ==
    ASSUME TypeOK, NEW ok \in BOOLEAN, LiveProbed(ok)
    PROVE  liveStreak' \in 0..StreakBound /\ isoStreak' \in 0..StreakBound /\ held' \in Nat
BY StreakType DEF LiveProbed, TypeOK

\* and so does a switch.
LEMMA SwitchedType ==
    ASSUME TypeOK, Switched
    PROVE  liveStreak' \in 0..StreakBound /\ isoStreak' \in 0..StreakBound /\ held' \in Nat
BY StreakAssumption DEF Switched, TypeOK

\* One step of the machine.
LEMMA TickType ==
    ASSUME TypeOK, Tick
    PROVE  TypeOK'
<1> USE DEF TypeOK, daemonVars, envVars
<1>c. /\ cfg.FailuresRequired \in Nat \ {0} /\ cfg.CooldownCycles \in Nat
      /\ cfg.RollbackBackoff \in Nat /\ cfg.RecoverySuccessesRequired \in Nat \ {0}
  BY ConfigFields
<1>k. phase' = phase /\ cfg' = cfg /\ calm' = calm /\ up' = up
  BY DEF Tick
<1>1. CASE TickActivePrimary
  <2>1. CASE PrimaryAnswers
    BY <1>k, <2>1, LiveProbedType DEF PrimaryAnswers, liveVars, pretestVars
  <2>2. CASE PrimaryFails
    <3>1. consecutiveFailures' \in Nat
      BY <2>2 DEF PrimaryFails
    <3>2. liveStreak' \in 0..StreakBound /\ isoStreak' \in 0..StreakBound /\ held' \in Nat
      BY <2>2, LiveProbedType DEF PrimaryFails
    <3> QED BY <1>k, <2>2, <3>1, <3>2 DEF PrimaryFails, liveVars, pretestVars
  <2>3. CASE \E outcome \in Outcome : FailOver(outcome)
    <3>1. PICK outcome \in Outcome : FailOver(outcome)
      BY <2>3
    <3>2. CASE outcome = "ok"
      BY <1>c, <1>k, <3>1, <3>2, SwitchType, PretestType, CooldownType, SwitchedType
         DEF FailOver, Role, State, AfterCooldown
    <3>3. CASE outcome # "ok"
      BY <1>k, <3>1, <3>3, SwitchType, LiveProbedType
         DEF FailOver, NoCooldown, pretestVars, Role
    <3> QED BY <3>2, <3>3
  <2> QED BY <1>1, <2>1, <2>2, <2>3 DEF TickActivePrimary
<1>2. CASE TickActiveBackup
  <2>1. CASE BackoffRuns
    BY <1>k, <2>1 DEF BackoffRuns, BackoffElapsed, machineVars, counters, liveVars, pretestVars, historyVars
  <2>2. CASE BackoffOver
    BY <1>k, <2>2, PretestType, StreakAssumption DEF BackoffOver, BackoffElapsed, liveVars, State
  <2> QED BY <1>2, <2>1, <2>2 DEF TickActiveBackup
<1>3. CASE TickTestingRecovery
  <2>1. CASE BackupFails
    <3>1. backupFailures' \in Nat
      BY <2>1 DEF BackupFails
    <3>2. liveStreak' \in 0..StreakBound /\ isoStreak' \in 0..StreakBound /\ held' \in Nat
      BY <2>1, LiveProbedType DEF BackupFails
    <3> QED BY <1>k, <2>1, <3>1, <3>2 DEF BackupFails, liveVars, pretestVars
  <2>2. CASE \E outcome \in Outcome : Rotate(outcome)
    <3>1. PICK outcome \in Outcome : Rotate(outcome)
      BY <2>2
    <3>2. FirstCandidate \in Profile /\ Tried \in SUBSET Profile
      BY <3>1, FirstCandidateIsCandidate, TriedType DEF Rotate
    <3>3. CASE outcome = "ok"
      BY <1>c, <1>k, <3>1, <3>2, <3>3, SwitchType, CooldownType, StreakAssumption
         DEF Rotate, pretestVars, Role, State, AfterCooldown
    <3>4. CASE outcome # "ok"
      BY <1>k, <3>1, <3>2, <3>4, SwitchType, LiveProbedType
         DEF Rotate, NoCooldown, pretestVars, Role
    <3> QED BY <3>3, <3>4
  <2>3. CASE PoolExhausted
    BY <1>k, <2>3, LiveProbedType, TriedType DEF PoolExhausted, pretestVars
  <2>4. CASE \E ok \in BOOLEAN : PretestAnswered(ok)
    BY <1>k, <2>4, StreakType, StreakAssumption DEF PretestAnswered, liveVars, pretestVars
  <2>5. CASE \E outcome \in Outcome : FailBack(outcome)
    <3>1. PICK outcome \in Outcome : FailBack(outcome)
      BY <2>5
    <3>2. CASE outcome = "ok"
      <4>1. /\ backupOverride' \in Profile \cup {None} /\ backupTried' \in SUBSET Profile
            /\ prodNaive' \in NaiveProfile \cup {None} /\ running' \in Profile \cup {None}
            /\ liveRole' \in Role
        BY <3>1, SwitchType DEF FailBack, Role
      <4>2. liveStreak' \in 0..StreakBound /\ isoStreak' \in 0..StreakBound /\ held' \in Nat
        BY <3>1, <3>2, SwitchedType DEF FailBack
      <4> QED BY <1>k, <3>1, <3>2, <4>1, <4>2 DEF FailBack, StopIsolatedPretest, State
    <3>3. CASE outcome # "ok"
      <4>1. liveStreak' \in 0..StreakBound /\ isoStreak' \in 0..StreakBound /\ held' \in Nat
        <5>1. Streak(isoStreak, TRUE) \in 0..StreakBound
          BY StreakType
        <5>2. liveStreak' = 0 /\ isoStreak' = Streak(isoStreak, TRUE) /\ held' = held
          BY <3>1, <3>3 DEF FailBack
        <5>3. 0 \in 0..StreakBound /\ held \in Nat
          BY StreakAssumption
        <5> QED BY <5>1, <5>2, <5>3, Zenon
      <4>2. /\ backupOverride' \in Profile \cup {None} /\ backupTried' \in SUBSET Profile
            /\ prodNaive' \in NaiveProfile \cup {None} /\ running' \in Profile \cup {None}
            /\ liveRole' \in Role
        BY <3>1, SwitchType DEF FailBack, Role
      <4> QED BY <1>k, <3>1, <3>3, <4>1, <4>2 DEF FailBack, pretestVars
    <3> QED BY <3>2, <3>3
  <2> QED BY <1>3, <2>1, <2>2, <2>3, <2>4, <2>5 DEF TickTestingRecovery
<1>4. CASE TickConfirmingRecovery
  <2>1. CASE RecoveryConfirmed
    BY <1>c, <1>k, <2>1, LiveProbedType, CooldownType
       DEF RecoveryConfirmed, liveVars, pretestVars, State, AfterCooldown
  <2>2. CASE StillSettling
    <3>1. confirmFailures' \in Nat
      BY <2>2 DEF StillSettling
    <3>2. liveStreak' \in 0..StreakBound /\ isoStreak' \in 0..StreakBound /\ held' \in Nat
      BY <2>2, LiveProbedType DEF StillSettling
    <3> QED BY <1>k, <2>2, <3>1, <3>2 DEF StillSettling, liveVars, pretestVars
  <2>3. CASE \E outcome \in Outcome : RollBack(outcome)
    <3>1. PICK outcome \in Outcome : RollBack(outcome)
      BY <2>3
    <3>2. CASE outcome = "ok"
      BY <1>c, <1>k, <3>1, <3>2, SwitchType, SwitchedType DEF RollBack, pretestVars, Role, State
    <3>3. CASE outcome # "ok"
      BY <1>k, <3>1, <3>3, SwitchType, LiveProbedType DEF RollBack, pretestVars, Role
    <3> QED BY <3>2, <3>3
  <2> QED BY <1>4, <2>1, <2>2, <2>3 DEF TickConfirmingRecovery
<1>5. CASE TickCooldown
  BY <1>k, <1>5 DEF TickCooldown, counters, liveVars, pretestVars, historyVars, State, AfterCooldown
<1> QED BY <1>1, <1>2, <1>3, <1>4, <1>5 DEF Tick

\* Commands, starting up, shutting down and time.
LEMMA NextType ==
    ASSUME TypeOK, [Next]_vars
    PROVE  TypeOK'
<1> USE DEF TypeOK
<1>1. CASE Tick
  BY <1>1, TickType
<1>2. CASE RunStep
  <2>1. PICK outcome \in Outcome : StartProduction(outcome)
    BY <1>2 DEF RunStep
  <2>2. liveStreak' \in 0..StreakBound /\ isoStreak' \in 0..StreakBound /\ held' \in Nat
    BY <2>1, SwitchedType DEF StartProduction, historyVars
  <2> QED BY <2>1, <2>2, SwitchType
          DEF StartProduction, machineVars, counters, pretestVars, envVars, Role, Phase
<1>3. CASE ForceSwitch
  <2>1. PICK outcome \in Outcome : ForcePrimary(outcome) \/ ForceBackup(outcome)
    BY <1>3 DEF ForceSwitch
  <2>2. /\ backupOverride' \in Profile \cup {None} /\ backupTried' \in SUBSET Profile
        /\ prodNaive' \in NaiveProfile \cup {None} /\ running' \in Profile \cup {None}
        /\ liveRole' \in Role
    BY <2>1, SwitchType DEF ForcePrimary, ForceBackup, Role
  <2>3. cfg.RollbackBackoff \in Nat
    BY ConfigFields
  <2>4. liveStreak' \in 0..StreakBound /\ isoStreak' \in 0..StreakBound /\ held' \in Nat
    BY <2>1, <2>3, StreakAssumption DEF ForcePrimary, ForceBackup, historyVars
  <2> USE DEF machineVars, counters, pretestVars, daemonVars, envVars, ResetByForce, State
  <2>5. CASE ForcePrimary(outcome)
    <3>1. pretest' \in Profile \cup {None} /\ pretestNaive' \in NaiveProfile \cup {None}
      BY <2>5 DEF ForcePrimary, StopIsolatedPretest
    <3> QED BY <2>2, <2>4, <2>5, <3>1 DEF ForcePrimary
  <2>6. CASE ForceBackup(outcome)
    BY <2>2, <2>3, <2>4, <2>6 DEF ForceBackup
  <2> QED BY <2>1, <2>5, <2>6
<1>4. CASE \E c \in Configs : ReloadConfig(c)
  <2>1. PICK c \in Configs : ReloadConfig(c)
    BY <1>4
  <2>2. /\ backupOverride' \in Profile \cup {None} /\ backupTried' \in SUBSET Profile
        /\ prodNaive' \in NaiveProfile \cup {None} /\ running' \in Profile \cup {None}
        /\ liveRole' \in Role
    BY <2>1, SwitchType DEF ReloadConfig
  <2> QED BY <2>1, <2>2
          DEF ReloadConfig, machineVars, counters, pretestVars, envVars, historyVars
<1>5. CASE Reapply
  BY <1>5, SwitchType
     DEF Reapply, machineVars, counters, pretestVars, daemonVars, envVars, historyVars
<1>6. CASE Shutdown
  BY <1>6 DEF Shutdown, StopIsolatedPretest, machineVars, counters, pretestVars, envVars,
              historyVars, Phase
<1>7. CASE Elapse
  BY <1>7 DEF Elapse, counters, liveVars, pretestVars, daemonVars, envVars
<1>8. CASE Settle
  BY <1>8 DEF Settle, machineVars, counters, liveVars, pretestVars, daemonVars, historyVars
<1>9. CASE UNCHANGED vars
  BY <1>9 DEF vars, machineVars, counters, liveVars, pretestVars, daemonVars, envVars, historyVars
<1> QED BY <1>1, <1>2, <1>3, <1>4, <1>5, <1>6, <1>7, <1>8, <1>9 DEF Next

\* Every variable of the daemon stays in its range: no counter is ever
\* negative, no role or state outside its type, no cooldown of no ticks.
THEOREM TypeCorrect == Spec => []TypeOK
<1>1. Init => TypeOK
  <2> SUFFICES ASSUME Init PROVE TypeOK
    OBVIOUS
  <2>1. 0 \in 0..StreakBound
    BY StreakAssumption
  <2>2. {} \subseteq Profile
    OBVIOUS
  <2>3. phase \in Phase
    BY DEF Init, Phase
  <2> QED BY <2>1, <2>2, <2>3 DEF Init, TypeOK, State, Role, AfterCooldown
<1>2. TypeOK /\ [Next]_vars => TypeOK'
  BY NextType
<1> QED BY <1>1, <1>2, PTL DEF Spec

-----------------------------------------------------------------------------
(* State and processes agree *)

\* Inductive as it stands, given types: the three consistency invariants.
Consistent == PrimaryStatesOnPrimary /\ PretestOnlyOnBackup /\ SubstituteEndsWithEpisode

\* What a switch does to the role and to the pool bookkeeping.
LEMMA SwitchEffect ==
    ASSUME NEW c, NEW role, NEW override, NEW tried, NEW outcome,
           SwitchLiveTo(role, c, override, tried, outcome)
    PROVE  /\ outcome = "ok" => liveRole' = role
           /\ outcome # "ok" => liveRole' = liveRole
           /\ role = "primary" => backupOverride' = None /\ backupTried' = {}
           /\ role # "primary" => backupOverride' = override /\ backupTried' = tried
BY DEF SwitchLiveTo, RoleAfter

\* The states of a recovery being tested, its cooldown included.
WaitingForPrimary ==
    \/ state = "TestingRecovery"
    \/ state = "Cooldown" /\ cooldownNext = "TestingRecovery"

\* A cooldown stands for the state it leads to.
LEMMA CooldownEffect ==
    ASSUME NEW next \in AfterCooldown, EnterCooldown(next)
    PROVE  /\ next = "ActivePrimary" => OnPrimary'
           /\ next = "TestingRecovery" => ~OnPrimary' /\ WaitingForPrimary'
           /\ state' \in {next, "Cooldown"} /\ cooldownNext' = next
BY DEF EnterCooldown, OnPrimary, WaitingForPrimary, AfterCooldown

\* No step of the machine makes it claim a role production does not have,
\* leaves an isolated instance behind or carries a substitute over.
LEMMA TickConsistent ==
    ASSUME TypeOK, Consistent, Tick
    PROVE  Consistent'
<1> USE DEF Consistent, PrimaryStatesOnPrimary, PretestOnlyOnBackup, SubstituteEndsWithEpisode,
            liveVars, pretestVars
<1>k. phase' = "loop" /\ phase = "loop" /\ cfg' = cfg
  BY DEF Tick, daemonVars
<1>1. CASE TickActivePrimary
  <2>0. OnPrimary
    BY <1>1 DEF TickActivePrimary, OnPrimary
  <2>1. CASE PrimaryAnswers \/ PrimaryFails
    BY <1>k, <2>1 DEF PrimaryAnswers, PrimaryFails, OnPrimary
  <2>2. CASE \E outcome \in Outcome : FailOver(outcome)
    <3>1. PICK outcome \in Outcome : FailOver(outcome)
      BY <2>2
    <3>2. backupOverride' = None /\ backupTried' = {}
      BY <2>0, <3>1, SwitchEffect DEF FailOver
    <3>3. CASE outcome = "ok"
      <4>1. ~OnPrimary'
        BY <3>1, <3>3, CooldownEffect DEF FailOver, AfterCooldown
      <4> QED BY <1>k, <3>2, <4>1
    <3>4. CASE outcome # "ok"
      BY <1>k, <2>0, <3>1, <3>2, <3>4, SwitchEffect DEF FailOver, NoCooldown, OnPrimary
    <3> QED BY <3>3, <3>4
  <2> QED BY <1>1, <2>1, <2>2 DEF TickActivePrimary
<1>2. CASE TickActiveBackup
  BY <1>k, <1>2 DEF TickActiveBackup, BackoffRuns, BackoffOver, BackoffElapsed, OnPrimary, machineVars
<1>3. CASE TickTestingRecovery
  <2>1. CASE BackupFails \/ \E ok \in BOOLEAN : PretestAnswered(ok)
    BY <1>k, <1>3, <2>1 DEF TickTestingRecovery, BackupFails, PretestAnswered, OnPrimary
  <2>2. CASE \E outcome \in Outcome : Rotate(outcome)
    <3>1. PICK outcome \in Outcome : Rotate(outcome)
      BY <2>2
    <3>2. backupOverride' = FirstCandidate /\ FirstCandidate # cfg.primary
      BY <3>1, SwitchEffect, FirstCandidateIsCandidate DEF Rotate
    <3>3. ~OnPrimary'
      <4>1. CASE outcome = "ok"
        BY <3>1, <4>1, CooldownEffect DEF Rotate, AfterCooldown
      <4>2. CASE outcome # "ok"
        BY <1>3, <3>1, <4>2 DEF Rotate, TickTestingRecovery, OnPrimary
      <4> QED BY <4>1, <4>2
    <3> QED BY <1>k, <3>2, <3>3
  <2>3. CASE PoolExhausted
    BY <1>k, <1>3, <2>3 DEF TickTestingRecovery, PoolExhausted, OnPrimary
  <2>4. CASE \E outcome \in Outcome : FailBack(outcome)
    <3>1. PICK outcome \in Outcome : FailBack(outcome)
      BY <2>4
    <3>2. backupOverride' = None /\ backupTried' = {}
      BY <3>1, SwitchEffect DEF FailBack
    <3>3. CASE outcome = "ok"
      BY <1>k, <3>1, <3>2, <3>3, SwitchEffect DEF FailBack, StopIsolatedPretest
    <3>4. CASE outcome # "ok"
      BY <1>3, <1>k, <3>1, <3>2, <3>4 DEF FailBack, TickTestingRecovery, OnPrimary
    <3> QED BY <3>3, <3>4
  <2> QED BY <1>3, <2>1, <2>2, <2>3, <2>4 DEF TickTestingRecovery
<1>4. CASE TickConfirmingRecovery
  <2>0. OnPrimary
    BY <1>4 DEF TickConfirmingRecovery, OnPrimary
  <2>1. CASE RecoveryConfirmed \/ StillSettling
    BY <1>k, <2>0, <2>1 DEF RecoveryConfirmed, StillSettling
  <2>2. CASE \E outcome \in Outcome : RollBack(outcome)
    <3>1. PICK outcome \in Outcome : RollBack(outcome)
      BY <2>2
    <3>2. backupOverride' = None /\ backupTried' = {}
      BY <2>0, <3>1, SwitchEffect DEF RollBack
    <3>3. CASE outcome = "ok"
      BY <1>k, <3>1, <3>2, <3>3 DEF RollBack, OnPrimary
    <3>4. CASE outcome # "ok"
      BY <1>k, <2>0, <3>1, <3>2, <3>4, SwitchEffect DEF RollBack
    <3> QED BY <3>3, <3>4
  <2> QED BY <1>4, <2>1, <2>2 DEF TickConfirmingRecovery
<1>5. CASE TickCooldown
  BY <1>k, <1>5 DEF TickCooldown, OnPrimary, TypeOK, AfterCooldown
<1> QED BY <1>1, <1>2, <1>3, <1>4, <1>5 DEF Tick

\* Nor does a command, however its switch ends, or the end of the daemon.
LEMMA NextConsistent ==
    ASSUME TypeOK, Consistent, [Next]_vars
    PROVE  Consistent'
<1> USE DEF Consistent, PrimaryStatesOnPrimary, PretestOnlyOnBackup, SubstituteEndsWithEpisode,
            OnPrimary, machineVars, pretestVars, daemonVars
<1>1. CASE Tick
  BY <1>1, TickConsistent
<1>2. CASE RunStep
  <2>1. PICK outcome \in Outcome : StartProduction(outcome)
    BY <1>2 DEF RunStep
  <2>2. backupOverride' = None /\ backupTried' = {} /\ liveRole' \in {liveRole, "primary"}
    BY <2>1, SwitchEffect DEF StartProduction
  <2> QED BY <2>1, <2>2 DEF StartProduction
<1>3. CASE ForceSwitch
  <2>1. PICK outcome \in Outcome : ForcePrimary(outcome) \/ ForceBackup(outcome)
    BY <1>3 DEF ForceSwitch
  <2>2. backupOverride' = None /\ backupTried' = {}
    BY <2>1, SwitchEffect DEF ForcePrimary, ForceBackup
  <2>3. CASE ForcePrimary(outcome) /\ outcome = "ok"
    BY <2>2, <2>3, SwitchEffect DEF ForcePrimary, StopIsolatedPretest
  <2>4. CASE ForceBackup(outcome) /\ outcome = "ok"
    BY <2>2, <2>4 DEF ForceBackup
  <2>5. CASE outcome # "ok"
    BY <2>1, <2>2, <2>5, SwitchEffect DEF ForcePrimary, ForceBackup
  <2> QED BY <2>1, <2>3, <2>4, <2>5
<1>4. CASE \E c \in Configs : ReloadConfig(c)
  <2>1. PICK c \in Configs : ReloadConfig(c)
    BY <1>4
  <2>2. backupOverride' = None /\ backupTried' = {} /\ liveRole' = liveRole
    BY <2>1, SwitchEffect DEF ReloadConfig
  <2> QED BY <2>1, <2>2 DEF ReloadConfig
<1>5. CASE Reapply
  <2>1. /\ liveRole' = liveRole
        /\ \/ backupOverride' = backupOverride /\ backupTried' = backupTried
           \/ backupOverride' = None /\ backupTried' = {}
    BY <1>5, SwitchEffect DEF Reapply
  <2> QED BY <1>5, <2>1 DEF Reapply
<1>6. CASE Shutdown
  BY <1>6 DEF Shutdown, StopIsolatedPretest
<1>7. CASE Elapse
  BY <1>7 DEF Elapse, liveVars
<1>8. CASE Settle
  BY <1>8 DEF Settle, liveVars
<1>9. CASE UNCHANGED vars
  BY <1>9 DEF vars, liveVars
<1> QED BY <1>1, <1>2, <1>3, <1>4, <1>5, <1>6, <1>7, <1>8, <1>9 DEF Next

\* State and role agree in every state the daemon can reach.
LEMMA AlwaysConsistent == Spec => []Consistent
<1>1. Init => Consistent
  BY DEF Init, Consistent, PrimaryStatesOnPrimary, PretestOnlyOnBackup,
         SubstituteEndsWithEpisode, OnPrimary
<1>2. TypeOK /\ Consistent /\ [Next]_vars => Consistent'
  BY NextConsistent
<1> QED BY <1>1, <1>2, TypeCorrect, PTL DEF Spec

\* The machine's primary states are never left standing over a production
\* that was last pointed at backup (FAIL-02).
THEOREM StateTellsTheTruth == Spec => []PrimaryStatesOnPrimary
<1>1. Consistent => PrimaryStatesOnPrimary
  BY DEF Consistent
<1> QED BY <1>1, AlwaysConsistent, PTL

\* No isolated instance outlives the wait for primary or the daemon's loop.
THEOREM PretestIsStopped == Spec => []PretestOnlyOnBackup
<1>1. Consistent => PretestOnlyOnBackup
  BY DEF Consistent
<1> QED BY <1>1, AlwaysConsistent, PTL

\* A pool substitute, and what was tried, end with the stay on backup.
THEOREM SubstituteEnds == Spec => []SubstituteEndsWithEpisode
<1>1. Consistent => SubstituteEndsWithEpisode
  BY DEF Consistent
<1> QED BY <1>1, AlwaysConsistent, PTL

-----------------------------------------------------------------------------
(* No switch without evidence *)

\* What the switching decisions stand on: each counter counts no more than the
\* probes in a row it is a count of, and is zero where nothing is being counted.
Evidence ==
    /\ phase \in {"idle", "starting", "single"} =>
          /\ state \in {"ActivePrimary", "ActiveBackup"}
          /\ consecutiveFailures = 0 /\ backupFailures = 0
    /\ IF state = "ActivePrimary" THEN consecutiveFailures <= liveStreak
                                   ELSE consecutiveFailures = 0
    /\ state = "ConfirmingRecovery" => confirmFailures <= liveStreak
    /\ liveRole = "primary" /\ ~OnPrimary => backupFailures <= liveStreak
    /\ isolatedSuccesses <= isoStreak
    /\ ~WaitingForPrimary => isolatedSuccesses = 0

\* A tick counts what its own probe answered, or starts over (machine.go).
LEMMA TickEvidence ==
    ASSUME TypeOK, Consistent, Evidence, Tick
    PROVE  Evidence'
<1> USE DEF Evidence, liveVars, pretestVars, AfterCooldown
<1>k. /\ phase' = "loop" /\ phase = "loop" /\ cfg' = cfg
      /\ cfg.FailuresRequired \in Nat \ {0} /\ cfg.FailuresRequired <= StreakBound
      /\ cfg.RecoverySuccessesRequired \in Nat \ {0}
      /\ cfg.RecoverySuccessesRequired <= StreakBound
  BY ConfigFields DEF Tick, daemonVars, TypeOK
<1>t. /\ liveStreak \in 0..StreakBound /\ isoStreak \in 0..StreakBound
      /\ consecutiveFailures \in Nat /\ backupFailures \in Nat
      /\ confirmFailures \in Nat /\ isolatedSuccesses \in Nat
      /\ StreakBound \in Nat
  BY StreakAssumption DEF TypeOK
<1>1. CASE TickActivePrimary
  <2>0. state = "ActivePrimary" /\ OnPrimary /\ ~WaitingForPrimary
    BY <1>1 DEF TickActivePrimary, OnPrimary, WaitingForPrimary
  <2>1. CASE PrimaryAnswers
    BY <1>k, <1>t, <2>0, <2>1 DEF PrimaryAnswers, LiveProbed, Streak, OnPrimary, WaitingForPrimary
  <2>2. CASE PrimaryFails
    BY <1>k, <1>t, <2>0, <2>2
       DEF PrimaryFails, LiveProbed, Streak, OnPrimary, WaitingForPrimary
  <2>3. CASE \E outcome \in Outcome : FailOver(outcome)
    <3>1. PICK outcome \in Outcome : FailOver(outcome)
      BY <2>3
    <3>2. CASE outcome = "ok"
      <4>1. liveRole' = "backup"
        BY <3>1, <3>2, SwitchEffect DEF FailOver
      <4>2. state' \in {"TestingRecovery", "Cooldown"} /\ WaitingForPrimary'
        BY <3>1, <3>2, CooldownEffect DEF FailOver
      <4> QED BY <1>k, <1>t, <2>0, <3>1, <3>2, <4>1, <4>2 DEF FailOver, Switched
    <3>3. CASE outcome # "ok"
      BY <1>k, <1>t, <2>0, <3>1, <3>3
         DEF FailOver, LiveProbed, Streak, NoCooldown, OnPrimary, WaitingForPrimary
    <3> QED BY <3>2, <3>3
  <2> QED BY <1>1, <2>1, <2>2, <2>3 DEF TickActivePrimary
<1>2. CASE TickActiveBackup
  BY <1>k, <1>t, <1>2
     DEF TickActiveBackup, BackoffRuns, BackoffOver, BackoffElapsed, OnPrimary, WaitingForPrimary, machineVars,
         counters, historyVars
<1>3. CASE TickTestingRecovery
  <2>0. state = "TestingRecovery" /\ ~OnPrimary /\ WaitingForPrimary
    BY <1>3 DEF TickTestingRecovery, OnPrimary, WaitingForPrimary
  <2>1. CASE BackupFails
    BY <1>k, <1>t, <2>0, <2>1
       DEF BackupFails, LiveProbed, Streak, OnPrimary, WaitingForPrimary
  <2>2. CASE \E outcome \in Outcome : Rotate(outcome)
    <3>1. PICK outcome \in Outcome : Rotate(outcome)
      BY <2>2
    <3>2. CASE outcome = "ok"
      <4>1. state' \in {"TestingRecovery", "Cooldown"} /\ WaitingForPrimary'
        BY <3>1, <3>2, CooldownEffect DEF Rotate
      <4>2. liveStreak' = 0
        BY <3>1, <3>2 DEF Rotate
      <4> QED BY <1>k, <1>t, <2>0, <3>1, <3>2, <4>1, <4>2 DEF Rotate
    <3>3. CASE outcome # "ok"
      BY <1>k, <1>t, <2>0, <3>1, <3>3
         DEF Rotate, LiveProbed, Streak, NoCooldown, WaitingForPrimary
    <3> QED BY <3>2, <3>3
  <2>3. CASE PoolExhausted
    BY <1>k, <1>t, <2>0, <2>3 DEF PoolExhausted, LiveProbed, Streak, WaitingForPrimary
  <2>4. CASE \E ok \in BOOLEAN : PretestAnswered(ok)
    <3>1. PICK ok \in BOOLEAN : PretestAnswered(ok)
      BY <2>4
    <3>2. isolatedSuccesses' <= isoStreak'
      <4>1. CASE ok = TRUE
        BY <1>k, <1>t, <3>1, <4>1 DEF PretestAnswered, Streak
      <4>2. CASE ok = FALSE
        BY <1>t, <3>1, <4>2 DEF PretestAnswered, Streak
      <4> QED BY <3>1, <4>1, <4>2
    <3> QED BY <1>k, <1>t, <2>0, <3>1, <3>2 DEF PretestAnswered, WaitingForPrimary
  <2>5. CASE \E outcome \in Outcome : FailBack(outcome)
    <3>1. PICK outcome \in Outcome : FailBack(outcome)
      BY <2>5
    <3>2. CASE outcome = "ok"
      BY <1>k, <1>t, <2>0, <3>1, <3>2
         DEF FailBack, Switched, OnPrimary, WaitingForPrimary
    <3>3. CASE outcome # "ok"
      BY <1>k, <1>t, <2>0, <3>1, <3>3 DEF FailBack, Streak, WaitingForPrimary
    <3> QED BY <3>2, <3>3
  <2> QED BY <1>3, <2>1, <2>2, <2>3, <2>4, <2>5 DEF TickTestingRecovery
<1>4. CASE TickConfirmingRecovery
  <2>0. state = "ConfirmingRecovery" /\ OnPrimary /\ ~WaitingForPrimary
    BY <1>4 DEF TickConfirmingRecovery, OnPrimary, WaitingForPrimary
  <2>1. CASE RecoveryConfirmed
    <3>1. state' \in {"ActivePrimary", "Cooldown"} /\ OnPrimary' /\ cooldownNext' = "ActivePrimary"
      BY <2>1, CooldownEffect DEF RecoveryConfirmed
    <3>2. liveStreak' = 0 /\ isoStreak' = isoStreak
      BY <2>1 DEF RecoveryConfirmed, LiveProbed, Streak
    <3> QED BY <1>k, <1>t, <2>0, <2>1, <3>1, <3>2 DEF RecoveryConfirmed, WaitingForPrimary
  <2>2. CASE StillSettling
    BY <1>k, <1>t, <2>0, <2>2
       DEF StillSettling, LiveProbed, Streak, OnPrimary, WaitingForPrimary
  <2>3. CASE \E outcome \in Outcome : RollBack(outcome)
    <3>1. PICK outcome \in Outcome : RollBack(outcome)
      BY <2>3
    <3>2. CASE outcome = "ok"
      <4>1. liveRole' = "backup"
        BY <3>1, <3>2, SwitchEffect DEF RollBack
      <4> QED BY <1>k, <1>t, <2>0, <3>1, <3>2, <4>1 DEF RollBack, Switched, WaitingForPrimary
    <3>3. CASE outcome # "ok"
      BY <1>k, <1>t, <2>0, <3>1, <3>3
         DEF RollBack, LiveProbed, Streak, OnPrimary, WaitingForPrimary
    <3> QED BY <3>2, <3>3
  <2> QED BY <1>4, <2>1, <2>2, <2>3 DEF TickConfirmingRecovery
<1>5. CASE TickCooldown
  <2>1. state = "Cooldown" /\ state' \in {"Cooldown", cooldownNext} /\ cooldownNext' = cooldownNext
    BY <1>5 DEF TickCooldown
  <2>2. OnPrimary' <=> OnPrimary
    BY <2>1 DEF TypeOK, OnPrimary
  <2>3. WaitingForPrimary' <=> WaitingForPrimary
    BY <2>1 DEF TypeOK, WaitingForPrimary
  <2> QED BY <1>k, <1>t, <1>5, <2>1, <2>2, <2>3
          DEF TickCooldown, TypeOK, counters, historyVars
<1> QED BY <1>1, <1>2, <1>3, <1>4, <1>5 DEF Tick

\* Commands, switches and the daemon's start and end count nothing.
LEMMA NextEvidence ==
    ASSUME TypeOK, Consistent, Evidence, [Next]_vars
    PROVE  Evidence'
<1> USE DEF Evidence, machineVars, counters, historyVars, daemonVars, OnPrimary, WaitingForPrimary
<1>t. /\ liveStreak \in 0..StreakBound /\ isoStreak \in 0..StreakBound
      /\ backupFailures \in Nat /\ confirmFailures \in Nat /\ isolatedSuccesses \in Nat
  BY DEF TypeOK
<1>1. CASE Tick
  BY <1>1, TickEvidence
<1>2. CASE RunStep
  <2>1. PICK outcome \in Outcome : StartProduction(outcome)
    BY <1>2 DEF RunStep
  <2>2. CASE outcome = "ok"
    BY <1>t, <2>1, <2>2 DEF StartProduction, Switched
  <2>3. CASE outcome # "ok"
    <3>1. liveRole' = liveRole
      BY <2>1, <2>3, SwitchEffect DEF StartProduction
    <3> QED BY <1>t, <2>1, <2>3, <3>1 DEF StartProduction
  <2> QED BY <2>2, <2>3
<1>3. CASE ForceSwitch
  <2>1. PICK outcome \in Outcome : ForcePrimary(outcome) \/ ForceBackup(outcome)
    BY <1>3 DEF ForceSwitch
  <2>2. CASE ForcePrimary(outcome) /\ outcome = "ok"
    BY <1>t, <2>2 DEF ForcePrimary, ResetByForce
  <2>3. CASE ForceBackup(outcome) /\ outcome = "ok"
    <3>1. liveRole' = "backup"
      BY <2>3, SwitchEffect DEF ForceBackup
    <3> QED BY <1>t, <2>3, <3>1 DEF ForceBackup, ResetByForce
  <2>4. CASE outcome # "ok"
    <3>1. liveRole' = liveRole
      BY <2>1, <2>4, SwitchEffect DEF ForcePrimary, ForceBackup
    <3> QED BY <1>t, <2>1, <2>4, <3>1 DEF ForcePrimary, ForceBackup
  <2> QED BY <2>1, <2>2, <2>3, <2>4
<1>4. CASE \E c \in Configs : ReloadConfig(c)
  <2>1. PICK c \in Configs : ReloadConfig(c)
    BY <1>4
  <2>2. liveRole' = liveRole
    BY <2>1, SwitchEffect DEF ReloadConfig
  <2> QED BY <2>1, <2>2 DEF ReloadConfig
<1>5. CASE Reapply
  <2>1. liveRole' = liveRole
    BY <1>5, SwitchEffect DEF Reapply
  <2> QED BY <1>5, <2>1 DEF Reapply
<1>6. CASE Shutdown
  BY <1>6 DEF Shutdown
<1>7. CASE Elapse
  BY <1>7 DEF Elapse, liveVars
<1>8. CASE Settle
  BY <1>8 DEF Settle, liveVars
<1>9. CASE UNCHANGED vars
  BY <1>9 DEF vars, liveVars
<1> QED BY <1>1, <1>2, <1>3, <1>4, <1>5, <1>6, <1>7, <1>8, <1>9 DEF Next

\* The counters count no more than was seen, always.
LEMMA AlwaysEvidence == Spec => []Evidence
<1>1. Init => Evidence
  BY DEF Init, Evidence
<1>2. TypeOK /\ Consistent /\ Evidence /\ [Next]_vars => Evidence'
  BY NextEvidence
<1> QED BY <1>1, <1>2, TypeCorrect, AlwaysConsistent, PTL DEF Spec

\* A tick that takes production off primary follows FailuresRequired failing
\* live probes in a row: no count left over from before a switch helps it.
THEOREM FailoverNeedsFailures == Spec => NoHastyFailover
<1>1. ASSUME TypeOK, Consistent, Evidence, Tick, liveRole = "primary", liveRole' = "backup"
      PROVE  liveStreak + 1 >= cfg.FailuresRequired
  <2> USE <1>1 DEF Evidence
  <2>t. /\ cfg.FailuresRequired \in Nat /\ liveStreak \in Nat /\ consecutiveFailures \in Nat
        /\ backupFailures \in Nat /\ confirmFailures \in Nat
    BY ConfigFields, StreakAssumption DEF TypeOK
  <2>1. CASE TickActivePrimary
    <3>1. ~PrimaryAnswers /\ ~PrimaryFails
      BY DEF PrimaryAnswers, PrimaryFails, liveVars
    <3>2. consecutiveFailures + 1 >= cfg.FailuresRequired
      BY <2>1, <3>1 DEF TickActivePrimary, FailOver
    <3>3. consecutiveFailures <= liveStreak
      BY <2>1 DEF TickActivePrimary
    <3> QED BY <2>t, <3>2, <3>3
  <2>2. CASE TickActiveBackup
    BY <2>2 DEF TickActiveBackup, BackoffRuns, BackoffOver, BackoffElapsed, liveVars
  <2>3. CASE TickTestingRecovery
    <3>0. ~OnPrimary
      BY <2>3 DEF TickTestingRecovery, OnPrimary
    <3>1. ASSUME NEW outcome \in Outcome, FailBack(outcome) PROVE liveRole' # "backup"
      BY <3>1, SwitchEffect DEF FailBack
    <3>2. ~BackupFails /\ ~PoolExhausted /\ ~(\E ok \in BOOLEAN : PretestAnswered(ok))
      BY DEF BackupFails, PoolExhausted, PretestAnswered, liveVars
    <3>3. backupFailures + 1 >= cfg.FailuresRequired
      BY <2>3, <3>1, <3>2 DEF TickTestingRecovery, Rotate
    <3>4. backupFailures <= liveStreak
      BY <3>0
    <3> QED BY <2>t, <3>3, <3>4
  <2>4. CASE TickConfirmingRecovery
    <3>1. ~RecoveryConfirmed /\ ~StillSettling
      BY DEF RecoveryConfirmed, StillSettling, liveVars
    <3>2. confirmFailures + 1 >= cfg.FailuresRequired
      BY <2>4, <3>1 DEF TickConfirmingRecovery, RollBack
    <3>3. confirmFailures <= liveStreak
      BY <2>4 DEF TickConfirmingRecovery
    <3> QED BY <2>t, <3>2, <3>3
  <2>5. CASE TickCooldown
    BY <2>5 DEF TickCooldown, liveVars
  <2> QED BY <2>1, <2>2, <2>3, <2>4, <2>5 DEF Tick
<1>2. TypeOK /\ Consistent /\ Evidence /\ [Next]_vars
      => [Tick /\ liveRole = "primary" /\ liveRole' = "backup"
          => liveStreak + 1 >= cfg.FailuresRequired]_vars
  BY <1>1
<1> QED BY <1>2, TypeCorrect, AlwaysConsistent, AlwaysEvidence, PTL DEF Spec, NoHastyFailover

\* A tick that returns production to primary follows as many successful
\* isolated probes in a row as the configuration asks for.
THEOREM FailbackNeedsSuccesses == Spec => NoUntestedFailback
<1>1. ASSUME TypeOK, Consistent, Evidence, Tick, liveRole = "backup", liveRole' = "primary"
      PROVE  isoStreak + 1 >= cfg.RecoverySuccessesRequired
  <2> USE <1>1 DEF Evidence
  <2>t. /\ cfg.RecoverySuccessesRequired \in Nat /\ isoStreak \in Nat
        /\ isolatedSuccesses \in Nat
    BY ConfigFields, StreakAssumption DEF TypeOK
  <2>1. CASE TickActivePrimary
    BY <2>1 DEF TickActivePrimary, Consistent, PrimaryStatesOnPrimary, OnPrimary
  <2>2. CASE TickActiveBackup
    BY <2>2 DEF TickActiveBackup, BackoffRuns, BackoffOver, BackoffElapsed, liveVars
  <2>3. CASE TickTestingRecovery
    <3>1. ASSUME NEW outcome \in Outcome, Rotate(outcome) PROVE liveRole' = "backup"
      BY <3>1, SwitchEffect DEF Rotate
    <3>2. ~BackupFails /\ ~PoolExhausted /\ ~(\E ok \in BOOLEAN : PretestAnswered(ok))
      BY DEF BackupFails, PoolExhausted, PretestAnswered, liveVars
    <3>3. isolatedSuccesses + 1 >= cfg.RecoverySuccessesRequired
      BY <2>3, <3>1, <3>2 DEF TickTestingRecovery, FailBack
    <3> QED BY <2>t, <3>3
  <2>4. CASE TickConfirmingRecovery
    BY <2>4 DEF TickConfirmingRecovery, Consistent, PrimaryStatesOnPrimary, OnPrimary
  <2>5. CASE TickCooldown
    BY <2>5 DEF TickCooldown, liveVars
  <2> QED BY <2>1, <2>2, <2>3, <2>4, <2>5 DEF Tick
<1>2. TypeOK /\ Consistent /\ Evidence /\ [Next]_vars
      => [Tick /\ liveRole = "backup" /\ liveRole' = "primary"
          => isoStreak + 1 >= cfg.RecoverySuccessesRequired]_vars
  BY <1>1
<1> QED BY <1>2, TypeCorrect, AlwaysConsistent, AlwaysEvidence, PTL DEF Spec, NoUntestedFailback

-----------------------------------------------------------------------------
(* The operator's choice stands *)

\* What an operator's hold rests on: it lies within ActiveBackup, covered by
\* the backoff armed with it.
HeldBack == held <= backoff /\ (held > 0 => state = "ActiveBackup")

\* A hold is armed with its backoff, and both run down together.
LEMMA NextHeldBack ==
    ASSUME TypeOK, HeldBack, [Next]_vars
    PROVE  HeldBack'
<1> USE DEF HeldBack, machineVars, historyVars
<1>t. held \in Nat /\ backoff \in Nat /\ cfg.RollbackBackoff \in Nat
  BY ConfigFields DEF TypeOK
<1>1. CASE Tick
  <2>1. held' = held
    BY <1>1 DEF Tick, TickActivePrimary, PrimaryAnswers, PrimaryFails, FailOver,
       TickActiveBackup, BackoffRuns, BackoffOver, BackoffElapsed, TickTestingRecovery, BackupFails, Rotate,
       PoolExhausted, PretestAnswered, FailBack, TickConfirmingRecovery, RecoveryConfirmed,
       StillSettling, RollBack, TickCooldown, LiveProbed, Switched
  <2>2. CASE held = 0
    <3>1. backoff' \in Nat
      BY <1>1, TickType DEF TypeOK
    <3> QED BY <2>1, <2>2, <3>1
  <2>3. CASE held > 0
    <3>1. state = "ActiveBackup" /\ backoff > 0
      BY <1>t, <2>3
    <3>2. BackoffRuns
      BY <1>1, <3>1 DEF Tick, TickActivePrimary, TickActiveBackup, BackoffOver, BackoffElapsed,
                       TickTestingRecovery, TickConfirmingRecovery, TickCooldown
    <3> QED BY <3>2 DEF BackoffRuns
  <2> QED BY <1>t, <2>2, <2>3
<1>2. CASE RunStep
  BY <1>2 DEF RunStep, StartProduction, Switched
<1>3. CASE ForceSwitch
  BY <1>3, <1>t DEF ForceSwitch, ForcePrimary, ForceBackup
<1>4. CASE (\E c \in Configs : ReloadConfig(c)) \/ Reapply \/ Shutdown \/ Settle
  BY <1>4 DEF ReloadConfig, Reapply, Shutdown, Settle
<1>5. CASE Elapse
  BY <1>5, <1>t DEF Elapse
<1>6. CASE UNCHANGED vars
  BY <1>6 DEF vars
<1> QED BY <1>1, <1>2, <1>3, <1>4, <1>5, <1>6 DEF Next

\* No tick undoes an operator's switch to backup within the rollback backoff.
THEOREM OperatorBackupStands == Spec => HonoursOperatorBackup
<1>1. Init => HeldBack
  BY DEF Init, HeldBack
<1>2. TypeOK /\ HeldBack /\ [Next]_vars => HeldBack'
  BY NextHeldBack
<1>3. ASSUME TypeOK, HeldBack, Tick, held > 0
      PROVE  liveRole' = liveRole
  <2>1. state = "ActiveBackup" /\ backoff > 0
    BY <1>3 DEF HeldBack, TypeOK
  <2>2. BackoffRuns
    BY <1>3, <2>1 DEF Tick, TickActivePrimary, TickActiveBackup, BackoffOver, BackoffElapsed,
                     TickTestingRecovery, TickConfirmingRecovery, TickCooldown
  <2> QED BY <2>2 DEF BackoffRuns, liveVars
<1>4. TypeOK /\ HeldBack /\ [Next]_vars => [Tick /\ held > 0 => liveRole' = liveRole]_vars
  BY <1>3
<1> QED BY <1>1, <1>2, <1>4, TypeCorrect, PTL DEF Spec, HonoursOperatorBackup

-----------------------------------------------------------------------------
(* The gate of the TUN interface (TunGate), for any number of failures that *)
(* close it, any reconcilers and any number of outside events.              *)

\* The gate ends with the daemon, decides to close on evidence, is done opening
\* only when the interface is up, and the interface is down only while a gate
\* that has not reached its end knows it.
CloseHasEvidence == gate = "close" => streak >= FailsToClose
CountIsStreak == fails = streak
GateInDaemon == daemon = "exited" => gate = "gone"
OpenedIsUp == gate = "openDone" => admin = "up"
AbsentIsUp == there = "no" => admin = "up"
DownIsHeld == admin = "down" /\ ~ trouble
                => /\ daemon # "exited" /\ gate \notin {"starting", "gone"}
                   /\ closed \/ gate \in {"closeDone", "letGo"}

\* The type invariant in two halves: the flags, and everything else.
Flags == tunnel \in BOOLEAN /\ closed \in BOOLEAN /\ due \in BOOLEAN /\ trouble \in BOOLEAN

Ranges == /\ file \in {"on", "off"}
          /\ there \in {"no", "drifted", "sound"} /\ admin \in {"up", "down"}
          /\ daemon \in {"running", "stopping", "exited"}
          /\ gate \in {"starting", "waiting", "close", "closeDone", "open",
                       "openDone", "letGo", "lastOpen", "gone"}
          /\ fails \in 0 .. FailsToClose
          /\ seen \in {"none", "on", "off"}
          /\ rec \in [Reconciler -> {"idle", "begun", "intact", "present", "repair"}]
          /\ cli \in {"idle", "clear", "save"}
          /\ events \in 0 .. MaxEvents
          /\ streak \in 0 .. FailsToClose

Kept == /\ CloseHasEvidence /\ CountIsStreak /\ GateInDaemon
        /\ OpenedIsUp /\ AbsentIsUp /\ DownIsHeld

Held == Flags /\ Ranges /\ Kept

\* Counting a failed check stays in range.
LEMMA OneMoreInRange ==
    ASSUME NEW n \in 0 .. FailsToClose
    PROVE  OneMore(n) \in 0 .. FailsToClose
BY FailsToCloseAssumption DEF OneMore

\* The two halves are the type invariant.
LEMMA HalvesAreTypeOK == Flags /\ Ranges => TunTypeOK
BY DEF Flags, Ranges, TunTypeOK

\* The daemon starts with the interface as the operator left it: up.
LEMMA InitHeld == TunInit => Held
<1> SUFFICES ASSUME TunInit PROVE Held
  OBVIOUS
<1>1. Flags
  BY DEF TunInit, Flags
<1>2. Ranges
  BY FailsToCloseAssumption, MaxEventsAssumption DEF TunInit, Ranges
<1>3. Kept
  BY DEF TunInit, Kept, CloseHasEvidence, CountIsStreak, GateInDaemon, OpenedIsUp, AbsentIsUp,
         DownIsHeld
<1> QED BY <1>1, <1>2, <1>3 DEF Held

\* Every step keeps the flags Boolean (the handlers of TunGate, one case each).
LEMMA NextFlags == Flags /\ [TunNext]_tunVars => Flags'
<1> SUFFICES ASSUME Flags, [TunNext]_tunVars PROVE Flags'
  OBVIOUS
<1> USE DEF Flags, gateVars
<1>1. CASE Step
  <2>1. CASE StepOff
    BY <1>1, <2>1 DEF Step, StepOff, ReadConfig
  <2>2. CASE StepWorks
    BY <1>1, <2>2 DEF Step, StepWorks, ReadConfig
  <2>3. CASE StepFails
    BY <1>1, <2>3 DEF Step, StepFails, ReadConfig
  <2> QED BY <1>1, <2>1, <2>2, <2>3 DEF Step
<1>2. CASE Close
  BY <1>2 DEF Close, Set, Done, Refused, DoneWithError, ReadConfig
<1>3. CASE Open
  BY <1>3 DEF Open, Set, Done, Refused, DoneWithError, ReadConfig
<1>4. CASE LetGo
  BY <1>4 DEF LetGo, Set, Done, Refused, DoneWithError, ReadConfig
<1>5. CASE Record
  BY <1>5 DEF Record
<1>6. CASE StopGate
  BY <1>6 DEF StopGate
<1>7. CASE LastOpen
  BY <1>7 DEF LastOpen, Done, Refused, DoneWithError, ReadConfig
<1>8. CASE CacheExpires
  BY <1>8 DEF CacheExpires
<1>9. CASE \E r \in Reconciler : Reconcile(r)
  BY <1>9 DEF Reconcile, BeginReconcile, ChooseCheck, LookAtInterface, Repair, Apply, ToRec
<1>10. CASE Cli \/ TransportOn \/ TransportOff
  BY <1>10 DEF Cli, SaveOn, ClearOff, TransportOn, TransportOff, Apply
<1>11. CASE StartDaemon \/ StartGate \/ StopDaemon
  BY <1>11 DEF StartDaemon, StartGate, StopDaemon
<1>12. CASE ExitDaemon \/ CrashDaemon
  BY <1>12 DEF ExitDaemon, CrashDaemon, ProcessEnds
<1>13. CASE TunnelChanges \/ InterfaceLost
  BY <1>13 DEF TunnelChanges, InterfaceLost
<1>14. CASE UNCHANGED tunVars
  BY <1>14 DEF tunVars
<1> QED
  BY <1>1, <1>2, <1>3, <1>4, <1>5, <1>6, <1>7, <1>8, <1>9, <1>10, <1>11, <1>12, <1>13, <1>14
     DEF TunNext, Gate

\* Every step keeps the counts, steps and copies of the configuration in range.
LEMMA NextRanges == Ranges /\ [TunNext]_tunVars => Ranges'
<1> SUFFICES ASSUME Ranges, [TunNext]_tunVars PROVE Ranges'
  OBVIOUS
<1> USE FailsToCloseAssumption, MaxEventsAssumption
        DEF Ranges, ifaceVars, gateVars, Event, Quiet
<1>1. CASE Step
  <2>1. CASE StepOff
    BY <1>1, <2>1 DEF Step, StepOff, FailsWhenOff, ReadConfig, Config, Command
  <2>2. CASE StepWorks
    BY <1>1, <2>2 DEF Step, StepWorks, ReadConfig, Config
  <2>3. CASE StepFails
    BY <1>1, <2>3, OneMoreInRange DEF Step, StepFails, ReadConfig, Config, Command
  <2> QED BY <1>1, <2>1, <2>2, <2>3 DEF Step
<1>2. CASE Close
  BY <1>2 DEF Close, Set, Done, Refused, DoneWithError, ReadConfig, Config, Hiccup
<1>3. CASE Open
  BY <1>3 DEF Open, Set, Done, Refused, DoneWithError, ReadConfig, Config, Hiccup
<1>4. CASE LetGo
  BY <1>4 DEF LetGo, Set, Done, Refused, DoneWithError, ReadConfig, Config, Hiccup
<1>5. CASE Record
  BY <1>5 DEF Record
<1>6. CASE StopGate
  BY <1>6 DEF StopGate
<1>7. CASE LastOpen
  BY <1>7 DEF LastOpen, Done, Refused, DoneWithError, ReadConfig, Config, Hiccup
<1>8. CASE CacheExpires
  BY <1>8 DEF CacheExpires
<1>9. CASE \E r \in Reconciler : Reconcile(r)
  BY <1>9 DEF Reconcile, BeginReconcile, ChooseCheck, LookAtInterface, Repair, Apply, ToRec,
              Config, Hiccup
<1>10. CASE Cli \/ TransportOn \/ TransportOff
  BY <1>10 DEF Cli, SaveOn, ClearOff, TransportOn, TransportOff, Apply
<1>11. CASE StartDaemon \/ StartGate \/ StopDaemon
  BY <1>11 DEF StartDaemon, StartGate, StopDaemon
<1>12. CASE ExitDaemon \/ CrashDaemon
  BY <1>12 DEF ExitDaemon, CrashDaemon, ProcessEnds
<1>13. CASE TunnelChanges \/ InterfaceLost
  BY <1>13 DEF TunnelChanges, InterfaceLost
<1>14. CASE UNCHANGED tunVars
  BY <1>14 DEF tunVars
<1> QED
  BY <1>1, <1>2, <1>3, <1>4, <1>5, <1>6, <1>7, <1>8, <1>9, <1>10, <1>11, <1>12, <1>13, <1>14
     DEF TunNext, Gate

\* Every step keeps what the gate knows about the interface.
LEMMA NextKept == Held /\ [TunNext]_tunVars => Kept'
<1> SUFFICES ASSUME Held, [TunNext]_tunVars PROVE Kept'
  OBVIOUS
<1> USE DEF Held, Flags, Ranges, Kept, CloseHasEvidence, CountIsStreak, GateInDaemon,
            OpenedIsUp, AbsentIsUp, DownIsHeld, ifaceVars, gateVars
<1>1. CASE Step
  <2>1. CASE StepOff
    BY <1>1, <2>1 DEF Step, StepOff, FailsWhenOff, Command
  <2>2. CASE StepWorks
    BY <1>1, <2>2 DEF Step, StepWorks, ReadConfig
  <2>3. CASE StepFails
    BY <1>1, <2>3, FailsToCloseAssumption DEF Step, StepFails, Command
  <2> QED BY <1>1, <2>1, <2>2, <2>3 DEF Step
<1>2. CASE Close
  <2>1. GateInDaemon' /\ CountIsStreak' /\ CloseHasEvidence' /\ OpenedIsUp'
    BY <1>2 DEF Close, Set
  <2>2. AbsentIsUp'
    BY <1>2 DEF Close, Set, Done, Refused, DoneWithError
  <2>3. DownIsHeld'
    <3>1. gate = "close" /\ daemon' = daemon /\ closed' = closed
      BY <1>2 DEF Close, Set
    <3>2. \/ gate' = "closeDone"
          \/ gate' = "waiting" /\ admin' = admin /\ trouble' = trouble
          \/ gate' = "waiting" /\ trouble' = TRUE
      BY <1>2 DEF Close, Set, Refused
    <3> QED BY <3>1, <3>2
  <2> QED BY <2>1, <2>2, <2>3
<1>3. CASE Open
  BY <1>3 DEF Open, Set, Done, Refused, DoneWithError, ReadConfig
<1>4. CASE LetGo
  BY <1>4 DEF LetGo, Set, Done, Refused, DoneWithError, ReadConfig
<1>5. CASE Record
  BY <1>5 DEF Record
<1>6. CASE StopGate
  BY <1>6 DEF StopGate
<1>7. CASE LastOpen
  BY <1>7 DEF LastOpen, Done, Refused, DoneWithError, ReadConfig
<1>8. CASE CacheExpires
  BY <1>8 DEF CacheExpires
<1>9. CASE \E r \in Reconciler : Reconcile(r)
  BY <1>9 DEF Reconcile, BeginReconcile, ChooseCheck, LookAtInterface, Repair, Apply, ToRec
<1>10. CASE Cli \/ TransportOn \/ TransportOff
  BY <1>10 DEF Cli, SaveOn, ClearOff, TransportOn, TransportOff, Apply
<1>11. CASE StartDaemon \/ StartGate \/ StopDaemon
  BY <1>11 DEF StartDaemon, StartGate, StopDaemon
<1>12. CASE ExitDaemon \/ CrashDaemon
  BY <1>12 DEF ExitDaemon, CrashDaemon, ProcessEnds
<1>13. CASE TunnelChanges \/ InterfaceLost
  BY <1>13 DEF TunnelChanges, InterfaceLost
<1>14. CASE UNCHANGED tunVars
  BY <1>14 DEF tunVars
<1> QED
  BY <1>1, <1>2, <1>3, <1>4, <1>5, <1>6, <1>7, <1>8, <1>9, <1>10, <1>11, <1>12, <1>13, <1>14
     DEF TunNext, Gate

\* Held is inductive.
LEMMA NextHeld == Held /\ [TunNext]_tunVars => Held'
BY NextFlags, NextRanges, NextKept DEF Held

\* All of it holds in every state the daemon can reach.
LEMMA AlwaysHeld == TunSpec => []Held
BY InitHeld, NextHeld, PTL DEF TunSpec

\* Every flag, count, step and copy of the configuration stays in range.
THEOREM TunTypeCorrect == TunSpec => []TunTypeOK
BY AlwaysHeld, HalvesAreTypeOK, PTL DEF Held

\* For any FailsToClose and any reconcilers: while commands tell the truth, an
\* interface that is down is held by a running gate that knows it.
THEOREM InterfaceDownOnPurpose == TunSpec => []DownOnPurpose
<1>1. Held => DownOnPurpose
  BY DEF Held, Flags, Ranges, Kept, DownIsHeld, DownOnPurpose
<1> QED BY <1>1, AlwaysHeld, PTL

\* For any FailsToClose: only the gate closes the interface, and only on that
\* many failed checks in a row.
THEOREM ClosedOnEvidence == TunSpec => ClosesOnEvidence
<1> DEFINE A == admin = "up" /\ admin' = "down" => streak >= FailsToClose
<1>1. ASSUME Held, [TunNext]_tunVars PROVE [A]_tunVars
  <2> SUFFICES ASSUME admin = "up", admin' = "down" PROVE streak >= FailsToClose
    OBVIOUS
  <2> USE <1>1 DEF Held, Kept, CloseHasEvidence, ifaceVars
  <2>1. CASE Close
    BY <2>1 DEF Close, Set
  <2>2. ASSUME ~ Close PROVE FALSE
    <3>1. ~ (Step \/ Open \/ LetGo \/ Record \/ StopGate \/ LastOpen \/ CacheExpires)
      BY DEF Step, Open, LetGo, Set, Record, StopGate, LastOpen, CacheExpires, Done,
             Refused, DoneWithError
    <3>2. ~ \E r \in Reconciler : Reconcile(r)
      BY DEF Reconcile, BeginReconcile, ChooseCheck, LookAtInterface, Repair, Apply
    <3>3. ~ (Cli \/ TransportOn \/ TransportOff)
      BY DEF Cli, SaveOn, ClearOff, TransportOn, TransportOff, Apply
    <3>4. ~ (StartDaemon \/ StartGate \/ StopDaemon \/ ExitDaemon \/ CrashDaemon)
      BY DEF StartDaemon, StartGate, StopDaemon, ExitDaemon, CrashDaemon, ProcessEnds
    <3>5. ~ (TunnelChanges \/ InterfaceLost \/ UNCHANGED tunVars)
      BY DEF TunnelChanges, InterfaceLost, tunVars
    <3> QED BY <2>2, <3>1, <3>2, <3>3, <3>4, <3>5 DEF TunNext, Gate
  <2> QED BY <2>1, <2>2
<1> QED BY <1>1, AlwaysHeld, PTL DEF TunSpec, ClosesOnEvidence
=============================================================================
