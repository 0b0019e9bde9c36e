---------------------------- MODULE Proxy0Health ----------------------------
(***************************************************************************)
(* The health check that lets traffic fall back to the ISP while xray is   *)
(* dead: cmd/keenetic-xray/proxy0_health.go and proxy0.go over             *)
(* internal/keenetic/healthcheck.go.  A ping-check profile is built and    *)
(* bound to the Proxy interface command by command, by the daemon's start, *)
(* its reconcile pass and a retrier, by a shell and by the package's       *)
(* removal; the router keeps a running configuration and one in flash, and *)
(* a reboot returns to the latter.                                         *)
(*                                                                         *)
(* A step is one command to the router, one section under the daemon's     *)
(* mutex, or what lies between two of these.  The profile's host, port,    *)
(* interval and max-fails are one setting, `full'.                         *)
(***************************************************************************)
EXTENDS Naturals

CONSTANTS
    Iface,      \* Proxy interfaces
    Home,       \* the interface of a new configuration
    Reconciler, \* reconcile passes: the two-minute loop, the hook's signal
    Sites,      \* how the daemon may find config.json, the Proxy interface and the firmware
    None,
    MaxEvents,  \* bound: commands, reboots, crashes, drift
    MaxFaults   \* bound: commands the router refuses or answers too late

ASSUME Proxy0HealthAssumption ==
    /\ Home \in Iface /\ None \notin {"default", "tls", "soon", "hour"}
    /\ {"startup", "retrier", "cli", "purge"} \cap Reconciler = {}
    /\ Sites \subseteq [enabled : BOOLEAN, off : BOOLEAN, used : BOOLEAN, tls : BOOLEAN]
    /\ MaxEvents \in Nat /\ MaxFaults \in Nat

Daemon == Reconciler \cup {"startup", "retrier"}
Job == Daemon \cup {"cli", "purge"}

VARIABLES
    run,    \* the running configuration: the profile and the interfaces
    flash,  \* the configuration in flash
    cfg,    \* config.json: proxy0
    job,    \* what each job is doing
    health, \* proxy0Health of the daemon
    tlsOK,  \* KeeneticOS 4.0 or newer
    purged, \* prerm --purge has begun: the daemon is gone for good
    forgot, \* history: the process that knew of an unsaved change has ended
    events, faults

vars == <<run, flash, cfg, job, health, tlsOK, purged, forgot, events, faults>>

(* The router: the profile's mode (None while there is no profile), its other settings,
   the interfaces it is bound to, those whose upstream is this project's port, those up. *)
Router == [mode : {None, "default", "tls"}, full : BOOLEAN, on : SUBSET Iface,
           ours : SUBSET Iface, up : SUBSET Iface]
Bare == [mode |-> None, full |-> FALSE, on |-> {}, ours |-> {}, up |-> {}]
Wanted(r) == r.mode = "tls" /\ r.full
InPlace(r, i) == Wanted(r) /\ i \in r.on

Config == [iface : Iface, enabled : BOOLEAN, off : BOOLEAN]
Fresh == [osOK |-> FALSE, unsupported |-> FALSE, refused |-> FALSE, retrying |-> FALSE, unsaved |-> FALSE]

(* An attempt: where it is, the configuration it loaded, what it wants of a command line,
   the bindings it read, whether it has changed the check, its context's end, its error. *)
Place == {"idle", "wait", "olddown", "oldsave", "upstream", "up", "saveup", "readup", "store",
          "check", "inuse", "version", "read", "make", "mode", "rest", "others", "bind", "verify",
          "save", "resave", "unsaved", "rread", "unbind0", "delete", "dsave", "settle",
          "succeeded", "failed", "retry", "purge", "down", "savedown", "end"}
JobState == [pc : Place, cfg : Config \cup {None}, cur : SUBSET Iface,
             chg : BOOLEAN, late : BOOLEAN, err : {None, "soon", "hour"}]
Idle == [pc |-> "idle", cfg |-> None, cur |-> {}, chg |-> FALSE, late |-> FALSE, err |-> None]

Init ==
    /\ \E site \in Sites :
          /\ cfg = [iface |-> Home, enabled |-> site.enabled, off |-> site.off]
          /\ run = (IF site.used THEN [Bare EXCEPT !.ours = {Home}, !.up = {Home}] ELSE Bare)
          /\ flash = run /\ tlsOK = site.tls
    /\ job = [j \in Job |-> IF j = "startup" THEN [Idle EXCEPT !.pc = "upstream", !.cfg = cfg] ELSE Idle]
    /\ health = Fresh /\ purged = FALSE /\ forgot = FALSE /\ events = 0 /\ faults = 0

Event == events < MaxEvents /\ events' = events + 1 /\ UNCHANGED faults
Fault == faults < MaxFaults /\ faults' = faults + 1 /\ UNCHANGED events
Smooth == UNCHANGED <<events, faults>>

----------------------------------------------------------------------------
At(j, pc) == job[j].pc = pc
Put(j, r) == job' = [job EXCEPT ![j] = IF r.pc = "end" /\ j # "retrier" THEN Idle ELSE r]
Goes(j, pc) == Put(j, [job[j] EXCEPT !.pc = pc])
Fails(j, e, pc) == Put(j, [job[j] EXCEPT !.pc = pc, !.err = IF @ = None THEN e ELSE @])
Local == UNCHANGED <<run, flash, cfg, tlsOK, purged>>

(* Two kinds of router commands: those that turn the running configuration into r, and
   `system configuration save'.  `Does' sends one and goes on at `then'; refused, or past
   its context's end, it goes on at `else'.  A late command may have taken effect; in an
   ended context none is sent at all. *)
Becomes(r) == run' = r /\ UNCHANGED <<flash, forgot>>
SaveConfig == flash' = run /\ forgot' = FALSE /\ UNCHANGED run
Unsent == UNCHANGED <<run, flash, forgot>>
Does(j, effect, then, else) ==
    /\ \/ ~job[j].late /\ effect /\ Goes(j, then) /\ Smooth
       \/ job[j].late /\ Unsent /\ Fails(j, "soon", else) /\ Smooth
       \/ ~job[j].late /\ Unsent /\ Fails(j, "hour", else) /\ Fault
       \/ /\ ~job[j].late /\ (effect \/ Unsent) /\ Fault
          /\ Put(j, [job[j] EXCEPT !.pc = else, !.late = TRUE, !.err = IF @ = None THEN "soon" ELSE @])
    /\ UNCHANGED <<cfg, health, tlsOK, purged>>

(* A read of the router: `seen' says where the job goes on. *)
Reads(j, seen, else) ==
    /\ \/ ~job[j].late /\ seen /\ Smooth
       \/ job[j].late /\ Fails(j, "soon", else) /\ Smooth
       \/ ~job[j].late /\ Fails(j, "hour", else) /\ Fault
       \/ /\ ~job[j].late /\ Fault
          /\ Put(j, [job[j] EXCEPT !.pc = else, !.late = TRUE, !.err = IF @ = None THEN "soon" ELSE @])
    /\ UNCHANGED <<health, forgot>> /\ Local

----------------------------------------------------------------------------
(* The upstream: ConfigureProxy0, at the daemon's start, on drift in a pass, by `proxy0 set'.
   Each part of the work has a budget of its own. *)
I(j) == job[j].cfg.iface
AfterUpstream(j) == IF j = "cli" THEN "end" ELSE "check"
Upstream(j) ==
    /\ At(j, "upstream")
    /\ IF ~job[j].cfg.enabled \/ (j \in Reconciler /\ I(j) \in run.ours)
       THEN Goes(j, "check") /\ Smooth /\ Local /\ UNCHANGED <<health, forgot>>
       ELSE Does(j, Becomes([run EXCEPT !.ours = @ \cup {I(j)}]), "up", AfterUpstream(j))
BringsUp(j) ==
    At(j, "up") /\ Does(j, Becomes([run EXCEPT !.up = @ \cup {I(j)}]), "saveup", AfterUpstream(j))
SavesUp(j) ==
    At(j, "saveup") /\ Does(j, SaveConfig, "readup", AfterUpstream(j))
ReadsUp(j) ==
    /\ At(j, "readup")
    /\ Reads(j, Goes(j, IF j = "cli" /\ I(j) \in run.ours THEN "store" ELSE AfterUpstream(j)), AfterUpstream(j))

(* applyProxy0HealthCheck: disabled, or not due yet, or read whether it is in use. *)
due == ~health.unsupported /\ ~health.retrying /\ ~health.refused
Check(j) ==
    /\ At(j, "check")
    /\ LET fresh == [job[j] EXCEPT !.late = FALSE, !.err = None, !.chg = FALSE] IN
       Put(j, [fresh EXCEPT !.pc = IF fresh.cfg.off THEN "rread"
                                   ELSE IF j \in Reconciler /\ ~due THEN "end" ELSE "inuse"])
    /\ Smooth /\ Local /\ UNCHANGED <<health, forgot>>

Mine(j) == IF j \in Daemon THEN health ELSE Fresh
proxy0InUse(j) ==
    At(j, "inuse") /\ Reads(j, Goes(j, IF I(j) \in run.ours THEN "version" ELSE "end"), "failed")

(* firmwareOK asks once; an unreadable version is no reason to give up. *)
firmwareOK(j) ==
    /\ At(j, "version")
    /\ IF Mine(j).unsupported \/ Mine(j).osOK
       THEN /\ Goes(j, IF Mine(j).unsupported THEN "end" ELSE "read")
            /\ Smooth /\ UNCHANGED health
       ELSE \/ /\ ~job[j].late /\ Goes(j, IF tlsOK THEN "read" ELSE "end") /\ Smooth
               /\ health' = IF j \notin Daemon THEN health
                            ELSE [health EXCEPT !.osOK = tlsOK, !.unsupported = ~tlsOK]
            \/ Goes(j, "read") /\ Fault /\ UNCHANGED health
            \/ Put(j, [job[j] EXCEPT !.pc = "read", !.late = TRUE]) /\ Fault /\ UNCHANGED health
    /\ Local /\ UNCHANGED forgot

----------------------------------------------------------------------------
(* EnsureProxy0HealthCheck: a no-op, or the commands in their order, the bind last. *)
ReadsProfileUnbound(j) ==
    /\ At(j, "read")
    /\ Reads(j, IF Wanted(run) THEN Goes(j, "settle")
                ELSE Put(j, [job[j] EXCEPT !.pc = "make", !.cur = run.on, !.chg = TRUE]), "failed")
ReadsProfile(j) ==
    /\ At(j, "read")
    /\ Reads(j, IF InPlace(run, I(j)) THEN Goes(j, "settle")
                ELSE Put(j, [job[j] EXCEPT !.pc = "make", !.cur = run.on, !.chg = TRUE]), "failed")

Made(r) == IF r.mode = None THEN [r EXCEPT !.mode = "default"] ELSE r
Makes(j) == At(j, "make") /\ Does(j, Becomes(Made(run)), "mode", "unbind0")
SetsModeIfItCan(j) ==
    At(j, "mode") /\ Does(j, Becomes([run EXCEPT !.mode = IF tlsOK THEN "tls" ELSE @]), "rest", "unbind0")
SetsMode(j) ==
    /\ At(j, "mode")
    /\ IF tlsOK THEN Does(j, Becomes([run EXCEPT !.mode = "tls"]), "rest", "unbind0")
       ELSE Fails(j, "hour", "unbind0") /\ Smooth /\ Local /\ UNCHANGED <<health, forgot>>
SetsRest(j) == At(j, "rest") /\ Does(j, Becomes([Made(run) EXCEPT !.full = TRUE]), "others", "failed")
Others(j) ==
    /\ At(j, "others")
    /\ Does(j, Becomes([run EXCEPT !.on = @ \ (job[j].cur \ {I(j)})]), "bind", "bind")
Bound(r, i) == IF r.mode = None THEN r ELSE [r EXCEPT !.on = @ \cup {i}]
Binds(j) == At(j, "bind") /\ Does(j, Becomes(Bound(run, I(j))), "verify", "failed")
Verifies(j) ==
    /\ At(j, "verify")
    /\ Reads(j, IF InPlace(run, I(j)) THEN Goes(j, "save")
                ELSE Put(j, [job[j] EXCEPT !.pc = "unbind0", !.cur = run.on, !.err = "hour"]), "failed")
(* A failed save is ErrNotSaved: always worth repeating soon. *)
SavesCheck(j) ==
    (At(j, "save") \/ At(j, "resave")) /\ Does(j, SaveConfig, "succeeded", "unsaved")
Unsaved(j) ==
    /\ At(j, "unsaved") /\ Put(j, [job[j] EXCEPT !.pc = "failed", !.err = "soon"])
    /\ Smooth /\ Local /\ UNCHANGED <<health, forgot>>

(* removeHealthCheck: the unbinding is best effort, the deletion has to succeed.  `unbind0'
   cleans up after a failure, its own error ignored; `rread' is RemoveHealthCheck. *)
ReadsForRemoval(j) ==
    /\ At(j, "rread")
    /\ Reads(j, IF run.mode = None THEN Goes(j, "end")
                ELSE Put(j, [job[j] EXCEPT !.pc = "unbind0", !.cur = run.on]), "end")
Cleaned(j) == IF job[j].chg THEN "failed" ELSE "end"
Unbinds(j) == At(j, "unbind0") /\ Does(j, Becomes([run EXCEPT !.on = @ \ job[j].cur]), "delete", "delete")
Deletes(j) ==
    At(j, "delete") /\ Does(j, Becomes([run EXCEPT !.mode = None, !.full = FALSE, !.on = {}]), "dsave", Cleaned(j))
SavesDeletion(j) == At(j, "dsave") /\ Does(j, SaveConfig, Cleaned(j), Cleaned(j))

(* The daemon's notes: needsSave, succeeded, failed, and the one retrier. *)
needsSave(j) ==
    /\ At(j, "settle") /\ Goes(j, IF Mine(j).unsaved THEN "resave" ELSE "succeeded")
    /\ Smooth /\ Local /\ UNCHANGED <<health, forgot>>
succeeded(j) ==
    /\ At(j, "succeeded") /\ Goes(j, "end")
    /\ health' = IF j \in Daemon THEN [health EXCEPT !.refused = FALSE, !.unsaved = FALSE] ELSE health
    /\ Smooth /\ Local /\ UNCHANGED forgot
failedForgets(j) ==
    /\ At(j, "failed") /\ Goes(j, IF j \in Daemon /\ job[j].err = "soon" THEN "retry" ELSE "end")
    /\ health' = IF j \notin Daemon THEN health ELSE [health EXCEPT !.refused = job[j].err = "hour"]
    /\ forgot' = (forgot \/ (j \notin Daemon /\ job[j].chg))
    /\ Smooth /\ Local
failed(j) ==
    /\ At(j, "failed") /\ Goes(j, IF j \in Daemon /\ job[j].err = "soon" THEN "retry" ELSE "end")
    /\ health' = IF j \notin Daemon THEN health
                 ELSE [health EXCEPT !.unsaved = @ \/ job[j].chg, !.refused = job[j].err = "hour"]
    /\ forgot' = (forgot \/ (j \notin Daemon /\ job[j].chg))
    /\ Smooth /\ Local
startRetry(j) ==
    /\ At(j, "retry") /\ Smooth /\ Local /\ UNCHANGED forgot
    /\ IF j = "retrier" THEN Put(j, [Idle EXCEPT !.pc = "wait"]) /\ UNCHANGED health
       ELSE /\ job' = [job EXCEPT ![j] = Idle,
                       !["retrier"] = IF health.retrying THEN @ ELSE [Idle EXCEPT !.pc = "wait"]]
            /\ health' = [health EXCEPT !.retrying = TRUE]
Ends ==
    /\ At("retrier", "end") /\ Put("retrier", Idle) /\ Smooth /\ Local /\ UNCHANGED forgot
    /\ health' = [health EXCEPT !.retrying = FALSE]

----------------------------------------------------------------------------
(* What starts a job.  The retrier and a pass load the configuration; a pass that cannot,
   ends, the retrier waits again. *)
Retries ==
    /\ At("retrier", "wait")
    /\ \/ Put("retrier", [Idle EXCEPT !.pc = "check", !.cfg = cfg]) /\ Smooth
       \/ Fault /\ UNCHANGED job
    /\ Local /\ UNCHANGED <<health, forgot>>
Passes(j) ==
    /\ At(j, "idle") /\ At("startup", "idle") /\ ~purged
    /\ Put(j, [Idle EXCEPT !.pc = "upstream", !.cfg = cfg])
    /\ Smooth /\ Local /\ UNCHANGED <<health, forgot>>

(* `proxy0 set [--interface] [--health-check]': the old interface down first, best effort;
   the configuration is stored once the new one is configured. *)
Proxy0Set ==
    /\ At("cli", "idle") /\ ~purged /\ Event
    /\ \E i \in Iface, d \in BOOLEAN :
          Put("cli", [Idle EXCEPT !.cfg = [iface |-> i, enabled |-> TRUE, off |-> d],
                      !.pc = IF i # cfg.iface /\ cfg.enabled THEN "olddown" ELSE "upstream"])
    /\ Local /\ UNCHANGED <<health, forgot>>
OldDown ==
    At("cli", "olddown") /\ Does("cli", Becomes([run EXCEPT !.up = @ \ {cfg.iface}]), "oldsave", "upstream")
OldSave == At("cli", "oldsave") /\ Does("cli", SaveConfig, "upstream", "upstream")
Stores ==
    /\ At("cli", "store") /\ cfg' = job["cli"].cfg
    /\ Goes("cli", IF cfg'.enabled THEN "check" ELSE "end")
    /\ Smooth /\ UNCHANGED <<run, flash, health, tlsOK, purged, forgot>>
(* `proxy0 off'. *)
Proxy0Off ==
    /\ At("cli", "idle") /\ ~purged /\ Event
    /\ Put("cli", [Idle EXCEPT !.cfg = [cfg EXCEPT !.enabled = FALSE], !.pc = "down"])
    /\ Local /\ UNCHANGED <<health, forgot>>

(* prerm --purge, the daemon stopped and no command under way: the interface down first,
   the check removed only after that. *)
Dead(died) == [j \in Job |-> IF j \in died THEN Idle ELSE job[j]]
Lost == \E j \in Daemon : job[j].chg
Purge ==
    /\ ~purged /\ At("cli", "idle") /\ Event
    /\ purged' = TRUE /\ health' = Fresh
    /\ job' = [Dead(Daemon) EXCEPT !["purge"] = [Idle EXCEPT !.pc = "purge", !.cfg = cfg]]
    /\ forgot' = (forgot \/ health.unsaved \/ Lost)
    /\ UNCHANGED <<run, flash, cfg, tlsOK>>
PurgeReads ==
    At("purge", "purge") /\ Reads("purge", Goes("purge", IF I("purge") \in run.ours THEN "down" ELSE "rread"), "end")
DownDone(j) == IF j = "purge" THEN "rread" ELSE "store"
DisableOnBestEffort(j) ==
    At(j, "down") /\ Does(j, Becomes([run EXCEPT !.up = @ \ {I(j)}]), "savedown", DownDone(j))
DisableProxy0(j) ==
    At(j, "down") /\ Does(j, Becomes([run EXCEPT !.up = @ \ {I(j)}]), "savedown", "end")
SavesDown(j) == At(j, "savedown") /\ Does(j, SaveConfig, DownDone(j), "end")

(* The daemon is restarted; the router reboots; ndm or the operator's web UI changes what
   it shows; an hour has passed since a refusal. *)
Started == [Idle EXCEPT !.pc = "upstream", !.cfg = cfg]
Restart ==
    /\ ~purged /\ Event /\ job' = [Dead(Daemon) EXCEPT !["startup"] = Started] /\ health' = Fresh
    /\ forgot' = (forgot \/ health.unsaved \/ Lost) /\ Local
Reboot ==
    /\ Event /\ run' = flash /\ health' = Fresh /\ forgot' = FALSE
    /\ job' = [j \in Job |-> IF j = "startup" /\ ~purged THEN Started ELSE Idle]
    /\ UNCHANGED <<flash, cfg, tlsOK, purged>>
Drift ==
    /\ Event /\ UNCHANGED <<flash, cfg, job, health, tlsOK, purged, forgot>>
    /\ run' \in {[run EXCEPT !.on = {}], [run EXCEPT !.ours = {}],
                 [run EXCEPT !.full = FALSE], [run EXCEPT !.mode = IF @ = None THEN None ELSE "default"]}
    /\ run' # run
Hour ==
    /\ health.refused /\ health' = [health EXCEPT !.refused = FALSE]
    /\ Smooth /\ Local /\ UNCHANGED <<job, forgot>>

Ensure(j) ==
    ReadsProfile(j) \/ Makes(j) \/ SetsMode(j) \/ SetsRest(j) \/ Others(j) \/ Binds(j)
    \/ Verifies(j) \/ SavesCheck(j) \/ Unsaved(j)
Remove(j) == ReadsForRemoval(j) \/ Unbinds(j) \/ Deletes(j) \/ SavesDeletion(j)
Notes(j) == needsSave(j) \/ succeeded(j) \/ failed(j) \/ startRetry(j)
Step(j) ==
    Upstream(j) \/ BringsUp(j) \/ SavesUp(j) \/ ReadsUp(j) \/ Check(j) \/ proxy0InUse(j) \/ firmwareOK(j)
    \/ Ensure(j) \/ Remove(j) \/ Notes(j) \/ DisableProxy0(j) \/ SavesDown(j)
Retrier == Retries \/ Ends
Cli == OldDown \/ OldSave \/ Stores
Next ==
    \/ \E j \in Job : Step(j)
    \/ \E j \in Reconciler : Passes(j)
    \/ Retrier \/ Hour \/ Cli \/ PurgeReads
    \/ Proxy0Set \/ Proxy0Off \/ Purge \/ Restart \/ Reboot \/ Drift

(* Every job's next command is sent, the loop and the retrier come round, hours pass; what
   an operator, a firmware or a fault does is free. *)
Fairness ==
    /\ \A j \in Job : WF_vars(Step(j))
    /\ \A j \in Reconciler : WF_vars(Passes(j))
    /\ WF_vars(Retrier) /\ WF_vars(Hour) /\ WF_vars(Cli) /\ WF_vars(PurgeReads)
Spec == Init /\ [][Next]_vars
FairSpec == Spec /\ Fairness

----------------------------------------------------------------------------
TypeOK ==
    /\ run \in Router /\ flash \in Router /\ cfg \in Config
    /\ tlsOK \in BOOLEAN /\ purged \in BOOLEAN /\ forgot \in BOOLEAN
    /\ health \in [DOMAIN Fresh -> BOOLEAN]
    /\ job \in [Job -> JobState]
    /\ events \in 0..MaxEvents /\ faults \in 0..MaxFaults

(* However commands were refused, late or undone by another job: in the end the check is
   bound and right while the interface is in use, and gone once it is disabled
   (applyProxy0HealthCheck, the reconcile pass and the retrier). *)
FollowsConfig ==
    <>[](purged \/ (IF cfg.off THEN run.mode = None
                    ELSE tlsOK /\ cfg.iface \in run.ours => InPlace(run, cfg.iface)))

(* A check that is in place is in flash as well in the end, so that a boot without the
   daemon has it, unless the process that knew of the unsaved change is gone
   (proxy0HealthState.unsaved). *)
SurvivesReboot ==
    <>[](purged \/ cfg.off \/ forgot
         \/ (cfg.iface \in run.ours /\ InPlace(run, cfg.iface) => InPlace(flash, cfg.iface)))

(* No step of a purge takes the check from an interface that is up and points at the dead
   inbound, neither in the running configuration nor in flash (purgeProxy0: "Never leave
   one up without the other"); a reboot, or ndm, may. *)
Falls(r, i) == i \in r.ours \cap r.up => i \in r.on
PurgeKeepsFallback ==
    [][purged /\ job["purge"].pc # "idle" /\ events' = events =>
          LET i == I("purge") IN
          /\ Falls(run, i) => Falls(run', i)
          /\ Falls(flash, i) /\ Falls(run, i) => Falls(flash', i)]_vars

(* A firmware that has no `mode tls' never has the check bound in its default mode
   (EnsureProxy0HealthCheck: mode first, bind last). *)
NeverBoundWithoutTLS == ~tlsOK => run.on = {} /\ flash.on = {}
=============================================================================
