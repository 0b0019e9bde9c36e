------------------------------ MODULE TunBreaker ------------------------------
(***************************************************************************)
(* The breaker of the TUN inbound (internal/failover: tun.go, daemon.go),  *)
(* composed with the production Supervisor.                                *)
(*                                                                         *)
(* An inbound that xray cannot bring up makes it exit at every start.      *)
(* After CrashLimit crashes soon after a configuration with the inbound    *)
(* was written, the supervisor's callback trips the breaker, and a         *)
(* goroutine of its own asks Daemon.Run to write the configuration without *)
(* it.  Run's goroutine, the supervise loop, that goroutine and the        *)
(* reconcile loop share four atomics.                                      *)
(***************************************************************************)
EXTENDS Supervisor, Naturals

CONSTANTS
    CrashLimit,    \* tunCrashLimit
    MaxEvents      \* commands, failures and changes from outside: a bound

ASSUME CrashLimitAssumption == CrashLimit \in Nat /\ CrashLimit >= 3
ASSUME ContentAssumption == Content = {"with", "without", "torn"}
ASSUME MaxEventsAssumption == MaxEvents \in Nat

VARIABLES
    run,       \* where Run's goroutine is
    waits,     \* the loop its Stop waits for
    opts,      \* tunInboundOpts as SwitchLiveTo has read it: not nil
    tunLive, tunCrashes,
    written,   \* tunWrittenAt: within tunCrashWindow, or longer ago
    tripped,   \* tunTrippedAt: 0, within tunRetryAfter, or longer ago
    drops,     \* dropTunInbound goroutines whose do waits for Run
    enabled, device,   \* d.cfg.TunTransport; the kernel device is there
    sick,      \* xray cannot start with the inbound
    events,
    liveCrashes,       \* history: crashes in a row with tunLive set
    trouble,   \* history: a switch failed, or a do was given up
    holding    \* history: tripped, and neither retried nor changed since

tunVars == <<tunLive, tunCrashes, written, tripped, drops, liveCrashes, holding>>
envVars == <<enabled, device, sick, events, trouble>>
runVars == <<run, waits, opts>>
vars == <<supVars, file, runVars, tunVars, envVars>>

TypeOK == /\ SupTypeOK
          /\ run \in {"idle", "switch", "write", "noteLive", "noteTime", "noteCrashes",
                      "noteTrip", "stop", "wait", "start", "lastStop", "lastWait",
                      "returned"}
          /\ waits \in Loop \cup {None}
          /\ opts \in BOOLEAN /\ tunLive \in BOOLEAN /\ enabled \in BOOLEAN
          /\ device \in BOOLEAN /\ sick \in BOOLEAN /\ trouble \in BOOLEAN
          /\ holding \in BOOLEAN
          /\ tunCrashes \in 0 .. CrashLimit /\ liveCrashes \in 0 .. CrashLimit
          /\ written \in {"recently", "before"}
          /\ tripped \in {"never", "lately", "before"}
          /\ drops \in Nat /\ events \in 0 .. MaxEvents

\* startProduction has written the first configuration and is about to start
\* it.  (Its retries, and the commands it serves between them, are left out.)
Init == /\ SupInit
        /\ enabled \in BOOLEAN /\ device \in BOOLEAN /\ sick \in BOOLEAN
        /\ opts \in BOOLEAN /\ (opts => enabled /\ device)
        /\ file = IF opts THEN "with" ELSE "without"
        /\ run = "start" /\ waits = None
        /\ tunLive = opts /\ tunCrashes = 0 /\ written = "recently" /\ tripped = "never"
        /\ drops = 0 /\ liveCrashes = 0 /\ holding = FALSE
        /\ events = 0 /\ trouble = FALSE

Event == events < MaxEvents /\ events' = events + 1

\* Only compared with CrashLimit.
OneMore(n) == IF n < CrashLimit THEN n + 1 ELSE n

\* Whether the configuration should carry the inbound (tunInboundOpts).
Wanted == enabled /\ device /\ tripped # "lately"
-----------------------------------------------------------------------------
(***************************************************************************)
(* Run's goroutine: a command or a tick that switches, and SwitchLiveTo,   *)
(* of which each access to the atomics is a step.                          *)
(***************************************************************************)
At(here, there) == run = here /\ run' = there

\* A forced switch, a tick that fails over, a retry of the first start.
Switch == /\ At("idle", "switch") /\ Event
          /\ UNCHANGED <<supVars, file, waits, opts, tunVars, enabled, device, sick, trouble>>

\* ReloadConfig: a change of the transport (its MTU, too) lets the inbound in.
Reload == /\ At("idle", "switch") /\ Event
          /\ \E changed \in BOOLEAN :
                /\ enabled' \in BOOLEAN /\ (enabled' # enabled => changed)
                /\ tripped' = IF changed THEN "never" ELSE tripped
                /\ holding' = (holding /\ ~ changed)
          /\ UNCHANGED <<supVars, file, waits, opts, tunLive, tunCrashes, written, drops,
                         liveCrashes, device, sick, trouble>>

\* RefreshTunInbound, from the reconcile loop.
Refresh == /\ At("idle", "switch")
           /\ cmd # None /\ Wanted # tunLive
           /\ UNCHANGED <<supVars, file, waits, opts, tunVars, envVars>>

\* The command of a dropTunInbound goroutine.
Drop == /\ At("idle", "switch")
        /\ drops > 0 /\ drops' = drops - 1
        /\ UNCHANGED <<supVars, file, waits, opts, tunLive, tunCrashes, written, tripped,
                       liveCrashes, holding, envVars>>

\* Its 30 s are over before Run has taken the command.
GiveUp == /\ drops > 0 /\ drops' = drops - 1
          /\ Event /\ trouble' = TRUE
          /\ UNCHANGED <<supVars, file, runVars, tunLive, tunCrashes, written, tripped,
                         liveCrashes, holding, enabled, device, sick>>

ReadOptions == /\ At("switch", "write")
               /\ opts' = Wanted
               /\ UNCHANGED <<supVars, file, waits, tunVars, envVars>>

\* The sidecar, the configuration or its writing fails; production runs on.
SwitchFails == /\ run' = "idle"
               /\ \/ run = "switch" /\ file' = file
                  \/ run = "write" /\ file' \in {file, "torn"}
               /\ Event /\ trouble' = TRUE
               /\ UNCHANGED <<supVars, waits, opts, tunVars, enabled, device, sick>>

WriteFile == /\ At("write", "noteLive")
             /\ file' = IF opts THEN "with" ELSE "without"
             /\ UNCHANGED <<supVars, waits, opts, tunVars, envVars>>

\* Mutant: whether the inbound is wanted is asked again.
NoteLiveAnew == /\ At("noteLive", "noteTime")
                /\ tunLive' = Wanted
                /\ UNCHANGED <<supVars, file, waits, opts, tunCrashes, written, tripped, drops,
                               liveCrashes, holding, envVars>>

\* noteTunWritten.
NoteLive == /\ At("noteLive", "noteTime")
            /\ tunLive' = opts
            /\ UNCHANGED <<supVars, file, waits, opts, tunCrashes, written, tripped, drops,
                           liveCrashes, holding, envVars>>

NoteTime == /\ At("noteTime", "noteCrashes")
            /\ written' = "recently"
            /\ UNCHANGED <<supVars, file, waits, opts, tunLive, tunCrashes, tripped, drops,
                           liveCrashes, holding, envVars>>

\* Mutant: the count runs on from one configuration to the next.
NoteCrashesKept == /\ At("noteCrashes", IF opts THEN "noteTrip" ELSE "stop")
                   /\ UNCHANGED <<supVars, file, waits, opts, tunVars, envVars>>

NoteCrashes == /\ At("noteCrashes", IF opts THEN "noteTrip" ELSE "stop")
               /\ tunCrashes' = 0
               /\ UNCHANGED <<supVars, file, waits, opts, tunLive, written, tripped, drops,
                              liveCrashes, holding, envVars>>

\* Mutant: the retry does not arm the breaker again.
NoteTripKept == /\ At("noteTrip", "stop")
                /\ UNCHANGED <<supVars, file, waits, opts, tunVars, envVars>>

NoteTrip == /\ At("noteTrip", "stop")
            /\ tripped' = "never"
            /\ UNCHANGED <<supVars, file, waits, opts, tunLive, tunCrashes, written, drops,
                           liveCrashes, holding, envVars>>

\* Stop: of Restart, or of Run as it returns.
Stop(here, wait, done) ==
    /\ \/ Cancel /\ At(here, wait) /\ waits' = cancel
       \/ cancel = None /\ At(here, done) /\ UNCHANGED <<supVars, waits>>
    /\ UNCHANGED <<file, opts, tunVars, envVars>>

\* Stop has waited for the loop.
Stopped(wait, done) ==
    /\ At(wait, done)
    /\ Gone(waits) /\ waits' = None
    /\ UNCHANGED <<supVars, file, opts, tunVars, envVars>>

StartAgain == /\ At("start", "idle") /\ Start
              /\ UNCHANGED <<file, waits, opts, tunVars, envVars>>

\* The daemon is told to stop; Run stops production on its way out.
Shutdown == /\ At("idle", "lastStop")
            /\ UNCHANGED <<supVars, file, waits, opts, tunVars, envVars>>

SwitchStep == \/ ReadOptions \/ WriteFile
              \/ NoteLive \/ NoteTime \/ NoteCrashes \/ NoteTrip
              \/ Stop("stop", "wait", "start") \/ Stopped("wait", "start") \/ StartAgain
              \/ Stop("lastStop", "lastWait", "returned") \/ Stopped("lastWait", "returned")
-----------------------------------------------------------------------------
(***************************************************************************)
(* The supervise loop, and noteTunCrash on its goroutine.                  *)
(***************************************************************************)
\* A pause is 1 s at least, longer than the four stores in a row.
Noting == run \in {"noteTime", "noteCrashes", "noteTrip"}

Supervise(l) == /\ LoopStep(l)
                /\ at[l] = "pause" => ~ Noting
                /\ UNCHANGED <<file, runVars, tunVars, envVars>>

Crash(l) == /\ Crashed(l)
            /\ liveCrashes' = IF tunLive THEN OneMore(liveCrashes) ELSE 0
            /\ UNCHANGED <<file, runVars, tunLive, tunCrashes, written, tripped, drops,
                           holding, envVars>>

InCallback(l, here, next) == /\ at[l] = here /\ Goto(l, next)
                             /\ UNCHANGED <<cancel, cmd, cancelled, child, file, runVars, envVars>>

LoadLive(l) == /\ InCallback(l, "onRestart", IF tunLive THEN "loadTime" ELSE "pause")
               /\ UNCHANGED tunVars

LoadTime(l) == /\ InCallback(l, "loadTime", IF written = "recently" THEN "add" ELSE "pause")
               /\ UNCHANGED tunVars

Add(l) == /\ tunCrashes' = OneMore(tunCrashes)
          /\ InCallback(l, "add", IF tunCrashes' < CrashLimit THEN "pause" ELSE "trip")
          /\ UNCHANGED <<tunLive, written, tripped, drops, liveCrashes, holding>>

\* Mutant: the callback restarts production itself, and waits for its own loop.
TripAndRestart(l) == /\ InCallback(l, "trip", "pause")
                     /\ tripped # "never" \/ Gone(l)
                     /\ UNCHANGED tunVars

\* CompareAndSwap; the one that trips it starts a goroutine.
Trip(l) == /\ InCallback(l, "trip", "pause")
           /\ IF tripped = "never"
              THEN tripped' = "lately" /\ drops' = drops + 1 /\ holding' = TRUE
              ELSE UNCHANGED <<tripped, drops, holding>>
           /\ UNCHANGED <<tunLive, tunCrashes, written, liveCrashes>>

NoteTunCrash(l) == LoadLive(l) \/ LoadTime(l) \/ Add(l) \/ Trip(l)
-----------------------------------------------------------------------------
(***************************************************************************)
(* The clock and the device.  An xray that cannot start with the inbound   *)
(* exits at once, so three starts fit in the window.  The window (90 s) is *)
(* longer than the rest of a switch that has begun it, and 30 min are      *)
(* longer than any switch and than the 30 s a drop waits.                  *)
(***************************************************************************)
WindowEnds == /\ written = "recently" /\ written' = "before"
              /\ sick /\ tunLive => tunCrashes = CrashLimit
              /\ run \in {"idle", "switch", "write", "noteLive", "noteTime"}
              /\ UNCHANGED <<supVars, file, runVars, tunLive, tunCrashes, tripped, drops,
                             liveCrashes, holding, envVars>>

RetryDue == /\ tripped = "lately" /\ tripped' = "before"
            /\ run = "idle" /\ drops = 0
            /\ holding' = FALSE
            /\ UNCHANGED <<supVars, file, runVars, tunLive, tunCrashes, written, drops,
                           liveCrashes, envVars>>

DeviceChanges == /\ Event /\ device' = ~ device
                 /\ UNCHANGED <<supVars, file, runVars, tunVars, enabled, sick, trouble>>
-----------------------------------------------------------------------------
Next == \/ Switch \/ Reload \/ Refresh \/ Drop \/ GiveUp \/ SwitchFails \/ SwitchStep
        \/ Shutdown
        \/ \E l \in Loop : Supervise(l) \/ Crash(l) \/ NoteTunCrash(l)
        \/ WindowEnds \/ RetryDue \/ DeviceChanges

Spec == Init /\ [][Next]_vars

\* A process that has been told to end, or cannot run, ends.
Ends(l) == /\ at[l] = "run" /\ Supervise(l)
           /\ cancelled[l] \/ child[l] = "torn" \/ (sick /\ child[l] = "with")

\* The steps of a loop that do not wait for its child to end.
Goes(l) == Supervise(l) /\ (at[l] # "run" \/ child[l] = "fresh")

\* Run's goroutine, the loops and their callbacks run on; Run takes what waits
\* for it.  Nothing is assumed of commands, failures and the clock.
Fairness == /\ WF_vars(SwitchStep) /\ WF_vars(Drop)
            /\ \A l \in Loop : /\ WF_vars(Goes(l)) /\ WF_vars(Ends(l))
                               /\ WF_vars(Crash(l)) /\ WF_vars(NoteTunCrash(l))

LiveSpec == Spec /\ Fairness
-----------------------------------------------------------------------------
\* When Run has returned, no child is left and none will be started, whatever
\* the loop was at (Run's deferred prod.Stop).
NothingLeftBehind == run = "returned" => \A l \in Loop : child[l] = None /\ at[l] = "gone"

\* Between switches tunLive says what the file carries, and a child runs what
\* the file says, though a crashed one may read it before its Restart (the
\* order in SwitchLiveTo).  A write that failed leaves the old state.
RunsWhatIsWritten ==
    run = "idle" /\ ~ trouble
        => /\ tunLive <=> file = "with"
           /\ \A l \in Loop : child[l] \in {None, "fresh", file}

\* The inbound is suspended only on crashes in a row with the inbound live, all
\* but one of CrashLimit: a callback that was looking at the atomics while the
\* configuration was written may still be counted.  (With a limit of 2 such a
\* crash and one more left from the last time could do it alone.)
TripsOnEvidence ==
    [][tripped = "never" /\ tripped' = "lately" => liveCrashes + 1 >= CrashLimit]_vars

\* Stop returns though the loop may be in OnRestart (noteTunCrash: "it must
\* return at once").
StopReturns == run \in {"wait", "lastWait"} ~> run \notin {"wait", "lastWait"}

\* An inbound that keeps xray from starting is taken out, however crashes,
\* switches and changes of the transport meet, unless a switch fails, Run is
\* busy for 30 s, or a switch already under way clears the trip again.
Cleared == holding /\ tripped = "never"
SickInboundIsTakenOut ==
    sick /\ tunLive ~> ~ tunLive \/ trouble \/ Cleared \/ run = "returned"

\* tun.go:22: it "gets the inbound taken out again, and it stays out for
\* tunRetryAfter (or until the operator changes the transport, or the daemon
\* restarts)".
TrippedStaysOut == holding /\ drops = 0 /\ run = "idle" /\ ~ trouble => file # "with"
=============================================================================
