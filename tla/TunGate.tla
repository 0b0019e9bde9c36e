------------------------------- MODULE TunGate -------------------------------
(***************************************************************************)
(* The gate of the TUN transport and what else moves the router's OpkgTun  *)
(* interface (internal/tungate, cmd/keenetic-xray: tungate.go,             *)
(* tuntransport.go, reconcile.go, main.go).                                *)
(*                                                                         *)
(* The gate closes the interface (administratively down) while the tunnel  *)
(* is dead, so that the router withdraws its routes.  The reconcile loop   *)
(* repairs an interface that is gone or down; `transport tun on` and `off` *)
(* are CLI processes of their own.  All of them talk to the router by      *)
(* commands that take a while and may fail after taking effect.            *)
(***************************************************************************)
EXTENDS Naturals

CONSTANTS
    FailsToClose,   \* failed checks in a row that close the gate
    Reconciler,     \* goroutines in reconcileOnce: the loop's, SIGUSR1's
    MaxEvents       \* changes from outside and failing commands: a bound

ASSUME FailsToCloseAssumption == FailsToClose \in Nat \ {0}
ASSUME MaxEventsAssumption == MaxEvents \in Nat

VARIABLES
    file,      \* the TUN transport in config.json: on or off
    there,     \* the interface in the router's configuration
    admin,     \* its administrative state
    tunnel,    \* a check through the SOCKS inbound would succeed
    daemon,    \* the daemon process
    gate,      \* where Gate.Run is
    closed, fails,   \* Gate
    seen, due,       \* tunGateConfig: its copy of file, and 30 s have passed
    rec,       \* where each reconcileOnce is
    cli,       \* what `transport tun` has still to do
    events,
    streak,    \* history: failed checks in a row
    trouble    \* history: a command lied or was not retried, or the gate was
               \* cut off by the end of the process

ifaceVars == <<there, admin>>
gateVars == <<gate, closed, fails, seen, due, streak, trouble>>
tunVars == <<file, there, admin, tunnel, daemon, gate, closed, fails, seen, due,
             rec, cli, events, streak, trouble>>

TunTypeOK == /\ file \in {"on", "off"}
             /\ there \in {"no", "drifted", "sound"} /\ admin \in {"up", "down"}
             /\ tunnel \in BOOLEAN
             /\ daemon \in {"running", "stopping", "exited"}
             /\ gate \in {"starting", "waiting", "close", "closeDone", "open",
                          "openDone", "letGo", "lastOpen", "gone"}
             /\ closed \in BOOLEAN /\ fails \in 0 .. FailsToClose
             /\ seen \in {"none", "on", "off"} /\ due \in BOOLEAN
             /\ rec \in [Reconciler -> {"idle", "begun", "intact", "present", "repair"}]
             /\ cli \in {"idle", "clear", "save"}
             /\ events \in 0 .. MaxEvents
             /\ streak \in 0 .. FailsToClose
             /\ trouble \in BOOLEAN

TunInit == /\ file = "on" /\ there = "sound" /\ admin = "up" /\ tunnel = TRUE
           /\ daemon = "exited" /\ gate = "gone"
           /\ closed = FALSE /\ fails = 0
           /\ seen = "none" /\ due = FALSE
           /\ rec = [r \in Reconciler |-> "idle"] /\ cli = "idle"
           /\ events = 0 /\ streak = 0 /\ trouble = FALSE

Event == events < MaxEvents /\ events' = events + 1
Quiet == UNCHANGED events

\* A command fails; those of a daemon being stopped do so by themselves.
Hiccup == IF daemon = "stopping" THEN Quiet ELSE Event

\* Only compared with FailsToClose, and never above it here.
OneMore(n) == IF n < FailsToClose THEN n + 1 ELSE n
-----------------------------------------------------------------------------
(***************************************************************************)
(* The gate.  tunGateConfig.get reads config.json again once 30 s have     *)
(* passed (a file it cannot read is one it has not read again yet).        *)
(***************************************************************************)
Config == IF due \/ seen = "none" THEN file ELSE seen
ReadConfig == seen' = Config /\ due' = FALSE

CacheExpires == /\ ~ due /\ seen # "none"
                /\ due' = TRUE
                /\ UNCHANGED <<file, ifaceVars, tunnel, daemon, gate, closed, fails, seen,
                               rec, cli, events, streak, trouble>>

\* Mutant: the failures are still counted when the transport comes back.
FailsKeptWhenOff == fails

FailsWhenOff == 0

\* A command needs a context that has not ended.
Command(step) == IF daemon = "running" THEN step ELSE "waiting"

\* ErrOff: the transport is off; the flag goes first, then the interface.
StepOff == /\ Config = "off"
           /\ closed' = FALSE /\ fails' = FailsWhenOff /\ streak' = 0
           /\ gate' = IF closed THEN Command("letGo") ELSE "waiting"
           /\ trouble' = (trouble \/ (closed /\ daemon # "running"))

\* Mutant: a gate that is closed and sees the tunnel work does not open.
StepWorksStaysClosed ==
    /\ Config = "on" /\ tunnel /\ daemon = "running"
    /\ fails' = 0 /\ streak' = 0
    /\ gate' = "waiting"
    /\ UNCHANGED <<closed, trouble>>

StepWorks == /\ Config = "on" /\ tunnel /\ daemon = "running"
             /\ fails' = 0 /\ streak' = 0
             /\ gate' = IF closed THEN "open" ELSE "waiting"
             /\ UNCHANGED <<closed, trouble>>

\* A check under a context that has ended fails too.
StepFails == /\ Config = "on" /\ ~ (tunnel /\ daemon = "running")
             /\ fails' = OneMore(fails) /\ streak' = OneMore(streak)
             /\ gate' = IF ~ closed /\ fails' >= FailsToClose THEN Command("close")
                        ELSE "waiting"
             /\ UNCHANGED <<closed, trouble>>

Step == /\ gate = "waiting"
        /\ StepOff \/ StepWorks \/ StepFails
        /\ ReadConfig
        /\ UNCHANGED <<file, ifaceVars, tunnel, daemon, rec, cli, events>>

\* SetTunAdmin on the interface of the configuration: done; refused, or not
\* there to be asked; or done although an error came back.
Done(state) == /\ Config = "on" /\ there # "no"
               /\ admin' = state /\ Quiet
Refused == /\ UNCHANGED admin
           /\ IF Config = "on" /\ there # "no" THEN Hiccup ELSE Quiet
DoneWithError(state) == /\ Config = "on" /\ there # "no"
                        /\ admin' = state /\ Hiccup

Set(from, state, done, failed) ==
    /\ gate = from
    /\ \/ Done(state) /\ gate' = done /\ UNCHANGED trouble
       \/ /\ Refused /\ gate' = failed
          /\ trouble' = (trouble \/ (from = "letGo" /\ there # "no"))
       \/ DoneWithError(state) /\ gate' = failed /\ trouble' = TRUE
    /\ ReadConfig
    /\ UNCHANGED <<file, there, tunnel, daemon, closed, fails, rec, cli, streak>>

Close == Set("close", "down", "closeDone", "waiting")
Open == Set("open", "up", "openDone", "waiting")
LetGo == Set("letGo", "up", "waiting", "waiting")

\* Run's last act.  What it records then nobody reads.
LastOpen == /\ gate = "lastOpen" /\ daemon = "stopping"
            /\ \/ Done("up") /\ UNCHANGED trouble
               \/ (Refused \/ DoneWithError("up")) /\ trouble' = TRUE
            /\ gate' = "gone"
            /\ ReadConfig
            /\ UNCHANGED <<file, there, tunnel, daemon, closed, fails, rec, cli, streak>>

\* Mutant: the change is made, but not recorded.
RecordForgets ==
    /\ gate \in {"closeDone", "openDone"}
    /\ UNCHANGED closed
    /\ gate' = "waiting"
    /\ UNCHANGED <<file, ifaceVars, tunnel, daemon, fails, seen, due, rec, cli, events,
                   streak, trouble>>

Record == /\ gate \in {"closeDone", "openDone"}
          /\ closed' = (gate = "closeDone")
          /\ gate' = "waiting"
          /\ UNCHANGED <<file, ifaceVars, tunnel, daemon, fails, seen, due, rec, cli, events,
                         streak, trouble>>

StopGate == /\ gate = "waiting" /\ daemon = "stopping"
            /\ gate' = IF closed THEN "lastOpen" ELSE "gone"
            /\ UNCHANGED <<file, ifaceVars, tunnel, daemon, closed, fails, seen, due, rec,
                           cli, events, streak, trouble>>
-----------------------------------------------------------------------------
(***************************************************************************)
(* reconcileOnce: config.json is read first, the TUN interface looked at   *)
(* after several other steps.                                              *)
(***************************************************************************)
ToRec(r, step) == rec' = [rec EXCEPT ![r] = step]

BeginReconcile(r) == /\ daemon = "running" /\ rec[r] = "idle"
                     /\ file = "on"
                     /\ ToRec(r, "begun")
                     /\ UNCHANGED <<file, ifaceVars, tunnel, daemon, gateVars, cli, events>>

ChooseCheck(r) == /\ rec[r] = "begun"
                  /\ ToRec(r, IF closed THEN "present" ELSE "intact")
                  /\ UNCHANGED <<file, ifaceVars, tunnel, daemon, gateVars, cli, events>>

InPlace(r) == there = "sound" /\ (rec[r] = "intact" => admin = "up")

LookAtInterface(r) ==
    /\ rec[r] \in {"intact", "present"}
    /\ \/ ToRec(r, IF InPlace(r) THEN "idle" ELSE "repair") /\ Quiet
       \/ ToRec(r, "idle") /\ Hiccup
    /\ UNCHANGED <<file, ifaceVars, tunnel, daemon, gateVars, cli>>

\* ApplyTunTransport: create or correct the interface, and bring it up.
Apply == there' = "sound" /\ admin' = "up"

Repair(r) == /\ rec[r] = "repair"
             /\ ToRec(r, "idle")
             /\ \/ Apply /\ Quiet
                \/ UNCHANGED ifaceVars /\ Hiccup
             /\ UNCHANGED <<file, tunnel, daemon, gateVars, cli>>
-----------------------------------------------------------------------------
(***************************************************************************)
(* The CLI, the daemon process and the world.                              *)
(***************************************************************************)
\* Also `transport tun mtu`, and a second `on`.
TransportOn == /\ cli = "idle" /\ Event
               /\ Apply
               /\ cli' = "save"
               /\ UNCHANGED <<file, tunnel, daemon, gateVars, rec>>

SaveOn == /\ cli = "save"
          /\ file' = "on" /\ cli' = "idle"
          /\ UNCHANGED <<ifaceVars, tunnel, daemon, gateVars, rec, events>>

TransportOff == /\ cli = "idle" /\ file = "on" /\ Event
                /\ file' = "off" /\ cli' = "clear"
                /\ UNCHANGED <<ifaceVars, tunnel, daemon, gateVars, rec>>

\* ClearTunTransport; a failure is only printed.
ClearOff == /\ cli = "clear"
            /\ cli' = "idle"
            /\ \/ there' = "no" /\ admin' = "up" /\ Quiet
               \/ UNCHANGED ifaceVars /\ Event
            /\ UNCHANGED <<file, tunnel, daemon, gateVars, rec>>

StartDaemon == /\ daemon = "exited"
               /\ daemon' = "running" /\ gate' = "starting"
               /\ UNCHANGED <<file, ifaceVars, tunnel, closed, fails, seen, due, rec, cli,
                              events, streak, trouble>>

\* After the steps of the start, the first reconcile among them.
StartGate == /\ daemon = "running" /\ gate = "starting"
             /\ \A r \in Reconciler : rec[r] = "idle"
             /\ gate' = "waiting"
             /\ UNCHANGED <<file, ifaceVars, tunnel, daemon, closed, fails, seen, due, rec,
                            cli, events, streak, trouble>>

StopDaemon == /\ daemon = "running" /\ Event
              /\ daemon' = "stopping"
              /\ UNCHANGED <<file, ifaceVars, tunnel, gateVars, rec, cli>>

\* The goroutines go with the process, wherever they are.
ProcessEnds == /\ daemon' = "exited" /\ gate' = "gone"
               /\ closed' = FALSE /\ fails' = 0 /\ streak' = 0
               /\ seen' = "none" /\ due' = FALSE
               /\ rec' = [r \in Reconciler |-> "idle"]
               /\ trouble' = (trouble \/ gate \notin {"starting", "gone"})
               /\ UNCHANGED <<file, ifaceVars, tunnel, cli>>

\* cmdDaemon returns once Daemon.Run has; it does not wait for the gate.
ExitDaemon == daemon = "stopping" /\ ProcessEnds /\ Quiet
CrashDaemon == daemon = "running" /\ ProcessEnds /\ Event

TunnelChanges == /\ Event
                 /\ tunnel' = ~ tunnel
                 /\ UNCHANGED <<file, ifaceVars, daemon, gateVars, rec, cli>>

\* ndm drops the interface, or what we configured on it.
InterfaceLost == /\ there = "sound" /\ Event
                 /\ \/ there' = "no" /\ admin' = "up"
                    \/ there' = "drifted" /\ UNCHANGED admin
                 /\ UNCHANGED <<file, tunnel, daemon, gateVars, rec, cli>>
-----------------------------------------------------------------------------
Gate == Step \/ Close \/ Open \/ LetGo \/ Record \/ StopGate \/ LastOpen
Reconcile(r) == BeginReconcile(r) \/ ChooseCheck(r) \/ LookAtInterface(r) \/ Repair(r)
Cli == SaveOn \/ ClearOff

TunNext == \/ Gate \/ CacheExpires
           \/ \E r \in Reconciler : Reconcile(r)
           \/ Cli \/ TransportOn \/ TransportOff
           \/ StartDaemon \/ StartGate \/ StopDaemon \/ ExitDaemon \/ CrashDaemon
           \/ TunnelChanges \/ InterfaceLost

TunSpec == TunInit /\ [][TunNext]_tunVars

(***************************************************************************)
(* Tickers fire, commands return, the init script starts the daemon.  One  *)
(* goroutine's steps do not wait for another's.                            *)
(***************************************************************************)
TunFairness == /\ WF_tunVars(Gate) /\ WF_tunVars(CacheExpires)
               /\ \A r \in Reconciler : WF_tunVars(Reconcile(r))
               /\ WF_tunVars(Cli)
               /\ WF_tunVars(StartDaemon) /\ WF_tunVars(StartGate) /\ WF_tunVars(ExitDaemon)

LiveSpec == TunSpec /\ TunFairness
-----------------------------------------------------------------------------
\* The interface is closed only on FailsToClose failed checks in a row, none
\* of them from before it last worked or was off (Step).
ClosesOnEvidence ==
    [][admin = "up" /\ admin' = "down" => streak >= FailsToClose]_tunVars

\* While commands tell the truth and the gate gets to its end, an interface
\* that is down is held down by a running gate that knows it (Step, set, Run).
DownOnPurpose ==
    there # "no" /\ admin = "down" /\ ~ trouble
      => (closed \/ gate \in {"closeDone", "letGo"}) /\ daemon # "exited"

\* A tunnel that works does not stay shut out: gate and reconcile between them
\* open the interface, whatever failed, was lost or crashed before.
Settled == daemon = "running" /\ file = "on" /\ cli = "idle"
WorkingTunnelIsOpened ==
    <>[](Settled /\ tunnel) => <>[](there = "sound" /\ admin = "up" /\ ~ closed)

\* docs/routing.md: while the tunnel is dead the interface is closed.
DeadTunnelIsClosed == <>[](Settled /\ ~ tunnel) => <>[](there = "sound" => admin = "down")

\* tuntransport.go: a repair does not reopen what the gate holds closed.
RepairKeepsClosed ==
    [][\A r \in Reconciler : Repair(r) /\ closed /\ admin = "down" => admin' = "down"]_tunVars

\* tungate.go: stopping the daemon never leaves the interface down.
StopLeavesOpen == [][ExitDaemon /\ there # "no" => admin = "up"]_tunVars
=============================================================================
