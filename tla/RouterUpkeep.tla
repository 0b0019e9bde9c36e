----------------------------- MODULE RouterUpkeep -----------------------------
(***************************************************************************)
(* What keeps the router as config.json wants it (cmd/keenetic-xray:       *)
(* main.go, reconcile.go, adaptiveroute.go, wgtransport.go, proxy0.go;     *)
(* internal/botcontrol: commands.go, adaptiveroute.go).                    *)
(*                                                                         *)
(* ndm drops what it did not write itself; a reconcile pass, run by a      *)
(* timer and by a signal, puts it back.  The health check of the adaptive  *)
(* route takes the REDIRECT rule out while the live egress is dead and     *)
(* tells the passes so by a flag.  There are as many copies of             *)
(* config.json as writers: each is loaded once, kept over slow calls to    *)
(* the router, and saved whole.                                            *)
(***************************************************************************)
EXTENDS Naturals, FiniteSets

CONSTANTS
    Pass,              \* goroutines that run reconcileOnce
    Operator,          \* "cli" and "bot", or one of them
    Object,            \* "redirect", "wg" and the pieces that are just re-asserted
    HealthFailThreshold,
    MaxEvents,         \* commands, firmware events, outages, restarts: a bound
    MaxFaults          \* failing router commands and refused reloads: a bound

ASSUME OperatorAssumption == Operator \subseteq {"cli", "bot"}
ASSUME ObjectAssumption == {"redirect", "wg"} \subseteq Object
ASSUME BoundsAssumption == /\ HealthFailThreshold \in Nat \ {0}
                           /\ MaxEvents \in Nat /\ MaxFaults \in Nat

Key == 0 .. MaxEvents           \* 0: none yet; every key handed out follows an event
Config == [on: SUBSET Object, key: Key]
NoReload == [on |-> {}, key |-> MaxEvents + 1]

VARIABLES
    disk,      \* config.json
    daemon,    \* the daemon's copy, which xray runs
    bot,       \* RouterHandler.Config
    reload,    \* RouterHandler.ConfigReload
    hup,       \* "none", "sent", "applied": a SIGHUP on its way
    live,      \* the objects in place on the router
    ifkey,     \* the key of the WireGuard interface, 0 when there is none
    keys,      \* keys handed out
    egress,    \* whether the live outbound works
    process,   \* "down", "starting", "up"
    pass,      \* pass[p]: where p is, its copy, and whether it read the flag in time
    health,    \* adaptiveRouteHealthCheck: where it is, its count and failedOpen
    flag,      \* adaptiveRouteFailedOpen
    op,        \* op[o]: the command of an operator, and the copy it works on
    events, faults,
    raced,     \* history: a pass already under way or a command brought the rule back, or
               \* the health check could not take it out
    stale      \* history: since the start xray was given a copy with an old key or refused a
               \* reload, or a rebuild failed half way

copies == <<disk, daemon, bot, reload, hup>>
router == <<live, ifkey, keys>>
guard == <<health, flag, raced>>
vars == <<disk, daemon, bot, reload, hup, live, ifkey, keys, egress, process, pass,
          health, flag, op, events, faults, raced, stale>>

IdlePass == [pc |-> "idle", copy |-> [on |-> {}, key |-> 0], early |-> FALSE]
IdleHealth == [pc |-> "idle", fails |-> 0, failedOpen |-> FALSE]
IdleOp == [pc |-> "idle", object |-> "wg", want |-> FALSE, copy |-> [on |-> {}, key |-> 0]]

TypeOK ==
    /\ disk \in Config /\ daemon \in Config /\ bot \in Config
    /\ reload \in Config \cup {NoReload} /\ hup \in {"none", "sent", "applied"}
    /\ live \subseteq Object /\ ifkey \in Key /\ keys \in Key
    /\ egress \in BOOLEAN /\ process \in {"down", "starting", "up"}
    /\ pass \in [Pass -> [pc: {"idle", "rule", "rest", "save", "push"}, copy: Config,
                          early: BOOLEAN]]
    /\ health \in [pc: {"idle", "clear", "ensure"}, fails: 0 .. HealthFailThreshold,
                   failedOpen: BOOLEAN]
    /\ flag \in BOOLEAN
    /\ op \in [Operator -> [pc: {"idle", "router", "save", "apply"}, object: Object,
                            want: BOOLEAN, copy: Config]]
    /\ events \in 0 .. MaxEvents /\ faults \in 0 .. MaxFaults
    /\ raced \in BOOLEAN /\ stale \in BOOLEAN

Init == /\ disk = [on |-> {"redirect"}, key |-> 0]
        /\ daemon = disk /\ bot = disk /\ reload = NoReload /\ hup = "none"
        /\ live = {} /\ ifkey = 0 /\ keys = 0 /\ egress = TRUE /\ process = "down"
        /\ pass = [p \in Pass |-> IdlePass] /\ health = IdleHealth /\ flag = FALSE
        /\ op = [o \in Operator |-> IdleOp]
        /\ events = 0 /\ faults = 0 /\ raced = FALSE /\ stale = FALSE

Event == events < MaxEvents /\ events' = events + 1
Fault == faults < MaxFaults /\ faults' = faults + 1

-----------------------------------------------------------------------------
(* The router. *)

\* ApplyWGTransport: an interface it has to create gets a key of the firmware's,
\* which is read back; one that is only down keeps its own.  When a command fails
\* the rest still run, and the caller drops the key with the error.
InterfaceKey == IF ifkey = 0 THEN keys + 1 ELSE ifkey
ApplyWG(others) ==
    /\ ifkey' = InterfaceKey
    /\ keys' = IF ifkey = 0 THEN keys + 1 ELSE keys
    /\ live' = live \cup others \cup {"wg"}
ApplyWGFails(others) ==
    /\ \/ ifkey' = InterfaceKey /\ live' \in {live \cup others, live \cup others \cup {"wg"}}
          /\ keys' = (IF ifkey = 0 THEN keys + 1 ELSE keys)
       \/ live' = live \cup others /\ UNCHANGED <<ifkey, keys>>
    /\ stale' = TRUE

\* ndm rewrites its configuration and drops some of what it did not write; the
\* WireGuard interface may be lost with its key or just be taken down.
FirmwareDrops(dropped) ==
    /\ Event /\ dropped # {} /\ dropped \subseteq live
    /\ live' = live \ dropped
    /\ ifkey' \in IF "wg" \in dropped THEN {ifkey, 0} ELSE {ifkey}
    /\ UNCHANGED <<copies, keys, egress, process, pass, guard, op, faults, stale>>

EgressChanges == /\ Event /\ egress' = ~egress
                 /\ UNCHANGED <<copies, router, process, pass, guard, op, faults, stale>>

-----------------------------------------------------------------------------
(* reconcileOnce: the REDIRECT rule first, WireGuard among the rest. *)

OutOfDate(copy) == "wg" \in copy.on /\ copy.key # ifkey

Step(p, pc) == pass' = [pass EXCEPT ![p].pc = pc]

\* Mutated form: the pass does not look at the flag (the code before AR-09).
BeginPassBlind(p) ==
    /\ process = "up" /\ pass[p].pc = "idle"
    /\ pass' = [pass EXCEPT ![p] =
                   [pc |-> IF "redirect" \in disk.on THEN "rule" ELSE "rest",
                    copy |-> disk, early |-> ~health.failedOpen]]
    /\ UNCHANGED <<copies, router, egress, process, guard, op, events, faults, stale>>

\* Loads config.json and reads the flag; the rule is only looked at when it is down.
BeginPass(p) ==
    /\ process = "up" /\ pass[p].pc = "idle"
    /\ pass' = [pass EXCEPT ![p] =
                   [pc |-> IF flag \/ "redirect" \notin disk.on THEN "rest" ELSE "rule",
                    copy |-> disk, early |-> ~health.failedOpen]]
    /\ UNCHANGED <<copies, router, egress, process, guard, op, events, faults, stale>>

\* After the LAN detection: a rule not in place is cleared and added again.
PassRule(p) ==
    /\ pass[p].pc = "rule"
    /\ Step(p, "rest")
    /\ \/ /\ live' = live \cup {"redirect"}
          /\ raced' = (raced \/ ("redirect" \notin live /\ health.failedOpen /\ pass[p].early))
          /\ UNCHANGED faults
       \/ /\ Fault /\ "redirect" \notin live /\ UNCHANGED <<live, raced>>
    /\ UNCHANGED <<copies, ifkey, keys, egress, process, health, flag, op, events, stale>>

\* The pieces that are re-asserted in every pass.
Plain(p) == pass[p].copy.on \ {"redirect", "wg"}
Reassert(p) ==
    /\ "wg" \notin pass[p].copy.on \ live
    /\ Step(p, "idle")
    /\ \/ live' = live \cup Plain(p) /\ UNCHANGED faults
       \/ Fault /\ live' \in {live \cup s : s \in SUBSET Plain(p)}
    /\ UNCHANGED <<ifkey, keys, stale>>

\* WireGuard missing or down: a new key goes into the pass's copy.
Rekey(p) ==
    /\ "wg" \in pass[p].copy.on \ live
    /\ \/ /\ ApplyWG(Plain(p))
          /\ pass' = [pass EXCEPT ![p].copy.key = InterfaceKey,
                         ![p].pc = IF pass[p].copy.key = InterfaceKey THEN "idle" ELSE "save"]
          /\ UNCHANGED <<faults, stale>>
       \/ Fault /\ ApplyWGFails(Plain(p)) /\ Step(p, "idle")

PassRest(p) ==
    /\ pass[p].pc = "rest"
    /\ Reassert(p) \/ Rekey(p)
    /\ UNCHANGED <<copies, egress, process, guard, op, events>>

\* The copy is saved whole; when that fails the daemon is still given it.
PassSave(p) ==
    /\ pass[p].pc = "save" /\ Step(p, "push")
    /\ \/ disk' = pass[p].copy /\ UNCHANGED faults
       \/ Fault /\ UNCHANGED disk
    /\ UNCHANGED <<daemon, bot, reload, hup, router, egress, process, guard, op, events, stale>>

\* Mutated form: the daemon is not given the new key (the code before WG-01).
PushedNothing(p) == daemon

\* pushRekeyedWGConfig; the daemon may not be ready to reload, and another pass may have
\* rebuilt the interface once more and pushed before this one.
Pushed(p) == pass[p].copy
PassPush(p) ==
    /\ pass[p].pc = "push" /\ Step(p, "idle")
    /\ \/ daemon' = Pushed(p) /\ stale' = (stale \/ OutOfDate(pass[p].copy)) /\ UNCHANGED faults
       \/ Fault /\ stale' = TRUE /\ UNCHANGED daemon
    /\ UNCHANGED <<disk, bot, reload, hup, router, egress, process, guard, op, events>>

-----------------------------------------------------------------------------
(* adaptiveRouteHealthCheck, in the classify loop's goroutine. *)

\* On the last failure counted the flag is raised before the rule is taken out;
\* on the first success it is lowered before the rule is put back.
TripsAt(n) == n >= HealthFailThreshold /\ ~health.failedOpen
FlagStays == TRUE   \* mutated form
FlagAfterRecovery == FALSE
Probe ==
    LET n == IF health.fails < HealthFailThreshold THEN health.fails + 1 ELSE health.fails IN
    /\ process = "up" /\ health.pc = "idle" /\ "redirect" \in disk.on
    /\ \/ /\ ~egress /\ TripsAt(n)
          /\ health' = [pc |-> "clear", fails |-> n, failedOpen |-> TRUE]
          /\ flag' = TRUE /\ raced' = FALSE
       \/ /\ ~egress /\ ~TripsAt(n)
          /\ health' = [health EXCEPT !.fails = n]
          /\ UNCHANGED <<flag, raced>>
       \/ /\ egress /\ health.failedOpen
          /\ health' = [pc |-> "ensure", fails |-> 0, failedOpen |-> FALSE]
          /\ flag' = FlagAfterRecovery /\ UNCHANGED raced
       \/ /\ egress /\ ~health.failedOpen
          /\ health' = [health EXCEPT !.fails = 0]
          /\ UNCHANGED <<flag, raced>>
    /\ UNCHANGED <<copies, router, egress, process, pass, op, events, faults, stale>>

\* ClearRedirect does nothing, and says nothing, when the rules cannot be listed.
HealthClear ==
    /\ health.pc = "clear" /\ health' = [health EXCEPT !.pc = "idle"]
    /\ \/ live' = live \ {"redirect"} /\ UNCHANGED <<faults, raced>>
       \/ Fault /\ raced' = TRUE /\ UNCHANGED live
    /\ UNCHANGED <<copies, ifkey, keys, egress, process, pass, flag, op, events, stale>>

HealthEnsure ==
    /\ health.pc = "ensure" /\ health' = [health EXCEPT !.pc = "idle"]
    /\ \/ live' = live \cup {"redirect"} /\ UNCHANGED faults
       \/ Fault /\ UNCHANGED live
    /\ UNCHANGED <<copies, ifkey, keys, egress, process, pass, flag, raced, op, events, stale>>

-----------------------------------------------------------------------------
(* An operator's command: "on" and "off" of an object, at the CLI or in the bot. *)

\* The CLI loads the file; the bot works on its own copy, or on the reload it was given.
Begin(o, obj, want) ==
    /\ Event /\ op[o].pc = "idle" /\ (o = "bot" => process = "up")
    /\ LET own == IF reload = NoReload THEN bot ELSE reload
           copy == IF o = "cli" THEN disk ELSE own IN
       /\ op' = [op EXCEPT ![o] = [pc |-> "router", object |-> obj, want |-> want, copy |-> copy]]
       /\ IF o = "bot" THEN bot' = own /\ reload' = NoReload ELSE UNCHANGED <<bot, reload>>
    /\ UNCHANGED <<disk, daemon, hup, router, egress, process, pass, guard, faults, stale>>

\* The router side comes first, then the command's copy is changed and saved.
Done(o) == LET on == op[o].copy.on IN
    [op EXCEPT ![o].pc = "save",
               ![o].copy.on = IF op[o].want THEN on \cup {op[o].object} ELSE on \ {op[o].object}]

TurnOnWG(o) ==
    /\ op[o].object = "wg" /\ op[o].want
    /\ ApplyWG({})
    /\ op' = [Done(o) EXCEPT ![o].copy.key = InterfaceKey]
    /\ UNCHANGED <<raced, faults, stale>>

TurnOnRedirect(o) ==
    /\ op[o].object = "redirect" /\ op[o].want
    /\ live' = live \cup {"redirect"} /\ raced' = (raced \/ health.failedOpen)
    /\ op' = Done(o)
    /\ UNCHANGED <<ifkey, keys, faults, stale>>

TurnOnPlain(o) ==
    /\ op[o].object \notin {"wg", "redirect"} /\ op[o].want
    /\ live' = live \cup {op[o].object}
    /\ op' = Done(o)
    /\ UNCHANGED <<ifkey, keys, raced, faults, stale>>

TurnOff(o) ==
    /\ ~op[o].want
    /\ live' = live \ {op[o].object}
    /\ ifkey' = IF op[o].object = "wg" THEN 0 ELSE ifkey
    /\ op' = Done(o)
    /\ UNCHANGED <<keys, raced, faults, stale>>

\* A failure ends the command, except that switching the REDIRECT off, and WireGuard
\* off at the CLI, goes on with a warning.
GoesOn(o) == ~op[o].want /\ (op[o].object = "redirect" \/ (op[o].object = "wg" /\ o = "cli"))
TurnFails(o) ==
    /\ Fault
    /\ op' = IF GoesOn(o) THEN Done(o) ELSE [op EXCEPT ![o] = IdleOp]
    /\ IF op[o].want /\ op[o].object = "wg" THEN ApplyWGFails({})
       ELSE UNCHANGED <<live, ifkey, keys, stale>>
    /\ UNCHANGED raced

OnRouter(o) ==
    /\ op[o].pc = "router"
    /\ TurnOnWG(o) \/ TurnOnRedirect(o) \/ TurnOnPlain(o) \/ TurnOff(o) \/ TurnFails(o)
    /\ UNCHANGED <<copies, egress, process, pass, health, flag, events>>

\* The whole copy is saved; the CLI then sends SIGHUP, the bot reloads the daemon.
SaveCommand(o) ==
    /\ op[o].pc = "save"
    /\ disk' = op[o].copy
    /\ IF o = "cli"
       THEN /\ op' = [op EXCEPT ![o] = IdleOp]
            /\ hup' = IF process = "down" THEN hup ELSE "sent"
            /\ UNCHANGED bot
       ELSE /\ op' = [op EXCEPT ![o].pc = "apply"]
            /\ bot' = op[o].copy /\ UNCHANGED hup
    /\ UNCHANGED <<daemon, reload, router, egress, process, pass, guard, events, faults, stale>>

Rebind ==
    /\ "bot" \in Operator /\ op["bot"].pc = "apply"
    /\ op' = [op EXCEPT !["bot"] = IdleOp]
    /\ \/ daemon' = bot /\ stale' = (stale \/ OutOfDate(bot)) /\ UNCHANGED faults
       \/ Fault /\ stale' = TRUE /\ UNCHANGED daemon
    /\ UNCHANGED <<disk, bot, reload, hup, router, egress, process, pass, guard, events>>

\* The SIGHUP goroutine loads the file for the daemon, which may not be ready, and
\* then again for the bot.
HangUp ==
    /\ process = "up"
    /\ \/ /\ hup = "sent" /\ hup' = "applied" /\ UNCHANGED reload
          /\ \/ daemon' = disk /\ stale' = (stale \/ OutOfDate(disk)) /\ UNCHANGED faults
             \/ Fault /\ stale' = TRUE /\ UNCHANGED daemon
       \/ /\ hup = "applied" /\ hup' = "none" /\ reload' = disk
          /\ UNCHANGED <<daemon, stale, faults>>
    /\ UNCHANGED <<disk, bot, router, egress, process, pass, guard, op, events>>

-----------------------------------------------------------------------------
(* The process. *)

Restart == /\ Event /\ process = "up" /\ process' = "down"
           /\ pass' = [p \in Pass |-> IdlePass] /\ health' = IdleHealth /\ flag' = FALSE
           /\ op' = [o \in Operator |-> IF o = "bot" THEN IdleOp ELSE op[o]]
           /\ hup' = "none" /\ reload' = NoReload
           /\ UNCHANGED <<disk, daemon, bot, router, egress, faults, raced, stale>>

\* Loads config.json, then applyWGTransportAtStartup and the other applyXAtStartup:
\* the WireGuard step may save its copy; the bot's copy is loaded last.
StartLoad == /\ process = "down" /\ process' = "starting" /\ daemon' = disk
             /\ UNCHANGED <<disk, bot, reload, hup, router, egress, pass, guard, op, events,
                            faults, stale>>

StartApply ==
    LET rest == daemon.on \ {"wg"} IN
    /\ process = "starting" /\ process' = "up"
    /\ \/ /\ "wg" \in daemon.on /\ ApplyWG(rest)
          /\ daemon' = [daemon EXCEPT !.key = InterfaceKey]
          /\ disk' = IF daemon.key = InterfaceKey THEN disk ELSE daemon'
          /\ stale' = FALSE /\ UNCHANGED faults
       \/ /\ "wg" \notin daemon.on
          /\ live' = live \cup rest /\ stale' = FALSE
          /\ UNCHANGED <<ifkey, keys, daemon, disk, faults>>
       \/ /\ Fault /\ "wg" \in daemon.on /\ ApplyWGFails(rest)
          /\ UNCHANGED <<daemon, disk>>
       \/ /\ Fault /\ "wg" \notin daemon.on
          /\ live' \in {live \cup s : s \in SUBSET rest}
          /\ stale' = FALSE /\ UNCHANGED <<ifkey, keys, daemon, disk>>
    /\ bot' = disk'
    /\ UNCHANGED <<reload, hup, egress, pass, guard, op, events>>

Upkeep == (\E p \in Pass : BeginPass(p) \/ PassRule(p) \/ PassRest(p) \/ PassSave(p) \/ PassPush(p))
          \/ Probe \/ HealthClear \/ HealthEnsure
Commands == (\E o \in Operator : OnRouter(o) \/ SaveCommand(o)) \/ Rebind \/ HangUp
Environment == \/ \E dropped \in SUBSET Object : FirmwareDrops(dropped)
               \/ EgressChanges \/ Restart
               \/ \E o \in Operator, obj \in Object, want \in BOOLEAN : Begin(o, obj, want)
Next == Upkeep \/ Commands \/ Environment \/ StartLoad \/ StartApply

Spec == Init /\ [][Next]_vars

\* The ticker of a pass keeps firing, the health check probes on, a command runs to
\* its end, init starts the process again and the signals are read.
Fairness ==
    /\ \A p \in Pass : WF_vars(BeginPass(p)) /\ WF_vars(PassRule(p)) /\ WF_vars(PassRest(p))
                       /\ WF_vars(PassSave(p)) /\ WF_vars(PassPush(p))
    /\ WF_vars(Probe) /\ WF_vars(HealthClear) /\ WF_vars(HealthEnsure)
    /\ WF_vars(Commands) /\ WF_vars(StartLoad) /\ WF_vars(StartApply)
FairSpec == Spec /\ Fairness

-----------------------------------------------------------------------------
(* Properties. *)

\* While the health check holds the REDIRECT out, no reconcile pass that began after
\* it tripped puts it back, whatever ndm drops and however passes, commands and
\* restarts interleave.
FailOpenUnlessRaced ==
    (health.failedOpen /\ health.pc # "clear" /\ "redirect" \in live) => raced

Settled == /\ process = "up" /\ hup = "none" /\ \A o \in Operator : op[o].pc = "idle"
           /\ \A p \in Pass : pass[p].pc \notin {"save", "push"}

\* Once a rebuild has run through, xray holds the key of the interface the firmware
\* made, unless somebody gave it an older copy of the file or a step failed.
KeyReachesXray ==
    (Settled /\ "wg" \in daemon.on /\ ifkey # 0 /\ daemon.key # ifkey) => stale

\* Whatever was dropped, refused or restarted, everything config.json asks for ends
\* up in place, the REDIRECT as long as the egress works.
Wanted == {obj \in disk.on : obj = "redirect" => egress}
Converges == <>[](process = "up" /\ Wanted \subseteq live)

\* reconcile.go: a new key is pushed so that the tunnel does not stay broken.
KeyAgrees == []<>(Settled /\ ("wg" \in daemon.on /\ "wg" \in live => daemon.key = ifkey))

=============================================================================
