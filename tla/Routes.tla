------------------------------- MODULE Routes -------------------------------
(***************************************************************************)
(* Route lists from config.json to the router's DNS-based routes           *)
(* (cmd/keenetic-xray/routes.go, routes_preset.go and presets_update.go,   *)
(* internal/botcontrol/routes*.go, internal/presets/apply.go,              *)
(* internal/keenetic/routes.go and conntrack.go).                          *)
(*                                                                         *)
(* A command changes its process's copy of the configuration, saves it and *)
(* brings the router to it: it reads the running configuration, works out  *)
(* commands and issues them one by one, each of which may fail.  The bot,  *)
(* a shell and the daemon's reconcile pass do this side by side, and the   *)
(* daemon's daily loop tells the operator of lists that have moved on.     *)
(***************************************************************************)
EXTENDS Presets

CONSTANTS
    Companion,    \* the "-ip" list of a list
    Iface,
    DefaultIface,
    Typed,        \* entries the operator types or a scan finds
    Sites,        \* what is looked at: with ndmc, the daily loop, the bot's agent and the
                  \* conntrack tool or without, and the lists at the start, already on the router
    MaxEvents,    \* commands and refreshes on demand: a bound
    MaxFaults     \* failed commands and downloads, firmware drops, deaths: a bound

ASSUME RoutesAssumption ==
    /\ DOMAIN Companion \subseteq Preset /\ \A n \in DOMAIN Companion : Companion[n] \in Preset
    /\ \A s \in Sites : {s.ndmc, s.auto, s.agent, s.conntrack} \subseteq BOOLEAN
    /\ Typed \subseteq Entry \ Malformed /\ DefaultIface \in Iface /\ MaxEvents \in Nat /\ MaxFaults \in Nat

VARIABLES
    lists,     \* config.json
    memory,    \* the daemon's copy, which the bot's commands change
    groups,    \* the router's object-groups of ours: entries, or None
    routes,    \* their dns-proxy routes, the oldest first
    stale,     \* entries with a connection opened on another route than the present one
    job,       \* what each pusher is doing
    draft,     \* the daily loop's copy of the configuration, then what it is about to tell
    told, lost,    \* history: what the operator was told, and what was noted and will never be said
    site,          \* ndmc: there is a router to bring along; auto: presets_no_auto_update is not set;
                   \* agent: the daemon has an agent to tell; conntrack: the tool is installed
    events, faults

router == <<groups, routes, stale>>
counts == <<site, events, faults>>
daily == <<draft, told, lost>>
routeVars == <<lists, memory, router, job, daily, counts>>
allVars == <<presetVars, routeVars>>

ListName == Preset
Pusher == {"bot", "cli", "reconcile"}
NoList == [there |-> FALSE, bound |-> FALSE, entries |-> {}, iface |-> DefaultIface,
           reject |-> FALSE, disabled |-> FALSE, noted |-> None]
List == [there: BOOLEAN, bound: BOOLEAN, entries: SUBSET Entry, iface: Iface, reject: BOOLEAN,
         disabled: BOOLEAN, noted: Lines]
NoLists == [n \in ListName |-> NoList]
ASSUME SitesAssumption ==
    \A s \in Sites : /\ s.lists \in [ListName -> List]
                     /\ \A n \in ListName : s.lists[n].there \/ s.lists[n] = NoList

NoJob == [stage |-> "idle", want |-> NoLists, cmds |-> <<>>, changed |-> "nothing", failed |-> FALSE,
          alone |-> FALSE]

RouteOf(l) == [iface |-> l.iface, reject |-> l.reject]

RoutesInit ==
    /\ PresetsInit
    /\ site \in Sites /\ lists = site.lists /\ memory = lists
    /\ groups = [n \in ListName |-> IF site.ndmc /\ lists[n].there THEN lists[n].entries ELSE None]
    /\ routes = [n \in ListName |-> IF groups[n] # None /\ ~ lists[n].disabled THEN <<RouteOf(lists[n])>> ELSE <<>>]
    /\ stale = {}
    /\ job = [x \in Pusher |-> NoJob]
    /\ draft = NoLists /\ told = {} /\ lost = {}
    /\ events = 0 /\ faults = 0

Fault == faults < MaxFaults /\ faults' = faults + 1 /\ UNCHANGED <<site, events>>
Event == events < MaxEvents /\ events' = events + 1 /\ UNCHANGED <<site, faults>>

-----------------------------------------------------------------------------
(* What a command makes of a copy of the configuration. *)

Done(c) == [cfg |-> c, ok |-> TRUE]
Refused(c) == [cfg |-> c, ok |-> FALSE]
Hand(c, n) == IF c[n].there THEN c[n] ELSE [NoList EXCEPT !.there = TRUE]

AddEntries(c, n, e) == [c EXCEPT ![n] = [Hand(c, n) EXCEPT !.entries = @ \cup {e}]]

Edits(c) ==
    {Done(AddEntries(c, n, e)) : n \in ListName, e \in Typed}
    \cup UNION {LET l == c[n]
                IN  {Done([c EXCEPT ![n] = k]) :
                        k \in {[l EXCEPT !.entries = @ \ {e}] : e \in l.entries}
                              \cup {[l EXCEPT !.iface = i] : i \in Iface}
                              \cup {[l EXCEPT !.disabled = ~ @], [l EXCEPT !.reject = ~ @], NoList}} :
                n \in {m \in ListName : c[m].there}}

(* AddCompanionIPs: the companion starts out like its base; one that is a preset's is left alone. *)
Base(c, n) ==
    IF c[Companion[n]].there THEN c[Companion[n]]
    ELSE [c[n] EXCEPT !.bound = FALSE, !.entries = {}, !.noted = None]
AddCompanion(c, n, e) == [c EXCEPT ![Companion[n]] = [Base(c, n) EXCEPT !.entries = @ \cup {e}]]
Companions(c) ==
    {Done(AddCompanion(c, n, e)) :
        n \in {m \in DOMAIN Companion : c[m].there /\ ~ c[Companion[m]].bound}, e \in Typed}

(* presets.Apply: the list, then its companion; a hand-made one of that name refuses what is left. *)
Seedable(c, x, n) == Entries(x, n) \notin {None, {}} /\ (c[n].there => c[n].bound)
Seed(c, n, i) == [c EXCEPT ![n] = [Hand(c, n) EXCEPT !.bound = TRUE, !.entries = Served(n), !.iface = i]]
Apply(c, x, n, i, withIP) ==
    LET first == Seed(c, n, i)
        m == Companion[n]
    IN  IF ~ Seedable(c, x, n) THEN Refused(c)
        ELSE IF ~ withIP \/ n \notin DOMAIN Companion THEN Done(first)
        ELSE IF snapshot(x)[m] = None THEN Done(first)
        ELSE IF Seedable(first, x, m) THEN Done(Seed(first, m, i))
        ELSE Refused(first)
Applied(c, x) == {Apply(c, x, n, i, ip) : n \in ListName, i \in Iface, ip \in BOOLEAN}

(* presets.Sync, in the order of the lists. *)
BoundIn(c) == {n \in ListName : c[n].bound}
Synced(c, S) == [n \in ListName |-> IF n \in S THEN [c[n] EXCEPT !.entries = Served(n)] ELSE c[n]]
Sync(c, x, S) ==
    IF \A n \in S : Entries(x, n) # None THEN {Done(Synced(c, S))} \ {Done(c)}
    ELSE {Refused(Synced(c, T)) : T \in SUBSET {n \in S : Entries(x, n) # None}}

Commands(c, x) ==
    Edits(c) \cup Companions(c) \cup Applied(c, x)
    \cup Sync(c, x, BoundIn(c)) \cup UNION {Sync(c, x, {n}) : n \in BoundIn(c)}

-----------------------------------------------------------------------------
(* ApplyRoutes. *)

Idle(x) == job[x].stage = "idle"
Leaves(x) == job' = [job EXCEPT ![x] = NoJob]
Starts(x, c) ==
    IF ~ site.ndmc THEN Leaves(x)
    ELSE job' = [y \in Pusher |->
                    IF y # x THEN [job[y] EXCEPT !.alone = FALSE]
                    ELSE [NoJob EXCEPT !.stage = "read", !.want = c, !.alone = \A z \in Pusher \ {x} : Idle(z)]]

(* What `show running-config` says of a group's route: the last line read. *)
Shown(n) == IF routes[n] = <<>> THEN None ELSE Last(routes[n])
Cmd(op, n, arg) == [op |-> op, n |-> n, arg |-> arg]

In(n) == IF groups[n] = None THEN {} ELSE groups[n]
Contents(l, n) ==
    LET cur == In(n)
    IN  (IF groups[n] = None THEN <<Cmd("group", n, "")>> ELSE <<>>)
        \o [k \in 1 .. Cardinality(l.entries \ cur) |-> Cmd("include", n, SetToSeq(l.entries \ cur)[k])]
        \o [k \in 1 .. Cardinality(cur \ l.entries) |-> Cmd("exclude", n, SetToSeq(cur \ l.entries)[k])]

Unroute(n) == IF Shown(n) = None THEN <<>> ELSE <<Cmd("unroute", n, Shown(n).iface)>>
RoutingByIface(l, n) ==
    IF l.disabled THEN Unroute(n)
    ELSE IF Shown(n) # None /\ Shown(n).iface = l.iface THEN <<>>
    ELSE Unroute(n) \o <<Cmd("route", n, RouteOf(l))>>
Routing(l, n) ==
    IF l.disabled THEN Unroute(n)
    ELSE IF Shown(n) = RouteOf(l) THEN <<>>
    ELSE Unroute(n) \o <<Cmd("route", n, RouteOf(l))>>

Desired(c) == SetToSeq({n \in ListName : c[n].there})
Unwanted(c) == SetToSeq({n \in ListName : ~ c[n].there})
Left(c) == SetToSeq({n \in ListName : ~ c[n].there /\ groups[n] # None})
(* What is ours and no longer wanted: the routes, then the groups. *)
Orphans(c) ==
    FlattenSeq([k \in 1 .. Len(Unwanted(c)) |-> Unroute(Unwanted(c)[k])])
    \o [k \in 1 .. Len(Left(c)) |-> Cmd("ungroup", Left(c)[k], "")]

CommandsFor(c) ==
    FlattenSeq([k \in 1 .. Len(Desired(c)) |-> LET n == Desired(c)[k] IN Contents(c[n], n) \o Routing(c[n], n)])
    \o Orphans(c)

(* The report: whether entries and groups changed, or routes alone. *)
Change(cmds) == IF \A k \in DOMAIN cmds : cmds[k].op \in {"route", "unroute"} THEN "routes" ELSE "entries"

Read(x) ==
    /\ job[x].stage = "read"
    /\ LET cmds == CommandsFor(job[x].want)
       IN  job' = [job EXCEPT ![x] = IF cmds = <<>> THEN NoJob
                                     ELSE [@ EXCEPT !.stage = "run", !.cmds = cmds, !.changed = Change(cmds)]]
    /\ UNCHANGED <<presetVars, lists, memory, router, daily, counts>>

(* The router carries a command out. *)
Fill(n, cmd) == CASE cmd.op = "group" -> In(n)
                 [] cmd.op = "include" -> In(n) \cup {cmd.arg}
                 [] cmd.op = "exclude" /\ groups[n] # None -> In(n) \ {cmd.arg}
                 [] cmd.op = "ungroup" -> None
                 [] OTHER -> groups[n]
Off(n, i) == SelectSeq(routes[n], LAMBDA route : route.iface # i)
Lay(n, cmd) == CASE cmd.op = "unroute" -> Off(n, cmd.arg)
                 [] cmd.op = "route" -> Append(Off(n, cmd.arg.iface), cmd.arg)
                 [] OTHER -> routes[n]

Path(g, rs, e) ==
    {<<n, rs[n]>> : n \in {m \in ListName : g[m] # None /\ rs[m] # <<>> /\ (g[m] # None => e \in g[m])}}
Becomes(g, rs) ==
    /\ groups' = g /\ routes' = rs
    /\ stale' = stale \cup {e \in Entry : Path(g, rs, e) # Path(groups, routes, e)}

Run(x) ==
    /\ job[x].stage = "run" /\ job[x].cmds # <<>>
    /\ LET cmd == Head(job[x].cmds)
       IN  Becomes([groups EXCEPT ![cmd.n] = Fill(cmd.n, cmd)], [routes EXCEPT ![cmd.n] = Lay(cmd.n, cmd)])
    /\ job' = [job EXCEPT ![x].cmds = Tail(@)]
    /\ UNCHANGED <<presetVars, lists, memory, daily, counts>>

(* One command fails, or the minute is over and all that are left do. *)
CommandFails(x) ==
    /\ job[x].stage = "run" /\ job[x].cmds # <<>> /\ Fault
    /\ \E left \in {Tail(job[x].cmds), <<>>} : job' = [job EXCEPT ![x].cmds = left, ![x].failed = TRUE]
    /\ UNCHANGED <<presetVars, lists, memory, router, daily>>

(* After a change that failed in nothing a command's process moves the open connections, where the
   tool is there for it: those of its lists' groups, or all.  The reconcile pass does not. *)
FlushesAfterEntries(x) ==
    job[x].changed = "entries" /\ ~ job[x].failed /\ x # "reconcile" /\ site.conntrack
Flushes(x) ==
    job[x].changed # "nothing" /\ ~ job[x].failed /\ x # "reconcile" /\ site.conntrack

(* What is left: nothing, or all but the connections to what its lists' groups hold. *)
Flushed(c) ==
    LET ours == {n \in ListName : c[n].there /\ groups[n] # None}
    IN  {{}, stale \ UNION {groups[n] : n \in ours}}

(* A flush that fails, whole or for some of the addresses, is let go. *)
Ends(x) ==
    /\ job[x].stage = "run" /\ job[x].cmds = <<>>
    /\ \/ stale' \in (IF Flushes(x) THEN Flushed(job[x].want) ELSE {stale}) /\ UNCHANGED counts
       \/ Flushes(x) /\ Fault /\ stale' \in SUBSET stale
    /\ job' = [job EXCEPT ![x] = NoJob]
    /\ UNCHANGED <<presetVars, lists, memory, groups, routes, daily>>

-----------------------------------------------------------------------------
(* The daemon's bot handles one command at a time; a failed one leaves its copy changed. *)
BotCommand ==
    /\ site.agent /\ Idle("bot") /\ pull["bot"].stage = "idle" /\ Event
    /\ \E out \in Commands(memory, "bot") :
          /\ memory' = out.cfg
          /\ IF out.ok THEN lists' = out.cfg /\ Starts("bot", out.cfg) ELSE UNCHANGED <<lists, job>>
    /\ Loads("bot")
    /\ UNCHANGED <<upstream, file, manifest, pull, router, daily>>

(* A shell loads the file and saves it when it is done; `routes scan' reads pages for half a
   minute in between. *)
CliLoads ==
    /\ Idle("cli") /\ pull["cli"].stage = "idle" /\ Event
    /\ job' = [job EXCEPT !["cli"] = [NoJob EXCEPT !.stage = "scan", !.want = lists]]
    /\ UNCHANGED <<presetVars, lists, memory, router, daily>>

CliCommand ==
    /\ job["cli"].stage = "scan"
    /\ \E out \in Commands(job["cli"].want, "cli") :
          IF out.ok THEN lists' = out.cfg /\ Starts("cli", out.cfg)
          ELSE Leaves("cli") /\ UNCHANGED lists
    /\ UNCHANGED <<presetVars, memory, router, daily, counts>>

(* applyRoutesAtStartup, at the daemon's start and in every pass of its reconcile loop. *)
SomeList == \E n \in ListName : lists[n].there
ReconcileBegins ==
    /\ site.ndmc /\ Idle("reconcile") /\ SomeList /\ Starts("reconcile", lists)
    /\ UNCHANGED <<presetVars, lists, memory, router, daily, counts>>

(* SIGHUP, from some other command at a shell. *)
Reload ==
    /\ memory # lists /\ Event /\ memory' = lists
    /\ UNCHANGED <<presetVars, lists, router, job, daily>>

-----------------------------------------------------------------------------
(* The daily loop, and refreshes on demand. *)

Refreshes(r) ==
    /\ r # "daily" /\ (r = "bot" => site.agent) /\ Idle(r) /\ Event /\ Begins(r)
    /\ UNCHANGED <<upstream, file, manifest, loaded, lists, memory, router, job, daily>>
RefreshWorks(r) == PullStep(r) /\ UNCHANGED routeVars
RefreshEnds(r) == r # "daily" /\ WriteManifest(r, "idle") /\ UNCHANGED routeVars
RefreshFails(r) ==
    (PullFails(r) \/ PullGivesUp(r)) /\ Fault /\ UNCHANGED <<lists, memory, router, job, daily>>

DailyBegins ==
    /\ site.auto /\ Begins("daily") /\ draft' = lists
    /\ UNCHANGED <<upstream, file, manifest, loaded, lists, memory, router, job, told, lost, counts>>
DailyRefreshed == WriteManifest("daily", "note") /\ UNCHANGED routeVars

(* NewDrift. *)
CurRev(n) == snapshot("daily")[n]
Drifted(c) == {n \in BoundIn(c) : Entries("daily", n) \notin {None, c[n].entries}}
NewDriftOnce(c) == {n \in Drifted(c) : c[n].noted = None}
NewDrift(c) == {n \in Drifted(c) : c[n].noted # CurRev(n)}

(* The lists are noted as told of before they are, and where there is no agent they never are. *)
DailyNotes ==
    LET notes == NewDrift(draft)
        stamped == [n \in ListName |-> IF n \in notes THEN [draft[n] EXCEPT !.noted = CurRev(n)] ELSE draft[n]]
    IN  /\ pull["daily"].stage = "note"
        /\ lists' = IF notes = {} THEN lists ELSE stamped
        /\ IF notes = {} \/ ~ site.agent
           THEN /\ pull' = [pull EXCEPT !["daily"] = NoPull] /\ draft' = NoLists
                /\ lost' = lost \cup {<<n, CurRev(n)>> : n \in notes}
           ELSE /\ pull' = [pull EXCEPT !["daily"].stage = "send"] /\ UNCHANGED lost
                /\ draft' = [n \in ListName |-> IF n \in notes THEN stamped[n] ELSE NoList]
        /\ Loads("daily")
        /\ UNCHANGED <<upstream, file, manifest, memory, router, job, told, counts>>

SaveFails ==
    /\ pull["daily"].stage = "note" /\ NewDrift(draft) # {} /\ Fault
    /\ pull' = [pull EXCEPT !["daily"] = NoPull] /\ draft' = NoLists /\ Loads("daily")
    /\ UNCHANGED <<upstream, file, manifest, lists, memory, router, job, told, lost>>

Pending == {<<n, draft[n].noted>> : n \in {m \in ListName : pull["daily"].stage = "send" /\ draft[m].there}}
Send ==
    /\ pull["daily"].stage = "send"
    /\ told' = told \cup Pending /\ draft' = NoLists /\ pull' = [pull EXCEPT !["daily"] = NoPull]
    /\ UNCHANGED <<upstream, file, manifest, loaded, lists, memory, router, job, lost, counts>>

-----------------------------------------------------------------------------
(* What else happens. *)

News == Publishes /\ UNCHANGED routeVars

(* A firmware event or a config reset drops what is ours. *)
FirmwareDrops ==
    /\ Fault /\ \E n \in ListName : groups[n] # None
    /\ Becomes([n \in ListName |-> None], [n \in ListName |-> <<>>])
    /\ job' = [x \in Pusher |-> [job[x] EXCEPT !.alone = FALSE]]
    /\ UNCHANGED <<presetVars, lists, memory, daily>>

DaemonDies ==
    /\ Fault /\ memory' = lists /\ loaded' = None
    /\ job' = [x \in Pusher |-> IF x = "cli" THEN job[x] ELSE NoJob]
    /\ pull' = [r \in Refresher |-> IF r = "cli" THEN pull[r] ELSE NoPull]
    /\ draft' = NoLists /\ lost' = lost \cup Pending
    /\ UNCHANGED <<upstream, file, manifest, lists, router, told>>

CliDies ==
    /\ Fault /\ job' = [job EXCEPT !["cli"] = NoJob] /\ pull' = [pull EXCEPT !["cli"] = NoPull]
    /\ UNCHANGED <<upstream, file, manifest, loaded, lists, memory, router, daily>>

Pushes(x) == Read(x) \/ Run(x) \/ CommandFails(x) \/ Ends(x)
Daily == DailyBegins \/ DailyRefreshed \/ DailyNotes \/ SaveFails \/ Send
RoutesNext ==
    \/ \E x \in Pusher : Pushes(x)
    \/ \E r \in Refresher : Refreshes(r) \/ RefreshWorks(r) \/ RefreshEnds(r) \/ RefreshFails(r)
    \/ BotCommand \/ CliLoads \/ CliCommand \/ ReconcileBegins \/ Reload
    \/ Daily \/ News \/ FirmwareDrops \/ DaemonDies \/ CliDies

(* The daemon's two loops go on with what they have begun and come round again; a command, in the
   bot or at a shell, may stop half way. *)
Fairness ==
    /\ WF_allVars(ReconcileBegins \/ Read("reconcile") \/ Run("reconcile") \/ Ends("reconcile"))
    /\ WF_allVars(DailyBegins \/ RefreshWorks("daily") \/ DailyRefreshed \/ DailyNotes \/ Send)
RoutesSpec == RoutesInit /\ [][RoutesNext]_allVars
FairSpec == RoutesSpec /\ Fairness

-----------------------------------------------------------------------------
(* Properties. *)

Carries(c) ==
    \A n \in ListName : /\ groups[n] = (IF c[n].there THEN c[n].entries ELSE None)
                    /\ Shown(n) = (IF c[n].there /\ ~ c[n].disabled THEN RouteOf(c[n]) ELSE None)

(* Whatever failed, was dropped or died on the way, the router comes to show the groups and the
   routes config.json asks for, and nothing of ours besides, while any list is left
   (routes.go, applyRoutesAtStartup: "self-heals"). *)
RouterCatchesUp == <>[](site.ndmc /\ SomeList => Carries(lists))

(* With the tool there and working, once a command's own push has gone through undisturbed no open
   connection to an entry of its lists is on a route it left (routes.go, flushConntrackAfterRoutes).
   Without it they stay where they are: conntrack.go, "the caveat simply stands". *)
ConnectionsMove ==
    [][\A x \in {"bot", "cli"} :
          site.conntrack /\ job[x].alone /\ ~ job[x].failed /\ job[x].changed # "nothing" /\ Idle(x)' /\ faults' = faults
           => stale' \cap UNION {job[x].want[n].entries : n \in ListName} = {}]_allVars

(* While the daily loop runs, a bound list that stays behind its ready-made one comes to be told
   of at the revision it is behind, unless it was noted as told of and then not said: the daemon
   died between the two, or has no agent to say it to (apply.go, NewDrift; presets_update.go:
   "that backlog should surface once too"). *)
Drifts(n) == lists[n].bound /\ Rows[n] # None /\ lists[n].entries # Served(n)
EveryDriftIsTold ==
    <>[](site.auto => \A n \in ListName : Drifts(n) => <<n, Served(n)>> \in told \cup lost)

(* Refuted, in no run: nothing noted by a daemon that never died goes unsaid (presets_update.go, the
   same words); and a push moves the connections wherever it runs (conntrack.go, "Flushing conntrack
   after a routes change makes every flow re-evaluate its route"). *)
NotedIsTold == faults = 0 => lost = {}
EveryPushMoves ==
    [][\A x \in {"bot", "cli"} :
          job[x].alone /\ ~ job[x].failed /\ job[x].changed # "nothing" /\ Idle(x)' /\ faults' = faults
           => stale' \cap UNION {job[x].want[n].entries : n \in ListName} = {}]_allVars
=============================================================================
