--------------------------------- MODULE Menus ---------------------------------
(***************************************************************************)
(* The Telegram bot's screens and dialogs (internal/botcontrol:            *)
(* telegram.go, telegram_menu.go, telegram_wizard.go, telegram_routes.go,  *)
(* telegram_presets.go, telegram_adaptive.go, telegram_dns.go,             *)
(* telegram_addons.go).                                                    *)
(*                                                                         *)
(* A button carries a router and an index; what the index means is in a    *)
(* list the bot cached when a goroutine loaded it from the router.  One    *)
(* loop handles the taps and texts of the chat in order, goroutines await  *)
(* the router's answers, cache them and redraw a message, and the lists    *)
(* themselves change on the router meanwhile.                              *)
(***************************************************************************)
EXTENDS Naturals, Sequences, FiniteSets, SequencesExt

CONSTANTS
    Router,
    Name,          \* lists, presets, addresses, providers: what a row of a screen stands for
    Kind,          \* the screens: "routes", "presets", "redirected", "excluded", "dns"
    Contents,      \* [Kind -> what a router may hold of it, sequences of names]
    Start,         \* and what it holds at first
    Message,       \* the messages of one chat
    Visits,        \* what an operator may keep to, a bound: the lists opened, kind and router,
                   \* and how often something else may happen: taps that leave the lists'
                   \* screens, changes of a router's lists from elsewhere, lost answers of
                   \* Telegram, routers going offline and restarts of the server
    Drifts,        \* lists that may change on the router, kind and router: a bound
    MaxTaps        \* taps and texts: a bound

\* The two adaptive screens come together.
ASSUME KindAssumption == /\ Kind \subseteq {"routes", "presets", "redirected", "excluded", "dns"}
                         /\ "redirected" \in Kind <=> "excluded" \in Kind
ASSUME ContentsAssumption == \A k \in Kind : Start[k] \in Contents[k]
                                    /\ Contents[k] \subseteq Seq(Name)
ASSUME BoundAssumption == MaxTaps \in Nat \ {0}
ASSUME VisitsAssumption ==
    \A v \in Visits : v.lists \subseteq Kind \X Router /\ v.asides \in Nat

VARIABLES
    registered,    \* the registry's routers
    online,        \* routers that polled within the offline threshold
    has,           \* what each router holds: [Kind -> [Router -> sequence of items]]
    queue,         \* commands waiting for each router
    cached,        \* routeMenus, presetMenus, adaptiveMenus, dnsTop: per kind and router
    wizard,        \* wizards: the chat's dialog
    jobs,          \* the goroutines and the loop's own wait, by the tap they came from
    loop,          \* the tap whose answer the loop itself waits for, 0 for none
    inbox,         \* updates Telegram holds: what getUpdates has not confirmed
    fetched, done, \* of them, those in the batch, and those handled
    offers,        \* the lists the operator opens in this behaviour
    screen,        \* what each message shows
    tapped, restarts,
    asides         \* what else may still happen

bot == <<cached, wizard, jobs, loop>>
telegram == <<inbox, fetched, done, tapped>>
world == <<registered, online, has, restarts, offers>>
menuVars == <<bot, telegram, world, queue, screen, asides>>

-----------------------------------------------------------------------------
(* A row is told apart by the router it is on: <<r, name>>. *)

On(r, names) == [i \in DOMAIN names |-> <<r, names[i]>>]
NoItem == <<>>
Unknown == << <<"not", "loaded">> >>
Tap == 1 .. MaxTaps

Plain == [view |-> "plain", kind |-> "", router |-> "", idx |-> 0, items |-> <<>>, own |-> FALSE]
NoDialog == [step |-> "", router |-> "", item |-> NoItem, del |-> FALSE]
NoJob == [stage |-> "", msg |-> "", router |-> "", kind |-> "", opens |-> FALSE,
          got |-> "waits", items |-> <<>>, other |-> Unknown, own |-> FALSE]

Adaptive == {"redirected", "excluded"}
Sibling(k) == CHOOSE q \in Adaptive : q # k

(* A list as loaded from router r replaces the chat's one of its kind.  There is one snapshot
   of the routes and one of the presets whatever the router, one record of both adaptive lists,
   and one ranking of DNS providers per router. *)
SetMenu(k, r, items, other) ==
    CASE k = "dns" -> [cached EXCEPT !["dns"][r] = items]
      [] k \in Adaptive ->
            [q \in Kind |-> IF q = k THEN [x \in Router |-> IF x = r THEN items ELSE Unknown]
                            ELSE IF q \in Adaptive
                            THEN [x \in Router |-> IF x = r THEN other ELSE Unknown]
                            ELSE cached[q]]
      [] OTHER -> [cached EXCEPT ![k] = [x \in Router |-> IF x = r THEN items ELSE Unknown]]

(* ... whatever router the cached list is of: a mutant. *)
ItemOfAnyRouter(k, r, i) ==
    IF \E x \in Router : cached[k][x] # Unknown /\ i \in DOMAIN cached[k][x]
    THEN cached[k][CHOOSE x \in Router : cached[k][x] # Unknown /\ i \in DOMAIN cached[k][x]][i]
    ELSE NoItem

(* routeMenuItem, presetItem and the bounds checks of the adx buttons: the row, if the cached
   list is that router's and is long enough. *)
MenuItem(k, r, i) ==
    IF cached[k][r] # Unknown /\ i \in DOMAIN cached[k][r] THEN cached[k][r][i] ELSE NoItem

(* What an answer of the cached list means for whatever was drawn from it: history. *)
Keeps(k, r) == k \in Kind /\ cached'[k][r] = cached[k][r]
Disown(s) == IF s.own THEN [s EXCEPT !.own = Keeps(s.kind, s.router)] ELSE s

-----------------------------------------------------------------------------
(* Commands and the goroutines that await them. *)

MenuCommand(id, act, k, arg, seen, own) ==
    [for |-> id, act |-> act, kind |-> k, arg |-> arg, seen |-> seen, own |-> own]

(* Store.Enqueue refuses an unknown router only. *)
EnqueueCommand(r, c) == queue' = [queue EXCEPT ![r] = Append(@, c)]

Forget(q, id) == [r \in Router |-> [i \in DOMAIN q[r] |->
                     IF q[r][i].for = id THEN [q[r][i] EXCEPT !.for = 0] ELSE q[r][i]]]

Aside == asides > 0 /\ asides' = asides - 1

Show(m, s) == screen' = [screen EXCEPT ![m] = s]

(* The first thing a button that asks the router does: queue the command, show that it waits
   and leave the rest to a goroutine. *)
Spawn(u, act, arg, seen, job) ==
    /\ Show(u.msg, Plain)
    /\ IF u.router \in registered
       THEN /\ EnqueueCommand(u.router, MenuCommand(u.id, act, u.kind, arg, seen, u.own))
            /\ jobs' = [jobs EXCEPT ![u.id] = job]
       ELSE UNCHANGED <<queue, jobs>>
    /\ UNCHANGED <<cached, wizard, loop>>

Job(u, stage, opens) == [NoJob EXCEPT !.stage = stage, !.msg = u.msg, !.router = u.router,
                                      !.kind = u.kind, !.opens = opens]

(* enqueueAndWait: the loop stands still until the router answers or the time is up, unless
   the router is known to be offline. *)
EnqueueAndWait(u, r, act, k, arg) ==
    IF r \notin registered THEN UNCHANGED <<queue, jobs, loop>>
    ELSE /\ EnqueueCommand(r, MenuCommand(IF r \in online THEN u.id ELSE 0, act, k, arg, arg, TRUE))
         /\ IF r \in online
            THEN /\ jobs' = [jobs EXCEPT ![u.id] = [NoJob EXCEPT !.stage = "answer", !.router = r]]
                 /\ loop' = u.id
            ELSE UNCHANGED <<jobs, loop>>

-----------------------------------------------------------------------------
(* Buttons. *)

OpenList(u) == u.verb = "open" /\ Spawn(u, "names", <<>>, <<>>, Job(u, "list", TRUE))

OpenRoutes(u) == u.kind = "routes" /\ OpenList(u)
OpenPresets(u) == u.kind = "presets" /\ OpenList(u)
OpenAdaptive(u) == u.kind \in Adaptive /\ OpenList(u)
OpenDNSTop(u) == u.kind = "dns" /\ OpenList(u)

FromCache(view, k, r, i, items) ==
    [view |-> view, kind |-> k, router |-> r, idx |-> i, items |-> items, own |-> TRUE]

(* A page or a category of the cached list. *)
Page(u) ==
    /\ u.verb = "page"
    /\ Show(u.msg, IF cached[u.kind][u.router] = Unknown THEN Plain
                   ELSE FromCache("list", u.kind, u.router, 0, cached[u.kind][u.router]))
    /\ UNCHANGED <<bot, queue>>

(* A row's own screen and the question whether to delete it, both from the cached list. *)
Card(u) ==
    /\ u.verb \in {"card", "confirm"}
    /\ LET it == MenuItem(u.kind, u.router, u.idx)
       IN  Show(u.msg, IF it = NoItem THEN Plain
                       ELSE FromCache(u.verb, u.kind, u.router, u.idx, <<it>>))
    /\ UNCHANGED <<bot, queue>>

(* The buttons that change something: the argument is whatever the cached list now holds there,
   for DNS the whole of it. *)
ActOn(u, arg) ==
    IF arg = <<>> THEN Show(u.msg, Plain) /\ UNCHANGED <<bot, queue>>
    ELSE Spawn(u, u.verb, arg, u.seen, Job(u, "act", FALSE))

Row(u) == LET it == MenuItem(u.kind, u.router, u.idx) IN IF it = NoItem THEN <<>> ELSE <<it>>

RouteAction(u) == u.verb \in {"remove", "change"} /\ ActOn(u, Row(u))
InstallPreset(u) == u.verb = "install" /\ ActOn(u, Row(u))
AdaptiveAction(u) == u.verb \in {"exclude", "include"} /\ ActOn(u, Row(u))
ApplyTop(u) == u.verb = "apply"
               /\ ActOn(u, IF cached["dns"][u.router] = Unknown THEN <<>> ELSE cached["dns"][u.router])
UpdatePresets(u) == u.verb = "update" /\ Spawn(u, "update", <<>>, <<>>, Job(u, "act", FALSE))

(* Buttons that name what they want: a card's action, a DNS provider, an add-on, a status. *)
Ask(u) == u.verb = "ask" /\ Spawn(u, "read", <<>>, <<>>, Job(u, "plain", FALSE))

(* A dialog replaces the one before; the ones about a list keep its name, not its index. *)
StartListDialog(u) ==
    /\ u.verb \in {"entries", "iface"}
    /\ LET it == MenuItem(u.kind, u.router, u.idx)
       IN  wizard' = IF it = NoItem THEN wizard
                     ELSE [step |-> u.verb, router |-> u.router, item |-> it, del |-> u.del]
    /\ UNCHANGED <<cached, jobs, loop, queue, screen>>

StartDialog(u) ==
    /\ u.verb \in {"name", "source", "id"}
    /\ wizard' = IF u.verb = "id" \/ u.router \in registered
                 THEN [step |-> u.verb, router |-> u.router, item |-> NoItem, del |-> FALSE]
                 ELSE wizard
    /\ UNCHANGED <<cached, jobs, loop, queue, screen>>

(* delyes: the router leaves the registry with its queue; the agent on it is not told. *)
DeleteRouter(u) ==
    /\ u.verb = "delete"
    /\ registered' = registered \ {u.router}
    /\ queue' = [queue EXCEPT ![u.router] = <<>>]
    /\ Show(u.msg, Plain)
    /\ UNCHANGED bot

-----------------------------------------------------------------------------
(* Texts: handleWizardText, handleWizardDocument, dispatch. *)

Clear == wizard' = NoDialog

(* A command ends the dialog whatever it is; only /cancel stops there. *)
SlashCommand(u) ==
    /\ u.verb = "slash"
    /\ Clear
    /\ IF u.cancel THEN UNCHANGED <<queue, jobs, loop>>
       ELSE EnqueueAndWait(u, u.router, "read", "", <<>>)
    /\ UNCHANGED <<cached, screen, registered>>

(* A text nobody asked for, or one the step does not take: the dialog stays. *)
TextRefused(u) ==
    /\ u.verb = "text"
    /\ \/ wizard = NoDialog
       \/ ~ u.valid
       \/ wizard.step = "id" /\ u.router \in registered
    /\ UNCHANGED <<bot, queue, screen, registered>>

Taken(u, steps) == u.verb = "text" /\ u.valid /\ wizard.step \in steps

(* The text a dialog was for ends it, then the loop waits for the router. *)
Submit(u, act, kind, arg) ==
    /\ Clear
    /\ EnqueueAndWait(u, wizard.router, act, kind, arg)
    /\ UNCHANGED <<cached, screen, registered>>

ListNamed(u) ==
    /\ Taken(u, {"name"})
    /\ \E n \in Name : wizard' = [wizard EXCEPT !.step = "entries", !.item = <<wizard.router, n>>]
    /\ UNCHANGED <<cached, queue, jobs, loop, screen, registered>>

EntriesGiven(u) == /\ Taken(u, {"entries"})
                   /\ Submit(u, IF wizard.del THEN "change" ELSE "add", "routes", <<wizard.item>>)

IfaceGiven(u) == Taken(u, {"iface"}) /\ Submit(u, "change", "routes", <<wizard.item>>)
SourceGiven(u) == Taken(u, {"source"}) /\ Submit(u, "read", "", <<>>)

(* A new router's id, which must be free then, and its title, when AddRouter looks again. *)
RouterNamed(u) ==
    /\ Taken(u, {"id", "title"})
    /\ IF wizard.step = "id"
       THEN /\ u.router \notin registered
            /\ wizard' = [wizard EXCEPT !.step = "title", !.router = u.router]
            /\ UNCHANGED registered
       ELSE Clear /\ registered' = registered \cup {wizard.router}
    /\ UNCHANGED <<cached, queue, jobs, loop, screen>>

(* A file is a source or nothing; when it cannot be downloaded the dialog stays. *)
Document(u) ==
    /\ u.verb = "file"
    /\ IF wizard.step = "source" /\ u.valid
       THEN Clear /\ EnqueueAndWait(u, wizard.router, "read", "", <<>>)
       ELSE UNCHANGED <<wizard, queue, jobs, loop>>
    /\ UNCHANGED <<cached, screen, registered>>

Text(u) == \/ SlashCommand(u) \/ TextRefused(u) \/ ListNamed(u) \/ EntriesGiven(u) \/ IfaceGiven(u)
           \/ SourceGiven(u) \/ RouterNamed(u) \/ Document(u)

Button(u) == \/ OpenRoutes(u) \/ OpenPresets(u) \/ OpenAdaptive(u) \/ OpenDNSTop(u) \/ Page(u) \/ Card(u)
             \/ RouteAction(u) \/ InstallPreset(u) \/ AdaptiveAction(u) \/ ApplyTop(u) \/ UpdatePresets(u)
             \/ Ask(u) \/ StartListDialog(u) \/ StartDialog(u)

-----------------------------------------------------------------------------
(* Run: getUpdates confirms what was handled and brings the rest, or its answer is lost. *)

GetUpdates ==
    /\ loop = 0 /\ done = fetched
    /\ done > 0 \/ inbox # <<>>
    /\ inbox' = SubSeq(inbox, done + 1, Len(inbox))
    /\ done' = 0
    /\ fetched' = Len(inbox')
    /\ UNCHANGED <<bot, world, queue, screen, tapped, asides>>

GetUpdatesFails ==
    /\ loop = 0 /\ done = fetched /\ done > 0
    /\ inbox' = SubSeq(inbox, done + 1, Len(inbox))
    /\ done' = 0 /\ fetched' = 0
    /\ Aside
    /\ UNCHANGED <<bot, world, queue, screen, tapped>>

Handle ==
    /\ loop = 0 /\ done < fetched
    /\ done' = done + 1
    /\ inbox' = [inbox EXCEPT ![done + 1].times = @ + 1]
    /\ LET u == inbox[done + 1]
       IN  \/ Button(u) /\ UNCHANGED registered
           \/ Text(u)
           \/ DeleteRouter(u)
    /\ UNCHANGED <<fetched, tapped, asides, online, has, restarts, offers>>

-----------------------------------------------------------------------------
(* Goroutines.  AwaitResult gives up on a router after a time: on one that is offline, or,
   within the bound, on one that is slow. *)

(* ... without a time limit on the loop's own wait: a mutant. *)
LoopWaitsForever(j) ==
    /\ jobs[j].stage \in {"act", "plain", "list"} /\ jobs[j].got = "waits"
    /\ IF jobs[j].router \in online /\ jobs[j].router \in registered THEN Aside ELSE UNCHANGED asides
    /\ jobs' = [jobs EXCEPT ![j].got = "nothing"]
    /\ queue' = Forget(queue, j)
    /\ UNCHANGED <<cached, wizard, loop, telegram, world, screen>>

GivesUp(j) ==
    /\ jobs[j].stage \in {"act", "plain", "list", "answer"} /\ jobs[j].got = "waits"
    /\ IF jobs[j].router \in online /\ jobs[j].router \in registered THEN Aside ELSE UNCHANGED asides
    /\ jobs' = [jobs EXCEPT ![j].got = "nothing"]
    /\ queue' = Forget(queue, j)
    /\ UNCHANGED <<cached, wizard, loop, telegram, world, screen>>

Answer(j) == jobs[j].got
Waits(j) == jobs[j].got = "waits"

Drop(j) == jobs' = [jobs EXCEPT ![j] = NoJob] /\ UNCHANGED queue

(* After a change the list is asked for again. *)
AskAgain(j, act) ==
    LET job == jobs[j]
    IN  /\ IF job.router \in registered
           THEN /\ jobs' = [jobs EXCEPT ![j].stage = IF act = "names" THEN "list" ELSE "plain", ![j].got = "waits"]
                /\ queue' = [queue EXCEPT ![job.router] =
                                Append(@, MenuCommand(j, act, job.kind, <<>>, <<>>, FALSE))]
           ELSE Drop(j)
        /\ Show(job.msg, Plain)
        /\ UNCHANGED <<cached, wizard, loop, telegram, world, asides>>

Acted(j, kinds) == jobs[j].stage = "act" /\ jobs[j].kind \in kinds /\ ~ Waits(j)

RouteActed(j) == Acted(j, {"routes"}) /\ AskAgain(j, "names")
PresetActed(j) == Acted(j, {"presets"}) /\ AskAgain(j, "names")
DNSActed(j) == Acted(j, {"dns"}) /\ AskAgain(j, "read")

(* The adaptive screens ask again only after a success. *)
AdaptiveActed(j) == Acted(j, Adaptive) /\ Answer(j) = "ok" /\ AskAgain(j, "names")
AdaptiveRefused(j) ==
    /\ Acted(j, Adaptive) /\ Answer(j) # "ok"
    /\ Drop(j)
    /\ Show(jobs[j].msg, Plain)
    /\ UNCHANGED <<cached, wizard, loop, telegram, world, asides>>

Asked(j) ==
    /\ jobs[j].stage = "plain" /\ ~ Waits(j)
    /\ Drop(j)
    /\ Show(jobs[j].msg, Plain)
    /\ UNCHANGED <<cached, wizard, loop, telegram, world, asides>>

(* No list came, or an empty one where an empty one is not kept. *)
Loads(j) ==
    /\ jobs[j].stage = "list" /\ Answer(j) = "ok"
    /\ jobs[j].items = <<>> => jobs[j].kind # "dns" /\ ~ (jobs[j].kind = "presets" /\ jobs[j].opens)

NotLoaded(j) ==
    /\ jobs[j].stage = "list" /\ ~ Waits(j) /\ ~ Loads(j)
    /\ Drop(j)
    /\ Show(jobs[j].msg, Plain)
    /\ UNCHANGED <<cached, wizard, loop, telegram, world, asides>>

(* The cached list and what else hangs on it. *)
Store(j, menus) ==
    /\ cached' = menus
    /\ jobs' = [i \in Tap |-> IF i = j THEN [jobs[j] EXCEPT !.stage = "edit", !.other = Unknown, !.own = TRUE]
                              ELSE Disown(jobs[i])]
    /\ screen' = [m \in Message |-> Disown(screen[m])]
    /\ inbox' = [i \in DOMAIN inbox |-> Disown(inbox[i])]
    /\ UNCHANGED <<queue, wizard, loop, fetched, done, tapped, asides, world>>

(* setRouteMenu, setPresetMenu, rememberDNSTop. *)
SetOne(j) ==
    /\ Loads(j) /\ jobs[j].kind \notin Adaptive
    /\ Store(j, SetMenu(jobs[j].kind, jobs[j].router, jobs[j].items, Unknown))

(* setAdaptiveList and setAdaptiveExcluded read the record under the lock, change their half of
   it outside and store it under the lock again. *)
ReadAdaptive(j) ==
    /\ Loads(j) /\ jobs[j].kind \in Adaptive
    /\ jobs' = [jobs EXCEPT ![j].stage = "store", ![j].other = cached[Sibling(jobs[j].kind)][jobs[j].router]]
    /\ UNCHANGED <<cached, wizard, loop, telegram, world, queue, screen, asides>>

(* ... only on opening, not after a change: a mutant. *)
StoreOnOpening(j) ==
    /\ jobs[j].stage = "store"
    /\ Store(j, IF jobs[j].opens THEN SetMenu(jobs[j].kind, jobs[j].router, jobs[j].items, jobs[j].other)
                ELSE cached)

StoreAdaptive(j) ==
    /\ jobs[j].stage = "store"
    /\ Store(j, SetMenu(jobs[j].kind, jobs[j].router, jobs[j].items, jobs[j].other))

Edit(j) ==
    /\ jobs[j].stage = "edit"
    /\ Show(jobs[j].msg, [FromCache("list", jobs[j].kind, jobs[j].router, 0, jobs[j].items)
                             EXCEPT !.own = jobs[j].own])
    /\ Drop(j)
    /\ UNCHANGED <<cached, wizard, loop, telegram, world, asides>>

(* The loop has its answer, or has waited ResultTimeout for it. *)
LoopGoesOn ==
    /\ loop # 0 /\ ~ Waits(loop)
    /\ Drop(loop)
    /\ loop' = 0
    /\ UNCHANGED <<cached, wizard, telegram, world, screen, asides>>

Goroutine(j) == \/ GivesUp(j) \/ RouteActed(j) \/ PresetActed(j) \/ DNSActed(j) \/ AdaptiveActed(j) \/ AdaptiveRefused(j)
                \/ Asked(j) \/ NotLoaded(j) \/ SetOne(j) \/ ReadAdaptive(j) \/ StoreAdaptive(j) \/ Edit(j)

-----------------------------------------------------------------------------
(* The router's agent takes its commands in order; what they do to the lists. *)

Present(c, r) == c.arg[1] \in Range(has[c.kind][r])
Without(s, it) == RemoveFirst(s, it)
With(s, it) == IF it \in Range(s) THEN s ELSE Append(s, it)

Result(c, r) ==
    IF c.act \in {"remove", "change", "install", "include"} /\ ~ Present(c, r) THEN "failed" ELSE "ok"

Effect(c, r) ==
    CASE c.act \in {"remove", "include"} -> {[has EXCEPT ![c.kind][r] = Without(@, c.arg[1])]}
      [] c.act = "add" -> {[has EXCEPT !["routes"][r] = With(@, c.arg[1])]}
      [] c.act = "exclude" -> {[has EXCEPT !["redirected"][r] = Without(@, c.arg[1]),
                                           !["excluded"][r] = With(@, c.arg[1])]}
      [] c.act = "update" -> {[has EXCEPT !["presets"][r] = On(r, s)] : s \in Contents["presets"]}
      [] OTHER -> {has}

Execute(r) ==
    /\ r \in online /\ queue[r] # <<>>
    /\ LET c == Head(queue[r])
       IN  /\ has' \in Effect(c, r)
           /\ jobs' = IF c.for = 0 THEN jobs
                      ELSE [jobs EXCEPT ![c.for].got = Result(c, r),
                                        ![c.for].items = IF c.act = "names" THEN has[c.kind][r] ELSE @]
    /\ queue' = [queue EXCEPT ![r] = Tail(@)]
    /\ UNCHANGED <<cached, wizard, loop, telegram, screen, registered, online, restarts, offers, asides>>

(* Someone at the router, a timer or a measurement changes a list. *)
Drift(k, r) ==
    /\ Aside
    /\ \E s \in Contents[k] : has' = [has EXCEPT ![k][r] = On(r, s)]
    /\ has' # has
    /\ UNCHANGED <<bot, telegram, queue, screen, registered, online, restarts, offers>>

GoesOffline(r) ==
    /\ r \in online /\ Aside
    /\ online' = online \ {r}
    /\ UNCHANGED <<bot, telegram, queue, screen, registered, has, restarts, offers>>

ComesBack(r) ==
    /\ r \notin online
    /\ online' = online \cup {r}
    /\ UNCHANGED <<bot, telegram, queue, screen, registered, has, restarts, offers, asides>>

(* The server is restarted: the registry and the queues are on disk, all else is gone, and
   Telegram brings again what was not confirmed. *)
NothingCached == [k \in Kind |-> [r \in Router |-> Unknown]]

Restart ==
    /\ Aside
    /\ restarts' = restarts + 1
    /\ cached' = NothingCached
    /\ wizard' = NoDialog
    /\ jobs' = [j \in Tap |-> NoJob]
    /\ loop' = 0
    /\ queue' = [r \in Router |-> [i \in DOMAIN queue[r] |-> [queue[r][i] EXCEPT !.for = 0]]]
    /\ screen' = [m \in Message |-> Disown(screen[m])]
    /\ inbox' = [i \in DOMAIN inbox |-> Disown(inbox[i])]
    /\ fetched' = 0 /\ done' = 0
    /\ UNCHANGED <<registered, online, has, offers, tapped>>

-----------------------------------------------------------------------------
(* The operator. *)

Update(verb, m, k, r, i, seen) ==
    [id |-> tapped + 1, times |-> 0, verb |-> verb, msg |-> m, kind |-> k, router |-> r, idx |-> i,
     seen |-> seen, own |-> FALSE, del |-> FALSE, cancel |-> FALSE, valid |-> FALSE]

(* The buttons under a message, by what it shows. *)
Under(m, verb, i, seen) ==
    [Update(verb, m, screen[m].kind, screen[m].router, i, seen) EXCEPT !.own = screen[m].own]
RowsOf(m, verb) == {Under(m, verb, i, <<screen[m].items[i]>>) : i \in DOMAIN screen[m].items}
This(m, verb) == Under(m, verb, screen[m].idx, screen[m].items)

RouteButtons(m) ==
    CASE screen[m].view = "list" -> RowsOf(m, "card")
      [] screen[m].view = "card" ->
            {This(m, verb) : verb \in {"confirm", "change", "iface", "entries"}}
            \cup {[This(m, "entries") EXCEPT !.del = TRUE]}
      [] OTHER -> {This(m, "remove")}

PresetButtons(m) == IF screen[m].view = "list" THEN RowsOf(m, "card") \cup {Under(m, "page", 0, <<>>)}
                    ELSE {This(m, "install")}

AdaptiveButtons(m) ==
    IF screen[m].kind = "excluded" THEN RowsOf(m, "include")
    ELSE IF screen[m].view = "list" THEN RowsOf(m, "card") \cup {Under(m, "page", 0, <<>>)}
    ELSE {This(m, "exclude")}

DNSButtons(m) == {This(m, "apply")}

Buttons(m) == CASE screen[m].kind = "routes" -> RouteButtons(m)
                [] screen[m].kind = "presets" -> PresetButtons(m)
                [] screen[m].kind \in Adaptive -> AdaptiveButtons(m)
                [] screen[m].kind = "dns" -> DNSButtons(m)
                [] OTHER -> {}

Opens(m) == {Update("open", m, o[1], o[2], 0, <<>>) : o \in offers}

Elsewhere == {o[2] : o \in {p \in offers : p[1] = "routes"}}

NoKind == ""

AboutRouters(m) == {Update(verb, m, NoKind, r, 0, <<>>) :
                       verb \in {"ask", "delete", "name", "source", "id", "slash"}, r \in Elsewhere}
PresetUpdates(m) == {Update("update", m, o[1], o[2], 0, <<>>) : o \in {p \in offers : p[1] = "presets"}}
Cancels(m) == {[Update("slash", m, NoKind, "", 0, <<>>) EXCEPT !.cancel = TRUE]}

Asides(m) == AboutRouters(m) \cup PresetUpdates(m) \cup Cancels(m)

Texts(m) == {[Update(verb, m, NoKind, r, 0, <<>>) EXCEPT !.valid = b]
                : verb \in {"text", "file"}, b \in BOOLEAN, r \in Elsewhere}

SendUpdate(u) ==
    /\ tapped < MaxTaps
    /\ tapped' = tapped + 1
    /\ inbox' = Append(inbox, u)
    /\ UNCHANGED <<bot, world, queue, screen, fetched, done>>

Taps(m) == (\E u \in Buttons(m) \cup Opens(m) : SendUpdate(u)) /\ UNCHANGED asides

GoesElsewhere(m) == /\ Aside
                    /\ \E u \in Asides(m) : SendUpdate(u)

(* A text or a file, asked for or not. *)
Types(m) == /\ \E u \in Texts(m) : SendUpdate(u)
            /\ IF wizard # NoDialog THEN UNCHANGED asides
               ELSE Aside

-----------------------------------------------------------------------------
MenuInit ==
    /\ registered = Router /\ online = Router
    /\ \E v \in Visits : offers = v.lists /\ asides = v.asides
    /\ has = [k \in Kind |-> [r \in Router |-> On(r, Start[k])]]
    /\ queue = [r \in Router |-> <<>>]
    /\ cached = NothingCached /\ wizard = NoDialog
    /\ jobs = [j \in Tap |-> NoJob] /\ loop = 0
    /\ inbox = <<>> /\ fetched = 0 /\ done = 0
    /\ screen = [m \in Message |-> Plain]
    /\ tapped = 0 /\ restarts = 0

TelegramBot == GetUpdates \/ Handle \/ LoopGoesOn \/ \E j \in Tap : Goroutine(j)
World == \/ \E r \in Router : Execute(r) \/ GoesOffline(r) \/ ComesBack(r)
         \/ \E o \in Drifts \cap offers : Drift(o[1], o[2])
         \/ GetUpdatesFails \/ Restart
Operator == \E m \in Message : Taps(m) \/ GoesElsewhere(m) \/ Types(m)

MenuNext == TelegramBot \/ World \/ Operator

(* The loop, the goroutines and the routers that are online go on. *)
MenuFairness ==
    /\ WF_menuVars(GetUpdates) /\ WF_menuVars(Handle) /\ WF_menuVars(LoopGoesOn)
    /\ \A j \in Tap : WF_menuVars(Goroutine(j))
    /\ \A r \in Router : WF_menuVars(Execute(r))

MenuSpec == MenuInit /\ [][MenuNext]_menuVars
MenuFairSpec == MenuSpec /\ MenuFairness

-----------------------------------------------------------------------------
MenuTypeOK ==
    /\ registered \subseteq Router /\ online \subseteq Router
    /\ \A k \in Kind, r \in Router : Range(has[k][r]) \subseteq {r} \X Name
    /\ \A r \in Router : \A i \in DOMAIN queue[r] : queue[r][i].for \in {0} \cup Tap
    /\ \A j \in Tap : jobs[j].stage \in {"", "list", "act", "plain", "store", "edit", "answer"}
    /\ loop # 0 => jobs[loop].stage = "answer"
    /\ done <= fetched /\ fetched <= Len(inbox)

(* A command that names a row goes to the router that row came from: the cached list of
   one router is never indexed for another, nor mixed with another's by two loads at once.
   (routeMenuItem, presetSnapshot, adaptiveMenuFor; dialogs.) *)
NamesItsOwnRouter ==
    \A r \in Router : \A i \in DOMAIN queue[r] :
        \A x \in DOMAIN queue[r][i].arg : queue[r][i].arg[x][1] = r

(* What a button does is done to the row the operator saw when pressing it, unless a list
   loaded later has changed what the index means: the list is cached before it is drawn,
   after a change as well as on opening. *)
DoesWhatItShowed ==
    \A r \in Router : \A i \in DOMAIN queue[r] :
        queue[r][i].own => queue[r][i].arg = queue[r][i].seen

(* An update is handled once per life of the server. *)
HandledOncePerLife == \A i \in DOMAIN inbox : inbox[i].times <= 1 + restarts

(* Every tap and text is handled in the end: the loop waits for a router at most as long as
   ResultTimeout, and asks for the next updates whatever came of the ones before. *)
EveryTapIsHandled == []<>(\A i \in DOMAIN inbox : inbox[i].times > 0)

=============================================================================
