-------------------------------- MODULE Cores --------------------------------
(***************************************************************************)
(* How the binaries the daemon supervises get onto the router              *)
(* (internal/xraycore, internal/naivecore, internal/netfetch, and their    *)
(* callers in cmd/keenetic-xray/internal.go and                            *)
(* internal/botcontrol/commands.go).                                       *)
(*                                                                         *)
(* An installer downloads into a file of its own beside the core, checks   *)
(* the sum of what it received, runs the file once and renames it over the *)
(* core.  Nothing keeps two installers apart: a package's postinst, the    *)
(* bot and a shell may all be at it, and any of them may be killed.        *)
(***************************************************************************)
EXTENDS Naturals

CONSTANTS
    Tag,          \* releases of a core
    DefaultTag,
    RunsHere,     \* tags whose build runs on this router
    Entware,      \* the build of the Entware feed; a tag of its own
    NoCore,
    PartOfFile    \* a file being written

Installer == {"postinst", "bot", "cli"}
Kind == {"xray", "naive"}
File == Tag \cup {Entware, PartOfFile, NoCore}

ASSUME TagAssumption == /\ DefaultTag \in Tag /\ RunsHere \subseteq Tag \cup {Entware}
                        /\ Entware \notin Tag
                        /\ {NoCore, PartOfFile} \cap (Tag \cup {Entware}) = {}

VARIABLES
    core,      \* the file at the core's path
    pin,       \* config.XrayCoreTag resolved: the tag this router keeps
    job,       \* what each installer is doing
    temp       \* the files being downloaded

coreVars == <<core, pin, job, temp>>

Idle == [stage |-> "idle", kind |-> "xray", tag |-> DefaultTag, prefer |-> "vendored"]
Job == [stage: {"idle", "sum", "body", "whole", "smoked", "opkg", "done"},
        kind: Kind, tag: Tag, prefer: {"auto", "vendored", "entware"}]

Runs(file) == file \in RunsHere
(* CreateTemp: a name no other call has. *)
OneTempForAll(i) == "postinst"
TempOf(i) == i

CoresInit ==
    /\ core = [k \in Kind |-> IF k = "xray" THEN DefaultTag ELSE NoCore]
    /\ pin = DefaultTag
    /\ job = [i \in Installer |-> Idle]
    /\ temp = [i \in Installer |-> NoCore]

(* "<core> version" names a release that is not the wanted one. *)
coreVersionKnownWrong(k, tag) == k = "xray" /\ core[k] # tag

(* Ensure: a core that runs is left alone unless its version is known wrong or the caller forces. *)
Ensure(i, k, tag, force, prefer) ==
    /\ job[i].stage = "idle"
    /\ IF ~ force /\ Runs(core[k]) /\ (prefer = "entware" \/ ~ coreVersionKnownWrong(k, tag))
       THEN UNCHANGED job
       ELSE job' = [job EXCEPT ![i] = [stage |-> IF prefer = "entware" THEN "opkg" ELSE "sum",
                                       kind |-> k, tag |-> tag, prefer |-> prefer]]
    /\ UNCHANGED <<core, temp>>

To(i, stage) == job' = [job EXCEPT ![i].stage = stage]

(* installVendored returned an error: its file is removed, and Ensure tries opkg or gives up. *)
VendoredFails(i) ==
    /\ job[i].stage \in {"sum", "body", "whole"}
    /\ To(i, IF job[i].prefer = "auto" THEN "opkg" ELSE "idle")
    /\ temp' = [temp EXCEPT ![TempOf(i)] = NoCore]
    /\ UNCHANGED <<core, pin>>

(* The sum has come, over whichever way netfetch's chain got through; the file is opened and cut. *)
FetchExpectedSum(i) ==
    /\ job[i].stage = "sum"
    /\ To(i, "body")
    /\ temp' = [temp EXCEPT ![TempOf(i)] = PartOfFile]
    /\ UNCHANGED <<core, pin>>

(* The whole body was written and what was received has the sum. *)
DownloadVerified(i) ==
    /\ job[i].stage = "body"
    /\ To(i, "whole")
    /\ temp' = [temp EXCEPT ![TempOf(i)] = job[i].tag]
    /\ UNCHANGED <<core, pin>>

Smoke(i) ==
    /\ job[i].stage = "whole" /\ Runs(temp[TempOf(i)])
    /\ To(i, "smoked")
    /\ UNCHANGED <<core, pin, temp>>

Rename(i) ==
    /\ job[i].stage = "smoked"
    /\ core' = [core EXCEPT ![job[i].kind] = temp[TempOf(i)]]
    /\ temp' = [temp EXCEPT ![TempOf(i)] = NoCore]
    /\ To(i, IF i = "bot" /\ job[i].prefer = "vendored" THEN "done" ELSE "idle")
    /\ UNCHANGED pin

(* The feed's own build, whatever it is; opkg alone decides what it replaces, and it may fail. *)
OpkgInstallCore(i) ==
    /\ job[i].stage = "opkg" /\ job[i].kind = "xray"
    /\ core' \in {core, [core EXCEPT !["xray"] = Entware]}
    /\ To(i, "idle")
    /\ UNCHANGED <<pin, temp>>

(* The installer's process dies; a file it leaves has a name nobody uses again. *)
Killed(i) == [job EXCEPT ![i] = Idle]

-----------------------------------------------------------------------------
(* The callers.  updateCore records the tag once the core is in place; ensure-xray-core --tag
   records it first. *)

(* The bot's force-replacement of a working core, vendored only. *)
UpdateCore(tag) == Ensure("bot", "xray", tag, TRUE, "vendored") /\ UNCHANGED pin

UpdateCoreSaves ==
    /\ job["bot"].stage = "done"
    /\ pin' = job["bot"].tag
    /\ To("bot", "idle")
    /\ UNCHANGED <<core, temp>>

(* The bot's repair of a missing core. *)
EnsureCore == job["bot"].stage = "idle" /\ Ensure("bot", "xray", pin, FALSE, "auto") /\ UNCHANGED pin

PostinstCore == Ensure("postinst", "xray", pin, FALSE, "auto") /\ UNCHANGED pin

cmdEnsureXrayCore ==
    \E prefer \in {"auto", "entware"} :
        \/ Ensure("cli", "xray", pin, FALSE, prefer) /\ UNCHANGED pin
        \/ \E tag \in Tag : pin' = tag /\ Ensure("cli", "xray", tag, TRUE, prefer)

cmdEnsureNaiveCore == Ensure("cli", "naive", DefaultTag, FALSE, "vendored") /\ UNCHANGED pin

InstallerStep(i) ==
    \/ VendoredFails(i) \/ FetchExpectedSum(i) \/ DownloadVerified(i)
    \/ Smoke(i) \/ Rename(i) \/ OpkgInstallCore(i)
CoresStep == UpdateCoreSaves \/ \E i \in Installer : InstallerStep(i)

-----------------------------------------------------------------------------
(* A core that runs is never replaced by one that does not, however installers overlap and die
   (xraycore.go, Ensure: "It never removes a binary that already runs"); only opkg, which has
   its own idea of the file, may do that. *)
CoreKeepsRunning ==
    [][\A k \in Kind : Runs(core[k]) =>
          \/ Runs(core'[k])
          \/ \E i \in Installer : job[i].stage = "opkg" /\ job'[i].stage = "idle"]_coreVars
=============================================================================
