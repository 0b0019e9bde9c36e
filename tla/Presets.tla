------------------------------- MODULE Presets -------------------------------
(***************************************************************************)
(* The ready-made route lists (internal/presets): a copy built into the    *)
(* binary, an overlay directory refreshed from the repository, and each    *)
(* process's index of what the manifest says.                              *)
(*                                                                         *)
(* The daemon's daily loop, a bot command and a shell may refresh the same *)
(* directory at the same time, one file after the other and the manifest   *)
(* last; the repository may move on while they do.  A revision is a hash   *)
(* of a list's lines: here it is the set of its entries itself.            *)
(***************************************************************************)
EXTENDS Integers, FiniteSets, SequencesExt

CONSTANTS
    Preset,       \* names of ready-made lists, the "-ip" companions included
    Entry,        \* domains and networks
    Malformed,    \* entries ClassifyRouteEntry refuses, or of another kind than the list's
    Repo,         \* the repository's successive states: Repo[v][p] is p's lines, or None
    Embed,        \* the copy built into the binary
    Long,         \* lines from which a list that shrinks by more than half is suspicious: 8
    None

ASSUME PresetsAssumption ==
    /\ IsFiniteSet(Preset) /\ IsFiniteSet(Entry) /\ Malformed \subseteq Entry
    /\ Long \in Nat \ {0} /\ Len(Repo) > 0 /\ Repo \in Seq([Preset -> {None} \cup SUBSET Entry])
    /\ Embed \in [Preset -> SUBSET (Entry \ Malformed)]
    /\ \A lines \in SUBSET Entry : lines # None

Refresher == {"daily", "bot", "cli"}
Lines == {None} \cup SUBSET Entry

VARIABLES
    upstream,    \* which of Repo is published
    file,        \* the overlay's *.lst
    manifest,    \* the overlay's manifest.json: a revision for each of its rows, None when absent
    loaded,      \* the daemon's index, None until it is read again
    pull         \* the refresh each of them is in

presetVars == <<upstream, file, manifest, loaded, pull>>

NoPull == [stage |-> "idle", remote |-> Embed, index |-> Embed, kept |-> Embed, left |-> <<>>,
           body |-> {}, missed |-> {}, alone |-> FALSE]
Pull == [stage: {"idle", "manifest", "rows", "write", "note", "send"}, remote: [Preset -> Lines],
         index: [Preset -> Lines], kept: [Preset -> Lines], left: Seq(Preset), body: SUBSET Entry,
         missed: SUBSET Preset, alone: BOOLEAN]

PresetsInit ==
    /\ upstream = 1
    /\ file = [p \in Preset |-> None] /\ manifest = None /\ loaded = None
    /\ pull = [r \in Refresher |-> NoPull]

(* snapshot: the daemon's loops and its bot share one index, a command of the CLI reads its own. *)
Rows == IF manifest = None THEN Embed ELSE manifest
snapshot(x) == IF x = "cli" \/ loaded = None THEN Rows ELSE loaded
Loads(x) == loaded' = IF x = "cli" THEN loaded ELSE snapshot(x)
Reindex(x) == loaded' = IF x = "cli" THEN loaded ELSE None

(* readDataFile; Entries has nothing for a preset the index does not have. *)
Served(p) == IF file[p] = None THEN Embed[p] ELSE file[p]
Entries(x, p) == IF snapshot(x)[p] = None THEN None ELSE Served(p)
localRevOf(index, p) == IF file[p] = None THEN index[p] ELSE file[p]

validateList(lines) == lines \ Malformed
(* An empty list, or one much shorter than the manifest promised. *)
Suspicious(lines, promised) ==
    \/ lines = {}
    \/ Cardinality(promised) >= Long /\ Cardinality(lines) * 2 < Cardinality(promised)

-----------------------------------------------------------------------------
(* Refresh. *)

Pulling(r) == pull[r].stage \in {"manifest", "rows", "write"}

Begins(r) ==
    /\ pull[r].stage = "idle"
    /\ pull' = [x \in Refresher |->
                   IF x = r THEN [NoPull EXCEPT !.stage = "manifest",
                                               !.alone = \A y \in Refresher : ~ Pulling(y)]
                   ELSE [pull[x] EXCEPT !.alone = FALSE]]

(* The manifest has come; the rows this process knows are what it falls back on. *)
Manifest(r) ==
    /\ pull[r].stage = "manifest"
    /\ LET remote == Repo[upstream]
       IN  pull' = [pull EXCEPT ![r] = [@ EXCEPT
                       !.stage = "rows", !.remote = remote, !.index = snapshot(r),
                       !.kept = [p \in Preset |-> None],
                       !.left = SetToSeq({p \in Preset : remote[p] # None})]]
    /\ Loads(r)
    /\ UNCHANGED <<upstream, file, manifest>>

(* The row at hand is done with: kept with a revision, or as this process had it. *)
Keep(r, rev) ==
    pull' = [pull EXCEPT ![r].stage = "rows", ![r].left = Tail(@), ![r].body = {},
                         ![r].kept[Head(pull[r].left)] = rev]
Missed(r) ==
    LET p == Head(pull[r].left)
    IN  pull' = [pull EXCEPT ![r].stage = "rows", ![r].left = Tail(@), ![r].body = {},
                             ![r].kept[p] = pull[r].index[p], ![r].missed = @ \cup {p}]

(* The lines are as the manifest says, or they are fetched. *)
Compare(r) ==
    /\ pull[r].stage = "rows" /\ pull[r].left # <<>>
    /\ LET p == Head(pull[r].left)
           row == pull[r].remote[p]
           lines == Repo[upstream][p]
       IN  IF localRevOf(pull[r].index, p) = row THEN Keep(r, row)
           ELSE IF lines = None THEN Missed(r)
           ELSE IF Suspicious(validateList(lines), row) THEN Missed(r)
           ELSE pull' = [pull EXCEPT ![r].stage = "write", ![r].body = validateList(lines)]
    /\ UNCHANGED <<upstream, file, manifest, loaded>>

(* A list is replaced whole; its row says what was written, not what was promised. *)
RevPromised(r) == pull[r].remote[Head(pull[r].left)]
RevWritten(r) == pull[r].body

WriteFileAtomic(r) ==
    /\ pull[r].stage = "write"
    /\ file' = [file EXCEPT ![Head(pull[r].left)] = pull[r].body]
    /\ Keep(r, RevWritten(r))
    /\ UNCHANGED <<upstream, manifest, loaded>>

(* A list does not come, or cannot be written. *)
PullFails(r) ==
    /\ pull[r].stage \in {"rows", "write"} /\ pull[r].left # <<>> /\ Missed(r)
    /\ UNCHANGED <<upstream, file, manifest, loaded>>

(* The overlay's manifest, last; the index is to be read again. *)
WriteManifest(r, next) ==
    /\ pull[r].stage = "rows" /\ pull[r].left = <<>>
    /\ manifest' = pull[r].kept
    /\ Reindex(r)
    /\ pull' = [pull EXCEPT ![r] = [NoPull EXCEPT !.stage = next]]
    /\ UNCHANGED <<upstream, file>>

(* The manifest does not come or cannot be written. *)
PullGivesUp(r) ==
    /\ pull[r].stage = "manifest" \/ (pull[r].stage = "rows" /\ pull[r].left = <<>>)
    /\ pull' = [pull EXCEPT ![r] = NoPull]
    /\ UNCHANGED <<upstream, file, manifest, loaded>>

Publishes == upstream < Len(Repo) /\ upstream' = upstream + 1 /\ UNCHANGED <<file, manifest, loaded, pull>>

PullStep(r) == Manifest(r) \/ Compare(r) \/ WriteFileAtomic(r)

-----------------------------------------------------------------------------
(* A refresh nobody else refreshed during leaves a manifest that says of every list it did not
   miss what the overlay now serves, in whatever state it found the directory
   (refresh.go: "so drift checks stay honest"). *)
HonestAfterRefresh ==
    [][\A r \in Refresher :
          pull[r].alone /\ pull[r].stage = "rows" /\ ~ Pulling(r)' /\ manifest' = pull[r].kept
           => \A p \in Preset \ pull[r].missed : manifest'[p] \in {None, Served(p)'}]_presetVars
=============================================================================
