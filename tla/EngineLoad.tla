----------------------------- MODULE EngineLoad -----------------------------
(***************************************************************************)
(* Engine::load (npurun-core engine.rs) with what it calls: Manifest::read,*)
(* the choice of a context tier, and the creation of a Genie dialog under  *)
(* a changed working directory (qnn genie.rs).  One process at a time, of  *)
(* `npurun run` or `npurun bench [--ctx n]`, while a pull or a removal may *)
(* replace the model directory between any two steps.                      *)
(*                                                                         *)
(* genie_config.json is the tiers its ctx-bins name, the context size it   *)
(* asks for, 0 when it has none, and whether it is JSON at all.            *)
(***************************************************************************)
EXTENDS Manifest

CONSTANTS
  Disks,       \* what the model directory may hold
  Tiers        \* context tiers

NoTier == 0
Gone == [there |-> FALSE]
Directory(m, c) == [there |-> TRUE, manifest |-> m, config |-> c]
NoConfig == [file |-> "missing"]
NotJson  == [file |-> "garbled"]
Config(tiers, size) == [file |-> "json", tiers |-> tiers, size |-> size]
Configs == [file : {"json"}, tiers : SUBSET Tiers, size : Tiers \cup {NoTier}]

ASSUME LoadAssumption ==
  /\ Tiers \subseteq Nat \ {NoTier}
  /\ \A d \in Disks \ {Gone} :
       /\ d = Directory(d.manifest, d.config)
       /\ d.config \in Configs \cup {NoConfig, NotJson}
       /\ d.manifest.file = "manifest" => d.manifest.genie_config \in Seq(Components) \cup {None}

VARIABLES
  disk,      \* the model directory
  cmd,       \* the command that loads: "run" or "bench"
  ctx,       \* its --ctx
  pc,        \* where the process is; "idle" when none runs
  path,      \* genie_path, below the model directory
  json,      \* the configuration in memory
  cwd,       \* the working directory: the user's, or the bundle's
  prev,      \* prev_cwd
  lost,      \* the working directory could not be read or restored
  config,    \* whether the process holds a GenieDialogConfig
  dialog     \* the configuration of its GenieDialog, NoConfig when it has none

process == <<cmd, ctx, path, json>>
where   == <<cwd, prev, lost>>
handles == <<config, dialog>>
loadVars == <<disk, process, pc, where, handles>>

LoadSteps == {"precheck", "load", "manifest", "open", "chdir", "create_config",
              "create_dialog", "restore", "failed"}

LoadTypeOK(steps) ==
  /\ disk \in Disks
  /\ cmd \in {"run", "bench"}
  /\ ctx \in Tiers \cup {NoTier}
  /\ pc \in steps
  /\ json \in Configs \cup {NoConfig, NotJson}
  /\ cwd \in {"home", "bundle"}
  /\ prev \in {"home", "bundle", "none"}
  /\ lost \in BOOLEAN
  /\ config \in BOOLEAN
  /\ dialog \in Configs \cup {NoConfig}

LoadInit ==
  /\ disk \in Disks
  /\ cmd = "run"
  /\ ctx = NoTier
  /\ pc = "idle"
  /\ path = None
  /\ json = NoConfig
  /\ cwd = "home"
  /\ prev = "none"
  /\ lost = FALSE
  /\ config = FALSE
  /\ dialog = NoConfig

-----------------------------------------------------------------------------
\* Engine::available_ctx_tiers: none whenever anything cannot be read.
AvailableCtxTiers(d) ==
  IF /\ d.there
     /\ Readable(d.manifest)
     /\ d.manifest.genie_config # None
     /\ d.config.file = "json"
  THEN d.config.tiers ELSE {}

\* bench refuses a tier before it loads, if it knows any tiers.
PrecheckRefuses(d, t) ==
  t # NoTier /\ AvailableCtxTiers(d) # {} /\ t \notin AvailableCtxTiers(d)

\* Mutant: the tier is not compared with those of the bundle.
Pinnable_Any(c, t) == c.file = "json" /\ c.size # NoTier

\* load_genie can pin tier t.
Pinnable(c, t) == c.file = "json" /\ t \in c.tiers /\ c.size # NoTier

\* Mutant: the configuration is passed on as it was read.
Pinned_Unpatched(c, t) == c

Pinned(c, t) == [c EXCEPT !.size = t]

Goto(step) == pc' = step
Fail == Goto("failed") /\ UNCHANGED <<process, where, handles>>
Proceed(step) == Goto(step) /\ UNCHANGED <<where, handles>>

-----------------------------------------------------------------------------
\* resolve_model_dir found the directory.
Start ==
  /\ pc = "idle"
  /\ disk.there
  /\ cmd' \in {"run", "bench"}
  /\ ctx' \in Tiers \cup {NoTier}
  /\ cmd' = "run" => ctx' = NoTier
  /\ UNCHANGED <<path, json>>
  /\ Goto(IF cmd' = "bench" THEN "precheck" ELSE "load")
  /\ UNCHANGED <<disk, where, handles>>

\* Two reads, of npurun.json and of the configuration, taken as one: with
\* a bundle that is replaced between them the code too refuses here, or goes on
\* to the load, which reads again.
Precheck ==
  /\ pc = "precheck"
  /\ IF PrecheckRefuses(disk, ctx) THEN Goto("failed") ELSE Goto("load")
  /\ UNCHANGED <<disk, process, where, handles>>

CheckDir ==
  /\ pc = "load"
  /\ IF disk.there THEN Goto("manifest") ELSE Goto("failed")
  /\ UNCHANGED <<disk, process, where, handles>>

ReadManifest ==
  /\ pc = "manifest"
  /\ IF /\ disk.there
        /\ Readable(disk.manifest)
        /\ disk.manifest.genie_config # None
     THEN /\ path' = disk.manifest.genie_config
          /\ Proceed("open")
          /\ UNCHANGED <<cmd, ctx, json>>
     ELSE Fail
  /\ UNCHANGED disk

\* Dialog::from_config_file, up to the file in memory.
ReadConfig ==
  /\ pc = "open" /\ ctx = NoTier
  /\ IF disk.there /\ disk.config # NoConfig
     THEN /\ json' = disk.config
          /\ Proceed("chdir")
          /\ UNCHANGED <<cmd, ctx, path>>
     ELSE Fail
  /\ UNCHANGED disk

\* The --ctx override.
PinTier ==
  /\ pc = "open" /\ ctx # NoTier
  /\ IF disk.there /\ Pinnable(disk.config, ctx)
     THEN /\ json' = Pinned(disk.config, ctx)
          /\ Proceed("chdir")
          /\ UNCHANGED <<cmd, ctx, path>>
     ELSE Fail
  /\ UNCHANGED disk

\* current_dir().ok(), then set_current_dir(parent)?.
Chdir ==
  /\ pc = "chdir"
  /\ disk.there
  /\ prev' \in {cwd, "none"}
  /\ lost' = (lost \/ prev' = "none")
  /\ cwd' = "bundle"
  /\ Goto("create_config")
  /\ UNCHANGED <<disk, process, handles>>

ChdirFails ==
  /\ pc = "chdir"
  /\ ~disk.there
  /\ Fail
  /\ UNCHANGED disk

CreateConfig ==
  /\ pc = "create_config"
  /\ json.file = "json"
  /\ config' = TRUE
  /\ Goto("create_dialog")
  /\ UNCHANGED <<disk, process, where, dialog>>

CreateConfigFails ==
  /\ pc = "create_config"
  /\ Goto("restore")
  /\ UNCHANGED <<disk, process, where, handles>>

\* GenieDialog_create reads the ctx-bins that json names.
CreateDialog ==
  /\ pc = "create_dialog"
  /\ disk.there
  /\ dialog' = json
  /\ Goto("restore")
  /\ UNCHANGED <<disk, process, where, config>>

\* Mutant: the handle of the configuration is forgotten.
AfterDialogFailure_Leaks == config
\* Config's Drop runs as from_config_json returns the error.
AfterDialogFailure == FALSE

CreateDialogFails ==
  /\ pc = "create_dialog"
  /\ config' = AfterDialogFailure
  /\ Goto("restore")
  /\ UNCHANGED <<disk, process, where, dialog>>

\* Mutant: the directory is restored only after a success.
RestoredCwd_OnSuccess == IF dialog # NoConfig /\ prev # "none" THEN prev ELSE cwd
RestoredCwd == IF prev # "none" THEN prev ELSE cwd

\* The restore is best-effort; then the locals of the load are gone.
Restore(step) ==
  /\ pc = "restore"
  /\ \/ cwd' = RestoredCwd /\ UNCHANGED lost
     \/ lost' = TRUE /\ UNCHANGED cwd
  /\ Goto(IF dialog # NoConfig THEN step ELSE "failed")
  /\ path' = None
  /\ json' = NoConfig
  /\ prev' = "none"
  /\ UNCHANGED <<disk, cmd, ctx, handles>>

\* A pull, a removal, a conversion; after the load nobody reads the directory.
Replace ==
  /\ pc \in LoadSteps \cup {"idle"}
  /\ disk' \in Disks \ {disk}
  /\ UNCHANGED <<process, pc, where, handles>>

LoadNext(step) ==
  \/ Start \/ Precheck \/ CheckDir \/ ReadManifest \/ ReadConfig \/ PinTier
  \/ Chdir \/ ChdirFails \/ CreateConfig \/ CreateConfigFails
  \/ CreateDialog \/ CreateDialogFails \/ Restore(step) \/ Replace

-----------------------------------------------------------------------------
\* A dialog never outlives its configuration, and whoever leaves with an
\* error holds neither.
HandlesNest ==
  /\ dialog # NoConfig => config
  /\ pc \in {"idle", "failed"} => ~config

\* A dialog is created in the bundle's directory, and every way out of the
\* load leads back to the user's, unless that could not be read or restored.
CwdRestored ==
  /\ pc \in {"create_config", "create_dialog"} => cwd = "bundle"
  /\ pc \notin {"create_config", "create_dialog", "restore"} /\ ~lost => cwd = "home"

\* With --ctx, Genie gets exactly that tier and the bundle that was read has
\* it, whatever happened to the directory meanwhile; and a tier that bench
\* refuses at once is one that the load would refuse.
TierIsPinned ==
  /\ dialog # NoConfig /\ ctx # NoTier => dialog.size = ctx /\ ctx \in dialog.tiers
  /\ \A t \in Tiers : PrecheckRefuses(disk, t) => ~Pinnable(disk.config, t)

\* The configuration that the manifest names, and the load opens, lies below the
\* model directory: the checks on the components of its path do what walking it
\* would.
StaysBelow == path # None => Below(path) >= 0
=============================================================================
