-------------------------------- MODULE Main --------------------------------
(***************************************************************************)
(* realMain (main.go): the command line is read, then the program goes     *)
(* round: load the manifest, open the logs, bring the manifest itself up   *)
(* to date, and either start over with the new manifest or build the       *)
(* targets.  Tools leave the round where their When says.                  *)
(*                                                                         *)
(* A manifest is the version of the sources it was generated from; people  *)
(* edit the sources at any moment, and the generator may fail, be          *)
(* interrupted or forget to write.  What a build does is Builder's matter: *)
(* here it is its exit status and whether it leaves an error text.         *)
(***************************************************************************)
EXTENDS Naturals

CONSTANTS
  CycleLimit,   \* kCycleLimit, 100 in the code
  MaxVersion,   \* bound: the sources are edited so many times
  MaxArgs,      \* bound: options on a command line
  None          \* no tool, no manifest

ASSUME MainAssumption == CycleLimit \in Nat \ {0} /\ MaxVersion \in Nat /\ MaxArgs \in Nat

VARIABLES
  source,     \* the version of what the manifest is generated from
  manifest,   \* the version the manifest file was generated from
  helper,     \* an order-only input of the manifest's edge is stale
  generated,  \* the manifest is the output of an edge
  pc,         \* where realMain is
  opt,        \* Options and BuildConfig
  args,       \* options read so far
  cycle,      \* the round
  loaded,     \* the manifest in state_
  dirty,      \* the manifest's node is dirty
  code,       \* the exit code
  result,     \* what Build returned for the manifest, and err
  seen        \* history: the sources as the last scan saw them

disk == <<source, manifest, helper, generated>>
program == <<opt, args, cycle, loaded, dirty, code>>
vars == <<disk, pc, program, result, seen>>

When == [browse |-> "load", clean |-> "load", commands |-> "load", inputs |-> "load",
         multi_inputs |-> "load", deps |-> "logs", missingdeps |-> "logs", graph |-> "load",
         query |-> "logs", targets |-> "load", compdb |-> "load", compdb_targets |-> "load",
         recompact |-> "load", restat |-> "flags", rules |-> "load", cleandead |-> "logs",
         urtle |-> "flags", wincodepage |-> "flags"]
Tools == DOMAIN When
Par == {"guess", "given", "unlimited"}
Statuses == {"Success", "Failure", "Interrupted"}

TypeOK ==
  /\ source \in 0..MaxVersion /\ manifest \in 0..MaxVersion
  /\ helper \in BOOLEAN /\ generated \in BOOLEAN /\ dirty \in BOOLEAN
  /\ pc \in {"flags", "started", "cycle", "loaded", "logs", "regenerate", "decide", "targets",
             "tool", "exit"}
  /\ result \in [status : Statuses, error : BOOLEAN]
  /\ opt \in [tool : Tools \cup {None}, dry : BOOLEAN, par : Par, jobserver : BOOLEAN]
  /\ cycle \in 0..CycleLimit + 1
  /\ loaded \in 0..MaxVersion \cup {None} /\ seen \in 0..MaxVersion
  /\ code \in 0..3 /\ args \in 0..MaxArgs

NoOptions == [tool |-> None, dry |-> FALSE, par |-> "guess", jobserver |-> TRUE]

Untried == [status |-> "Success", error |-> FALSE]

Init ==
  /\ source = 0 /\ manifest = 0 /\ helper = FALSE /\ generated \in BOOLEAN
  /\ pc = "flags" /\ opt = NoOptions /\ args = 0
  /\ cycle = 0 /\ loaded = None /\ dirty = FALSE /\ code = 0
  /\ seen = 0 /\ result = Untried

Exit(c) == pc' = "exit" /\ code' = c

At(p) == pc = p /\ UNCHANGED <<source, generated>>

(***************************************************************************)
(* readFlags.  -v, -k, -l, -d, -w, -C and -f set values nothing here reads *)
(***************************************************************************)
Set(o) == opt' = o /\ UNCHANGED <<pc, code>>

ReadFlag ==
  /\ At("flags") /\ args < MaxArgs /\ opt.tool = None
  /\ args' = args + 1
  /\ \/ Set([opt EXCEPT !.dry = TRUE, !.jobserver = FALSE])
     \/ \E n \in Par \ {"guess"} : Set([opt EXCEPT !.par = n, !.jobserver = FALSE])
     \/ \E t \in Tools : Set([opt EXCEPT !.tool = t])
     \/ Exit(0) /\ UNCHANGED opt               \* -h, --version, -t list
     \/ Exit(1) /\ UNCHANGED opt               \* unknown, or lacks its argument; -d list
  /\ UNCHANGED <<manifest, helper, cycle, loaded, dirty, result, seen>>

FlagsRead ==
  /\ At("flags")
  /\ pc' = "started" /\ code' = code
  /\ UNCHANGED <<manifest, helper, opt, args, cycle, loaded, dirty, result, seen>>

ToolAt(w) == opt.tool # None /\ When[opt.tool] = w

Start ==
  /\ At("started")
  /\ \/ Exit(1) /\ cycle' = cycle              \* chdir fails
     \/ ToolAt("flags") /\ pc' = "tool" /\ UNCHANGED <<cycle, code>>
     \/ ~ToolAt("flags") /\ pc' = "cycle" /\ cycle' = 1 /\ code' = code
  /\ UNCHANGED <<manifest, helper, opt, args, loaded, dirty, result, seen>>

RunTool ==
  /\ At("tool")
  /\ \E c \in {0, 1, 3} : Exit(c)
  /\ UNCHANGED <<manifest, helper, opt, args, cycle, loaded, dirty, result, seen>>

(***************************************************************************)
(* The round.                                                              *)
(***************************************************************************)
LoadManifest ==
  /\ At("cycle") /\ cycle <= CycleLimit
  /\ \/ Exit(1) /\ UNCHANGED loaded            \* no file, or it does not parse
     \/ pc' = "loaded" /\ loaded' = manifest /\ UNCHANGED code
  /\ UNCHANGED <<manifest, helper, opt, args, cycle, dirty, result, seen>>

StillDirty ==
  /\ At("cycle") /\ cycle > CycleLimit
  /\ Exit(1)
  /\ UNCHANGED <<manifest, helper, opt, args, cycle, loaded, dirty, result, seen>>

\* EnsureBuildDirExists, OpenBuildLog and OpenDepsLog can each fail.
OpenLogs ==
  /\ At("loaded")
  /\ \/ ToolAt("load") /\ pc' = "tool" /\ UNCHANGED code
     \/ ~ToolAt("load") /\ pc' = "logs" /\ UNCHANGED code
     \/ ~ToolAt("load") /\ Exit(1)
  /\ UNCHANGED <<manifest, helper, opt, args, cycle, loaded, dirty, result, seen>>

LogTool ==
  /\ At("logs") /\ ToolAt("logs")
  /\ pc' = "tool"
  /\ UNCHANGED <<manifest, helper, program, result, seen>>

\* The first half of RebuildManifest: the scan and the plan.
ScanManifest ==
  /\ At("logs") /\ ~ToolAt("logs")
  /\ seen' = source
  /\ dirty' = (generated /\ manifest # source)
  /\ \/ Exit(1) /\ result' = [result EXCEPT !.error = TRUE]  \* AddTarget: a cycle, a missing input
     \/ /\ pc' = IF generated /\ (dirty' \/ helper) THEN "regenerate" ELSE "targets"
        /\ UNCHANGED <<code, result>>
  /\ UNCHANGED <<manifest, helper, opt, args, cycle, loaded>>

(***************************************************************************)
(* The second half: Build.  The status is not the outcome.  Commands that  *)
(* failed leave a success and an error; a directory or a response file     *)
(* that cannot be written leaves a failure and no error.  Even then the    *)
(* generator may have run; it writes the manifest from the sources it      *)
(* finds, or not.  A dry run makes the directories, too.                   *)
(***************************************************************************)
BuildManifest ==
  /\ At("regenerate")
  /\ pc' = "decide" /\ UNCHANGED code
  /\ \E status \in IF opt.dry THEN Statuses \ {"Interrupted"} ELSE Statuses, error \in BOOLEAN :
       /\ status = "Interrupted" => error
       /\ result' = [status |-> status, error |-> error]
  /\ manifest' \in IF opt.dry \/ ~dirty THEN {manifest} ELSE {source, manifest}
  /\ helper' \in IF opt.dry THEN {helper} ELSE {helper, FALSE}
  /\ UNCHANGED <<opt, args, cycle, loaded, dirty, seen>>

(***************************************************************************)
(* A restat generator finds the file as it would write it: the text that   *)
(* was loaded is that of the present sources, and the node becomes clean.  *)
(***************************************************************************)
LeaveManifest ==
  /\ At("regenerate") /\ dirty /\ ~opt.dry
  /\ pc' = "decide" /\ dirty' = FALSE
  /\ manifest' = source /\ loaded' = source
  /\ \E error \in BOOLEAN : result' = [status |-> "Success", error |-> error]
  /\ helper' \in {helper, FALSE}
  /\ UNCHANGED <<opt, args, cycle, code, seen>>

\* FinishCommand can panic (Builder!SecondNotice).
BuildCrashes ==
  /\ At("regenerate") /\ ~opt.dry
  /\ Exit(2)
  /\ manifest' \in IF dirty THEN {source, manifest} ELSE {manifest}
  /\ helper' \in {helper, FALSE}
  /\ UNCHANGED <<opt, args, cycle, loaded, dirty, result, seen>>

MutantAgain == pc' = "targets" /\ UNCHANGED <<cycle, code>>  \* rebuilt: go on

MutantForgetsRounds ==                         \* a round is a fresh start
  IF opt.dry THEN Exit(0) /\ UNCHANGED cycle
  ELSE pc' = "cycle" /\ cycle' = 1 /\ UNCHANGED code

\* What realMain does with a manifest that was rebuilt.
Again ==
  IF opt.dry THEN Exit(0) /\ UNCHANGED cycle
  ELSE pc' = "cycle" /\ cycle' = cycle + 1 /\ UNCHANGED code

(***************************************************************************)
(* realMain looks at the error first.  The decision to load the manifest   *)
(* again is taken from dirty_ as the scan left it; a failure without an    *)
(* error counts as nothing to rebuild.                                     *)
(***************************************************************************)
MutantRebuildManifest ==                       \* the status is asked, not the error
  /\ At("decide")
  /\ \/ result.status # "Success" /\ Exit(1) /\ UNCHANGED cycle
     \/ result.status = "Success" /\ dirty /\ Again
     \/ result.status = "Success" /\ ~dirty /\ pc' = "targets" /\ UNCHANGED <<cycle, code>>
  /\ UNCHANGED <<manifest, helper, opt, args, loaded, dirty, result, seen>>

RebuildManifest ==
  /\ At("decide")
  /\ LET rebuilt == result.status = "Success" /\ dirty IN
     \/ result.error /\ Exit(1) /\ UNCHANGED cycle
     \/ ~result.error /\ rebuilt /\ Again
     \/ ~result.error /\ ~rebuilt /\ pc' = "targets" /\ UNCHANGED <<cycle, code>>
  /\ UNCHANGED <<manifest, helper, opt, args, loaded, dirty, result, seen>>

(***************************************************************************)
(* RunBuild: an unknown target, an error of AddTarget, nothing to do, or   *)
(* what Build returns.                                                     *)
(***************************************************************************)
RunBuild ==
  /\ At("targets")
  /\ \E c \in {0, 1, 2} : Exit(c)
  /\ UNCHANGED <<manifest, helper, opt, args, cycle, loaded, dirty, result, seen>>

(***************************************************************************)
(* The world: people edit, and run the program again.                      *)
(***************************************************************************)
Edit ==
  /\ source < MaxVersion /\ source' = source + 1
  /\ helper' \in {helper, TRUE}
  /\ UNCHANGED <<manifest, generated, pc, program, result, seen>>

RunAgain ==
  /\ pc = "exit" /\ pc' = "flags"
  /\ opt' = NoOptions /\ args' = 0
  /\ cycle' = 0 /\ loaded' = None /\ dirty' = FALSE /\ code' = 0
  /\ seen' = 0 /\ result' = Untried
  /\ UNCHANGED disk

Step ==
  \/ ReadFlag \/ FlagsRead \/ Start \/ RunTool
  \/ LoadManifest \/ StillDirty \/ OpenLogs \/ LogTool
  \/ ScanManifest \/ BuildManifest \/ LeaveManifest \/ BuildCrashes
  \/ RebuildManifest \/ RunBuild

Next == Step \/ Edit \/ RunAgain

(***************************************************************************)
(* One goroutine runs realMain, and a build ends (Builder!Termination).    *)
(***************************************************************************)
Spec == Init /\ [][Next]_vars /\ WF_vars(Step)

-----------------------------------------------------------------------------
(***************************************************************************)
(* Targets are built from a manifest that is no older than the sources the *)
(* last scan saw, although dirty_ as the scan left it decides whether to   *)
(* load again (main.go:75); a build of the manifest that failed without an *)
(* error text is the one exception (main.go:70).                           *)
(***************************************************************************)
BuiltFromCurrent ==
  pc = "targets" /\ generated /\ result.status = "Success" => loaded >= seen

(***************************************************************************)
(* No target is built, and the program does not report success, after the  *)
(* manifest could not be brought up to date and there is an error text,    *)
(* whatever status Build returned with it (main.go:1665).                  *)
(***************************************************************************)
FailureIsFatal == result.error => pc \in {"decide", "exit"} /\ (pc = "exit" => code # 0)

(***************************************************************************)
(* A generator that never gets its manifest clean, because it does not     *)
(* write it or because people keep editing, does not hold the program.     *)
(***************************************************************************)
GivesUp == pc # "exit" ~> pc = "exit"

-----------------------------------------------------------------------------
(***************************************************************************)
(* What one would expect of realMain, and the code does not do: a manifest *)
(* whose build failed is not used, error text or not.                      *)
(***************************************************************************)
SilentFailureIsFatal == pc = "targets" => result.status = "Success"
=============================================================================
