------------------------------ MODULE MainProofs ------------------------------
(***************************************************************************)
(* What realMain may never do, for every limit of rounds, every number of  *)
(* edits and every command line.                                           *)
(*                                                                         *)
(* Neither property is inductive: that the targets are built from the      *)
(* manifest the last scan saw rests on what was loaded two steps earlier   *)
(* (LoadedIsOnDisk), and on what a clean manifest's scan established       *)
(* before its order-only inputs were built, or a restat generator found    *)
(* afterwards (CleanIsCurrent).                                            *)
(***************************************************************************)
EXTENDS Main, TLAPS

\* Between loading the manifest and scanning it nobody writes the file.
LoadedIsOnDisk == pc \in {"loaded", "logs"} => loaded = manifest

\* A manifest that is clean after the scan, or since, is current.
CleanIsCurrent == pc \in {"regenerate", "decide"} => generated /\ (~dirty => loaded >= seen)

\* What was seen of the sources is not newer than they are.
SeenIsPast == seen <= source

MInv == LoadedIsOnDisk /\ CleanIsCurrent /\ SeenIsPast /\ BuiltFromCurrent /\ FailureIsFatal

-----------------------------------------------------------------------------
(***************************************************************************)
(* Types: that the rounds stop at one more than kCycleLimit (main.go:1631) *)
(* needs that no round goes on beyond the limit.                           *)
(***************************************************************************)
RoundOpen == pc \in {"loaded", "logs", "regenerate", "decide"} => cycle <= CycleLimit

TInv == TypeOK /\ RoundOpen

(***************************************************************************)
(* The options a command line starts from.                                 *)
(***************************************************************************)
LEMMA NoOptionsTyped ==
  NoOptions \in [tool : Tools \cup {None}, dry : BOOLEAN, par : Par, jobserver : BOOLEAN]
BY ZenonT(30) DEF NoOptions, Par

(***************************************************************************)
(* No build of the manifest was tried.                                     *)
(***************************************************************************)
LEMMA UntriedTyped == Untried \in [status : Statuses, error : BOOLEAN]
BY DEF Untried, Statuses

(***************************************************************************)
(* Initially nothing was read, loaded or seen.                             *)
(***************************************************************************)
LEMMA TypeInit == Init => TInv
<1> SUFFICES ASSUME Init PROVE TInv
  OBVIOUS
<1>1. opt \in [tool : Tools \cup {None}, dry : BOOLEAN, par : Par, jobserver : BOOLEAN]
  BY NoOptionsTyped DEF Init
<1>2. cycle \in 0..CycleLimit + 1 /\ RoundOpen
  BY MainAssumption DEF Init, RoundOpen
<1>3. /\ source \in 0..MaxVersion /\ manifest \in 0..MaxVersion /\ seen \in 0..MaxVersion
      /\ args \in 0..MaxArgs /\ code \in 0..3
  BY MainAssumption DEF Init
<1>4. pc = "flags" /\ loaded = None
  BY DEF Init
<1>5. helper \in BOOLEAN /\ generated \in BOOLEAN /\ dirty \in BOOLEAN
  BY DEF Init
<1>6. result \in [status : Statuses, error : BOOLEAN]
  BY UntriedTyped DEF Init
<1> QED
  BY <1>1, <1>2, <1>3, <1>4, <1>5, <1>6 DEF TInv, TypeOK

(***************************************************************************)
(* Every step of realMain, of its world and of its user keeps the types    *)
(* and the limit of the rounds.                                            *)
(***************************************************************************)
LEMMA TypeStep == TInv /\ [Next]_vars => TInv'
<1> SUFFICES ASSUME TInv, [Next]_vars PROVE TInv'
  OBVIOUS
<1> USE MainAssumption DEF TInv, TypeOK, RoundOpen, At, Exit
<1>1. CASE ReadFlag
  <2>1. opt' \in [tool : Tools \cup {None}, dry : BOOLEAN, par : Par, jobserver : BOOLEAN]
    BY <1>1 DEF ReadFlag, Set, Par
  <2>2. pc' \in {"flags", "exit"} /\ code' \in 0..3
    <3>1. CASE \E o : Set(o)
      BY <1>1, <3>1 DEF ReadFlag, Set
    <3>2. CASE Exit(0) \/ Exit(1)
      BY <3>2
    <3> QED
      BY <1>1, <3>1, <3>2 DEF ReadFlag
  <2>3. args' \in 0..MaxArgs
    <3>1. args < MaxArgs /\ args' = args + 1
      BY <1>1 DEF ReadFlag
    <3> QED
      BY <3>1
  <2> QED
    BY <1>1, <2>1, <2>2, <2>3 DEF ReadFlag
<1>2. CASE FlagsRead
  BY <1>2 DEF FlagsRead
<1>3. CASE Start
  BY <1>3 DEF Start
<1>4. CASE RunTool
  BY <1>4 DEF RunTool
<1>5. CASE LoadManifest
  BY <1>5 DEF LoadManifest
<1>6. CASE StillDirty
  BY <1>6 DEF StillDirty
<1>7. CASE OpenLogs
  BY <1>7 DEF OpenLogs
<1>8. CASE LogTool
  BY <1>8 DEF LogTool, program
<1>9. CASE ScanManifest
  <2>1. /\ pc' \in {"exit", "regenerate", "targets"} /\ code' \in 0..3
        /\ result' \in [status : Statuses, error : BOOLEAN]
    <3>1. CASE Exit(1) /\ result' = [result EXCEPT !.error = TRUE]
      <4>1. [result EXCEPT !.error = TRUE] \in [status : Statuses, error : BOOLEAN]
        OBVIOUS
      <4> QED
        BY <3>1, <4>1
    <3>2. CASE UNCHANGED <<code, result>> /\ pc' \in {"regenerate", "targets"}
      BY <3>2
    <3> QED
      BY <1>9, <3>1, <3>2 DEF ScanManifest
  <2>2. dirty' \in BOOLEAN /\ seen' \in 0..MaxVersion
    BY <1>9 DEF ScanManifest
  <2> QED
    BY <1>9, <2>1, <2>2 DEF ScanManifest
<1>10. CASE BuildManifest \/ LeaveManifest \/ BuildCrashes
  <2>1. result' \in [status : Statuses, error : BOOLEAN]
    <3>1. CASE \E status \in Statuses, error \in BOOLEAN :
                 result' = [status |-> status, error |-> error]
      BY <3>1
    <3>2. CASE result' = result
      BY <3>2
    <3> QED
      BY <1>10, <3>1, <3>2 DEF BuildManifest, LeaveManifest, BuildCrashes, Statuses
  <2>2. /\ pc' \in {"decide", "exit"} /\ code' \in {code, 2}
        /\ dirty' \in {dirty, FALSE} /\ loaded' \in {loaded, source}
    BY <1>10 DEF BuildManifest, LeaveManifest, BuildCrashes
  <2>5. manifest' \in {manifest, source}
    BY <1>10, Zenon DEF BuildManifest, LeaveManifest, BuildCrashes
  <2>3. helper' \in BOOLEAN
    BY <1>10, Zenon DEF BuildManifest, LeaveManifest, BuildCrashes
  <2>4. UNCHANGED <<source, generated, opt, args, cycle, seen>> /\ pc = "regenerate"
    BY <1>10 DEF BuildManifest, LeaveManifest, BuildCrashes
  <2>6. manifest' \in 0..MaxVersion /\ loaded' \in 0..MaxVersion \cup {None}
    BY <2>2, <2>5
  <2>7. code' \in 0..3
    BY <2>2
  <2>8. dirty' \in BOOLEAN
    BY <2>2
  <2>9. RoundOpen'
    BY <2>2, <2>4
  <2> QED
    BY <2>1, <2>2, <2>3, <2>4, <2>6, <2>7, <2>8, <2>9
<1>11. CASE RebuildManifest
  <2>1. pc' \in {"targets", "exit", "cycle"} /\ cycle' \in 0..CycleLimit + 1 /\ code' \in 0..3
    BY <1>11 DEF RebuildManifest, Again
  <2> QED
    BY <1>11, <2>1 DEF RebuildManifest
<1>12. CASE RunBuild
  BY <1>12 DEF RunBuild
<1>13. CASE Edit
  <2>1. source' \in 0..MaxVersion
    BY <1>13 DEF Edit
  <2>2. helper' \in BOOLEAN
    BY <1>13, Zenon DEF Edit
  <2> QED
    BY <1>13, <2>1, <2>2 DEF Edit, program
<1>14. CASE RunAgain
  <2>1. opt' \in [tool : Tools \cup {None}, dry : BOOLEAN, par : Par, jobserver : BOOLEAN]
    BY <1>14, NoOptionsTyped DEF RunAgain
  <2>2. UNCHANGED <<source, manifest, helper, generated>>
    BY <1>14 DEF RunAgain, disk
  <2>3. pc' = "flags" /\ loaded' = None /\ dirty' = FALSE
    BY <1>14 DEF RunAgain
  <2>5. result' \in [status : Statuses, error : BOOLEAN]
    BY <1>14, UntriedTyped DEF RunAgain
  <2>4. cycle' \in 0..CycleLimit + 1 /\ code' \in 0..3 /\ args' \in 0..MaxArgs /\ seen' \in 0..MaxVersion
    BY <1>14 DEF RunAgain
  <2> QED
    BY <2>1, <2>2, <2>3, <2>4, <2>5
<1>15. CASE UNCHANGED vars
  BY <1>15 DEF vars, disk, program
<1> QED
  BY <1>1, <1>2, <1>3, <1>4, <1>5, <1>6, <1>7, <1>8, <1>9, <1>10, <1>11, <1>12, <1>13,
     <1>14, <1>15 DEF Next, Step

(***************************************************************************)
(* realMain's variables have their types; the program never starts more    *)
(* than CycleLimit rounds, whatever the generator does and however often   *)
(* the sources are edited.                                                 *)
(***************************************************************************)
THEOREM Typed == Spec => []TInv
<1>1. Init => TInv
  BY TypeInit
<1>2. TInv /\ [Next]_vars => TInv'
  BY TypeStep
<1> QED
  BY <1>1, <1>2, PTL DEF Spec

-----------------------------------------------------------------------------
(***************************************************************************)
(* Before the first round there is nothing to be stale.                    *)
(***************************************************************************)
LEMMA MInit == Init => MInv
BY DEF Init, Untried, MInv, LoadedIsOnDisk, CleanIsCurrent, SeenIsPast, BuiltFromCurrent,
       FailureIsFatal

(***************************************************************************)
(* The steps that matter: LoadManifest establishes LoadedIsOnDisk, the     *)
(* scan turns it into CleanIsCurrent or into the property itself, a restat *)
(* generator keeps the first because it looks at newer sources than the    *)
(* scan, and realMain goes on to the targets only if the manifest is clean *)
(* or its build failed silently.                                           *)
(***************************************************************************)
LEMMA MStep == TInv /\ MInv /\ [Next]_vars => MInv'
<1> SUFFICES ASSUME TInv, MInv, [Next]_vars PROVE MInv'
  OBVIOUS
<1>0. /\ source \in Nat /\ manifest \in Nat /\ seen \in Nat
      /\ result \in [status : Statuses, error : BOOLEAN]
  BY MainAssumption DEF TInv, TypeOK
<1> USE <1>0 DEF MInv, LoadedIsOnDisk, CleanIsCurrent, SeenIsPast, BuiltFromCurrent,
                 FailureIsFatal, At, Exit
<1>1. CASE ReadFlag
  BY <1>1 DEF ReadFlag, Set
<1>2. CASE FlagsRead
  BY <1>2 DEF FlagsRead
<1>3. CASE Start
  BY <1>3 DEF Start
<1>4. CASE RunTool
  BY <1>4 DEF RunTool
<1>5. CASE LoadManifest
  BY <1>5 DEF LoadManifest
<1>6. CASE StillDirty
  BY <1>6 DEF StillDirty
<1>7. CASE OpenLogs
  BY <1>7 DEF OpenLogs
<1>8. CASE LogTool
  BY <1>8 DEF LogTool, program
<1>9. CASE ScanManifest
  <2>1. /\ loaded' = manifest /\ seen' = source /\ UNCHANGED <<source, generated>>
        /\ pc = "logs" /\ ~result.error
    BY <1>9 DEF ScanManifest
  <2>2. CASE Exit(1)
    BY <2>1, <2>2
  <2>3. CASE /\ pc' = (IF generated /\ (dirty' \/ helper) THEN "regenerate" ELSE "targets")
             /\ UNCHANGED <<code, result>>
    <3>1. dirty' = (generated /\ manifest # source)
      BY <1>9 DEF ScanManifest
    <3>2. CASE generated /\ (dirty' \/ helper)
      <4>1. pc' = "regenerate" /\ (~dirty' => manifest = source)
        BY <2>3, <3>1, <3>2
      <4> QED
        BY <2>1, <2>3, <3>2, <4>1
    <3>3. CASE ~(generated /\ (dirty' \/ helper))
      <4>1. pc' = "targets" /\ (generated => manifest = source)
        BY <2>3, <3>1, <3>3
      <4> QED
        BY <2>1, <2>3, <4>1
    <3> QED
      BY <3>2, <3>3
  <2> QED
    BY <1>9, <2>2, <2>3 DEF ScanManifest
<1>10. CASE BuildManifest
  <2>1. pc = "regenerate" /\ pc' = "decide" /\ UNCHANGED <<source, generated, loaded, dirty, seen>>
    BY <1>10 DEF BuildManifest
  <2> QED
    BY <2>1
<1>11. CASE LeaveManifest
  <2>1. /\ pc = "regenerate" /\ pc' = "decide" /\ UNCHANGED <<source, generated, seen>>
        /\ loaded' = source
    BY <1>11 DEF LeaveManifest
  <2> QED
    BY <2>1
<1>12. CASE BuildCrashes
  BY <1>12 DEF BuildCrashes
<1>13. CASE RebuildManifest
  <2>1. /\ pc = "decide" /\ UNCHANGED <<source, generated, loaded, dirty, seen, result>>
        /\ pc' \in {"targets", "exit", "cycle"}
        /\ result.error => pc' = "exit" /\ code' = 1
        /\ pc' = "targets" => ~(result.status = "Success" /\ dirty)
    BY <1>13 DEF RebuildManifest, Again
  <2> QED
    BY <2>1
<1>14. CASE RunBuild
  BY <1>14 DEF RunBuild
<1>15. CASE Edit
  BY <1>15 DEF Edit, program
<1>16. CASE RunAgain
  BY <1>16 DEF RunAgain, disk, Untried
<1>17. CASE UNCHANGED vars
  BY <1>17 DEF vars, disk, program
<1> QED
  BY <1>1, <1>2, <1>3, <1>4, <1>5, <1>6, <1>7, <1>8, <1>9, <1>10, <1>11, <1>12, <1>13,
     <1>14, <1>15, <1>16, <1>17 DEF Next, Step

(***************************************************************************)
(* The inductive invariant holds throughout.                               *)
(***************************************************************************)
THEOREM MInvHolds == Spec => []MInv
<1>1. Init => TInv /\ MInv
  BY TypeInit, MInit
<1>2. TInv /\ MInv /\ [Next]_vars => (TInv /\ MInv)'
  BY TypeStep, MStep
<1> QED
  BY <1>1, <1>2, PTL DEF Spec

(***************************************************************************)
(* Targets are built only from a manifest no older than the sources the    *)
(* last scan saw, although the decision to load again is taken from a mark *)
(* that building does not clear (main.go:75); unless the build of the      *)
(* manifest failed without an error text (main.go:70).                     *)
(***************************************************************************)
THEOREM BuildsFromCurrent == Spec => []BuiltFromCurrent
<1>1. MInv => BuiltFromCurrent
  BY DEF MInv
<1> QED
  BY <1>1, MInvHolds, PTL

(***************************************************************************)
(* No target is built and no success reported after the manifest could not *)
(* be brought up to date and there is an error text, although the build of *)
(* the manifest returns success when a command failed (main.go:1665).      *)
(***************************************************************************)
THEOREM FailuresAreFatal == Spec => []FailureIsFatal
<1>1. MInv => FailureIsFatal
  BY DEF MInv
<1> QED
  BY <1>1, MInvHolds, PTL
=============================================================================
