---------------------------- MODULE PipelineProofs ----------------------------
(***************************************************************************)
(* What TLAPS proves of the way from research to a paper plan: the pilot's *)
(* cycle with its reports (PilotCycle), and the proposals the program      *)
(* generates with the rows they leave (Proposals, RiskGate).               *)
(***************************************************************************)
EXTENDS PilotCycle, Proposals, Induction, SequenceTheorems

-----------------------------------------------------------------------------
(* The pilot's cycle: types. *)

BridgePlan == [run: 0..Len(PilotRuns), target: Int, mode: Modes,
               status: Executed \cup {"planned", "blocked"}, updated: Int]
BridgeCycle == [at: {"idle", "lookup", "prepare", "approve", "execute", "reconcile"},
                mode: Modes, run: 0..Len(PilotRuns), target: Int, plan: Nat, pinned: BOOLEAN]

PilotTypes ==
    /\ accepted \in 0..Len(PilotRuns)
    /\ targets \in [1..Len(PilotRuns) -> [imported: BOOLEAN, current: Nat]]
    /\ signal \in Nat
    /\ plans \in Seq(BridgePlan)
    /\ cycle \in [Cycles -> BridgeCycle]

LEMMA PilotLength == Len(PilotRuns) \in Nat
BY PilotAssumption

LEMMA IdleType == Idle \in BridgeCycle
BY PilotLength DEF Idle, BridgeCycle, Modes, None, NoTarget

LEMMA CycleUpdates ==
    ASSUME NEW k \in BridgeCycle
    PROVE  /\ \A m \in Modes, r \in 0..Len(PilotRuns), t \in Int :
                 [k EXCEPT !.at = "lookup", !.mode = m, !.run = r, !.target = t] \in BridgeCycle
           /\ [k EXCEPT !.at = "prepare"] \in BridgeCycle
           /\ [k EXCEPT !.at = "approve"] \in BridgeCycle
           /\ [k EXCEPT !.at = "execute", !.pinned = TRUE] \in BridgeCycle
BY DEF BridgeCycle

LEMMA MovedType ==
    ASSUME PilotTypes
    PROVE  /\ Moved \in [Cycles -> BridgeCycle]
           /\ \A c \in Cycles : Moved[c] = [cycle[c] EXCEPT !.pinned = FALSE]
BY DEF PilotTypes, Moved, BridgeCycle

LEMMA NextSaveInt == ASSUME PilotTypes PROVE NextSave \in Int
<1> DEFINE X == {0} \cup {plans[i].updated : i \in DOMAIN plans}
<1>0. \A i \in DOMAIN plans : plans[i] \in BridgePlan
  BY ElementOfSeq, LenProperties DEF PilotTypes
<1>1. X \subseteq Int
  BY <1>0 DEF BridgePlan
<1>2. IsFiniteSet(X)
  <2>1. IsFiniteSet(DOMAIN plans)
    BY LenProperties, FS_Interval DEF PilotTypes
  <2> DEFINE f == [i \in DOMAIN plans |-> plans[i].updated]
  <2>2. IsFiniteSet({f[i] : i \in DOMAIN plans})
    BY <2>1, FiniteValues
  <2>3. IsFiniteSet({plans[i].updated : i \in DOMAIN plans})
    <3>1. {f[i] : i \in DOMAIN plans} = {plans[i].updated : i \in DOMAIN plans}
      OBVIOUS
    <3> QED BY <2>2, <3>1
  <2> QED BY <2>3, FS_Singleton, FS_Union
<1>3. X # {}
  OBVIOUS
<1>4. \E x \in X : \A y \in X : y <= x
  <2> HIDE DEF X
  <2> QED BY <1>1, <1>2, <1>3, LargestNumber
<1>5. Max(X) \in X
  <2>1. \E x \in X : \A y \in X : x >= y
    BY <1>1, <1>4
  <2> HIDE DEF X
  <2> QED BY <2>1 DEF Max
<1>6. NextSave = 1 + Max(X)
  BY DEF NextSave
<1> HIDE DEF X
<1> QED BY <1>1, <1>5, <1>6

LEMMA NewPlanType ==
    ASSUME PilotTypes, NEW c \in Cycles, NEW status \in Executed \cup {"planned", "blocked"}
    PROVE  NewPlan(c, status) \in BridgePlan
BY NextSaveInt DEF PilotTypes, BridgeCycle, BridgePlan, NewPlan

LEMMA PilotTypesInit == PilotInit => PilotTypes
BY PilotLength, IdleType DEF PilotInit, PilotTypes

LEMMA PilotTypesStep == PilotTypes /\ [PilotNext]_pilotVars => PilotTypes'
<1> SUFFICES ASSUME PilotTypes, [PilotNext]_pilotVars PROVE PilotTypes'
  OBVIOUS
<1> USE PilotLength
<1>1. CASE UNCHANGED pilotVars
  BY <1>1 DEF pilotVars, PilotTypes
<1>2. CASE AcceptRun
  BY <1>2 DEF AcceptRun, PilotTypes, reports
<1>3. CASE StoreImportedTarget
  <2>1. PICK r \in AcceptedRuns : targets' = [targets EXCEPT ![r].imported = TRUE]
    BY <1>3 DEF StoreImportedTarget
  <2>2. targets' \in [1..Len(PilotRuns) -> [imported: BOOLEAN, current: Nat]]
    BY <2>1 DEF PilotTypes
  <2> QED BY <1>3, <2>2 DEF StoreImportedTarget, PilotTypes, reports
<1>4. CASE AlphaCycle
  BY <1>4 DEF AlphaCycle, PilotTypes, reports
<1>5. CASE OwnAccountMoves
  BY <1>5, MovedType DEF OwnAccountMoves, PilotTypes, evidence, reports
<1>6. CASE OtherAccountMoves
  BY <1>6 DEF OtherAccountMoves, PilotTypes, evidence, reports
<1>7. ASSUME NEW r \in 1..Len(PilotRuns)
      PROVE  WithCurrentTarget(r) \in [1..Len(PilotRuns) -> [imported: BOOLEAN, current: Nat]]
  BY DEF WithCurrentTarget, PilotTypes
<1>8. LatestRun \in 0..Len(PilotRuns) /\ (LatestRun # None => LatestRun \in 1..Len(PilotRuns))
  BY DEF LatestRun, None, PilotTypes
<1>9. ASSUME NEW c \in Cycles, NEW next \in BridgeCycle, CycleGoes(c, next)
      PROVE  cycle' \in [Cycles -> BridgeCycle]
  BY <1>9 DEF CycleGoes, PilotTypes
<1>10. ASSUME NEW c \in Cycles, BeginCycle(c) PROVE PilotTypes'
  <2>1. PICK mode \in Modes :
          /\ IF mode = "current"
             THEN signal > 0 /\ targets' = WithCurrentTarget(LatestRun)
             ELSE targets[LatestRun].imported /\ UNCHANGED targets
          /\ CycleGoes(c, [Idle EXCEPT !.at = "lookup", !.mode = mode, !.run = LatestRun,
                                       !.target = IF mode = "current" THEN signal ELSE 0])
    BY <1>10 DEF BeginCycle
  <2>2. targets' \in [1..Len(PilotRuns) -> [imported: BOOLEAN, current: Nat]]
    BY <1>10, <2>1, <1>7, <1>8 DEF BeginCycle, PilotTypes
  <2>3. [Idle EXCEPT !.at = "lookup", !.mode = mode, !.run = LatestRun,
                     !.target = IF mode = "current" THEN signal ELSE 0] \in BridgeCycle
    <3>1. (IF mode = "current" THEN signal ELSE 0) \in Int
      BY DEF PilotTypes
    <3> QED BY <3>1, <1>8, IdleType, CycleUpdates
  <2>4. cycle' \in [Cycles -> BridgeCycle]
    BY <1>9, <2>1, <2>3
  <2> QED BY <1>10, <2>2, <2>4 DEF BeginCycle, PilotTypes, reports
<1>11. ASSUME NEW c \in Cycles, NEW i, i \in Nat, NEW status
       PROVE  ReconcileNext(c, i, status) \in BridgeCycle
  BY <1>11, IdleType DEF ReconcileNext, BridgeCycle, PilotTypes
<1>12. DOMAIN plans = 1..Len(plans) /\ Len(plans) \in Nat
  BY LenProperties DEF PilotTypes
<1>13. ASSUME NEW c \in Cycles, LookUp(c) PROVE PilotTypes'
  <2>1. cycle' \in [Cycles -> BridgeCycle]
    <3>1. CASE ExistingPlan(c) = {}
      <4>1. cycle[c] \in BridgeCycle
        BY DEF PilotTypes
      <4> QED BY <1>13, <3>1, <4>1, <1>9, CycleUpdates DEF LookUp
    <3>2. CASE ExistingPlan(c) # {}
      <4>1. PICK i \in ExistingPlan(c) : CycleGoes(c, ReconcileNext(c, i, plans[i].status))
        BY <1>13, <3>2 DEF LookUp
      <4>2. i \in Nat
        BY <4>1, <1>12 DEF ExistingPlan, NewestPlan, PlansUnder
      <4> QED BY <4>1, <4>2, <1>9, <1>11
    <3> QED BY <3>1, <3>2
  <2> QED BY <1>13, <2>1 DEF LookUp, PilotTypes, evidence, reports
<1>14. ASSUME NEW c \in Cycles, Prepare(c) \/ Approve(c) PROVE PilotTypes'
  <2>1. cycle' \in [Cycles -> BridgeCycle]
    <3>1. cycle[c] \in BridgeCycle
      BY DEF PilotTypes
    <3>2. CASE Prepare(c)
      BY <3>1, <3>2, <1>9, CycleUpdates DEF Prepare
    <3>3. CASE Approve(c)
      BY <3>1, <3>3, <1>9, CycleUpdates DEF Approve
    <3> QED BY <1>14, <3>2, <3>3
  <2> QED BY <1>14, <2>1 DEF Prepare, Approve, PilotTypes, evidence, reports
<1>15. ASSUME NEW c \in Cycles, ExecuteFilled(c) PROVE PilotTypes'
  <2>1. plans' \in Seq(BridgePlan)
    BY <1>15, NewPlanType DEF ExecuteFilled, PilotTypes, Executed
  <2>2. ReconcileNext(c, Len(plans) + 1, "filled") \in BridgeCycle
    BY <1>11, <1>12
  <2>3. cycle' \in [Cycles -> BridgeCycle]
    BY <1>15, <2>2, MovedType DEF ExecuteFilled
  <2> QED BY <1>15, <2>1, <2>3 DEF ExecuteFilled, PilotTypes, evidence, reports
<1>16. ASSUME NEW c \in Cycles, ExecuteUnfilled(c) PROVE PilotTypes'
  <2>1. PICK status \in {"blocked", "planned"} : plans' = Append(plans, NewPlan(c, status))
    BY <1>16 DEF ExecuteUnfilled
  <2>2. plans' \in Seq(BridgePlan)
    BY <2>1, NewPlanType DEF PilotTypes
  <2>3. cycle' \in [Cycles -> BridgeCycle]
    BY <1>16, <1>9, IdleType DEF ExecuteUnfilled
  <2> QED BY <1>16, <2>2, <2>3 DEF ExecuteUnfilled, PilotTypes, evidence, reports
<1>17. ASSUME NEW c \in Cycles, Reconcile(c) PROVE PilotTypes'
  <2>1. PICK status \in {"reconciled", "reconciliation_failed"} :
          plans' = [plans EXCEPT ![cycle[c].plan].status = status,
                                 ![cycle[c].plan].updated = NextSave]
    BY <1>17 DEF Reconcile
  <2>2. plans' \in Seq(BridgePlan)
    <3>1. \A i \in 1..Len(plans) : plans[i] \in BridgePlan
      BY ElementOfSeq DEF PilotTypes
    <3>2. \A i \in 1..Len(plans) : plans'[i] \in BridgePlan
      <4>1. \A p \in BridgePlan, n \in Int :
                [[p EXCEPT !.status = status] EXCEPT !.updated = n] \in BridgePlan
        BY <2>1 DEF BridgePlan, Executed
      <4> QED BY <2>1, <3>1, <4>1, <1>12, NextSaveInt
    <3>3. plans' \in [1..Len(plans) -> BridgePlan]
      BY <2>1, <3>2, <1>12
    <3> QED BY <3>3, <1>12
  <2>3. cycle' \in [Cycles -> BridgeCycle]
    BY <1>17, <1>9, IdleType DEF Reconcile
  <2> QED BY <1>17, <2>2, <2>3 DEF Reconcile, PilotTypes, evidence, reports
<1>18. ASSUME NEW c \in Cycles, CycleStops(c) PROVE PilotTypes'
  BY <1>18, <1>9, IdleType DEF CycleStops, PilotTypes, evidence, reports
<1>19. CASE RunLiveShadow
  BY <1>19, <1>7, <1>8 DEF RunLiveShadow, PilotTypes, reports
<1>20. CASE BeginPreflight \/ PreflightPlan \/ RecordPreflight
  BY <1>20 DEF BeginPreflight, PreflightPlan, RecordPreflight, PilotTypes, evidence
<1> QED BY <1>1, <1>2, <1>3, <1>4, <1>5, <1>6, <1>10, <1>13, <1>14, <1>15, <1>16, <1>17,
           <1>18, <1>19, <1>20 DEF PilotNext

-----------------------------------------------------------------------------
(* One plan per target.  The argument: a cycle that is past its lookup has *)
(* found no plan of its key, and while it is the only one none appears.    *)

OneCycle == \A c, d \in Cycles : c = d

KeyOf(p) == <<p.run, p.target, p.mode>>
CycleKey(k) == <<k.run, k.target, k.mode>>
Buying == {"prepare", "approve", "execute"}

BoughtInv ==
    /\ \A i, j \in DOMAIN plans : i # j => KeyOf(plans[i]) # KeyOf(plans[j])
    /\ \A c \in Cycles : cycle[c].at \in Buying =>
          \A i \in DOMAIN plans : KeyOf(plans[i]) # CycleKey(cycle[c])

\* The lookup finds nothing only when there is nothing of the key.
LEMMA NewestExists ==
    ASSUME PilotTypes, NEW is \in SUBSET DOMAIN plans, is # {}
    PROVE  NewestPlan(is) # {}
<1> DEFINE f == [i \in is |-> plans[i].updated]
           X == {f[i] : i \in is}
<1>1. IsFiniteSet(X)
  <2>1. IsFiniteSet(DOMAIN plans)
    BY LenProperties, FS_Interval DEF PilotTypes
  <2>2. IsFiniteSet(is)
    BY <2>1, FS_Subset
  <2> QED BY <2>2, FiniteValues
<1>2. \A i \in is : plans[i].updated \in Int
  <2>1. \A i \in DOMAIN plans : plans[i] \in BridgePlan
    BY ElementOfSeq, LenProperties DEF PilotTypes
  <2> QED BY <2>1 DEF BridgePlan
<1>3. X \subseteq Int /\ X # {}
  BY <1>2
<1>4. PICK x \in X : \A y \in X : y <= x
  <2> HIDE DEF X
  <2> QED BY <1>1, <1>3, LargestNumber
<1>5. PICK i \in is : x = plans[i].updated
  BY <1>4
<1>6. \A j \in is : plans[j].updated <= plans[i].updated
  BY <1>4, <1>5
<1> QED BY <1>5, <1>6 DEF NewestPlan

\* What a step does to plans and cycles, as far as keys are concerned.
LEMMA BoughtStill ==
    ASSUME PilotTypes, BoughtInv, DOMAIN plans' = DOMAIN plans,
           \A i \in DOMAIN plans : KeyOf(plans'[i]) = KeyOf(plans[i]),
           \A c \in Cycles : cycle'[c].at \in Buying =>
               cycle[c].at \in Buying /\ CycleKey(cycle'[c]) = CycleKey(cycle[c])
    PROVE  BoughtInv'
BY DEF BoughtInv

\* A new plan of a key that had none.
LEMMA BoughtNew ==
    ASSUME PilotTypes, BoughtInv, OneCycle, NEW c \in Cycles, cycle[c].at = "execute",
           NEW status, plans' = Append(plans, NewPlan(c, status)), cycle'[c].at \notin Buying
    PROVE  BoughtInv'
<1>1. /\ DOMAIN plans = 1..Len(plans) /\ Len(plans) \in Nat
      /\ DOMAIN plans' = 1..(Len(plans) + 1)
      /\ \A i \in 1..Len(plans) : plans'[i] = plans[i]
      /\ plans'[Len(plans) + 1] = NewPlan(c, status)
  BY LenProperties DEF PilotTypes
<1>2. KeyOf(NewPlan(c, status)) = CycleKey(cycle[c])
  BY DEF KeyOf, CycleKey, NewPlan
<1>3. \A i \in DOMAIN plans : KeyOf(plans[i]) # CycleKey(cycle[c])
  BY DEF BoughtInv, Buying
<1>4. \A i \in DOMAIN plans' : i \in DOMAIN plans \/ i = Len(plans) + 1
  BY <1>1
<1>5. \A i, j \in DOMAIN plans' : i # j => KeyOf(plans'[i]) # KeyOf(plans'[j])
  BY <1>1, <1>2, <1>3, <1>4 DEF BoughtInv
<1>6. \A d \in Cycles : cycle'[d].at \notin Buying
  BY DEF OneCycle
<1> QED BY <1>5, <1>6 DEF BoughtInv

LEMMA KeyKept ==
    ASSUME NEW k \in BridgeCycle
    PROVE  /\ CycleKey([k EXCEPT !.at = "prepare"]) = CycleKey(k)
           /\ CycleKey([k EXCEPT !.at = "approve"]) = CycleKey(k)
           /\ CycleKey([k EXCEPT !.at = "execute", !.pinned = TRUE]) = CycleKey(k)
           /\ CycleKey([k EXCEPT !.pinned = FALSE]) = CycleKey(k)
BY DEF CycleKey, BridgeCycle

LEMMA BoughtStep == PilotTypes /\ OneCycle /\ BoughtInv /\ [PilotNext]_pilotVars => BoughtInv'
<1> SUFFICES ASSUME PilotTypes, OneCycle, BoughtInv, [PilotNext]_pilotVars PROVE BoughtInv'
  OBVIOUS
<1>1. CASE UNCHANGED <<plans, cycle>>
  BY <1>1, BoughtStill
<1>2. ASSUME NEW c \in Cycles, NEW next, CycleGoes(c, next)
      PROVE  /\ cycle'[c] = next
             /\ \A d \in Cycles : d # c => cycle'[d] = cycle[d]
  BY <1>2 DEF CycleGoes, PilotTypes
<1>3. CASE OwnAccountMoves
  BY <1>3, BoughtStill, MovedType DEF OwnAccountMoves, CycleKey, PilotTypes, BridgeCycle
<1>4. ASSUME NEW c \in Cycles, NEW next, CycleGoes(c, next), plans' = plans, next.at \notin Buying
      PROVE  BoughtInv'
  BY <1>2, <1>4, BoughtStill
<1>5. Idle.at \notin Buying
  BY DEF Idle, Buying
<1>6. ASSUME NEW c \in Cycles, BeginCycle(c) PROVE BoughtInv'
  <2>1. PICK mode \in Modes :
          CycleGoes(c, [Idle EXCEPT !.at = "lookup", !.mode = mode, !.run = LatestRun,
                                    !.target = IF mode = "current" THEN signal ELSE 0])
    BY <1>6 DEF BeginCycle
  <2> QED BY <1>4, <1>6, <2>1 DEF BeginCycle, Idle, Buying
<1>7. ASSUME NEW c \in Cycles, NEW i, NEW status PROVE ReconcileNext(c, i, status).at \notin Buying
  BY <1>5 DEF ReconcileNext, PilotTypes, BridgeCycle, Buying
<1>8. ASSUME NEW c \in Cycles, LookUp(c) PROVE BoughtInv'
  <2>1. CASE ExistingPlan(c) = {}
    <3>1. PlansUnder(cycle[c].run, cycle[c].target, cycle[c].mode) = {}
      BY <2>1, NewestExists DEF ExistingPlan, PlansUnder
    <3>2. \A i \in DOMAIN plans : KeyOf(plans[i]) # CycleKey(cycle[c])
      BY <3>1 DEF PlansUnder, KeyOf, CycleKey
    <3>3. CycleGoes(c, [cycle[c] EXCEPT !.at = "prepare"]) /\ plans' = plans
      BY <1>8, <2>1 DEF LookUp
    <3>4. CycleKey(cycle'[c]) = CycleKey(cycle[c])
      BY <1>2, <3>3 DEF CycleKey, PilotTypes, BridgeCycle
    <3>5. \A d \in Cycles : d = c
      BY DEF OneCycle
    <3> QED BY <3>2, <3>3, <3>4, <3>5 DEF BoughtInv
  <2>2. CASE ExistingPlan(c) # {}
    <3>1. PICK i \in ExistingPlan(c) : CycleGoes(c, ReconcileNext(c, i, plans[i].status))
      BY <1>8, <2>2 DEF LookUp
    <3> QED BY <1>4, <1>7, <1>8, <3>1 DEF LookUp
  <2> QED BY <2>1, <2>2
<1>9. ASSUME NEW c \in Cycles, Prepare(c) \/ Approve(c) PROVE BoughtInv'
  <2>1. plans' = plans /\ cycle[c].at \in Buying
    BY <1>9 DEF Prepare, Approve, evidence, CycleIsAt, Buying
  <2>2. /\ CycleKey(cycle'[c]) = CycleKey(cycle[c])
        /\ \A d \in Cycles : d # c => cycle'[d] = cycle[d]
    <3>1. cycle[c] \in BridgeCycle
      BY DEF PilotTypes
    <3>2. CASE Prepare(c)
      BY <1>2, <3>1, <3>2, KeyKept DEF Prepare
    <3>3. CASE Approve(c)
      <4>1. CycleGoes(c, [cycle[c] EXCEPT !.at = "execute", !.pinned = TRUE])
        BY <3>3 DEF Approve
      <4>2. CycleKey([cycle[c] EXCEPT !.at = "execute", !.pinned = TRUE]) = CycleKey(cycle[c])
        BY <3>1, KeyKept
      <4> QED BY <1>2, <4>1, <4>2
    <3> QED BY <1>9, <3>2, <3>3
  <2> QED BY <2>1, <2>2, BoughtStill
<1>10. ASSUME NEW c \in Cycles, ExecuteFilled(c) PROVE BoughtInv'
  <2>1. cycle'[c] = ReconcileNext(c, Len(plans) + 1, "filled")
    BY <1>10, MovedType DEF ExecuteFilled
  <2> QED BY <1>7, <1>10, <2>1, BoughtNew DEF ExecuteFilled, CycleIsAt
<1>11. ASSUME NEW c \in Cycles, ExecuteUnfilled(c) PROVE BoughtInv'
  <2>1. PICK status \in {"blocked", "planned"} : plans' = Append(plans, NewPlan(c, status))
    BY <1>11 DEF ExecuteUnfilled
  <2>2. cycle'[c] = Idle /\ cycle[c].at = "execute"
    BY <1>2, <1>11 DEF ExecuteUnfilled, CycleIsAt
  <2> QED BY <1>5, <2>1, <2>2, BoughtNew
<1>12. ASSUME NEW c \in Cycles, Reconcile(c) PROVE BoughtInv'
  <2>1. PICK status \in {"reconciled", "reconciliation_failed"} :
          plans' = [plans EXCEPT ![cycle[c].plan].status = status,
                                 ![cycle[c].plan].updated = NextSave]
    BY <1>12 DEF Reconcile
  <2>2. \A i \in DOMAIN plans : plans[i] \in BridgePlan
    BY ElementOfSeq, LenProperties DEF PilotTypes
  <2>3. DOMAIN plans' = DOMAIN plans /\ \A i \in DOMAIN plans : KeyOf(plans'[i]) = KeyOf(plans[i])
    BY <2>1, <2>2 DEF KeyOf, BridgePlan
  <2> QED BY <1>2, <1>5, <1>12, <2>3, BoughtStill DEF Reconcile
<1>13. ASSUME NEW c \in Cycles, CycleStops(c) PROVE BoughtInv'
  BY <1>4, <1>5, <1>13 DEF CycleStops
<1>14. CASE \/ AcceptRun \/ StoreImportedTarget \/ AlphaCycle \/ OtherAccountMoves
            \/ RunLiveShadow \/ BeginPreflight \/ PreflightPlan \/ RecordPreflight
  BY <1>1, <1>14 DEF AcceptRun, StoreImportedTarget, AlphaCycle, OtherAccountMoves,
     RunLiveShadow, BeginPreflight, PreflightPlan, RecordPreflight
<1> QED BY <1>1, <1>3, <1>6, <1>8, <1>9, <1>10, <1>11, <1>12, <1>13, <1>14 DEF PilotNext, pilotVars

\* With one bridge request at a time, one target of one run is bought once per mode
\* (TargetBoughtOnce), wherever a cycle stops and whatever others do to the account.
THEOREM OneBuyPerTarget == ASSUME OneCycle PROVE PilotSpec => []TargetBoughtOnce
<1>1. PilotInit => BoughtInv
  BY DEF PilotInit, BoughtInv, Idle, Buying
<1>2. BoughtInv => TargetBoughtOnce
  BY DEF BoughtInv, TargetBoughtOnce, KeyOf
<1> QED BY <1>1, <1>2, PilotTypesInit, PilotTypesStep, BoughtStep, PTL DEF PilotSpec

-----------------------------------------------------------------------------
(* The verdict of the status.  The argument: a clear preflight names a     *)
(* plan that is reconciled and stays so, and with one plan per target the  *)
(* status shows its verdict exactly while its run is the evidence run and  *)
(* its plan's target that run's newest; neither, once left, is returned to.*)

Aimed(r, t, ts) == r \in 1..Len(PilotRuns) /\ 1 <= t /\ t <= ts[r].current

Confirmed(r, i, acc, ps) ==
    /\ r \in 0..acc /\ i \in DOMAIN ps
    /\ ps[i].run = r /\ ps[i].mode = "current" /\ ps[i].status = "reconciled"

CycleAimed(k, ts) ==
    k.at # "idle" => /\ k.run \in 1..Len(PilotRuns)
                     /\ k.mode = "current" => Aimed(k.run, k.target, ts)

Reconciling(k, ps) == k.at = "reconcile" => k.plan \in DOMAIN ps /\ ps[k.plan].status = "filled"

PreflightCheck == [at: {"idle", "plan", "record"}, run: Int, target: Int, plan: Int, matched: BOOLEAN]

CheckHolds(k, acc, ps) ==
    /\ k \in PreflightCheck /\ k.run \in 0..acc
    /\ k.matched => Confirmed(k.run, k.plan, acc, ps)
RecordHolds(k, acc, ps) == k.clear => k.run # None /\ Confirmed(k.run, k.plan, acc, ps)

VerdictInv ==
    /\ \A r \in 1..Len(PilotRuns) : targets[r].current <= signal
    /\ \A i \in DOMAIN plans :
          plans[i].mode = "current" => Aimed(plans[i].run, plans[i].target, targets)
    /\ \A c \in Cycles : CycleAimed(cycle[c], targets) /\ Reconciling(cycle[c], plans)
    /\ CheckHolds(check, accepted, plans)
    /\ RecordHolds(preflight, accepted, plans)

\* Runs and batches are only added, and a plan keeps its key and a reconciliation.
TargetsGrow ==
    /\ accepted <= accepted'
    /\ \A r \in 1..Len(PilotRuns) :
          targets[r].current <= targets'[r].current /\ targets'[r].current <= signal'

PlansGrow ==
    \A i \in DOMAIN plans :
        /\ i \in DOMAIN plans' /\ KeyOf(plans'[i]) = KeyOf(plans[i])
        /\ plans[i].status = "reconciled" => plans'[i].status = "reconciled"

\* What every step does to runs, targets and keys.
Grows ==
    /\ accepted' \in {accepted, accepted + 1}
    /\ signal' \in {signal, signal + 1}
    /\ \A r \in 1..Len(PilotRuns) : targets'[r].current \in {targets[r].current, signal}
    /\ \A i \in DOMAIN plans : i \in DOMAIN plans' /\ KeyOf(plans'[i]) = KeyOf(plans[i])

LEMMA PilotGrows == ASSUME PilotTypes, PilotNext PROVE Grows
<1>1. /\ accepted \in Nat /\ Len(PilotRuns) \in Nat
      /\ accepted <= Len(PilotRuns) /\ LatestRun = accepted
  BY PilotLength DEF PilotTypes, LatestRun
<1>2. ASSUME NEW r \in 1..Len(PilotRuns), NEW q \in 1..Len(PilotRuns),
             \/ targets' = targets
             \/ targets' = [targets EXCEPT ![q].imported = TRUE]
             \/ targets' = WithCurrentTarget(q)
      PROVE  targets'[r].current \in {targets[r].current, signal}
  <2>1. targets[r] = [imported |-> targets[r].imported, current |-> targets[r].current]
    BY DEF PilotTypes
  <2> QED BY <1>2, <2>1 DEF PilotTypes, WithCurrentTarget
<1>3. /\ DOMAIN plans = 1..Len(plans) /\ Len(plans) \in Nat
      /\ \A i \in DOMAIN plans : plans[i] \in BridgePlan
  BY ElementOfSeq, LenProperties DEF PilotTypes
<1>4. ASSUME plans' = plans
      PROVE  \A i \in DOMAIN plans : i \in DOMAIN plans' /\ KeyOf(plans'[i]) = KeyOf(plans[i])
  BY <1>4
<1>5. CASE AcceptRun \/ AlphaCycle
  BY <1>4, <1>5 DEF AcceptRun, AlphaCycle, Grows
<1>6. CASE StoreImportedTarget
  <2>1. PICK q \in AcceptedRuns : targets' = [targets EXCEPT ![q].imported = TRUE]
    BY <1>6 DEF StoreImportedTarget
  <2>2. q \in 1..Len(PilotRuns)
    BY <1>1 DEF AcceptedRuns
  <2> QED BY <1>2, <1>4, <1>6, <2>1, <2>2 DEF StoreImportedTarget, Grows
<1>7. CASE RunLiveShadow
  <2>1. LatestRun \in 1..Len(PilotRuns)
    BY <1>1, <1>7 DEF RunLiveShadow, None
  <2> QED BY <1>2, <1>4, <1>7, <2>1 DEF RunLiveShadow, Grows
<1>8. ASSUME NEW c \in Cycles, BeginCycle(c) PROVE Grows
  <2>1. LatestRun \in 1..Len(PilotRuns)
    BY <1>1, <1>8 DEF BeginCycle, None
  <2>2. targets' = targets \/ targets' = WithCurrentTarget(LatestRun)
    BY <1>8 DEF BeginCycle
  <2> QED BY <1>2, <1>4, <1>8, <2>1, <2>2 DEF BeginCycle, Grows
<1>9. CASE UNCHANGED <<accepted, targets, signal, plans>>
  BY <1>4, <1>9 DEF Grows
<1>10. ASSUME NEW c \in Cycles, NEW plan, plans' = Append(plans, plan), UNCHANGED evidence
       PROVE  Grows
  <2>1. \A i \in DOMAIN plans : i \in DOMAIN plans' /\ plans'[i] = plans[i]
    BY <1>3, <1>10, LenProperties DEF PilotTypes
  <2> QED BY <1>10, <2>1 DEF Grows, evidence
<1>11. ASSUME NEW c \in Cycles, ExecuteFilled(c) \/ ExecuteUnfilled(c) PROVE Grows
  BY <1>10, <1>11 DEF ExecuteFilled, ExecuteUnfilled
<1>12. ASSUME NEW c \in Cycles, Reconcile(c) PROVE Grows
  <2>1. PICK status \in {"reconciled", "reconciliation_failed"} :
          plans' = [plans EXCEPT ![cycle[c].plan].status = status,
                                 ![cycle[c].plan].updated = NextSave]
    BY <1>12 DEF Reconcile
  <2>2. DOMAIN plans' = DOMAIN plans /\ \A i \in DOMAIN plans : KeyOf(plans'[i]) = KeyOf(plans[i])
    BY <1>3, <2>1 DEF KeyOf, BridgePlan
  <2> QED BY <1>12, <2>2 DEF Reconcile, Grows, evidence
<1>13. ASSUME NEW c \in Cycles, LookUp(c) \/ Prepare(c) \/ Approve(c) \/ CycleStops(c) PROVE Grows
  BY <1>9, <1>13 DEF LookUp, Prepare, Approve, CycleStops, evidence
<1>14. CASE OwnAccountMoves \/ OtherAccountMoves \/ BeginPreflight \/ PreflightPlan \/ RecordPreflight
  BY <1>9, <1>14 DEF OwnAccountMoves, OtherAccountMoves, BeginPreflight, PreflightPlan,
     RecordPreflight, evidence
<1> QED BY <1>5, <1>6, <1>7, <1>8, <1>11, <1>12, <1>13, <1>14 DEF PilotNext

LEMMA AimedKept ==
    ASSUME PilotTypes, PilotTypes', TargetsGrow, NEW r, NEW t \in Int, Aimed(r, t, targets)
    PROVE  Aimed(r, t, targets')
<1>1. r \in 1..Len(PilotRuns) /\ 1 <= t /\ t <= targets[r].current
  BY DEF Aimed
<1>2. targets[r].current \in Nat /\ targets'[r].current \in Nat
  BY <1>1 DEF PilotTypes
<1>3. targets[r].current <= targets'[r].current
  BY <1>1 DEF TargetsGrow
<1>4. t <= targets'[r].current
  BY <1>1, <1>2, <1>3
<1> QED BY <1>1, <1>4 DEF Aimed

LEMMA ConfirmedKept ==
    ASSUME PilotTypes, PilotTypes', accepted <= accepted', PlansGrow, NEW r, NEW i,
           Confirmed(r, i, accepted, plans)
    PROVE  Confirmed(r, i, accepted', plans')
<1>1. accepted \in Int /\ accepted' \in Int
  BY PilotLength DEF PilotTypes
<1>2. r \in 0..accepted'
  BY <1>1 DEF Confirmed
<1>3. i \in DOMAIN plans /\ plans[i].run = r /\ plans[i].mode = "current"
      /\ plans[i].status = "reconciled"
  BY DEF Confirmed
<1>4. i \in DOMAIN plans' /\ KeyOf(plans'[i]) = KeyOf(plans[i]) /\ plans'[i].status = "reconciled"
  BY <1>3 DEF PlansGrow
<1>5. plans'[i].run = r /\ plans'[i].mode = "current"
  BY <1>3, <1>4 DEF KeyOf
<1> QED BY <1>2, <1>4, <1>5 DEF Confirmed

\* The reports of a step that leaves them alone.
LEMMA ReportsKept ==
    ASSUME PilotTypes, PilotTypes', VerdictInv, accepted <= accepted', PlansGrow,
           UNCHANGED <<preflight, check>>
    PROVE  CheckHolds(check', accepted', plans') /\ RecordHolds(preflight', accepted', plans')
<1>1. accepted \in Int /\ accepted' \in Int
  BY PilotLength DEF PilotTypes
<1>2. check \in PreflightCheck /\ check.run \in 0..accepted'
  BY <1>1 DEF VerdictInv, CheckHolds
<1>3. check.matched => Confirmed(check.run, check.plan, accepted', plans')
  BY ConfirmedKept DEF VerdictInv, CheckHolds
<1>4. preflight.clear =>
        preflight.run # None /\ Confirmed(preflight.run, preflight.plan, accepted', plans')
  BY ConfirmedKept DEF VerdictInv, RecordHolds
<1> QED BY <1>2, <1>3, <1>4 DEF CheckHolds, RecordHolds

\* A cycle goes on under its key.
Follows(next, k, ps) ==
    next.at # "idle" => /\ k.at # "idle" /\ CycleKey(next) = CycleKey(k)
                        /\ \/ Reconciling(next, ps)
                           \/ k.at = "reconcile" /\ next.plan = k.plan

\* A step that makes no plan.
LEMMA VerdictStill ==
    ASSUME PilotTypes, PilotTypes', VerdictInv, TargetsGrow, plans' = plans,
           \A c \in Cycles : \/ Follows(cycle'[c], cycle[c], plans)
                             \/ CycleAimed(cycle'[c], targets') /\ Reconciling(cycle'[c], plans),
           CheckHolds(check', accepted', plans'), RecordHolds(preflight', accepted', plans')
    PROVE  VerdictInv'
<1>1. \A r \in 1..Len(PilotRuns) : targets'[r].current <= signal'
  BY DEF TargetsGrow
<1>2. ASSUME NEW i \in DOMAIN plans', plans'[i].mode = "current"
      PROVE  Aimed(plans'[i].run, plans'[i].target, targets')
  <2>1. plans[i] \in BridgePlan
    BY <1>2, ElementOfSeq, LenProperties DEF PilotTypes
  <2>2. plans[i].target \in Int
    BY <2>1 DEF BridgePlan
  <2> QED BY <1>2, <2>2, AimedKept DEF VerdictInv
<1>3. ASSUME NEW c \in Cycles
      PROVE  CycleAimed(cycle'[c], targets') /\ Reconciling(cycle'[c], plans')
  <2>1. CASE cycle'[c].at = "idle"
    BY <2>1 DEF CycleAimed, Reconciling
  <2>2. CASE cycle'[c].at # "idle" /\ Follows(cycle'[c], cycle[c], plans)
    <3>1. /\ cycle[c].at # "idle" /\ cycle'[c].run = cycle[c].run
          /\ cycle'[c].target = cycle[c].target /\ cycle'[c].mode = cycle[c].mode
      BY <2>2 DEF Follows, CycleKey
    <3>2. CycleAimed(cycle[c], targets) /\ Reconciling(cycle[c], plans)
      BY DEF VerdictInv
    <3>3. cycle[c].target \in Int
      BY DEF PilotTypes, BridgeCycle
    <3>4. CycleAimed(cycle'[c], targets')
      BY <3>1, <3>2, <3>3, AimedKept DEF CycleAimed
    <3>5. Reconciling(cycle'[c], plans')
      BY <2>2, <3>2 DEF Follows, Reconciling
    <3> QED BY <3>4, <3>5
  <2> QED BY <2>1, <2>2
<1> QED BY <1>1, <1>2, <1>3 DEF VerdictInv

LEMMA IdOfFound == \A is : IdOf(is) = None \/ IdOf(is) \in is
<1> TAKE is
<1>1. is # {} => (CHOOSE i \in is : TRUE) \in is
  OBVIOUS
<1> QED BY <1>1 DEF IdOf

LEMMA VerdictStep ==
    PilotTypes /\ PilotTypes' /\ OneCycle /\ BoughtInv /\ VerdictInv /\ [PilotNext]_pilotVars
    => VerdictInv'
<1> SUFFICES ASSUME PilotTypes, PilotTypes', OneCycle, BoughtInv, VerdictInv,
                    [PilotNext]_pilotVars
             PROVE  VerdictInv'
  OBVIOUS
<1>1. /\ accepted \in Nat /\ signal \in Nat /\ Len(PilotRuns) \in Nat
      /\ accepted <= Len(PilotRuns) /\ LatestRun = accepted
      /\ \A r \in 1..Len(PilotRuns) : targets[r].current \in Nat /\ targets[r].current <= signal
  BY PilotLength DEF PilotTypes, LatestRun, VerdictInv
<1>2. TargetsGrow
  <2>1. CASE UNCHANGED pilotVars
    BY <1>1, <2>1 DEF pilotVars, TargetsGrow
  <2>2. CASE PilotNext
    <3>1. Grows
      BY <2>2, PilotGrows
    <3>2. ASSUME NEW r \in 1..Len(PilotRuns)
          PROVE  targets[r].current <= targets'[r].current /\ targets'[r].current <= signal'
      BY <1>1, <3>1 DEF Grows
    <3> QED BY <1>1, <3>1, <3>2 DEF Grows, TargetsGrow
  <2> QED BY <2>1, <2>2
<1>3. plans' = plans => PlansGrow
  BY DEF PlansGrow
<1>4. ASSUME plans' = plans, UNCHANGED <<preflight, check>>,
             \A c \in Cycles : \/ Follows(cycle'[c], cycle[c], plans)
                               \/ CycleAimed(cycle'[c], targets') /\ Reconciling(cycle'[c], plans)
      PROVE  VerdictInv'
  <2>1. accepted <= accepted'
    BY <1>2 DEF TargetsGrow
  <2> QED BY <1>2, <1>3, <1>4, <2>1, ReportsKept, VerdictStill
<1>5. \A c \in Cycles : Follows(cycle[c], cycle[c], plans)
  BY DEF Follows, Reconciling
<1>6. ASSUME plans' = plans, UNCHANGED <<cycle, preflight, check>>
      PROVE  VerdictInv'
  BY <1>4, <1>5, <1>6
<1>7. ASSUME NEW c \in Cycles, NEW next, CycleGoes(c, next)
      PROVE  /\ cycle'[c] = next
             /\ \A d \in Cycles : d = c
  BY <1>7 DEF CycleGoes, PilotTypes, OneCycle
<1>8. ASSUME NEW c \in Cycles, NEW next, CycleGoes(c, next), plans' = plans,
             UNCHANGED <<preflight, check>>,
             \/ Follows(next, cycle[c], plans)
             \/ CycleAimed(next, targets') /\ Reconciling(next, plans)
      PROVE  VerdictInv'
  <2>1. \A d \in Cycles : d = c /\ cycle'[c] = next
    BY <1>7, <1>8
  <2> QED BY <1>4, <1>8, <2>1
<1>9. CASE AcceptRun \/ AlphaCycle \/ StoreImportedTarget \/ RunLiveShadow \/ OtherAccountMoves
  BY <1>6, <1>9 DEF AcceptRun, AlphaCycle, StoreImportedTarget, RunLiveShadow, OtherAccountMoves,
     evidence, reports
<1>14. CASE OwnAccountMoves
  <2>1. ASSUME NEW c \in Cycles PROVE Follows(cycle'[c], cycle[c], plans)
    <3>1. cycle'[c] = [cycle[c] EXCEPT !.pinned = FALSE] /\ cycle[c] \in BridgeCycle
      BY <1>14 DEF OwnAccountMoves, Moved, PilotTypes
    <3>2. /\ cycle'[c].at = cycle[c].at /\ cycle'[c].plan = cycle[c].plan
          /\ CycleKey(cycle'[c]) = CycleKey(cycle[c])
      BY <3>1, KeyKept DEF BridgeCycle
    <3> QED BY <3>2 DEF Follows, Reconciling
  <2> QED BY <1>4, <1>14, <2>1 DEF OwnAccountMoves, evidence, reports
<1>15. ASSUME NEW c \in Cycles, BeginCycle(c) PROVE VerdictInv'
  <2>1. LatestRun \in 1..Len(PilotRuns)
    BY <1>1, <1>15 DEF BeginCycle, None
  <2>2. PICK mode \in Modes :
          /\ IF mode = "current"
             THEN signal > 0 /\ targets' = WithCurrentTarget(LatestRun)
             ELSE targets[LatestRun].imported /\ UNCHANGED targets
          /\ CycleGoes(c, [Idle EXCEPT !.at = "lookup", !.mode = mode, !.run = LatestRun,
                                       !.target = IF mode = "current" THEN signal ELSE 0])
    BY <1>15 DEF BeginCycle
  <2> DEFINE next == [Idle EXCEPT !.at = "lookup", !.mode = mode, !.run = LatestRun,
                                  !.target = IF mode = "current" THEN signal ELSE 0]
  <2>3. /\ next.at = "lookup" /\ next.mode = mode /\ next.run = LatestRun
        /\ next.target = IF mode = "current" THEN signal ELSE 0
    BY DEF Idle
  <2>5. mode = "current" => Aimed(LatestRun, signal, targets')
    <3>1. mode = "current" => targets'[LatestRun].current = signal /\ signal >= 1
      BY <1>1, <2>1, <2>2 DEF PilotTypes, WithCurrentTarget
    <3> QED BY <1>1, <2>1, <3>1 DEF Aimed
  <2>6. CycleAimed(next, targets') /\ Reconciling(next, plans)
    BY <2>1, <2>3, <2>5 DEF CycleAimed, Reconciling
  <2> HIDE DEF next
  <2> QED BY <1>8, <1>15, <2>2, <2>6 DEF BeginCycle, reports, next
<1>16. ASSUME NEW c \in Cycles, NEW i, NEW status, NEW ps,
              cycle[c].at # "idle",
              status = "filled" => i \in DOMAIN ps /\ ps[i].status = "filled"
       PROVE  Follows(ReconcileNext(c, i, status), cycle[c], ps)
  <2>1. cycle[c] \in BridgeCycle
    BY DEF PilotTypes
  <2>2. CASE status = "filled"
    <3>1. ReconcileNext(c, i, status) = [cycle[c] EXCEPT !.at = "reconcile", !.plan = i]
      BY <2>2 DEF ReconcileNext
    <3>2. /\ ReconcileNext(c, i, status).plan = i
          /\ CycleKey(ReconcileNext(c, i, status)) = CycleKey(cycle[c])
      BY <2>1, <3>1 DEF BridgeCycle, CycleKey
    <3> QED BY <1>16, <2>2, <3>2 DEF Follows, Reconciling
  <2>3. CASE status # "filled"
    BY <2>3 DEF ReconcileNext, Follows, Idle
  <2> QED BY <2>2, <2>3
<1>17. ASSUME NEW c \in Cycles, LookUp(c) PROVE VerdictInv'
  <2>1. plans' = plans /\ UNCHANGED <<preflight, check>> /\ cycle[c].at = "lookup"
    BY <1>17 DEF LookUp, evidence, reports, CycleIsAt
  <2>2. CASE ExistingPlan(c) = {}
    <3>1. CycleGoes(c, [cycle[c] EXCEPT !.at = "prepare"])
      BY <1>17, <2>2 DEF LookUp
    <3>2. Follows([cycle[c] EXCEPT !.at = "prepare"], cycle[c], plans)
      BY <2>1, KeyKept DEF Follows, Reconciling, PilotTypes, BridgeCycle
    <3> QED BY <1>8, <2>1, <3>1, <3>2
  <2>3. CASE ExistingPlan(c) # {}
    <3>1. PICK i \in ExistingPlan(c) : CycleGoes(c, ReconcileNext(c, i, plans[i].status))
      BY <1>17, <2>3 DEF LookUp
    <3>2. i \in DOMAIN plans
      BY DEF ExistingPlan, NewestPlan, PlansUnder
    <3>3. Follows(ReconcileNext(c, i, plans[i].status), cycle[c], plans)
      BY <1>16, <2>1, <3>2
    <3> QED BY <1>8, <2>1, <3>1, <3>3
  <2> QED BY <2>2, <2>3
<1>18. ASSUME NEW c \in Cycles, Prepare(c) \/ Approve(c) PROVE VerdictInv'
  <2>1. /\ plans' = plans /\ UNCHANGED <<preflight, check>>
        /\ cycle[c].at \in {"prepare", "approve"}
    BY <1>18 DEF Prepare, Approve, evidence, reports, CycleIsAt
  <2>2. cycle[c] \in BridgeCycle
    BY DEF PilotTypes
  <2>3. CASE Prepare(c)
    <3>1. Follows([cycle[c] EXCEPT !.at = "approve"], cycle[c], plans)
      BY <2>1, <2>2, KeyKept DEF Follows, Reconciling, BridgeCycle
    <3> QED BY <1>8, <2>1, <2>3, <3>1 DEF Prepare
  <2>4. CASE Approve(c)
    <3>1. Follows([cycle[c] EXCEPT !.at = "execute", !.pinned = TRUE], cycle[c], plans)
      BY <2>1, <2>2, KeyKept DEF Follows, Reconciling, BridgeCycle
    <3> QED BY <1>8, <2>1, <2>4, <3>1 DEF Approve
  <2> QED BY <1>18, <2>3, <2>4
<1>19. ASSUME NEW c \in Cycles, CycleStops(c) PROVE VerdictInv'
  <2>1. Follows(Idle, cycle[c], plans)
    BY DEF Follows, Idle
  <2> QED BY <1>8, <1>19, <2>1 DEF CycleStops, evidence, reports
<1>20. ASSUME NEW c \in Cycles, cycle[c].at = "execute", NEW status \in Executed \cup {"planned", "blocked"},
              plans' = Append(plans, NewPlan(c, status)), status # "reconciled"
       PROVE  /\ PlansGrow
              /\ \A i \in DOMAIN plans' : plans'[i].mode = "current" =>
                    Aimed(plans'[i].run, plans'[i].target, targets)
              /\ Len(plans) + 1 \in DOMAIN plans' /\ plans'[Len(plans) + 1].status = status
  <2>1. /\ DOMAIN plans = 1..Len(plans) /\ Len(plans) \in Nat
        /\ DOMAIN plans' = 1..(Len(plans) + 1)
        /\ \A i \in 1..Len(plans) : plans'[i] = plans[i]
        /\ plans'[Len(plans) + 1] = NewPlan(c, status)
    BY <1>20, LenProperties DEF PilotTypes
  <2>2. PlansGrow
    BY <2>1 DEF PlansGrow
  <2>3. CycleAimed(cycle[c], targets)
    BY DEF VerdictInv
  <2>4. ASSUME NEW i \in DOMAIN plans', plans'[i].mode = "current"
        PROVE  Aimed(plans'[i].run, plans'[i].target, targets)
    <3>1. CASE i \in 1..Len(plans)
      BY <2>1, <2>4, <3>1 DEF VerdictInv
    <3>2. CASE i = Len(plans) + 1
      BY <1>20, <2>1, <2>3, <2>4, <3>2 DEF NewPlan, CycleAimed
    <3> QED BY <2>1, <3>1, <3>2
  <2> QED BY <2>1, <2>2, <2>4 DEF NewPlan
<1>21. ASSUME UNCHANGED <<accepted, targets, signal, preflight, check>>, PlansGrow,
              \A i \in DOMAIN plans' : plans'[i].mode = "current" =>
                  Aimed(plans'[i].run, plans'[i].target, targets),
              \A c \in Cycles : /\ CycleAimed(cycle'[c], targets)
                                /\ Reconciling(cycle'[c], plans')
       PROVE  VerdictInv'
  <2>1. CheckHolds(check', accepted', plans') /\ RecordHolds(preflight', accepted', plans')
    BY <1>1, <1>21, ReportsKept
  <2> QED BY <1>1, <1>21, <2>1 DEF VerdictInv
<1>22. CycleAimed(Idle, targets) /\ \A ps : Reconciling(Idle, ps)
  BY DEF Idle, CycleAimed, Reconciling
<1>23. ASSUME NEW c \in Cycles, ExecuteFilled(c) PROVE VerdictInv'
  <2>1. /\ plans' = Append(plans, NewPlan(c, "filled")) /\ cycle[c].at = "execute"
        /\ UNCHANGED <<accepted, targets, signal, preflight, check>>
        /\ cycle'[c] = ReconcileNext(c, Len(plans) + 1, "filled")
    BY <1>23, MovedType DEF ExecuteFilled, CycleIsAt, evidence, reports
  <2>2. cycle'[c] = [cycle[c] EXCEPT !.at = "reconcile", !.plan = Len(plans) + 1]
    BY <2>1 DEF ReconcileNext
  <2>3. /\ cycle'[c].run = cycle[c].run /\ cycle'[c].target = cycle[c].target
        /\ cycle'[c].mode = cycle[c].mode /\ cycle'[c].plan = Len(plans) + 1
    BY <2>2 DEF PilotTypes, BridgeCycle
  <2>4. CycleAimed(cycle[c], targets)
    BY DEF VerdictInv
  <2>5. CycleAimed(cycle'[c], targets)
    BY <2>1, <2>3, <2>4 DEF CycleAimed
  <2>6. Reconciling(cycle'[c], plans')
    BY <1>20, <2>1, <2>3 DEF Reconciling, Executed
  <2>7. \A d \in Cycles : d = c
    BY DEF OneCycle
  <2> QED BY <1>20, <1>21, <2>1, <2>5, <2>6, <2>7 DEF Executed
<1>24. ASSUME NEW c \in Cycles, ExecuteUnfilled(c) PROVE VerdictInv'
  <2>1. PICK status \in {"blocked", "planned"} : plans' = Append(plans, NewPlan(c, status))
    BY <1>24 DEF ExecuteUnfilled
  <2>2. /\ cycle[c].at = "execute" /\ UNCHANGED <<accepted, targets, signal, preflight, check>>
        /\ cycle'[c] = Idle /\ \A d \in Cycles : d = c
    BY <1>7, <1>24 DEF ExecuteUnfilled, CycleIsAt, evidence, reports
  <2> QED BY <1>20, <1>21, <1>22, <2>1, <2>2
<1>25. ASSUME NEW c \in Cycles, Reconcile(c) PROVE VerdictInv'
  <2>1. PICK status \in {"reconciled", "reconciliation_failed"} :
          plans' = [plans EXCEPT ![cycle[c].plan].status = status,
                                 ![cycle[c].plan].updated = NextSave]
    BY <1>25 DEF Reconcile
  <2>2. /\ cycle[c].at = "reconcile" /\ UNCHANGED <<accepted, targets, signal, preflight, check>>
        /\ cycle'[c] = Idle /\ \A d \in Cycles : d = c
    BY <1>7, <1>25 DEF Reconcile, CycleIsAt, evidence, reports
  <2>3. \A i \in DOMAIN plans : plans[i] \in BridgePlan
    BY ElementOfSeq, LenProperties DEF PilotTypes
  <2>4. /\ DOMAIN plans' = DOMAIN plans
        /\ \A i \in DOMAIN plans : /\ KeyOf(plans'[i]) = KeyOf(plans[i])
                                   /\ plans'[i].run = plans[i].run /\ plans'[i].mode = plans[i].mode
                                   /\ plans'[i].target = plans[i].target
                                   /\ i # cycle[c].plan => plans'[i].status = plans[i].status
    BY <2>1, <2>3 DEF KeyOf, BridgePlan
  <2>5. plans[cycle[c].plan].status # "reconciled"
    BY <2>2 DEF VerdictInv, Reconciling
  <2>6. PlansGrow
    BY <2>4, <2>5 DEF PlansGrow
  <2>7. \A i \in DOMAIN plans' : plans'[i].mode = "current" =>
           Aimed(plans'[i].run, plans'[i].target, targets)
    BY <2>4 DEF VerdictInv
  <2> QED BY <1>21, <1>22, <2>2, <2>6, <2>7
<1>26. ASSUME UNCHANGED <<accepted, targets, signal, plans, cycle>>,
              CheckHolds(check', accepted, plans), RecordHolds(preflight', accepted, plans)
       PROVE  VerdictInv'
  BY <1>2, <1>5, <1>26, VerdictStill
<1>27. CheckHolds(check, accepted, plans) /\ RecordHolds(preflight, accepted, plans)
  BY DEF VerdictInv
<1>28. CASE BeginPreflight
  <2>1. LatestRun # None => LatestTarget(LatestRun) \in Int
    <3>1. LatestRun # None => LatestRun \in 1..Len(PilotRuns)
      BY <1>1 DEF None
    <3> QED BY <1>1, <3>1 DEF LatestTarget, NoTarget
  <2>2. /\ check'.run = LatestRun /\ check'.matched = FALSE /\ check' \in PreflightCheck
    <3> DEFINE t == IF LatestRun = None THEN NoTarget ELSE LatestTarget(LatestRun)
    <3>1. t \in Int
      BY <2>1 DEF NoTarget
    <3>2. check' = [Unchecked EXCEPT !.at = "plan", !.run = LatestRun, !.target = t]
      BY <1>28 DEF BeginPreflight
    <3> HIDE DEF t
    <3>3. check' = [at |-> "plan", run |-> LatestRun, target |-> t, plan |-> 0, matched |-> FALSE]
      BY <3>2 DEF Unchecked, None
    <3> QED BY <1>1, <3>1, <3>3 DEF PreflightCheck
  <2>3. CheckHolds(check', accepted, plans)
    BY <1>1, <2>2 DEF CheckHolds
  <2> QED BY <1>26, <1>27, <1>28, <2>3 DEF BeginPreflight, evidence
<1>29. CASE PreflightPlan
  <2> DEFINE found == PlanForEvidence(check.run, check.target, "current")
  <2>1. /\ check'.run = check.run /\ check'.plan = IdOf(found)
        /\ check'.matched = (\E i \in found : plans[i].status = "reconciled")
        /\ check' \in PreflightCheck
    <3>1. check \in PreflightCheck
      BY <1>27 DEF CheckHolds
    <3>2. IdOf(found) \in Int
      <4>1. found \subseteq Int
        BY LenProperties DEF PlanForEvidence, NewestPlan, PlansUnder, PilotTypes
      <4>2. IdOf(found) = None \/ IdOf(found) \in found
        BY IdOfFound
      <4>3. None \in Int
        BY DEF None
      <4> HIDE DEF found
      <4> QED BY <4>1, <4>2, <4>3
    <3>3. check' = [check EXCEPT !.at = "record", !.plan = IdOf(found),
                                 !.matched = \E i \in found : plans[i].status = "reconciled"]
      BY <1>29 DEF PreflightPlan
    <3> HIDE DEF found
    <3> QED BY <3>1, <3>2, <3>3 DEF PreflightCheck
  <2>2. ASSUME check'.matched PROVE Confirmed(check'.run, check'.plan, accepted, plans)
    <3>1. PICK i \in found : plans[i].status = "reconciled"
      BY <2>1, <2>2
    <3>2. \A j \in found : j \in DOMAIN plans /\ plans[j].run = check.run
                           /\ plans[j].target = check.target /\ plans[j].mode = "current"
      BY DEF PlanForEvidence, NewestPlan, PlansUnder
    <3>3. \A j \in found : j = i
      BY <3>2 DEF BoughtInv, KeyOf
    <3>4. IdOf(found) = i
      <4>1. found # {}
        BY <3>1
      <4>2. (CHOOSE j \in found : TRUE) \in found
        BY <4>1
      <4> QED BY <3>3, <4>1, <4>2 DEF IdOf
    <3>5. check.run \in 0..accepted
      BY <1>27 DEF CheckHolds
    <3> QED BY <2>1, <3>1, <3>2, <3>4, <3>5 DEF Confirmed
  <2>3. CheckHolds(check', accepted, plans)
    BY <1>27, <2>1, <2>2 DEF CheckHolds
  <2> QED BY <1>26, <1>27, <1>29, <2>3 DEF PreflightPlan, evidence
<1>30. CASE RecordPreflight
  <2>1. /\ preflight'.run = check.run /\ preflight'.plan = check.plan
        /\ preflight'.clear => check.run # None /\ check.matched
        /\ check' = Unchecked
    BY <1>30 DEF RecordPreflight
  <2>2. RecordHolds(preflight', accepted, plans)
    BY <1>27, <2>1 DEF RecordHolds, CheckHolds
  <2>3. CheckHolds(check', accepted, plans)
    BY <1>1, <2>1 DEF CheckHolds, Unchecked, None, NoTarget, PreflightCheck
  <2> QED BY <1>26, <1>30, <2>2, <2>3 DEF RecordPreflight, evidence
<1>31. CASE UNCHANGED pilotVars
  BY <1>6, <1>31 DEF pilotVars
<1> QED BY <1>9, <1>14, <1>15, <1>17, <1>18, <1>19, <1>23, <1>24, <1>25,
       <1>28, <1>29, <1>30, <1>31 DEF PilotNext

\* The run of the status is an accepted one as soon as there is one.
LEMMA EvidenceRunAccepted ==
    ASSUME PilotTypes, accepted # 0
    PROVE  EvidenceRun \in 1..accepted
<1> DEFINE cloud == {r \in AcceptedRuns : PilotRuns[r] = "cloud"}
<1>1. accepted \in Nat /\ AcceptedRuns = 1..accepted
  BY PilotLength DEF PilotTypes, AcceptedRuns
<1>2. CASE cloud = {}
  BY <1>1, <1>2 DEF EvidenceRun, LatestRun
<1>3. CASE cloud # {}
  <2>1. IsFiniteSet(cloud) /\ cloud \subseteq Int
    <3>1. IsFiniteSet(1..accepted)
      BY <1>1, FS_Interval
    <3> QED BY <1>1, <3>1, FS_Subset
  <2>2. \E r \in cloud : \A s \in cloud : s <= r
    <3> HIDE DEF cloud
    <3> QED BY <1>3, <2>1, LargestNumber
  <2>3. (CHOOSE r \in cloud : \A s \in cloud : s <= r) \in cloud
    <3> HIDE DEF cloud
    <3> QED BY <2>2
  <2> QED BY <1>1, <1>3, <2>3 DEF EvidenceRun
<1> QED BY <1>2, <1>3

\* When the status shows the paper stage ready and a preflight that only the flags block
\* and that is not stale, the preflight is about the run and the plan the status shows,
\* and the plan bought that run's current target (VerdictRests), for any number of

\* A run that is not the evidence run does not become it later.
LEMMA EvidencePasses ==
    ASSUME PilotTypes, PilotTypes', accepted' \in {accepted, accepted + 1},
           NEW r \in 1..accepted, EvidenceRun' = r
    PROVE  EvidenceRun = r
<1> DEFINE Cloud(n) == {q \in 1..n : PilotRuns[q] = "cloud"}
           EvidenceOf(n) == IF Cloud(n) = {} THEN n
                            ELSE CHOOSE q \in Cloud(n) : \A s \in Cloud(n) : s <= q
<1>1. EvidenceRun = EvidenceOf(accepted) /\ EvidenceRun' = EvidenceOf(accepted')
  BY DEF EvidenceRun, AcceptedRuns, LatestRun
<1>2. accepted \in Nat
  BY PilotLength DEF PilotTypes
<1>3. CASE accepted' = accepted
  BY <1>1, <1>3
<1>4. CASE accepted' = accepted + 1
  <2>1. 1..(accepted + 1) = (1..accepted) \cup {accepted + 1}
    BY <1>2
  <2>2. CASE PilotRuns[accepted + 1] = "cloud"
    <3>1. accepted + 1 \in Cloud(accepted + 1) /\ \A s \in Cloud(accepted + 1) : s <= accepted + 1
      BY <1>2, <2>1, <2>2
    <3>2. PICK q \in Cloud(accepted + 1) :
            /\ \A s \in Cloud(accepted + 1) : s <= q
            /\ q = EvidenceOf(accepted + 1)
      BY <3>1
    <3>3. q = accepted + 1
      BY <1>2, <3>1, <3>2
    <3> QED BY <1>1, <1>2, <1>4, <3>2, <3>3
  <2>3. CASE PilotRuns[accepted + 1] # "cloud"
    <3>1. Cloud(accepted + 1) = Cloud(accepted)
      BY <2>1, <2>3
    <3>2. CASE Cloud(accepted) = {}
      BY <1>1, <1>2, <1>4, <3>1, <3>2
    <3>3. CASE Cloud(accepted) # {}
      BY <1>1, <1>4, <3>1, <3>3
    <3> QED BY <3>2, <3>3
  <2> QED BY <2>2, <2>3
<1> QED BY <1>3, <1>4

\* When the verdict is shown, of a clear preflight.
Standing ==
    /\ preflight.run = EvidenceRun
    /\ plans[preflight.plan].target = targets[preflight.run].current

LEMMA ShownIs ==
    PilotTypes /\ BoughtInv /\ VerdictInv /\ preflight.clear => (Shown <=> Standing)
<1> SUFFICES ASSUME PilotTypes, BoughtInv, VerdictInv, preflight.clear PROVE Shown <=> Standing
  OBVIOUS
<1> DEFINE r == preflight.run
           n == preflight.plan
<1>1. /\ r \in 1..accepted /\ n \in DOMAIN plans /\ r # None
      /\ plans[n].run = r /\ plans[n].mode = "current" /\ plans[n].status = "reconciled"
  <2>1. accepted \in Nat
    BY PilotLength DEF PilotTypes
  <2> QED BY <2>1 DEF VerdictInv, RecordHolds, Confirmed, None
<1>2. Aimed(r, plans[n].target, targets)
  BY <1>1 DEF VerdictInv
<1>3. /\ r \in 1..Len(PilotRuns) /\ targets[r].current \in Nat /\ plans[n].target \in Int
      /\ targets[r].current > 0 /\ plans[n].updated \in Int
  <2>1. plans[n] \in BridgePlan
    <3>1. plans \in Seq(BridgePlan) /\ n \in 1..Len(plans)
      BY <1>1, LenProperties DEF PilotTypes
    <3> QED BY <3>1, ElementOfSeq
  <2>2. plans[n].target \in Int /\ plans[n].updated \in Int
    BY <2>1 DEF BridgePlan
  <2>3. /\ r \in 1..Len(PilotRuns) /\ 1 <= plans[n].target
        /\ plans[n].target <= targets[r].current
    BY <1>2 DEF Aimed
  <2> HIDE DEF r, n
  <2>4. targets[r].current \in Nat
    BY <2>3 DEF PilotTypes
  <2> QED BY <2>2, <2>3, <2>4
<1>4. LatestTarget(r) = targets[r].current /\ LatestTarget(r) # NoTarget
  BY <1>3 DEF LatestTarget, NoTarget
<1>5. EvidenceRun \in 1..accepted /\ EvidenceRun # None
  <2>1. accepted # 0 /\ accepted \in Nat
    BY <1>1, PilotLength DEF PilotTypes
  <2> QED BY <2>1, EvidenceRunAccepted DEF None
<1>6. n # None
  BY <1>1, LenProperties DEF PilotTypes, None
<1>7. ASSUME r = EvidenceRun
      PROVE  CurrentPlan = PlanForEvidence(r, targets[r].current, "current")
  BY <1>1, <1>4, <1>7 DEF CurrentPlan
<1>8. ASSUME Shown PROVE r = EvidenceRun /\ plans[n].target = targets[r].current
  <2>1. PaperStageReady /\ ~PreflightStale
    BY <1>8 DEF Shown
  <2>2. r = EvidenceRun
    BY <1>1, <1>5, <2>1 DEF PreflightStale
  <2>3. CurrentPlan # {}
    BY <2>1 DEF PaperStageReady
  <2>4. n = IdOf(CurrentPlan)
    BY <1>6, <2>1, <2>3 DEF PreflightStale
  <2>5. n \in CurrentPlan
    BY <2>3, <2>4 DEF IdOf
  <2> QED BY <1>7, <2>2, <2>5 DEF PlanForEvidence, NewestPlan, PlansUnder
<1>9. ASSUME r = EvidenceRun, plans[n].target = targets[r].current PROVE Shown
  <2>1. \A i \in PlansUnder(r, targets[r].current, "current") : i = n
    BY <1>1, <1>9 DEF PlansUnder, BoughtInv, KeyOf
  <2>2. n \in PlansUnder(r, targets[r].current, "current") /\ IsEvidence(n)
    BY <1>1, <1>9 DEF PlansUnder, IsEvidence
  <2>3. PlanForEvidence(r, targets[r].current, "current") = {n}
    BY <1>3, <2>1, <2>2 DEF PlanForEvidence, NewestPlan
  <2>4. CurrentPlan = {n}
    BY <1>7, <1>9, <2>3
  <2>5. IdOf(CurrentPlan) = n
    BY <2>4 DEF IdOf
  <2> QED BY <1>1, <1>9, <2>4, <2>5 DEF Shown, PaperStageReady, PreflightStale
<1> QED BY <1>8, <1>9 DEF Standing

\* With one bridge request at a time, a verdict that the status has stopped showing comes
\* back only with a new preflight (VerdictNotRevived), whatever is accepted, bought,
\* reconciled or refused meanwhile, and wherever a cycle or a preflight stands.
THEOREM VerdictStaysWithdrawn == ASSUME OneCycle PROVE PilotSpec => VerdictNotRevived
<1>1. PilotInit => BoughtInv
  BY DEF PilotInit, BoughtInv, Idle, Buying
<1>2. PilotInit => VerdictInv
  <2> SUFFICES ASSUME PilotInit PROVE VerdictInv
    OBVIOUS
  <2>1. \A r \in 1..Len(PilotRuns) : targets[r].current <= signal
    BY DEF PilotInit
  <2>2. CheckHolds(check, accepted, plans) /\ RecordHolds(preflight, accepted, plans)
    BY DEF PilotInit, CheckHolds, RecordHolds, Unchecked, None, NoTarget, PreflightCheck
  <2>3. \A c \in Cycles : CycleAimed(cycle[c], targets) /\ Reconciling(cycle[c], plans)
    BY DEF PilotInit, CycleAimed, Reconciling, Idle
  <2>4. DOMAIN plans = {}
    BY DEF PilotInit
  <2> QED BY <2>1, <2>2, <2>3, <2>4 DEF VerdictInv
<1>3. PilotTypes' /\ BoughtInv' /\ VerdictInv' /\ preflight.clear' => (Shown' <=> Standing')
  BY ShownIs, PTL
<1>4. ASSUME PilotTypes, PilotTypes', BoughtInv, BoughtInv', VerdictInv, VerdictInv',
             [PilotNext]_pilotVars
      PROVE  [~Shown /\ Shown' => preflight' # preflight]_pilotVars
  <2> SUFFICES ASSUME PilotNext, Shown', preflight' = preflight PROVE Shown
    BY <1>4
  <2> DEFINE r == preflight.run
             n == preflight.plan
  <2>1. preflight.clear /\ preflight'.clear
    BY DEF Shown
  <2>2. r = EvidenceRun' /\ plans'[n].target = targets'[r].current
    <3>1. Standing'
      BY <1>3, <1>4, <2>1
    <3> QED BY <3>1 DEF Standing
  <2>3. Grows
    BY <1>4, PilotGrows
  <2>4. /\ r \in 1..accepted /\ n \in DOMAIN plans /\ plans[n].run = r /\ plans[n].mode = "current"
    <3>1. accepted \in Nat
      BY <1>4, PilotLength DEF PilotTypes
    <3> QED BY <1>4, <2>1, <3>1 DEF VerdictInv, RecordHolds, Confirmed, None
  <2>5. EvidenceRun = r
    BY <1>4, <2>2, <2>3, <2>4, EvidencePasses DEF Grows
  <2>6. plans'[n].target = plans[n].target
    BY <2>3, <2>4 DEF Grows, KeyOf
  <2>7. Aimed(r, plans[n].target, targets)
    BY <1>4, <2>4 DEF VerdictInv
  <2>8. /\ plans[n].target \in Int /\ targets[r].current \in Int /\ signal \in Int
        /\ plans[n].target <= targets[r].current /\ targets[r].current <= signal
        /\ targets'[r].current \in {targets[r].current, signal}
    <3>1. plans[n] \in BridgePlan
      BY <1>4, <2>4, ElementOfSeq, LenProperties DEF PilotTypes
    <3>2. /\ r \in 1..Len(PilotRuns) /\ plans[n].target <= targets[r].current
          /\ plans[n].target \in Int
      BY <2>7, <3>1 DEF Aimed, BridgePlan
    <3>3. targets[r].current \in Int /\ signal \in Int /\ targets[r].current <= signal
      BY <1>4, <3>2 DEF PilotTypes, VerdictInv
    <3>4. targets'[r].current \in {targets[r].current, signal}
      BY <2>3, <3>2 DEF Grows
    <3> QED BY <3>2, <3>3, <3>4
  <2>9. plans[n].target = targets[r].current
    BY <2>2, <2>6, <2>8
  <2> QED BY <1>4, <2>1, <2>5, <2>9, ShownIs DEF Standing
<1> QED BY <1>1, <1>2, <1>4, PilotTypesInit, PilotTypesStep, BoughtStep, VerdictStep, PTL
        DEF PilotSpec, VerdictNotRevived

-----------------------------------------------------------------------------
(***************************************************************************)
(* Proposals: what the generators size passes the gate.  A proposal keeps  *)
(* the budget, the portfolio and the orders it was made with, so it is     *)
(* enough that they fit each other when it is made; the gate then has only *)
(* the age, the mode, and the account itself left to deny it for.          *)
(***************************************************************************)

\* The envelopes createBudgetEnvelope makes.
Enveloped(b) == [b EXCEPT !.policy = [MergedPolicy(@) EXCEPT !.human = TRUE]]
Envelopes == {Enveloped(b) : b \in BudgetRequests}

\* Budgets above 100 units of the currency that may be invested, with a policy that can be
\* met: a single position within the gross limit, the class the generators use allowed; and
\* accounts that are worth something.  (Of 100 units or less, the rounding of a target can
\* exceed the limit it was sized by.)
SoundBudgets ==
    /\ \A b \in BudgetRequests :
          LET p == MergedPolicy(b.policy)
          IN  /\ b.total > 10000 /\ b.reserve < 10000
              /\ p.maxSingle > 0 /\ p.maxSingle <= p.maxGross /\ p.maxNotional > 0
              /\ p.maxLoss > 0 /\ p.maxDrawdown > 0 /\ "domestic_etf" \in p.classes
    /\ \A h \in Holdings : h.equity > 0

\* A policy under which something may be proposed.
SoundPolicy(p) ==
    /\ p \in Policies /\ MergedPolicy(p) = p
    /\ p.maxSingle > 0 /\ p.maxSingle <= p.maxGross /\ p.maxNotional > 0
    /\ p.maxLoss > 0 /\ p.maxDrawdown > 0 /\ "domestic_etf" \in p.classes

SizedOrder(o, policy, portfolio) ==
    /\ o.class = "domestic_etf" /\ o.side \in {"BUY", "SELL"} /\ o.leveraged = FALSE
    /\ o.notional \in Int /\ o.notional > 0 /\ o.notional <= policy.maxNotional
    /\ o.target \in Int /\ o.target <= policy.maxSingle
    /\ o.symbol \in DOMAIN portfolio.positions =>
          o.side = "SELL" /\ o.notional <= portfolio.positions[o.symbol].value

Targets(orders) == [i \in DOMAIN orders |-> Max({orders[i].target, 0})]

Sized(p) ==
    /\ p.actor = "scheduler"
    /\ p.market \in Int /\ p.generated \in Int /\ p.market <= p.generated
    /\ SoundPolicy(p.budget.policy)
    /\ p.portfolio.equity \in Int /\ p.portfolio.equity > 0 /\ p.portfolio.gross \in Int
    /\ p.portfolio.dailyPnl = 0 /\ p.portfolio.drawdown = 0
    /\ \A i \in DOMAIN p.orders : SizedOrder(p.orders[i], p.budget.policy, p.portfolio)
    /\ SumFunctionOnSet(Targets(p.orders), DOMAIN p.orders) \in Int
    /\ SumFunctionOnSet(Targets(p.orders), DOMAIN p.orders) <= p.budget.policy.maxGross

LEMMA MergedTwice == \A p \in Policies : MergedPolicy(p) = p
<1> TAKE p \in Policies
<1>1. DOMAIN p = DOMAIN DefaultPolicy
  BY DEF Policies, DefaultPolicy
<1>2. p = [f \in DOMAIN p |-> p[f]]
  BY DEF Policies
<1> QED BY <1>1, <1>2, Zenon DEF MergedPolicy

LEMMA SignedPolicy ==
    \A q \in Policies : LET p == [q EXCEPT !.human = TRUE] IN
        /\ p \in Policies
        /\ p.maxSingle = q.maxSingle /\ p.maxGross = q.maxGross /\ p.maxNotional = q.maxNotional
        /\ p.maxLoss = q.maxLoss /\ p.maxDrawdown = q.maxDrawdown /\ p.classes = q.classes
BY DEF Policies

LEMMA Requests ==
    \A r \in BudgetRequests :
        /\ DOMAIN r = {"mode", "total", "reserve", "policy"} /\ r.total \in Nat
        /\ r.reserve \in Nat /\ MergedPolicy(r.policy) \in Policies
BY ProposalsAssumption

LEMMA EnvelopeSound ==
    ASSUME SoundBudgets, NEW b \in Envelopes
    PROVE  /\ b.total \in Nat /\ b.total > 10000 /\ b.reserve \in Nat /\ b.reserve < 10000
           /\ SoundPolicy(b.policy)
<1>1. PICK r \in BudgetRequests : b = Enveloped(r)
  BY DEF Envelopes
<1> DEFINE q == MergedPolicy(r.policy)
           p == [q EXCEPT !.human = TRUE]
<1>2. /\ DOMAIN r = {"mode", "total", "reserve", "policy"} /\ r.total \in Nat
      /\ r.reserve \in Nat /\ q \in Policies
  BY Requests
<1>3. /\ r.total > 10000 /\ r.reserve < 10000
      /\ q.maxSingle > 0 /\ q.maxSingle <= q.maxGross /\ q.maxNotional > 0
      /\ q.maxLoss > 0 /\ q.maxDrawdown > 0 /\ "domestic_etf" \in q.classes
  BY DEF SoundBudgets
<1>4. b = [r EXCEPT !.policy = p]
  BY <1>1 DEF Enveloped
<1> HIDE DEF q
<1>5. /\ p \in Policies
      /\ p.maxSingle = q.maxSingle /\ p.maxGross = q.maxGross /\ p.maxNotional = q.maxNotional
      /\ p.maxLoss = q.maxLoss /\ p.maxDrawdown = q.maxDrawdown /\ p.classes = q.classes
  BY <1>2, SignedPolicy, Zenon
<1> HIDE DEF p
<1>6. b.total = r.total /\ b.reserve = r.reserve /\ b.policy = p
  BY <1>2, <1>4
<1>7. MergedPolicy(p) = p
  BY <1>5, MergedTwice, Zenon
<1> QED BY <1>2, <1>3, <1>5, <1>6, <1>7 DEF SoundPolicy

\* The gate denies a proposal sized like this for its age, its mode or its account alone.
LEMMA GateAgrees ==
    ASSUME NEW p, Sized(p), NEW now \in Int, p.generated <= now,
           Decision(GateRequest(p), now) = "DENY"
    PROVE  \/ p.budget.mode \notin {"dry_run", "paper"}
           \/ now - p.market > p.budget.policy.maxAge
           \/ p.portfolio.gross > p.budget.policy.maxGross
           \/ \E s \in DOMAIN p.portfolio.positions :
                 /\ p.portfolio.positions[s].weight > p.budget.policy.maxSingle
                 /\ \A i \in DOMAIN p.orders : p.orders[i].symbol # s
<1> DEFINE r == GateRequest(p)
           policy == p.budget.policy
<1>1. /\ r.mode = p.budget.mode /\ r.actor = "scheduler" /\ r.provenance = TRUE
      /\ r.credentials = FALSE /\ r.accountId = FALSE /\ r.intent = "evaluate_only"
      /\ r.generated = p.generated /\ r.market = p.market /\ r.portfolio = p.portfolio
      /\ r.orders = p.orders /\ r.policy = policy
  BY DEF GateRequest, Sized
<1> HIDE DEF r
<1>2. MergedPolicy(policy) = policy /\ policy \in Policies
  BY DEF Sized, SoundPolicy
<1>3. Denied(r, policy, now)
  BY <1>1, <1>2 DEF Decision, r
<1>4. ~ SensitiveDenied(r) /\ ~ ProvenanceDenied(r)
  BY <1>1 DEF SensitiveDenied, ProvenanceDenied
<1>5. ModeDenied(r) => p.budget.mode \notin {"dry_run", "paper"}
  BY <1>1 DEF ModeDenied
<1>6. TimestampsDenied(r, policy, now) => now - p.market > policy.maxAge
  BY <1>1 DEF TimestampsDenied, Sized
<1>7. TargetGross(r) <= policy.maxGross
  BY <1>1 DEF TargetGross, Sized, Targets
<1>8. ASSUME NEW i \in DOMAIN r.orders PROVE ~ OrderDenied(r, policy, r.orders[i])
  <2>1. SizedOrder(p.orders[i], policy, p.portfolio) /\ r.orders[i] = p.orders[i]
        /\ "domestic_etf" \in policy.classes /\ policy.maxNotional \in Int
        /\ policy.maxSingle \in Int
    BY <1>1, <1>2, <1>8 DEF Sized, SoundPolicy, Policies
  <2> QED BY <2>1 DEF SizedOrder, OrderDenied, Prohibited
<1>9. CASE PortfolioDenied(r, policy)
  <2>1. /\ p.portfolio.equity > 0 /\ p.portfolio.equity \in Int
        /\ p.portfolio.dailyPnl = 0 /\ p.portfolio.drawdown = 0
        /\ policy.maxLoss > 0 /\ policy.maxLoss \in Int
        /\ policy.maxDrawdown > 0 /\ policy.maxDrawdown \in Int
    BY <1>2 DEF Sized, SoundPolicy, Policies
  <2>2. \/ p.portfolio.gross > policy.maxGross
        \/ \E s \in DOMAIN p.portfolio.positions :
              /\ p.portfolio.positions[s].weight > policy.maxSingle
              /\ ~ \E i \in DOMAIN r.orders : ReducingSell(r, r.orders[i], s)
    BY <1>1, <1>9, <2>1 DEF PortfolioDenied
  <2>3. ASSUME NEW s \in DOMAIN p.portfolio.positions, NEW i \in DOMAIN p.orders,
               p.orders[i].symbol = s
        PROVE  ReducingSell(r, r.orders[i], s)
    <3>1. SizedOrder(p.orders[i], policy, p.portfolio)
      BY DEF Sized
    <3> QED BY <1>1, <2>3, <3>1 DEF SizedOrder, ReducingSell
  <2> QED BY <1>1, <2>2, <2>3
<1>10. ~ (TargetGross(r) > policy.maxGross)
  <2>1. policy.maxGross \in Int /\ TargetGross(r) \in Int
    BY <1>1, <1>2 DEF TargetGross, Sized, Targets, Policies
  <2> QED BY <1>7, <2>1
<1>11. \/ ModeDenied(r) \/ TimestampsDenied(r, policy, now) \/ PortfolioDenied(r, policy)
  BY <1>3, <1>4, <1>8, <1>10 DEF Denied
<1> QED BY <1>5, <1>6, <1>9, <1>11

\* Rounding.
LEMMA RoundedDown ==
    \A t \in Nat, m, n \in Int : t > 10000 /\ 20000 * n <= 2 * (t * m) + 10000
        => (20000 * n + t) \div (2 * t) <= m
OBVIOUS

LEMMA RoundedUp ==
    \A t, k \in Nat : t > 10000 /\ k > 0 => (2 * (t * k) + 10000) \div 20000 > 0
OBVIOUS

LEMMA RoundedLess ==
    \A a \in Nat : 20000 * ((2 * a + 10000) \div 20000) <= 2 * a + 10000
OBVIOUS

LEMMA TimesNat == \A a, b \in Nat : a * b \in Nat /\ 2 * (a * b) \in Nat
OBVIOUS

LEMMA LeastOfThree ==
    \A a, b, c \in Int :
        /\ Min({a, b, c}) \in {a, b, c}
        /\ Min({a, b, c}) <= a /\ Min({a, b, c}) <= b /\ Min({a, b, c}) <= c
<1> TAKE a, b, c \in Int
<1>1. \E m \in {a, b, c} : \A y \in {a, b, c} : m <= y
  OBVIOUS
<1> QED BY <1>1 DEF Min

\* The baseline order: what it spends is within every limit it was sized by, and so is what
\* the target is rounded to.
LEMMA BaselineSized ==
    ASSUME SoundBudgets, NEW b \in Envelopes, NEW d,
           d.actor = "scheduler", d.budget = b, d.portfolio = SeedPortfolio(b),
           d.orders = BaselineOrders(b),
           d.market \in Int, d.generated \in Int, d.market <= d.generated
    PROVE  Sized(d)
<1> DEFINE t == b.total
           m == b.policy.maxSingle
           k == 10000 - b.reserve
           n == BaselineNotional(b)
           x == RoundDiv(t * k, 10000)
           y == RoundDiv(t * m, 10000)
           z == b.policy.maxNotional
           goal == RoundDiv(n * 10000, t)
           o == [symbol |-> "basket", class |-> "domestic_etf", side |-> "BUY",
                 notional |-> n, target |-> goal, leveraged |-> FALSE]
<1>1. /\ t \in Nat /\ t > 10000 /\ k \in Nat /\ k > 0 /\ SoundPolicy(b.policy)
  BY EnvelopeSound
<1>2. m \in Nat /\ m > 0 /\ z \in Int /\ z > 0 /\ m <= b.policy.maxGross /\ b.policy.maxGross \in Int
  BY <1>1 DEF SoundPolicy, Policies
<1>3. n = Min({x, y, z})
  BY DEF BaselineNotional
<1>4. d.orders = <<o>>
  BY DEF BaselineOrders
<1> HIDE DEF k, m, t, z, n
<1>5. /\ x = (2 * (t * k) + 10000) \div 20000
      /\ y = (2 * (t * m) + 10000) \div 20000
      /\ goal = (2 * (n * 10000) + t) \div (2 * t)
  BY DEF RoundDiv
<1>6. x \in Int /\ x > 0 /\ y \in Int /\ y > 0 /\ 20000 * y <= 2 * (t * m) + 10000
  <2>1. t * k \in Nat /\ t * m \in Nat
    BY <1>1, <1>2, TimesNat
  <2>2. x > 0 /\ y > 0
    BY <1>1, <1>2, <1>5, RoundedUp
  <2>3. 20000 * y <= 2 * (t * m) + 10000
    BY <1>5, <2>1, RoundedLess
  <2>4. \A a \in Nat : (2 * a + 10000) \div 20000 \in Int
    OBVIOUS
  <2>5. x \in Int /\ y \in Int
    BY <1>5, <2>1, <2>4
  <2> QED BY <2>2, <2>3, <2>5
<1> HIDE DEF x, y
<1>7. n \in Int /\ n > 0 /\ n <= z /\ n <= y
  <2>1. x \in Int /\ y \in Int /\ z \in Int
    BY <1>2, <1>6
  <2>2. /\ Min({x, y, z}) \in {x, y, z}
        /\ Min({x, y, z}) <= x /\ Min({x, y, z}) <= y /\ Min({x, y, z}) <= z
    BY <2>1, LeastOfThree, Zenon
  <2>3. n \in {x, y, z} /\ n <= z /\ n <= y
    BY <1>3, <2>2, Zenon
  <2> QED BY <1>2, <1>6, <2>1, <2>3
<1>8. goal \in Int /\ goal <= m
  <2>1. 20000 * n <= 2 * (t * m) + 10000
    <3>1. t * m \in Nat
      BY <1>1, <1>2, TimesNat
    <3> QED BY <1>6, <1>7, <3>1
  <2>2. goal = (20000 * n + t) \div (2 * t)
    BY <1>5, <1>7
  <2>3. goal <= m
    BY <1>1, <1>2, <1>7, <2>1, <2>2, RoundedDown
  <2>4. \A u \in Int, v \in Nat : v > 0 => u \div v \in Int
    OBVIOUS
  <2>5. 20000 * n + t \in Int /\ 2 * t \in Nat /\ 2 * t > 0
    BY <1>1, <1>7
  <2> QED BY <2>2, <2>3, <2>4, <2>5
<1> HIDE DEF goal
<1>9. SizedOrder(o, b.policy, d.portfolio)
  BY <1>2, <1>7, <1>8 DEF SizedOrder, SeedPortfolio, m, z
<1>10. /\ DOMAIN d.orders = {1} /\ d.orders[1] = o
  BY <1>4
<1>11. o.target = goal
  OBVIOUS
<1> HIDE DEF o
<1>12. /\ SumFunctionOnSet(Targets(d.orders), DOMAIN d.orders) \in Int
       /\ SumFunctionOnSet(Targets(d.orders), DOMAIN d.orders) <= b.policy.maxGross
  <2> DEFINE f == Targets(d.orders)
  <2>1. f[1] = Max({goal, 0})
    BY <1>10, <1>11 DEF Targets
  <2>2. f[1] \in Int /\ f[1] <= m
    BY <1>2, <1>8, <2>1, MaxOfTwo
  <2>3. SumFunctionOnSet(f, {1}) = f[1] + SumFunctionOnSet(f, {1} \ {1})
    <3>1. IsFiniteSet({1})
      BY FS_Singleton
    <3> HIDE DEF f
    <3> QED BY <2>2, <3>1, SumRemove
  <2>4. SumFunctionOnSet(f, {1} \ {1}) = 0
    <3>1. {1} \ {1} = {}
      OBVIOUS
    <3> QED BY <3>1, SumEmpty
  <2> HIDE DEF f
  <2> QED BY <1>2, <1>10, <2>2, <2>3, <2>4 DEF f
<1>13. /\ d.portfolio.equity \in Int /\ d.portfolio.equity > 0 /\ d.portfolio.gross \in Int
       /\ d.portfolio.dailyPnl = 0 /\ d.portfolio.drawdown = 0
  BY <1>1 DEF SeedPortfolio, t
<1>14. \A i \in DOMAIN d.orders : SizedOrder(d.orders[i], d.budget.policy, d.portfolio)
  BY <1>9, <1>10
<1> QED BY <1>1, <1>12, <1>13, <1>14 DEF Sized

\* The recovery orders: each sells some of a position there is, and aims at nothing.
LEMMA RecoverySized ==
    ASSUME SoundBudgets, NEW b \in Envelopes, NEW h \in Holdings, NEW n \in {1, 10},
           NEW ranking \in Rankings(h, n), NEW d,
           d.actor = "scheduler", d.budget = b, d.portfolio = AccountPortfolio(h),
           d.orders = RecoveryOrders(b, h, ranking),
           d.market \in Int, d.generated \in Int, d.market <= d.generated
    PROVE  Sized(d)
<1> DEFINE k == Min({n, Cardinality(Held(h))})
<1>1. SoundPolicy(b.policy) /\ b.policy.maxNotional \in Int /\ b.policy.maxNotional > 0
      /\ b.policy.maxSingle \in Int /\ b.policy.maxSingle > 0 /\ b.policy.maxGross \in Int
      /\ b.policy.maxGross > 0
  BY EnvelopeSound DEF SoundPolicy, Policies
<1>2. /\ h.equity \in Int /\ h.gross \in Int /\ IsFiniteSet(DOMAIN h.positions)
      /\ \A s \in DOMAIN h.positions : h.positions[s].value \in Int
  BY ProposalsAssumption
<1>3. h.equity > 0
  BY DEF SoundBudgets
<1>4. k \in Nat
  <2>1. IsFiniteSet(Held(h))
    BY <1>2, FS_Subset DEF Held
  <2>2. Cardinality(Held(h)) \in Nat
    BY <2>1, FS_CardinalityType
  <2> QED BY <2>2, MinOfTwo
<1>5. ranking \in [1..k -> Held(h)]
  BY DEF Rankings
<1> HIDE DEF k
<1>6. DOMAIN d.orders = 1..k
  BY <1>5 DEF RecoveryOrders
<1>7. ASSUME NEW i \in 1..k
      PROVE  SizedOrder(d.orders[i], b.policy, d.portfolio) /\ d.orders[i].target = 0
  <2> DEFINE s == ranking[i]
             v == h.positions[s].value
             o == [symbol |-> s, class |-> "domestic_etf", side |-> "SELL",
                   notional |-> SellNotional(b, v), target |-> 0, leveraged |-> FALSE]
  <2>1. d.orders[i] = o
    BY <1>5 DEF RecoveryOrders
  <2>2. s \in DOMAIN h.positions /\ v > 0 /\ v \in Int
    BY <1>2, <1>5 DEF Held
  <2>3. d.portfolio.positions = h.positions
    BY DEF AccountPortfolio
  <2> HIDE DEF v
  <2>4. /\ SellNotional(b, v) \in Int /\ SellNotional(b, v) > 0
        /\ SellNotional(b, v) <= v /\ SellNotional(b, v) <= b.policy.maxNotional
    BY <1>1, <2>2, MinOfTwo DEF SellNotional
  <2> HIDE DEF s
  <2>5. SizedOrder(o, b.policy, d.portfolio)
    BY <1>1, <2>3, <2>4 DEF SizedOrder, v
  <2> QED BY <2>1, <2>5
<1>8. /\ SumFunctionOnSet(Targets(d.orders), DOMAIN d.orders) \in Int
      /\ SumFunctionOnSet(Targets(d.orders), DOMAIN d.orders) <= b.policy.maxGross
  <2> DEFINE f == Targets(d.orders)
  <2>1. \A i \in 1..k : f[i] = 0
    <3>1. \A i \in 1..k : f[i] = Max({0, 0})
      BY <1>6, <1>7 DEF Targets
    <3>2. Max({0, 0}) = 0
      BY MaxOfTwo
    <3> QED BY <3>1, <3>2
  <2>2. IsFiniteSet(1..k)
    BY <1>4, FS_Interval
  <2>3. SumFunctionOnSet(f, {}) = SumFunctionOnSet(f, 1..k)
    <3>1. {} \in SUBSET (1..k) /\ \A i \in (1..k) \ {} : f[i] = 0
      BY <2>1
    <3>2. \A i \in 1..k : f[i] \in Int
      BY <2>1
    <3> HIDE DEF f
    <3> QED BY <2>2, <3>1, <3>2, SumSupport
  <2>4. SumFunctionOnSet(f, 1..k) = 0
    BY <2>3, SumEmpty
  <2> QED BY <1>1, <1>6, <2>4
<1>9. /\ d.portfolio.equity \in Int /\ d.portfolio.equity > 0 /\ d.portfolio.gross \in Int
      /\ d.portfolio.dailyPnl = 0 /\ d.portfolio.drawdown = 0
  BY <1>2, <1>3 DEF AccountPortfolio
<1>10. \A i \in DOMAIN d.orders : SizedOrder(d.orders[i], d.budget.policy, d.portfolio)
  BY <1>6, <1>7
<1> QED BY <1>1, <1>8, <1>9, <1>10 DEF Sized

-----------------------------------------------------------------------------
(***************************************************************************)
(* Proposals: what the rows say of each other.  A draft that is about to   *)
(* save a status has its evaluation on record, and rows are only added or  *)
(* given a status, so the record is still there when the status is saved,  *)
(* by whichever worker.                                                    *)
(***************************************************************************)

DraftFields == {"at", "rule", "budget", "portfolio", "orders", "market", "generated", "actor",
                "basis", "research", "proposal", "decision"}
AskedFields == {"at", "proposal", "decision", "generated"}
ProposalFields == {"rule", "research", "budget", "basis", "portfolio", "orders", "market",
                   "generated", "actor", "status"}
Decisions == {"DENY", "REVIEW", "ALLOW"}

OnRecord(status, i, evs) ==
    status # "generated" =>
        \E j \in DOMAIN evs :
            /\ evs[j].proposal = i
            /\ status = "rejected" <=> evs[j].decision = "DENY"
            /\ status = "paper_ready" => evs[j].decision = "ALLOW"

DraftFits(d, ids, evs) ==
    /\ d.at \in {"rest", "research", "propose", "link", "evaluate", "status"}
    /\ d.at = "rest" => DOMAIN d = {"at"}
    /\ d.at # "rest" => DOMAIN d \in {DraftFields, AskedFields}
    /\ d.at \in {"research", "propose", "link"} => DOMAIN d = DraftFields
    /\ d.at \in {"link", "evaluate", "status"} => d.proposal \in ids
    /\ d.at = "status" =>
          /\ d.decision \in Decisions
          /\ \E j \in DOMAIN evs : evs[j].proposal = d.proposal /\ evs[j].decision = d.decision

RowsStand(ps, evs) ==
    /\ IsRows(ps) /\ IsRows(evs)
    /\ \A i \in DOMAIN ps : DOMAIN ps[i] = ProposalFields /\ OnRecord(ps[i].status, i, evs)
    /\ \A j \in DOMAIN evs : evs[j].proposal \in DOMAIN ps

DraftsFit(f, ids, evs) == DOMAIN f = Drafters /\ \A w \in Drafters : DraftFits(f[w], ids, evs)

RecordInv == RowsStand(proposals, evaluations) /\ DraftsFit(draft, DOMAIN proposals, evaluations)

\* More rows, and the evaluations there were.
Grown(ids, more, evs, later) ==
    /\ ids \subseteq more
    /\ \A j \in DOMAIN evs : j \in DOMAIN later /\ later[j] = evs[j]

LEMMA FitsLater ==
    ASSUME NEW d, NEW ids, NEW evs, DraftFits(d, ids, evs),
           NEW more, NEW later, Grown(ids, more, evs, later)
    PROVE  DraftFits(d, more, later)
BY DEF DraftFits, Grown

LEMMA RecordLater ==
    ASSUME NEW status, NEW i, NEW evs, OnRecord(status, i, evs),
           NEW later, \A j \in DOMAIN evs : j \in DOMAIN later /\ later[j] = evs[j]
    PROVE  OnRecord(status, i, later)
BY DEF OnRecord

\* One worker goes on.
LEMMA DraftGoesOn ==
    ASSUME RecordInv, NEW w \in Drafters, NEW d, draft' = [draft EXCEPT ![w] = d],
           NEW more, NEW later, Grown(DOMAIN proposals, more, evaluations, later),
           DraftFits(d, more, later)
    PROVE  DraftsFit(draft', more, later)
<1>1. DOMAIN draft' = Drafters
  BY DEF RecordInv, DraftsFit
<1>2. ASSUME NEW x \in Drafters PROVE DraftFits(draft'[x], more, later)
  <2>1. draft'[x] = IF x = w THEN d ELSE draft[x]
    BY DEF RecordInv, DraftsFit
  <2>2. DraftFits(draft[x], DOMAIN proposals, evaluations)
    BY DEF RecordInv, DraftsFit
  <2>3. DraftFits(draft[x], more, later)
    BY <2>2, FitsLater
  <2> QED BY <2>1, <2>3
<1> QED BY <1>1, <1>2 DEF DraftsFit

LEMMA SameRows == Grown(DOMAIN proposals, DOMAIN proposals, evaluations, evaluations)
BY DEF Grown

\* A step that only moves one worker.
LEMMA DraftMoves ==
    ASSUME RecordInv, NEW w \in Drafters, NEW d, Begin(w, d),
           UNCHANGED <<proposals, evaluations>>,
           DraftFits(d, DOMAIN proposals, evaluations)
    PROVE  RecordInv'
<1>1. DraftsFit(draft', DOMAIN proposals, evaluations)
  BY SameRows, DraftGoesOn DEF Begin
<1> QED BY <1>1 DEF RecordInv

LEMMA NoDraftFits == \A ids, evs : DraftFits(NoDraft, ids, evs)
BY DEF DraftFits, NoDraft

LEMMA DecisionIs == \A r, now : Decision(r, now) \in Decisions
BY DEF Decision, Decisions

LEMMA StatusIs ==
    \A mode : \A decision \in Decisions : LET s == StatusAfter(decision, mode) IN
        /\ s = "rejected" <=> decision = "DENY"
        /\ s = "paper_ready" => decision = "ALLOW"
BY DEF StatusAfter, Decisions

LEMMA DraftsBegin ==
    ASSUME RecordInv, NEW w \in Drafters,
           DraftBaseline(w) \/ DraftRecovery(w) \/ EvaluateAgain(w)
    PROVE  RecordInv'
<1>1. UNCHANGED <<proposals, evaluations>>
  BY DEF DraftBaseline, DraftRecovery, EvaluateAgain, proposalRows
<1>2. CASE DraftBaseline(w)
  <2>1. PICK market \in 0..clock :
          Begin(w, [at |-> "research", rule |-> "budget-capped", budget |-> budget,
                    portfolio |-> SeedPortfolio(budget), orders |-> BaselineOrders(budget),
                    market |-> market, generated |-> clock, actor |-> "scheduler",
                    basis |-> [holding |-> "none"], research |-> 0, proposal |-> 0,
                    decision |-> "none"])
    BY <1>2, Zenon DEF DraftBaseline
  <2> DEFINE d == [at |-> "research", rule |-> "budget-capped", budget |-> budget,
                   portfolio |-> SeedPortfolio(budget), orders |-> BaselineOrders(budget),
                   market |-> market, generated |-> clock, actor |-> "scheduler",
                   basis |-> [holding |-> "none"], research |-> 0, proposal |-> 0,
                   decision |-> "none"]
  <2>2. DraftFits(d, DOMAIN proposals, evaluations)
    BY DEF DraftFits, DraftFields
  <2>3. Begin(w, d)
    BY <2>1
  <2> HIDE DEF d
  <2> QED BY <1>1, <2>2, <2>3, DraftMoves
<1>3. CASE DraftRecovery(w)
  <2> DEFINE new(n, ranking) ==
               [at |-> "research", rule |-> "recovery", budget |-> budget,
                portfolio |-> AccountPortfolio(holding),
                orders |-> RecoveryOrders(budget, holding, ranking),
                market |-> clock, generated |-> clock, actor |-> "scheduler",
                basis |-> [holding |-> holding, budget |-> budget, asked |-> n],
                research |-> 0, proposal |-> 0, decision |-> "none"]
  <2>0. PICK n \in {1, 10} : \E ranking \in Rankings(holding, n) :
          IF Reusable(n) = {} THEN Begin(w, new(n, ranking))
          ELSE \E i \in Reusable(n) :
                  /\ \A j \in DOMAIN evaluations : evaluations[j].proposal # i
                  /\ Begin(w, [new(n, ranking) EXCEPT !.at = "evaluate", !.proposal = i])
    BY <1>3, Zenon DEF DraftRecovery
  <2>1. PICK ranking \in Rankings(holding, n) :
          IF Reusable(n) = {} THEN Begin(w, new(n, ranking))
          ELSE \E i \in Reusable(n) :
                  /\ \A j \in DOMAIN evaluations : evaluations[j].proposal # i
                  /\ Begin(w, [new(n, ranking) EXCEPT !.at = "evaluate", !.proposal = i])
    BY <2>0, Zenon
  <2> DEFINE d == new(n, ranking)
  <2>2. DraftFits(d, DOMAIN proposals, evaluations)
    BY DEF DraftFits, DraftFields
  <2>3. DOMAIN d = DraftFields
    BY DEF DraftFields
  <2>4. ASSUME NEW i \in Reusable(n)
        PROVE  DraftFits([d EXCEPT !.at = "evaluate", !.proposal = i], DOMAIN proposals, evaluations)
    <3>1. i \in DOMAIN proposals
      BY DEF Reusable, SameState
    <3> HIDE DEF d
    <3> QED BY <2>3, <3>1 DEF DraftFits, DraftFields
  <2>5. Begin(w, d) \/ \E i \in Reusable(n) : Begin(w, [d EXCEPT !.at = "evaluate", !.proposal = i])
    BY <2>1
  <2> HIDE DEF d
  <2> QED BY <1>1, <2>2, <2>4, <2>5, DraftMoves
<1>4. CASE EvaluateAgain(w)
  <2>1. PICK i \in DOMAIN proposals :
          Begin(w, [at |-> "evaluate", proposal |-> i, decision |-> "none", generated |-> clock])
    BY <1>4 DEF EvaluateAgain
  <2>2. DraftFits([at |-> "evaluate", proposal |-> i, decision |-> "none", generated |-> clock],
                  DOMAIN proposals, evaluations)
    BY DEF DraftFits, AskedFields
  <2> QED BY <1>1, <2>1, <2>2, DraftMoves
<1> QED BY <1>2, <1>3, <1>4

LEMMA RunsSaved ==
    ASSUME RecordInv, NEW w \in Drafters,
           SaveResearchRun(w) \/ LinkRun(w) \/ DrafterStops(w)
    PROVE  RecordInv'
<1>1. UNCHANGED <<proposals, evaluations>>
  BY DEF SaveResearchRun, LinkRun, DrafterStops, proposalRows
<1>2. DraftFits(draft[w], DOMAIN proposals, evaluations)
  BY DEF RecordInv, DraftsFit
<1>3. CASE SaveResearchRun(w)
  <2> DEFINE d == [draft[w] EXCEPT !.at = "propose", !.research = Len(researchRuns) + 1]
  <2>1. draft[w].at = "research" /\ Begin(w, d)
    BY <1>3 DEF SaveResearchRun
  <2>2. DraftFits(d, DOMAIN proposals, evaluations)
    BY <1>2, <2>1 DEF DraftFits, DraftFields
  <2> QED BY <1>1, <2>1, <2>2, DraftMoves
<1>4. CASE LinkRun(w)
  <2> DEFINE d == [draft[w] EXCEPT !.at = "evaluate"]
  <2>1. draft[w].at = "link" /\ Begin(w, d)
    BY <1>4 DEF LinkRun
  <2>2. DraftFits(d, DOMAIN proposals, evaluations)
    BY <1>2, <2>1 DEF DraftFits, DraftFields
  <2> QED BY <1>1, <2>1, <2>2, DraftMoves
<1>5. CASE DrafterStops(w)
  BY <1>1, <1>5, NoDraftFits, DraftMoves DEF DrafterStops
<1> QED BY <1>3, <1>4, <1>5

\* The row a draft saves, and how it differs from the draft.
ProposalOf(d) ==
    [rule |-> d.rule, research |-> d.research, budget |-> d.budget, basis |-> d.basis,
     portfolio |-> d.portfolio, orders |-> d.orders, market |-> d.market,
     generated |-> d.generated, actor |-> d.actor, status |-> "generated"]

LEMMA ProposalSaved ==
    ASSUME RecordInv, NEW w \in Drafters, SaveProposal(w)
    PROVE  RecordInv'
<1> DEFINE p == ProposalOf(draft[w])
           d == [draft[w] EXCEPT !.at = "link", !.proposal = Len(proposals) + 1]
<1>1. /\ draft[w].at = "propose" /\ proposals' = Append(proposals, p) /\ Begin(w, d)
      /\ UNCHANGED evaluations
  BY DEF SaveProposal, ProposalOf
<1>2. DOMAIN p = ProposalFields /\ p.status = "generated"
  BY DEF ProposalOf, ProposalFields
<1> HIDE DEF p
<1>3. /\ IsRows(proposals')
      /\ \A i \in DOMAIN proposals' :
            (i \in DOMAIN proposals /\ proposals'[i] = proposals[i]) \/ proposals'[i] = p
      /\ DOMAIN proposals \subseteq DOMAIN proposals'
      /\ Len(proposals) + 1 \in DOMAIN proposals'
  BY <1>1, RowsAppend DEF RecordInv, RowsStand
<1>4. Grown(DOMAIN proposals, DOMAIN proposals', evaluations, evaluations)
  BY <1>3 DEF Grown
<1>5. RowsStand(proposals', evaluations)
  <2>1. \A i : OnRecord("generated", i, evaluations)
    BY DEF OnRecord
  <2> QED BY <1>2, <1>3, <2>1 DEF RecordInv, RowsStand
<1>6. DraftFits(draft[w], DOMAIN proposals, evaluations)
  BY DEF RecordInv, DraftsFit
<1>7. DraftFits(d, DOMAIN proposals', evaluations)
  BY <1>1, <1>3, <1>6 DEF DraftFits, DraftFields
<1> HIDE DEF d
<1>8. DraftsFit(draft', DOMAIN proposals', evaluations)
  BY <1>1, <1>4, <1>7, DraftGoesOn DEF Begin
<1> QED BY <1>1, <1>5, <1>8 DEF RecordInv

LEMMA EvaluationSaved ==
    ASSUME RecordInv, NEW w \in Drafters, SaveEvaluation(w)
    PROVE  RecordInv'
<1> DEFINE decision == Decision(GateRequest(proposals[draft[w].proposal]), clock)
           e == [proposal |-> draft[w].proposal, decision |-> decision, at |-> clock]
           d == [draft[w] EXCEPT !.at = "status", !.decision = decision]
<1>1. /\ draft[w].at = "evaluate" /\ evaluations' = Append(evaluations, e) /\ Begin(w, d)
      /\ UNCHANGED proposals
  BY DEF SaveEvaluation
<1>2. decision \in Decisions
  BY DecisionIs
<1>3. DraftFits(draft[w], DOMAIN proposals, evaluations)
  BY DEF RecordInv, DraftsFit
<1> HIDE DEF decision
<1>4. e.proposal = draft[w].proposal /\ e.decision = decision /\ e.proposal \in DOMAIN proposals
  BY <1>1, <1>3 DEF DraftFits
<1>5. d.at = "status" /\ d.proposal = draft[w].proposal /\ d.decision = decision
      /\ DOMAIN d = DOMAIN draft[w]
  BY <1>1, <1>3 DEF DraftFits, DraftFields, AskedFields
<1> HIDE DEF e, d
<1>6. /\ IsRows(evaluations')
      /\ \A j \in DOMAIN evaluations' :
            (j \in DOMAIN evaluations /\ evaluations'[j] = evaluations[j]) \/ evaluations'[j] = e
      /\ \A j \in DOMAIN evaluations : j \in DOMAIN evaluations' /\ evaluations'[j] = evaluations[j]
      /\ \E j \in DOMAIN evaluations' : evaluations'[j] = e
  BY <1>1, RowsAppend DEF RecordInv, RowsStand
<1>7. Grown(DOMAIN proposals, DOMAIN proposals, evaluations, evaluations')
  BY <1>6 DEF Grown
<1>8. RowsStand(proposals, evaluations')
  <2>1. \A i \in DOMAIN proposals : OnRecord(proposals[i].status, i, evaluations')
    BY <1>6, RecordLater DEF RecordInv, RowsStand
  <2> QED BY <1>4, <1>6, <2>1 DEF RecordInv, RowsStand
<1>9. DraftFits(d, DOMAIN proposals, evaluations')
  BY <1>1, <1>2, <1>3, <1>4, <1>5, <1>6 DEF DraftFits
<1>10. DraftsFit(draft', DOMAIN proposals, evaluations')
  BY <1>1, <1>7, <1>9, DraftGoesOn DEF Begin
<1> QED BY <1>1, <1>8, <1>10 DEF RecordInv

\* The proposals, one of them with another status.
LEMMA StatusSaves ==
    ASSUME RecordInv, NEW w \in Drafters, SaveStatus(w)
    PROVE  /\ DOMAIN proposals' = DOMAIN proposals /\ IsRows(proposals')
           /\ draft[w].proposal \in DOMAIN proposals
           /\ \A i \in DOMAIN proposals :
                 /\ DOMAIN proposals'[i] = ProposalFields
                 /\ \A f \in ProposalFields \ {"status"} : proposals'[i][f] = proposals[i][f]
                 /\ proposals'[i].status =
                       IF i = draft[w].proposal
                       THEN StatusAfter(draft[w].decision, proposals[i].budget.mode)
                       ELSE proposals[i].status
<1> DEFINE k == draft[w].proposal
           s == StatusAfter(draft[w].decision, proposals[k].budget.mode)
<1>1. draft[w].at = "status" /\ proposals' = [proposals EXCEPT ![k].status = s]
  BY DEF SaveStatus
<1>2. k \in DOMAIN proposals
  BY <1>1 DEF RecordInv, DraftsFit, DraftFits
<1>3. \A i \in DOMAIN proposals : DOMAIN proposals[i] = ProposalFields
  BY DEF RecordInv, RowsStand
<1> HIDE DEF k, s
<1>4. /\ DOMAIN proposals' = DOMAIN proposals
      /\ \A i \in DOMAIN proposals :
            proposals'[i] = IF i = k THEN [proposals[i] EXCEPT !.status = s] ELSE proposals[i]
  <2>1. \E n \in Nat : DOMAIN proposals = 1..n /\ proposals = [i \in 1..n |-> proposals[i]]
    BY RowsIndexed DEF RecordInv, RowsStand
  <2> QED BY <1>1, <2>1
<1>5. ASSUME NEW i \in DOMAIN proposals
      PROVE  /\ DOMAIN proposals'[i] = ProposalFields
             /\ \A f \in ProposalFields \ {"status"} : proposals'[i][f] = proposals[i][f]
             /\ proposals'[i].status = IF i = k THEN s ELSE proposals[i].status
  BY <1>3, <1>4 DEF ProposalFields
<1>6. IsRows(proposals')
  <2>1. PICK n \in Nat : DOMAIN proposals = 1..n /\ proposals = [i \in 1..n |-> proposals[i]]
    BY RowsIndexed DEF RecordInv, RowsStand
  <2>2. DOMAIN proposals' = 1..n /\ proposals' = [i \in 1..n |-> proposals'[i]]
    BY <1>1, <2>1
  <2> QED BY <2>2, RowsAre
<1> QED BY <1>2, <1>4, <1>5, <1>6 DEF k, s

LEMMA StatusKeeps ==
    ASSUME RecordInv, NEW w \in Drafters, SaveStatus(w)
    PROVE  RecordInv'
<1> DEFINE k == draft[w].proposal
<1>1. draft[w].at = "status" /\ Begin(w, NoDraft) /\ UNCHANGED evaluations
  BY DEF SaveStatus
<1>2. /\ draft[w].decision \in Decisions
      /\ \E j \in DOMAIN evaluations :
            evaluations[j].proposal = k /\ evaluations[j].decision = draft[w].decision
  BY <1>1 DEF RecordInv, DraftsFit, DraftFits
<1>3. \A mode : OnRecord(StatusAfter(draft[w].decision, mode), k, evaluations)
  BY <1>2, StatusIs DEF OnRecord
<1>4. RowsStand(proposals', evaluations)
  <2>1. /\ DOMAIN proposals' = DOMAIN proposals /\ IsRows(proposals')
        /\ \A i \in DOMAIN proposals :
              /\ DOMAIN proposals'[i] = ProposalFields
              /\ proposals'[i].status = IF i = k THEN StatusAfter(draft[w].decision, proposals[i].budget.mode)
                                        ELSE proposals[i].status
    BY StatusSaves
  <2> QED BY <1>3, <2>1 DEF RecordInv, RowsStand
<1>5. DraftsFit(draft', DOMAIN proposals', evaluations)
  <2>1. Grown(DOMAIN proposals, DOMAIN proposals', evaluations, evaluations)
    BY StatusSaves DEF Grown
  <2> QED BY <1>1, <2>1, NoDraftFits, DraftGoesOn DEF Begin
<1> QED BY <1>1, <1>4, <1>5 DEF RecordInv

LEMMA RecordStep == RecordInv /\ [ProposalsNext]_proposalVars => RecordInv'
<1>1. ASSUME RecordInv, UNCHANGED <<draft, proposalRows>> PROVE RecordInv'
  BY <1>1 DEF RecordInv, proposalRows
<1>2. UNCHANGED proposalVars \/ HourPasses \/ CreateEnvelope \/ HoldingMoves
          => UNCHANGED <<draft, proposalRows>>
  BY DEF proposalVars, proposalRows, HourPasses, CreateEnvelope, HoldingMoves
<1> QED BY <1>1, <1>2, DraftsBegin, RunsSaved, ProposalSaved, EvaluationSaved, StatusKeeps
        DEF ProposalsNext

LEMMA RecordStarts == ProposalsInit => RecordInv
<1> SUFFICES ASSUME ProposalsInit PROVE RecordInv
  OBVIOUS
<1>1. proposals = <<>> /\ evaluations = <<>> /\ draft = [w \in Drafters |-> NoDraft]
  BY DEF ProposalsInit
<1>2. IsRows(<<>>)
  BY DEF IsRows
<1> QED BY <1>1, <1>2, NoDraftFits DEF RecordInv, RowsStand, DraftsFit

\* What is on record, wherever any number of workers stop.
THEOREM RecordInvariance == ProposalsSpec => []RecordInv
BY RecordStarts, RecordStep, PTL DEF ProposalsSpec

-----------------------------------------------------------------------------
(***************************************************************************)
(* Proposals: drafts and rows keep what they were sized with.              *)
(***************************************************************************)

\* What of a proposal the gate looks at.
GateFields == {"actor", "market", "generated", "budget", "portfolio", "orders"}

\* A denial the orders are not to blame for.
Excused(p, at) ==
    \/ p.budget.mode \notin {"dry_run", "paper"}
    \/ at - p.market > p.budget.policy.maxAge
    \/ p.portfolio.gross > p.budget.policy.maxGross
    \/ \E s \in DOMAIN p.portfolio.positions :
          /\ p.portfolio.positions[s].weight > p.budget.policy.maxSingle
          /\ \A i \in DOMAIN p.orders : p.orders[i].symbol # s

SizedBy(p, now) == Sized(p) /\ p.generated <= now

RowsSized(ps, evs, now) ==
    /\ \A i \in DOMAIN ps : SizedBy(ps[i], now)
    /\ \A j \in DOMAIN evs : evs[j].decision = "DENY" => Excused(ps[evs[j].proposal], evs[j].at)
DraftsSized(f, now) ==
    \A w \in Drafters : f[w].at \in {"research", "propose"} => SizedBy(f[w], now)

OwnInv ==
    /\ clock \in Nat /\ (budget = NoBudget \/ budget \in Envelopes) /\ holding \in Holdings
    /\ RowsSized(proposals, evaluations, clock)
    /\ DraftsSized(draft, clock)

LEMMA SizedSame ==
    ASSUME NEW p, NEW d, \A f \in GateFields : p[f] = d[f], NEW now
    PROVE  (SizedBy(d, now) => SizedBy(p, now)) /\ \A at : Excused(d, at) => Excused(p, at)
<1>1. /\ p.actor = d.actor /\ p.market = d.market /\ p.generated = d.generated
      /\ p.budget = d.budget /\ p.portfolio = d.portfolio /\ p.orders = d.orders
  BY DEF GateFields
<1> QED BY <1>1 DEF SizedBy, Sized, Excused

LEMMA HourKeepsOwn == ASSUME OwnInv, HourPasses PROVE OwnInv'
<1>1. clock' = clock + 1 /\ clock \in Nat /\ clock' \in Nat
      /\ UNCHANGED <<budget, holding, proposals, evaluations, draft>>
  BY DEF HourPasses, OwnInv, proposalRows
<1>2. \A p : SizedBy(p, clock) => SizedBy(p, clock')
  BY <1>1 DEF SizedBy, Sized
<1>3. RowsSized(proposals, evaluations, clock') /\ DraftsSized(draft, clock')
  BY <1>2 DEF OwnInv, RowsSized, DraftsSized
<1> QED BY <1>1, <1>3 DEF OwnInv

\* A worker draws up something that fits, or nothing.
LEMMA DraftSized ==
    ASSUME OwnInv, RecordInv, NEW w \in Drafters, NEW d, Begin(w, d),
           d.at \in {"research", "propose"} => SizedBy(d, clock)
    PROVE  DraftsSized(draft', clock)
<1>1. \A x \in Drafters : draft'[x] = IF x = w THEN d ELSE draft[x]
  BY DEF Begin, RecordInv, DraftsFit
<1> QED BY <1>1 DEF OwnInv, DraftsSized

LEMMA BaselineOwn ==
    ASSUME SoundBudgets, OwnInv, RecordInv, NEW w \in Drafters, DraftBaseline(w)
    PROVE  DraftsSized(draft', clock)
<1>1. PICK market \in 0..clock :
        Begin(w, [at |-> "research", rule |-> "budget-capped", budget |-> budget,
                  portfolio |-> SeedPortfolio(budget), orders |-> BaselineOrders(budget),
                  market |-> market, generated |-> clock, actor |-> "scheduler",
                  basis |-> [holding |-> "none"], research |-> 0, proposal |-> 0,
                  decision |-> "none"])
  BY Zenon DEF DraftBaseline
<1> DEFINE d == [at |-> "research", rule |-> "budget-capped", budget |-> budget,
                 portfolio |-> SeedPortfolio(budget), orders |-> BaselineOrders(budget),
                 market |-> market, generated |-> clock, actor |-> "scheduler",
                 basis |-> [holding |-> "none"], research |-> 0, proposal |-> 0,
                 decision |-> "none"]
<1>2. budget \in Envelopes /\ clock \in Nat
  BY DEF OwnInv, DraftBaseline
<1>3. /\ d.actor = "scheduler" /\ d.budget = budget /\ d.portfolio = SeedPortfolio(budget)
      /\ d.orders = BaselineOrders(budget) /\ d.market = market /\ d.generated = clock
  OBVIOUS
<1>4. Begin(w, d)
  BY <1>1
<1> HIDE DEF d
<1>5. d.market \in Int /\ d.generated \in Int /\ d.market <= d.generated /\ d.generated <= clock
  BY <1>2, <1>3
<1>6. Sized(d)
  BY <1>2, <1>3, <1>5, BaselineSized
<1> QED BY <1>4, <1>5, <1>6, DraftSized DEF SizedBy

LEMMA RecoveryOwn ==
    ASSUME SoundBudgets, OwnInv, RecordInv, NEW w \in Drafters, DraftRecovery(w)
    PROVE  DraftsSized(draft', clock)
<1> DEFINE new(n, ranking) ==
             [at |-> "research", rule |-> "recovery", budget |-> budget,
              portfolio |-> AccountPortfolio(holding),
              orders |-> RecoveryOrders(budget, holding, ranking),
              market |-> clock, generated |-> clock, actor |-> "scheduler",
              basis |-> [holding |-> holding, budget |-> budget, asked |-> n],
              research |-> 0, proposal |-> 0, decision |-> "none"]
<1>1. PICK n \in {1, 10} : \E ranking \in Rankings(holding, n) :
        IF Reusable(n) = {} THEN Begin(w, new(n, ranking))
        ELSE \E i \in Reusable(n) :
                /\ \A j \in DOMAIN evaluations : evaluations[j].proposal # i
                /\ Begin(w, [new(n, ranking) EXCEPT !.at = "evaluate", !.proposal = i])
  BY Zenon DEF DraftRecovery
<1>2. PICK ranking \in Rankings(holding, n) :
        IF Reusable(n) = {} THEN Begin(w, new(n, ranking))
        ELSE \E i \in Reusable(n) :
                /\ \A j \in DOMAIN evaluations : evaluations[j].proposal # i
                /\ Begin(w, [new(n, ranking) EXCEPT !.at = "evaluate", !.proposal = i])
  BY <1>1, Zenon
<1> DEFINE d == new(n, ranking)
<1>3. budget \in Envelopes /\ clock \in Nat /\ holding \in Holdings
  BY DEF OwnInv, DraftRecovery
<1>4. /\ d.actor = "scheduler" /\ d.budget = budget /\ d.portfolio = AccountPortfolio(holding)
      /\ d.orders = RecoveryOrders(budget, holding, ranking) /\ d.market = clock
      /\ d.generated = clock
  OBVIOUS
<1>5. \A i : [d EXCEPT !.at = "evaluate", !.proposal = i].at = "evaluate"
  OBVIOUS
<1>6. Begin(w, d) \/ \E i : Begin(w, [d EXCEPT !.at = "evaluate", !.proposal = i])
  BY <1>2
<1> HIDE DEF d
<1>7. d.market \in Int /\ d.generated \in Int /\ d.market <= d.generated /\ d.generated <= clock
  BY <1>3, <1>4
<1>8. Sized(d)
  BY <1>3, <1>4, <1>7, RecoverySized
<1> QED BY <1>5, <1>6, <1>7, <1>8, DraftSized DEF SizedBy

LEMMA DraftsOwn ==
    ASSUME SoundBudgets, OwnInv, RecordInv, NEW w \in Drafters,
           \/ DraftBaseline(w) \/ DraftRecovery(w) \/ EvaluateAgain(w)
           \/ SaveResearchRun(w) \/ LinkRun(w) \/ DrafterStops(w)
    PROVE  OwnInv'
<1>1. UNCHANGED <<clock, budget, holding, proposals, evaluations>>
  BY DEF DraftBaseline, DraftRecovery, EvaluateAgain, SaveResearchRun, LinkRun, DrafterStops,
         proposalRows
<1>2. DraftFits(draft[w], DOMAIN proposals, evaluations)
  BY DEF RecordInv, DraftsFit
<1>3. ASSUME EvaluateAgain(w) PROVE DraftsSized(draft', clock)
  <2>1. \E i : Begin(w, [at |-> "evaluate", proposal |-> i, decision |-> "none", generated |-> clock])
    BY <1>3 DEF EvaluateAgain
  <2> QED BY <2>1, DraftSized
<1>4. ASSUME SaveResearchRun(w) PROVE DraftsSized(draft', clock)
  <2> DEFINE d == [draft[w] EXCEPT !.at = "propose", !.research = Len(researchRuns) + 1]
  <2>1. draft[w].at = "research" /\ Begin(w, d)
    BY <1>4 DEF SaveResearchRun
  <2>2. \A f \in GateFields : d[f] = draft[w][f]
    BY <1>2, <2>1 DEF DraftFits, DraftFields, GateFields
  <2>3. SizedBy(draft[w], clock)
    BY <2>1 DEF OwnInv, DraftsSized
  <2> HIDE DEF d
  <2>4. SizedBy(d, clock)
    BY <2>2, <2>3, SizedSame
  <2> QED BY <2>1, <2>4, DraftSized
<1>5. ASSUME LinkRun(w) PROVE DraftsSized(draft', clock)
  <2>1. draft[w].at = "link" /\ Begin(w, [draft[w] EXCEPT !.at = "evaluate"])
    BY <1>5 DEF LinkRun
  <2>2. [draft[w] EXCEPT !.at = "evaluate"].at = "evaluate"
    BY <1>2, <2>1 DEF DraftFits, DraftFields
  <2> QED BY <2>1, <2>2, DraftSized
<1>6. ASSUME DrafterStops(w) PROVE DraftsSized(draft', clock)
  BY <1>6, DraftSized DEF DrafterStops, NoDraft
<1>7. DraftsSized(draft', clock)
  BY BaselineOwn, RecoveryOwn, <1>3, <1>4, <1>5, <1>6
<1> QED BY <1>1, <1>7 DEF OwnInv

LEMMA ProposalOwn ==
    ASSUME OwnInv, RecordInv, NEW w \in Drafters, SaveProposal(w)
    PROVE  OwnInv'
<1> DEFINE p == ProposalOf(draft[w])
           d == [draft[w] EXCEPT !.at = "link", !.proposal = Len(proposals) + 1]
<1>1. /\ draft[w].at = "propose" /\ proposals' = Append(proposals, p) /\ Begin(w, d)
      /\ UNCHANGED <<clock, budget, holding, evaluations>>
  BY DEF SaveProposal, ProposalOf
<1>2. \A f \in GateFields : p[f] = draft[w][f]
  BY DEF ProposalOf, GateFields
<1> HIDE DEF p
<1>3. /\ \A i \in DOMAIN proposals' :
            (i \in DOMAIN proposals /\ proposals'[i] = proposals[i]) \/ proposals'[i] = p
      /\ \A i \in DOMAIN proposals : i \in DOMAIN proposals' /\ proposals'[i] = proposals[i]
  BY <1>1, RowsAppend DEF RecordInv, RowsStand
<1>4. SizedBy(p, clock)
  BY <1>1, <1>2, SizedSame DEF OwnInv, DraftsSized
<1>5. RowsSized(proposals', evaluations, clock)
  <2>1. \A j \in DOMAIN evaluations : evaluations[j].proposal \in DOMAIN proposals
    BY DEF RecordInv, RowsStand
  <2> QED BY <1>3, <1>4, <2>1 DEF OwnInv, RowsSized
<1>6. DraftFits(draft[w], DOMAIN proposals, evaluations)
  BY DEF RecordInv, DraftsFit
<1>7. d.at = "link"
  BY <1>1, <1>6 DEF DraftFits, DraftFields
<1> HIDE DEF d
<1>8. DraftsSized(draft', clock)
  BY <1>1, <1>7, DraftSized
<1> QED BY <1>1, <1>5, <1>8 DEF OwnInv

LEMMA EvaluationOwn ==
    ASSUME OwnInv, RecordInv, NEW w \in Drafters, SaveEvaluation(w)
    PROVE  OwnInv'
<1> DEFINE p == proposals[draft[w].proposal]
           decision == Decision(GateRequest(p), clock)
           e == [proposal |-> draft[w].proposal, decision |-> decision, at |-> clock]
           d == [draft[w] EXCEPT !.at = "status", !.decision = decision]
<1>1. /\ draft[w].at = "evaluate" /\ evaluations' = Append(evaluations, e) /\ Begin(w, d)
      /\ UNCHANGED <<clock, budget, holding, proposals>>
  BY DEF SaveEvaluation
<1>2. DraftFits(draft[w], DOMAIN proposals, evaluations)
  BY DEF RecordInv, DraftsFit
<1>3. SizedBy(p, clock) /\ clock \in Int
  BY <1>1, <1>2 DEF DraftFits, OwnInv, RowsSized
<1>4. decision = "DENY" => Excused(p, clock)
  <2>1. ASSUME decision = "DENY" PROVE Excused(p, clock)
    <3>1. Sized(p) /\ p.generated <= clock
      BY <1>3 DEF SizedBy
    <3> HIDE DEF p
    <3> QED BY <1>3, <2>1, <3>1, GateAgrees DEF Excused
  <2> QED BY <2>1
<1> HIDE DEF decision
<1>5. e.decision = decision /\ e.proposal = draft[w].proposal /\ e.at = clock
  OBVIOUS
<1>6. d.at = "status"
  BY <1>1, <1>2 DEF DraftFits, DraftFields, AskedFields
<1> HIDE DEF e, d
<1>7. \A j \in DOMAIN evaluations' :
          (j \in DOMAIN evaluations /\ evaluations'[j] = evaluations[j]) \/ evaluations'[j] = e
  BY <1>1, RowsAppend DEF RecordInv, RowsStand
<1>8. RowsSized(proposals, evaluations', clock)
  BY <1>4, <1>5, <1>7 DEF OwnInv, RowsSized
<1>9. DraftsSized(draft', clock)
  BY <1>1, <1>6, DraftSized
<1> QED BY <1>1, <1>8, <1>9 DEF OwnInv

LEMMA StatusOwn ==
    ASSUME OwnInv, RecordInv, NEW w \in Drafters, SaveStatus(w)
    PROVE  OwnInv'
<1>1. Begin(w, NoDraft) /\ UNCHANGED <<clock, budget, holding, evaluations>>
  BY DEF SaveStatus
<1>2. /\ DOMAIN proposals' = DOMAIN proposals
      /\ \A i \in DOMAIN proposals : \A f \in GateFields : proposals'[i][f] = proposals[i][f]
  <2>1. GateFields \subseteq ProposalFields \ {"status"}
    BY DEF GateFields, ProposalFields
  <2> QED BY <2>1, StatusSaves
<1>3. RowsSized(proposals', evaluations, clock)
  <2>1. \A j \in DOMAIN evaluations : evaluations[j].proposal \in DOMAIN proposals
    BY DEF RecordInv, RowsStand
  <2>2. ASSUME NEW i \in DOMAIN proposals
        PROVE  /\ SizedBy(proposals'[i], clock)
               /\ \A at : Excused(proposals[i], at) => Excused(proposals'[i], at)
    BY <1>2, SizedSame DEF OwnInv, RowsSized
  <2> QED BY <1>2, <2>1, <2>2 DEF OwnInv, RowsSized
<1>4. DraftsSized(draft', clock)
  BY <1>1, DraftSized DEF NoDraft
<1> QED BY <1>1, <1>3, <1>4 DEF OwnInv

LEMMA OwnStep ==
    ASSUME SoundBudgets
    PROVE  OwnInv /\ RecordInv /\ [ProposalsNext]_proposalVars => OwnInv'
<1>1. ASSUME OwnInv, UNCHANGED proposalVars PROVE OwnInv'
  BY <1>1 DEF OwnInv, proposalVars
<1>2. ASSUME OwnInv, CreateEnvelope PROVE OwnInv'
  <2>1. budget' \in Envelopes
    BY <1>2 DEF CreateEnvelope, Envelopes, Enveloped
  <2> QED BY <1>2, <2>1 DEF CreateEnvelope, OwnInv, proposalRows
<1>3. ASSUME OwnInv, HoldingMoves PROVE OwnInv'
  BY <1>3 DEF HoldingMoves, OwnInv, proposalRows
<1> QED BY <1>1, <1>2, <1>3, HourKeepsOwn, DraftsOwn, ProposalOwn, EvaluationOwn, StatusOwn
        DEF ProposalsNext

LEMMA OwnStarts == ProposalsInit => OwnInv
BY DEF ProposalsInit, OwnInv, RowsSized, DraftsSized, NoDraft

\* Of a budget the generators can size for, the gate never denies a proposal of theirs for an
\* order (createBaselineProposalFromRun, runRecoveryProposal and RiskGateService.evaluate).
THEOREM OwnOrders ==
    ASSUME SoundBudgets
    PROVE  ProposalsSpec => []OwnOrdersPass
<1>1. OwnInv => OwnOrdersPass
  BY DEF OwnInv, RowsSized, Excused, OwnOrdersPass
<1>2. OwnInv /\ RecordInv /\ [ProposalsNext]_proposalVars => OwnInv'
  BY OwnStep
<1> QED BY <1>1, <1>2, OwnStarts, RecordInvariance, PTL DEF ProposalsSpec

-----------------------------------------------------------------------------
(* Proposals: one recovery per state of the account. *)

OneDrafter == \A v, w \in Drafters : v = w

\* What a recovery is drafted for has no proposal yet.
RecoveryApart ==
    /\ OneRecoveryPerState
    /\ \A w \in Drafters :
          draft[w].at \in {"research", "propose"} /\ draft[w].rule = "recovery" =>
              \A i \in DOMAIN proposals :
                  proposals[i].rule = "recovery" => proposals[i].basis # draft[w].basis

LEMMA ApartBegins ==
    ASSUME OneDrafter, RecoveryApart, RecordInv, NEW w \in Drafters, NEW d, Begin(w, d),
           UNCHANGED proposals,
           d.at \in {"research", "propose"} /\ d.rule = "recovery" =>
              \A i \in DOMAIN proposals : proposals[i].rule = "recovery" => proposals[i].basis # d.basis
    PROVE  RecoveryApart'
<1>1. \A x \in Drafters : draft'[x] = IF x = w THEN d ELSE draft[x]
  BY DEF Begin, RecordInv, DraftsFit
<1> QED BY <1>1 DEF RecoveryApart, OneRecoveryPerState

LEMMA ApartRecovery ==
    ASSUME OneDrafter, RecoveryApart, RecordInv, NEW w \in Drafters, DraftRecovery(w)
    PROVE  RecoveryApart'
<1> DEFINE new(n, ranking) ==
             [at |-> "research", rule |-> "recovery", budget |-> budget,
              portfolio |-> AccountPortfolio(holding),
              orders |-> RecoveryOrders(budget, holding, ranking),
              market |-> clock, generated |-> clock, actor |-> "scheduler",
              basis |-> [holding |-> holding, budget |-> budget, asked |-> n],
              research |-> 0, proposal |-> 0, decision |-> "none"]
<1>1. PICK n \in {1, 10} : \E ranking \in Rankings(holding, n) :
        IF Reusable(n) = {} THEN Begin(w, new(n, ranking))
        ELSE \E i \in Reusable(n) :
                /\ \A j \in DOMAIN evaluations : evaluations[j].proposal # i
                /\ Begin(w, [new(n, ranking) EXCEPT !.at = "evaluate", !.proposal = i])
  BY Zenon DEF DraftRecovery
<1>2. PICK ranking \in Rankings(holding, n) :
        IF Reusable(n) = {} THEN Begin(w, new(n, ranking))
        ELSE \E i \in Reusable(n) :
                /\ \A j \in DOMAIN evaluations : evaluations[j].proposal # i
                /\ Begin(w, [new(n, ranking) EXCEPT !.at = "evaluate", !.proposal = i])
  BY <1>1, Zenon
<1> DEFINE d == new(n, ranking)
<1>3. UNCHANGED proposals
  BY DEF DraftRecovery, proposalRows
<1>4. CASE Reusable(n) = {}
  <2>1. Begin(w, d) /\ d.basis = [holding |-> holding, budget |-> budget, asked |-> n]
    BY <1>2, <1>4
  <2> HIDE DEF d
  <2>2. \A i \in DOMAIN proposals : proposals[i].rule = "recovery" => proposals[i].basis # d.basis
    BY <1>4, <2>1 DEF Reusable, SameState
  <2> QED BY <1>3, <2>1, <2>2, ApartBegins
<1>5. CASE Reusable(n) # {}
  <2>1. PICK i \in Reusable(n) : Begin(w, [d EXCEPT !.at = "evaluate", !.proposal = i])
    BY <1>2, <1>5
  <2>2. [d EXCEPT !.at = "evaluate", !.proposal = i].at = "evaluate"
    OBVIOUS
  <2> HIDE DEF d
  <2> QED BY <1>3, <2>1, <2>2, ApartBegins
<1> QED BY <1>4, <1>5

LEMMA ApartDrafts ==
    ASSUME OneDrafter, RecoveryApart, RecordInv, NEW w \in Drafters,
           \/ DraftBaseline(w) \/ EvaluateAgain(w) \/ SaveResearchRun(w) \/ LinkRun(w)
           \/ SaveEvaluation(w) \/ DrafterStops(w)
    PROVE  RecoveryApart'
<1>1. UNCHANGED proposals
  BY DEF DraftBaseline, EvaluateAgain, SaveResearchRun, LinkRun, DrafterStops, SaveEvaluation,
         proposalRows
<1>2. DraftFits(draft[w], DOMAIN proposals, evaluations)
  BY DEF RecordInv, DraftsFit
<1>3. CASE DraftBaseline(w)
  <2>1. \E market : Begin(w, [at |-> "research", rule |-> "budget-capped", budget |-> budget,
                  portfolio |-> SeedPortfolio(budget), orders |-> BaselineOrders(budget),
                  market |-> market, generated |-> clock, actor |-> "scheduler",
                  basis |-> [holding |-> "none"], research |-> 0, proposal |-> 0,
                  decision |-> "none"])
    BY <1>3, Zenon DEF DraftBaseline
  <2> QED BY <1>1, <2>1, ApartBegins
<1>4. CASE EvaluateAgain(w)
  <2>1. \E i : Begin(w, [at |-> "evaluate", proposal |-> i, decision |-> "none", generated |-> clock])
    BY <1>4 DEF EvaluateAgain
  <2> QED BY <1>1, <2>1, ApartBegins
<1>5. CASE SaveResearchRun(w)
  <2> DEFINE d == [draft[w] EXCEPT !.at = "propose", !.research = Len(researchRuns) + 1]
  <2>1. draft[w].at = "research" /\ Begin(w, d)
    BY <1>5 DEF SaveResearchRun
  <2>2. d.rule = draft[w].rule /\ d.basis = draft[w].basis
    BY <1>2, <2>1 DEF DraftFits, DraftFields
  <2> HIDE DEF d
  <2> QED BY <1>1, <2>1, <2>2, ApartBegins DEF RecoveryApart
<1>6. CASE LinkRun(w)
  <2>1. draft[w].at = "link" /\ Begin(w, [draft[w] EXCEPT !.at = "evaluate"])
    BY <1>6 DEF LinkRun
  <2>2. [draft[w] EXCEPT !.at = "evaluate"].at = "evaluate"
    BY <1>2, <2>1 DEF DraftFits, DraftFields
  <2> QED BY <1>1, <2>1, <2>2, ApartBegins
<1>7. CASE SaveEvaluation(w)
  <2> DEFINE decision == Decision(GateRequest(proposals[draft[w].proposal]), clock)
             d == [draft[w] EXCEPT !.at = "status", !.decision = decision]
  <2>1. draft[w].at = "evaluate" /\ Begin(w, d)
    BY <1>7 DEF SaveEvaluation
  <2> HIDE DEF decision
  <2>2. d.at = "status"
    BY <1>2, <2>1 DEF DraftFits, DraftFields, AskedFields
  <2> HIDE DEF d
  <2> QED BY <1>1, <2>1, <2>2, ApartBegins
<1>8. CASE DrafterStops(w)
  BY <1>1, <1>8, ApartBegins DEF DrafterStops, NoDraft
<1> QED BY <1>3, <1>4, <1>5, <1>6, <1>7, <1>8

LEMMA ApartProposal ==
    ASSUME OneDrafter, RecoveryApart, RecordInv, NEW w \in Drafters, SaveProposal(w)
    PROVE  RecoveryApart'
<1> DEFINE p == ProposalOf(draft[w])
           d == [draft[w] EXCEPT !.at = "link", !.proposal = Len(proposals) + 1]
           k == Len(proposals) + 1
<1>1. /\ draft[w].at = "propose" /\ proposals' = Append(proposals, p) /\ Begin(w, d)
  BY DEF SaveProposal, ProposalOf
<1>2. p.rule = draft[w].rule /\ p.basis = draft[w].basis
  BY DEF ProposalOf
<1>3. DraftFits(draft[w], DOMAIN proposals, evaluations)
  BY DEF RecordInv, DraftsFit
<1>4. d.at = "link"
  BY <1>1, <1>3 DEF DraftFits, DraftFields
<1> HIDE DEF p, d
<1>5. /\ DOMAIN proposals' = DOMAIN proposals \cup {k} /\ proposals'[k] = p
      /\ \A i \in DOMAIN proposals : proposals'[i] = proposals[i]
  <2>1. /\ \A i \in DOMAIN proposals : i \in DOMAIN proposals' /\ proposals'[i] = proposals[i]
        /\ k \in DOMAIN proposals' /\ proposals'[k] = p
    BY <1>1, RowsAppend DEF RecordInv, RowsStand
  <2>2. proposals \in Seq({proposals[i] : i \in DOMAIN proposals})
    BY DEF RecordInv, RowsStand, IsRows
  <2>3. DOMAIN proposals' = 1..k /\ DOMAIN proposals = 1..Len(proposals) /\ Len(proposals) \in Nat
    <3> DEFINE S == {proposals[i] : i \in DOMAIN proposals}
    <3>1. proposals \in Seq(S \cup {p}) /\ p \in S \cup {p}
      BY <2>2
    <3> HIDE DEF S
    <3> QED BY <1>1, <3>1, AppendFacts
  <2>4. \A n \in Nat : 1..(n + 1) = (1..n) \cup {n + 1}
    OBVIOUS
  <2> QED BY <2>1, <2>3, <2>4
<1>6. OneRecoveryPerState'
  <2> SUFFICES ASSUME NEW i \in DOMAIN proposals', NEW j \in DOMAIN proposals',
                      proposals'[i].rule = "recovery", proposals'[j].rule = "recovery",
                      proposals'[i].basis = proposals'[j].basis
               PROVE  i = j
    BY DEF OneRecoveryPerState
  <2> QED BY <1>1, <1>2, <1>5 DEF RecoveryApart, OneRecoveryPerState
<1>7. \A x \in Drafters : draft'[x].at = "link"
  BY <1>1, <1>4 DEF OneDrafter, Begin, RecordInv, DraftsFit
<1> QED BY <1>6, <1>7 DEF RecoveryApart

LEMMA ApartStatus ==
    ASSUME OneDrafter, RecoveryApart, RecordInv, NEW w \in Drafters, SaveStatus(w)
    PROVE  RecoveryApart'
<1>1. /\ DOMAIN proposals' = DOMAIN proposals
      /\ \A i \in DOMAIN proposals :
            proposals'[i].rule = proposals[i].rule /\ proposals'[i].basis = proposals[i].basis
  BY StatusSaves DEF ProposalFields
<1>2. \A x \in Drafters : draft'[x] = NoDraft
  BY DEF OneDrafter, SaveStatus, Begin, RecordInv, DraftsFit
<1> QED BY <1>1, <1>2 DEF RecoveryApart, OneRecoveryPerState, NoDraft

\* With one worker, the rows of a proposal agree: a status rests on an evaluation on record,
\* and one state of the account has one recovery proposal (evaluateProposal's saves,
\* findExistingRecoveryProposal).
THEOREM RowsAgree ==
    ASSUME OneDrafter
    PROVE  ProposalsSpec => []ProposalsOnRecord
<1>1. ProposalsInit => RecoveryApart
  BY DEF ProposalsInit, RecoveryApart, OneRecoveryPerState, NoDraft
<1>2. RecoveryApart /\ RecordInv /\ [ProposalsNext]_proposalVars => RecoveryApart'
  <2>1. ASSUME RecoveryApart, UNCHANGED <<draft, proposals>> PROVE RecoveryApart'
    BY <2>1 DEF RecoveryApart, OneRecoveryPerState
  <2>2. UNCHANGED proposalVars \/ HourPasses \/ CreateEnvelope \/ HoldingMoves
            => UNCHANGED <<draft, proposals>>
    BY DEF proposalVars, proposalRows, HourPasses, CreateEnvelope, HoldingMoves
  <2> QED BY <2>1, <2>2, ApartRecovery, ApartDrafts, ApartProposal, ApartStatus DEF ProposalsNext
<1>3. RecoveryApart /\ RecordInv => ProposalsOnRecord
  <2>1. RecordInv => StatusOnRecord
    BY DEF RecordInv, RowsStand, OnRecord, StatusOnRecord
  <2> QED BY <2>1 DEF RecoveryApart, ProposalsOnRecord
<1> QED BY <1>1, <1>2, <1>3, RecordInvariance, PTL DEF ProposalsSpec

=============================================================================
