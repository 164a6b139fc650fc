------------------------- MODULE RunScheduleProofs -------------------------
(***************************************************************************)
(* What TLAPS proves of RunSchedule, for every number of processes, cycles, *)
(* proposals and crashes.                                                  *)
(***************************************************************************)
EXTENDS RunSchedule, SequenceTheorems, FiniteSetTheorems, TLAPS

-----------------------------------------------------------------------------
(* Types *)

LEMMA NullTypes == NoRun \in Run /\ NoLease \in Lease /\ NoLocal \in Local
<1>1. NoRun \in Run
  BY DEF NoRun, Run, RunStatuses, SettledStatuses
<1>2. NoLease \in Lease
  BY DEF NoLease, Lease
<1>3. NoLocal \in Local
  BY <1>1, ScheduleAssumption DEF NoLocal, Local, Cycles
<1> QED BY <1>1, <1>2, <1>3

LEMMA GotoType ==
    ASSUME TypeOK, NEW p \in Workers, NEW step \in Steps, NEW l \in Local,
           Goto(p, step, l)
    PROVE  pc' \in [Workers -> Steps] /\ loc' \in [Workers -> Local]
BY DEF TypeOK, Goto

LEMMA ReturnType ==
    ASSUME TypeOK, NEW p \in Workers, Return(p)
    PROVE  pc' \in [Workers -> Steps] /\ loc' \in [Workers -> Local]
BY GotoType, NullTypes DEF Return, Steps

LEMMA ThrowType ==
    ASSUME TypeOK, NEW p \in Workers, Throw(p)
    PROVE  pc' \in [Workers -> Steps] /\ loc' \in [Workers -> Local]
BY GotoType, ReturnType DEF Throw, Steps, HeldSteps, TypeOK

LEMMA RunUpdateType ==
    ASSUME NEW l \in Local, NEW status \in RunStatuses, NEW id \in Nat, NEW b \in BOOLEAN
    PROVE  /\ [l EXCEPT !.run.status = status] \in Local
           /\ [l EXCEPT !.run.status = status, !.run.proposal = id] \in Local
           /\ [l EXCEPT !.run.status = status, !.reducing = b] \in Local
           /\ [l EXCEPT !.basis = id] \in Local
<1>1. l.run \in Run
  BY DEF Local
<1>2. [l.run EXCEPT !.status = status] \in Run /\ [l.run EXCEPT !.status = status, !.proposal = id] \in Run
  BY <1>1 DEF Run
<1> QED BY <1>2 DEF Local

LEMMA SettleType ==
    ASSUME TypeOK, NEW p \in Workers, NEW status \in RunStatuses, Settle(p, status)
    PROVE  pc' \in [Workers -> Steps] /\ loc' \in [Workers -> Local]
<1>1. [loc[p] EXCEPT !.run.status = status] \in Local
  BY RunUpdateType, Zenon DEF TypeOK
<1> QED BY <1>1, GotoType DEF Settle, Steps, HeldSteps

LEMMA SaveRunType ==
    ASSUME TypeOK, NEW p \in Workers, NEW from, NEW to \in Steps, NEW l \in Local,
           SaveRun(p, from, to, l)
    PROVE  TypeOK'
<1>1. runs' \in [Cycles -> Run]
  BY DEF SaveRun, TypeOK, Local
<1>2. pc' \in [Workers -> Steps] /\ loc' \in [Workers -> Local]
  BY GotoType DEF SaveRun
<1> QED BY <1>1, <1>2 DEF SaveRun, TypeOK

LEMMA ProposeType ==
    ASSUME TypeOK, NEW p \in Workers, NEW side \in {"BUY", "SELL"}, NEW basis \in Nat,
           Propose(p, side, basis)
    PROVE  /\ proposals' \in Seq(Proposal)
           /\ pc' \in [Workers -> Steps] /\ loc' \in [Workers -> Local]
<1>1. [cycle |-> loc[p].cycle, side |-> side, basis |-> basis] \in Proposal
  BY DEF TypeOK, Local, Proposal
<1>2. proposals' \in Seq(Proposal)
  BY <1>1, AppendProperties DEF TypeOK, Propose
<1>3. Len(proposals) + 1 \in Nat
  BY LenProperties DEF TypeOK
<1>4. [loc[p] EXCEPT !.run.status = "proposed", !.run.proposal = Len(proposals) + 1] \in Local
  BY <1>3, RunUpdateType DEF TypeOK, RunStatuses
<1> QED BY <1>2, <1>4, GotoType DEF Propose, Steps, HeldSteps

LEMMA ReleasedType ==
    ASSUME TypeOK, NEW p \in Workers, NEW next \in 0 .. MaxCycle + 1, Released(p, next)
    PROVE  lease' \in Lease /\ nextRun' \in 0 .. MaxCycle + 1
BY NullTypes DEF TypeOK, Released

LEMMA TypeInit == Init => TypeOK
<1> SUFFICES ASSUME Init PROVE TypeOK
  OBVIOUS
<1>1. <<>> \in Seq(Proposal) /\ <<>> \in Seq(Nat)
  BY EmptySeq
<1> QED BY <1>1, NullTypes, ScheduleAssumption
        DEF Init, TypeOK, ControlStates, Cycles, Steps

LEMMA EnvironmentType ==
    ASSUME TypeOK,
           \/ \E state \in Requested : UpdateControl(state)
           \/ PassTime
           \/ LeaseExpires
           \/ \E p \in Workers : Crash(p)
    PROVE  TypeOK'
<1>1. ASSUME NEW state \in Requested, UpdateControl(state) PROVE TypeOK'
  BY <1>1, ScheduleAssumption DEF UpdateControl, TypeOK, ControlStates, rows
<1>2. ASSUME PassTime PROVE TypeOK'
  BY <1>2, ScheduleAssumption DEF PassTime, TypeOK, Cycles, rows
<1>3. ASSUME LeaseExpires PROVE TypeOK'
  BY <1>3 DEF LeaseExpires, TypeOK, Lease
<1>4. ASSUME NEW p \in Workers, Crash(p) PROVE TypeOK'
  BY <1>4, ReturnType DEF Crash, TypeOK, rows
<1> QED BY <1>1, <1>2, <1>3, <1>4

LEMMA StartType ==
    ASSUME TypeOK, NEW p \in Workers, Start(p)
    PROVE  TypeOK'
<1>1. ASSUME NEW force \in BOOLEAN, TickRead(p, force) PROVE TypeOK'
  <2>1. [NoLocal EXCEPT !.cycle = nextRun, !.tick = TRUE, !.force = force] \in Local
    BY <1>1, NullTypes DEF TickRead, Local
  <2>2. pc' \in [Workers -> Steps] /\ loc' \in [Workers -> Local]
    BY <1>1, <2>1, GotoType DEF TickRead, Steps
  <2> QED BY <1>1, <2>2 DEF TickRead, TypeOK, rows
<1>2. ASSUME NEW c \in Cycles, AdvanceRequest(p, c) PROVE TypeOK'
  <2>1. [NoLocal EXCEPT !.cycle = c] \in Local
    BY NullTypes DEF Local
  <2>2. pc' \in [Workers -> Steps] /\ loc' \in [Workers -> Local]
    BY <1>2, <2>1, GotoType DEF AdvanceRequest, Steps, HeldSteps
  <2> QED BY <1>2, <2>2 DEF AdvanceRequest, TypeOK, rows
<1> QED BY <1>1, <1>2 DEF Start

LEMMA TickType ==
    ASSUME TypeOK, NEW p \in Workers,
           \/ TickControl(p) \/ TickLease(p) \/ TickLeased(p)
           \/ TickFindRun(p) \/ TickCreateRun(p)
           \/ TickRelease(p) \/ TickReleaseError(p)
    PROVE  TypeOK'
<1>0. loc[p] \in Local /\ loc[p].cycle \in Cycles
  BY DEF TypeOK, Local
<1>1. CASE TickControl(p)
  <2>1. pc' \in [Workers -> Steps] /\ loc' \in [Workers -> Local]
    BY <1>0, <1>1, GotoType, ReturnType DEF TickControl, Steps
  <2> QED BY <1>1, <2>1 DEF TickControl, TypeOK, rows
<1>2. CASE TickLease(p)
  <2>1. pc' \in [Workers -> Steps] /\ loc' \in [Workers -> Local]
    BY <1>0, <1>2, GotoType DEF TickLease, Steps, HeldSteps
  <2>2. lease' \in Lease
    BY <1>2 DEF TickLease, Lease
  <2> QED BY <1>2, <2>1, <2>2 DEF TickLease, TypeOK
<1>3. CASE TickLeased(p)
  BY <1>3, ReturnType DEF TickLeased, TypeOK, rows
<1>4. CASE TickFindRun(p)
  <2>1. pc' \in [Workers -> Steps] /\ loc' \in [Workers -> Local]
    BY <1>0, <1>4, GotoType DEF TickFindRun, Steps, HeldSteps
  <2> QED BY <1>4, <2>1 DEF TickFindRun, TypeOK, rows
<1>5. CASE TickCreateRun(p)
  <2>1. pc' \in [Workers -> Steps] /\ loc' \in [Workers -> Local]
    BY <1>0, <1>5, GotoType, ThrowType DEF TickCreateRun, Steps, HeldSteps
  <2>2. runs' \in [Cycles -> Run]
    <3>1. "idle" \in RunStatuses
      BY DEF RunStatuses
    <3> QED BY <1>0, <1>5, <3>1 DEF TickCreateRun, TypeOK, Run
  <2> QED BY <1>5, <2>1, <2>2 DEF TickCreateRun, TypeOK
<1>6. CASE TickRelease(p)
  <2>1. loc[p].cycle + 1 \in 0 .. MaxCycle + 1
    BY <1>0, ScheduleAssumption DEF Cycles
  <2>2. lease' \in Lease /\ nextRun' \in 0 .. MaxCycle + 1
    BY <1>6, <2>1, ReleasedType DEF TickRelease
  <2> QED BY <1>6, <2>2, ReturnType DEF TickRelease, TypeOK
<1>7. CASE TickReleaseError(p)
  <2>1. NextAfterError(p) \in 0 .. MaxCycle + 1
    BY DEF NextAfterError, TypeOK
  <2>2. lease' \in Lease /\ nextRun' \in 0 .. MaxCycle + 1
    BY <1>7, <2>1, ReleasedType DEF TickReleaseError
  <2> QED BY <1>7, <2>2, ReturnType DEF TickReleaseError, TypeOK
<1> QED BY <1>1, <1>2, <1>3, <1>4, <1>5, <1>6, <1>7

LEMMA AdvanceType ==
    ASSUME TypeOK, NEW p \in Workers,
           \/ AdvanceReadRun(p) \/ AdvanceReadControl(p)
           \/ SaveResearching(p) \/ SaveRecovering(p) \/ SaveProposed(p) \/ SaveSettled(p)
           \/ Research(p) \/ ProposeBaseline(p) \/ ProposeFails(p)
    PROVE  TypeOK'
<1>0. loc[p] \in Local /\ loc[p].cycle \in Cycles
  BY DEF TypeOK, Local
<1>1. CASE AdvanceReadRun(p)
  <2>1. [loc[p] EXCEPT !.run = runs[loc[p].cycle]] \in Local
    BY <1>0 DEF TypeOK, Local
  <2>2. pc' \in [Workers -> Steps] /\ loc' \in [Workers -> Local]
    BY <1>1, <2>1, GotoType DEF AdvanceReadRun, Steps, HeldSteps
  <2> QED BY <1>1, <2>2 DEF AdvanceReadRun, TypeOK, rows
<1>2. CASE AdvanceReadControl(p)
  <2>1. pc' \in [Workers -> Steps] /\ loc' \in [Workers -> Local]
    <3>1. CASE Stopped(control)
      <4>1. control \in RunStatuses
        BY <3>1 DEF Stopped, RunStatuses, SettledStatuses
      <4>2. [loc[p] EXCEPT !.run.status = control, !.reducing = FALSE] \in Local
        BY <1>0, <4>1, RunUpdateType
      <4>3. Goto(p, "save_settled", [loc[p] EXCEPT !.run.status = control, !.reducing = FALSE])
        BY <1>2, <3>1 DEF AdvanceReadControl, Stopped
      <4> QED BY <4>2, <4>3, GotoType DEF Steps, HeldSteps
    <3>2. CASE ~Stopped(control) /\ control = "reducing"
      <4>2. [loc[p] EXCEPT !.run.status = "researching", !.reducing = TRUE] \in Local
        BY <1>0, RunUpdateType DEF RunStatuses
      <4>3. Goto(p, "save_recovering",
                 [loc[p] EXCEPT !.run.status = "researching", !.reducing = TRUE])
        BY <1>2, <3>2 DEF AdvanceReadControl
      <4> QED BY <4>2, <4>3, GotoType DEF Steps, HeldSteps
    <3>3. CASE ~Stopped(control) /\ control # "reducing"
      <4>2. [loc[p] EXCEPT !.run.status = "researching", !.reducing = FALSE] \in Local
        BY <1>0, RunUpdateType DEF RunStatuses
      <4>3. Goto(p, "save_researching",
                 [loc[p] EXCEPT !.run.status = "researching", !.reducing = FALSE])
        BY <1>2, <3>3 DEF AdvanceReadControl
      <4> QED BY <4>2, <4>3, GotoType DEF Steps, HeldSteps
    <3> QED BY <3>1, <3>2, <3>3
  <2> QED BY <1>2, <2>1 DEF AdvanceReadControl, TypeOK, rows
<1>3. CASE SaveResearching(p)
  BY <1>0, <1>3, SaveRunType DEF SaveResearching, Steps, HeldSteps
<1>4. CASE SaveRecovering(p)
  BY <1>0, <1>4, SaveRunType DEF SaveRecovering, Steps, HeldSteps
<1>5. CASE SaveProposed(p)
  BY <1>0, <1>5, SaveRunType DEF SaveProposed, Steps, HeldSteps
<1>6. CASE SaveSettled(p)
  BY <1>0, <1>6, SaveRunType, NullTypes DEF SaveSettled, Steps, HeldSteps
<1>7. CASE Research(p)
  <2>1. pc' \in [Workers -> Steps] /\ loc' \in [Workers -> Local]
    BY <1>0, <1>7, GotoType, SettleType
       DEF Research, Steps, HeldSteps, RunStatuses, SettledStatuses
  <2> QED BY <1>7, <2>1 DEF Research, TypeOK, rows
<1>8. CASE ProposeBaseline(p)
  <2>1. /\ proposals' \in Seq(Proposal)
        /\ pc' \in [Workers -> Steps] /\ loc' \in [Workers -> Local]
    <3>1. CASE NeedsProposal(loc[p].run)
      BY <1>8, <3>1, ProposeType DEF ProposeBaseline
    <3>2. CASE ~NeedsProposal(loc[p].run)
      <4>1. [loc[p] EXCEPT !.run.status = "proposed"] \in Local
        BY <1>0, RunUpdateType DEF RunStatuses
      <4> QED BY <1>8, <3>2, <4>1, GotoType
              DEF ProposeBaseline, TypeOK, Steps, HeldSteps
    <3> QED BY <3>1, <3>2
  <2> QED BY <1>8, <2>1 DEF ProposeBaseline, TypeOK
<1>9. CASE ProposeFails(p)
  <2>1. pc' \in [Workers -> Steps] /\ loc' \in [Workers -> Local]
    BY <1>9, SettleType DEF ProposeFails, RunStatuses, SettledStatuses
  <2> QED BY <1>9, <2>1 DEF ProposeFails, TypeOK, rows
<1> QED BY <1>1, <1>2, <1>3, <1>4, <1>5, <1>6, <1>7, <1>8, <1>9

LEMMA RecoverType ==
    ASSUME TypeOK, NEW p \in Workers,
           RecoverRead(p) \/ RecoverAgain(p) \/ RecoverPropose(p) \/ RecoverThrows(p)
    PROVE  TypeOK'
<1>0. loc[p] \in Local /\ loc[p].basis \in Nat
  BY DEF TypeOK, Local
<1>1. CASE RecoverRead(p)
  <2>1. Len(fills) \in Nat
    BY LenProperties DEF TypeOK
  <2>2. [loc[p] EXCEPT !.basis = Len(fills)] \in Local
    BY <1>0, <2>1 DEF Local
  <2>3. pc' \in [Workers -> Steps] /\ loc' \in [Workers -> Local]
    BY <1>1, <2>2, GotoType DEF RecoverRead, Steps, HeldSteps
  <2> QED BY <1>1, <2>3 DEF RecoverRead, TypeOK, rows
<1>2. CASE RecoverAgain(p)
  <2>1. PICK id \in DOMAIN proposals :
            Goto(p, "save_proposed", [loc[p] EXCEPT !.run.status = "proposed",
                                                    !.run.proposal = id])
    BY <1>2 DEF RecoverAgain
  <2>2. id \in Nat
    BY <2>1, LenProperties DEF TypeOK
  <2>3. [loc[p] EXCEPT !.run.status = "proposed", !.run.proposal = id] \in Local
    BY <1>0, <2>2, RunUpdateType DEF RunStatuses
  <2>4. pc' \in [Workers -> Steps] /\ loc' \in [Workers -> Local]
    BY <2>1, <2>3, GotoType DEF Steps, HeldSteps
  <2> QED BY <1>2, <2>4 DEF RecoverAgain, TypeOK, rows
<1>3. CASE RecoverPropose(p)
  <2>1. /\ proposals' \in Seq(Proposal)
        /\ pc' \in [Workers -> Steps] /\ loc' \in [Workers -> Local]
    BY <1>0, <1>3, ProposeType DEF RecoverPropose
  <2> QED BY <1>3, <2>1 DEF RecoverPropose, TypeOK
<1>4. CASE RecoverThrows(p)
  BY <1>4, ThrowType DEF RecoverThrows, TypeOK, rows
<1> QED BY <1>1, <1>2, <1>3, <1>4

LEMMA PaperType ==
    ASSUME TypeOK, NEW p \in Workers,
           PaperFind(p) \/ PaperFill(p) \/ PaperKeeps(p) \/ PaperFails(p)
    PROVE  TypeOK'
<1>0. loc[p] \in Local /\ loc[p].run.proposal \in Nat
  BY DEF TypeOK, Local, Run
<1>a. {"paper_ready", "risk_checked", "failed"} \subseteq RunStatuses
  BY DEF RunStatuses, SettledStatuses
<1>1. CASE PaperFind(p)
  <2>1. pc' \in [Workers -> Steps] /\ loc' \in [Workers -> Local]
    BY <1>0, <1>a, <1>1, GotoType, SettleType DEF PaperFind, Unapproved, Steps, HeldSteps
  <2> QED BY <1>1, <2>1 DEF PaperFind, Unapproved, TypeOK, rows
<1>2. CASE PaperFill(p)
  <2>1. pc' \in [Workers -> Steps] /\ loc' \in [Workers -> Local]
    BY <1>a, <1>2, SettleType DEF PaperFill, PaperStatus
  <2>2. fills' \in Seq(Nat)
    BY <1>0, <1>2, AppendProperties DEF PaperFill, TypeOK
  <2> QED BY <1>2, <2>1, <2>2 DEF PaperFill, TypeOK
<1>3. CASE PaperKeeps(p)
  <2>1. pc' \in [Workers -> Steps] /\ loc' \in [Workers -> Local]
    BY <1>a, <1>3, SettleType DEF PaperKeeps, PaperStatus
  <2> QED BY <1>3, <2>1 DEF PaperKeeps, TypeOK, rows
<1>4. CASE PaperFails(p)
  <2>1. pc' \in [Workers -> Steps] /\ loc' \in [Workers -> Local]
    BY <1>a, <1>4, SettleType DEF PaperFails
  <2> QED BY <1>4, <2>1 DEF PaperFails, TypeOK, rows
<1> QED BY <1>1, <1>2, <1>3, <1>4

LEMMA TypeStep == TypeOK /\ [Next]_vars => TypeOK'
<1> SUFFICES ASSUME TypeOK, [Next]_vars PROVE TypeOK'
  OBVIOUS
<1>1. CASE UNCHANGED vars
  BY <1>1 DEF vars, rows, TypeOK
<1>2. CASE \/ \E state \in Requested : UpdateControl(state)
           \/ PassTime
           \/ LeaseExpires
           \/ \E p \in Workers : Crash(p)
  BY <1>2, EnvironmentType
<1>3. ASSUME NEW p \in Workers, Start(p) PROVE TypeOK'
  BY <1>3, StartType
<1>4. ASSUME NEW p \in Workers, Continue(p) PROVE TypeOK'
  BY <1>4, TickType, AdvanceType, RecoverType, PaperType DEF Continue
<1> QED BY <1>1, <1>2, <1>3, <1>4 DEF Next

\* Every row and every local of every handler keeps its type.
THEOREM TypeCorrect == Spec => []TypeOK
BY TypeInit, TypeStep, PTL DEF Spec

-----------------------------------------------------------------------------
(* The lease *)

(***************************************************************************)
(* What is true of every handler: while leases outlive their holders, the  *)
(* one at work owns a lease that has not run out; without forced ticks the *)
(* owner at work is on the schedule's own cycle (a holder whose lease was  *)
(* taken over may be on an earlier one).                                   *)
(***************************************************************************)
Unforced(p) == Forcers = {} => ~loc[p].force
OnItsCycle(p) == Forcers = {} /\ Holds(p) /\ lease.owner = p => loc[p].cycle = nextRun
OwnsLive(p) == Timely /\ Holds(p) => lease.owner = p /\ ~lease.expired
ReleasesTick(p) == pc[p] = "release" => loc[p].tick
LeaseInv == \A p \in Workers :
                Unforced(p) /\ OnItsCycle(p) /\ OwnsLive(p) /\ ReleasesTick(p)

\* A step of p's handler that stays out of the lease: nobody else moves, and p goes on
\* with the tick it is in or is not at work in a tick afterwards.
GoesOn(p) ==
    /\ \A q \in Workers \ {p} : pc'[q] = pc[q] /\ loc'[q] = loc[q]
    /\ loc'[p].force \in {loc[p].force, FALSE}
    /\ Holds(p)' => Holds(p) /\ loc'[p].cycle = loc[p].cycle
    /\ pc'[p] = "release" => loc'[p].tick

LEMMA GoesOnKeeps ==
    ASSUME LeaseInv, NEW p \in Workers, GoesOn(p), UNCHANGED <<lease, nextRun>>
    PROVE  LeaseInv'
<1> SUFFICES ASSUME NEW q \in Workers
             PROVE  (Unforced(q) /\ OnItsCycle(q) /\ OwnsLive(q) /\ ReleasesTick(q))'
  BY DEF LeaseInv
<1>2. Unforced(q) /\ OnItsCycle(q) /\ OwnsLive(q) /\ ReleasesTick(q)
  BY DEF LeaseInv
<1>3. CASE q = p
  BY <1>2, <1>3 DEF GoesOn, Unforced, OnItsCycle, OwnsLive, ReleasesTick
<1>4. CASE q # p
  BY <1>2, <1>4 DEF GoesOn, Unforced, OnItsCycle, OwnsLive, ReleasesTick, Holds
<1> QED BY <1>3, <1>4

LEMMA GotoMoves ==
    ASSUME TypeOK, NEW p \in Workers, NEW step, NEW l, Goto(p, step, l)
    PROVE  /\ pc'[p] = step /\ loc'[p] = l
           /\ \A q \in Workers \ {p} : pc'[q] = pc[q] /\ loc'[q] = loc[q]
BY DEF TypeOK, Goto

LEMMA ReturnGoesOn ==
    ASSUME TypeOK, NEW p \in Workers, Return(p)
    PROVE  GoesOn(p)
<1>1. NoLocal.force = FALSE /\ "idle" \notin HeldSteps \cup {"release"}
  BY DEF NoLocal, HeldSteps
<1> QED BY <1>1, GotoMoves DEF Return, GoesOn, Holds

\* A handler at work that moves on and keeps what identifies its tick.
LEMMA MoveGoesOn ==
    ASSUME TypeOK, NEW p \in Workers, NEW step, NEW l, Goto(p, step, l),
           pc[p] \in HeldSteps, step = "release" => l.tick,
           l.tick = loc[p].tick, l.force = loc[p].force, l.cycle = loc[p].cycle
    PROVE  GoesOn(p)
BY GotoMoves DEF GoesOn, Holds

LEMMA ThrowGoesOn ==
    ASSUME TypeOK, NEW p \in Workers, pc[p] \in HeldSteps, Throw(p)
    PROVE  GoesOn(p)
BY MoveGoesOn, ReturnGoesOn DEF Throw

LEMMA SettleGoesOn ==
    ASSUME TypeOK, NEW p \in Workers, NEW status, pc[p] \in HeldSteps, Settle(p, status)
    PROVE  GoesOn(p)
BY MoveGoesOn DEF Settle, TypeOK, Local

LEMMA QuietStep ==
    ASSUME TypeOK, NEW p \in Workers, Continue(p),
           ~(TickLease(p) \/ TickRelease(p) \/ TickReleaseError(p))
    PROVE  GoesOn(p) /\ UNCHANGED <<lease, nextRun>>
<1>0. loc[p] \in Local
  BY DEF TypeOK
<1>1. CASE TickControl(p)
  <2>1. "tick_lease" \notin HeldSteps
    BY DEF HeldSteps
  <2>2. CASE Stopped(control)
    BY <1>1, <2>2, ReturnGoesOn DEF TickControl, rows
  <2>3. CASE ~Stopped(control)
    BY <1>1, <2>1, <2>3, GotoMoves DEF TickControl, rows, GoesOn, Holds
  <2> QED BY <2>2, <2>3
<1>2. CASE TickLeased(p)
  BY <1>2, ReturnGoesOn DEF TickLeased, rows
<1>3. CASE TickFindRun(p)
  BY <1>3, MoveGoesOn DEF TickFindRun, rows, HeldSteps
<1>4. CASE TickCreateRun(p)
  BY <1>4, MoveGoesOn, ThrowGoesOn DEF TickCreateRun, HeldSteps
<1>5. CASE AdvanceReadRun(p)
  BY <1>0, <1>5, MoveGoesOn DEF AdvanceReadRun, rows, HeldSteps, Local
<1>6. CASE AdvanceReadControl(p)
  <2>1. PICK step \in Steps \ {"release"}, status \in RunStatuses, reducing \in BOOLEAN :
            Goto(p, step, [loc[p] EXCEPT !.run.status = status, !.reducing = reducing])
    BY <1>6 DEF AdvanceReadControl, Stopped, Steps, HeldSteps, RunStatuses, SettledStatuses
  <2>2. pc[p] \in HeldSteps
    BY <1>6 DEF AdvanceReadControl, HeldSteps
  <2> DEFINE l == [loc[p] EXCEPT !.run.status = status, !.reducing = reducing]
  <2>3. l.tick = loc[p].tick /\ l.force = loc[p].force /\ l.cycle = loc[p].cycle
    BY <1>0 DEF Local
  <2> QED BY <1>6, <2>1, <2>2, <2>3, MoveGoesOn DEF AdvanceReadControl, rows
<1>7. CASE SaveResearching(p) \/ SaveRecovering(p) \/ SaveProposed(p)
  BY <1>7, MoveGoesOn
     DEF SaveResearching, SaveRecovering, SaveProposed, SaveRun, HeldSteps
<1>8. CASE SaveSettled(p)
  BY <1>8, MoveGoesOn, ReturnGoesOn DEF SaveSettled, SaveRun, Return, HeldSteps
<1>9. CASE Research(p)
  BY <1>9, MoveGoesOn, SettleGoesOn DEF Research, rows, HeldSteps
<1>10. CASE ProposeBaseline(p)
  BY <1>0, <1>10, MoveGoesOn DEF ProposeBaseline, Propose, HeldSteps, Local
<1>11. CASE ProposeFails(p)
  BY <1>11, SettleGoesOn DEF ProposeFails, rows, HeldSteps
<1>12. CASE RecoverRead(p)
  BY <1>0, <1>12, MoveGoesOn DEF RecoverRead, rows, HeldSteps, Local
<1>13. CASE RecoverAgain(p)
  BY <1>0, <1>13, MoveGoesOn DEF RecoverAgain, rows, HeldSteps, Local
<1>14. CASE RecoverPropose(p)
  BY <1>0, <1>14, MoveGoesOn DEF RecoverPropose, Propose, HeldSteps, Local
<1>15. CASE RecoverThrows(p)
  BY <1>15, ThrowGoesOn DEF RecoverThrows, rows, HeldSteps
<1>16. CASE PaperFind(p)
  BY <1>16, MoveGoesOn, SettleGoesOn DEF PaperFind, Unapproved, rows, HeldSteps
<1>17. CASE PaperFill(p)
  BY <1>17, SettleGoesOn DEF PaperFill, PaperStatus, HeldSteps
<1>18. CASE PaperKeeps(p) \/ PaperFails(p)
  BY <1>18, SettleGoesOn DEF PaperKeeps, PaperFails, PaperStatus, rows, HeldSteps
<1> QED BY <1>1, <1>2, <1>3, <1>4, <1>5, <1>6, <1>7, <1>8, <1>9, <1>10, <1>11, <1>12,
           <1>13, <1>14, <1>15, <1>16, <1>17, <1>18 DEF Continue

LEMMA LeaseInit == Init => LeaseInv
BY DEF Init, LeaseInv, Unforced, OnItsCycle, OwnsLive, ReleasesTick, Holds, HeldSteps, NoLocal

LEMMA StartKeepsLease ==
    ASSUME TypeOK, LeaseInv, NEW p \in Workers, Start(p)
    PROVE  LeaseInv'
<1> USE DEF Holds, HeldSteps
<1>1. UNCHANGED <<lease, nextRun>>
  BY DEF Start, TickRead, AdvanceRequest, rows
<1>2. ASSUME NEW q \in Workers, q # p
      PROVE  (Unforced(q) /\ OnItsCycle(q) /\ OwnsLive(q) /\ ReleasesTick(q))'
  <2>1. pc'[q] = pc[q] /\ loc'[q] = loc[q]
    <3>1. CASE p \in Tickers /\ TickRead(p, FALSE)
      BY <1>2, <3>1, GotoMoves DEF TickRead
    <3>2. CASE p \in Forcers /\ TickRead(p, TRUE)
      BY <1>2, <3>2, GotoMoves DEF TickRead
    <3>3. CASE p \in Advancers /\ \E c \in Cycles : AdvanceRequest(p, c)
      BY <1>2, <3>3, GotoMoves DEF AdvanceRequest
    <3> QED BY <3>1, <3>2, <3>3 DEF Start
  <2> QED BY <1>1, <2>1 DEF LeaseInv, Unforced, OnItsCycle, OwnsLive, ReleasesTick
<1>3. ~Holds(p)' /\ (Forcers = {} => ~loc'[p].force) /\ pc'[p] # "release"
  <2>1. CASE p \in Tickers /\ TickRead(p, FALSE)
    <3> DEFINE l == [NoLocal EXCEPT !.cycle = nextRun, !.tick = TRUE, !.force = FALSE]
    <3>1. pc'[p] = "tick_control" /\ loc'[p] = l
      BY <2>1, GotoMoves DEF TickRead
    <3>2. l.force = FALSE
      BY DEF NoLocal
    <3> QED BY <3>1, <3>2
  <2>2. CASE p \in Forcers /\ TickRead(p, TRUE)
    BY <2>2, GotoMoves DEF TickRead, NoLocal
  <2>3. CASE p \in Advancers /\ \E c \in Cycles : AdvanceRequest(p, c)
    BY <2>3, GotoMoves DEF AdvanceRequest, NoLocal
  <2> QED BY <2>1, <2>2, <2>3 DEF Start
<1>4. (Unforced(p) /\ OnItsCycle(p) /\ OwnsLive(p) /\ ReleasesTick(p))'
  BY <1>3 DEF Unforced, OnItsCycle, OwnsLive, ReleasesTick
<1> QED BY <1>2, <1>4 DEF LeaseInv

\* The lease is only given to a tick when nobody holds a lease that still runs, so no
\* other holder is left at work if leases outlive their holders.
LEMMA TakeKeepsLease ==
    ASSUME TypeOK, LeaseInv, NEW p \in Workers, TickLease(p)
    PROVE  LeaseInv'
<1>1. /\ lease' = [owner |-> p, expired |-> FALSE] /\ nextRun' = nextRun
      /\ loc'[p] = loc[p] /\ pc'[p] = "tick_find" /\ LeaseOpen(p)
      /\ \A q \in Workers \ {p} : pc'[q] = pc[q] /\ loc'[q] = loc[q]
  BY GotoMoves DEF TickLease
<1>2. (Unforced(p) /\ OnItsCycle(p) /\ OwnsLive(p) /\ ReleasesTick(p))'
  BY <1>1 DEF LeaseInv, Unforced, OnItsCycle, OwnsLive, ReleasesTick, LeaseOpen
<1>3. ASSUME NEW q \in Workers, q # p
      PROVE  (Unforced(q) /\ OnItsCycle(q) /\ OwnsLive(q) /\ ReleasesTick(q))'
  <2>1. Timely => ~Holds(q)
    BY <1>1, ScheduleAssumption DEF LeaseInv, OwnsLive, LeaseOpen
  <2>2. ~Holds(q) => ~Holds(q)'
    BY <1>1, <1>3 DEF Holds
  <2> QED BY <1>1, <1>3, <2>1, <2>2 DEF LeaseInv, Unforced, OnItsCycle, OwnsLive, ReleasesTick
<1> QED BY <1>2, <1>3 DEF LeaseInv

\* The lease is only given back by its owner.
LEMMA GiveBackKeepsLease ==
    ASSUME TypeOK, LeaseInv, NEW p \in Workers, TickRelease(p) \/ TickReleaseError(p)
    PROVE  LeaseInv'
<1>1. GoesOn(p) /\ ~Holds(p)'
  BY ReturnGoesOn, GotoMoves DEF TickRelease, TickReleaseError, Return, Holds, HeldSteps
<1>2. CASE lease.owner # p
  <2>1. UNCHANGED <<lease, nextRun>>
    BY <1>2 DEF TickRelease, TickReleaseError, Released
  <2> QED BY <1>1, <2>1, GoesOnKeeps
<1>3. CASE lease.owner = p
  <2>1. lease' = NoLease
    BY <1>3 DEF TickRelease, TickReleaseError, Released
  <2>2. ASSUME NEW q \in Workers PROVE (Unforced(q) /\ OnItsCycle(q) /\ OwnsLive(q) /\ ReleasesTick(q))'
    <3>1. lease'.owner # q
      BY <2>1, ScheduleAssumption DEF NoLease
    <3>2. (Unforced(q) /\ ReleasesTick(q))'
      BY <1>1 DEF LeaseInv, Unforced, ReleasesTick, GoesOn
    <3>3. ~(Timely /\ Holds(q)')
      <4>1. CASE q = p
        BY <1>1, <4>1
      <4>2. CASE q # p
        BY <1>1, <1>3, <4>2 DEF LeaseInv, OwnsLive, GoesOn, Holds
      <4> QED BY <4>1, <4>2
    <3> QED BY <3>1, <3>2, <3>3 DEF OnItsCycle, OwnsLive
  <2> QED BY <2>2 DEF LeaseInv
<1> QED BY <1>2, <1>3

LEMMA LeaseStep == TypeOK /\ LeaseInv /\ [Next]_vars => LeaseInv'
<1> SUFFICES ASSUME TypeOK, LeaseInv, [Next]_vars PROVE LeaseInv'
  OBVIOUS
<1> USE DEF LeaseInv, Unforced, OnItsCycle, OwnsLive, ReleasesTick, Holds
<1>1. CASE UNCHANGED vars
  BY <1>1 DEF vars, rows
<1>2. ASSUME NEW state \in Requested, UpdateControl(state) PROVE LeaseInv'
  BY <1>2 DEF UpdateControl, rows
<1>3. CASE PassTime
  BY <1>3 DEF PassTime, rows
<1>4. CASE LeaseExpires
  BY <1>4 DEF LeaseExpires, TypeOK, Lease
<1>5. ASSUME NEW p \in Workers, Crash(p) PROVE LeaseInv'
  BY <1>5, ReturnGoesOn, GoesOnKeeps DEF Crash, rows
<1>6. ASSUME NEW p \in Workers, Start(p) PROVE LeaseInv'
  BY <1>6, StartKeepsLease
<1>7. ASSUME NEW p \in Workers, Continue(p) PROVE LeaseInv'
  BY <1>7, TakeKeepsLease, GiveBackKeepsLease, QuietStep, GoesOnKeeps
<1> QED BY <1>1, <1>2, <1>3, <1>4, <1>5, <1>6, <1>7 DEF Next

LEMMA LeaseInvariant == Spec => [](TypeOK /\ LeaseInv)
BY TypeInit, TypeStep, LeaseInit, LeaseStep, PTL DEF Spec

\* Two ticks are never at work on the schedule at once (LeaseExclusive), provided that no
\* lease runs out under a holder that is alive: tickRunSchedule never renews its lease.
THEOREM LeaseMutex == ASSUME Timely PROVE Spec => []LeaseExclusive
<1>1. LeaseInv => LeaseExclusive
  BY DEF LeaseInv, OwnsLive, LeaseExclusive
<1> QED BY <1>1, LeaseInvariant, PTL

\* Without forced ticks the schedule moves one cadence at a time and never back
\* (NextMovesByOne), whether or not leases outlive their holders: the release is
\* conditional on the lease, and the lease on the nextRunAt that was read.
THEOREM NextSteps == ASSUME Forcers = {} PROVE Spec => NextMovesByOne
<1>1. ASSUME TypeOK, LeaseInv, [Next]_vars PROVE [nextRun' \in {nextRun, nextRun + 1}]_vars
  <2>1. ASSUME NEW p \in Workers, Continue(p) PROVE nextRun' \in {nextRun, nextRun + 1}
    <3>1. CASE TickRelease(p)
      <4>1. CASE lease.owner = p
        <5>1. Holds(p) => loc[p].cycle = nextRun
          BY <1>1, <4>1 DEF LeaseInv, OnItsCycle
        <5>2. Holds(p)
          BY <1>1, <3>1 DEF TickRelease, LeaseInv, ReleasesTick, Holds, HeldSteps
        <5> QED BY <3>1, <4>1, <5>1, <5>2 DEF TickRelease, Released
      <4>2. CASE lease.owner # p
        BY <3>1, <4>2 DEF TickRelease, Released
      <4> QED BY <4>1, <4>2
    <3>2. CASE TickReleaseError(p)
      BY <3>2 DEF TickReleaseError, Released, NextAfterError
    <3>3. CASE TickLease(p)
      BY <3>3 DEF TickLease
    <3>4. CASE ~(TickLease(p) \/ TickRelease(p) \/ TickReleaseError(p))
      BY <2>1, <3>4, QuietStep, <1>1
    <3> QED BY <3>1, <3>2, <3>3, <3>4
  <2>2. ASSUME NEW p \in Workers, Start(p) \/ Crash(p) PROVE nextRun' = nextRun
    BY <2>2 DEF Start, TickRead, AdvanceRequest, Crash, rows
  <2>3. ASSUME NEW state \in Requested, UpdateControl(state) PROVE nextRun' = nextRun
    BY <2>3 DEF UpdateControl, rows
  <2>4. CASE PassTime \/ LeaseExpires
    BY <2>4 DEF PassTime, LeaseExpires, rows
  <2> QED BY <1>1, <2>1, <2>2, <2>3, <2>4 DEF Next
<1> QED BY <1>1, LeaseInvariant, PTL DEF Spec, NextMovesByOne

-----------------------------------------------------------------------------
(***************************************************************************)
(* What runs and fills owe each other.                                     *)
(*                                                                         *)
(* The argument: while leases outlive their holders and no run is advanced *)
(* by hand, one handler is at work at a time, and from reading the run     *)
(* until its last save its copy of the run has the stored proposal, except *)
(* just before the save of a new one.  A baseline proposal is only made    *)
(* for a run that has none, so a cycle that has bought has a run that will *)
(* never be given another purchase.                                        *)
(***************************************************************************)

-----------------------------------------------------------------------------
(* Runs that are paper_ready. *)

Ready(r) == r.status = "paper_ready" => Filled(r.proposal)
ReadyInv ==
    /\ \A c \in Cycles : Ready(runs[c])
    /\ \A p \in Workers : Ready(loc[p].run)

\* A fill stays.
LEMMA FillsGrow ==
    ASSUME TypeOK, NEW p \in Workers, PaperFill(p)
    PROVE  /\ \A id : Filled(id) => Filled(id)'
           /\ \A id : id = loc[p].run.proposal => Filled(id)'
           /\ fills' \in Seq(Nat) /\ Len(fills') = Len(fills) + 1
           /\ fills'[Len(fills) + 1] = loc[p].run.proposal
           /\ \A i \in DOMAIN fills : fills'[i] = fills[i]
           /\ DOMAIN fills' = DOMAIN fills \cup {Len(fills) + 1}
           /\ DOMAIN fills = 1 .. Len(fills) /\ Len(fills) \in Nat
<1>1. fills \in Seq(Nat) /\ loc[p].run.proposal \in Nat
  BY DEF TypeOK, Local, Run
<1>2. fills' = Append(fills, loc[p].run.proposal)
  BY DEF PaperFill
<1>3. /\ fills' \in Seq(Nat) /\ Len(fills') = Len(fills) + 1
      /\ fills'[Len(fills) + 1] = loc[p].run.proposal
      /\ \A i \in 1 .. Len(fills) : fills'[i] = fills[i]
      /\ DOMAIN fills' = 1 .. Len(fills) + 1
      /\ DOMAIN fills = 1 .. Len(fills) /\ Len(fills) \in Nat
  BY <1>1, <1>2
<1>4. DOMAIN fills' = DOMAIN fills \cup {Len(fills) + 1}
  BY <1>3
<1>5. \A id : Filled(id) => Filled(id)'
  BY <1>3, <1>4 DEF Filled, Range
<1>6. \A id : id = loc[p].run.proposal => Filled(id)'
  <2>1. Len(fills) + 1 \in DOMAIN fills'
    BY <1>4
  <2> QED BY <1>3, <2>1 DEF Filled, Range
<1> QED BY <1>3, <1>4, <1>5, <1>6

LEMMA ReadyInit == Init => ReadyInv
BY DEF Init, ReadyInv, Ready, NoRun, NoLocal

\* A step that only changes p's copy of the run, into one that may say paper_ready.
LEMMA ReadyMove ==
    ASSUME TypeOK, ReadyInv, NEW p \in Workers, NEW step, NEW l, Goto(p, step, l),
           UNCHANGED <<runs, fills>>, Ready(l.run)
    PROVE  ReadyInv'
<1>1. loc'[p] = l /\ \A q \in Workers \ {p} : loc'[q] = loc[q]
  BY GotoMoves
<1> QED BY <1>1 DEF ReadyInv, Ready, Filled

LEMMA ReadyReturn ==
    ASSUME TypeOK, ReadyInv, NEW p \in Workers, Return(p), UNCHANGED <<runs, fills>>
    PROVE  ReadyInv'
BY ReadyMove DEF Return, Ready, NoLocal, NoRun

LEMMA ReadyThrow ==
    ASSUME TypeOK, ReadyInv, NEW p \in Workers, Throw(p), UNCHANGED <<runs, fills>>
    PROVE  ReadyInv'
BY ReadyMove, ReadyReturn DEF Throw, ReadyInv

LEMMA ReadySettle ==
    ASSUME TypeOK, ReadyInv, NEW p \in Workers, NEW status, Settle(p, status),
           UNCHANGED <<runs, fills>>,
           status = "paper_ready" => Filled(loc[p].run.proposal)
    PROVE  ReadyInv'
<1> DEFINE l == [loc[p] EXCEPT !.run.status = status]
<1>1. l.run.status = status /\ l.run.proposal = loc[p].run.proposal
  BY DEF TypeOK, Local, Run
<1> QED BY <1>1, ReadyMove DEF Settle, Ready

LEMMA ReadySave ==
    ASSUME TypeOK, ReadyInv, NEW p \in Workers, NEW from, NEW to, NEW l, SaveRun(p, from, to, l),
           l \in {loc[p], NoLocal}
    PROVE  ReadyInv'
<1>1. Ready(l.run) /\ Ready(loc[p].run)
  BY DEF ReadyInv, Ready, NoLocal, NoRun
<1>2. loc'[p] = l /\ \A q \in Workers \ {p} : loc'[q] = loc[q]
  BY GotoMoves DEF SaveRun
<1>3. fills' = fills /\ \A c \in Cycles : runs'[c] \in {runs[c], loc[p].run}
  BY DEF SaveRun, TypeOK
<1> QED BY <1>1, <1>2, <1>3 DEF ReadyInv, Ready, Filled

LEMMA ReadyPropose ==
    ASSUME TypeOK, ReadyInv, NEW p \in Workers, NEW side, NEW basis, Propose(p, side, basis),
           UNCHANGED <<runs, fills>>
    PROVE  ReadyInv'
<1> DEFINE l == [loc[p] EXCEPT !.run.status = "proposed", !.run.proposal = Len(proposals) + 1]
<1>1. l.run.status = "proposed"
  BY DEF TypeOK, Local, Run
<1> QED BY <1>1, ReadyMove DEF Propose, Ready

\* What a handler goes on with once it has read the control.
LEMMA ControlRead ==
    ASSUME TypeOK, NEW p \in Workers, AdvanceReadControl(p)
    PROVE  \E step \in Steps, l \in Local :
               /\ Goto(p, step, l)
               /\ l.run.proposal = loc[p].run.proposal /\ l.run.status # "paper_ready"
               /\ l.cycle = loc[p].cycle /\ l.tick = loc[p].tick
               /\ \/ step = "save_settled" /\ l.run.status \in SettledStatuses
                  \/ step = "save_researching"
                  \/ step = "save_recovering" /\ control = "reducing"
               /\ l.reducing => control = "reducing"
<1> DEFINE at(status, reducing) == [loc[p] EXCEPT !.run.status = status, !.reducing = reducing]
<1>1. ASSUME NEW status \in RunStatuses, NEW b \in BOOLEAN
      PROVE  /\ at(status, b) \in Local /\ at(status, b).reducing = b
             /\ at(status, b).run.proposal = loc[p].run.proposal
             /\ at(status, b).run.status = status
             /\ at(status, b).cycle = loc[p].cycle /\ at(status, b).tick = loc[p].tick
  <2>1. loc[p] \in Local /\ 0 \in Nat
    BY DEF TypeOK
  <2>2. at(status, b) \in Local
    BY <1>1, <2>1, RunUpdateType, Zenon
  <2>3. /\ at(status, b).reducing = b
        /\ at(status, b).run.proposal = loc[p].run.proposal
        /\ at(status, b).run.status = status
        /\ at(status, b).cycle = loc[p].cycle /\ at(status, b).tick = loc[p].tick
    BY <2>1 DEF Local, Run
  <2> QED BY <2>2, <2>3
<1>2. CASE Stopped(control)
  <2> DEFINE l == at(control, FALSE)
  <2>1. control \in SettledStatuses /\ control \in RunStatuses /\ control # "paper_ready"
    BY <1>2 DEF Stopped, SettledStatuses, RunStatuses
  <2>2. Goto(p, "save_settled", l) /\ "save_settled" \in Steps
    BY <1>2 DEF AdvanceReadControl, Stopped, Steps, HeldSteps
  <2>3. /\ l \in Local /\ l.reducing = FALSE /\ l.run.proposal = loc[p].run.proposal
        /\ l.run.status = control /\ l.cycle = loc[p].cycle /\ l.tick = loc[p].tick
    BY <1>1, <2>1
  <2> HIDE DEF l
  <2> QED BY <2>1, <2>2, <2>3
<1>3. CASE ~Stopped(control) /\ control = "reducing"
  <2> DEFINE l == at("researching", TRUE)
  <2>1. Goto(p, "save_recovering", l) /\ "save_recovering" \in Steps
    BY <1>3 DEF AdvanceReadControl, Steps, HeldSteps
  <2>2. /\ l \in Local /\ l.run.proposal = loc[p].run.proposal
        /\ l.run.status = "researching" /\ l.cycle = loc[p].cycle /\ l.tick = loc[p].tick
    BY <1>1 DEF RunStatuses
  <2> HIDE DEF l
  <2> QED BY <1>3, <2>1, <2>2
<1>4. CASE ~Stopped(control) /\ control # "reducing"
  <2> DEFINE l == at("researching", FALSE)
  <2>1. Goto(p, "save_researching", l) /\ "save_researching" \in Steps
    BY <1>4 DEF AdvanceReadControl, Steps, HeldSteps
  <2>2. /\ l \in Local /\ l.run.proposal = loc[p].run.proposal /\ l.reducing = FALSE
        /\ l.run.status = "researching" /\ l.cycle = loc[p].cycle /\ l.tick = loc[p].tick
    BY <1>1 DEF RunStatuses
  <2> HIDE DEF l
  <2> QED BY <2>1, <2>2
<1> QED BY <1>2, <1>3, <1>4

LEMMA ReadyContinue ==
    ASSUME TypeOK, ReadyInv, NEW p \in Workers, Continue(p)
    PROVE  ReadyInv'
<1>0. loc[p] \in Local /\ loc[p].run \in Run /\ loc[p].cycle \in Cycles /\ Ready(loc[p].run)
  BY DEF TypeOK, Local, ReadyInv
<1>1. CASE TickControl(p) \/ TickLease(p) \/ TickLeased(p) \/ TickFindRun(p)
  BY <1>0, <1>1, ReadyMove, ReadyReturn
     DEF TickControl, TickLease, TickLeased, TickFindRun, rows
<1>2. CASE TickRelease(p) \/ TickReleaseError(p)
  BY <1>2, ReadyReturn DEF TickRelease, TickReleaseError
<1>3. CASE TickCreateRun(p)
  <2>1. CASE runs[loc[p].cycle] = NoRun
    <3>1. loc' = loc /\ fills' = fills /\ runs' = [runs EXCEPT ![loc[p].cycle].status = "idle"]
      <4>1. Goto(p, "advance_run", loc[p])
        BY <1>3, <2>1 DEF TickCreateRun
      <4> QED BY <1>3, <2>1, <4>1 DEF TickCreateRun, Goto, TypeOK
    <3>2. \A c \in Cycles : runs'[c] = runs[c] \/ runs'[c].status = "idle"
      BY <1>0, <3>1 DEF TypeOK, Run
    <3> QED BY <3>1, <3>2 DEF ReadyInv, Ready, Filled
  <2>2. CASE runs[loc[p].cycle] # NoRun
    BY <1>3, <2>2, ReadyThrow DEF TickCreateRun
  <2> QED BY <2>1, <2>2
<1>4. CASE AdvanceReadRun(p)
  <2> DEFINE l == [loc[p] EXCEPT !.run = runs[loc[p].cycle]]
  <2>1. l.run = runs[loc[p].cycle]
    BY <1>0 DEF Local
  <2>2. Ready(l.run)
    BY <1>0, <2>1 DEF ReadyInv
  <2> QED BY <1>4, <2>2, ReadyMove DEF AdvanceReadRun, rows
<1>5. CASE AdvanceReadControl(p)
  <2>1. PICK step \in Steps, l \in Local : Goto(p, step, l) /\ l.run.status # "paper_ready"
    BY <1>5, ControlRead
  <2> QED BY <1>5, <2>1, ReadyMove DEF AdvanceReadControl, rows, Ready
<1>6. CASE SaveResearching(p) \/ SaveRecovering(p) \/ SaveProposed(p) \/ SaveSettled(p)
  BY <1>6, ReadySave DEF SaveResearching, SaveRecovering, SaveProposed, SaveSettled
<1>7. CASE Research(p)
  BY <1>0, <1>7, ReadyMove, ReadySettle DEF Research, rows
<1>8. CASE ProposeBaseline(p)
  <2>1. CASE NeedsProposal(loc[p].run)
    BY <1>8, <2>1, ReadyPropose DEF ProposeBaseline
  <2>2. CASE ~NeedsProposal(loc[p].run)
    <3> DEFINE l == [loc[p] EXCEPT !.run.status = "proposed"]
    <3>1. l.run.status = "proposed"
      BY <1>0 DEF Local, Run
    <3> QED BY <1>8, <2>2, <3>1, ReadyMove DEF ProposeBaseline, Ready
  <2> QED BY <2>1, <2>2
<1>9. CASE ProposeFails(p) \/ PaperFails(p)
  BY <1>9, ReadySettle DEF ProposeFails, PaperFails, rows
<1>10. CASE RecoverRead(p)
  <2> DEFINE l == [loc[p] EXCEPT !.basis = Len(fills)]
  <2>1. l.run = loc[p].run
    BY <1>0 DEF Local
  <2> QED BY <1>0, <1>10, <2>1, ReadyMove DEF RecoverRead, rows
<1>11. CASE RecoverAgain(p)
  <2>1. PICK id \in DOMAIN proposals :
            Goto(p, "save_proposed", [loc[p] EXCEPT !.run.status = "proposed", !.run.proposal = id])
    BY <1>11 DEF RecoverAgain
  <2> DEFINE l == [loc[p] EXCEPT !.run.status = "proposed", !.run.proposal = id]
  <2>2. l.run.status = "proposed"
    BY <1>0 DEF Local, Run
  <2> QED BY <1>11, <2>1, <2>2, ReadyMove DEF RecoverAgain, rows, Ready
<1>12. CASE RecoverPropose(p)
  BY <1>12, ReadyPropose DEF RecoverPropose
<1>13. CASE RecoverThrows(p)
  BY <1>13, ReadyThrow DEF RecoverThrows, rows
<1>14. CASE PaperFind(p)
  BY <1>0, <1>14, ReadyMove, ReadySettle DEF PaperFind, Unapproved, rows
<1>15. CASE PaperFill(p)
  <2> DEFINE l == [loc[p] EXCEPT !.run.status = PaperStatus(TRUE)]
  <2>1. l.run.proposal = loc[p].run.proposal
    BY <1>0 DEF Local, Run
  <2>2. loc'[p] = l /\ runs' = runs /\ \A q \in Workers \ {p} : loc'[q] = loc[q]
    BY <1>15, GotoMoves DEF PaperFill, Settle
  <2>3. \A r : Ready(r) \/ r.proposal = loc[p].run.proposal => Ready(r)'
    BY <1>15, FillsGrow DEF Ready
  <2>4. ASSUME NEW q \in Workers PROVE Ready(loc[q].run)'
    <3>1. CASE q = p
      BY <2>1, <2>2, <2>3, <3>1 DEF Ready
    <3>2. CASE q # p
      BY <2>2, <2>3, <3>2 DEF ReadyInv, Ready
    <3> QED BY <3>1, <3>2
  <2>5. \A c \in Cycles : Ready(runs[c])'
    BY <2>2, <2>3 DEF ReadyInv, Ready
  <2> QED BY <2>4, <2>5 DEF ReadyInv
<1>16. CASE PaperKeeps(p)
  BY <1>16, ReadySettle DEF PaperKeeps, PaperStatus, rows
<1> QED BY <1>1, <1>2, <1>3, <1>4, <1>5, <1>6, <1>7, <1>8, <1>9, <1>10, <1>11, <1>12,
           <1>13, <1>14, <1>15, <1>16 DEF Continue

LEMMA ReadyStep == TypeOK /\ ReadyInv /\ [Next]_vars => ReadyInv'
<1> SUFFICES ASSUME TypeOK, ReadyInv, [Next]_vars PROVE ReadyInv'
  OBVIOUS
<1>1. CASE UNCHANGED vars
  BY <1>1 DEF vars, rows, ReadyInv, Ready, Filled
<1>2. ASSUME \/ \E state \in Requested : UpdateControl(state)
             \/ PassTime
             \/ LeaseExpires
      PROVE  ReadyInv'
  BY <1>2 DEF UpdateControl, PassTime, LeaseExpires, rows, ReadyInv, Ready, Filled
<1>3. ASSUME NEW p \in Workers, Crash(p) PROVE ReadyInv'
  BY <1>3, ReadyReturn DEF Crash, rows
<1>4. ASSUME NEW p \in Workers, Start(p) PROVE ReadyInv'
  <2>1. ASSUME NEW force \in BOOLEAN, TickRead(p, force) PROVE ReadyInv'
    <3> DEFINE l == [NoLocal EXCEPT !.cycle = nextRun, !.tick = TRUE, !.force = force]
    <3>1. l.run.status = "none"
      BY DEF NoLocal, NoRun
    <3> QED BY <2>1, <3>1, ReadyMove DEF TickRead, rows, Ready
  <2>2. ASSUME NEW c \in Cycles, AdvanceRequest(p, c) PROVE ReadyInv'
    <3> DEFINE l == [NoLocal EXCEPT !.cycle = c]
    <3>1. l.run.status = "none"
      BY DEF NoLocal, NoRun
    <3> QED BY <2>2, <3>1, ReadyMove DEF AdvanceRequest, rows, Ready
  <2> QED BY <1>4, <2>1, <2>2 DEF Start
<1>5. ASSUME NEW p \in Workers, Continue(p) PROVE ReadyInv'
  BY <1>5, ReadyContinue
<1> QED BY <1>1, <1>2, <1>3, <1>4, <1>5 DEF Next

\* A run says paper_ready only of a proposal that was filled (PaperReadyFilled): under any
\* overlap of ticks, lapsed leases and advances by hand, although each handler writes back
\* the whole row it read.
THEOREM ReadyRunsFilled == Spec => []PaperReadyFilled
<1>1. ReadyInv => PaperReadyFilled
  BY DEF ReadyInv, Ready, PaperReadyFilled
<1>2. Spec => []TypeOK
  BY TypeCorrect
<1> QED BY <1>1, <1>2, ReadyInit, ReadyStep, PTL DEF Spec

-----------------------------------------------------------------------------
(* One handler at work at a time. *)

OneAtATime == Timely /\ Advancers = {}

\* The steps at which a handler's copy of the run has the stored proposal.
CopySteps == {"advance_control", "save_researching", "research", "propose", "save_recovering",
              "recover_read", "recover_propose", "paper_find", "paper_execute",
              "save_settled", "release"}

Buys(id, props) == id \in DOMAIN props /\ props[id].side = "BUY"

\* A run's proposal is stored, and its purchase is one of its own cycle.
Of(props, c, id) == id # 0 => id \in DOMAIN props /\ (Buys(id, props) => props[id].cycle = c)

\* A row may be overwritten with a proposal: it has it, or has none, or the new one sells.
MayReplace(old, new, props) ==
    old = new \/ (new # 0 /\ (old = 0 \/ ~Buys(new, props)))

CopyOK(step, l, r, props) ==
    /\ step \in CopySteps => l.run.proposal = r.proposal
    /\ step = "save_proposed" => /\ l.run.proposal # 0
                                 /\ Of(props, l.cycle, l.run.proposal)
                                 /\ MayReplace(r.proposal, l.run.proposal, props)
    /\ step \in {"paper_find", "paper_execute"} => l.run.proposal # 0
    /\ step = "save_settled" => l.run.status \in SettledStatuses
    /\ step = "release" => r.status \in SettledStatuses

Handler(p) == /\ pc[p] # "idle" => loc[p].tick
              /\ CopyOK(pc[p], loc[p], runs[loc[p].cycle], proposals)

\* A run of a cycle that has bought has a proposal, and no other purchase.
Traced(r, id, props) == r.proposal # 0 /\ (Buys(r.proposal, props) => r.proposal = id)
FillOK(id, rs, props) ==
    id \in DOMAIN props /\ (Buys(id, props) => Traced(rs[props[id].cycle], id, props))

HandlersOK == \A p \in Workers : Handler(p)
RunsOK == \A c \in Cycles : Of(proposals, c, runs[c].proposal)
FillsOK == \A i \in DOMAIN fills : FillOK(fills[i], runs, proposals)
BoughtOnce ==
    \A i, j \in DOMAIN fills :
        /\ Buys(fills[i], proposals) /\ Buys(fills[j], proposals)
        /\ proposals[fills[i]].cycle = proposals[fills[j]].cycle
        => i = j
ConsumedOK ==
    Forcers = {} => \A c \in Cycles : c < nextRun => runs[c].status \in SettledStatuses

CycleInv == HandlersOK /\ RunsOK /\ FillsOK /\ BoughtOnce /\ ConsumedOK

LEMMA CopyStepsHeld == CopySteps \cup {"save_proposed"} \subseteq HeldSteps /\ "idle" \notin HeldSteps
BY DEF CopySteps, HeldSteps

\* The lease lets one handler work at a time, and that one on the schedule's own cycle.
LEMMA Alone ==
    ASSUME OneAtATime, LeaseInv, CycleInv, NEW p \in Workers, pc[p] \in HeldSteps
    PROVE  /\ loc[p].tick /\ lease.owner = p
           /\ \A q \in Workers \ {p} : pc[q] \notin HeldSteps
           /\ Forcers = {} => loc[p].cycle = nextRun
<1>1. ASSUME NEW q \in Workers, pc[q] \in HeldSteps PROVE Holds(q) /\ lease.owner = q
  BY <1>1, CopyStepsHeld DEF CycleInv, HandlersOK, Handler, Holds, LeaseInv, OwnsLive, OneAtATime
<1>2. Holds(p) /\ lease.owner = p
  BY <1>1
<1> QED BY <1>1, <1>2 DEF Holds, LeaseInv, OnItsCycle

LEMMA OthersKeep ==
    ASSUME TypeOK, OneAtATime, LeaseInv, CycleInv, NEW p \in Workers,
           UNCHANGED <<runs, proposals>> \/ pc[p] \in HeldSteps,
           \A q \in Workers \ {p} : pc'[q] = pc[q] /\ loc'[q] = loc[q]
    PROVE  \A q \in Workers \ {p} : Handler(q)'
<1> SUFFICES ASSUME NEW q \in Workers \ {p} PROVE Handler(q)'
  OBVIOUS
<1>1. pc'[q] = pc[q] /\ loc'[q] = loc[q] /\ Handler(q)
  BY DEF CycleInv, HandlersOK
<1>2. CASE UNCHANGED <<runs, proposals>>
  BY <1>1, <1>2 DEF Handler
<1>3. CASE pc[p] \in HeldSteps
  <2>1. pc[q] \notin CopySteps \cup {"save_proposed"}
    BY <1>3, Alone, CopyStepsHeld
  <2>2. pc[q] \notin {"save_proposed", "paper_find", "paper_execute", "save_settled", "release"}
    BY <2>1 DEF CopySteps
  <2>3. CopyOK(pc'[q], loc'[q], runs'[loc'[q].cycle], proposals')
    BY <1>1, <2>1, <2>2 DEF CopyOK
  <2> QED BY <1>1, <2>3 DEF Handler
<1> QED BY <1>2, <1>3

\* A step that changes no row of a run, a proposal or a fill.
LEMMA Quiet ==
    ASSUME TypeOK, OneAtATime, LeaseInv, CycleInv, NEW p \in Workers, NEW step, NEW l,
           Goto(p, step, l), UNCHANGED <<runs, proposals, fills, nextRun>>,
           step # "idle" => l.tick, CopyOK(step, l, runs[l.cycle], proposals)
    PROVE  CycleInv'
<1>1. pc'[p] = step /\ loc'[p] = l /\ \A q \in Workers \ {p} : pc'[q] = pc[q] /\ loc'[q] = loc[q]
  BY GotoMoves
<1>2. Handler(p)'
  BY <1>1 DEF Handler
<1>3. HandlersOK'
  BY <1>1, <1>2, OthersKeep DEF HandlersOK
<1>4. RunsOK' /\ FillsOK' /\ BoughtOnce' /\ ConsumedOK'
  BY DEF CycleInv, RunsOK, FillsOK, BoughtOnce, ConsumedOK
<1> QED BY <1>3, <1>4 DEF CycleInv

LEMMA QuietReturn ==
    ASSUME TypeOK, OneAtATime, LeaseInv, CycleInv, NEW p \in Workers, Return(p),
           UNCHANGED <<runs, proposals, fills, nextRun>>
    PROVE  CycleInv'
<1>1. CopyOK("idle", NoLocal, runs[NoLocal.cycle], proposals)
  BY DEF CopyOK, CopySteps
<1> QED BY <1>1, Quiet DEF Return

LEMMA QuietThrow ==
    ASSUME TypeOK, OneAtATime, LeaseInv, CycleInv, NEW p \in Workers, Throw(p),
           UNCHANGED <<runs, proposals, fills, nextRun>>
    PROVE  CycleInv'
<1>1. CopyOK("release_error", loc[p], runs[loc[p].cycle], proposals)
  BY DEF CopyOK, CopySteps
<1> QED BY <1>1, Quiet, QuietReturn DEF Throw

\* A handler whose copy has the stored proposal decides how the run ends.
LEMMA QuietSettle ==
    ASSUME TypeOK, OneAtATime, LeaseInv, CycleInv, NEW p \in Workers,
           NEW status \in SettledStatuses, Settle(p, status), pc[p] \in CopySteps,
           UNCHANGED <<runs, proposals, fills, nextRun>>
    PROVE  CycleInv'
<1> DEFINE l == [loc[p] EXCEPT !.run.status = status]
<1>1. /\ l.run.status = status /\ l.run.proposal = loc[p].run.proposal
      /\ l.cycle = loc[p].cycle /\ l.tick = loc[p].tick
  BY DEF TypeOK, Local, Run
<1>2. loc[p].run.proposal = runs[loc[p].cycle].proposal /\ loc[p].tick
  BY CopyStepsHeld DEF CycleInv, HandlersOK, Handler, CopyOK
<1> HIDE DEF l
<1>3. CopyOK("save_settled", l, runs[l.cycle], proposals)
  BY <1>1, <1>2 DEF CopyOK, CopySteps
<1> QED BY <1>1, <1>2, <1>3, Quiet DEF Settle, l

\* The handler at work writes its run's row.
LEMMA RowWritten ==
    ASSUME TypeOK, OneAtATime, LeaseInv, CycleInv, NEW p \in Workers, pc[p] \in HeldSteps,
           NEW r \in Run, runs' = [runs EXCEPT ![loc[p].cycle] = r],
           UNCHANGED <<proposals, fills, nextRun>>,
           Of(proposals, loc[p].cycle, r.proposal),
           MayReplace(runs[loc[p].cycle].proposal, r.proposal, proposals),
           \A q \in Workers \ {p} : pc'[q] = pc[q] /\ loc'[q] = loc[q],
           Handler(p)'
    PROVE  CycleInv'
<1>1. HandlersOK'
  BY OthersKeep DEF HandlersOK
<1>2. /\ loc[p].cycle \in Cycles
      /\ \A c \in Cycles : runs'[c] = IF c = loc[p].cycle THEN r ELSE runs[c]
  BY DEF TypeOK, Local
<1>3. RunsOK'
  BY <1>2 DEF CycleInv, RunsOK
<1>4. ASSUME NEW i \in DOMAIN fills, Buys(fills[i], proposals)
      PROVE  Traced(runs'[proposals[fills[i]].cycle], fills[i], proposals)
  <2> DEFINE c == proposals[fills[i]].cycle
  <2>1. c \in Cycles
    <3>1. fills[i] \in DOMAIN proposals /\ proposals \in Seq(Proposal)
      BY <1>4 DEF TypeOK, Buys
    <3>2. proposals[fills[i]] \in Proposal
      BY <3>1, ElementOfSeq
    <3> QED BY <3>2 DEF Proposal
  <2>2. Traced(runs[c], fills[i], proposals)
    BY <1>4 DEF CycleInv, FillsOK, FillOK
  <2>3. CASE c = loc[p].cycle
    BY <1>2, <2>1, <2>2, <2>3 DEF Traced, MayReplace
  <2>4. CASE c # loc[p].cycle
    BY <1>2, <2>1, <2>2, <2>4
  <2> QED BY <2>3, <2>4
<1>5. FillsOK'
  BY <1>4 DEF CycleInv, FillsOK, FillOK
<1>6. BoughtOnce'
  BY DEF CycleInv, BoughtOnce
<1>7. ConsumedOK'
  <2>1. Forcers = {} => loc[p].cycle = nextRun
    BY Alone
  <2>2. nextRun \in Int /\ \A c \in Cycles : c < nextRun => c # nextRun
    BY DEF TypeOK, Cycles
  <2> QED BY <1>2, <2>1, <2>2 DEF CycleInv, ConsumedOK
<1> QED BY <1>1, <1>3, <1>5, <1>6, <1>7 DEF CycleInv

LEMMA SaveKeepsCycles ==
    ASSUME TypeOK, OneAtATime, LeaseInv, CycleInv, NEW p \in Workers, NEW from, NEW to, NEW l,
           SaveRun(p, from, to, l), from \in CopySteps \cup {"save_proposed"},
           to # "idle" => l.tick,
           CopyOK(to, l, IF l.cycle = loc[p].cycle THEN loc[p].run ELSE runs[l.cycle], proposals),
           l \in Local
    PROVE  CycleInv'
<1> DEFINE c == loc[p].cycle
           r == loc[p].run
<1>1. pc[p] = from /\ from \in HeldSteps /\ r \in Run /\ c \in Cycles /\ l.cycle \in Cycles
  BY CopyStepsHeld DEF SaveRun, TypeOK, Local
<1>2. Of(proposals, c, r.proposal) /\ MayReplace(runs[c].proposal, r.proposal, proposals)
  <2>1. CopyOK(from, loc[p], runs[c], proposals) /\ Of(proposals, c, runs[c].proposal)
    BY <1>1 DEF CycleInv, HandlersOK, Handler, RunsOK
  <2>2. CASE from \in CopySteps
    BY <2>1, <2>2 DEF CopyOK, MayReplace
  <2>3. CASE from = "save_proposed"
    BY <2>1, <2>3 DEF CopyOK
  <2> QED BY <2>2, <2>3
<1>3. pc'[p] = to /\ loc'[p] = l /\ \A q \in Workers \ {p} : pc'[q] = pc[q] /\ loc'[q] = loc[q]
  BY GotoMoves DEF SaveRun
<1>4. runs' = [runs EXCEPT ![c] = r] /\ UNCHANGED <<proposals, fills, nextRun>>
  BY DEF SaveRun
<1>5. runs'[l.cycle] = IF l.cycle = c THEN r ELSE runs[l.cycle]
  BY <1>1, <1>4 DEF TypeOK
<1>6. Handler(p)'
  BY <1>3, <1>4, <1>5 DEF Handler
<1> HIDE DEF c, r
<1> QED BY <1>1, <1>2, <1>3, <1>4, <1>6, RowWritten DEF c, r

LEMMA ProposeKeepsCycles ==
    ASSUME TypeOK, OneAtATime, LeaseInv, CycleInv, NEW p \in Workers,
           NEW side \in {"BUY", "SELL"}, NEW basis \in Nat, Propose(p, side, basis),
           UNCHANGED <<runs, fills, nextRun>>, pc[p] \in CopySteps,
           side = "BUY" => loc[p].run.proposal = 0
    PROVE  CycleInv'
<1> DEFINE c == loc[p].cycle
           n == Len(proposals) + 1
           new == [cycle |-> c, side |-> side, basis |-> basis]
           l == [loc[p] EXCEPT !.run.status = "proposed", !.run.proposal = n]
<1>1. c \in Cycles /\ proposals \in Seq(Proposal) /\ new \in Proposal
  BY DEF TypeOK, Local, Proposal
<1>2. proposals' = Append(proposals, new) /\ Goto(p, "save_proposed", l)
  BY DEF Propose
<1>3. /\ n \in Nat /\ n # 0 /\ n \notin DOMAIN proposals /\ n \in DOMAIN proposals'
      /\ proposals'[n] = new
      /\ \A i \in DOMAIN proposals : i \in DOMAIN proposals' /\ proposals'[i] = proposals[i]
      /\ \A i \in DOMAIN proposals' : i \in DOMAIN proposals \/ i = n
  <2> HIDE DEF new
  <2> QED BY <1>1, <1>2
<1>4. /\ \A id \in DOMAIN proposals : Buys(id, proposals') <=> Buys(id, proposals)
      /\ \A d, id : Of(proposals, d, id) => Of(proposals', d, id)
  BY <1>3 DEF Buys, Of
<1> HIDE DEF n
<1>5. /\ l.run.proposal = n /\ l.cycle = c /\ l.tick = loc[p].tick
  BY DEF TypeOK, Local, Run
<1>6. loc[p].run.proposal = runs[c].proposal /\ loc[p].tick
  BY CopyStepsHeld DEF CycleInv, HandlersOK, Handler, CopyOK
<1>7. pc'[p] = "save_proposed" /\ loc'[p] = l
      /\ \A q \in Workers \ {p} : pc'[q] = pc[q] /\ loc'[q] = loc[q]
  BY <1>2, GotoMoves
<1>8. Of(proposals', c, n) /\ (Buys(n, proposals') => runs[c].proposal = 0)
  BY <1>3, <1>6 DEF Of, Buys
<1> HIDE DEF l
<1>9. Handler(p)'
  BY <1>3, <1>5, <1>6, <1>7, <1>8 DEF Handler, CopyOK, CopySteps, MayReplace
<1>10. HandlersOK'
  BY <1>7, <1>9, OthersKeep, CopyStepsHeld DEF HandlersOK
<1>11. RunsOK'
  BY <1>4 DEF CycleInv, RunsOK
<1>12. ASSUME NEW i \in DOMAIN fills PROVE FillOK(fills[i], runs, proposals')
  <2>1. fills[i] \in DOMAIN proposals /\ FillOK(fills[i], runs, proposals)
    BY DEF CycleInv, FillsOK, FillOK
  <2> SUFFICES ASSUME Buys(fills[i], proposals)
               PROVE  Traced(runs[proposals[fills[i]].cycle], fills[i], proposals')
    BY <1>3, <1>4, <2>1 DEF FillOK
  <2> DEFINE d == proposals[fills[i]].cycle
  <2>2. Traced(runs[d], fills[i], proposals)
    BY <2>1 DEF FillOK
  <2>3. d \in Cycles
    <3>1. proposals[fills[i]] \in Proposal
      BY <1>1, <2>1, ElementOfSeq
    <3> QED BY <3>1 DEF Proposal
  <2>4. runs[d].proposal # 0 /\ runs[d].proposal \in DOMAIN proposals
    BY <2>2, <2>3 DEF Traced, CycleInv, RunsOK, Of
  <2> QED BY <1>4, <2>2, <2>4 DEF Traced
<1>13. FillsOK'
  BY <1>12 DEF FillsOK
<1>14. BoughtOnce'
  <2>1. \A i \in DOMAIN fills : fills[i] \in DOMAIN proposals
    BY DEF CycleInv, FillsOK, FillOK
  <2> QED BY <1>3, <1>4, <2>1 DEF CycleInv, BoughtOnce
<1>15. ConsumedOK'
  BY DEF CycleInv, ConsumedOK
<1> QED BY <1>10, <1>11, <1>13, <1>14, <1>15 DEF CycleInv

LEMMA FillKeepsCycles ==
    ASSUME TypeOK, OneAtATime, LeaseInv, CycleInv, NEW p \in Workers, PaperFill(p)
    PROVE  CycleInv'
<1> DEFINE c == loc[p].cycle
           id == loc[p].run.proposal
           k == Len(fills) + 1
           l == [loc[p] EXCEPT !.run.status = PaperStatus(TRUE)]
<1>1. pc[p] = "paper_execute" /\ ~Filled(id) /\ UNCHANGED <<nextRun, runs, proposals>>
      /\ Goto(p, "save_settled", l)
  BY DEF PaperFill, Settle
<1>2. c \in Cycles /\ id # 0 /\ id = runs[c].proposal /\ loc[p].tick /\ Of(proposals, c, id)
  BY <1>1 DEF CycleInv, HandlersOK, Handler, CopyOK, CopySteps, RunsOK, TypeOK, Local
<1>3. /\ l.run.proposal = id /\ l.run.status = "paper_ready"
      /\ l.cycle = c /\ l.tick = loc[p].tick
  BY DEF TypeOK, Local, Run, PaperStatus
<1>4. /\ fills'[k] = id /\ \A i \in DOMAIN fills : fills'[i] = fills[i] /\ fills[i] # id
      /\ DOMAIN fills' = DOMAIN fills \cup {k}
  BY <1>1, FillsGrow DEF Filled, Range
<1>5. pc'[p] = "save_settled" /\ loc'[p] = l
      /\ \A q \in Workers \ {p} : pc'[q] = pc[q] /\ loc'[q] = loc[q]
  BY <1>1, GotoMoves
<1> HIDE DEF l, k
<1>6. Handler(p)'
  BY <1>1, <1>2, <1>3, <1>5 DEF Handler, CopyOK, CopySteps, SettledStatuses
<1>7. HandlersOK'
  BY <1>1, <1>5, <1>6, OthersKeep DEF HandlersOK
<1>8. FillOK(id, runs, proposals)
  BY <1>2 DEF FillOK, Of, Traced
<1>9. FillsOK'
  BY <1>1, <1>4, <1>8 DEF CycleInv, FillsOK
<1>10. ASSUME NEW i \in DOMAIN fills, Buys(fills[i], proposals), Buys(id, proposals),
              proposals[fills[i]].cycle = proposals[id].cycle
       PROVE  FALSE
  <2>1. Traced(runs[c], fills[i], proposals)
    BY <1>2, <1>10 DEF CycleInv, FillsOK, FillOK, Of
  <2> QED BY <1>2, <1>4, <1>10, <2>1 DEF Traced
<1>11. BoughtOnce'
  BY <1>1, <1>4, <1>10 DEF CycleInv, BoughtOnce
<1>12. RunsOK' /\ ConsumedOK'
  BY <1>1 DEF CycleInv, RunsOK, ConsumedOK
<1> QED BY <1>7, <1>9, <1>11, <1>12 DEF CycleInv

LEMMA ReleaseKeepsCycles ==
    ASSUME TypeOK, OneAtATime, LeaseInv, CycleInv, NEW p \in Workers,
           TickRelease(p) \/ TickReleaseError(p)
    PROVE  CycleInv'
<1>1. pc[p] \in HeldSteps /\ UNCHANGED <<runs, proposals, fills>> /\ Return(p)
  BY DEF TickRelease, TickReleaseError, HeldSteps
<1>2. HandlersOK'
  <2>1. pc'[p] = "idle" /\ \A q \in Workers \ {p} : pc'[q] = pc[q] /\ loc'[q] = loc[q]
    BY <1>1, GotoMoves DEF Return
  <2>2. Handler(p)'
    BY <2>1 DEF Handler, CopyOK, CopySteps
  <2> QED BY <1>1, <2>1, <2>2, OthersKeep DEF HandlersOK
<1>3. RunsOK' /\ FillsOK' /\ BoughtOnce'
  BY <1>1 DEF CycleInv, RunsOK, FillsOK, BoughtOnce
<1>4. ConsumedOK'
  <2> SUFFICES ASSUME Forcers = {}, NEW c \in Cycles, c < nextRun'
               PROVE  runs[c].status \in SettledStatuses
    BY <1>1 DEF ConsumedOK
  <2>1. c < nextRun => runs[c].status \in SettledStatuses
    BY DEF CycleInv, ConsumedOK
  <2>2. CASE nextRun' = nextRun
    BY <2>1, <2>2
  <2>3. CASE nextRun' # nextRun
    <3>1. TickRelease(p) /\ nextRun' = loc[p].cycle + 1
      BY <2>3 DEF TickRelease, TickReleaseError, Released, NextAfterError
    <3>2. loc[p].cycle = nextRun /\ nextRun \in Int /\ c \in Int
      BY <1>1, Alone DEF TypeOK, Cycles
    <3>3. runs[nextRun].status \in SettledStatuses
      BY <3>1, <3>2 DEF CycleInv, HandlersOK, Handler, CopyOK, TickRelease
    <3>4. c < nextRun \/ c = nextRun
      BY <3>1, <3>2
    <3> QED BY <2>1, <3>3, <3>4
  <2> QED BY <2>2, <2>3
<1> QED BY <1>2, <1>3, <1>4 DEF CycleInv

LEMMA TickKeepsCycles ==
    ASSUME TypeOK, OneAtATime, LeaseInv, CycleInv, NEW p \in Workers,
           TickControl(p) \/ TickLease(p) \/ TickLeased(p) \/ TickFindRun(p) \/ TickCreateRun(p)
    PROVE  CycleInv'
<1>0. loc[p] \in Local /\ loc[p].cycle \in Cycles /\ (pc[p] # "idle" => loc[p].tick)
  BY DEF TypeOK, Local, CycleInv, HandlersOK, Handler
<1>1. \A step \in {"tick_lease", "tick_find", "tick_create", "advance_run"} :
          CopyOK(step, loc[p], runs[loc[p].cycle], proposals)
  BY DEF CopyOK, CopySteps
<1>2. CASE TickControl(p) \/ TickLease(p) \/ TickLeased(p)
  BY <1>0, <1>1, <1>2, Quiet, QuietReturn DEF TickControl, TickLease, TickLeased, rows
<1>3. CASE TickFindRun(p)
  <2>1. PICK step \in {"tick_create", "advance_run"} : Goto(p, step, loc[p])
    BY <1>3 DEF TickFindRun
  <2> QED BY <1>0, <1>1, <1>3, <2>1, Quiet DEF TickFindRun, rows
<1>4. CASE TickCreateRun(p) /\ runs[loc[p].cycle] # NoRun
  BY <1>4, QuietThrow DEF TickCreateRun
<1>5. CASE TickCreateRun(p) /\ runs[loc[p].cycle] = NoRun
  <2> DEFINE r == [runs[loc[p].cycle] EXCEPT !.status = "idle"]
  <2>1. r \in Run /\ r.proposal = runs[loc[p].cycle].proposal
    BY <1>0 DEF TypeOK, Run, RunStatuses
  <2>2. /\ runs' = [runs EXCEPT ![loc[p].cycle] = r] /\ Goto(p, "advance_run", loc[p])
        /\ UNCHANGED <<proposals, fills, nextRun>>
    BY <1>5 DEF TickCreateRun
  <2>3. pc'[p] = "advance_run" /\ loc'[p] = loc[p]
        /\ \A q \in Workers \ {p} : pc'[q] = pc[q] /\ loc'[q] = loc[q]
    BY <2>2, GotoMoves
  <2>4. Handler(p)'
    <3>1. pc[p] = "tick_create"
      BY <1>5 DEF TickCreateRun
    <3> QED BY <1>0, <2>3, <3>1 DEF Handler, CopyOK, CopySteps
  <2>5. Of(proposals, loc[p].cycle, r.proposal)
        /\ MayReplace(runs[loc[p].cycle].proposal, r.proposal, proposals)
    BY <1>0, <2>1 DEF CycleInv, RunsOK, MayReplace
  <2>6. pc[p] \in HeldSteps
    BY <1>5 DEF TickCreateRun, HeldSteps
  <2> HIDE DEF r
  <2> QED BY <2>1, <2>2, <2>3, <2>4, <2>5, <2>6, RowWritten
<1> QED BY <1>2, <1>3, <1>4, <1>5

LEMMA AdvanceKeepsCycles ==
    ASSUME TypeOK, OneAtATime, LeaseInv, CycleInv, NEW p \in Workers,
           \/ AdvanceReadRun(p) \/ AdvanceReadControl(p)
           \/ SaveResearching(p) \/ Research(p) \/ ProposeBaseline(p) \/ ProposeFails(p)
           \/ SaveProposed(p) \/ SaveSettled(p)
    PROVE  CycleInv'
<1>0. /\ loc[p] \in Local /\ loc[p].cycle \in Cycles /\ loc[p].run.status \in RunStatuses
      /\ pc[p] # "idle" => loc[p].tick
      /\ CopyOK(pc[p], loc[p], runs[loc[p].cycle], proposals)
  BY DEF TypeOK, Local, Run, CycleInv, HandlersOK, Handler
<1>1. CASE AdvanceReadRun(p)
  <2> DEFINE l == [loc[p] EXCEPT !.run = runs[loc[p].cycle]]
  <2>1. l.run = runs[loc[p].cycle] /\ l.cycle = loc[p].cycle /\ l.tick = loc[p].tick
    BY <1>0 DEF Local
  <2>2. CopyOK("advance_control", l, runs[l.cycle], proposals)
    BY <2>1 DEF CopyOK, CopySteps
  <2>3. Goto(p, "advance_control", l) /\ pc[p] = "advance_run"
        /\ UNCHANGED <<runs, proposals, fills, nextRun>>
    BY <1>1 DEF AdvanceReadRun, rows
  <2> HIDE DEF l
  <2> QED BY <1>0, <2>1, <2>2, <2>3, Quiet
<1>2. CASE AdvanceReadControl(p)
  <2>1. PICK step \in Steps, l \in Local :
            /\ Goto(p, step, l)
            /\ l.run.proposal = loc[p].run.proposal
            /\ l.cycle = loc[p].cycle /\ l.tick = loc[p].tick
            /\ \/ step = "save_settled" /\ l.run.status \in SettledStatuses
               \/ step \in {"save_researching", "save_recovering"}
    BY <1>2, ControlRead
  <2>2. pc[p] = "advance_control" /\ UNCHANGED <<runs, proposals, fills, nextRun>>
    BY <1>2 DEF AdvanceReadControl, rows
  <2>3. CopyOK(step, l, runs[l.cycle], proposals)
    BY <1>0, <2>1, <2>2 DEF CopyOK, CopySteps
  <2> QED BY <1>0, <2>1, <2>2, <2>3, Quiet
<1>3. CASE SaveResearching(p)
  <2>1. CopyOK("research", loc[p], loc[p].run, proposals)
    BY DEF CopyOK, CopySteps
  <2> QED BY <1>0, <1>3, <2>1, SaveKeepsCycles DEF SaveResearching, SaveRun, CopySteps
<1>4. CASE Research(p)
  <2>1. pc[p] = "research" /\ UNCHANGED <<runs, proposals, fills, nextRun>>
        /\ (Goto(p, "propose", loc[p]) \/ Settle(p, "failed"))
    BY <1>4 DEF Research, rows
  <2>2. CopyOK("propose", loc[p], runs[loc[p].cycle], proposals)
    BY <1>0, <2>1 DEF CopyOK, CopySteps
  <2>3. pc[p] \in CopySteps /\ "failed" \in SettledStatuses
    BY <2>1 DEF CopySteps, SettledStatuses
  <2> QED BY <1>0, <2>1, <2>2, <2>3, Quiet, QuietSettle
<1>5. CASE ProposeBaseline(p)
  <2>1. pc[p] = "propose" /\ UNCHANGED <<runs, fills, nextRun>>
    BY <1>5 DEF ProposeBaseline
  <2>2. pc[p] \in CopySteps
    BY <2>1 DEF CopySteps
  <2>3. CASE NeedsProposal(loc[p].run)
    <3>1. Propose(p, "BUY", 0) /\ loc[p].run.proposal = 0
      BY <1>5, <2>3 DEF ProposeBaseline, NeedsProposal
    <3> QED BY <2>1, <2>2, <3>1, ProposeKeepsCycles
  <2>4. CASE ~NeedsProposal(loc[p].run)
    <3> DEFINE l == [loc[p] EXCEPT !.run.status = "proposed"]
    <3>1. Goto(p, "save_proposed", l) /\ UNCHANGED proposals /\ loc[p].run.proposal # 0
      BY <1>5, <2>4 DEF ProposeBaseline, NeedsProposal
    <3>2. l.run.proposal = loc[p].run.proposal /\ l.cycle = loc[p].cycle /\ l.tick = loc[p].tick
      BY <1>0 DEF Local, Run
    <3>3. Of(proposals, loc[p].cycle, loc[p].run.proposal)
          /\ loc[p].run.proposal = runs[loc[p].cycle].proposal
      BY <1>0, <2>2 DEF CopyOK, CycleInv, RunsOK
    <3> HIDE DEF l
    <3>4. CopyOK("save_proposed", l, runs[l.cycle], proposals)
      BY <3>1, <3>2, <3>3 DEF CopyOK, CopySteps, MayReplace
    <3> QED BY <1>0, <2>1, <3>1, <3>2, <3>4, Quiet
  <2> QED BY <2>3, <2>4
<1>6. CASE ProposeFails(p)
  BY <1>6, QuietSettle DEF ProposeFails, rows, CopySteps, SettledStatuses
<1>7. CASE SaveProposed(p)
  <2>1. pc[p] = "save_proposed"
    BY <1>7 DEF SaveProposed, SaveRun
  <2>2. CopyOK("paper_find", loc[p], loc[p].run, proposals)
    BY <1>0, <2>1 DEF CopyOK, CopySteps
  <2> QED BY <1>0, <1>7, <2>1, <2>2, SaveKeepsCycles DEF SaveProposed
<1>8. CASE SaveSettled(p)
  <2>1. pc[p] = "save_settled" /\ "save_settled" \in CopySteps /\ loc[p].tick
    BY <1>0, <1>8 DEF SaveSettled, SaveRun, CopySteps
  <2>2. CopyOK("release", loc[p], loc[p].run, proposals)
    BY <1>0, <2>1 DEF CopyOK, CopySteps
  <2>3. SaveRun(p, "save_settled", "release", loc[p])
    BY <1>8, <2>1 DEF SaveSettled
  <2> QED BY <1>0, <2>1, <2>2, <2>3, SaveKeepsCycles
<1> QED BY <1>1, <1>2, <1>3, <1>4, <1>5, <1>6, <1>7, <1>8

LEMMA RecoverKeepsCycles ==
    ASSUME TypeOK, OneAtATime, LeaseInv, CycleInv, NEW p \in Workers,
           \/ SaveRecovering(p) \/ RecoverRead(p) \/ RecoverAgain(p) \/ RecoverPropose(p)
           \/ RecoverThrows(p)
    PROVE  CycleInv'
<1>0. /\ loc[p] \in Local /\ loc[p].cycle \in Cycles /\ loc[p].basis \in Nat
      /\ pc[p] # "idle" => loc[p].tick
      /\ CopyOK(pc[p], loc[p], runs[loc[p].cycle], proposals)
  BY DEF TypeOK, Local, CycleInv, HandlersOK, Handler
<1>1. CASE SaveRecovering(p)
  <2>1. CopyOK("recover_read", loc[p], loc[p].run, proposals)
    BY DEF CopyOK, CopySteps
  <2> QED BY <1>0, <1>1, <2>1, SaveKeepsCycles DEF SaveRecovering, SaveRun, CopySteps
<1>2. CASE RecoverRead(p)
  <2> DEFINE l == [loc[p] EXCEPT !.basis = Len(fills)]
  <2>1. l.run = loc[p].run /\ l.cycle = loc[p].cycle /\ l.tick = loc[p].tick
    BY <1>0 DEF Local
  <2>2. Goto(p, "recover_propose", l) /\ pc[p] = "recover_read"
        /\ UNCHANGED <<runs, proposals, fills, nextRun>>
    BY <1>2 DEF RecoverRead, rows
  <2> HIDE DEF l
  <2>3. CopyOK("recover_propose", l, runs[l.cycle], proposals)
    BY <1>0, <2>1, <2>2 DEF CopyOK, CopySteps
  <2> QED BY <1>0, <2>1, <2>2, <2>3, Quiet
<1>3. CASE RecoverAgain(p)
  <2>1. PICK id \in DOMAIN proposals :
            /\ proposals[id].side = "SELL"
            /\ Goto(p, "save_proposed",
                    [loc[p] EXCEPT !.run.status = "proposed", !.run.proposal = id])
    BY <1>3 DEF RecoverAgain
  <2> DEFINE l == [loc[p] EXCEPT !.run.status = "proposed", !.run.proposal = id]
  <2>2. l.run.proposal = id /\ l.cycle = loc[p].cycle /\ l.tick = loc[p].tick
    BY <1>0 DEF Local, Run
  <2>3. id # 0 /\ ~Buys(id, proposals)
    <3>1. DOMAIN proposals = 1 .. Len(proposals)
      BY LenProperties DEF TypeOK
    <3> QED BY <2>1, <3>1 DEF Buys
  <2> HIDE DEF l
  <2>4. CopyOK("save_proposed", l, runs[l.cycle], proposals)
    BY <2>2, <2>3 DEF CopyOK, CopySteps, Of, MayReplace
  <2>5. pc[p] = "recover_propose" /\ UNCHANGED <<runs, proposals, fills, nextRun>>
    BY <1>3 DEF RecoverAgain, rows
  <2>6. Goto(p, "save_proposed", l)
    BY <2>1 DEF l
  <2> QED BY <1>0, <2>2, <2>4, <2>5, <2>6, Quiet
<1>4. CASE RecoverPropose(p)
  <2>1. pc[p] \in CopySteps /\ Propose(p, "SELL", loc[p].basis)
        /\ UNCHANGED <<runs, fills, nextRun>>
    BY <1>4 DEF RecoverPropose, CopySteps
  <2> QED BY <1>0, <2>1, ProposeKeepsCycles
<1>5. CASE RecoverThrows(p)
  BY <1>5, QuietThrow DEF RecoverThrows, rows
<1> QED BY <1>1, <1>2, <1>3, <1>4, <1>5

LEMMA PaperKeepsCycles ==
    ASSUME TypeOK, OneAtATime, LeaseInv, CycleInv, NEW p \in Workers,
           PaperFind(p) \/ PaperFill(p) \/ PaperKeeps(p) \/ PaperFails(p)
    PROVE  CycleInv'
<1>0. /\ pc[p] # "idle" => loc[p].tick
      /\ CopyOK(pc[p], loc[p], runs[loc[p].cycle], proposals)
  BY DEF CycleInv, HandlersOK, Handler
<1>1. {"paper_ready", "risk_checked", "failed"} \subseteq SettledStatuses
      /\ {"paper_find", "paper_execute"} \subseteq CopySteps
  BY DEF SettledStatuses, CopySteps
<1>2. CASE PaperFind(p)
  <2>1. pc[p] = "paper_find" /\ UNCHANGED <<runs, proposals, fills, nextRun>>
        /\ \/ Goto(p, "paper_execute", loc[p])
           \/ \E status \in {"paper_ready", "risk_checked"} : Settle(p, status)
    BY <1>2 DEF PaperFind, Unapproved, rows
  <2>2. CopyOK("paper_execute", loc[p], runs[loc[p].cycle], proposals)
    BY <1>0, <2>1 DEF CopyOK, CopySteps
  <2> QED BY <1>0, <1>1, <2>1, <2>2, Quiet, QuietSettle
<1>3. CASE PaperFill(p)
  BY <1>3, FillKeepsCycles
<1>4. CASE PaperKeeps(p) \/ PaperFails(p)
  <2>1. pc[p] = "paper_execute" /\ UNCHANGED <<runs, proposals, fills, nextRun>>
        /\ \E status \in {"paper_ready", "risk_checked", "failed"} : Settle(p, status)
    BY <1>4 DEF PaperKeeps, PaperFails, PaperStatus, rows
  <2> QED BY <1>1, <2>1, QuietSettle
<1> QED BY <1>2, <1>3, <1>4

LEMMA CycleInit == Init => CycleInv
<1> SUFFICES ASSUME Init PROVE CycleInv
  OBVIOUS
<1>1. HandlersOK
  BY DEF Init, HandlersOK, Handler, CopyOK, CopySteps
<1>2. RunsOK /\ FillsOK /\ BoughtOnce
  BY DEF Init, RunsOK, Of, NoRun, FillsOK, BoughtOnce
<1>3. ConsumedOK
  BY DEF Init, ConsumedOK, Cycles
<1> QED BY <1>1, <1>2, <1>3 DEF CycleInv

LEMMA CycleStep ==
    ASSUME OneAtATime
    PROVE  TypeOK /\ LeaseInv /\ CycleInv /\ [Next]_vars => CycleInv'
<1> SUFFICES ASSUME TypeOK, LeaseInv, CycleInv, [Next]_vars PROVE CycleInv'
  OBVIOUS
<1>1. CASE \/ UNCHANGED vars
           \/ \E state \in Requested : UpdateControl(state)
           \/ PassTime
           \/ LeaseExpires
  <2>1. UNCHANGED <<nextRun, runs, proposals, fills, pc, loc>>
    BY <1>1 DEF vars, rows, UpdateControl, PassTime, LeaseExpires
  <2> QED BY <2>1 DEF CycleInv, HandlersOK, Handler, RunsOK, FillsOK, BoughtOnce, ConsumedOK
<1>2. ASSUME NEW p \in Workers, Crash(p) PROVE CycleInv'
  BY <1>2, QuietReturn DEF Crash, rows
<1>3. ASSUME NEW p \in Workers, Start(p) PROVE CycleInv'
  <2>1. PICK force \in BOOLEAN : TickRead(p, force)
    BY <1>3 DEF Start, OneAtATime
  <2> DEFINE l == [NoLocal EXCEPT !.cycle = nextRun, !.tick = TRUE, !.force = force]
  <2>2. l.tick
    BY DEF NoLocal
  <2>3. CopyOK("tick_control", l, runs[l.cycle], proposals)
    BY DEF CopyOK, CopySteps
  <2> QED BY <2>1, <2>2, <2>3, Quiet DEF TickRead, rows
<1>4. ASSUME NEW p \in Workers, Continue(p) PROVE CycleInv'
  BY <1>4, TickKeepsCycles, ReleaseKeepsCycles, AdvanceKeepsCycles, RecoverKeepsCycles,
     PaperKeepsCycles DEF Continue
<1> QED BY <1>1, <1>2, <1>3, <1>4 DEF Next

LEMMA CycleInvariant ==
    ASSUME OneAtATime PROVE Spec => [](TypeOK /\ LeaseInv /\ CycleInv)
<1>1. TypeOK /\ LeaseInv /\ CycleInv /\ [Next]_vars => CycleInv'
  BY CycleStep
<1> QED BY <1>1, CycleInit, LeaseInvariant, PTL DEF Spec

-----------------------------------------------------------------------------
(* Without recoveries. *)

Recovering == {"save_recovering", "recover_read", "recover_propose"}
BaselineInv ==
    /\ control # "reducing"
    /\ \A p \in Workers : pc[p] \notin Recovering
    /\ \A id \in DOMAIN proposals : proposals[id].side = "BUY"

LEMMA BaselineMove ==
    ASSUME TypeOK, BaselineInv, NEW p \in Workers, NEW step, NEW l, Goto(p, step, l),
           step \notin Recovering, UNCHANGED <<control, proposals>>
    PROVE  BaselineInv'
<1>1. pc'[p] = step /\ \A q \in Workers \ {p} : pc'[q] = pc[q]
  BY GotoMoves
<1> QED BY <1>1 DEF BaselineInv

LEMMA BaselineReturn ==
    ASSUME TypeOK, BaselineInv, NEW p \in Workers, Return(p), UNCHANGED <<control, proposals>>
    PROVE  BaselineInv'
BY BaselineMove DEF Return, Recovering

LEMMA BaselineThrow ==
    ASSUME TypeOK, BaselineInv, NEW p \in Workers, Throw(p), UNCHANGED <<control, proposals>>
    PROVE  BaselineInv'
BY BaselineMove, BaselineReturn DEF Throw, Recovering

LEMMA BaselineSettle ==
    ASSUME TypeOK, BaselineInv, NEW p \in Workers, NEW status, Settle(p, status),
           UNCHANGED <<control, proposals>>
    PROVE  BaselineInv'
BY BaselineMove DEF Settle, Recovering

LEMMA BaselinePropose ==
    ASSUME TypeOK, BaselineInv, NEW p \in Workers, Propose(p, "BUY", 0), UNCHANGED control
    PROVE  BaselineInv'
<1> DEFINE new == [cycle |-> loc[p].cycle, side |-> "BUY", basis |-> 0]
<1>1. new \in Proposal /\ proposals \in Seq(Proposal) /\ new.side = "BUY"
  BY DEF TypeOK, Local, Proposal
<1>2. proposals' = Append(proposals, new) /\ UNCHANGED control
      /\ \E l : Goto(p, "save_proposed", l)
  BY DEF Propose
<1>3. pc'[p] = "save_proposed" /\ \A q \in Workers \ {p} : pc'[q] = pc[q]
  BY <1>2, GotoMoves
<1> HIDE DEF new
<1>4. \A i \in DOMAIN proposals' : \/ i \in DOMAIN proposals /\ proposals'[i] = proposals[i]
                                   \/ proposals'[i] = new
  BY <1>1, <1>2
<1> QED BY <1>1, <1>2, <1>3, <1>4 DEF BaselineInv, Recovering

LEMMA BaselineContinue ==
    ASSUME TypeOK, BaselineInv, NEW p \in Workers, Continue(p)
    PROVE  BaselineInv'
<1> USE DEF Recovering
<1>1. CASE TickControl(p) \/ TickLease(p) \/ TickLeased(p) \/ TickFindRun(p)
  BY <1>1, BaselineMove, BaselineReturn
     DEF TickControl, TickLease, TickLeased, TickFindRun, rows
<1>2. CASE TickCreateRun(p)
  BY <1>2, BaselineMove, BaselineThrow DEF TickCreateRun
<1>3. CASE TickRelease(p) \/ TickReleaseError(p)
  BY <1>3, BaselineReturn DEF TickRelease, TickReleaseError
<1>4. CASE AdvanceReadRun(p)
  BY <1>4, BaselineMove DEF AdvanceReadRun, rows
<1>5. CASE AdvanceReadControl(p)
  <2>1. PICK step \in Steps, l \in Local : Goto(p, step, l) /\ step \notin Recovering
    BY <1>5, ControlRead DEF BaselineInv
  <2> QED BY <1>5, <2>1, BaselineMove DEF AdvanceReadControl, rows
<1>6. CASE SaveResearching(p) \/ SaveProposed(p) \/ SaveSettled(p)
  BY <1>6, BaselineMove DEF SaveResearching, SaveProposed, SaveSettled, SaveRun
<1>7. CASE SaveRecovering(p) \/ RecoverRead(p) \/ RecoverAgain(p) \/ RecoverPropose(p)
  BY <1>7 DEF BaselineInv, SaveRecovering, SaveRun, RecoverRead, RecoverAgain, RecoverPropose
<1>8. CASE Research(p)
  BY <1>8, BaselineMove, BaselineSettle DEF Research, rows
<1>9. CASE ProposeBaseline(p)
  BY <1>9, BaselineMove, BaselinePropose DEF ProposeBaseline
<1>10. CASE ProposeFails(p) \/ PaperKeeps(p) \/ PaperFails(p)
  BY <1>10, BaselineSettle DEF ProposeFails, PaperKeeps, PaperFails, rows
<1>11. CASE RecoverThrows(p)
  BY <1>11, BaselineThrow DEF RecoverThrows, rows
<1>12. CASE PaperFind(p)
  BY <1>12, BaselineMove, BaselineSettle DEF PaperFind, Unapproved, rows
<1>13. CASE PaperFill(p)
  BY <1>13, BaselineSettle DEF PaperFill
<1> QED BY <1>1, <1>2, <1>3, <1>4, <1>5, <1>6, <1>7, <1>8, <1>9, <1>10, <1>11, <1>12, <1>13
        DEF Continue

LEMMA BaselineStep ==
    ASSUME "reducing" \notin Requested
    PROVE  TypeOK /\ BaselineInv /\ [Next]_vars => BaselineInv'
<1> SUFFICES ASSUME TypeOK, BaselineInv, [Next]_vars PROVE BaselineInv'
  OBVIOUS
<1>1. CASE \/ UNCHANGED vars
           \/ \E state \in Requested : UpdateControl(state)
           \/ PassTime
           \/ LeaseExpires
  BY <1>1 DEF vars, rows, UpdateControl, PassTime, LeaseExpires, BaselineInv
<1>2. ASSUME NEW p \in Workers, Crash(p) PROVE BaselineInv'
  BY <1>2, BaselineReturn DEF Crash, rows
<1>3. ASSUME NEW p \in Workers, Start(p) PROVE BaselineInv'
  <2>1. PICK l : Goto(p, "tick_control", l) \/ Goto(p, "advance_run", l)
    BY <1>3 DEF Start, TickRead, AdvanceRequest
  <2>2. UNCHANGED <<control, proposals>>
    BY <1>3 DEF Start, TickRead, AdvanceRequest, rows
  <2> QED BY <2>1, <2>2, BaselineMove DEF Recovering
<1>4. ASSUME NEW p \in Workers, Continue(p) PROVE BaselineInv'
  BY <1>4, BaselineContinue
<1> QED BY <1>1, <1>2, <1>3, <1>4 DEF Next

LEMMA BaselineInvariant ==
    ASSUME "reducing" \notin Requested PROVE Spec => []BaselineInv
<1>1. Init => BaselineInv
  BY DEF Init, BaselineInv, Recovering
<1>2. TypeOK /\ BaselineInv /\ [Next]_vars => BaselineInv'
  BY BaselineStep
<1>3. Spec => []TypeOK
  BY TypeCorrect
<1> QED BY <1>1, <1>2, <1>3, PTL DEF Spec

-----------------------------------------------------------------------------
(* The theorems. *)

\* While leases outlive their holders and no run is advanced by hand, a cycle buys at most
\* once (OneBuyPerCycle), however often it is ticked, forced, crashed and resumed.
THEOREM BuysOnce == ASSUME OneAtATime PROVE Spec => []OneBuyPerCycle
<1>1. ASSUME CycleInv PROVE OneBuyPerCycle
  <2> SUFFICES ASSUME NEW c \in Cycles PROVE Cardinality(Sides(c, "BUY")) <= 1
    BY DEF OneBuyPerCycle
  <2>1. \A i, j \in Sides(c, "BUY") : i = j
    BY <1>1 DEF Sides, CycleInv, BoughtOnce, FillsOK, FillOK, Buys
  <2>2. CASE Sides(c, "BUY") = {}
    BY <2>2, FS_EmptySet
  <2>3. CASE Sides(c, "BUY") # {}
    <3>1. PICK i : Sides(c, "BUY") = {i}
      BY <2>1, <2>3
    <3> QED BY <3>1, FS_Singleton
  <2> QED BY <2>2, <2>3
<1> QED BY <1>1, CycleInvariant, PTL

\* Without forced ticks, too, no cycle that the schedule has moved past was left half way
\* or never started (ConsumedCyclesSettled).
THEOREM ConsumedSettled ==
    ASSUME OneAtATime, Forcers = {} PROVE Spec => []ConsumedCyclesSettled
<1>1. CycleInv => ConsumedCyclesSettled
  BY DEF CycleInv, ConsumedOK, ConsumedCyclesSettled
<1> QED BY <1>1, CycleInvariant, PTL

\* If the control is never reducing, every fill is the proposal of its cycle's run
\* (FillsTraced): a crash between the proposal, the fill and the run's last save leaves no
\* fill that no run names.
THEOREM EveryFillTraced ==
    ASSUME OneAtATime, "reducing" \notin Requested PROVE Spec => []FillsTraced
<1>1. ASSUME TypeOK, CycleInv, BaselineInv PROVE FillsTraced
  <2> SUFFICES ASSUME NEW i \in DOMAIN fills
               PROVE  runs[proposals[fills[i]].cycle].proposal = fills[i]
    BY DEF FillsTraced
  <2> DEFINE c == proposals[fills[i]].cycle
             id == runs[c].proposal
  <2>1. fills[i] \in DOMAIN proposals /\ FillOK(fills[i], runs, proposals)
    BY <1>1 DEF CycleInv, FillsOK, FillOK
  <2>2. Traced(runs[c], fills[i], proposals)
    BY <1>1, <2>1 DEF FillOK, Buys, BaselineInv
  <2>3. c \in Cycles
    <3>1. proposals[fills[i]] \in Proposal
      BY <1>1, <2>1, ElementOfSeq DEF TypeOK
    <3> QED BY <3>1 DEF Proposal
  <2>4. Buys(id, proposals)
    BY <1>1, <2>2, <2>3 DEF Traced, CycleInv, RunsOK, Of, BaselineInv, Buys
  <2> QED BY <2>2, <2>4 DEF Traced
<1> QED BY <1>1, CycleInvariant, BaselineInvariant, PTL

=============================================================================
