--------------------- MODULE ThreadedHassHandler_proofs ---------------------
(***************************************************************************)
(* Proofs about ThreadedHassHandler, for any states, times and faults.     *)
(***************************************************************************)
EXTENDS ThreadedHassHandler, TLAPS

\* While the updater posts it holds mtx_, so what it posts is still the state
\* to report when the response comes.
PostedIsNext == updater = "posting" => payload = nextState

\* What Home Assistant shows comes from the POST under way only while that is
\* under way; once it has applied that POST, it no longer shows an older one
\* that was answered.
ShownByPost ==
    /\ shownBy = "underway" => applied /\ hass = payload
    /\ applied => updater = "posting" /\ shownBy # "answered"

IInv == TypeOK /\ AcknowledgedIsCurrent /\ ShownIsCurrent
        /\ PostedIsNext /\ ShownByPost

THEOREM InvariantHolds == Spec => []IInv
<1>1. ASSUME Init PROVE IInv
  <2>1. {currentState, nextState, payload, hass, acknowledged} \subseteq Reports
    BY <1>1 DEF Init
  <2>2. /\ pollLeft \in 0..PollTime /\ faults \in 0..FaultBound
        /\ sincePost \in Int /\ sincePost <= DebounceTime + 1
        /\ late \in [Reports -> Nat]
    BY <1>1, ThreadedAssumption DEF Init
  <2>3. TypeOK
    BY <1>1, <2>1, <2>2 DEF Init, TypeOK
  <2>4. AcknowledgedIsCurrent /\ ShownIsCurrent /\ PostedIsNext /\ ShownByPost
    BY <1>1 DEF Init, AcknowledgedIsCurrent, ShownIsCurrent, PostedIsNext, ShownByPost
  <2> QED BY <2>3, <2>4 DEF IInv
<1>2. ASSUME IInv, [Next]_vars PROVE IInv'
  <2> USE ThreadedAssumption DEF IInv
  <2>0. ASSUME UNCHANGED <<stateVars, homeVars>>, TypeOK',
               updater = "posting" => updater' = "posting",
               updater' = "posting" => updater = "posting"
        PROVE  IInv'
    BY <1>2, <2>0
       DEF stateVars, homeVars, AcknowledgedIsCurrent, ShownIsCurrent, PostedIsNext,
           ShownByPost
  <2>1. CASE Prologue
    <3>1. TypeOK'
      BY <1>2, <2>1 DEF Prologue, stateVars, homeVars, TypeOK
    <3> QED BY <2>0, <2>1, <3>1 DEF Prologue
  <2>2. ASSUME NEW report \in Reports, Frame(report) PROVE IInv'
    <3>1. TypeOK'
      BY <1>2, <2>2 DEF Frame, stateVars, homeVars, TypeOK
    <3> QED BY <2>0, <2>2, <3>1 DEF Frame
  <2>3. CASE Report
    BY <1>2, <2>3
       DEF Report, MutexFree, homeVars, TypeOK, AcknowledgedIsCurrent, ShownIsCurrent,
           PostedIsNext, ShownByPost
  <2>4. CASE Wake
    <3>1. ~applied /\ shownBy # "underway"
      BY <1>2, <2>4 DEF Wake, ShownByPost
    <3>2. TypeOK'
      BY <1>2, <2>4 DEF Wake, LoopOrEnd, homeVars, TypeOK
    <3> QED BY <1>2, <2>4, <3>1, <3>2
            DEF Wake, LoopOrEnd, homeVars, AcknowledgedIsCurrent, ShownIsCurrent,
                PostedIsNext, ShownByPost
  <2>5. CASE HassApplies
    BY <1>2, <2>5
       DEF HassApplies, stateVars, TypeOK, AcknowledgedIsCurrent, ShownIsCurrent,
           PostedIsNext, ShownByPost
  <2>6. ASSUME NEW report \in Reports, HassAppliesLate(report) PROVE IInv'
    <3>1. late' \in [Reports -> Nat]
      BY <1>2, <2>6 DEF HassAppliesLate, TypeOK
    <3> QED BY <1>2, <2>6, <3>1
            DEF HassAppliesLate, stateVars, TypeOK, AcknowledgedIsCurrent,
                ShownIsCurrent, PostedIsNext, ShownByPost
  <2>7. ASSUME NEW outcome \in AllOutcomes, PostEnds(outcome) PROVE IInv'
    <3>1. payload = nextState /\ UNCHANGED <<frame, nextState, payload, stopping, hass>>
      BY <1>2, <2>7 DEF PostEnds, Concluded, PostedIsNext
    <3>2. updater' \in {"ended", "waiting"} /\ pollLeft' = PollTime
      BY <2>7 DEF PostEnds, LoopOrEnd
    <3>3. AcknowledgedIsCurrent' /\ currentState' \in {currentState, payload}
      BY <1>2, <2>7, <3>1 DEF PostEnds, AcknowledgedIsCurrent
    <3>4. applied' = FALSE /\ shownBy' \in {"answered", "lost"}
      BY <1>2, <2>7 DEF PostEnds, Concluded, TypeOK
    <3>5. ShownIsCurrent'
      <4>1. CASE outcome = "ok"
        <5>1. shownBy # "answered" /\ (shownBy = "underway" => hass = nextState)
          BY <1>2, <2>7, <3>1, <4>1 DEF PostEnds, Concluded, ShownByPost
        <5> QED BY <1>2, <2>7, <3>1, <4>1, <5>1
                DEF PostEnds, Concluded, ShownIsCurrent
      <4>2. CASE outcome # "ok"
        BY <1>2, <2>7, <3>1, <4>2 DEF PostEnds, Concluded, ShownIsCurrent
      <4> QED BY <4>1, <4>2
    <3>6. late' \in [Reports -> Nat]
      BY <1>2, <2>7 DEF PostEnds, Concluded, TypeOK
    <3>7. sincePost' \in {sincePost, 0} /\ faults' \in 0..FaultBound
      BY <1>2, <2>7 DEF PostEnds, Concluded, TypeOK
    <3>8. TypeOK'
      <4>1. {currentState', nextState', payload', hass', acknowledged'} \subseteq Reports
        BY <1>2, <3>1, <3>3 DEF TypeOK, AcknowledgedIsCurrent
      <4>2. /\ pollLeft' \in 0..PollTime
            /\ sincePost' \in Int /\ sincePost' <= DebounceTime + 1
        BY <1>2, <3>2, <3>7 DEF TypeOK
      <4> QED BY <1>2, <3>1, <3>2, <3>4, <3>6, <3>7, <4>1, <4>2 DEF TypeOK
    <3>9. PostedIsNext' /\ ShownByPost'
      BY <3>2, <3>4 DEF PostedIsNext, ShownByPost
    <3> QED BY <3>3, <3>5, <3>8, <3>9
  <2>8. CASE Stop
    <3>1. TypeOK'
      BY <1>2, <2>8 DEF Stop, stateVars, homeVars, TypeOK
    <3> QED BY <2>0, <2>8, <3>1 DEF Stop
  <2>9. CASE Tick
    <3>1. TypeOK'
      BY <1>2, <2>9 DEF Tick, stateVars, homeVars, TypeOK
    <3> QED BY <2>0, <2>9, <3>1 DEF Tick
  <2>10. CASE UNCHANGED vars
    <3>1. TypeOK'
      BY <1>2, <2>10 DEF vars, stateVars, homeVars, TypeOK
    <3> QED BY <2>0, <2>10, <3>1 DEF vars
  <2> QED BY <1>2, <2>1, <2>2, <2>3, <2>4, <2>5, <2>6, <2>7, <2>8, <2>9, <2>10 DEF Next
<1> QED BY <1>1, <1>2, PTL DEF Spec

\* Type correctness, for any times (ThreadedHassHandler.cxx).
THEOREM TypeCorrect == Spec => []TypeOK
BY InvariantHolds, PTL DEF IInv

\* currentState_ is the state Home Assistant last acknowledged, for any reports
\* and faults (BaseHassHandler.cxx:155-185 under ThreadedHassHandler.cxx:48).
THEOREM AcknowledgedStateIsCurrent == Spec => []AcknowledgedIsCurrent
BY InvariantHolds, PTL DEF IInv

\* What Home Assistant shows is currentState_ unless a POST is under way or it
\* shows one whose answer was never read, for any reports and faults and however
\* late those POSTs are applied (ThreadedHassHandler.cxx:48-65).
THEOREM ShownStateIsCurrent == Spec => []ShownIsCurrent
BY InvariantHolds, PTL DEF IInv

=============================================================================
