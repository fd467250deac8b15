---------------------------- MODULE ReadinessProofs ----------------------------
(***************************************************************************)
(* The safety of Readiness, for any number of probes, requests and clients *)
(* of the pool.                                                            *)
(***************************************************************************)
EXTENDS Readiness, TLAPS

------------------------------------------------------------------------------
(* The inductive invariant *)

\* Nobody holds two clients: a release gives back all there is.
OneEach == \A c, d \in Conns : holder[c] # Nobody /\ holder[c] = holder[d] => c = d

\* What is up while a probe is under way was seen by it, and so was what it found.
Witnessed ==
  \A p \in Probes :
    /\ dpc[p] # "off" \/ cpc[p] # "off" => Up \subseteq seen[p]
    /\ dpc[p] = "ok" => "db" \in seen[p]
    /\ cpc[p] = "ok" => "cache" \in seen[p]

IInv == TypeOK /\ ClientsReturn /\ OneEach /\ Witnessed /\ ReadyIsTrue

------------------------------------------------------------------------------
(* Lemmas *)

LEMMA InitIInv == Init => IInv
  BY ReadinessAssumption
     DEF Init, IInv, TypeOK, ClientsReturn, OneEach, Witnessed, ReadyIsTrue, Up, Off, Unasked,
         AllIdle, NoneOut, NoneAhead

LEMMA StepTypes == TypeOK /\ [Next]_vars => TypeOK'
<1> SUFFICES ASSUME TypeOK, [Next]_vars PROVE TypeOK'
  OBVIOUS
<1> USE ReadinessAssumption DEF TypeOK
<1>1. ASSUME NEW p \in Probes, Probe(p) PROVE TypeOK'
  BY <1>1 DEF Probe, Up
<1>2. ASSUME NEW p \in Probes, CheckStep(p) PROVE TypeOK'
  <2>1. CASE ProbeConnects(p) BY <2>1 DEF ProbeConnects, Idle
  <2>2. CASE ProbeGetsNone(p) BY <2>2 DEF ProbeGetsNone
  <2>3. CASE TimerFires(p)
    <3>1. ahead' \in [Conns -> 0 .. MaxAhead]
      BY <2>3 DEF TimerFires, Abandon
    <3>2. QED BY <2>3, <3>1 DEF TimerFires, Free
  <2>4. CASE Ping(p) BY <2>4 DEF Ping
  <2>5. CASE Conclude(p) BY <2>5 DEF Conclude
  <2>6. CASE ProbeRejected(p) BY <2>6 DEF ProbeRejected, Free
  <2>7. QED BY <1>2, <2>1, <2>2, <2>3, <2>4, <2>5, <2>6 DEF CheckStep
<1>3. ASSUME NEW u \in Users, Request(u) PROVE TypeOK'
  BY <1>3 DEF Request, Idle
<1>4. ASSUME NEW c \in Conns, Answer(c) PROVE TypeOK'
  BY <1>4 DEF Answer
<1>5. ASSUME NEW c \in Conns, BreakIdle(c) \/ BreakQueried(c) PROVE TypeOK'
  BY <1>5 DEF BreakIdle, BreakQueried
<1>6. ASSUME NEW c \in Conns, BreakHeld(c) PROVE TypeOK'
  BY <1>6 DEF BreakHeld, Off, Unasked, AllIdle, NoneOut, NoneAhead
<1>7. CASE Environment
  BY <1>7 DEF Environment, process, Up
<1>8. CASE UNCHANGED vars
  BY <1>8 DEF vars, process
<1>9. QED
  BY <1>1, <1>2, <1>3, <1>4, <1>5, <1>6, <1>7, <1>8 DEF Next

\* A client goes to one who has none, and comes back when its holder stops waiting.
LEMMA StepClients ==
  TypeOK /\ ClientsReturn /\ OneEach /\ [Next]_vars => ClientsReturn' /\ OneEach'
<1> SUFFICES ASSUME TypeOK, ClientsReturn, OneEach, [Next]_vars
             PROVE  ClientsReturn' /\ OneEach'
  OBVIOUS
<1> USE ReadinessAssumption DEF TypeOK, ClientsReturn, OneEach
<1>1. ASSUME NEW p \in Probes, Probe(p) PROVE ClientsReturn' /\ OneEach'
  BY <1>1 DEF Probe
<1>2. ASSUME NEW p \in Probes, CheckStep(p) PROVE ClientsReturn' /\ OneEach'
  <2>1. CASE ProbeConnects(p) BY <2>1 DEF ProbeConnects, Idle
  <2>2. CASE ProbeGetsNone(p) BY <2>2 DEF ProbeGetsNone
  <2>3. CASE TimerFires(p) BY <2>3 DEF TimerFires, Free
  <2>4. CASE Ping(p) BY <2>4 DEF Ping
  <2>5. CASE Conclude(p) BY <2>5 DEF Conclude
  <2>6. CASE ProbeRejected(p) BY <2>6 DEF ProbeRejected, Free
  <2>7. QED BY <1>2, <2>1, <2>2, <2>3, <2>4, <2>5, <2>6 DEF CheckStep
<1>3. ASSUME NEW u \in Users, Request(u) PROVE ClientsReturn' /\ OneEach'
  BY <1>3 DEF Request, Idle
<1>4. ASSUME NEW c \in Conns, Answer(c) PROVE ClientsReturn' /\ OneEach'
  BY <1>4 DEF Answer
<1>5. ASSUME NEW c \in Conns, BreakIdle(c) \/ BreakQueried(c)
      PROVE  ClientsReturn' /\ OneEach'
  BY <1>5 DEF BreakIdle, BreakQueried
<1>6. ASSUME NEW c \in Conns, BreakHeld(c) PROVE ClientsReturn' /\ OneEach'
  BY <1>6 DEF BreakHeld, NoneOut
<1>7. CASE Environment \/ UNCHANGED vars
  BY <1>7 DEF Environment, vars, process
<1>8. QED
  BY <1>1, <1>2, <1>3, <1>4, <1>5, <1>6, <1>7 DEF Next

\* A check that succeeds does so while its dependency is up, which the probe has seen.
LEMMA StepWitnessed ==
  TypeOK /\ ClientsReturn /\ Witnessed /\ ReadyIsTrue /\ [Next]_vars
    => Witnessed' /\ ReadyIsTrue'
<1> SUFFICES ASSUME TypeOK, ClientsReturn, Witnessed, ReadyIsTrue, [Next]_vars
             PROVE  Witnessed' /\ ReadyIsTrue'
  OBVIOUS
<1> USE ReadinessAssumption DEF TypeOK, Witnessed, ReadyIsTrue, Up
<1>1. ASSUME NEW p \in Probes, Probe(p) PROVE Witnessed' /\ ReadyIsTrue'
  BY <1>1 DEF Probe
<1>2. ASSUME NEW p \in Probes, CheckStep(p) PROVE Witnessed' /\ ReadyIsTrue'
  <2>1. CASE ProbeConnects(p) BY <2>1 DEF ProbeConnects
  <2>2. CASE ProbeGetsNone(p) BY <2>2 DEF ProbeGetsNone
  <2>3. CASE TimerFires(p) BY <2>3 DEF TimerFires
  <2>4. CASE Ping(p) BY <2>4 DEF Ping
  <2>5. CASE Conclude(p)
    <3>1. dpc[p] = "ok" /\ cpc[p] = "ok" => seen[p] = {"db", "cache"}
      OBVIOUS
    <3>2. QED BY <2>5, <3>1 DEF Conclude
  <2>6. CASE ProbeRejected(p) BY <2>6 DEF ProbeRejected, Free
  <2>7. QED BY <1>2, <2>1, <2>2, <2>3, <2>4, <2>5, <2>6 DEF CheckStep
<1>3. ASSUME NEW u \in Users, Request(u) PROVE Witnessed' /\ ReadyIsTrue'
  BY <1>3 DEF Request
<1>4. ASSUME NEW c \in Conns, Answer(c) PROVE Witnessed' /\ ReadyIsTrue'
  BY <1>4 DEF Answer, ClientsReturn
<1>5. ASSUME NEW c \in Conns, BreakIdle(c) \/ BreakQueried(c)
      PROVE  Witnessed' /\ ReadyIsTrue'
  BY <1>5 DEF BreakIdle, BreakQueried
<1>6. ASSUME NEW c \in Conns, BreakHeld(c) PROVE Witnessed' /\ ReadyIsTrue'
  BY <1>6 DEF BreakHeld, Off, Unasked
<1>7. CASE Environment
  BY <1>7 DEF Environment, process
<1>8. CASE UNCHANGED vars
  BY <1>8 DEF vars, process
<1>9. QED
  BY <1>1, <1>2, <1>3, <1>4, <1>5, <1>6, <1>7, <1>8 DEF Next

LEMMA StepIInv == IInv /\ [Next]_vars => IInv'
  BY StepTypes, StepClients, StepWitnessed DEF IInv

------------------------------------------------------------------------------
(* Theorems *)

\* Every state satisfies the invariant.
THEOREM Invariance == Spec => []IInv
<1>1. QED BY InitIInv, StepIInv, PTL DEF Spec

\* The types.
THEOREM TypeCorrect == Spec => []TypeOK
<1>1. IInv => TypeOK
  BY DEF IInv
<1>2. QED BY Invariance, <1>1, PTL

\* checkDatabase gives its client back in whatever way it ends.
THEOREM NoClientLost == Spec => []ClientsReturn
<1>1. IInv => ClientsReturn
  BY DEF IInv
<1>2. QED BY Invariance, <1>1, PTL

\* The readiness route answers 200 only if both dependencies were up while it was asked.
THEOREM ReadyMeansUp == Spec => []ReadyIsTrue
<1>1. IInv => ReadyIsTrue
  BY DEF IInv
<1>2. QED BY Invariance, <1>1, PTL

================================================================================
