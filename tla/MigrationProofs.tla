---------------------------- MODULE MigrationProofs ----------------------------
(***************************************************************************)
(* The safety of Migration, for any number of replicas, of retries and of  *)
(* months.                                                                 *)
(***************************************************************************)
EXTENDS Migration, TLAPS

------------------------------------------------------------------------------
(* The inductive invariant *)

Able == {r \in Replicas : PoolMax[r] > 1}

\* What statement j makes, in a migration that began in month m.
Made(j, m) == IF j <= 2 THEN j ELSE j + m

\* Only who has a second client comes to create.
CreatorsAble == \A r \in Replicas : pc[r] = "create" => PoolMax[r] > 1

\* What a migration has behind it exists.
Behind ==
  \A r \in Replicas : \A j \in 1 .. Statements :
    pc[r] = "done" \/ (pc[r] \in {"check", "create", "backoff"} /\ j < at[r])
      => Made(j, now[r]) \in schema

\* Nothing others did can make it fail before its next look.
Safe(r) == pc[r] # "failed" /\ (pc[r] = "create" => Object(r) \notin schema)

\* As long as the database fails nobody, one of those that can succeed is safe.
SomeoneSafe == hurt = {} /\ Able # {} => \E r \in Able : Safe(r)

IInv == TypeOK /\ CreatorsAble /\ Behind /\ SomeoneSafe

------------------------------------------------------------------------------
(* Lemmas *)

LEMMA Numbers ==
  /\ Statements \in Nat /\ Statements >= 3 /\ Statements = 2 + Ahead
  /\ Retries \in Nat /\ LastMonth \in Nat /\ Ahead \in Nat /\ Ahead >= 1
  BY MigrationAssumption DEF Statements

\* The statements make what is wanted.
LEMMA WantedMade ==
  ASSUME NEW m \in Nat, NEW S, \A j \in 1 .. Statements : Made(j, m) \in S
  PROVE  Wanted(m) \subseteq S
<1> SUFFICES ASSUME NEW o \in Wanted(m) PROVE o \in S
  OBVIOUS
<1>1. CASE o \in {1, 2}
  BY <1>1, Numbers DEF Made
<1>2. ASSUME NEW i \in 1 .. Ahead, o = 2 + m + i PROVE o \in S
  <2>1. 2 + i \in 1 .. Statements /\ Made(2 + i, m) = o
    BY <1>2, Numbers DEF Made
  <2>2. QED BY <2>1
<1>3. QED BY <1>1, <1>2 DEF Wanted

LEMMA ObjectMade ==
  ASSUME TypeOK, NEW r \in Replicas
  PROVE  Object(r) = Made(at[r], now[r]) /\ Object(r) \in 1 .. Statements + LastMonth
  BY Numbers DEF TypeOK, Object, Made

\* A statement that is done keeps the types, and what is behind the replica.
LEMMA AdvanceKeeps ==
  ASSUME TypeOK, Behind, NEW r \in Replicas, pc[r] \in {"check", "create"}, Advance(r),
         schema \subseteq schema', Object(r) \in schema'
  PROVE  /\ pc' \in [Replicas -> {"idle", "lock", "check", "create", "backoff", "done", "failed"}]
         /\ at' \in [Replicas -> 1 .. Statements]
         /\ now' \in [Replicas -> 0 .. LastMonth]
         /\ tries' \in [Replicas -> 0 .. Retries]
         /\ Behind'
         /\ pc'[r] \in {"check", "done"} /\ \A s \in Replicas \ {r} : pc'[s] = pc[s]
<1> USE Numbers DEF TypeOK
<1>1. /\ at' \in [Replicas -> 1 .. Statements]
      /\ now' \in [Replicas -> 0 .. LastMonth]
      /\ tries' \in [Replicas -> 0 .. Retries]
      /\ pc' \in [Replicas -> {"idle", "lock", "check", "create", "backoff", "done", "failed"}]
  BY DEF Advance, Goto
<1>2. pc'[r] \in {"check", "done"} /\ \A s \in Replicas \ {r} : pc'[s] = pc[s]
  BY DEF Advance, Goto
<1>3. Behind'
  <2> SUFFICES ASSUME NEW s \in Replicas, NEW j \in 1 .. Statements,
                      pc'[s] = "done" \/ (pc'[s] \in {"check", "create", "backoff"} /\ j < at'[s])
               PROVE  Made(j, now'[s]) \in schema'
    BY DEF Behind
  <2>1. CASE s # r
    <3>1. pc'[s] = pc[s] /\ at'[s] = at[s] /\ now'[s] = now[s]
      BY <2>1 DEF Advance, Goto
    <3>2. QED BY <3>1 DEF Behind
  <2>2. CASE s = r
    <3>1. j < at[r] => Made(j, now[r]) \in schema'
      BY DEF Behind
    <3>2. j <= at[r]
      <4>1. CASE at[r] = Statements BY <4>1
      <4>2. CASE at[r] # Statements
        BY <2>2, <4>2 DEF Advance, Goto
      <4>3. QED BY <4>1, <4>2
    <3>3. j <= at[r] => Made(j, now[r]) \in schema'
      BY <3>1, ObjectMade
    <3>4. now'[r] = now[r] \/ (at[r] = 2 /\ j <= 2)
      BY <3>2 DEF Advance
    <3>5. Made(j, now'[r]) = Made(j, now[r])
      BY <3>4 DEF Made
    <3>6. QED BY <2>2, <3>2, <3>3, <3>5
  <2>3. QED BY <2>1, <2>2
<1>4. QED BY <1>1, <1>2, <1>3

LEMMA InitIInv == Init => IInv
<1> SUFFICES ASSUME Init PROVE IInv
  OBVIOUS
<1> USE Numbers
<1>1. Wanted(0) \subseteq 1 .. Statements + LastMonth
  BY DEF Wanted
<1>2. TypeOK
  BY <1>1 DEF Init, TypeOK
<1>3. CreatorsAble /\ Behind /\ SomeoneSafe
  BY DEF Init, CreatorsAble, Behind, SomeoneSafe, Safe, Able
<1>4. QED BY <1>2, <1>3 DEF IInv

\* Types, and who comes to create.
LEMMA StepTypes == TypeOK /\ CreatorsAble /\ Behind /\ [Next]_vars => TypeOK' /\ CreatorsAble'
<1> SUFFICES ASSUME TypeOK, CreatorsAble, Behind, [Next]_vars PROVE TypeOK' /\ CreatorsAble'
  OBVIOUS
<1> USE Numbers DEF TypeOK, CreatorsAble
<1>1. CASE MonthPasses
  BY <1>1 DEF MonthPasses, local
<1>2. ASSUME NEW r \in Replicas, Start(r) PROVE TypeOK' /\ CreatorsAble'
  BY <1>2 DEF Start, Goto
<1>3. ASSUME NEW r \in Replicas, Lock(r) PROVE TypeOK' /\ CreatorsAble'
  BY <1>3 DEF Lock, Goto
<1>4. ASSUME NEW r \in Replicas, Check(r) PROVE TypeOK' /\ CreatorsAble'
  <2>1. CASE Advance(r) /\ Object(r) \in schema
    BY <1>4, <2>1, AdvanceKeeps DEF Check
  <2>2. CASE Goto(r, "create") /\ UNCHANGED <<at, now, tries>>
    BY <1>4, <2>2 DEF Check, Goto
  <2>3. QED BY <1>4, <2>1, <2>2 DEF Check
<1>5. ASSUME NEW r \in Replicas, NoSecondClient(r) PROVE TypeOK' /\ CreatorsAble'
  BY <1>5 DEF NoSecondClient, Goto
<1>6. ASSUME NEW r \in Replicas, Create(r) PROVE TypeOK' /\ CreatorsAble'
  <2>1. CASE schema' = schema \cup {Object(r)} /\ Advance(r)
    <3>1. schema' \subseteq 1 .. Statements + LastMonth
      BY <2>1, ObjectMade
    <3>2. QED BY <1>6, <2>1, <3>1, AdvanceKeeps DEF Create
  <2>2. CASE Goto(r, "failed") /\ UNCHANGED <<schema, at, now, tries>>
    BY <1>6, <2>2 DEF Create, Goto
  <2>3. QED BY <1>6, <2>1, <2>2 DEF Create
<1>7. ASSUME NEW r \in Replicas, QueryFails(r) PROVE TypeOK' /\ CreatorsAble'
  <2>1. schema' \subseteq 1 .. Statements + LastMonth
    BY <1>7, ObjectMade DEF QueryFails
  <2>2. QED BY <1>7, <2>1 DEF QueryFails, Retry, Goto
<1>8. ASSUME NEW r \in Replicas, BackOffEnds(r) \/ Abort(r) PROVE TypeOK' /\ CreatorsAble'
  BY <1>8 DEF BackOffEnds, Abort, Goto
<1>9. CASE UNCHANGED vars
  BY <1>9 DEF vars, local
<1>10. QED
  BY <1>1, <1>2, <1>3, <1>4, <1>5, <1>6, <1>7, <1>8, <1>9 DEF Next, Step

\* What is behind a migration stays.
LEMMA StepBehind == TypeOK /\ Behind /\ [Next]_vars => Behind'
<1> SUFFICES ASSUME TypeOK, Behind, [Next]_vars PROVE Behind'
  OBVIOUS
<1> USE Numbers DEF TypeOK
<1>1. CASE MonthPasses \/ UNCHANGED vars
  BY <1>1 DEF MonthPasses, vars, local, Behind
<1>2. ASSUME NEW r \in Replicas, Start(r) PROVE Behind'
  BY <1>2 DEF Start, Goto, Behind
<1>3. ASSUME NEW r \in Replicas, Lock(r) PROVE Behind'
  BY <1>3 DEF Lock, Goto, Behind
<1>4. ASSUME NEW r \in Replicas, Check(r) PROVE Behind'
  <2>1. CASE Advance(r) /\ Object(r) \in schema
    BY <1>4, <2>1, AdvanceKeeps DEF Check
  <2>2. CASE Goto(r, "create") /\ UNCHANGED <<at, now, tries>>
    BY <1>4, <2>2 DEF Check, Goto, Behind
  <2>3. QED BY <1>4, <2>1, <2>2 DEF Check
<1>5. ASSUME NEW r \in Replicas, NoSecondClient(r) \/ Abort(r) PROVE Behind'
  BY <1>5 DEF NoSecondClient, Abort, Goto, Behind
<1>6. ASSUME NEW r \in Replicas, Create(r) PROVE Behind'
  <2>1. CASE schema' = schema \cup {Object(r)} /\ Advance(r)
    BY <1>6, <2>1, AdvanceKeeps DEF Create
  <2>2. CASE Goto(r, "failed") /\ UNCHANGED <<schema, at, now, tries>>
    BY <2>2 DEF Goto, Behind
  <2>3. QED BY <1>6, <2>1, <2>2 DEF Create
<1>7. ASSUME NEW r \in Replicas, QueryFails(r) PROVE Behind'
  BY <1>7 DEF QueryFails, Retry, Goto, Behind
<1>8. ASSUME NEW r \in Replicas, BackOffEnds(r) PROVE Behind'
  BY <1>8 DEF BackOffEnds, Goto, Behind
<1>9. QED
  BY <1>1, <1>2, <1>3, <1>4, <1>5, <1>6, <1>7, <1>8 DEF Next, Step

\* Who makes an object is safe afterwards, whomever it takes by surprise.
LEMMA StepSafe == TypeOK /\ CreatorsAble /\ SomeoneSafe /\ Behind /\ [Next]_vars => SomeoneSafe'
<1> SUFFICES ASSUME TypeOK, CreatorsAble, SomeoneSafe, Behind, [Next]_vars,
                    hurt' = {}, Able # {}
             PROVE  \E r \in Able : Safe(r)'
  BY DEF SomeoneSafe, Able
<1> USE DEF TypeOK
<1>1. hurt = {}
  BY DEF Next, MonthPasses, Start, Step, Lock, Check, NoSecondClient, Create, QueryFails,
         Retry, BackOffEnds, Abort, vars
<1>2. PICK s \in Able : Safe(s)
  BY <1>1 DEF SomeoneSafe
<1>3. s \in Replicas /\ PoolMax[s] > 1
  BY DEF Able
<1>4. CASE MonthPasses \/ UNCHANGED vars
  BY <1>2, <1>3, <1>4 DEF MonthPasses, vars, local, Safe, Object
<1>5. ASSUME NEW r \in Replicas, schema' = schema,
             r # s => pc'[s] = pc[s] /\ at'[s] = at[s] /\ now'[s] = now[s],
             r = s => pc'[s] # "failed" /\ (pc'[s] = "create" => Object(s)' \notin schema)
      PROVE  Safe(s)'
  BY <1>2, <1>3, <1>5 DEF Safe, Object
<1>6. ASSUME NEW r \in Replicas, r \in Able, pc'[r] \in {"check", "backoff", "done"}
      PROVE  \E q \in Able : Safe(q)'
  BY <1>6 DEF Safe
<1>7. ASSUME NEW r \in Replicas, Start(r) \/ Lock(r) \/ BackOffEnds(r) PROVE Safe(s)'
  BY <1>3, <1>5, <1>7 DEF Start, Lock, BackOffEnds, Goto
<1>8. ASSUME NEW r \in Replicas, Check(r) PROVE \E q \in Able : Safe(q)'
  <2>1. CASE Advance(r) /\ Object(r) \in schema
    <3>1. pc'[r] \in {"check", "done"}
      BY <1>8, <2>1, AdvanceKeeps DEF Check
    <3>2. QED BY <1>6, <1>8, <3>1 DEF Check, Able
  <2>2. CASE Object(r) \notin schema /\ Goto(r, "create") /\ UNCHANGED <<at, now, tries>>
    <3>1. Safe(s)'
      BY <1>3, <1>5, <1>8, <2>2 DEF Check, Goto, Object
    <3>2. QED BY <3>1
  <2>3. QED BY <1>8, <2>1, <2>2 DEF Check
<1>9. ASSUME NEW r \in Replicas, NoSecondClient(r) PROVE Safe(s)'
  <2>1. r # s
    BY <1>3, <1>9, MigrationAssumption DEF NoSecondClient
  <2>2. QED BY <1>5, <1>9, <2>1 DEF NoSecondClient, Goto
<1>10. ASSUME NEW r \in Replicas, Create(r) PROVE \E q \in Able : Safe(q)'
  <2>1. CASE schema' = schema \cup {Object(r)} /\ Advance(r)
    <3>1. pc'[r] \in {"check", "done"}
      BY <1>10, <2>1, AdvanceKeeps DEF Create
    <3>2. QED BY <1>6, <1>10, <3>1 DEF Create, Able, CreatorsAble
  <2>2. CASE Object(r) \in schema /\ Goto(r, "failed") /\ UNCHANGED <<schema, at, now, tries>>
    <3>1. r # s
      BY <1>2, <1>10, <2>2 DEF Create, Safe
    <3>2. Safe(s)'
      BY <1>3, <1>5, <2>2, <3>1 DEF Goto
    <3>3. QED BY <3>2
  <2>3. QED BY <1>10, <2>1, <2>2 DEF Create
<1>11. ASSUME NEW r \in Replicas, QueryFails(r) PROVE \E q \in Able : Safe(q)'
  <2>1. pc'[r] = "backoff"
    BY <1>11 DEF QueryFails, Retry, Goto
  <2>2. QED BY <1>6, <1>11, <2>1 DEF QueryFails, Able
<1>12. ASSUME NEW r \in Replicas, Abort(r) PROVE FALSE
  BY <1>12 DEF Abort
<1>13. QED
  BY <1>4, <1>7, <1>8, <1>9, <1>10, <1>11, <1>12 DEF Next, Step

LEMMA StepIInv == IInv /\ [Next]_vars => IInv'
  BY StepTypes, StepBehind, StepSafe DEF IInv

------------------------------------------------------------------------------
(* Theorems *)

\* Every state satisfies the invariant.
THEOREM Invariance == Spec => []IInv
<1>1. QED BY InitIInv, StepIInv, PTL DEF Spec

\* The types, and with them the bound on the retries of executeWithRetry.
THEOREM TypeCorrect == Spec => []TypeOK
<1>1. IInv => TypeOK
  BY DEF IInv
<1>2. QED BY Invariance, <1>1, PTL

\* Whoever else migrates, and whatever is retried, migrate() returns only with every table
\* and partition there.
THEOREM Complete == Spec => []SuccessMeansComplete
<1>1. IInv => SuccessMeansComplete
  <2> SUFFICES ASSUME IInv, NEW r \in Replicas, pc[r] = "done"
               PROVE  Wanted(now[r]) \subseteq schema
    BY DEF SuccessMeansComplete
  <2>1. now[r] \in Nat
    BY Numbers DEF IInv, TypeOK
  <2>2. QED BY <2>1, WantedMade DEF IInv, Behind
<1>2. QED BY Invariance, <1>1, PTL

\* Replicas that migrate at once, without a lock that works, do not all make each other
\* fail.
THEOREM NotAllFail == Spec => []SomeoneSucceeds
<1>1. IInv => SomeoneSucceeds
  BY DEF IInv, SomeoneSafe, SomeoneSucceeds, Able, Safe
<1>2. QED BY Invariance, <1>1, PTL

================================================================================
