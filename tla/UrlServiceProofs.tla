--------------------------- MODULE UrlServiceProofs ---------------------------
(***************************************************************************)
(* The safety of UrlService, for any number of requests, processes,        *)
(* clients per pool, URLs and sequence values.                             *)
(***************************************************************************)
EXTENDS UrlService, FiniteSetTheorems, TLAPS

------------------------------------------------------------------------------
(* The inductive invariant *)

PostLocations == PostHolds \cup {"idle", "connect", "done", "dead"}
GetLocations == {"idle", "lookup", "select", "read", "fill", "done", "dead"}

\* Requests stand where their handler can bring them, and an answer is final.
Placed ==
  /\ \A p \in Posts : pc[p] \in PostLocations
  /\ \A g \in Gets : pc[g] \in GetLocations
  /\ \A r \in Requests : pc[r] # "done" => status[r] = 0

\* A POST owns the identifier it drew until it gives its row up or for good.
Owns(p) == pc[p] \in Drafting \cup {"warm"} \/ status[p] = 201

\* What a POST has drawn comes from the sequence and from its own body.
DraftsIssued ==
  \A p \in Posts : Owns(p) =>
    /\ row[p] \in Row
    /\ row[p].id <= seq
    /\ row[p].alias = AliasOf[row[p].id]
    /\ row[p].url = Clean[body[p]]

RowsIssued == \A x \in rows : x.id <= seq /\ x.alias = AliasOf[x.id]

\* The heart of the collision-free strategy: an identifier has one owner, and is
\* in the table only once its owner has committed.
IdsDistinct ==
  /\ \A p, q \in Posts : p # q /\ Owns(p) /\ Owns(q) => row[p].id # row[q].id
  /\ \A p \in Posts : pc[p] \in Drafting => \A x \in rows : x.id # row[p].id

\* What a request is about to put into the cache, or to answer with, is committed.
PendingIsDurable ==
  /\ \A p \in Posts : pc[p] = "warm" => row[p] \in rows
  /\ \A g \in Gets : pc[g] = "fill" => row[g] \in rows /\ row[g].alias = path[g]

SeenIsPublished == \A g \in Gets : \A a \in seen[g] : \E x \in rows : x.alias = a

Related ==
  /\ Placed /\ DraftsIssued /\ RowsIssued /\ IdsDistinct
  /\ PendingIsDurable /\ SeenIsPublished
  /\ CacheIsDurable /\ AnswersAreDurable /\ ReadYourWrites

IInv == TypeOK /\ Related

------------------------------------------------------------------------------
(* Lemmas *)

USE DEF Requests

\* Type correctness: every step of every handler keeps the state in its types;
\* in particular what is cached is a whole record, never a bare URL.
LEMMA TypeStep == IInv /\ [Next]_vars => TypeOK'
<1> SUFFICES ASSUME IInv, [Next]_vars PROVE TypeOK'
  OBVIOUS
<1> USE UrlServiceAssumption DEF IInv, Related
<1>1. ASSUME NEW r \in Requests, Acquire(r) PROVE TypeOK'
  BY <1>1 DEF Acquire, TypeOK, input, Goto, Waiting, Locations, Holding, PostHolds
<1>2. ASSUME NEW r \in Requests, AcquireTimesOut(r) PROVE TypeOK'
  BY <1>2 DEF AcquireTimesOut, TypeOK, input, Reply, Goto, Locations
<1>3. ASSUME NEW p \in Posts, PostStep(p) PROVE TypeOK'
  <2> USE DEF TypeOK, input, Goto, Await, Reply, Release, Locations, Holding,
              PostHolds, Drafting, Waiting
  <2>1. CASE PostArrives(p) BY <2>1 DEF PostArrives
  <2>2. CASE PostInvalid(p) BY <2>2 DEF PostInvalid
  <2>3. CASE Begin(p) BY <2>3 DEF Begin
  <2>4. CASE NextVal(p)
    <3> DEFINE draft == [id |-> NextId, alias |-> AliasOf[NextId], url |-> Clean[body[p]]]
    <3>1. NextId \in Ids => draft \in Row
      BY DEF Row
    <3> HIDE DEF draft
    <3>2. \/ row' = [row EXCEPT ![p] = draft] /\ NextId \in Ids /\ seq' = NextId
          \/ UNCHANGED <<row, seq>>
      BY <2>4 DEF NextVal, draft
    <3>3. row' \in [Requests -> Row \cup {NoRow}] /\ seq' \in Ids \cup {0}
      BY <3>1, <3>2
    <3>4. pc' \in [Requests -> Locations]
      BY <2>4 DEF NextVal
    <3>5. QED BY <2>4, <3>3, <3>4 DEF NextVal
  <2>5. CASE Insert(p) BY <2>5 DEF Insert
  <2>6. CASE Commit(p) BY <2>6 DEF Commit, DraftsIssued, Owns
  <2>7. CASE WarmCache(p) BY <2>7 DEF WarmCache, CacheValue, DraftsIssued, Owns
  <2>8. CASE WarmCacheFails(p) BY <2>8 DEF WarmCacheFails, CacheValue, DraftsIssued, Owns
  <2>9. CASE Rollback(p) BY <2>9 DEF Rollback
  <2>10. QED
    BY <1>3, <2>1, <2>2, <2>3, <2>4, <2>5, <2>6, <2>7, <2>8, <2>9 DEF PostStep
<1>4. ASSUME NEW g \in Gets, GetStep(g) PROVE TypeOK'
  <2> USE DEF TypeOK, input, Goto, Reply, Release, Locations, Holding, Waiting
  <2>1. CASE GetArrives(g)
    <3>1. GivenOut \subseteq Aliases
      BY DEF GivenOut, DraftsIssued, Owns, Row
    <3>2. QED BY <2>1, <3>1 DEF GetArrives
  <2>2. CASE GetInvalid(g) BY <2>2 DEF GetInvalid
  <2>3. CASE Hit(g) BY <2>3 DEF Hit
  <2>4. CASE Miss(g) BY <2>4 DEF Miss
  <2>5. CASE Read(g) BY <2>5 DEF Read, Matching
  <2>6. CASE Fill(g) BY <2>6 DEF Fill, CacheValue, PendingIsDurable
  <2>7. QED BY <1>4, <2>1, <2>2, <2>3, <2>4, <2>5, <2>6 DEF GetStep
<1>5. ASSUME NEW a \in Aliases, Evict(a) \/ Poison(a) PROVE TypeOK'
  BY <1>5 DEF Evict, Poison, TypeOK, input
<1>6. ASSUME NEW w \in Procs, Crash(w) PROVE TypeOK'
  BY <1>6 DEF Crash, TypeOK, input, Locations
<1>7. CASE UNCHANGED vars
  BY <1>7 DEF TypeOK, vars, input
<1>8. QED
  BY <1>1, <1>2, <1>3, <1>4, <1>5, <1>6, <1>7 DEF Next

\* Before the first request nothing is owned, stored, cached or answered.
LEMMA InitIInv == Init => IInv
  BY UrlServiceAssumption
     DEF Init, IInv, Related, TypeOK, Placed, DraftsIssued, RowsIssued, IdsDistinct,
         PendingIsDurable, SeenIsPublished, CacheIsDurable, AnswersAreDurable,
         ReadYourWrites, Owns, Drafting, PostHolds, Locations, Holding, Waiting,
         PostLocations, GetLocations, Ids

\* nextval hands out an identifier above every one that is owned or stored.
LEMMA NextValRelated ==
  ASSUME IInv, TypeOK', NEW p \in Posts, NextVal(p) PROVE Related'
<1> USE UrlServiceAssumption
    DEF IInv, Related, TypeOK, NextVal, Goto, Await, input, Owns, Drafting
<1>1. Placed'
  BY DEF Placed, PostLocations, GetLocations, PostHolds
<1>2. /\ seq <= seq' /\ rows' = rows /\ status' = status
      /\ seq' # seq => seq' = NextId /\ row'[p].id = NextId
      /\ \A q \in Requests : q # p => row'[q] = row[q] /\ pc'[q] = pc[q]
  BY DEF NextId, Ids
<1>3. seq' # seq \/ pc'[p] = "rollback"
  BY DEF NextId, Ids
<1>4. status[p] = 0 /\ ~ Owns(p)
  BY DEF Placed
<1>5. \A q \in Posts : q # p => (Owns(q)' <=> Owns(q))
  BY <1>2
<1>6. \A q \in Posts : Owns(q) => row[q].id <= seq
  BY DEF DraftsIssued
<1>7. Owns(p)' => /\ row'[p] \in Row
                  /\ row'[p].id = NextId /\ seq' = NextId
                  /\ row'[p].alias = AliasOf[row'[p].id]
                  /\ row'[p].url = Clean[body[p]]
  BY <1>4 DEF Row
<1>8. DraftsIssued'
  <2> SUFFICES ASSUME NEW q \in Posts, Owns(q)'
               PROVE  /\ row'[q] \in Row /\ row'[q].id <= seq'
                      /\ row'[q].alias = AliasOf[row'[q].id]
                      /\ row'[q].url = Clean[body[q]]
    BY DEF DraftsIssued
  <2>1. CASE q = p
    BY <2>1, <1>7 DEF NextId, Ids
  <2>2. CASE q # p
    BY <2>2, <1>2, <1>5 DEF DraftsIssued, Row, Ids
  <2>3. QED BY <2>1, <2>2
<1>9. RowsIssued'
  BY <1>2 DEF RowsIssued, Row, Ids
<1>10. IdsDistinct'
  <2>1. ASSUME NEW q \in Posts, NEW r \in Posts, q # r, Owns(q)', Owns(r)'
        PROVE  row'[q].id # row'[r].id
    <3>1. q # p /\ r # p => row'[q].id # row'[r].id
      BY <2>1, <1>2, <1>5 DEF IdsDistinct
    <3>2. \A u \in Posts : u # p /\ Owns(u)' => row'[u].id \in Ids /\ row'[u].id <= seq
      BY <1>2, <1>5 DEF DraftsIssued, Row
    <3>3. Owns(p)' => row'[p].id = NextId
      BY <1>7
    <3>4. QED BY <2>1, <3>1, <3>2, <3>3 DEF NextId, Ids
  <2>2. ASSUME NEW q \in Posts, pc'[q] \in Drafting, NEW x \in rows'
        PROVE  x.id # row'[q].id
    <3>1. x \in rows /\ x.id \in Ids /\ x.id <= seq
      BY <2>2, <1>2 DEF RowsIssued, Row
    <3>2. CASE q = p
      BY <2>2, <3>1, <3>2, <1>7 DEF NextId, Ids
    <3>3. CASE q # p
      BY <2>2, <3>1, <3>3, <1>2 DEF IdsDistinct
    <3>4. QED BY <3>2, <3>3
  <2>3. QED BY <2>1, <2>2 DEF IdsDistinct
<1>11. PendingIsDurable' /\ SeenIsPublished' /\ CacheIsDurable'
  BY <1>2 DEF PendingIsDurable, SeenIsPublished, CacheIsDurable
<1>12. AnswersAreDurable' /\ ReadYourWrites'
  BY <1>2, <1>4 DEF AnswersAreDurable, ReadYourWrites
<1>13. QED
  BY <1>1, <1>8, <1>9, <1>10, <1>11, <1>12

\* A COMMIT adds the row of the only owner of its identifier.
LEMMA CommitRelated ==
  ASSUME IInv, TypeOK', NEW p \in Posts, Commit(p) PROVE Related'
<1> USE UrlServiceAssumption
    DEF IInv, Related, TypeOK, Commit, Goto, input, Owns, Drafting
<1>1. Placed'
  BY DEF Placed, PostLocations, GetLocations, PostHolds
<1>2. /\ rows \subseteq rows' /\ rows' \subseteq rows \cup {row[p]}
      /\ pc'[p] \notin Drafting
      /\ pc'[p] = "warm" => row[p] \in rows'
      /\ \A q \in Requests : q # p => pc'[q] = pc[q]
  OBVIOUS
<1>3. DraftsIssued'
  BY <1>2 DEF DraftsIssued
<1>4. RowsIssued'
  BY <1>2 DEF RowsIssued, DraftsIssued
<1>5. IdsDistinct'
  <2>1. \A q \in Posts : Owns(q)' => Owns(q)
    BY <1>2
  <2>2. \A q, r \in Posts : q # r /\ Owns(q)' /\ Owns(r)' => row'[q].id # row'[r].id
    BY <2>1 DEF IdsDistinct
  <2>3. ASSUME NEW q \in Posts, pc'[q] \in Drafting, NEW x \in rows'
        PROVE  x.id # row'[q].id
    <3>1. q # p /\ pc[q] \in Drafting
      BY <2>3, <1>2
    <3>2. CASE x \in rows
      BY <3>1, <3>2 DEF IdsDistinct
    <3>3. CASE x = row[p]
      BY <3>1, <3>3 DEF IdsDistinct
    <3>4. QED BY <2>3, <3>2, <3>3, <1>2
  <2>4. QED BY <2>2, <2>3 DEF IdsDistinct
<1>6. PendingIsDurable'
  BY <1>2 DEF PendingIsDurable
<1>7. SeenIsPublished'
  BY <1>2 DEF SeenIsPublished
<1>8. CacheIsDurable' /\ AnswersAreDurable' /\ ReadYourWrites'
  BY <1>2 DEF CacheIsDurable, AnswersAreDurable, ReadYourWrites
<1>9. QED
  BY <1>1, <1>3, <1>4, <1>5, <1>6, <1>7, <1>8

\* Every other step of a POST.
LEMMA PostRelated ==
  ASSUME IInv, TypeOK', NEW p \in Posts, PostStep(p) PROVE Related'
<1> USE UrlServiceAssumption
    DEF IInv, Related, TypeOK, Goto, Await, Reply, input, Owns, Drafting, Placed,
        PostLocations, GetLocations, PostHolds, DraftsIssued, RowsIssued,
        IdsDistinct, PendingIsDurable, SeenIsPublished, CacheIsDurable,
        AnswersAreDurable, ReadYourWrites
<1>1. CASE PostArrives(p) BY <1>1 DEF PostArrives
<1>2. CASE PostInvalid(p) BY <1>2 DEF PostInvalid
<1>3. CASE Begin(p) BY <1>3 DEF Begin
<1>4. CASE NextVal(p) BY <1>4, NextValRelated
<1>5. CASE Insert(p) BY <1>5 DEF Insert
<1>6. CASE Commit(p) BY <1>6, CommitRelated
<1>7. CASE WarmCache(p) BY <1>7 DEF WarmCache, CacheValue
<1>8. CASE WarmCacheFails(p) BY <1>8 DEF WarmCacheFails, CacheValue
<1>9. CASE Rollback(p) BY <1>9 DEF Rollback
<1>10. QED
  BY <1>1, <1>2, <1>3, <1>4, <1>5, <1>6, <1>7, <1>8, <1>9 DEF PostStep

\* A GET answers from the table or from a cache that copies it.
LEMMA GetRelated ==
  ASSUME IInv, TypeOK', NEW g \in Gets, GetStep(g) PROVE Related'
<1> USE UrlServiceAssumption
    DEF IInv, Related, TypeOK, Goto, Reply, input, Owns, Drafting, Placed,
        PostLocations, GetLocations, PostHolds, DraftsIssued, RowsIssued,
        IdsDistinct, PendingIsDurable, SeenIsPublished, CacheIsDurable,
        AnswersAreDurable, ReadYourWrites
<1>1. CASE GetArrives(g) BY <1>1 DEF GetArrives, GivenOut
<1>2. CASE GetInvalid(g) BY <1>2 DEF GetInvalid
<1>3. CASE Hit(g) BY <1>3 DEF Hit
<1>4. CASE Miss(g) BY <1>4 DEF Miss
<1>5. CASE Read(g) BY <1>5 DEF Read, Matching
<1>6. CASE Fill(g) BY <1>6 DEF Fill, CacheValue
<1>7. QED
  BY <1>1, <1>2, <1>3, <1>4, <1>5, <1>6 DEF GetStep

\* The wait for a client, the cache's losses, and crashes.
LEMMA OtherRelated ==
  ASSUME IInv, TypeOK', Next,
         ~ \E p \in Posts : PostStep(p), ~ \E g \in Gets : GetStep(g)
  PROVE  Related'
<1> USE UrlServiceAssumption
    DEF IInv, Related, TypeOK, Goto, Reply, input, Owns, Drafting, Placed,
        PostLocations, GetLocations, PostHolds, DraftsIssued, RowsIssued,
        IdsDistinct, PendingIsDurable, SeenIsPublished, CacheIsDurable,
        AnswersAreDurable, ReadYourWrites
<1>1. ASSUME NEW r \in Requests, Acquire(r) PROVE Related'
  BY <1>1 DEF Acquire, Waiting
<1>2. ASSUME NEW r \in Requests, AcquireTimesOut(r) PROVE Related'
  BY <1>2 DEF AcquireTimesOut, Waiting
<1>3. ASSUME NEW a \in Aliases, Evict(a) PROVE Related'
  BY <1>3 DEF Evict
<1>4. ASSUME NEW a \in Aliases, Poison(a) PROVE Related'
  BY <1>4 DEF Poison
<1>5. ASSUME NEW w \in Procs, Crash(w) PROVE Related'
  BY <1>5 DEF Crash, Inactive
<1>6. QED
  BY <1>1, <1>2, <1>3, <1>4, <1>5 DEF Next

\* IInv is inductive: no step of any handler, of Redis or of a process breaks it.
LEMMA StepIInv == IInv /\ [Next]_vars => IInv'
<1> SUFFICES ASSUME IInv, [Next]_vars PROVE IInv'
  OBVIOUS
<1>1. TypeOK'
  BY TypeStep
<1>2. CASE Next
  BY <1>1, <1>2, PostRelated, GetRelated, OtherRelated DEF IInv
<1>3. CASE UNCHANGED vars
  BY <1>3 DEF vars, input, IInv, Related, TypeOK, Placed, Owns, DraftsIssued,
              RowsIssued, IdsDistinct, PendingIsDurable, SeenIsPublished,
              CacheIsDurable, AnswersAreDurable, ReadYourWrites
<1>4. QED BY <1>2, <1>3

------------------------------------------------------------------------------
(* Theorems *)

\* The inductive invariant holds in every reachable state, for all constants.
THEOREM Invariance == Spec => []IInv
<1>1. QED BY InitIInv, StepIInv, PTL DEF Spec

\* The handlers keep the state in its types: what the cache holds is a record.
THEOREM TypeCorrect == Spec => []TypeOK
<1>1. IInv => TypeOK
  BY DEF IInv
<1>2. QED BY Invariance, <1>1, PTL

\* The INSERT of shortenUrl never conflicts (urlService.ts:34).
THEOREM NoCollision == Spec => []CollisionFree
<1>1. IInv => CollisionFree
  <2> SUFFICES ASSUME IInv, NEW p \in Posts, pc[p] \in Drafting,
                      NEW x \in rows \cup {row[q] : q \in {q \in Posts \ {p} : pc[q] \in Drafting}}
               PROVE  x.id # row[p].id /\ x.alias # row[p].alias
    BY DEF CollisionFree
  <2> USE DEF IInv, Related, TypeOK, Owns
  <2>1. row[p].id \in Ids /\ row[p].alias = AliasOf[row[p].id]
    BY DEF DraftsIssued, Row
  <2>2. CASE x \in rows
    <3>1. x.id \in Ids /\ x.alias = AliasOf[x.id] /\ x.id # row[p].id
      BY <2>2 DEF RowsIssued, IdsDistinct, Row
    <3>2. QED BY <2>1, <3>1, UrlServiceAssumption
  <2>3. CASE x \notin rows
    <3>1. PICK q \in Posts \ {p} : pc[q] \in Drafting /\ x = row[q]
      BY <2>3
    <3>2. x.id \in Ids /\ x.alias = AliasOf[x.id] /\ x.id # row[p].id
      BY <3>1 DEF DraftsIssued, IdsDistinct, Row
    <3>3. QED BY <2>1, <3>2, UrlServiceAssumption
  <2>4. QED BY <2>2, <2>3
<1>2. QED BY Invariance, <1>1, PTL

\* What the cache says is in the table.
THEOREM CacheAgrees == Spec => []CacheIsDurable
<1>1. IInv => CacheIsDurable
  BY DEF IInv, Related
<1>2. QED BY Invariance, <1>1, PTL

\* A 201 names a committed row with the URL that was posted, a 302 one with the alias
\* that was asked for.
THEOREM AnswersAgree == Spec => []AnswersAreDurable
<1>1. IInv => AnswersAreDurable
  BY DEF IInv, Related
<1>2. QED BY Invariance, <1>1, PTL

\* A client that was given an alias is not told that it does not exist.
THEOREM OwnAliasFound == Spec => []ReadYourWrites
<1>1. IInv => ReadYourWrites
  BY DEF IInv, Related
<1>2. QED BY Invariance, <1>1, PTL

------------------------------------------------------------------------------
(* The pool *)

HeldBy(w) == {r \in clients : Host[r] = w}

\* Only Acquire takes a client, and only below the limit of the process.
LEMMA StepClients ==
  ASSUME IInv, ClientsAccounted, [Next]_vars PROVE ClientsAccounted'
<1> USE UrlServiceAssumption DEF IInv, TypeOK
<1>1. clients' = {r \in Requests : pc'[r] \in Holding}
      /\ \/ clients' \subseteq clients
         \/ \E r \in Requests : Acquire(r)
  <2> USE DEF ClientsAccounted, Goto, Reply, Release, input, Holding, PostHolds,
              Drafting, Waiting
  <2>1. ASSUME NEW r \in Requests, Acquire(r)
        PROVE  clients' = {q \in Requests : pc'[q] \in Holding}
    BY <2>1 DEF Acquire
  <2>2. ASSUME NEW r \in Requests, AcquireTimesOut(r)
        PROVE  clients' = {q \in Requests : pc'[q] \in Holding} /\ clients' = clients
    BY <2>2 DEF AcquireTimesOut
  <2>3. ASSUME NEW p \in Posts, PostStep(p)
        PROVE  /\ clients' = {q \in Requests : pc'[q] \in Holding}
               /\ clients' \subseteq clients
    BY <2>3 DEF PostStep, PostArrives, PostInvalid, Begin, NextVal, Insert, Commit,
                WarmCache, WarmCacheFails, Rollback, Await
  <2>4. ASSUME NEW g \in Gets, GetStep(g)
        PROVE  /\ clients' = {q \in Requests : pc'[q] \in Holding}
               /\ clients' \subseteq clients
    BY <2>4 DEF GetStep, GetArrives, GetInvalid, Hit, Miss, Read, Fill
  <2>5. ASSUME NEW a \in Aliases, Evict(a) \/ Poison(a)
        PROVE  clients' = clients /\ pc' = pc
    BY <2>5 DEF Evict, Poison
  <2>6. ASSUME NEW w \in Procs, Crash(w)
        PROVE  /\ clients' = {q \in Requests : pc'[q] \in Holding}
               /\ clients' \subseteq clients
    BY <2>6 DEF Crash, Inactive
  <2>7. CASE UNCHANGED vars
    BY <2>7 DEF vars
  <2>8. QED
    BY <2>1, <2>2, <2>3, <2>4, <2>5, <2>6, <2>7 DEF Next
<1>2. ASSUME NEW w \in Procs
      PROVE  /\ IsFiniteSet(HeldBy(w))
             /\ Cardinality(HeldBy(w)) \in Nat
             /\ Cardinality(HeldBy(w)) <= PoolMax
  <2>1. IsFiniteSet(HeldBy(w))
    BY FS_Subset DEF HeldBy
  <2>2. Cardinality(HeldBy(w)) <= PoolMax
    BY Zenon DEF ClientsAccounted, HeldBy
  <2>3. QED BY <2>1, <2>2, FS_CardinalityType
<1>3. ASSUME NEW w \in Procs PROVE Cardinality(HeldBy(w)') <= PoolMax
  <2>1. CASE clients' \subseteq clients
    <3>1. HeldBy(w)' \subseteq HeldBy(w)
      BY <2>1 DEF HeldBy
    <3>2. Cardinality(HeldBy(w)') <= Cardinality(HeldBy(w)) /\ Cardinality(HeldBy(w)') \in Nat
      BY <1>2, <3>1, FS_Subset, FS_CardinalityType
    <3>3. QED BY <3>2, <1>2
  <2>2. ASSUME NEW r \in Requests, Acquire(r) PROVE Cardinality(HeldBy(w)') <= PoolMax
    <3>1. clients' = clients \cup {r} /\ r \notin clients /\ FreeClient(Host[r])
      BY <2>2 DEF Acquire, ClientsAccounted, Waiting, Holding, PostHolds, Drafting
    <3>2. CASE Host[r] = w
      <4>1. HeldBy(w)' = HeldBy(w) \cup {r} /\ r \notin HeldBy(w)
        BY <3>1, <3>2 DEF HeldBy
      <4>2. Cardinality(HeldBy(w) \cup {r}) = Cardinality(HeldBy(w)) + 1
        BY <1>2, <4>1, FS_AddElement
      <4>3. Cardinality(HeldBy(Host[r])) < PoolMax
        BY <3>1, Zenon DEF FreeClient, HeldBy
      <4>4. QED BY <1>2, <3>2, <4>1, <4>2, <4>3
    <3>3. CASE Host[r] # w
      <4>1. HeldBy(w)' = HeldBy(w)
        BY <3>1, <3>3 DEF HeldBy
      <4>2. QED BY <4>1, <1>2
    <3>4. QED BY <3>2, <3>3
  <2>3. QED BY <1>1, <2>1, <2>2
<1>4. QED
  BY <1>1, <1>3, Zenon DEF ClientsAccounted, HeldBy

\* No path through the handlers leaks a client or takes one too many.
THEOREM PoolAccounted == Spec => []ClientsAccounted
<1>1. Init => ClientsAccounted
  <2> SUFFICES ASSUME Init PROVE ClientsAccounted
    OBVIOUS
  <2>1. clients = {} /\ clients = {r \in Requests : pc[r] \in Holding}
    BY DEF Init, Holding, PostHolds, Drafting
  <2>2. \A w \in Procs : {r \in clients : Host[r] = w} = {}
    BY <2>1
  <2>3. \A w \in Procs : Cardinality({r \in clients : Host[r] = w}) = 0
    BY <2>2, FS_EmptySet
  <2>4. QED BY <2>1, <2>3, UrlServiceAssumption DEF ClientsAccounted
<1>2. IInv /\ ClientsAccounted /\ [Next]_vars => ClientsAccounted'
  BY StepClients
<1>3. QED BY Invariance, <1>1, <1>2, PTL DEF Spec

------------------------------------------------------------------------------
(* The promise of UrlDirectory *)

\* The initial states are initial states of the promise.
LEMMA InitPromise == Init => Directory!Init
  BY UrlServiceAssumption
     DEF Init, Directory!Init, published, begun, answered, Requests

\* Nobody's answer changes unless a request is answered.
LEMMA AnswersStay ==
  ASSUME IInv, UNCHANGED status,
         \A r \in Requests : status[r] \in {201, 302} => row'[r] = row[r]
  PROVE  UNCHANGED answered
  BY DEF answered, LinkOf

\* Two functions that differ at one argument only.
LEMMA ExceptOne ==
  ASSUME NEW S, NEW f, NEW h, NEW x \in S, NEW y,
         f = [q \in S |-> f[q]], h = [q \in S |-> h[q]],
         \A q \in S : h[q] = IF q = x THEN y ELSE f[q]
  PROVE  h = [f EXCEPT ![x] = y]
  OBVIOUS

\* A new answer is the one link the abstract specification records for it.
LEMMA AnswerMaps ==
  ASSUME IInv, NEW r \in Requests, NEW s \in {201, 302, 404, 500},
         NEW l, l = IF s \in {201, 302} THEN LinkOf(row'[r]) ELSE {},
         pc[r] \notin {"idle", "done"}, Reply(r, s), UNCHANGED <<body, path, rows, seen>>,
         \A q \in Requests \ {r} : row'[q] = row[q]
  PROVE  Directory!Answer(r, s, l)
<1> USE DEF IInv, TypeOK, Related, Placed, Reply, Goto
<1>1. r \in begun /\ status[r] = 0
  BY DEF begun
<1>2. begun' = begun
  BY DEF begun
<1>3. answered' = [answered EXCEPT ![r] = l]
  <2>1. status'[r] = s /\ \A q \in Requests \ {r} : status'[q] = status[q]
    OBVIOUS
  <2>2. \A q \in Requests : answered'[q] = IF q = r THEN l ELSE answered[q]
    BY <2>1 DEF answered
  <2>3. /\ answered = [q \in Requests |-> answered[q]]
        /\ answered' = [q \in Requests |-> answered'[q]]
    BY DEF answered
  <2> HIDE DEF IInv, TypeOK, Related, Placed, Reply, Goto, Requests
  <2>4. QED BY <2>2, <2>3, ExceptOne
<1>4. published' = published
  BY DEF published
<1>5. QED
  BY <1>1, <1>2, <1>3, <1>4 DEF Directory!Answer

\* A request that begins to be served arrives in the abstract specification.
LEMMA ArrivalMaps ==
  ASSUME IInv, NEW r \in Requests, NEW k \in {"connect", "lookup"}, pc[r] = "idle",
         Goto(r, k), UNCHANGED <<body, path, status, row, rows>>,
         seen' = IF r \in Gets THEN [seen EXCEPT ![r] = GivenOut] ELSE seen
  PROVE  Directory!Arrive(r)
<1> USE DEF IInv, TypeOK, Goto
<1>1. r \notin begun /\ begun' = begun \cup {r}
  BY DEF begun
<1>2. answered' = answered /\ published' = published
  BY DEF answered, published
<1>3. Directory!GivenOut = GivenOut
  BY DEF Directory!GivenOut, GivenOut, answered, LinkOf
<1>4. QED
  BY <1>1, <1>2, <1>3 DEF Directory!Arrive

\* A request refused with 400 is refused in the abstract specification.
LEMMA RefusalMaps ==
  ASSUME IInv, NEW r \in Requests, pc[r] = "idle", Reply(r, 400),
         UNCHANGED <<body, path, row, rows, seen>>
  PROVE  Directory!Refused(r)
<1> USE DEF IInv, TypeOK, Related, Placed, Reply, Goto
<1>1. r \notin begun /\ begun' = begun \cup {r}
  BY DEF begun
<1>2. published' = published /\ answered' = answered
  BY DEF published, answered
<1>3. QED
  BY <1>1, <1>2 DEF Directory!Refused

\* Steps the clients cannot see.
LEMMA SilentMaps ==
  ASSUME IInv, UNCHANGED <<body, path, status, rows, seen>>,
         \A r \in Requests : status[r] \in {201, 302} => row'[r] = row[r],
         \A r \in Requests : pc'[r] = "idle" <=> pc[r] = "idle"
  PROVE  UNCHANGED Directory!dirVars
<1>1. answered' = answered
  BY AnswersStay
<1>2. begun' = begun /\ published' = published
  BY DEF begun, published
<1>3. QED BY <1>1, <1>2 DEF Directory!dirVars

\* The link a POST publishes has an alias no published link has.
LEMMA CommitMaps ==
  ASSUME IInv, NEW p \in Posts, Commit(p)
  PROVE  Directory!Publish(p) \/ UNCHANGED Directory!dirVars
<1> USE DEF IInv, TypeOK, Related, Commit, Goto, input
<1>1. CASE rows' = rows
  <2>1. \A r \in Requests : pc'[r] = "idle" <=> pc[r] = "idle"
    BY <1>1
  <2>2. QED BY <1>1, <2>1, SilentMaps
<1>2. CASE rows' = rows \cup {row[p]}
  <2>1. row[p] \in Row /\ row[p].alias = AliasOf[row[p].id] /\ row[p].url = Clean[body[p]]
    BY DEF DraftsIssued, Owns, Drafting
  <2>2. \A x \in rows : x.alias # row[p].alias
    BY <2>1, UrlServiceAssumption DEF RowsIssued, IdsDistinct, Drafting, Row
  <2>3. \A l \in published : l.alias # row[p].alias
    BY <2>2 DEF published, LinkOf
  <2>4. published' = published \cup {[alias |-> row[p].alias, url |-> Clean[body[p]]]}
    BY <1>2, <2>1 DEF published, LinkOf
  <2>5. begun' = begun /\ p \in begun
    BY DEF begun
  <2>6. answered' = answered
    BY AnswersStay
  <2>7. status[p] = 0 /\ row[p].alias \in Aliases
    BY <2>1 DEF Placed, Row
  <2>8. QED
    BY <2>3, <2>4, <2>5, <2>6, <2>7 DEF Directory!Publish
<1>3. QED BY <1>1, <1>2

\* A 201 names the link of this request, which no other 201 names.
LEMMA WarmCacheMaps ==
  ASSUME IInv, NEW p \in Posts, WarmCache(p) PROVE Directory!Created(p)
<1> USE DEF IInv, TypeOK, Related
<1>1. row[p] \in rows /\ row[p] \in Row /\ row[p].url = Clean[body[p]]
  BY DEF WarmCache, PendingIsDurable, DraftsIssued, Owns
<1>2. LinkOf(row[p]) \in published /\ LinkOf(row[p]).url = Clean[body[p]]
  BY <1>1 DEF published, LinkOf
<1>3. \A q \in Posts : status[q] = 201 => row[q].alias # row[p].alias
  <2> SUFFICES ASSUME NEW q \in Posts, status[q] = 201 PROVE row[q].alias # row[p].alias
    OBVIOUS
  <2>1. q # p /\ Owns(q) /\ Owns(p)
    BY DEF WarmCache, Placed, Owns
  <2>2. row[q].id # row[p].id
    BY <2>1 DEF IdsDistinct
  <2>3. QED BY <2>1, <2>2, UrlServiceAssumption DEF DraftsIssued, Row
<1>4. LinkOf(row[p]).alias \notin Directory!GivenOut
  BY <1>3 DEF Directory!GivenOut, answered, LinkOf
<1>5. Directory!Answer(p, 201, LinkOf(row[p]))
  BY AnswerMaps DEF WarmCache, input
<1>6. QED
  BY <1>2, <1>4, <1>5 DEF Directory!Created

\* Each step of shortenUrl is a step of the promise, or invisible to it.
LEMMA PostMaps ==
  ASSUME IInv, NEW p \in Posts, PostStep(p)
  PROVE  Directory!Next \/ UNCHANGED Directory!dirVars
<1>1. CASE PostArrives(p)
  <2>1. seen' = IF p \in Gets THEN [seen EXCEPT ![p] = GivenOut] ELSE seen
    BY <1>1, UrlServiceAssumption DEF PostArrives
  <2>2. Directory!Arrive(p)
    BY <1>1, <2>1, ArrivalMaps DEF PostArrives, input
  <2>3. QED BY <2>2 DEF Directory!Next
<1>2. CASE PostInvalid(p)
  <2>1. Directory!Refused(p)
    BY <1>2, RefusalMaps DEF PostInvalid, input
  <2>2. QED BY <2>1 DEF Directory!Next
<1>3. CASE Begin(p) \/ NextVal(p) \/ Insert(p) \/ WarmCacheFails(p)
  <2> USE DEF IInv, TypeOK, Related, Placed, Await, Goto, input, Begin, NextVal, Insert,
              WarmCacheFails
  <2>1. /\ UNCHANGED <<body, path, status, rows, seen>>
        /\ \A r \in Requests : pc'[r] = "idle" <=> pc[r] = "idle"
    BY <1>3
  <2>2. \A r \in Requests : status[r] \in {201, 302} => row'[r] = row[r]
    BY <1>3
  <2>3. QED BY <2>1, <2>2, SilentMaps
<1>4. CASE Commit(p)
  BY <1>4, CommitMaps DEF Directory!Next
<1>5. CASE WarmCache(p)
  BY <1>5, WarmCacheMaps DEF Directory!Next
<1>6. CASE Rollback(p)
  <2>1. Directory!Failed(p)
    BY <1>6, AnswerMaps DEF Rollback, input, Directory!Failed
  <2>2. QED BY <2>1 DEF Directory!Next
<1>7. QED
  BY <1>1, <1>2, <1>3, <1>4, <1>5, <1>6 DEF PostStep

\* Each step of resolveUrl is a step of the promise, or invisible to it.
LEMMA GetMaps ==
  ASSUME IInv, NEW g \in Gets, GetStep(g)
  PROVE  Directory!Next \/ UNCHANGED Directory!dirVars
<1> USE DEF IInv, TypeOK, Related
<1>1. CASE GetArrives(g)
  <2>1. Directory!Arrive(g)
    BY <1>1, ArrivalMaps DEF GetArrives, input
  <2>2. QED BY <2>1 DEF Directory!Next
<1>2. CASE GetInvalid(g)
  <2>1. Directory!Refused(g)
    BY <1>2, RefusalMaps DEF GetInvalid, input
  <2>2. QED BY <2>1 DEF Directory!Next
<1>3. CASE Hit(g)
  <2>1. row'[g] \in rows /\ row'[g].alias = path[g]
    BY <1>3 DEF Hit, CacheIsDurable
  <2>2. LinkOf(row'[g]) \in published /\ LinkOf(row'[g]).alias = path[g]
    BY <2>1 DEF published, LinkOf
  <2>3. Directory!Answer(g, 302, LinkOf(row'[g]))
    BY <1>3, AnswerMaps DEF Hit, input
  <2>4. QED BY <2>2, <2>3 DEF Directory!Found, Directory!Next
<1>4. CASE Miss(g)
  <2>1. \A r \in Requests : pc'[r] = "idle" <=> pc[r] = "idle"
    BY <1>4 DEF Miss, Goto
  <2>2. QED BY <1>4, <2>1, SilentMaps DEF Miss, input
<1>5. CASE Read(g)
  <2> USE DEF Read, Matching, input
  <2>1. CASE Reply(g, 500) /\ row' = row
    <3>1. Directory!Failed(g)
      BY <1>5, <2>1, AnswerMaps DEF Directory!Failed
    <3>2. QED BY <3>1 DEF Directory!Next
  <2>2. CASE Matching(path[g]) = {} /\ Reply(g, 404) /\ row' = row
    <3>1. path[g] \notin seen[g]
      BY <2>2 DEF SeenIsPublished
    <3>2. Directory!Answer(g, 404, {})
      BY <1>5, <2>2, AnswerMaps
    <3>3. QED BY <3>1, <3>2 DEF Directory!Missing, Directory!Next
  <2>3. CASE Goto(g, "fill") /\ status' = status
    <3>1. \A r \in Requests : pc'[r] = "idle" <=> pc[r] = "idle"
      BY <1>5, <2>3 DEF Goto
    <3>2. \A r \in Requests : status[r] \in {201, 302} => row'[r] = row[r]
      BY <1>5, <2>3 DEF Placed
    <3>3. QED BY <1>5, <2>3, <3>1, <3>2, SilentMaps
  <2>4. QED BY <1>5, <2>1, <2>2, <2>3
<1>6. CASE Fill(g)
  <2>1. row[g] \in rows /\ row[g].alias = path[g] /\ row' = row
    BY <1>6 DEF Fill, PendingIsDurable
  <2>2. LinkOf(row[g]) \in published /\ LinkOf(row[g]).alias = path[g]
    BY <2>1 DEF published, LinkOf
  <2>3. Directory!Answer(g, 302, LinkOf(row[g]))
    BY <1>6, <2>1, AnswerMaps DEF Fill, input
  <2>4. QED BY <2>2, <2>3 DEF Directory!Found, Directory!Next
<1>7. QED
  BY <1>1, <1>2, <1>3, <1>4, <1>5, <1>6 DEF GetStep

\* So is each step of the whole service.
LEMMA StepPromise ==
  ASSUME IInv, [Next]_vars PROVE [Directory!Next]_(Directory!dirVars)
<1> USE DEF IInv, TypeOK
<1>1. ASSUME NEW r \in Requests, Acquire(r) PROVE UNCHANGED Directory!dirVars
  <2>1. \A q \in Requests : pc'[q] = "idle" <=> pc[q] = "idle"
    BY <1>1 DEF Acquire, Waiting, Goto
  <2>2. QED BY <1>1, <2>1, SilentMaps DEF Acquire, input
<1>2. ASSUME NEW r \in Requests, AcquireTimesOut(r) PROVE Directory!Next
  <2>1. Directory!Failed(r)
    BY <1>2, AnswerMaps DEF AcquireTimesOut, Waiting, input, Directory!Failed
  <2>2. QED BY <2>1 DEF Directory!Next
<1>3. ASSUME NEW a \in Aliases, Evict(a) \/ Poison(a)
      PROVE  UNCHANGED Directory!dirVars
  BY <1>3, SilentMaps DEF Evict, Poison, input
<1>4. ASSUME NEW w \in Procs, Crash(w) PROVE UNCHANGED Directory!dirVars
  <2>1. \A q \in Requests : pc'[q] = "idle" <=> pc[q] = "idle"
    BY <1>4 DEF Crash, Inactive
  <2>2. QED BY <1>4, <2>1, SilentMaps DEF Crash, input
<1>5. CASE UNCHANGED vars
  BY <1>5, SilentMaps DEF vars, input
<1>6. QED
  BY <1>1, <1>2, <1>3, <1>4, <1>5, PostMaps, GetMaps DEF Next

\* The handlers, the pool, the cache and the table together keep the promise.
THEOREM Implementation == Spec => KeepsPromise
<1>1. QED
  BY InitPromise, StepPromise, Invariance, PTL DEF Spec, KeepsPromise, Directory!Spec

------------------------------------------------------------------------------
(* What the promise comes to, by the steps of UrlDirectory alone *)

\* Answers are recorded for requests, and only for those that have begun.
Recorded ==
  /\ status \in [Requests -> {0, 201, 302, 400, 404, 500}]
  /\ DOMAIN answered = Requests /\ answered = [r \in Requests |-> answered[r]]
  /\ seen = [g \in Gets |-> seen[g]]
  /\ \A r \in Requests : r \notin begun => status[r] = 0

PromiseInv == Recorded /\ Directory!Promise

LEMMA InitPromiseInv == Directory!Init => PromiseInv
  BY DEF Directory!Init, PromiseInv, Recorded, Directory!Promise, Directory!NoAliasTwice, Directory!AnswersName, Directory!NothingDenied

\* A request that is answered: what the answer must be, for PromiseInv to be kept.
LEMMA AnswerKeeps ==
  ASSUME PromiseInv, NEW r \in Requests, NEW s \in {201, 302, 404, 500}, NEW l, Directory!Answer(r, s, l),
         s = 201 => r \in Posts /\ l \in published /\ l.url = Clean[body[r]] /\ l.alias \notin Directory!GivenOut,
         s = 302 => r \in Gets /\ l \in published /\ l.alias = path[r],
         s = 404 => r \in Gets /\ path[r] \notin seen[r]
  PROVE PromiseInv'
<1> USE DEF PromiseInv, Recorded, Directory!Promise
<1>1. /\ status' = [status EXCEPT ![r] = s] /\ answered' = [answered EXCEPT ![r] = l] /\ r \in begun
      /\ status[r] = 0
      /\ UNCHANGED <<body, path, published, begun, seen>>
  BY DEF Directory!Answer
<1>2. Recorded'
  BY <1>1
<1>3. Directory!NoAliasTwice'
  <2>1. \A p \in Posts : status[p] = 201 => answered[p].alias \in Directory!GivenOut
    BY DEF Directory!GivenOut
  <2>2. \A p \in Posts : p # r => status'[p] = status[p] /\ answered'[p] = answered[p]
    BY <1>1
  <2>3. r \in Posts /\ status'[r] = 201 => answered'[r].alias \notin Directory!GivenOut
    BY <1>1
  <2>4. QED BY <1>1, <2>1, <2>2, <2>3 DEF Directory!NoAliasTwice
<1>4. Directory!AnswersName'
  BY <1>1 DEF Directory!AnswersName
<1>5. Directory!NothingDenied'
  BY <1>1 DEF Directory!NothingDenied
<1>6. QED BY <1>2, <1>3, <1>4, <1>5

LEMMA StepPromiseInv == PromiseInv /\ [Directory!Next]_(Directory!dirVars) => PromiseInv'
<1> SUFFICES ASSUME PromiseInv, [Directory!Next]_(Directory!dirVars) PROVE PromiseInv'
  OBVIOUS
<1>1. ASSUME NEW r \in Requests, Directory!Arrive(r) PROVE PromiseInv'
  <2>1. status[r] = 0
    BY <1>1 DEF PromiseInv, Recorded, Directory!Arrive
  <2>2. Recorded'
    BY <1>1 DEF PromiseInv, Recorded, Directory!Arrive
  <2>3. Directory!NothingDenied'
    BY <1>1, <2>1 DEF PromiseInv, Recorded, Directory!Promise, Directory!NothingDenied, Directory!Arrive
  <2>4. Directory!NoAliasTwice' /\ Directory!AnswersName'
    BY <1>1 DEF PromiseInv, Directory!Promise, Directory!NoAliasTwice, Directory!AnswersName, Directory!Arrive
  <2>5. QED BY <2>2, <2>3, <2>4 DEF PromiseInv, Directory!Promise
<1>2. ASSUME NEW r \in Requests, Directory!Refused(r) PROVE PromiseInv'
  <2>1. /\ status' = [status EXCEPT ![r] = 400] /\ status[r] = 0
        /\ begun' = begun \cup {r}
        /\ UNCHANGED <<body, path, published, answered, seen>>
    BY <1>2 DEF PromiseInv, Recorded, Directory!Refused
  <2>2. Recorded'
    BY <2>1 DEF PromiseInv, Recorded
  <2>3. \A q \in Requests : status'[q] \in {201, 302, 404} => status'[q] = status[q]
    BY <2>1 DEF PromiseInv, Recorded
  <2>4. Directory!NoAliasTwice' /\ Directory!AnswersName' /\ Directory!NothingDenied'
    BY <2>1, <2>3 DEF PromiseInv, Directory!Promise, Directory!NoAliasTwice, Directory!AnswersName, Directory!NothingDenied
  <2>5. QED BY <2>2, <2>4 DEF PromiseInv, Directory!Promise
<1>3. ASSUME NEW r \in Requests, Directory!Failed(r) PROVE PromiseInv'
  BY <1>3, AnswerKeeps DEF Directory!Failed
<1>4. ASSUME NEW p \in Posts, Directory!Publish(p) PROVE PromiseInv'
  <2>1. PICK a \in Aliases : /\ \A l \in published : l.alias # a
                             /\ published' = published \cup {[alias |-> a, url |-> Clean[body[p]]]}
    BY <1>4 DEF Directory!Publish
  <2>2. UNCHANGED <<body, path, begun, status, answered, seen>>
    BY <1>4 DEF Directory!Publish
  <2>3. Directory!NoAliasTwice'
    BY <2>1, <2>2 DEF PromiseInv, Directory!Promise, Directory!NoAliasTwice
  <2>4. Recorded' /\ Directory!AnswersName' /\ Directory!NothingDenied'
    BY <2>1, <2>2 DEF PromiseInv, Recorded, Directory!Promise, Directory!AnswersName, Directory!NothingDenied
  <2>5. QED BY <2>3, <2>4 DEF PromiseInv, Directory!Promise
<1>5. ASSUME NEW p \in Posts, Directory!Created(p) PROVE PromiseInv'
  BY <1>5, AnswerKeeps DEF Directory!Created
<1>6. ASSUME NEW g \in Gets, Directory!Found(g) PROVE PromiseInv'
  BY <1>6, AnswerKeeps DEF Directory!Found
<1>7. ASSUME NEW g \in Gets, Directory!Missing(g) PROVE PromiseInv'
  BY <1>7, AnswerKeeps DEF Directory!Missing
<1>8. CASE UNCHANGED Directory!dirVars
  BY <1>8 DEF Directory!dirVars, PromiseInv, Recorded, Directory!Promise, Directory!NoAliasTwice, Directory!AnswersName, Directory!NothingDenied
<1>9. QED BY <1>1, <1>2, <1>3, <1>4, <1>5, <1>6, <1>7, <1>8 DEF Directory!Next

\* Whoever keeps to UrlDirectory gives no alias twice, names the right link in every 201
\* and 302, and denies nothing that was given out; and this service does.
THEOREM PromiseKept == (KeepsPromise => []Directory!Promise) /\ (Spec => []Directory!Promise)
<1>1. PromiseInv => Directory!Promise
  BY DEF PromiseInv
<1>2. KeepsPromise => []Directory!Promise
  BY InitPromiseInv, StepPromiseInv, <1>1, PTL DEF KeepsPromise, Directory!Spec
<1>3. QED BY <1>2, Implementation, PTL

================================================================================
