--------------------------- MODULE QueryBaseProofs ---------------------------
(***************************************************************************)
(* What QueryBase guarantees for any set of clients, any number of purges  *)
(* at a time and any lifetime of a challenge.                              *)
(***************************************************************************)
EXTENDS QueryBase, TLAPS

(* A challenge in the map was issued, and under a number of its own, for   *)
(* challenges are generated one at a time.                                 *)
Numbered ==
  /\ \A a, b \in generating : a = b
  /\ \A a \in Addr : Present(a) => challenges[a].serial <= issued
  /\ \A n \in tried : n <= issued
  /\ \A a, b \in Addr : Present(a) /\ challenges[a].serial = challenges[b].serial => a = b

(* A purge compares with a moment that is not in the future.               *)
EpochsPassed == \A p \in Purge : purges[p].epoch <= now

(* Only a purge in the middle of its walk has a key to delete.             *)
Deleting == \A p \in Purge : purges[p].key # {} => purges[p].at = "range"

IInv == TypeOK /\ Numbered /\ EpochsPassed /\ Deleting /\ OneAnswer /\ PurgeIsThorough
        /\ PurgeSparesOlder

(* The inductive invariant holds at the start.                             *)
LEMMA InitIInv == Init => IInv
BY ConstantsAssumption
   DEF Init, IInv, TypeOK, Numbered, EpochsPassed, Deleting, OneAnswer, PurgeIsThorough,
       PurgeSparesOlder, Present,
       NoEntry, NoPurge, PurgeAt

USE DEF Present, Stale

(* Every step preserves the inductive invariant.                           *)
LEMMA StepIInv == IInv /\ [Next]_vars => IInv'
<1> SUFFICES ASSUME IInv, [Next]_vars PROVE IInv'
  OBVIOUS
<1> USE ConstantsAssumption DEF IInv
<1>1. CASE Tick
  BY <1>1 DEF Tick, TypeOK, Numbered, EpochsPassed, Deleting, OneAnswer, PurgeIsThorough,
     PurgeSparesOlder
<1>2. ASSUME NEW a \in Addr, GenerateBegins(a) PROVE IInv'
  <2>1. CASE now > challengesLastPurged
    <3>1. PICK p \in Purge : purges' = [purges EXCEPT ![p] = PurgeAt("spawned", now, {}, {})]
      BY <1>2, <2>1 DEF GenerateBegins, SpawnPurge
    <3>2. TypeOK'
      BY <1>2, <2>1, <3>1 DEF GenerateBegins, SpawnPurge, TypeOK, PurgeAt
    <3>3. EpochsPassed' /\ Deleting' /\ PurgeIsThorough' /\ PurgeSparesOlder'
      BY <1>2, <3>1 DEF GenerateBegins, EpochsPassed, Deleting, PurgeIsThorough,
                           PurgeSparesOlder, TypeOK, PurgeAt
    <3>4. QED
      BY <1>2, <3>2, <3>3 DEF GenerateBegins, Numbered, OneAnswer
  <2>2. CASE ~(now > challengesLastPurged)
    BY <1>2, <2>2 DEF GenerateBegins, SpawnPurge, TypeOK, Numbered, EpochsPassed,
       Deleting, OneAnswer,
                      PurgeIsThorough, PurgeSparesOlder
  <2>3. QED
    BY <2>1, <2>2
<1>3. CASE GenerateFails
  BY <1>3 DEF GenerateFails, TypeOK, Numbered, EpochsPassed, Deleting, OneAnswer,
     PurgeIsThorough, PurgeSparesOlder
<1>4. CASE GenerateStores
  <2>1. TypeOK'
    BY <1>4 DEF GenerateStores, TypeOK
  <2>2. \A a \in Addr : IF a \in generating
                           THEN challenges'[a].serial = issued + 1
                           ELSE challenges'[a] = challenges[a]
    BY <1>4 DEF GenerateStores
  <2>3. Numbered'
    <3>1. \A a \in Addr : challenges'[a].serial # 0 => challenges'[a].serial <= issued'
      BY <1>4, <2>2 DEF GenerateStores, TypeOK, Numbered
    <3>2. ASSUME NEW a \in Addr, NEW b \in Addr, challenges'[a].serial # 0,
                 challenges'[a].serial = challenges'[b].serial
          PROVE  a = b
      BY <1>4, <2>2, <3>2 DEF TypeOK, Numbered
    <3>3. QED
      BY <1>4, <3>1, <3>2 DEF GenerateStores, TypeOK, Numbered
  <2>4. OneAnswer'
    BY <1>4, <2>2 DEF GenerateStores, TypeOK, Numbered, OneAnswer
  <2>5. PurgeIsThorough'
    BY <1>4 DEF GenerateStores, TypeOK, EpochsPassed, PurgeIsThorough
  <2>6. PurgeSparesOlder'
    BY <1>4, <2>2 DEF GenerateStores, TypeOK, EpochsPassed, PurgeSparesOlder
  <2>7. QED
    BY <1>4, <2>1, <2>3, <2>4, <2>5, <2>6 DEF GenerateStores, EpochsPassed, Deleting
<1>5. ASSUME NEW a \in Addr, ChallengeMatchesForClient(a) PROVE IInv'
  BY <1>5 DEF ChallengeMatchesForClient, NoEntry, TypeOK, Numbered, EpochsPassed,
     Deleting, OneAnswer,
              PurgeIsThorough, PurgeSparesOlder
<1>6. ASSUME NEW p \in Purge, PurgeStarts(p) PROVE IInv'
  BY <1>6 DEF PurgeStarts, PurgeAt, TypeOK, Numbered, EpochsPassed, Deleting, OneAnswer,
     PurgeIsThorough, PurgeSparesOlder
<1>7. ASSUME NEW p \in Purge, NEW a \in Addr, PurgeVisits(p, a) PROVE IInv'
  BY <1>7 DEF PurgeVisits, PurgeAt, TypeOK, Numbered, EpochsPassed, Deleting, OneAnswer,
     PurgeIsThorough, PurgeSparesOlder
<1>8. ASSUME NEW p \in Purge, PurgeDeletes(p) PROVE IInv'
  <2>1. /\ challenges' \in [Addr -> [serial : Nat, expiry : Nat]]
        /\ \A a \in Addr : IF a \in purges[p].key THEN challenges'[a] = NoEntry
                                                 ELSE challenges'[a] = challenges[a]
    BY <1>8 DEF PurgeDeletes, NoEntry, TypeOK
  <2>2. TypeOK' /\ EpochsPassed' /\ Deleting'
    BY <1>8, <2>1 DEF PurgeDeletes, PurgeAt, TypeOK, EpochsPassed, Deleting
  <2>3. Numbered' /\ OneAnswer'
    BY <1>8, <2>1 DEF PurgeDeletes, NoEntry, Numbered, OneAnswer
  <2>4. PurgeIsThorough'
    <3> SUFFICES ASSUME NEW r \in Purge, purges'[r].at = "range", NEW a \in Addr,
                        a \notin purges'[r].todo, a \notin purges'[r].key
                 PROVE  ~Stale(a, purges[r].epoch)'
      BY DEF PurgeIsThorough
    <3>1. /\ purges'[r].epoch = purges[r].epoch /\ purges'[r].todo = purges[r].todo
          /\ r # p => purges'[r] = purges[r]
      BY <1>8 DEF PurgeDeletes, PurgeAt, TypeOK
    <3>2. CASE a \in purges[p].key
      BY <2>1, <3>2 DEF NoEntry
    <3>3. CASE a \notin purges[p].key /\ purges[r].at = "range"
      BY <2>1, <3>1, <3>3 DEF PurgeIsThorough
    <3>4. CASE purges[r].at # "range"
      BY <1>8, <3>1, <3>4 DEF PurgeDeletes, Deleting
    <3>5. QED
      BY <3>2, <3>3, <3>4
  <2>5. PurgeSparesOlder'
    BY <1>8, <2>1 DEF PurgeDeletes, PurgeAt, NoEntry, TypeOK, PurgeSparesOlder
  <2>6. QED
    BY <2>2, <2>3, <2>4, <2>5
<1>9. ASSUME NEW p \in Purge, PurgeEnds(p) PROVE IInv'
  BY <1>9 DEF PurgeEnds, PurgeAt, NoPurge, TypeOK, Numbered, EpochsPassed, Deleting,
     OneAnswer,
              PurgeIsThorough, PurgeSparesOlder
<1>10. CASE UNCHANGED vars
  BY <1>10 DEF vars, TypeOK, Numbered, EpochsPassed, Deleting, OneAnswer,
     PurgeIsThorough, PurgeSparesOlder
<1>11. QED
  BY <1>1, <1>2, <1>3, <1>4, <1>5, <1>6, <1>7, <1>8, <1>9, <1>10
     DEF Next, Generate, PurgeStep

(* The state of the responders stays in its types, whatever the clients,   *)
(* purges and lifetime are.                                                *)
THEOREM TypeCorrect == Spec => []TypeOK
<1>1. IInv => TypeOK
  BY DEF IInv
<1>2. QED
  BY <1>1, InitIInv, StepIInv, PTL DEF Spec

(* A challenge is good for one answer.                                     *)
THEOREM OneAnswerHolds == Spec => []OneAnswer
<1>1. IInv => OneAnswer
  BY DEF IInv
<1>2. QED
  BY <1>1, InitIInv, StepIInv, PTL DEF Spec

(* What a purge has passed it has cleaned.                                 *)
THEOREM PurgeIsThoroughHolds == Spec => []PurgeIsThorough
<1>1. IInv => PurgeIsThorough
  BY DEF IInv
<1>2. QED
  BY <1>1, InitIInv, StepIInv, PTL DEF Spec

(* What a purge deletes was stale, or was issued after the purge began.    *)
THEOREM PurgeSparesOlderHolds == Spec => []PurgeSparesOlder
<1>1. IInv => PurgeSparesOlder
  BY DEF IInv
<1>2. QED
  BY <1>1, InitIInv, StepIInv, PTL DEF Spec
=============================================================================
