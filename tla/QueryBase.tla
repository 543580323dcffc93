------------------------------ MODULE QueryBase ------------------------------
(***************************************************************************)
(* The challenges of the query responders (proto/base.go): the map from a  *)
(* client's address to the challenge it was given, GenerateChallenge,      *)
(* ChallengeMatchesForClient, and the purges of stale challenges that      *)
(* GenerateChallenge starts in the background.                             *)
(*                                                                         *)
(* handleQuery is the only caller of the first two; the purges run beside  *)
(* it and beside each other. Time advances between any two steps. The      *)
(* random value of a challenge is abstracted to the number of its issue.   *)
(***************************************************************************)
EXTENDS Naturals

CONSTANTS
  Addr,                 \* client addresses
  Purge,                \* bound: purges that may be running at a time
  Life,                 \* how long a challenge lives (a minute)
  MaxTime,              \* bound: the clock
  MaxIssued             \* bound: challenges issued

ASSUME ConstantsAssumption ==
  /\ Life \in Nat \ {0} /\ MaxTime \in Nat /\ MaxIssued \in Nat

VARIABLES
  now,                  \* the clock
  challenges,           \* the sync.Map: per address an entry, or NoEntry
  challengesLastPurged,
  generating,           \* the GenerateChallenge in progress, past its purge
  purges,               \* the purges running: [at, epoch, todo, key]
  issued,               \* how many challenges were issued; names the last
  tried                 \* history: the challenges an answer was compared with

vars == <<now, challenges, challengesLastPurged, generating, purges, issued, tried>>

NoEntry == [serial |-> 0, expiry |-> 0]
Present(a) == challenges[a].serial # 0
Stale(a, epoch) == Present(a) /\ epoch > challenges[a].expiry

PurgeAt(pc, epoch, todo, key) == [at |-> pc, epoch |-> epoch, todo |-> todo, key |-> key]
NoPurge == PurgeAt("none", 0, {}, {})

Init ==
  /\ now = 1 /\ challengesLastPurged = 0
  /\ challenges = [a \in Addr |-> NoEntry]
  /\ generating = {} /\ issued = 0 /\ tried = {}
  /\ purges = [p \in Purge |-> NoPurge]

Tick ==
  /\ now < MaxTime /\ now' = now + 1
  /\ UNCHANGED <<challenges, challengesLastPurged, generating, purges, issued, tried>>

-----------------------------------------------------------------------------
(* GenerateChallenge: a purge first, unless the clock has not moved since  *)
(* the last one; then a random value, or an error; then the store.         *)
SpawnPurge ==
  IF now > challengesLastPurged
    THEN /\ challengesLastPurged' = now
         /\ \E p \in Purge :
              /\ purges[p].at = "none"
              /\ purges' = [purges EXCEPT ![p] = PurgeAt("spawned", now, {}, {})]
    ELSE UNCHANGED <<challengesLastPurged, purges>>

GenerateBegins(a) ==
  /\ generating = {} /\ issued < MaxIssued
  /\ generating' = {a}
  /\ SpawnPurge
  /\ UNCHANGED <<now, challenges, issued, tried>>

GenerateFails ==
  /\ generating # {} /\ generating' = {}
  /\ UNCHANGED <<now, challenges, challengesLastPurged, purges, issued, tried>>

(* Mutant: the life of a challenge is subtracted from the time.            *)
GenerateStoresExpired ==
  /\ generating # {}
  /\ issued' = issued + 1
  /\ challenges' = [a \in Addr |->
       IF a \in generating
         THEN [serial |-> issued + 1, expiry |-> now - Life]
         ELSE challenges[a]]
  /\ generating' = {}
  /\ UNCHANGED <<now, challengesLastPurged, purges, tried>>

GenerateStores ==
  /\ generating # {}
  /\ issued' = issued + 1
  /\ challenges' = [a \in Addr |->
       IF a \in generating
         THEN [serial |-> issued + 1, expiry |-> now + Life]
         ELSE challenges[a]]
  /\ generating' = {}
  /\ UNCHANGED <<now, challengesLastPurged, purges, tried>>

(* Mutant: the entry is loaded, not taken out.                             *)
ChallengeStays(a) ==
  /\ generating = {} /\ Present(a)
  /\ tried' = tried \cup {challenges[a].serial}
  /\ UNCHANGED <<now, challenges, challengesLastPurged, generating, purges, issued>>

(* ChallengeMatchesForClient takes the entry out, whatever the answer is.  *)
ChallengeMatchesForClient(a) ==
  /\ generating = {} /\ Present(a)
  /\ challenges' = [challenges EXCEPT ![a] = NoEntry]
  /\ tried' = tried \cup {challenges[a].serial}
  /\ UNCHANGED <<now, challengesLastPurged, generating, purges, issued>>

-----------------------------------------------------------------------------
(* purgeStaleChallenges: Range visits the keys it finds when it starts;    *)
(* the entry of a key is read at its visit, and deleted by its key.        *)
PurgeStarts(p) ==
  /\ purges[p].at = "spawned"
  /\ purges' = [purges EXCEPT
                  ![p] = PurgeAt("range", @.epoch, {a \in Addr : Present(a)}, {})]
  /\ UNCHANGED <<now, challenges, challengesLastPurged, generating, issued, tried>>

(* Mutant: the Range ends at the first entry that is not stale.            *)
PurgeVisitsUntilFresh(p, a) ==
  /\ purges[p].at = "range" /\ purges[p].key = {} /\ a \in purges[p].todo
  /\ purges' = [purges EXCEPT
       ![p] = IF Stale(a, @.epoch)
                THEN PurgeAt("range", @.epoch, @.todo \ {a}, {a})
                ELSE PurgeAt("range", @.epoch, {}, {})]
  /\ UNCHANGED <<now, challenges, challengesLastPurged, generating, issued, tried>>

(* Mutant: fresh and stale are confused at the limit.                      *)
PurgeVisitsAtExpiry(p, a) ==
  /\ purges[p].at = "range" /\ purges[p].key = {} /\ a \in purges[p].todo
  /\ purges' = [purges EXCEPT
       ![p] = PurgeAt("range", @.epoch, @.todo \ {a},
                      IF Present(a) /\ @.epoch >= challenges[a].expiry THEN {a} ELSE {})]
  /\ UNCHANGED <<now, challenges, challengesLastPurged, generating, issued, tried>>

PurgeVisits(p, a) ==
  /\ purges[p].at = "range" /\ purges[p].key = {} /\ a \in purges[p].todo
  /\ purges' = [purges EXCEPT
       ![p] = PurgeAt("range", @.epoch, @.todo \ {a},
                      IF Stale(a, @.epoch) THEN {a} ELSE {})]
  /\ UNCHANGED <<now, challenges, challengesLastPurged, generating, issued, tried>>

PurgeDeletes(p) ==
  /\ purges[p].key # {}
  /\ challenges' = [a \in Addr |-> IF a \in purges[p].key THEN NoEntry ELSE challenges[a]]
  /\ purges' = [purges EXCEPT ![p] = PurgeAt("range", @.epoch, @.todo, {})]
  /\ UNCHANGED <<now, challengesLastPurged, generating, issued, tried>>

PurgeEnds(p) ==
  /\ purges[p].at = "range" /\ purges[p].todo = {} /\ purges[p].key = {}
  /\ purges' = [purges EXCEPT ![p] = NoPurge]
  /\ UNCHANGED <<now, challenges, challengesLastPurged, generating, issued, tried>>

-----------------------------------------------------------------------------
Generate == GenerateFails \/ GenerateStores \/ \E a \in Addr : GenerateBegins(a)
PurgeStep(p) ==
  PurgeStarts(p) \/ PurgeDeletes(p) \/ PurgeEnds(p) \/ \E a \in Addr : PurgeVisits(p, a)

Next ==
  \/ Tick
  \/ Generate
  \/ \E a \in Addr : ChallengeMatchesForClient(a)
  \/ \E p \in Purge : PurgeStep(p)

Spec == Init /\ [][Next]_vars

(* Purges that were started run to their end.                              *)
FairSpec == Spec /\ \A p \in Purge : WF_vars(PurgeStep(p))

-----------------------------------------------------------------------------
(* The state space.                                                        *)
TypeOK ==
  /\ now \in Nat /\ challengesLastPurged \in Nat /\ issued \in Nat
  /\ challenges \in [Addr -> [serial : Nat, expiry : Nat]]
  /\ generating \in SUBSET Addr
  /\ purges \in [Purge -> [at : {"none", "spawned", "range"}, epoch : Nat,
                           todo : SUBSET Addr, key : SUBSET Addr]]
  /\ tried \in SUBSET Nat

(* A challenge is good for one answer: whatever is in the map was never    *)
(* compared with an answer, so a wrong guess or a replay finds nothing.    *)
OneAnswer == \A a \in Addr : Present(a) => challenges[a].serial \notin tried

(* What a purge has passed it has cleaned: outside the keys it has still   *)
(* to visit or delete, no entry is stale at its epoch, although challenges *)
(* are issued and answered, and other purges run, beside it.               *)
PurgeIsThorough ==
  \A p \in Purge : purges[p].at = "range" =>
    \A a \in Addr \ (purges[p].todo \cup purges[p].key) : ~Stale(a, purges[p].epoch)

(* A challenge that is stale when a purge starts leaves the map.           *)
StaleLeaves ==
  \A a \in Addr, n \in 1 .. MaxIssued :
    (\E p \in Purge : /\ purges[p].at = "spawned" /\ Stale(a, purges[p].epoch)
                      /\ challenges[a].serial = n)
      ~> challenges[a].serial # n

(* A purge decides on the entry it visits and deletes by the key, so it    *)
(* may meet a challenge issued in between, but no other fresh one: what is *)
(* deleted was stale, or was issued after the purge began.                 *)
PurgeSparesOlder ==
  \A p \in Purge : \A a \in purges[p].key :
    Present(a) => \/ Stale(a, purges[p].epoch)
                  \/ challenges[a].expiry >= purges[p].epoch + Life
=============================================================================
