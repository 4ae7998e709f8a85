---------------------------- MODULE RequestProofs ----------------------------
(***************************************************************************)
(* TLAPS proofs about what a request meets on its way: the monitor's       *)
(* access guard, the limiters, the request log and the response cache, for *)
(* any sets of addresses, clients, requests, recorders and readers, and    *)
(* any settings; and about their composition with the login sessions.      *)
(***************************************************************************)
EXTENDS MCRequests, LoginSessionsProofs, FiniteSetTheorems, TLAPS

-----------------------------------------------------------------------------
(* The monitor's access guard                                              *)

BlockState == [long: 0..Horizon, until: Nat]

(* No block ends later than its whole duration from now.                   *)
BlockInv ==
    /\ time \in Nat
    /\ block \in [Addresses -> BlockState]
    /\ \A a \in Addresses : block[a].until <= time + block[a].long

LEMMA BlockSettings ==
    BlockFor \in Nat /\ Horizon \in Nat /\ CountWindow \in Nat /\ BlockFor <= Horizon
BY AccessAssumption

LEMMA BlockInitially == AccessInit => BlockInv
BY BlockSettings DEF AccessInit, BlockInv, BlockState, NoBlock

(* What a step does to the block of one address.                           *)
LEMMA BlockGrows ==
    ASSUME BlockInv, NEW a \in Addresses
    PROVE  /\ Escalated(a) \in BlockState
           /\ Escalated(a).until <= time + Escalated(a).long
           /\ Escalated(a).long >= block[a].long
           /\ Escalated(a).until >= block[a].until
<1> DEFINE long == block[a].long
           twice == IF 2 * long > Horizon THEN Horizon ELSE 2 * long
<1>1. /\ long \in 0..Horizon /\ block[a].until \in Nat /\ time \in Nat
      /\ block[a].until <= time + long
  BY DEF BlockInv, BlockState
<1>2. twice \in 0..Horizon /\ twice >= long
  BY <1>1, BlockSettings
<1>3. Escalated(a) = [long |-> twice, until |-> time + twice]
  BY DEF Escalated
<1> HIDE DEF long, twice
<1>4. time + twice \in Nat /\ time + twice >= block[a].until
  BY <1>1, <1>2, BlockSettings
<1>5. QED
  BY <1>1, <1>2, <1>3, <1>4 DEF BlockState, long

LEMMA BlockStep ==
    ASSUME BlockInv, AccessNext PROVE BlockInv'
<1>1. CASE UNCHANGED <<time, block>>
  BY <1>1 DEF BlockInv
<1>2. CASE Pass
  BY <1>2 DEF BlockInv, BlockState, Pass
<1>3. ASSUME NEW a \in Addresses, Escalate(a) PROVE BlockInv'
  <2>1. block' = [block EXCEPT ![a] = Escalated(a)] /\ time' = time
    BY <1>3 DEF Escalate
  <2>2. block' \in [Addresses -> BlockState]
    BY <2>1, BlockGrows DEF BlockInv
  <2>3. ASSUME NEW b \in Addresses PROVE block'[b].until <= time + block'[b].long
    BY <2>1, BlockGrows DEF BlockInv
  <2>4. QED
    BY <2>1, <2>2, <2>3 DEF BlockInv
<1>4. ASSUME NEW a \in Addresses, StartBlock(a) PROVE BlockInv'
  <2> DEFINE new == [long |-> BlockFor, until |-> time + BlockFor]
  <2>1. block' = [block EXCEPT ![a] = new] /\ time' = time
    BY <1>4 DEF StartBlock
  <2>2. new \in BlockState /\ new.until = time + new.long
    BY BlockSettings DEF BlockInv, BlockState
  <2> HIDE DEF new
  <2>3. QED
    BY <2>1, <2>2 DEF BlockInv, BlockState
<1>5. QED
  BY <1>1, <1>2, <1>3, <1>4
  DEF AccessNext, Request, Count, ClaimEmail, AlreadyEmailed, Issue, IssueFails

-----------------------------------------------------------------------------
(* _RECORD_VIOLATION_SCRIPT: while an address is blocked, no request of it, *)
(* and no request of another one, shortens its block or its next doubling. *)
THEOREM BlocksGrow == AccessSpec => BlocksOnlyGrow
<1> DEFINE Grows(a) == Blocked(a) => /\ block'[a].until >= block[a].until
                                     /\ block'[a].long >= block[a].long
<1>1. ASSUME BlockInv, AccessNext PROVE \A a \in Addresses : Grows(a)
  <2> SUFFICES ASSUME NEW a \in Addresses, Blocked(a) PROVE Grows(a)
    OBVIOUS
  <2>1. block[a].until \in Nat /\ block[a].long \in Nat
    BY <1>1, BlockSettings DEF BlockInv, BlockState
  <2>2. CASE UNCHANGED block
    BY <2>1, <2>2
  <2>3. ASSUME NEW b \in Addresses, Escalate(b) PROVE Grows(a)
    <3>1. block' = [block EXCEPT ![b] = Escalated(b)]
      BY <2>3 DEF Escalate
    <3>2. QED
      BY <1>1, <2>1, <3>1, BlockGrows DEF BlockInv
  <2>4. ASSUME NEW b \in Addresses, StartBlock(b) PROVE Grows(a)
    <3>1. a # b /\ block' = [block EXCEPT ![b] = [long |-> BlockFor, until |-> time + BlockFor]]
      BY <2>4 DEF StartBlock
    <3>2. QED
      BY <1>1, <2>1, <3>1 DEF BlockInv
  <2>5. QED
    BY <1>1, <2>2, <2>3, <2>4
    DEF AccessNext, Request, Count, ClaimEmail, AlreadyEmailed, Issue, IssueFails, Pass
<1>2. ASSUME BlockInv, [AccessNext]_accessVars PROVE BlockInv'
  BY <1>2, BlockStep DEF BlockInv, accessVars
<1>3. ASSUME BlockInv, [AccessNext]_accessVars
      PROVE  [\A a \in Addresses : Grows(a)]_accessVars
  BY <1>1, <1>3
<1> HIDE DEF Grows
<1>4. QED
  BY <1>2, <1>3, BlockInitially, PTL DEF AccessSpec, BlocksOnlyGrow, Grows

CountedHits == (0..LastTime) \X (1..MaxHits)

AccessCallState == [pc: {"none", "claim", "issue"}, from: SUBSET Addresses]

(* No request was let through that the counter has forgotten, unless a     *)
(* block outlasts the window it passed in.                                 *)
PassedCounted ==
    \A a \in Addresses :
        /\ \/ Recent(passed[a]) \subseteq Recent(hits[a])
           \/ \A m \in Recent(passed[a]) : m[1] + CountWindow <= block[a].until
        /\ \A m \in passed[a] : m[1] <= time

AccessInv == AccessTypeOK /\ BlockInv /\ PassedCounted /\ HitsBounded

LEMMA AccessNumbers ==
    /\ CountWindow \in Nat /\ MaxHits \in Nat /\ BlockFor \in Nat /\ KeyLife \in Nat
    /\ LastTime \in Nat /\ Horizon \in Nat
    /\ CountWindow > 0 /\ MaxHits > 0 /\ BlockFor > 0
    /\ CountWindow <= BlockFor /\ BlockFor <= Horizon /\ CountWindow <= LastTime
BY AccessAssumption

LEMMA CountedFinite ==
    ASSUME NEW S \in SUBSET CountedHits
    PROVE  /\ IsFiniteSet(S)
           /\ Recent(S) \in SUBSET CountedHits
           /\ IsFiniteSet(Recent(S)) /\ Cardinality(Recent(S)) \in Nat
<1>1. IsFiniteSet(0..LastTime) /\ IsFiniteSet(1..MaxHits)
  BY AccessNumbers, FS_Interval
<1>2. IsFiniteSet(CountedHits)
  BY <1>1, FS_Product DEF CountedHits
<1>3. Recent(S) \in SUBSET CountedHits
  BY DEF Recent
<1>4. QED
  BY <1>2, <1>3, FS_Subset, FS_CardinalityType

LEMMA AccessInitially == AccessInit => AccessInv
<1> SUFFICES ASSUME AccessInit PROVE AccessInv
  OBVIOUS
<1>1. AccessTypeOK
  BY AccessNumbers DEF AccessInit, AccessTypeOK, NoBlock, NoCall
<1>2. \A a \in Addresses : Recent(passed[a]) = {} /\ passed[a] = {}
  BY DEF AccessInit, Recent
<1>3. PassedCounted /\ HitsBounded
  BY <1>2, FS_EmptySet, AccessNumbers DEF PassedCounted, HitsBounded
<1>4. QED
  BY <1>1, <1>3, BlockInitially DEF AccessInv

(* Steps that leave the counter, the blocks and the clock alone.           *)
LEMMA EmailSteps ==
    ASSUME AccessInv, NEW c \in Calls,
           ClaimEmail(c) \/ AlreadyEmailed(c) \/ Issue(c) \/ IssueFails(c)
    PROVE  AccessInv'
<1>1. UNCHANGED <<time, hits, block, passed>>
  BY DEF ClaimEmail, AlreadyEmailed, Issue, IssueFails
<1>2. PassedCounted' /\ HitsBounded' /\ BlockInv'
  BY <1>1 DEF AccessInv, PassedCounted, HitsBounded, BlockInv, Recent
<1>3. /\ time \in Nat /\ time <= LastTime
      /\ \A n \in Nat : n <= CountWindow => time + n \in 0..LastTime + CountWindow
      /\ \A n \in Nat : n <= KeyLife => time + n \in 0..LastTime + KeyLife
  BY AccessNumbers DEF AccessInv, AccessTypeOK
<1>4. emailed' \in [Addresses -> 0..LastTime + CountWindow]
  BY <1>3, AccessNumbers DEF AccessInv, AccessTypeOK, ClaimEmail, AlreadyEmailed, Issue, IssueFails
<1>5. valid' \in [AccessKeys -> 0..LastTime + KeyLife]
  BY <1>3, AccessNumbers DEF AccessInv, AccessTypeOK, ClaimEmail, AlreadyEmailed, Issue, IssueFails
<1>6. call' \in [Calls -> AccessCallState]
  <2>1. CASE ClaimEmail(c)
    <3>1. [call[c] EXCEPT !.pc = "issue"] \in AccessCallState
      BY DEF AccessInv, AccessTypeOK, AccessCallState
    <3>2. QED
      BY <2>1, <3>1 DEF ClaimEmail, AccessInv, AccessTypeOK, AccessCallState
  <2>2. CASE AlreadyEmailed(c) \/ Issue(c) \/ IssueFails(c)
    <3>1. NoCall \in AccessCallState
      BY DEF NoCall, AccessCallState
    <3>2. QED
      BY <2>2, <3>1 DEF AlreadyEmailed, Issue, IssueFails, AccessInv, AccessTypeOK, AccessCallState
  <2>3. QED
    BY <2>1, <2>2
<1>7. AccessTypeOK'
  BY <1>1, <1>4, <1>5, <1>6 DEF AccessInv, AccessTypeOK, AccessCallState
<1>8. QED
  BY <1>2, <1>7 DEF AccessInv

(* A block that is set or grows.                                           *)
LEMMA BlockSteps ==
    ASSUME AccessInv, NEW a \in Addresses, Escalate(a) \/ StartBlock(a)
    PROVE  AccessInv'
<1> DEFINE new == IF Escalate(a) THEN Escalated(a)
                  ELSE [long |-> BlockFor, until |-> time + BlockFor]
<1>1. /\ block' = [block EXCEPT ![a] = new]
      /\ \A b \in Addresses : hits'[b] = hits[b] \/ (b = a /\ hits'[b] = {} /\ ~Escalate(a))
      /\ hits' = hits \/ hits' = [hits EXCEPT ![a] = {}]
      /\ UNCHANGED <<time, emailed, valid, call, passed>>
  BY DEF Escalate, StartBlock, AccessInv, AccessTypeOK
<1>2. /\ time \in Nat /\ time <= LastTime
      /\ \A b \in Addresses : block[b] \in BlockState
      /\ \A b \in Addresses : block[b].until \in Nat /\ block[b].until <= LastTime + Horizon
  BY AccessNumbers DEF AccessInv, AccessTypeOK, BlockState
<1>3. /\ new \in BlockState /\ new.until <= time + new.long
      /\ Escalate(a) => new.until >= block[a].until
      /\ ~Escalate(a) => new.until = time + BlockFor
  <2>1. CASE Escalate(a)
    BY <2>1, BlockGrows DEF AccessInv
  <2>2. CASE ~Escalate(a)
    BY <1>2, <2>2, AccessNumbers DEF BlockState
  <2>3. QED
    BY <2>1, <2>2
<1> HIDE DEF new
<1>4. new \in [long: 0..Horizon, until: 0..LastTime + Horizon]
  BY <1>2, <1>3, AccessNumbers DEF BlockState
<1>5. AccessTypeOK'
  BY <1>1, <1>4 DEF AccessInv, AccessTypeOK
<1>6. BlockInv'
  BY <1>1, <1>2, <1>3 DEF AccessInv, BlockInv
<1>7. HitsBounded'
  BY <1>1 DEF AccessInv, HitsBounded, Recent
<1>8. ASSUME NEW b \in Addresses
      PROVE  /\ \/ Recent(passed[b])' \subseteq Recent(hits[b])'
                \/ \A m \in Recent(passed[b])' : m[1] + CountWindow <= block'[b].until
             /\ \A m \in passed'[b] : m[1] <= time'
  <2>1. \A m \in passed[b] : m[1] <= time /\ m[1] \in Nat
    BY AccessNumbers DEF AccessInv, AccessTypeOK, PassedCounted
  <2>2. Recent(passed[b])' = Recent(passed[b]) /\ Recent(passed[b]) \subseteq passed[b]
    BY <1>1 DEF Recent
  <2>3. CASE b = a /\ ~Escalate(a)
    <3>1. block'[b].until = time + BlockFor
      BY <1>1, <1>3, <2>3 DEF AccessInv, AccessTypeOK
    <3>2. \A m \in passed[b] : m[1] + CountWindow <= time + BlockFor
      BY <1>2, <2>1, AccessNumbers
    <3>3. QED
      BY <1>1, <2>1, <2>2, <3>1, <3>2
  <2>4. CASE b # a \/ Escalate(a)
    <3>1. Recent(hits[b])' = Recent(hits[b])
      BY <1>1, <2>4 DEF Recent
    <3>2. block'[b].until \in Nat /\ block'[b].until >= block[b].until /\ block[b].until \in Nat
      BY <1>1, <1>2, <1>3, <2>4 DEF AccessInv, AccessTypeOK, BlockState
    <3>3. \A m \in passed[b] :
             m[1] + CountWindow <= block[b].until => m[1] + CountWindow <= block'[b].until
      BY <2>1, <3>2, AccessNumbers
    <3>4. QED
      BY <1>1, <2>1, <2>2, <3>1, <3>3 DEF AccessInv, PassedCounted
  <2>5. QED
    BY <2>3, <2>4
<1>9. QED
  BY <1>5, <1>6, <1>7, <1>8 DEF AccessInv, PassedCounted

(* A request let through: a block that let the counter start over has      *)
(* outlasted everything the counter forgot.                                *)
LEMMA CountSteps ==
    ASSUME AccessInv, NEW c \in Calls, NEW a \in Addresses, NEW keyed \in BOOLEAN,
           Count(c, a, keyed)
    PROVE  AccessInv'
<1> DEFINE H == Recent(hits[a])
           P == Recent(passed[a])
           m == NewHit(a)
<1>1. /\ time \in Nat /\ time \in 0..LastTime /\ block[a].until \in Nat /\ block[a].until <= time
      /\ hits[a] \in SUBSET CountedHits /\ passed[a] \in SUBSET CountedHits
  BY AccessNumbers DEF AccessInv, AccessTypeOK, Count, Blocked, CountedHits
<1>2. /\ H \in SUBSET CountedHits /\ IsFiniteSet(H) /\ Cardinality(H) \in Nat
      /\ P \in SUBSET CountedHits /\ Cardinality(H) < MaxHits
  BY <1>1, CountedFinite, AccessNumbers DEF Count, ReachesMaximum
<1>3. m \in CountedHits /\ m[1] = time
  BY <1>1, <1>2, AccessNumbers DEF NewHit, CountedHits
<1>4. /\ hits' = [hits EXCEPT ![a] = H \cup {m}]
      /\ passed' = [passed EXCEPT ![a] = P \cup {m}]
      /\ UNCHANGED <<time, block, emailed, valid>>
      /\ call' = call \/ call' = [call EXCEPT ![c] = [pc |-> "claim", from |-> {a}]]
  BY DEF Count
<1>5. P \subseteq H
  <2>1. \A x \in P : x[1] + CountWindow > time /\ x[1] \in Nat
    BY <1>1, AccessNumbers DEF Recent, CountedHits
  <2>2. ASSUME NEW x \in P, x[1] + CountWindow <= block[a].until PROVE FALSE
    BY <1>1, <2>1, <2>2, AccessNumbers
  <2>3. QED
    BY <2>2 DEF AccessInv, PassedCounted
<1> HIDE DEF m
<1>6. /\ Recent(H \cup {m}) = H \cup {m}
      /\ Recent(P \cup {m}) = P \cup {m}
  BY <1>1, <1>3, AccessNumbers DEF Recent
<1> HIDE DEF H, P
<1>7. Cardinality(P \cup {m}) <= MaxHits
  <2>1. IsFiniteSet(P) /\ Cardinality(P) \in Nat /\ Cardinality(P) < MaxHits
    BY <1>2, <1>5, FS_Subset, FS_CardinalityType, AccessNumbers
  <2>2. Cardinality(P \cup {m}) = Cardinality(P) \/ Cardinality(P \cup {m}) = Cardinality(P) + 1
    BY <2>1, FS_AddElement
  <2>3. QED
    BY <2>1, <2>2, AccessNumbers
<1>8. AccessTypeOK'
  <2>1. H \cup {m} \in SUBSET CountedHits /\ P \cup {m} \in SUBSET CountedHits
    BY <1>2, <1>3
  <2>2. /\ hits' \in [Addresses -> SUBSET CountedHits]
        /\ passed' \in [Addresses -> SUBSET CountedHits]
    BY <1>4, <2>1 DEF AccessInv, AccessTypeOK, CountedHits
  <2>3. [pc |-> "claim", from |-> {a}] \in AccessCallState
    BY DEF AccessCallState
  <2>4. call' \in [Calls -> AccessCallState]
    BY <1>4, <2>3 DEF AccessInv, AccessTypeOK, AccessCallState
  <2>5. QED
    BY <1>4, <2>2, <2>4 DEF AccessInv, AccessTypeOK, CountedHits, AccessCallState
<1>9. BlockInv'
  BY <1>4 DEF AccessInv, BlockInv
<1>10. ASSUME NEW b \in Addresses
       PROVE  /\ \/ Recent(passed[b])' \subseteq Recent(hits[b])'
                 \/ \A x \in Recent(passed[b])' : x[1] + CountWindow <= block'[b].until
              /\ \A x \in passed'[b] : x[1] <= time'
              /\ Cardinality(Recent(passed[b])') <= MaxHits
  <2>1. CASE b = a
    <3>1. /\ passed'[b] = P \cup {m} /\ hits'[b] = H \cup {m}
      BY <1>4, <2>1 DEF AccessInv, AccessTypeOK
    <3>2. /\ Recent(passed[b])' = P \cup {m} /\ Recent(hits[b])' = H \cup {m}
      BY <1>4, <1>6, <3>1 DEF Recent
    <3>3. \A x \in P : x[1] <= time
      BY DEF AccessInv, PassedCounted, P, Recent
    <3>4. \A x \in passed'[b] : x[1] <= time'
      BY <1>1, <1>3, <1>4, <3>1, <3>3
    <3>5. P \cup {m} \subseteq H \cup {m}
      BY <1>5
    <3>6. QED
      BY <1>7, <3>2, <3>4, <3>5
  <2>2. CASE b # a
    <3>1. /\ passed'[b] = passed[b]
          /\ Recent(passed[b])' = Recent(passed[b]) /\ Recent(hits[b])' = Recent(hits[b])
      BY <1>4, <2>2 DEF AccessInv, AccessTypeOK, Recent
    <3>2. QED
      BY <1>4, <3>1 DEF AccessInv, PassedCounted, HitsBounded
  <2>3. QED
    BY <2>1, <2>2
<1>11. PassedCounted' /\ HitsBounded'
  BY <1>10 DEF PassedCounted, HitsBounded
<1>12. QED
  BY <1>8, <1>9, <1>11 DEF AccessInv

LEMMA PassKeeps == ASSUME AccessInv, Pass PROVE AccessInv'
<1>1. /\ time \in Nat /\ time' = time + 1 /\ time' \in CountWindow..LastTime
      /\ UNCHANGED <<hits, block, emailed, valid, call, passed>>
  BY AccessNumbers DEF AccessInv, AccessTypeOK, Pass
<1>2. AccessTypeOK'
  BY <1>1 DEF AccessInv, AccessTypeOK
<1>3. BlockInv'
  BY <1>1 DEF AccessInv, BlockInv, BlockState
<1>4. ASSUME NEW a \in Addresses
      PROVE  /\ \/ Recent(passed[a])' \subseteq Recent(hits[a])'
                \/ \A x \in Recent(passed[a])' : x[1] + CountWindow <= block'[a].until
             /\ \A x \in passed'[a] : x[1] <= time'
             /\ Cardinality(Recent(passed[a])') <= MaxHits
  <2>1. passed[a] \in SUBSET CountedHits /\ hits[a] \in SUBSET CountedHits
    BY DEF AccessInv, AccessTypeOK, CountedHits
  <2>2. \A x \in CountedHits : x[1] \in Nat
    BY AccessNumbers DEF CountedHits
  <2>3. /\ Recent(passed[a])' = {x \in Recent(passed[a]) : x[1] + CountWindow > time + 1}
        /\ Recent(hits[a])' = {x \in Recent(hits[a]) : x[1] + CountWindow > time + 1}
    BY <1>1, <2>1, <2>2, AccessNumbers DEF Recent
  <2>4. Cardinality(Recent(passed[a])') <= MaxHits
    <3>1. /\ IsFiniteSet(Recent(passed[a])) /\ Recent(passed[a])' \subseteq Recent(passed[a])
          /\ Cardinality(Recent(passed[a])) \in Nat /\ Cardinality(Recent(passed[a])) <= MaxHits
      BY <2>1, <2>3, CountedFinite DEF AccessInv, HitsBounded
    <3>2. QED
      BY <3>1, FS_Subset, FS_CardinalityType, AccessNumbers
  <2>5. \A x \in passed[a] : x[1] <= time /\ x[1] \in Nat
    BY <2>1, <2>2 DEF AccessInv, PassedCounted
  <2>6. \A x \in passed'[a] : x[1] <= time'
    BY <1>1, <2>5
  <2>7. \/ Recent(passed[a]) \subseteq Recent(hits[a])
        \/ \A x \in Recent(passed[a]) : x[1] + CountWindow <= block[a].until
    BY DEF AccessInv, PassedCounted
  <2>8. QED
    BY <1>1, <2>3, <2>4, <2>6, <2>7
<1>5. QED
  BY <1>2, <1>3, <1>4 DEF AccessInv, PassedCounted, HitsBounded

LEMMA AccessStep == ASSUME AccessInv, [AccessNext]_accessVars PROVE AccessInv'
<1>1. ASSUME AccessInv, AccessNext PROVE AccessInv'
  BY <1>1, EmailSteps, BlockSteps, CountSteps, PassKeeps DEF AccessNext, Request
<1>2. ASSUME AccessInv, UNCHANGED accessVars PROVE AccessInv'
  <2>1. UNCHANGED <<time, hits, block, emailed, valid, call, passed>>
    BY <1>2 DEF accessVars
  <2>2. AccessTypeOK' /\ BlockInv'
    BY <1>2, <2>1 DEF AccessInv, AccessTypeOK, BlockInv
  <2>3. PassedCounted' /\ HitsBounded'
    BY <1>2, <2>1 DEF AccessInv, PassedCounted, HitsBounded, Recent
  <2>4. QED
    BY <2>2, <2>3 DEF AccessInv
<1>3. QED
  BY <1>1, <1>2

LEMMA AccessInductive == AccessSpec => []AccessInv
BY AccessInitially, AccessStep, PTL DEF AccessSpec

(* _RECORD_VIOLATION_SCRIPT: no window of the counter's length sees more   *)
(* than MaxHits unauthenticated requests of an address pass, although a    *)
(* block starts the counter over: the block outlasts what is forgotten.    *)
THEOREM AddressHitsBounded == AccessSpec => []HitsBounded
BY AccessInductive, PTL DEF AccessInv

-----------------------------------------------------------------------------
(* The limiters                                                            *)

Hits == (0..LastTick) \X (1..LimitMax)

ArrivalState == [pc: {"idle", "count", "blind", "punish"}, who: SUBSET LimitClients]

(* What counted admissions left is in the sorted set as long as the window *)
(* sees it; the window holds no more than may be admitted.                 *)
AdmissionsCounted ==
    \A c \in LimitClients :
        /\ InWindow(admitted[c]) \subseteq InWindow(zset[c])
        /\ Cardinality(InWindow(zset[c])) <= LimitMax

(* The members of this second are numbered by the hits they found.         *)
MembersNumbered ==
    \A c \in LimitClients : \A m \in InWindow(zset[c]) :
        /\ m[1] <= tick
        /\ m[1] = tick => m[2] <= Cardinality(InWindow(zset[c]))

LimitInv == LimitTypeOK /\ AdmissionsCounted /\ MembersNumbered

LEMMA LimitNumbers ==
    /\ LimitWindow \in Nat /\ LimitMax \in Nat /\ Penalty \in Nat /\ LastTick \in Nat
    /\ LimitWindow > 0
BY LimitAssumption

LEMMA HitsFinite ==
    ASSUME NEW S \in SUBSET Hits
    PROVE  IsFiniteSet(S)
<1>1. IsFiniteSet(0..LastTick) /\ IsFiniteSet(1..LimitMax)
  BY LimitNumbers, FS_Interval
<1>2. IsFiniteSet(Hits)
  BY <1>1, FS_Product DEF Hits
<1>3. QED
  BY <1>2, FS_Subset

LEMMA WindowSize ==
    ASSUME NEW S \in SUBSET Hits
    PROVE  /\ InWindow(S) \in SUBSET Hits
           /\ InWindow(InWindow(S)) = InWindow(S)
           /\ IsFiniteSet(InWindow(S)) /\ Cardinality(InWindow(S)) \in Nat
<1>1. InWindow(S) \in SUBSET Hits /\ InWindow(InWindow(S)) = InWindow(S)
  BY DEF InWindow
<1>2. QED
  BY <1>1, HitsFinite, FS_CardinalityType

LEMMA LimitInitially == LimitInit => LimitInv
<1> SUFFICES ASSUME LimitInit PROVE LimitInv
  OBVIOUS
<1>1. LimitTypeOK
  BY LimitNumbers DEF LimitInit, LimitTypeOK, NoArrival
<1>2. \A c \in LimitClients : InWindow(zset[c]) = {} /\ InWindow(admitted[c]) = {}
  BY DEF LimitInit, InWindow
<1>3. AdmissionsCounted /\ MembersNumbered
  BY <1>2, FS_EmptySet, LimitNumbers DEF AdmissionsCounted, MembersNumbered
<1>4. QED
  BY <1>1, <1>3 DEF LimitInv

(* A step of a request that leaves the sorted sets and the penalties.      *)
LEMMA ArrivalMoves ==
    ASSUME LimitInv, NEW r \in Arrivals, NEW s \in ArrivalState,
           arrival' = [arrival EXCEPT ![r] = s],
           UNCHANGED <<tick, zset, penalty, admitted>>
    PROVE  LimitInv'
<1>1. LimitTypeOK'
  BY DEF LimitInv, LimitTypeOK, ArrivalState
<1>2. AdmissionsCounted' /\ MembersNumbered'
  BY DEF LimitInv, AdmissionsCounted, MembersNumbered, InWindow
<1>3. QED
  BY <1>1, <1>2 DEF LimitInv

LEMMA EnterKeeps ==
    ASSUME LimitInv, NEW r \in Arrivals, NEW c \in LimitClients,
           Enter(r, c) \/ EnterCooldown(r, c) \/ EnterBlind(r, c)
    PROVE  LimitInv'
<1> DEFINE s(step) == [pc |-> step, who |-> {c}]
<1>1. \A step \in {"count", "blind", "punish"} : s(step) \in ArrivalState
  BY DEF ArrivalState
<1>2. PICK step \in {"count", "blind", "punish"} : arrival' = [arrival EXCEPT ![r] = s(step)]
  BY DEF Enter, EnterCooldown, EnterBlind, Goes
<1>3. UNCHANGED <<tick, zset, penalty, admitted>>
  BY DEF Enter, EnterCooldown, EnterBlind
<1> HIDE DEF s
<1>4. QED
  BY <1>1, <1>2, <1>3, ArrivalMoves

LEMMA NoArrivalTyped == NoArrival \in ArrivalState /\ NoArrival.pc = "idle"
BY DEF NoArrival, ArrivalState

LEMMA LeaveKeeps ==
    ASSUME LimitInv, NEW r \in Arrivals, NEW c \in LimitClients,
           AdmitBlind(r, c) \/ PunishFails(r, c)
    PROVE  LimitInv'
BY NoArrivalTyped, ArrivalMoves DEF AdmitBlind, PunishFails

(* The member an admission adds is a new one.                              *)
LEMMA MemberIsNew ==
    ASSUME LimitInv, NEW c \in LimitClients, ~WindowFull(c)
    PROVE  /\ NewMember(c) \in Hits
           /\ NewMember(c) \notin InWindow(zset[c])
           /\ Cardinality(InWindow(zset[c]) \cup {NewMember(c)})
                = Cardinality(InWindow(zset[c])) + 1
<1>1. zset[c] \in SUBSET Hits /\ tick \in 0..LastTick
  BY DEF LimitInv, LimitTypeOK, Hits
<1>2. Cardinality(InWindow(zset[c])) \in Nat /\ IsFiniteSet(InWindow(zset[c]))
  BY <1>1, WindowSize
<1>3. NewMember(c) \in Hits /\ NewMember(c)[1] = tick
      /\ NewMember(c)[2] = Cardinality(InWindow(zset[c])) + 1
  BY <1>1, <1>2, LimitNumbers DEF NewMember, Hits, WindowFull
<1>4. NewMember(c) \notin InWindow(zset[c])
  BY <1>2, <1>3 DEF LimitInv, MembersNumbered
<1>5. QED
  BY <1>2, <1>3, <1>4, FS_AddElement

LEMMA AdmitKeeps ==
    ASSUME LimitInv, NEW r \in Arrivals, NEW c \in LimitClients, Admit(r, c)
    PROVE  LimitInv'
<1> DEFINE W == InWindow(zset[c])
           m == NewMember(c)
<1>1. /\ zset[c] \in SUBSET Hits /\ admitted[c] \in SUBSET Hits /\ tick \in Nat
      /\ tick' = tick
  BY LimitNumbers DEF LimitInv, LimitTypeOK, Hits, Admit
<1>2. /\ W \in SUBSET Hits /\ Cardinality(W) \in Nat /\ Cardinality(W) < LimitMax
      /\ InWindow(admitted[c]) \subseteq W
  BY <1>1, WindowSize, LimitNumbers DEF Admit, WindowFull, LimitInv, AdmissionsCounted
<1>3. /\ m \in Hits /\ m \notin W /\ Cardinality(W \cup {m}) = Cardinality(W) + 1
  BY MemberIsNew DEF Admit
<1>4. m[1] = tick /\ m[2] = Cardinality(W) + 1
  BY DEF NewMember
<1>5. /\ zset' = [zset EXCEPT ![c] = W \cup {m}]
      /\ admitted' = [admitted EXCEPT ![c] = InWindow(admitted[c]) \cup {m}]
      /\ arrival' = [arrival EXCEPT ![r] = NoArrival]
      /\ penalty' = penalty
  BY DEF Admit
<1>6. InWindow(admitted[c]) \cup {m} \in SUBSET Hits
  BY <1>1, <1>3, WindowSize
<1> HIDE DEF W, m
<1>7. LimitTypeOK'
  BY <1>1, <1>2, <1>3, <1>5, <1>6, NoArrivalTyped DEF LimitInv, LimitTypeOK, ArrivalState, Hits
<1>8. ASSUME NEW d \in LimitClients
      PROVE  /\ InWindow(admitted[d])' \subseteq InWindow(zset[d])'
             /\ Cardinality(InWindow(zset[d])') <= LimitMax
             /\ \A h \in InWindow(zset[d])' :
                   /\ h[1] <= tick
                   /\ h[1] = tick => h[2] <= Cardinality(InWindow(zset[d])')
  <2>1. CASE d = c
    <3>1. /\ zset'[d] = W \cup {m} /\ admitted'[d] = InWindow(admitted[c]) \cup {m}
      BY <1>5, <2>1 DEF LimitInv, LimitTypeOK
    <3>2. InWindow(zset[d])' = W \cup {m}
      <4>1. \A h \in W : h[1] + LimitWindow > tick
        BY DEF InWindow, W
      <4>2. m[1] + LimitWindow > tick
        BY <1>1, <1>4, LimitNumbers
      <4>3. QED
        BY <1>1, <3>1, <4>1, <4>2 DEF InWindow
    <3>3. InWindow(admitted[d])' \subseteq W \cup {m}
      BY <1>1, <1>2, <3>1 DEF InWindow, W
    <3>4. \A h \in W : h[1] <= tick /\ (h[1] = tick => h[2] <= Cardinality(W))
      BY DEF LimitInv, MembersNumbered, W
    <3>5. \A h \in W : h[2] \in Nat
      BY <1>2, LimitNumbers DEF Hits
    <3> DEFINE n == Cardinality(W)
               N == Cardinality(W \cup {m})
    <3>6. n \in Nat /\ N = n + 1 /\ N <= LimitMax
      BY <1>2, <1>3, LimitNumbers
    <3> HIDE DEF n, N
    <3>7. \A h \in W : h[2] \in Nat /\ h[1] <= tick /\ (h[1] = tick => h[2] <= n)
      BY <3>4, <3>5 DEF n
    <3>8. m[1] <= tick /\ m[2] = N
      BY <1>1, <1>4, <3>6 DEF n
    <3>9. \A h \in W \cup {m} : h[1] <= tick /\ (h[1] = tick => h[2] <= N)
      BY <3>6, <3>7, <3>8
    <3>10. QED
      BY <3>2, <3>3, <3>6, <3>9 DEF N
  <2>2. CASE d # c
    <3>1. InWindow(zset[d])' = InWindow(zset[d]) /\ InWindow(admitted[d])' = InWindow(admitted[d])
      BY <1>1, <1>5, <2>2 DEF LimitInv, LimitTypeOK, InWindow
    <3>2. QED
      BY <3>1 DEF LimitInv, AdmissionsCounted, MembersNumbered
  <2>3. QED
    BY <2>1, <2>2
<1>9. AdmissionsCounted' /\ MembersNumbered'
  BY <1>1, <1>8 DEF AdmissionsCounted, MembersNumbered
<1>10. QED
  BY <1>7, <1>9 DEF LimitInv

LEMMA RejectKeeps ==
    ASSUME LimitInv, NEW r \in Arrivals, NEW c \in LimitClients, Reject(r, c)
    PROVE  LimitInv'
<1>1. /\ zset' = [zset EXCEPT ![c] = InWindow(@)]
      /\ UNCHANGED <<tick, penalty, admitted>>
  BY DEF Reject
<1>2. \A d \in LimitClients : zset[d] \in SUBSET Hits
  BY DEF LimitInv, LimitTypeOK, Hits
<1>3. \A d \in LimitClients : InWindow(zset[d])' = InWindow(zset[d])
  BY <1>1, WindowSize DEF LimitInv, LimitTypeOK, InWindow
<1>4. /\ zset' \in [LimitClients -> SUBSET Hits]
  BY <1>1, <1>2, WindowSize DEF LimitInv, LimitTypeOK, Hits
<1>5. \A d \in LimitClients : InWindow(admitted[d])' = InWindow(admitted[d])
  BY <1>1 DEF InWindow
<1>6. AdmissionsCounted' /\ MembersNumbered'
  BY <1>1, <1>3, <1>5 DEF LimitInv, AdmissionsCounted, MembersNumbered
<1>7. PICK s \in ArrivalState : arrival' = [arrival EXCEPT ![r] = s]
  <2>1. CASE c \in MonitorClients
    BY <2>1, NoArrivalTyped DEF Reject
  <2>2. CASE c \notin MonitorClients
    <3> DEFINE s == [arrival[r] EXCEPT !.pc = "punish"]
    <3>1. s \in ArrivalState
      BY DEF LimitInv, LimitTypeOK, ArrivalState
    <3>2. arrival' = [arrival EXCEPT ![r] = s]
      BY <2>2 DEF Reject
    <3> HIDE DEF s
    <3>3. QED
      BY <3>1, <3>2
  <2>3. QED
    BY <2>1, <2>2
<1>8. LimitTypeOK'
  BY <1>1, <1>4, <1>7 DEF LimitInv, LimitTypeOK, ArrivalState, Hits
<1>9. QED
  BY <1>6, <1>8 DEF LimitInv

LEMMA PunishKeeps ==
    ASSUME LimitInv, NEW r \in Arrivals, NEW c \in LimitClients, Punish(r, c)
    PROVE  LimitInv'
<1>1. LimitTypeOK'
  BY NoArrivalTyped, LimitNumbers
  DEF LimitInv, LimitTypeOK, Punish, ArrivalState
<1>2. AdmissionsCounted' /\ MembersNumbered'
  BY DEF LimitInv, AdmissionsCounted, MembersNumbered, Punish, InWindow
<1>3. QED
  BY <1>1, <1>2 DEF LimitInv

LEMMA LimitTickKeeps ==
    ASSUME LimitInv, LimitTick
    PROVE  LimitInv'
<1>1. /\ tick \in Nat /\ tick' = tick + 1 /\ tick' \in 0..LastTick
      /\ UNCHANGED <<zset, penalty, arrival, admitted>>
  BY LimitNumbers DEF LimitInv, LimitTypeOK, LimitTick
<1>2. LimitTypeOK'
  BY <1>1 DEF LimitInv, LimitTypeOK
<1>3. ASSUME NEW c \in LimitClients
      PROVE  /\ InWindow(admitted[c])' \subseteq InWindow(zset[c])'
             /\ Cardinality(InWindow(zset[c])') <= LimitMax
             /\ \A m \in InWindow(zset[c])' : m[1] <= tick
  <2>1. zset[c] \in SUBSET Hits /\ admitted[c] \in SUBSET Hits
    BY DEF LimitInv, LimitTypeOK, Hits
  <2>2. \A m \in Hits : m[1] \in Nat
    BY LimitNumbers DEF Hits
  <2>3. /\ InWindow(zset[c])' = {m \in InWindow(zset[c]) : m[1] + LimitWindow > tick + 1}
        /\ InWindow(admitted[c])' = {m \in InWindow(admitted[c]) : m[1] + LimitWindow > tick + 1}
    BY <1>1, <2>1, <2>2, LimitNumbers DEF InWindow
  <2>4. /\ Cardinality(InWindow(zset[c])') <= Cardinality(InWindow(zset[c]))
        /\ Cardinality(InWindow(zset[c])') \in Nat /\ Cardinality(InWindow(zset[c])) \in Nat
    <3>1. IsFiniteSet(InWindow(zset[c])) /\ InWindow(zset[c])' \subseteq InWindow(zset[c])
      BY <2>1, <2>3, WindowSize
    <3>2. QED
      BY <3>1, FS_Subset, FS_CardinalityType
  <2>5. QED
    BY <2>3, <2>4, LimitNumbers DEF LimitInv, AdmissionsCounted, MembersNumbered
<1>4. ASSUME NEW c \in LimitClients, NEW m \in InWindow(zset[c])'
      PROVE  m[1] <= tick' /\ m[1] # tick'
  <2>0. zset'[c] \in SUBSET Hits
    BY <1>1 DEF LimitInv, LimitTypeOK, Hits
  <2>1. m[1] <= tick
    BY <1>3
  <2>2. m \in zset'[c]
    BY DEF InWindow
  <2>3. m[1] \in Nat
    BY <2>0, <2>2, LimitNumbers DEF Hits
  <2>4. QED
    BY <1>1, <2>1, <2>3
<1>5. AdmissionsCounted' /\ MembersNumbered'
  BY <1>3, <1>4 DEF AdmissionsCounted, MembersNumbered
<1>6. QED
  BY <1>2, <1>5 DEF LimitInv

LEMMA LimitStep == ASSUME LimitInv, [LimitNext]_limitVars PROVE LimitInv'
<1>1. ASSUME LimitInv, UNCHANGED limitVars PROVE LimitInv'
  <2>1. UNCHANGED <<tick, zset, penalty, arrival, admitted>>
    BY <1>1 DEF limitVars
  <2>2. LimitTypeOK'
    BY <1>1, <2>1 DEF LimitInv, LimitTypeOK
  <2>3. AdmissionsCounted' /\ MembersNumbered'
    BY <1>1, <2>1 DEF LimitInv, AdmissionsCounted, MembersNumbered, InWindow
  <2>4. QED
    BY <2>2, <2>3 DEF LimitInv
<1>2. ASSUME LimitInv, LimitNext PROVE LimitInv'
  BY <1>1, <1>2, EnterKeeps, LeaveKeeps, AdmitKeeps, RejectKeeps, PunishKeeps, LimitTickKeeps
  DEF LimitNext, ClientStep, AnswerBlocked
<1>3. QED
  BY <1>1, <1>2

LEMMA LimitInductive == LimitSpec => []LimitInv
BY LimitInitially, LimitStep, PTL DEF LimitSpec

(* try_record_hit: a client is admitted at most LimitMax times in any      *)
(* window, by whichever process and however many requests are in flight,   *)
(* but for the admissions Redis could not count.                           *)
THEOREM AdmissionsAreBounded == LimitSpec => []AdmissionsBounded
<1>1. ASSUME LimitInv PROVE AdmissionsBounded
  <2> SUFFICES ASSUME NEW c \in LimitClients PROVE Cardinality(InWindow(admitted[c])) <= LimitMax
    BY DEF AdmissionsBounded
  <2>1. zset[c] \in SUBSET Hits
    BY <1>1 DEF LimitInv, LimitTypeOK, Hits
  <2>2. /\ InWindow(admitted[c]) \subseteq InWindow(zset[c])
        /\ Cardinality(InWindow(zset[c])) <= LimitMax
        /\ IsFiniteSet(InWindow(zset[c]))
    BY <1>1, <2>1, WindowSize DEF LimitInv, AdmissionsCounted
  <2>3. QED
    BY <2>2, FS_Subset, FS_CardinalityType, LimitNumbers
<1>2. QED
  BY <1>1, LimitInductive, PTL

-----------------------------------------------------------------------------
(* The request log                                                         *)

RecorderState ==
    [pc: {"idle", "read", "persist", "delete", "push"},
     last: BOOLEAN, taken: Seq(Entries), alone: BOOLEAN]

(* What an undisturbed flush has read is what it will delete, and is in a  *)
(* summary before it does.                                                 *)
TakenIsList ==
    \A r \in Recorders : rec[r].alone =>
        /\ rec[r].pc \in {"persist", "delete"} => rec[r].taken = list
        /\ rec[r].pc = "delete" => ToSet(list) \subseteq summed

Pushers == {r \in Recorders : rec[r].pc = "push"}

(* Every recorder on its way to push found room under the cap.             *)
PushesFit == Len(list) + Cardinality(Pushers) <= MaxBuffered + Cardinality(Recorders)

LogInv == LogTypeOK /\ TakenIsList /\ PushesFit

LEMMA PusherCount ==
    ASSUME NEW P \in SUBSET Recorders
    PROVE  /\ IsFiniteSet(P) /\ Cardinality(P) \in Nat
           /\ Cardinality(Recorders) \in Nat /\ Cardinality(P) <= Cardinality(Recorders)
           /\ MaxBuffered \in Nat
BY RecordersAssumption, FS_Subset, FS_CardinalityType

LEMMA StillTyped == Still \in RecorderState /\ Still.pc = "idle" /\ ~Still.alone
<1>1. <<>> \in Seq(Entries)
  OBVIOUS
<1>2. QED
  BY <1>1 DEF Still, RecorderState

LEMMA StillSteps ==
    ASSUME NEW p \in {"idle", "read", "push"}, NEW b \in BOOLEAN
    PROVE  /\ [Still EXCEPT !.pc = p] \in RecorderState
           /\ [Still EXCEPT !.pc = p].pc = p /\ ~[Still EXCEPT !.pc = p].alone
           /\ [Still EXCEPT !.pc = p, !.last = b] \in RecorderState
           /\ [Still EXCEPT !.pc = p, !.last = b].pc = p
           /\ ~[Still EXCEPT !.pc = p, !.last = b].alone
BY StillTyped DEF RecorderState

LEMMA LogInitially == LogInit => LogInv
<1> SUFFICES ASSUME LogInit PROVE LogInv
  OBVIOUS
<1>1. LogTypeOK
  BY StillTyped DEF LogInit, LogTypeOK, RecorderState
<1>2. TakenIsList
  BY StillTyped DEF LogInit, TakenIsList
<1>3. Pushers = {}
  BY StillTyped DEF LogInit, Pushers
<1>4. Cardinality(Pushers) = 0 /\ Len(list) = 0
  BY <1>3, FS_EmptySet DEF LogInit
<1>5. PushesFit
  <2>1. Cardinality(Recorders) \in Nat /\ MaxBuffered \in Nat
    BY PusherCount
  <2>2. QED
    BY <1>4, <2>1 DEF PushesFit
<1>6. QED
  BY <1>1, <1>2, <1>5 DEF LogInv

(* What Touch makes of the recorders.                                      *)
LEMMA TouchedRecorders ==
    ASSUME LogTypeOK, NEW r \in Recorders, NEW s \in RecorderState
    PROVE  /\ Touch(r, s) \in [Recorders -> RecorderState]
           /\ Touch(r, s)[r] = s
           /\ \A q \in Recorders \ {r} :
                 Touch(r, s)[q].pc = rec[q].pc /\ ~Touch(r, s)[q].alone
<1>1. ASSUME NEW q \in Recorders \ {r}
      PROVE  [rec[q] EXCEPT !.alone = FALSE] \in RecorderState
             /\ [rec[q] EXCEPT !.alone = FALSE].pc = rec[q].pc
             /\ ~[rec[q] EXCEPT !.alone = FALSE].alone
  BY DEF LogTypeOK, RecorderState
<1>2. \A q \in Recorders : Touch(r, s)[q] = IF q = r THEN s ELSE [rec[q] EXCEPT !.alone = FALSE]
  BY DEF Touch
<1>3. QED
  BY <1>1, <1>2 DEF Touch

(* One recorder steps to a state in which it does not push, and the list   *)
(* stays.                                                                  *)
LEMMA RecorderMoves ==
    ASSUME LogInv, NEW r \in Recorders, NEW s \in RecorderState,
           UNCHANGED list, pushed' = pushed,
           summed \subseteq summed', summed' \subseteq Entries,
           rec' = [rec EXCEPT ![r] = s],
           s.alone /\ s.pc \in {"persist", "delete"} => s.taken = list,
           s.alone /\ s.pc = "delete" => ToSet(list) \subseteq summed',
           s.pc = "push" => Len(list) <= MaxBuffered
    PROVE  LogInv'
<1>1. LogTypeOK'
  BY DEF LogInv, LogTypeOK, RecorderState
<1>2. TakenIsList'
  BY DEF LogInv, LogTypeOK, TakenIsList
<1>3. PushesFit'
  <2>0. Len(list) \in Nat
    BY DEF LogInv, LogTypeOK
  <2> DEFINE p == Cardinality(Pushers)
             n == Cardinality(Recorders)
  <2>a. Pushers' \in SUBSET Recorders /\ Pushers \in SUBSET Recorders
    BY DEF Pushers
  <2>b. /\ p \in Nat /\ n \in Nat /\ MaxBuffered \in Nat /\ IsFiniteSet(Pushers)
        /\ p' \in Nat /\ p' <= n
    BY <2>a, PusherCount
  <2> HIDE DEF p, n
  <2>1. CASE s.pc = "push"
    <3>1. Len(list) + p' <= MaxBuffered + n
      BY <2>0, <2>1, <2>b
    <3>2. QED
      BY <3>1 DEF PushesFit, p, n
  <2>2. CASE s.pc # "push"
    <3>1. Pushers' \subseteq Pushers
      BY <2>2 DEF LogInv, LogTypeOK, Pushers
    <3>2. p' <= p
      BY <2>b, <3>1, FS_Subset DEF p
    <3>3. Len(list) + p <= MaxBuffered + n
      BY DEF LogInv, PushesFit, p, n
    <3>4. Len(list) + p' <= MaxBuffered + n
      BY <2>0, <2>b, <3>2, <3>3
    <3>5. QED
      BY <3>4 DEF PushesFit, p, n
  <2>3. QED
    BY <2>1, <2>2
<1>4. QED
  BY <1>1, <1>2, <1>3 DEF LogInv

LEMMA RecordKeeps ==
    ASSUME LogInv, NEW r \in Recorders, Record(r) \/ Logout(r) \/ RecordFails(r)
    PROVE  LogInv'
<1>1. Len(list) \in Nat
  BY DEF LogInv, LogTypeOK
<1>2. CASE Record(r)
  <2> DEFINE s == [Still EXCEPT !.pc = IF OverCap THEN "read" ELSE "push"]
  <2>1. s \in RecorderState /\ ~s.alone /\ s.pc = IF OverCap THEN "read" ELSE "push"
    BY StillSteps
  <2>3. s.pc = "push" => Len(list) <= MaxBuffered
    BY <1>1, <2>1, RecordersAssumption DEF OverCap
  <2>2. rec' = [rec EXCEPT ![r] = s]
    BY <1>2 DEF Record
  <2> HIDE DEF s
  <2>4. s.pc # "persist" /\ s.pc # "delete"
    BY <2>1
  <2>5. QED
    BY <1>2, <2>1, <2>2, <2>3, RecorderMoves DEF Record, LogInv, LogTypeOK
<1>3. CASE Logout(r)
  <2> DEFINE s == [Still EXCEPT !.pc = "read", !.last = TRUE]
  <2>1. s \in RecorderState /\ ~s.alone /\ s.pc = "read"
    BY StillSteps
  <2>2. rec' = [rec EXCEPT ![r] = s]
    BY <1>3 DEF Logout
  <2> HIDE DEF s
  <2>3. QED
    BY <1>3, <2>1, <2>2, RecorderMoves DEF Logout, LogInv, LogTypeOK
<1>4. CASE RecordFails(r)
  BY <1>4, StillTyped, RecorderMoves DEF RecordFails, LogInv, LogTypeOK
<1>5. QED
  BY <1>2, <1>3, <1>4

LEMMA ReadKeeps ==
    ASSUME LogInv, NEW r \in Recorders, Read(r) PROVE LogInv'
<1> DEFINE s == [rec[r] EXCEPT !.pc = IF list = <<>> THEN "delete" ELSE "persist",
                               !.taken = list, !.alone = TRUE]
<1>1. /\ rec[r] \in RecorderState /\ list \in Seq(Entries) /\ rec[r].pc = "read"
  BY DEF LogInv, LogTypeOK, RecorderState, Read
<1>2. /\ s \in RecorderState /\ s.taken = list /\ s.pc # "push"
      /\ s.pc = "delete" => list = <<>>
  BY <1>1 DEF RecorderState
<1>3. rec' = Touch(r, s) /\ UNCHANGED <<list, summed, pushed>>
  BY DEF Read
<1> HIDE DEF s
<1>4. /\ rec' \in [Recorders -> RecorderState] /\ rec'[r] = s
      /\ \A q \in Recorders \ {r} : rec'[q].pc = rec[q].pc /\ ~rec'[q].alone
  BY <1>2, <1>3, TouchedRecorders DEF LogInv
<1>5. ToSet(<<>>) = {}
  BY DEF ToSet
<1>6. LogTypeOK' /\ TakenIsList'
  BY <1>2, <1>3, <1>4, <1>5 DEF LogInv, LogTypeOK, TakenIsList, RecorderState
<1>7. Pushers' = Pushers
  BY <1>1, <1>2, <1>4 DEF Pushers
<1>8. PushesFit'
  BY <1>3, <1>7 DEF LogInv, PushesFit
<1>9. QED
  BY <1>6, <1>8 DEF LogInv

LEMMA PersistKeeps ==
    ASSUME LogInv, NEW r \in Recorders, Persist(r) \/ PersistFails(r) PROVE LogInv'
<1>1. /\ rec[r] \in RecorderState /\ rec[r].pc = "persist" /\ Summary(r) \subseteq Entries
  BY DEF LogInv, LogTypeOK, RecorderState, Persist, PersistFails, Summary, ToSet
<1>2. CASE Persist(r)
  <2> DEFINE s == [rec[r] EXCEPT !.pc = "delete"]
  <2>1. /\ s \in RecorderState /\ s.pc = "delete" /\ s.alone = rec[r].alone
        /\ s.taken = rec[r].taken
    BY <1>1 DEF RecorderState
  <2>2. rec' = [rec EXCEPT ![r] = s]
    BY <1>2 DEF Persist
  <2>3. rec[r].alone => rec[r].taken = list
    BY <1>1 DEF LogInv, TakenIsList
  <2>4. /\ summed' = summed \cup ToSet(rec[r].taken) /\ summed' \subseteq Entries
        /\ UNCHANGED <<list, pushed>>
    BY <1>1, <1>2 DEF Persist, Summary, LogInv, LogTypeOK
  <2> HIDE DEF s
  <2>5. s.alone => s.taken = list /\ ToSet(list) \subseteq summed'
    BY <2>1, <2>3, <2>4
  <2>6. QED
    BY <2>1, <2>2, <2>4, <2>5, RecorderMoves
<1>3. CASE PersistFails(r)
  <2> DEFINE s == [rec[r] EXCEPT !.pc = "delete", !.alone = FALSE]
  <2>1. s \in RecorderState /\ s.pc = "delete" /\ ~s.alone
    BY <1>1 DEF RecorderState
  <2>2. rec' = [rec EXCEPT ![r] = s]
    BY <1>3 DEF PersistFails
  <2>3. /\ summed \subseteq summed' /\ summed' \subseteq Entries /\ UNCHANGED <<list, pushed>>
    BY <1>1, <1>3 DEF PersistFails, LogInv, LogTypeOK
  <2> HIDE DEF s
  <2>4. QED
    BY <2>1, <2>2, <2>3, RecorderMoves
<1>4. QED
  BY <1>2, <1>3

LEMMA DeleteListKeeps ==
    ASSUME LogInv, NEW r \in Recorders, Delete(r) PROVE LogInv'
<1> DEFINE s == IF rec[r].last THEN Still ELSE [Still EXCEPT !.pc = "push"]
<1>1. s \in RecorderState /\ ~s.alone
  BY StillTyped, StillSteps
<1>2. rec' = Touch(r, s) /\ list' = <<>> /\ UNCHANGED <<summed, pushed>>
  BY DEF Delete
<1> HIDE DEF s
<1>3. /\ rec' \in [Recorders -> RecorderState]
      /\ \A q \in Recorders : ~rec'[q].alone
  BY <1>1, <1>2, TouchedRecorders DEF LogInv
<1>4. LogTypeOK' /\ TakenIsList'
  BY <1>2, <1>3 DEF LogInv, LogTypeOK, TakenIsList, RecorderState
<1>5. PushesFit'
  <2>1. Pushers' \in SUBSET Recorders
    BY DEF Pushers
  <2>2. /\ Cardinality(Pushers') \in Nat /\ Cardinality(Pushers') <= Cardinality(Recorders)
        /\ Cardinality(Recorders) \in Nat /\ MaxBuffered \in Nat /\ Len(list') = 0
    BY <1>2, <2>1, PusherCount
  <2>3. QED
    BY <2>2 DEF PushesFit
<1>6. QED
  BY <1>4, <1>5 DEF LogInv

LEMMA PushKeeps ==
    ASSUME LogInv, NEW r \in Recorders, Push(r) PROVE LogInv'
<1>1. PICK e \in Entries \ pushed : list' = Append(list, e) /\ pushed' = pushed \cup {e}
  BY DEF Push
<1>2. rec' = Touch(r, Still) /\ UNCHANGED summed /\ rec[r].pc = "push"
  BY DEF Push
<1>3. /\ rec' \in [Recorders -> RecorderState] /\ rec'[r] = Still
      /\ \A q \in Recorders \ {r} : rec'[q].pc = rec[q].pc /\ ~rec'[q].alone
  BY <1>2, StillTyped, TouchedRecorders DEF LogInv
<1>4. /\ list \in Seq(pushed) /\ list \in Seq(pushed') /\ list' \in Seq(pushed')
      /\ Len(list') = Len(list) + 1 /\ Len(list) \in Nat
  BY <1>1 DEF LogInv, LogTypeOK
<1>5. LogTypeOK'
  BY <1>1, <1>2, <1>3, <1>4 DEF LogInv, LogTypeOK, RecorderState
<1>6. TakenIsList'
  BY <1>3, StillTyped DEF TakenIsList
<1>7. Pushers' = Pushers \ {r} /\ r \in Pushers
  BY <1>2, <1>3, StillTyped DEF Pushers
<1>8. Cardinality(Pushers') = Cardinality(Pushers) - 1
  BY <1>7, PusherCount, FS_RemoveElement DEF Pushers
<1>9. PushesFit'
  <2>1. /\ Pushers \in SUBSET Recorders
    BY DEF Pushers
  <2>2. Cardinality(Pushers) \in Nat /\ Cardinality(Recorders) \in Nat /\ MaxBuffered \in Nat
    BY <2>1, PusherCount
  <2>3. QED
    BY <1>4, <1>8, <2>2 DEF LogInv, PushesFit
<1>10. QED
  BY <1>5, <1>6, <1>9 DEF LogInv

LEMMA ListExpiresKeeps ==
    ASSUME LogInv, ListExpires PROVE LogInv'
<1>1. ASSUME NEW r \in Recorders
      PROVE  rec'[r] \in RecorderState /\ ~rec'[r].alone
  <2>1. [rec[r] EXCEPT !.alone = FALSE] \in RecorderState
    BY DEF LogInv, LogTypeOK, RecorderState
  <2>2. rec'[r] = [rec[r] EXCEPT !.alone = FALSE]
    BY DEF ListExpires
  <2>3. ~[rec[r] EXCEPT !.alone = FALSE].alone
    BY DEF LogInv, LogTypeOK
  <2>4. QED
    BY <2>1, <2>2, <2>3
<1>2. list' = <<>> /\ UNCHANGED <<summed, pushed>> /\ rec' \in [Recorders -> RecorderState]
  BY <1>1 DEF ListExpires
<1>3. LogTypeOK' /\ TakenIsList'
  BY <1>1, <1>2 DEF LogInv, LogTypeOK, TakenIsList, RecorderState
<1>4. PushesFit'
  <2>1. Pushers' \in SUBSET Recorders
    BY DEF Pushers
  <2>2. /\ Cardinality(Pushers') \in Nat /\ Cardinality(Pushers') <= Cardinality(Recorders)
        /\ Cardinality(Recorders) \in Nat /\ MaxBuffered \in Nat /\ Len(list') = 0
    BY <1>2, <2>1, PusherCount
  <2>3. QED
    BY <2>2 DEF PushesFit
<1>5. QED
  BY <1>3, <1>4 DEF LogInv

LEMMA LogStep == ASSUME LogInv, [LogNext]_logVars PROVE LogInv'
<1>1. ASSUME LogInv, LogNext PROVE LogInv'
  BY <1>1, RecordKeeps, ReadKeeps, PersistKeeps, DeleteListKeeps, PushKeeps, ListExpiresKeeps
  DEF LogNext
<1>2. ASSUME LogInv, UNCHANGED logVars PROVE LogInv'
  BY <1>2 DEF LogInv, LogTypeOK, TakenIsList, PushesFit, Pushers, logVars
<1>3. QED
  BY <1>1, <1>2

LEMMA LogInductive == LogSpec => []LogInv
BY LogInitially, LogStep, PTL DEF LogSpec

(* flush_endpoint_summary: a flush that no other recorder and no failure   *)
(* overlaps deletes only entries that are in a summary.                    *)
THEOREM FlushKeepsEntries == LogSpec => []QuietFlushLosesNothing
<1>1. LogInv => QuietFlushLosesNothing
  BY DEF LogInv, TakenIsList, QuietFlushLosesNothing
<1>2. QED
  BY <1>1, LogInductive, PTL

LEMMA LogBounded == ASSUME LogInv PROVE ListBounded
<1>1. Pushers \in SUBSET Recorders
  BY DEF Pushers
<1>2. /\ Cardinality(Pushers) \in Nat /\ Cardinality(Recorders) \in Nat /\ MaxBuffered \in Nat
  BY <1>1, PusherCount
<1>3. QED
  BY <1>2 DEF LogInv, LogTypeOK, PushesFit, ListBounded

(* record: the length check and the push are two calls, and still the list *)
(* outgrows its cap by no more than one entry per recorder.                *)
THEOREM ListIsBounded == LogSpec => []ListBounded
BY LogBounded, LogInductive, PTL

-----------------------------------------------------------------------------
(* The response cache                                                      *)

Steps == {"idle", "missed", "wait", "compute", "release", "store"}
ReaderState == [pc: Steps, polls: 0..Polls, acquired: BOOLEAN, robbed: BOOLEAN,
                value: 0..MaxVersion \cup {Free}, late: BOOLEAN]

WriterState == [pc: {"idle", "scan", "delete"}, found: BOOLEAN]

(* The types, with the states of a reader named.                           *)
CacheTyped ==
    /\ version \in 0..MaxVersion
    /\ entry \in [value: 0..MaxVersion, late: BOOLEAN, missed: BOOLEAN] \cup {Free}
    /\ lock \in Readers \cup {Free}
    /\ reader \in [Readers -> ReaderState]
    /\ writer \in [Writers -> WriterState]

(* A reader that set the lock has it until it releases it, unless it was   *)
(* robbed.                                                                 *)
LockHeld ==
    \A r \in Readers :
        reader[r].acquired /\ ~reader[r].robbed /\ reader[r].pc \in {"wait", "compute", "release"}
            => lock = r

(* What a reader has read is the current version until a writer commits.   *)
ReadFresh ==
    \A r \in Readers :
        /\ reader[r].pc \in {"release", "store"} => reader[r].value # Free
        /\ reader[r].value # Free /\ ~reader[r].late => reader[r].value = version

(* A writer that will still delete the entry.                              *)
WillDelete(w) == writer[w].pc = "scan" \/ (writer[w].pc = "delete" /\ writer[w].found)

(* A stale entry neither late nor missed has a writer on its way to it.    *)
StaleIsDoomed ==
    entry # Free /\ ~entry.late /\ ~entry.missed /\ entry.value # version =>
        \E w \in Writers : WillDelete(w)

CacheInv == CacheTyped /\ LockHeld /\ ReadFresh /\ StaleIsDoomed

-----------------------------------------------------------------------------
(* The records a step makes of a reader's.                                 *)

LEMMA ReaderWaiting ==
    /\ Waiting \in ReaderState
    /\ Waiting.pc = "idle" /\ ~Waiting.acquired /\ ~Waiting.robbed
    /\ Waiting.value = Free /\ ~Waiting.late
BY CountsAssumption DEF Waiting, ReaderState, Steps

LEMMA ReaderMisses ==
    LET y == [Waiting EXCEPT !.pc = "missed"]
    IN  y \in ReaderState /\ y.pc = "missed" /\ y.value = Free
BY ReaderWaiting DEF ReaderState, Steps

LEMMA ReaderQueues ==
    ASSUME NEW x \in ReaderState, NEW n \in 0..Polls
    PROVE  LET y == [x EXCEPT !.pc = "wait", !.polls = n] IN
           /\ y \in ReaderState /\ y.pc = "wait"
           /\ y.acquired = x.acquired /\ y.robbed = x.robbed /\ y.value = x.value /\ y.late = x.late
BY DEF ReaderState, Steps

LEMMA ReaderGivesUp ==
    ASSUME NEW x \in ReaderState, NEW n \in 0..Polls
    PROVE  LET y == [x EXCEPT !.pc = "compute", !.polls = n] IN
           /\ y \in ReaderState /\ y.pc = "compute"
           /\ y.acquired = x.acquired /\ y.robbed = x.robbed /\ y.value = x.value /\ y.late = x.late
BY DEF ReaderState, Steps

LEMMA ReaderAcquires ==
    ASSUME NEW x \in ReaderState
    PROVE  LET y == [x EXCEPT !.pc = "compute", !.acquired = TRUE] IN
           /\ y \in ReaderState /\ y.pc = "compute"
           /\ y.acquired /\ y.robbed = x.robbed /\ y.value = x.value /\ y.late = x.late
BY DEF ReaderState, Steps

LEMMA ReaderReads ==
    ASSUME NEW x \in ReaderState, NEW v \in 0..MaxVersion
    PROVE  LET y == [x EXCEPT !.pc = "release", !.value = v] IN
           /\ y \in ReaderState /\ y.pc = "release" /\ y.value = v
           /\ y.acquired = x.acquired /\ y.robbed = x.robbed /\ y.late = x.late
BY DEF ReaderState, Steps

LEMMA ReaderLate ==
    ASSUME NEW x \in ReaderState, NEW b \in BOOLEAN
    PROVE  LET y == [x EXCEPT !.late = b] IN
           /\ y \in ReaderState /\ y.pc = x.pc /\ y.value = x.value
           /\ y.acquired = x.acquired /\ y.robbed = x.robbed /\ y.late = b
BY DEF ReaderState, Steps

LEMMA ReaderRobbed ==
    ASSUME NEW x \in ReaderState
    PROVE  LET y == [x EXCEPT !.robbed = TRUE] IN
           /\ y \in ReaderState /\ y.pc = x.pc /\ y.value = x.value
           /\ y.acquired = x.acquired /\ y.robbed /\ y.late = x.late
BY DEF ReaderState, Steps
LEMMA ReaderStores ==
    ASSUME NEW x \in ReaderState
    PROVE  LET y == [x EXCEPT !.pc = "store"] IN
           /\ y \in ReaderState /\ y.pc = "store" /\ y.value = x.value
           /\ y.acquired = x.acquired /\ y.robbed = x.robbed /\ y.late = x.late
BY DEF ReaderState, Steps

LEMMA ReaderWaits ==
    ASSUME NEW x \in ReaderState, NEW n \in 0..Polls
    PROVE  LET y == [x EXCEPT !.polls = n] IN
           /\ y \in ReaderState /\ y.pc = x.pc
           /\ y.acquired = x.acquired /\ y.robbed = x.robbed /\ y.value = x.value /\ y.late = x.late
BY DEF ReaderState, Steps

(* Deleting a lock changes its holder's mark and nothing else.             *)
LEMMA RobbedReaders ==
    ASSUME CacheTyped
    PROVE  /\ Robbed \in [Readers -> ReaderState]
           /\ \A q \in Readers :
                 /\ Robbed[q].pc = reader[q].pc /\ Robbed[q].value = reader[q].value
                 /\ Robbed[q].acquired = reader[q].acquired /\ Robbed[q].late = reader[q].late
                 /\ Robbed[q].robbed = (reader[q].robbed \/ (q = lock /\ reader[q].acquired))
<1>1. ASSUME NEW q \in Readers
      PROVE  /\ Robbed[q] \in ReaderState
             /\ Robbed[q].pc = reader[q].pc /\ Robbed[q].value = reader[q].value
             /\ Robbed[q].acquired = reader[q].acquired /\ Robbed[q].late = reader[q].late
             /\ Robbed[q].robbed = (reader[q].robbed \/ (q = lock /\ reader[q].acquired))
  <2> DEFINE x == reader[q]
  <2>1. x \in ReaderState
    BY DEF CacheTyped
  <2>2. CASE q = lock /\ reader[q].acquired
    <3>1. Robbed[q] = [x EXCEPT !.robbed = TRUE]
      BY <2>2 DEF Robbed
    <3>2. QED
      BY <2>1, <2>2, <3>1, ReaderRobbed, ZenonT(60)
  <2>3. CASE ~(q = lock /\ reader[q].acquired)
    <3>1. Robbed[q] = x
      BY <2>3 DEF Robbed
    <3>2. x.robbed \in BOOLEAN
      BY <2>1 DEF ReaderState
    <3>3. QED
      BY <2>1, <2>3, <3>1, <3>2
  <2>4. QED
    BY <2>2, <2>3
<1>2. QED
  BY <1>1 DEF Robbed

-----------------------------------------------------------------------------
LEMMA CacheInitially == CacheInit => CacheInv
BY CountsAssumption, ReaderWaiting
DEF CacheInit, CacheInv, WriterState, CacheTyped, LockHeld, ReadFresh, StaleIsDoomed

(* A reader moves to a record that keeps what it claims about the lock and *)
(* the data; nothing else changes.                                         *)
LEMMA ReaderMoves ==
    ASSUME CacheInv, NEW r \in Readers, NEW s \in ReaderState, Step(r, s),
           UNCHANGED <<version, entry, lock, writer>>,
           s.acquired /\ ~s.robbed /\ s.pc \in {"wait", "compute", "release"} => lock = r,
           s.pc \in {"release", "store"} => s.value # Free,
           s.value # Free /\ ~s.late => s.value = version
    PROVE  CacheInv'
<1> USE DEF CacheInv
<1>1. CacheTyped'
  BY DEF CacheTyped, Step
<1>2. LockHeld'
  BY DEF CacheTyped, LockHeld, Step
<1>3. ReadFresh'
  BY DEF CacheTyped, ReadFresh, Step
<1>4. StaleIsDoomed'
  BY DEF StaleIsDoomed, WillDelete
<1>5. QED
  BY <1>1, <1>2, <1>3, <1>4

(* It drops the lock it had acquired.                                      *)
LEMMA ReaderUnlocks ==
    ASSUME CacheInv, NEW r \in Readers, NEW s \in ReaderState, Unlock(r, s),
           UNCHANGED <<version, entry, writer>>,
           s.pc \notin {"wait", "compute", "release"},
           s.pc \in {"release", "store"} => s.value # Free,
           s.value # Free /\ ~s.late => s.value = version
    PROVE  CacheInv'
<1> USE DEF CacheInv
<1>1. CASE Releases(r)
  <2>1. /\ reader' = [Robbed EXCEPT ![r] = s] /\ lock' = Free
    BY <1>1 DEF Unlock
  <2>2. CacheTyped'
    BY <2>1, RobbedReaders DEF CacheTyped
  <2>3. LockHeld'
    BY <2>1, RobbedReaders DEF CacheTyped, LockHeld
  <2>4. ReadFresh'
    BY <2>1, RobbedReaders DEF CacheTyped, ReadFresh
  <2>5. StaleIsDoomed'
    BY DEF StaleIsDoomed, WillDelete
  <2>6. QED
    BY <2>2, <2>3, <2>4, <2>5
<1>2. CASE ~Releases(r)
  BY <1>2, ReaderMoves DEF Unlock, Step
<1>3. QED
  BY <1>1, <1>2

(* What a commit, a scan and a deletion do to the records of the others.   *)
LEMMA CommitKeeps ==
    ASSUME CacheInv, NEW w \in Writers, Commit(w) PROVE CacheInv'
<1> USE DEF CacheInv
<1>1. version' \in 0..MaxVersion /\ version' = version + 1
  BY CountsAssumption DEF Commit, CacheTyped
<1>2. ASSUME NEW q \in Readers
      PROVE  /\ reader'[q] \in ReaderState
             /\ reader'[q].pc = reader[q].pc /\ reader'[q].value = reader[q].value
             /\ reader'[q].acquired = reader[q].acquired /\ reader'[q].robbed = reader[q].robbed
             /\ reader'[q].late = (reader[q].value # Free)
  <2> DEFINE x == reader[q]
             b == x.value # Free
             y == [x EXCEPT !.late = b]
  <2>1. x \in ReaderState
    BY DEF CacheTyped
  <2>2. reader'[q] = y
    BY DEF Commit
  <2>3. b \in BOOLEAN
    OBVIOUS
  <2> HIDE DEF x, b
  <2>4. /\ y \in ReaderState /\ y.pc = x.pc /\ y.value = x.value
        /\ y.acquired = x.acquired /\ y.robbed = x.robbed /\ y.late = b
    BY <2>1, <2>3, ReaderLate
  <2> HIDE DEF y
  <2>5. QED
    BY <2>2, <2>4 DEF x, b
<1>3. reader' \in [Readers -> ReaderState]
  BY <1>2 DEF Commit
<1>4. writer' \in [Writers -> WriterState] /\ writer'[w].pc = "scan"
  BY DEF Commit, CacheTyped, WriterState
<1>5. CacheTyped'
  BY <1>1, <1>3, <1>4 DEF CacheTyped, Commit
<1>6. LockHeld' /\ ReadFresh'
  <2>1. UNCHANGED lock
    BY DEF Commit
  <2>2. LockHeld'
    BY <1>2, <2>1 DEF LockHeld
  <2>3. \A q \in Readers : reader'[q].value # Free => reader'[q].late
    BY <1>2
  <2>4. ReadFresh'
    BY <1>2, <2>3 DEF ReadFresh
  <2>5. QED
    BY <2>2, <2>4
<1>7. StaleIsDoomed'
  BY <1>4 DEF StaleIsDoomed, WillDelete
<1>8. QED
  BY <1>5, <1>6, <1>7

LEMMA ScanKeeps ==
    ASSUME CacheInv, NEW w \in Writers, Scan(w) PROVE CacheInv'
<1>1. /\ writer' = [writer EXCEPT ![w] = [pc |-> "delete", found |-> entry # Free]]
      /\ UNCHANGED <<version, entry, lock, reader>>
  BY DEF Scan, PatternMatches
<1>2. [pc |-> "delete", found |-> entry # Free] \in WriterState
  BY DEF WriterState
<1>3. CacheTyped'
  BY <1>1, <1>2 DEF CacheInv, CacheTyped
<1>4. LockHeld' /\ ReadFresh'
  BY <1>1 DEF CacheInv, LockHeld, ReadFresh
<1>5. StaleIsDoomed'
  <2>1. SUFFICES ASSUME entry # Free, ~entry.late, ~entry.missed, entry.value # version
                 PROVE  \E v \in Writers : WillDelete(v)'
    BY <1>1 DEF StaleIsDoomed
  <2>2. PICK v \in Writers : WillDelete(v)
    BY <2>1 DEF CacheInv, StaleIsDoomed
  <2>3. CASE v = w
    BY <1>1, <2>1, <2>3 DEF CacheInv, CacheTyped, WillDelete
  <2>4. CASE v # w
    BY <1>1, <2>2, <2>4 DEF CacheInv, CacheTyped, WillDelete
  <2>5. QED
    BY <2>3, <2>4
<1>6. QED
  BY <1>3, <1>4, <1>5 DEF CacheInv

LEMMA DeleteKeeps ==
    ASSUME CacheInv, NEW w \in Writers, DeleteKeys(w) PROVE CacheInv'
<1>1. [pc |-> "idle", found |-> FALSE] \in WriterState
  BY DEF WriterState
<1>2. CacheTyped'
  BY <1>1 DEF CacheInv, CacheTyped, DeleteKeys
<1>3. LockHeld' /\ ReadFresh'
  BY DEF CacheInv, LockHeld, ReadFresh, DeleteKeys
<1>4. StaleIsDoomed'
  <2>1. SUFFICES ASSUME entry # Free, ~entry.late, ~entry.missed, entry.value # version,
                        ~writer[w].found
                 PROVE  \E v \in Writers : WillDelete(v)'
    BY DEF StaleIsDoomed, DeleteKeys
  <2>2. PICK v \in Writers : WillDelete(v)
    BY <2>1 DEF CacheInv, StaleIsDoomed
  <2>3. v # w
    BY <2>1, <2>2 DEF WillDelete, DeleteKeys
  <2>4. QED
    BY <2>2, <2>3 DEF CacheInv, CacheTyped, WillDelete, DeleteKeys
<1>5. QED
  BY <1>2, <1>3, <1>4 DEF CacheInv

(* The failure marks the entry, which is no longer the writer's affair.    *)
LEMMA FailureKeeps ==
    ASSUME CacheInv, NEW w \in Writers, InvalidationFails(w) PROVE CacheInv'
<1>1. CASE entry = Free
  <2>1. CacheTyped'
    BY <1>1 DEF CacheInv, CacheTyped, WriterState, InvalidationFails
  <2>2. LockHeld' /\ ReadFresh' /\ StaleIsDoomed'
    BY <1>1 DEF CacheInv, LockHeld, ReadFresh, StaleIsDoomed, InvalidationFails
  <2>3. QED
    BY <2>1, <2>2 DEF CacheInv
<1>2. CASE entry # Free
  <2>1. entry' = [entry EXCEPT !.missed = TRUE]
    BY <1>2 DEF InvalidationFails
  <2>2. entry' \in [value: 0..MaxVersion, late: BOOLEAN, missed: BOOLEAN] /\ entry'.missed
    BY <1>2, <2>1 DEF CacheInv, CacheTyped
  <2>3. CacheTyped'
    BY <2>2 DEF CacheInv, CacheTyped, WriterState, InvalidationFails
  <2>4. LockHeld' /\ ReadFresh' /\ StaleIsDoomed'
    BY <2>2 DEF CacheInv, LockHeld, ReadFresh, StaleIsDoomed, InvalidationFails
  <2>5. QED
    BY <2>3, <2>4 DEF CacheInv
<1>3. QED
  BY <1>1, <1>2

LEMMA StoreKeeps ==
    ASSUME CacheInv, NEW r \in Readers, Store(r) PROVE CacheInv'
<1> USE FreeAssumption, ReaderWaiting DEF CacheInv
<1>1. /\ reader[r] \in ReaderState /\ reader[r].value # Free
      /\ ~reader[r].late => reader[r].value = version
  BY DEF CacheTyped, ReadFresh, Store
<1>2. /\ reader[r].value \in 0..MaxVersion /\ reader[r].late \in BOOLEAN
  BY <1>1 DEF ReaderState
<1>3. /\ entry' \in [value: 0..MaxVersion, late: BOOLEAN, missed: BOOLEAN]
      /\ entry'.value = reader[r].value /\ entry'.late = reader[r].late
  BY <1>2 DEF Store
<1>4. CacheTyped'
  BY <1>3 DEF CacheTyped, Store, Step
<1>5. LockHeld' /\ ReadFresh'
  BY DEF CacheTyped, LockHeld, ReadFresh, Store, Step
<1>6. StaleIsDoomed'
  BY <1>1, <1>3 DEF StaleIsDoomed, Store
<1>7. QED
  BY <1>4, <1>5, <1>6

LEMMA MissKeeps ==
    ASSUME CacheInv, NEW r \in Readers, Miss(r) PROVE CacheInv'
<1> DEFINE s == [Waiting EXCEPT !.pc = "missed"]
<1>1. s \in ReaderState /\ s.pc = "missed" /\ s.value = Free
  BY ReaderMisses
<1>2. Step(r, s) /\ UNCHANGED <<version, entry, lock, writer>>
  BY DEF Miss
<1> HIDE DEF s
<1>3. QED
  BY <1>1, <1>2, ReaderMoves

LEMMA TakeLockKeeps ==
    ASSUME CacheInv, NEW r \in Readers, TakeLock(r) PROVE CacheInv'
<1> USE FreeAssumption, CountsAssumption, ReaderWaiting
<1>1. CASE lock = Free
  <2> DEFINE s == [Waiting EXCEPT !.pc = "compute", !.acquired = TRUE]
  <2>1. /\ s \in ReaderState /\ s.pc = "compute" /\ s.acquired /\ s.value = Free
        /\ reader' = [reader EXCEPT ![r] = s] /\ lock' = r
    BY <1>1, ReaderAcquires DEF TakeLock, Step
  <2> HIDE DEF s
  <2>2. CacheTyped' /\ LockHeld' /\ ReadFresh' /\ StaleIsDoomed'
    BY <1>1, <2>1
    DEF CacheInv, TakeLock, CacheTyped, LockHeld, ReadFresh, StaleIsDoomed, WillDelete
  <2>3. QED
    BY <2>2 DEF CacheInv
<1>2. CASE lock # Free
  <2> DEFINE s == [Waiting EXCEPT !.pc = "wait", !.polls = Polls]
  <2>0. Polls \in 0..Polls
    OBVIOUS
  <2>1. /\ s \in ReaderState /\ s.pc = "wait" /\ s.value = Free /\ ~s.acquired
    BY <2>0, ReaderQueues
  <2>2. Step(r, s) /\ UNCHANGED <<version, entry, lock, writer>>
    BY <1>2 DEF TakeLock
  <2> HIDE DEF s
  <2>3. QED
    BY <2>1, <2>2, ReaderMoves
<1>3. QED
  BY <1>1, <1>2

LEMMA PollKeeps ==
    ASSUME CacheInv, NEW r \in Readers, Poll(r) \/ PollFree(r) PROVE CacheInv'
<1> DEFINE x == reader[r]
           goes == [x EXCEPT !.pc = "compute", !.polls = 0]
           waits == [x EXCEPT !.polls = @ - 1]
<1>0. 0 \in 0..Polls
  BY CountsAssumption
<1>1. x \in ReaderState /\ x.pc = "wait"
  BY DEF CacheInv, CacheTyped, Poll, PollFree
<1>2. /\ x.acquired /\ ~x.robbed => lock = r
      /\ x.value # Free /\ ~x.late => x.value = version
  BY <1>1 DEF CacheInv, LockHeld, ReadFresh
<1>3. UNCHANGED <<version, entry, lock, writer>>
  BY DEF Poll, PollFree
<1>4. CASE Step(r, goes)
  <2>1. /\ goes \in ReaderState /\ goes.pc = "compute"
        /\ goes.acquired = x.acquired /\ goes.robbed = x.robbed
        /\ goes.value = x.value /\ goes.late = x.late
    BY <1>0, <1>1, ReaderGivesUp
  <2> HIDE DEF x, goes
  <2>2. QED
    BY <1>2, <1>3, <1>4, <2>1, ReaderMoves
<1>5. CASE x.polls > 1 /\ Step(r, waits)
  <2>1. x.polls - 1 \in 0..Polls
    BY <1>1, <1>5, CountsAssumption DEF ReaderState
  <2>2. /\ waits \in ReaderState /\ waits.pc = "wait"
        /\ waits.acquired = x.acquired /\ waits.robbed = x.robbed
        /\ waits.value = x.value /\ waits.late = x.late
    BY <1>1, <2>1, ReaderWaits
  <2> HIDE DEF x, waits
  <2>3. QED
    BY <1>2, <1>3, <1>5, <2>2, ReaderMoves
<1>6. QED
  BY <1>4, <1>5 DEF Poll, PollFree

LEMMA ComputeKeeps ==
    ASSUME CacheInv, NEW r \in Readers, Compute(r) PROVE CacheInv'
<1> DEFINE x == reader[r]
           s == [x EXCEPT !.pc = "release", !.value = version]
<1>1. x \in ReaderState /\ x.pc = "compute" /\ version \in 0..MaxVersion /\ version # Free
  BY FreeAssumption DEF CacheInv, CacheTyped, Compute
<1>2. x.acquired /\ ~x.robbed => lock = r
  BY <1>1 DEF CacheInv, LockHeld
<1>3. /\ s \in ReaderState /\ s.pc = "release" /\ s.value = version
      /\ s.acquired = x.acquired /\ s.robbed = x.robbed
  BY <1>1, ReaderReads, ZenonT(60)
<1>4. Step(r, s) /\ UNCHANGED <<version, entry, lock, writer>>
  BY DEF Compute
<1> HIDE DEF x, s
<1>5. QED
  BY <1>1, <1>2, <1>3, <1>4, ReaderMoves

LEMMA ReleaseKeeps ==
    ASSUME CacheInv, NEW r \in Readers, Release(r) PROVE CacheInv'
<1> DEFINE x == reader[r]
           s == [x EXCEPT !.pc = "store"]
<1>1. x \in ReaderState /\ x.value # Free /\ (~x.late => x.value = version)
  BY DEF CacheInv, CacheTyped, ReadFresh, Release
<1>2. /\ s \in ReaderState /\ s.pc = "store" /\ s.value = x.value /\ s.late = x.late
  BY <1>1, ReaderStores
<1>3. Unlock(r, s) /\ UNCHANGED <<version, entry, writer>>
  BY DEF Release
<1> HIDE DEF x, s
<1>4. QED
  BY <1>1, <1>2, <1>3, ReaderUnlocks

LEMMA ExpiryKeeps ==
    ASSUME CacheInv, LockExpires \/ EntryExpires PROVE CacheInv'
<1>1. CASE LockExpires
  BY <1>1, RobbedReaders, ZenonT(60)
  DEF CacheInv, LockExpires, CacheTyped, LockHeld, ReadFresh, StaleIsDoomed, WillDelete
<1>2. CASE EntryExpires
  BY <1>2 DEF CacheInv, EntryExpires, CacheTyped, LockHeld, ReadFresh, StaleIsDoomed
<1>3. QED
  BY <1>1, <1>2

LEMMA CacheStep == ASSUME CacheInv, [CacheNext]_cacheVars PROVE CacheInv'
<1>1. ASSUME CacheInv, CacheNext PROVE CacheInv'
  <2>1. ASSUME NEW r \in Readers, ComputeRaises(r) \/ ReaderDies(r) PROVE CacheInv'
    BY <1>1, <2>1, ReaderWaiting, ReaderMoves, ReaderUnlocks DEF ComputeRaises, ReaderDies
  <2>2. QED
    BY <1>1, <2>1, MissKeeps, TakeLockKeeps, FailureKeeps, PollKeeps, ComputeKeeps, ReleaseKeeps,
       StoreKeeps, CommitKeeps, ScanKeeps, DeleteKeeps, ExpiryKeeps DEF CacheNext
<1>2. ASSUME CacheInv, UNCHANGED cacheVars PROVE CacheInv'
  BY <1>2 DEF CacheInv, CacheTyped, LockHeld, ReadFresh, StaleIsDoomed, WillDelete, cacheVars
<1>3. QED
  BY <1>1, <1>2

LEMMA CacheInductive == CacheSpec => []CacheInv
BY CacheInitially, CacheStep, PTL DEF CacheSpec

-----------------------------------------------------------------------------
LEMMA CacheInvTyped == CacheInv => CacheTypeOK
BY DEF CacheInv, CacheTyped, ReaderState, WriterState, Steps, CacheTypeOK

(* Type correctness: the polls of a waiter end, and what is cached is a    *)
(* version of the data.                                                    *)
THEOREM CacheTypes == CacheSpec => []CacheTypeOK
BY CacheInvTyped, CacheInductive, PTL

(* remove_user_cache_sync after a commit: whatever is stale in the cache   *)
(* once the writers are done was stored by a handler a write had overtaken, *)
(* or Redis failed to delete it.                                           *)
THEOREM StaleOnlyByRace == CacheSpec => []StaleOnlyFromRace
<1>1. CacheInv => StaleOnlyFromRace
  BY DEF CacheInv, StaleIsDoomed, WillDelete, StaleOnlyFromRace
<1>2. QED
  BY <1>1, CacheInductive, PTL

(* The lock has no owner in Redis, and still a request frees another one's *)
(* only after its own was taken from it.                                   *)
THEOREM LockFreedOnlyByHolder == CacheSpec => LockFreedByHolder
<1> DEFINE Frees(r) ==
      (Release(r) \/ ComputeRaises(r)) /\ lock # Free /\ lock' = Free
          => lock = r \/ reader[r].robbed
<1>1. ASSUME CacheInv PROVE \A r \in Readers : Frees(r)
  <2> SUFFICES ASSUME NEW r \in Readers PROVE Frees(r)
    OBVIOUS
  <2>1. Release(r) \/ ComputeRaises(r) => reader[r].pc \in {"compute", "release"}
    BY DEF Release, ComputeRaises
  <2>2. (Release(r) \/ ComputeRaises(r)) /\ lock # Free /\ lock' = Free => reader[r].acquired
    BY DEF Release, ComputeRaises, Unlock, Releases
  <2>3. QED
    BY <1>1, <2>1, <2>2 DEF CacheInv, LockHeld
<1>2. QED
  BY <1>1, CacheInductive, PTL DEF LockFreedByHolder

-----------------------------------------------------------------------------
(* The composition: whichever component moves, the others keep their       *)
(* invariants because they share no variable with it.                      *)
RequestsInv == LoginInv /\ AccessInv /\ LimitInv /\ LogInv /\ CacheInv

LEMMA RequestsStep ==
    ASSUME RequestsInv, Next PROVE RequestsInv'
<1>1. LoginInv' /\ AccessInv'
  BY LoginStep, AccessStep DEF Next, RequestsInv
<1>2. LimitInv'
  <2>1. ClientStep(active) /\ active \in LimitClients => LimitNext
    BY DEF LimitNext
  <2>2. [LimitNext]_limitVars
    BY <2>1 DEF Next, LimitNext
  <2>3. QED
    BY <2>2, LimitStep DEF RequestsInv
<1>3. LogInv' /\ CacheInv'
  BY LogStep, CacheStep DEF Next, RequestsInv
<1>4. QED
  BY <1>1, <1>2, <1>3 DEF RequestsInv

(* Type correctness of every component a request meets, in whichever of    *)
(* them the requests are.                                                  *)
THEOREM RequestTypes == Spec => []RequestsTypeOK
<1>1. Init => RequestsInv
  BY LoginInitially, AccessInitially, LimitInitially, LogInitially, CacheInitially
  DEF Init, RequestsInv
<1>2. ASSUME RequestsInv,
             UNCHANGED <<active, sessionVars, accessVars, limitVars, logVars, cacheVars>>
      PROVE  RequestsInv'
  BY <1>2, LoginStep, AccessStep, LimitStep, LogStep, CacheStep DEF RequestsInv
<1>3. RequestsInv => RequestsTypeOK
  BY LoginTyped, CacheInvTyped, LogBounded
  DEF RequestsInv, AccessInv, LimitInv, LogInv, RequestsTypeOK
<1>4. QED
  BY <1>1, <1>2, <1>3, RequestsStep, PTL DEF Spec

=============================================================================
