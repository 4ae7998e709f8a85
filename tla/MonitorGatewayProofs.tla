------------------------ MODULE MonitorGatewayProofs ------------------------
(***************************************************************************)
(* TLAPS proofs about MonitorGateway, for any links, session tokens,       *)
(* requests and sockets and any settings: a link gives one session, the    *)
(* registry of sockets and the broadcasts over it are sound while sockets  *)
(* come and go, and the types.                                             *)
(***************************************************************************)
EXTENDS MonitorGateway, FiniteSetTheorems, TLAPS

(***************************************************************************)
(* Links                                                                   *)
(***************************************************************************)

Minting(c) == check[c].pc = "mint"

(* Whoever is about to create a session has consumed its link alone, and   *)
(* no session came from that link.                                         *)
MintsAlone ==
    \A c \in Checkers : Minting(c) =>
        /\ check[c].from \in Links /\ link[check[c].from] = Gone
        /\ \A k \in Tickets : origin[k] # Gone => origin[k].from # check[c].from
        /\ \A d \in Checkers \ {c} : Minting(d) => check[d].from # check[c].from

Shapes ==
    /\ link = [l \in Links |-> link[l]]
    /\ check = [c \in Checkers |-> check[c]]
    /\ origin = [k \in Tickets |-> origin[k]]
    /\ \A k \in Tickets : origin[k] # Gone => origin[k].from \in Links

LinkInv == Shapes /\ MintsAlone /\ OneSessionPerLink

-----------------------------------------------------------------------------
LEMMA ReadyFields ==
    ASSUME NEW l
    PROVE  LET y == [Ready EXCEPT !.pc = "mint", !.from = l]
           IN  Ready.pc = "ready" /\ y.pc = "mint" /\ y.from = l
BY DEF Ready

LEMMA FetchedFields ==
    ASSUME NEW k, NEW x
    PROVE  [Ready EXCEPT !.pc = "fetched", !.ticket = k, !.raw = x].pc = "fetched"
BY DEF Ready

LEMMA LinksInitially == MonitorGatewayInit => LinkInv
BY ReadyFields
DEF MonitorGatewayInit, MonitorInit, LinkInv, Shapes, MintsAlone, Minting, OneSessionPerLink

(* A checker moves on with something else than a link to mint from.        *)
LEMMA CheckMoves ==
    ASSUME LinkInv, NEW c \in Checkers, NEW x, x.pc # "mint",
           check' = [check EXCEPT ![c] = x], UNCHANGED <<link, origin>>
    PROVE  LinkInv'
<1>1. check' = [d \in Checkers |-> check'[d]] /\ check'[c] = x
      /\ \A d \in Checkers \ {c} : check'[d] = check[d]
  BY DEF LinkInv, Shapes
<1>2. Shapes' /\ OneSessionPerLink'
  BY <1>1 DEF LinkInv, Shapes, OneSessionPerLink
<1>3. MintsAlone'
  BY <1>1 DEF LinkInv, MintsAlone, Minting
<1>4. QED
  BY <1>2, <1>3 DEF LinkInv

LEMMA LinkGenerated ==
    ASSUME LinkInv, NEW l \in Links, GenerateLink(l) PROVE LinkInv'
<1>1. /\ link' = [m \in Links |-> link'[m]] /\ \A m \in Links \ {l} : link'[m] = link[m]
      /\ UNCHANGED <<check, origin>>
      /\ \A k \in Tickets : origin[k] # Gone => origin[k].from # l
      /\ \A c \in Checkers : check[c].from # l
  BY DEF LinkInv, Shapes, GenerateLink
<1>2. Shapes'
  BY <1>1 DEF LinkInv, Shapes
<1>3. OneSessionPerLink'
  BY <1>1 DEF LinkInv, Shapes, OneSessionPerLink
<1>4. MintsAlone'
  BY <1>1 DEF LinkInv, MintsAlone, Minting
<1>5. QED
  BY <1>2, <1>3, <1>4 DEF LinkInv

(* GET and DEL are one step: the link that was there has been used by none. *)
LEMMA LinkRedeemed ==
    ASSUME LinkInv, NEW c \in Checkers, NEW l \in Links, Redeem(c, l) PROVE LinkInv'
<1> DEFINE x == [Ready EXCEPT !.pc = "mint", !.from = l]
<1>1. x.pc = "mint" /\ x.from = l
  BY ReadyFields
<1>2. /\ check' = [check EXCEPT ![c] = x] /\ link' = [link EXCEPT ![l] = Gone]
      /\ origin' = origin /\ link[l] # Gone
  BY DEF Redeem, Consumed
<1> HIDE DEF x
<1>3. /\ check' = [d \in Checkers |-> check'[d]] /\ check'[c] = x
      /\ \A d \in Checkers \ {c} : check'[d] = check[d]
      /\ link' = [m \in Links |-> link'[m]] /\ link'[l] = Gone
      /\ \A m \in Links \ {l} : link'[m] = link[m]
  BY <1>2 DEF LinkInv, Shapes
<1>4. /\ \A k \in Tickets : origin[k] # Gone => origin[k].from # l
      /\ \A d \in Checkers : Minting(d) => check[d].from # l
  BY <1>2 DEF LinkInv, OneSessionPerLink, MintsAlone
<1>5. Shapes' /\ OneSessionPerLink'
  BY <1>2, <1>3 DEF LinkInv, Shapes, OneSessionPerLink
<1>6. MintsAlone'
  <2> SUFFICES ASSUME NEW d \in Checkers, Minting(d)'
               PROVE  /\ check'[d].from \in Links /\ link'[check'[d].from] = Gone
                      /\ \A k \in Tickets : origin'[k] # Gone => origin'[k].from # check'[d].from
                      /\ \A e \in Checkers \ {d} : Minting(e)' => check'[e].from # check'[d].from
    BY DEF MintsAlone
  <2>1. CASE d = c
    BY <1>1, <1>2, <1>3, <1>4, <2>1 DEF Minting
  <2>2. CASE d # c
    BY <1>1, <1>2, <1>3, <1>4, <2>2 DEF Minting, LinkInv, MintsAlone
  <2>3. QED
    BY <2>1, <2>2
<1>7. QED
  BY <1>5, <1>6 DEF LinkInv

LEMMA SessionMinted ==
    ASSUME LinkInv, NEW c \in Checkers, Mint(c) PROVE LinkInv'
<1> DEFINE l == check[c].from
<1>1. PICK k \in Tickets :
          origin[k] = Gone /\ origin' = [origin EXCEPT ![k] = [from |-> l, at |-> clock]]
  BY DEF Mint
<1>2. /\ Minting(c) /\ check' = [check EXCEPT ![c] = Ready] /\ link' = link
  BY DEF Mint, Minting
<1>3. /\ l \in Links /\ link[l] = Gone
      /\ \A q \in Tickets : origin[q] # Gone => origin[q].from # l
      /\ \A d \in Checkers \ {c} : Minting(d) => check[d].from # l
  BY <1>2 DEF LinkInv, MintsAlone
<1> HIDE DEF l
<1>4. /\ check' = [d \in Checkers |-> check'[d]] /\ ~Minting(c)'
      /\ \A d \in Checkers \ {c} : check'[d] = check[d]
  BY <1>2, ReadyFields DEF LinkInv, Shapes, Minting
<1>5. /\ origin' = [q \in Tickets |-> origin'[q]] /\ origin'[k].from = l
      /\ \A q \in Tickets \ {k} : origin'[q] = origin[q]
  BY <1>1 DEF LinkInv, Shapes
<1>6. Shapes'
  BY <1>2, <1>3, <1>4, <1>5 DEF LinkInv, Shapes
<1>7. OneSessionPerLink'
  BY <1>1, <1>2, <1>3, <1>5 DEF LinkInv, OneSessionPerLink
<1>8. MintsAlone'
  BY <1>1, <1>2, <1>3, <1>4, <1>5 DEF LinkInv, MintsAlone, Minting
<1>9. QED
  BY <1>6, <1>7, <1>8 DEF LinkInv

LEMMA LinksExpire ==
    ASSUME LinkInv, Advance PROVE LinkInv'
<1>1. /\ link' = [l \in Links |-> link'[l]] /\ UNCHANGED <<check, origin>>
      /\ \A l \in Links : link[l] = Gone => link'[l] = Gone
  BY DEF Advance
<1>2. Shapes' /\ OneSessionPerLink'
  BY <1>1 DEF LinkInv, Shapes, OneSessionPerLink
<1>3. MintsAlone'
  BY <1>1 DEF LinkInv, MintsAlone, Minting
<1>4. QED
  BY <1>2, <1>3 DEF LinkInv

LEMMA LinksUntouched ==
    ASSUME LinkInv, UNCHANGED <<link, check, origin>> PROVE LinkInv'
BY DEF LinkInv, Shapes, MintsAlone, Minting, OneSessionPerLink

-----------------------------------------------------------------------------
(* The handlers and the loop, by what they do to a checker.                *)

LEMMA Validates ==
    ASSUME LinkInv, NEW c \in Checkers, UNCHANGED <<link, origin>>,
           Renew(c) \/ RefuseOld(c) \/ \E k : Fetch(c, k)
    PROVE  LinkInv'
<1>1. CASE Renew(c) \/ RefuseOld(c)
  BY <1>1, ReadyFields, CheckMoves DEF Renew, RefuseOld
<1>2. ASSUME NEW k, Fetch(c, k) PROVE LinkInv'
  <2> DEFINE x == [Ready EXCEPT !.pc = "fetched", !.ticket = k, !.raw = store[k].created]
  <2>1. x.pc = "fetched" /\ check' = [check EXCEPT ![c] = x]
    BY <1>2, FetchedFields DEF Fetch
  <2> HIDE DEF x
  <2>2. QED
    BY <2>1, CheckMoves
<1>3. QED
  BY <1>1, <1>2

LEMMA RequestSteps ==
    ASSUME LinkInv, NEW c \in Checkers, RequestStep(c) PROVE LinkInv'
<1>1. CASE \E l \in Links : Redeem(c, l)
  BY <1>1, LinkRedeemed
<1>2. CASE Mint(c)
  BY <1>2, SessionMinted
<1>3. CASE MintFails(c)
  BY <1>3, ReadyFields, CheckMoves DEF MintFails
<1>4. CASE \/ \E k \in Tickets : Fetch(c, k) /\ UNCHANGED <<clock, link, store, origin>>
           \/ (Renew(c) \/ RefuseOld(c)) /\ UNCHANGED <<clock, link, origin>>
  BY <1>4, Validates
<1>5. QED
  BY <1>1, <1>2, <1>3, <1>4 DEF RequestStep

(* A socket is one of the checkers, as MonitorGateway requires.            *)
LEMMA SocketSteps ==
    ASSUME LinkInv, NEW ws \in Sockets, Sockets \subseteq Checkers,
           \/ \E k \in Tickets : Handshake(ws, k)
           \/ Admit(ws) \/ Deny(ws) \/ Connect(ws)
           \/ Recheck(ws) \/ RecheckRenews(ws) \/ RecheckRefuses(ws) \/ RecheckMisses(ws)
    PROVE  LinkInv'
<1>1. ASSUME NEW k \in Tickets, Handshake(ws, k) PROVE LinkInv'
  BY <1>1, Validates DEF Handshake
<1>2. CASE Admit(ws) \/ Deny(ws) \/ RecheckRenews(ws)
  BY <1>2, Validates DEF Admit, Deny, RecheckRenews
<1>3. CASE Connect(ws)
  BY <1>3, LinksUntouched DEF Connect, monitorVars
<1>4. CASE Recheck(ws)
  BY <1>4, Validates DEF Recheck
<1>5. CASE RecheckRefuses(ws)
  BY <1>5, Validates DEF RecheckRefuses
<1>6. CASE RecheckMisses(ws)
  BY <1>6, LinksUntouched DEF RecheckMisses, monitorVars
<1>7. QED
  BY <1>1, <1>2, <1>3, <1>4, <1>5, <1>6

LEMMA LinksInductive == MonitorGatewaySpec => []LinkInv
<1>1. ASSUME LinkInv, MonitorGatewayNext PROVE LinkInv'
  <2>1. ASSUME NEW c \in Requests, RequestStep(c) PROVE LinkInv'
    BY <1>1, <2>1, RequestSteps DEF Requests
  <2>2. ASSUME NEW l \in Links, NewLink(l) PROVE LinkInv'
    BY <1>1, <2>2, LinkGenerated DEF NewLink
  <2>3. CASE LoopStep \/ LoopFault \/ \E g \in Groups : Invalidate(g)
    BY <1>1, <2>3, LinksUntouched DEF LoopStep, LoopFault, Invalidate, monitorVars
  <2>4. CASE Pass
    BY <1>1, <2>4, LinksExpire DEF Pass
  <2>5. QED
    BY <1>1, <2>1, <2>2, <2>3, <2>4, SocketSteps, SocketsAssumption DEF MonitorGatewayNext
<1>2. ASSUME LinkInv, UNCHANGED monitorGatewayVars PROVE LinkInv'
  BY <1>2, LinksUntouched DEF monitorGatewayVars, monitorVars
<1>3. QED
  BY <1>1, <1>2, LinksInitially, PTL DEF MonitorGatewaySpec

-----------------------------------------------------------------------------
(* redeem_session: however many browsers open a link at once, whatever     *)
(* fails in between and whatever the sockets validate meanwhile, the link  *)
(* gives at most one session.                                              *)
THEOREM LinkRedeemedOnce == MonitorGatewaySpec => []OneSessionPerLink
BY LinksInductive, PTL DEF LinkInv

(***************************************************************************)
(* Removing sockets from a list                                            *)
(***************************************************************************)

(* The positions that stay are numbered from one, without a gap.           *)
LEMMA RanksNumber ==
    ASSUME NEW n \in Nat, NEW K \in SUBSET (1..n)
    PROVE  /\ Cardinality(K) \in Nat
           /\ \A i \in K : Rank(i, K) \in 1..Cardinality(K)
           /\ \A i, j \in K : Rank(i, K) = Rank(j, K) => i = j
           /\ \A m \in 1..Cardinality(K) : \E i \in K : Rank(i, K) = m
<1> DEFINE Upto(i) == {j \in K : j <= i}
<1>1. IsFiniteSet(K) /\ Cardinality(K) \in Nat
  <2>1. 1 \in Int /\ n \in Int
    OBVIOUS
  <2>2. IsFiniteSet(1..n)
    BY <2>1, FS_Interval
  <2>3. IsFiniteSet(K)
    BY <2>2, FS_Subset
  <2>4. QED
    BY <2>3, FS_CardinalityType
<1>2. ASSUME NEW i \in K
      PROVE  /\ IsFiniteSet(Upto(i)) /\ Upto(i) \in SUBSET K /\ i \in Upto(i)
             /\ Cardinality(Upto(i)) \in 1..Cardinality(K)
  <2>1. IsFiniteSet(Upto(i)) /\ Cardinality(Upto(i)) <= Cardinality(K)
    BY <1>1, FS_Subset
  <2>2. Cardinality(Upto(i)) \in Nat
    BY <2>1, FS_CardinalityType
  <2>3. i \in Upto(i)
    OBVIOUS
  <2>4. Cardinality(Upto(i)) # 0
    BY <2>1, <2>3, FS_EmptySet
  <2> HIDE DEF Upto
  <2>5. Cardinality(Upto(i)) \in 1..Cardinality(K)
    BY <1>1, <2>1, <2>2, <2>4
  <2>6. Upto(i) \in SUBSET K
    BY DEF Upto
  <2>7. QED
    BY <2>1, <2>3, <2>5, <2>6
<1>3. ASSUME NEW i \in K, NEW j \in K, i < j
      PROVE  Cardinality(Upto(i)) # Cardinality(Upto(j))
  <2>1. Upto(i) \in SUBSET Upto(j) /\ j \in Upto(j) /\ j \notin Upto(i)
    <3>1. i \in Nat /\ j \in Nat /\ \A k \in K : k \in Nat
      OBVIOUS
    <3>2. \A k \in K : k <= i => k <= j
      BY <1>3, <3>1
    <3>3. j <= j /\ ~(j <= i)
      BY <1>3, <3>1
    <3>4. QED
      BY <3>2, <3>3
  <2>2. Upto(i) # Upto(j)
    BY <2>1
  <2>3. IsFiniteSet(Upto(j))
    BY <1>2
  <2> HIDE DEF Upto
  <2>4. QED
    BY <2>1, <2>2, <2>3, FS_Subset
<1>4. \A i \in K : Rank(i, K) = Cardinality(Upto(i))
  BY DEF Rank
<1> HIDE DEF Upto
<1>5. \A i, j \in K : Rank(i, K) = Rank(j, K) => i = j
  BY <1>3, <1>4
<1>6. \A i \in K : Rank(i, K) \in 1..Cardinality(K)
  BY <1>2, <1>4
<1> DEFINE f == [i \in K |-> Rank(i, K)]
<1>7. f \in Injection(K, 1..Cardinality(K))
  BY <1>5, <1>6 DEF Injection, IsInjective
<1>8. Cardinality(1..Cardinality(K)) = Cardinality(K) /\ IsFiniteSet(1..Cardinality(K))
  BY <1>1, FS_Interval
<1>9. f \in Surjection(K, 1..Cardinality(K))
  BY <1>7, <1>8, FS_Injection
<1>10. \A m \in 1..Cardinality(K) : \E i \in K : f[i] = m
  BY <1>9 DEF Surjection
<1>11. QED
  BY <1>1, <1>5, <1>6, <1>10

NoDuplicates(list) == \A i, j \in DOMAIN list : list[i] = list[j] => i = j
Members(list) == {list[i] : i \in DOMAIN list}

(* Without keeps the others, each once if it was there once.               *)
LEMMA WithoutKeepsOthers ==
    ASSUME NEW S, NEW list \in Seq(S), NEW gone
    PROVE  /\ Without(list, gone) \in Seq(S)
           /\ Members(Without(list, gone)) = Members(list) \ gone
           /\ NoDuplicates(list) => NoDuplicates(Without(list, gone))
<1> DEFINE K == Staying(list, gone)
<1> DEFINE at(m) == CHOOSE i \in K : Rank(i, K) = m
<1> DEFINE N == Cardinality(K)
<1> DEFINE w == Without(list, gone)
<1>1. Len(list) \in Nat /\ DOMAIN list = 1..Len(list) /\ \A i \in 1..Len(list) : list[i] \in S
  OBVIOUS
<1>2. K \in SUBSET (1..Len(list)) /\ \A i \in DOMAIN list : i \in K <=> list[i] \notin gone
  BY <1>1 DEF Staying
<1>3. w = [m \in 1..N |-> list[at(m)]]
  BY DEF Without
<1> HIDE DEF K, w
<1>4. /\ N \in Nat
      /\ \A i \in K : Rank(i, K) \in 1..N
      /\ \A i, j \in K : Rank(i, K) = Rank(j, K) => i = j
      /\ \A m \in 1..N : \E i \in K : Rank(i, K) = m
  BY <1>1, <1>2, RanksNumber
<1>5. \A m \in 1..N : at(m) \in K /\ Rank(at(m), K) = m
  BY <1>4
<1>6. \A i \in K : at(Rank(i, K)) = i
  BY <1>4, <1>5
<1> HIDE DEF at, N
<1>7. w \in Seq(S) /\ DOMAIN w = 1..N /\ \A m \in 1..N : w[m] = list[at(m)]
  <2>1. \A m \in 1..N : list[at(m)] \in S
    BY <1>1, <1>2, <1>5
  <2>2. w \in [1..N -> S]
    BY <1>3, <2>1
  <2>3. QED
    BY <1>3, <1>4, <2>2
<1>8. Members(w) = Members(list) \ gone
  <2>1. ASSUME NEW m \in 1..N PROVE w[m] \in Members(list) \ gone
    BY <1>1, <1>2, <1>5, <1>7 DEF Members
  <2>2. ASSUME NEW i \in DOMAIN list, list[i] \notin gone PROVE list[i] \in Members(w)
    <3>1. i \in K
      BY <1>2, <2>2
    <3>2. Rank(i, K) \in 1..N /\ w[Rank(i, K)] = list[i]
      BY <1>4, <1>6, <1>7, <3>1
    <3>3. QED
      BY <1>7, <3>2 DEF Members
  <2>3. QED
    BY <1>7, <2>1, <2>2 DEF Members
<1>9. ASSUME NoDuplicates(list), NEW m \in 1..N, NEW o \in 1..N, w[m] = w[o] PROVE m = o
  <2>1. list[at(m)] = list[at(o)] /\ at(m) \in K /\ at(o) \in K
    BY <1>5, <1>7, <1>9
  <2>2. at(m) = at(o)
    BY <1>1, <1>2, <1>9, <2>1 DEF NoDuplicates
  <2>3. QED
    BY <1>5, <2>2
<1>10. QED
  BY <1>7, <1>8, <1>9 DEF NoDuplicates, w

(* Nothing to remove: the list stays as it is.                             *)
LEMMA WithoutNone ==
    ASSUME NEW S, NEW list \in Seq(S), NEW gone, gone \cap Members(list) = {}
    PROVE  Without(list, gone) = list
<1> DEFINE n == Len(list)
<1>1. n \in Nat /\ DOMAIN list = 1..n /\ list = [i \in 1..n |-> list[i]]
  OBVIOUS
<1> HIDE DEF n
<1>2. Staying(list, gone) = 1..n
  BY <1>1 DEF Staying, Members
<1>3. ASSUME NEW i \in 1..n PROVE Rank(i, 1..n) = i
  <2>1. {j \in 1..n : j <= i} = 1..i
    BY <1>1
  <2>2. Cardinality(1..i) = i
    <3>1. 1 \in Int /\ i \in Int /\ ~(1 > i) /\ i - 1 + 1 = i
      BY <1>1
    <3>2. QED
      BY <3>1, FS_Interval
  <2>3. QED
    BY <2>1, <2>2 DEF Rank
<1>4. ASSUME NEW m \in 1..n PROVE (CHOOSE i \in 1..n : Rank(i, 1..n) = m) = m
  BY <1>3
<1>5. Cardinality(1..n) = n
  <2>1. 1 \in Int /\ n \in Int /\ (IF 1 > n THEN 0 ELSE n - 1 + 1) = n
    BY <1>1
  <2>2. QED
    BY <2>1, FS_Interval
<1>6. Without(list, gone) = [m \in 1..n |-> list[CHOOSE i \in 1..n : Rank(i, 1..n) = m]]
  BY <1>2, <1>5 DEF Without
<1>7. QED
  BY <1>1, <1>4, <1>6

(***************************************************************************)
(* The registry and its broadcasts                                         *)
(***************************************************************************)

Ahead(c) == {conns[i] : i \in {j \in DOMAIN conns : j >= cast[c].at}}

(* A broadcast under which nobody left has the rest of its sockets ahead.  *)
CastsCover ==
    \A c \in Casters : cast[c].on =>
        /\ cast[c].at # 0
        /\ ~cast[c].shrunk =>
              cast[c].whole \subseteq cast[c].sent \cup cast[c].dead \cup Ahead(c)

KeyMap == key = [ws \in Sockets |-> key[ws]]

ManagerInv ==
    RegistryOK /\ KeyMap /\ NoDeadRegistration /\ channel \in Seq(Groups) /\ CastsCover

LEMMA CastFields ==
    /\ NoCast.on = FALSE
    /\ NewCast.on = TRUE /\ NewCast.at = 1 /\ NewCast.whole = Registered
    /\ Registered \subseteq Sockets => NewCast \in Cast
    /\ NoCast \in Cast
BY DEF NoCast, NewCast, Cast

Advanced(x, v, y) ==
    \/ y = [x EXCEPT !.at = x.at + 1, !.sent = x.sent \cup {v}]
    \/ y = [x EXCEPT !.at = x.at + 1, !.dead = x.dead \cup {v}]

LEMMA CastAdvances ==
    ASSUME NEW x \in Cast, NEW v \in Sockets, NEW y, Advanced(x, v, y)
    PROVE  /\ y \in Cast /\ y.at = x.at + 1 /\ y.on = x.on /\ y.whole = x.whole
           /\ y.shrunk = x.shrunk /\ y.sent \cup y.dead = x.sent \cup x.dead \cup {v}
<1> DEFINE n == x.at + 1
<1> DEFINE w == x.sent \cup {v}
<1> DEFINE d == x.dead \cup {v}
<1>1. n \in Nat /\ w \in SUBSET Sockets /\ d \in SUBSET Sockets
  BY DEF Cast
<1>2. y = [x EXCEPT !.at = n, !.sent = w] \/ y = [x EXCEPT !.at = n, !.dead = d]
  BY DEF Advanced
<1> HIDE DEF n, w, d
<1>3. CASE y = [x EXCEPT !.at = n, !.sent = w]
  <2>1. /\ y \in Cast /\ y.at = n /\ y.on = x.on /\ y.whole = x.whole
        /\ y.shrunk = x.shrunk /\ y.sent = w /\ y.dead = x.dead
    BY <1>1, <1>3 DEF Cast
  <2>2. QED
    BY <2>1 DEF n, w
<1>4. CASE y = [x EXCEPT !.at = n, !.dead = d]
  <2>1. /\ y \in Cast /\ y.at = n /\ y.on = x.on /\ y.whole = x.whole
        /\ y.shrunk = x.shrunk /\ y.dead = d /\ y.sent = x.sent
    BY <1>1, <1>4 DEF Cast
  <2>2. QED
    BY <2>1 DEF n, d
<1>5. QED
  BY <1>2, <1>3, <1>4

LEMMA ShiftedCasts ==
    ASSUME cast \in [Casters -> Cast], NEW gone
    PROVE  /\ Shifted(gone) \in [Casters -> Cast]
           /\ \A c \in Casters :
                 Shifted(gone)[c].on = cast[c].on /\ Shifted(gone)[c].at = cast[c].at
           /\ gone \cap Registered # {} =>
                 \A c \in Casters : cast[c].on => Shifted(gone)[c].shrunk = TRUE
           /\ gone \cap Registered = {} => Shifted(gone) = cast
<1>1. ASSUME NEW c \in Casters
      PROVE  [cast[c] EXCEPT !.whole = @ \ gone, !.shrunk = TRUE] \in Cast
  BY DEF Cast
<1>2. ASSUME NEW c \in Casters
      PROVE  /\ [cast[c] EXCEPT !.whole = @ \ gone, !.shrunk = TRUE].on = cast[c].on
             /\ [cast[c] EXCEPT !.whole = @ \ gone, !.shrunk = TRUE].at = cast[c].at
             /\ [cast[c] EXCEPT !.whole = @ \ gone, !.shrunk = TRUE].shrunk = TRUE
  BY DEF Cast
<1>3. QED
  BY <1>1, <1>2 DEF Shifted

(* What a removal leaves: everybody else, in the order of the list.        *)
LEMMA SocketsRemoved ==
    ASSUME ManagerInv, NEW gone \in SUBSET Sockets,
           conns' = Without(conns, gone),
           key' = [ws \in Sockets |-> IF ws \in gone THEN NoKey ELSE key[ws]],
           phase' \in [Sockets -> {"new", "accepting", "open", "lost", "closed"}],
           \A ws \in Sockets \ gone : phase'[ws] = phase[ws],
           NEW D \in [Casters -> Cast], cast' = D,
           \A c \in Casters : D[c].on => D[c] = Shifted(gone)[c],
           listener' \in {"waiting", "casting", "revoking", "stopping", "dead"},
           closing' \in SUBSET Sockets, channel' \in Seq(Groups)
    PROVE  ManagerInv'
<1>1. conns \in Seq(Sockets) /\ NoDuplicates(conns) /\ Members(conns) = Registered
  BY DEF ManagerInv, RegistryOK, NoDuplicates, Members, Registered
<1>2. /\ conns' \in Seq(Sockets) /\ NoDuplicates(conns')
      /\ Members(conns') = Registered \ gone
  BY <1>1, WithoutKeepsOthers
<1>3. Registered' = Registered \ gone
  BY <1>2 DEF Members, Registered
<1>4. RegistryOK'
  BY <1>2, <1>3 DEF ManagerInv, RegistryOK, NoDuplicates
<1>5. NoDeadRegistration'
  <2>1. \A ws \in Registered : phase[ws] \in {"open", "lost"}
    BY DEF ManagerInv, NoDeadRegistration, Registered
  <2>2. \A i \in DOMAIN conns' : conns'[i] \in Registered' /\ conns'[i] \in Sockets
    BY <1>2 DEF Registered
  <2>3. QED
    BY <1>3, <2>1, <2>2 DEF NoDeadRegistration
<1>6. CastsCover'
  <2>1. CASE gone \cap Registered = {}
    <3>1. conns' = conns
      BY <1>1, <2>1, WithoutNone
    <3>2. \A c \in Casters : cast'[c].on => cast'[c] = cast[c]
      BY <2>1, ShiftedCasts DEF ManagerInv, RegistryOK
    <3>3. QED
      BY <3>1, <3>2 DEF ManagerInv, CastsCover, Ahead
  <2>2. CASE gone \cap Registered # {}
    <3>0. cast \in [Casters -> Cast]
      BY DEF ManagerInv, RegistryOK
    <3>1. ASSUME NEW c \in Casters, cast'[c].on
          PROVE  cast'[c].shrunk = TRUE /\ cast'[c].at # 0
      <4>1. cast'[c] = Shifted(gone)[c] /\ Shifted(gone)[c].on
        BY <3>1
      <4>2. cast[c].on /\ cast'[c].at = cast[c].at /\ cast'[c].shrunk = TRUE
        BY <2>2, <3>0, <4>1, ShiftedCasts
      <4>3. QED
        BY <4>2 DEF ManagerInv, CastsCover
    <3>2. QED
      BY <3>1 DEF CastsCover
  <2>3. QED
    BY <2>1, <2>2
<1>7. QED
  BY <1>4, <1>5, <1>6 DEF ManagerInv, KeyMap

LEMMA Unregisters ==
    ASSUME ManagerInv, NEW ws \in Sockets, Unregister(ws),
           UNCHANGED <<channel, listener>>, closing' \in SUBSET Sockets
    PROVE  ManagerInv'
<1>1. cast \in [Casters -> Cast]
  BY DEF ManagerInv, RegistryOK
<1>2. key' = [v \in Sockets |-> IF v \in {ws} THEN NoKey ELSE key[v]]
  BY DEF Unregister, ManagerInv, KeyMap
<1>3. /\ phase' \in [Sockets -> {"new", "accepting", "open", "lost", "closed"}]
      /\ \A v \in Sockets \ {ws} : phase'[v] = phase[v]
  BY DEF Unregister, ManagerInv, RegistryOK
<1>4. Shifted({ws}) \in [Casters -> Cast] /\ cast' = Shifted({ws}) /\ conns' = Without(conns, {ws})
  BY <1>1, ShiftedCasts DEF Unregister
<1>5. /\ listener' \in {"waiting", "casting", "revoking", "stopping", "dead"}
      /\ channel' \in Seq(Groups)
  BY DEF ManagerInv, RegistryOK
<1>6. QED
  BY <1>2, <1>3, <1>4, <1>5, SocketsRemoved

(* A socket that is let in joins at the end of the list.                   *)
LEMMA Registers ==
    ASSUME ManagerInv, NEW ws \in Sockets, NEW k, k # NoKey, phase[ws] = "accepting",
           Register(ws, k), UNCHANGED <<channel, listener, closing, cast>>
    PROVE  ManagerInv'
<1>1. /\ conns \in Seq(Sockets) /\ ws \notin Registered
      /\ conns' = Append(conns, ws) /\ cast' = cast
  BY DEF ManagerInv, RegistryOK, NoDeadRegistration, Registered, Register
<1>2. /\ Len(conns) \in Nat /\ DOMAIN conns = 1..Len(conns)
      /\ conns' \in Seq(Sockets) /\ DOMAIN conns' = 1..(Len(conns) + 1)
      /\ conns'[Len(conns) + 1] = ws
      /\ \A i \in DOMAIN conns : i \in DOMAIN conns' /\ conns'[i] = conns[i]
      /\ \A i \in DOMAIN conns' : i \in DOMAIN conns \/ i = Len(conns) + 1
  BY <1>1
<1>3. Registered' = Registered \cup {ws}
  BY <1>2 DEF Registered
<1>4. RegistryOK'
  <2>1. \A i, j \in DOMAIN conns' : conns'[i] = conns'[j] => i = j
    BY <1>1, <1>2 DEF ManagerInv, RegistryOK, Registered
  <2>2. key' = [key EXCEPT ![ws] = k] /\ phase' = [phase EXCEPT ![ws] = "open"]
    BY DEF Register
  <2>3. \A v \in Sockets : (key'[v] # NoKey) <=> (v \in Registered')
    BY <1>3, <2>2 DEF ManagerInv, RegistryOK, KeyMap
  <2>4. phase' \in [Sockets -> {"new", "accepting", "open", "lost", "closed"}]
    BY <2>2 DEF ManagerInv, RegistryOK
  <2>5. QED
    BY <1>2, <2>1, <2>3, <2>4 DEF ManagerInv, RegistryOK
<1>5. NoDeadRegistration'
  <2>1. phase'[ws] = "open" /\ \A v \in Sockets \ {ws} : phase'[v] = phase[v]
    BY DEF Register, ManagerInv, RegistryOK
  <2>2. \A i \in DOMAIN conns : conns[i] \in Sockets /\ phase[conns[i]] \in {"open", "lost"}
    BY <1>1 DEF ManagerInv, NoDeadRegistration
  <2>3. \A i \in DOMAIN conns' : phase'[conns'[i]] \in {"open", "lost"}
    BY <1>2, <2>1, <2>2
  <2>4. QED
    BY <2>3 DEF NoDeadRegistration
<1>6. CastsCover'
  <2>1. \A c \in Casters : Ahead(c) \subseteq Ahead(c)'
    BY <1>1, <1>2 DEF Ahead
  <2>2. QED
    BY <1>1, <2>1 DEF ManagerInv, CastsCover
<1>7. channel' \in Seq(Groups) /\ KeyMap'
  BY DEF ManagerInv, KeyMap, Register
<1>8. QED
  BY <1>4, <1>5, <1>6, <1>7 DEF ManagerInv

(* One more socket of the list is dealt with.                              *)
LEMMA CastMoves ==
    ASSUME ManagerInv, NEW c \in Casters, NEW y \in Cast,
           cast[c].on, cast[c].at <= Len(conns),
           cast' = [cast EXCEPT ![c] = y],
           y.at = cast[c].at + 1, y.on = cast[c].on, y.shrunk = cast[c].shrunk,
           y.whole = cast[c].whole,
           y.sent \cup y.dead = cast[c].sent \cup cast[c].dead \cup {conns[cast[c].at]},
           phase' \in [Sockets -> {"new", "accepting", "open", "lost", "closed"}],
           \A v \in Sockets : phase[v] \in {"open", "lost"} => phase'[v] \in {"open", "lost"},
           UNCHANGED <<conns, key, channel, listener, closing>>
    PROVE  ManagerInv'
<1>1. /\ cast \in [Casters -> Cast] /\ conns \in Seq(Sockets)
      /\ cast' \in [Casters -> Cast] /\ cast'[c] = y
      /\ \A d \in Casters \ {c} : cast'[d] = cast[d]
  BY DEF ManagerInv, RegistryOK
<1>2. RegistryOK' /\ channel' \in Seq(Groups) /\ KeyMap'
  BY <1>1 DEF ManagerInv, RegistryOK, Registered, KeyMap
<1>3. NoDeadRegistration'
  BY <1>1 DEF ManagerInv, NoDeadRegistration
<1>4. CastsCover'
  <2>1. Ahead(c) \subseteq {conns[cast[c].at]} \cup Ahead(c)'
    <3>1. cast[c].at \in Nat /\ DOMAIN conns \subseteq Nat
      BY <1>1 DEF Cast
    <3>2. \A j \in DOMAIN conns : j >= cast[c].at => j = cast[c].at \/ j >= cast'[c].at
      BY <1>1, <3>1
    <3>3. QED
      BY <3>2 DEF Ahead
  <2>2. \A d \in Casters \ {c} : Ahead(d)' = Ahead(d)
    BY <1>1 DEF Ahead
  <2>3. ASSUME NEW d \in Casters \ {c}, cast'[d].on
        PROVE  /\ cast'[d].at # 0
               /\ ~cast'[d].shrunk =>
                     cast'[d].whole \subseteq cast'[d].sent \cup cast'[d].dead \cup Ahead(d)'
    BY <1>1, <2>2, <2>3 DEF ManagerInv, CastsCover
  <2>4. cast'[c].at # 0
    <3>1. cast[c].at \in Nat
      BY <1>1 DEF Cast
    <3>2. QED
      BY <1>1, <3>1
  <2>5. ~cast'[c].shrunk =>
            cast'[c].whole \subseteq cast'[c].sent \cup cast'[c].dead \cup Ahead(c)'
    <3>1. ~cast[c].shrunk =>
              cast[c].whole \subseteq cast[c].sent \cup cast[c].dead \cup Ahead(c)
      BY DEF ManagerInv, CastsCover
    <3>2. Ahead(c) \subseteq {conns[cast[c].at]} \cup Ahead(c)'
      BY <2>1
    <3>3. QED
      BY <1>1, <3>1, <3>2
  <2>6. QED
    BY <2>3, <2>4, <2>5 DEF CastsCover
<1>5. QED
  BY <1>2, <1>3, <1>4 DEF ManagerInv

LEMMA Sends ==
    ASSUME ManagerInv, NEW c \in Casters, SendNext(c) \/ SendFails(c)
    PROVE  ManagerInv'
<1> DEFINE x == cast[c]
<1> DEFINE v == conns[x.at]
<1>1. /\ cast \in [Casters -> Cast] /\ conns \in Seq(Sockets) /\ x \in Cast
      /\ phase \in [Sockets -> {"new", "accepting", "open", "lost", "closed"}]
  BY DEF ManagerInv, RegistryOK
<1>2. /\ x.on /\ x.at <= Len(conns)
      /\ UNCHANGED <<conns, key, channel, listener, closing>>
  BY DEF SendNext, SendFails
<1>3. v \in Sockets
  <2>1. x.at \in Nat /\ x.at # 0
    BY <1>1, <1>2 DEF Cast, ManagerInv, CastsCover
  <2>2. QED
    BY <1>1, <1>2, <2>1
<1>4. /\ phase' \in [Sockets -> {"new", "accepting", "open", "lost", "closed"}]
      /\ \A u \in Sockets : phase[u] \in {"open", "lost"} => phase'[u] \in {"open", "lost"}
  <2>1. CASE phase' = phase
    BY <1>1, <2>1
  <2>2. CASE phase' = [phase EXCEPT ![v] = "lost"]
    <3> HIDE DEF v
    <3>1. QED
      BY <1>1, <2>2
  <2>3. QED
    BY <2>1, <2>2 DEF SendNext, SendFails
<1>5. PICK y : cast' = [cast EXCEPT ![c] = y] /\ Advanced(x, v, y)
  <2>1. CASE SendNext(c)
    BY <2>1 DEF SendNext, Advanced
  <2>2. CASE SendFails(c)
    BY <2>2 DEF SendFails, Advanced
  <2>3. QED
    BY <2>1, <2>2
<1> HIDE DEF x, v
<1>6. /\ y \in Cast /\ y.at = x.at + 1 /\ y.on = x.on /\ y.whole = x.whole
      /\ y.shrunk = x.shrunk /\ y.sent \cup y.dead = x.sent \cup x.dead \cup {v}
  BY <1>1, <1>3, <1>5, CastAdvances
<1>7. QED
  BY <1>2, <1>4, <1>5, <1>6, CastMoves DEF x, v

LEMMA CastCompletes ==
    ASSUME ManagerInv, NEW c \in Casters, CastEnds(c) PROVE ManagerInv'
<1> DEFINE gone == cast[c].dead
<1> DEFINE D == [Shifted(gone) EXCEPT ![c] = NoCast]
<1>1. cast \in [Casters -> Cast] /\ gone \in SUBSET Sockets
  BY DEF ManagerInv, RegistryOK, Cast
<1>2. Shifted(gone) \in [Casters -> Cast] /\ NoCast \in Cast /\ NoCast.on = FALSE
  BY <1>1, ShiftedCasts, CastFields
<1>3. /\ D \in [Casters -> Cast] /\ \A d \in Casters : D[d].on => D[d] = Shifted(gone)[d]
  BY <1>2
<1>4. /\ conns' = Without(conns, gone) /\ cast' = D /\ UNCHANGED <<phase, channel, closing>>
      /\ key' = [ws \in Sockets |-> IF ws \in gone THEN NoKey ELSE key[ws]]
      /\ listener' \in {"waiting", "casting", "revoking", "stopping", "dead"}
  BY DEF CastEnds, ManagerInv, RegistryOK
<1>5. /\ phase' \in [Sockets -> {"new", "accepting", "open", "lost", "closed"}]
      /\ \A ws \in Sockets \ gone : phase'[ws] = phase[ws]
      /\ closing' \in SUBSET Sockets /\ channel' \in Seq(Groups)
  BY <1>4 DEF ManagerInv, RegistryOK
<1> HIDE DEF gone, D
<1>6. QED
  BY <1>1, <1>3, <1>4, <1>5, SocketsRemoved

(* The listener's task changes its state or starts a broadcast.            *)
LEMMA ListenerMoves ==
    ASSUME ManagerInv, UNCHANGED <<conns, key>>, channel' \in Seq(Groups),
           \/ cast' = cast
           \/ \E c \in Casters : cast' = [cast EXCEPT ![c] = NewCast],
           phase' \in [Sockets -> {"new", "accepting", "open", "lost", "closed"}],
           \A v \in Registered : phase[v] \in {"open", "lost"} => phase'[v] \in {"open", "lost"},
           listener' \in {"waiting", "casting", "revoking", "stopping", "dead"},
           closing' \in SUBSET Sockets
    PROVE  ManagerInv'
<1>1. cast \in [Casters -> Cast] /\ conns \in Seq(Sockets) /\ Registered \subseteq Sockets
  BY DEF ManagerInv, RegistryOK, Registered
<1>2. cast' \in [Casters -> Cast]
  BY <1>1, CastFields
<1>3. RegistryOK' /\ KeyMap'
  BY <1>2 DEF ManagerInv, RegistryOK, Registered, KeyMap
<1>4. NoDeadRegistration'
  BY DEF ManagerInv, NoDeadRegistration, Registered
<1>5. CastsCover'
  <2>1. CASE cast' = cast
    BY <2>1 DEF ManagerInv, CastsCover, Ahead
  <2>2. ASSUME NEW c \in Casters, cast' = [cast EXCEPT ![c] = NewCast] PROVE CastsCover'
    <3>1. cast'[c] = NewCast /\ \A d \in Casters \ {c} : cast'[d] = cast[d]
      BY <1>1, <2>2
    <3>2. cast'[c].at = 1 /\ cast'[c].whole = Registered
      BY <3>1, CastFields
    <3>3. Registered \subseteq Ahead(c)'
      <4>1. \A j \in DOMAIN conns : j >= 1
        BY <1>1
      <4>2. QED
        BY <3>2, <4>1 DEF Registered, Ahead
    <3>4. \A d \in Casters \ {c} : Ahead(d)' = Ahead(d)
      BY <3>1 DEF Ahead
    <3>5. QED
      BY <3>1, <3>2, <3>3, <3>4 DEF ManagerInv, CastsCover
  <2>3. QED
    BY <2>1, <2>2
<1>6. QED
  BY <1>3, <1>4, <1>5 DEF ManagerInv

(* disconnect_all leaves an empty registry.                                *)
LEMMA Stops ==
    ASSUME ManagerInv, StopEnds PROVE ManagerInv'
<1>1. cast \in [Casters -> Cast] /\ conns \in Seq(Sockets)
  BY DEF ManagerInv, RegistryOK
<1>2. /\ conns' = <<>> /\ key' = [ws \in Sockets |-> NoKey] /\ cast' = Shifted(Registered)
      /\ listener' = "dead" /\ channel' = <<>> /\ UNCHANGED <<phase, closing>>
  BY DEF StopEnds
<1>3. cast' \in [Casters -> Cast] /\ Registered' = {} /\ conns' \in Seq(Sockets)
  <2>1. cast' \in [Casters -> Cast]
    BY <1>1, <1>2, ShiftedCasts
  <2>2. Registered' = {} /\ conns' \in Seq(Sockets)
    BY <1>2 DEF Registered
  <2>3. QED
    BY <2>1, <2>2
<1>4. RegistryOK' /\ KeyMap' /\ NoDeadRegistration' /\ channel' \in Seq(Groups)
  BY <1>2, <1>3 DEF ManagerInv, RegistryOK, KeyMap, NoDeadRegistration
<1>5. CastsCover'
  <2>1. CASE Registered = {}
    <3>1. cast' = cast
      BY <1>1, <1>2, <2>1, ShiftedCasts
    <3>2. \A c \in Casters : Ahead(c) = {}
      BY <2>1 DEF Ahead, Registered
    <3>3. QED
      BY <3>1, <3>2 DEF ManagerInv, CastsCover
  <2>2. CASE Registered # {}
    <3>1. ASSUME NEW c \in Casters, cast'[c].on
          PROVE  cast'[c].shrunk = TRUE /\ cast'[c].at # 0
      <4>1. Registered \cap Registered # {}
        BY <2>2
      <4>2. cast[c].on /\ cast'[c].at = cast[c].at /\ cast'[c].shrunk = TRUE
        BY <1>1, <1>2, <3>1, <4>1, ShiftedCasts
      <4>3. QED
        BY <4>2 DEF ManagerInv, CastsCover
    <3>2. QED
      BY <3>1 DEF CastsCover
  <2>3. QED
    BY <2>1, <2>2
<1>6. QED
  BY <1>4, <1>5 DEF ManagerInv

(***************************************************************************)
(* Sessions and the tokens the sockets came with                           *)
(***************************************************************************)

LEMMA CheckShapes ==
    /\ Ready \in Check /\ Ready.pc = "ready"
    /\ \A l \in Links : [Ready EXCEPT !.pc = "mint", !.from = l] \in Check
    /\ \A k \in Tickets, n \in 0..MaxClock :
          [Ready EXCEPT !.pc = "fetched", !.ticket = k, !.raw = n] \in Check
    /\ \A x \in Check : x.pc = "mint" => x.from \in Links
    /\ \A x \in Check : x.pc = "fetched" => x.ticket \in Tickets /\ x.raw \in 0..MaxClock
<1>1. ASSUME NEW l \in Links PROVE [Ready EXCEPT !.pc = "mint", !.from = l] \in Check
  <2>1. [Ready EXCEPT !.pc = "mint", !.from = l]
            \in [pc: {"mint"}, ticket: {Gone}, from: Links, raw: {Gone}]
    BY DEF Ready
  <2>2. QED
    BY <2>1 DEF Check
<1>2. ASSUME NEW k \in Tickets, NEW n \in 0..MaxClock
      PROVE  [Ready EXCEPT !.pc = "fetched", !.ticket = k, !.raw = n] \in Check
  <2>1. [Ready EXCEPT !.pc = "fetched", !.ticket = k, !.raw = n]
            \in [pc: {"fetched"}, ticket: Tickets, from: {Gone}, raw: 0..MaxClock]
    BY DEF Ready
  <2>2. QED
    BY <2>1 DEF Check
<1>3. Ready \in Check /\ Ready.pc = "ready"
  BY DEF Ready, Check
<1>4. \A x \in Check : x.pc = "mint" => x.from \in Links
  BY DEF Ready, Check
<1>5. \A x \in Check : x.pc = "fetched" => x.ticket \in Tickets /\ x.raw \in 0..MaxClock
  BY DEF Ready, Check
<1>6. QED
  BY <1>1, <1>2, <1>3, <1>4, <1>5

LEMMA MomentsAreTimes ==
    ASSUME MonitorTypeOK
    PROVE  /\ clock \in Nat /\ clock <= MaxClock /\ clock \in Times
           /\ clock + Lifetime \in Times /\ clock + Idle \in Times
           /\ clock + Lesser(Idle, Lifetime) \in Times
BY MonitorAssumption DEF MonitorTypeOK, Times, Lesser

LEMMA MintsTyped ==
    ASSUME MonitorTypeOK, NEW c \in Checkers, Mint(c) PROVE MonitorTypeOK'
<1>1. PICK k \in Tickets :
          /\ store' = [store EXCEPT ![k] =
                 [created |-> clock, until |-> clock + Lesser(Idle, Lifetime)]]
          /\ origin' = [origin EXCEPT ![k] = [from |-> check[c].from, at |-> clock]]
  BY DEF Mint
<1>2. /\ check[c].from \in Links /\ check' = [check EXCEPT ![c] = Ready]
      /\ UNCHANGED <<clock, link>>
  BY CheckShapes DEF Mint, MonitorTypeOK
<1>3. clock \in 0..MaxClock /\ clock + Lesser(Idle, Lifetime) \in Times
  BY MomentsAreTimes DEF MonitorTypeOK
<1>4. /\ store' \in [Tickets -> [created: 0..MaxClock, until: Times] \cup {Gone}]
      /\ origin' \in [Tickets -> [from: Links, at: 0..MaxClock] \cup {Gone}]
      /\ check' \in [Checkers -> Check]
  BY <1>1, <1>2, <1>3, CheckShapes DEF MonitorTypeOK
<1>5. QED
  BY <1>2, <1>4 DEF MonitorTypeOK

LEMMA ValidatesTyped ==
    ASSUME MonitorTypeOK, NEW c \in Checkers, UNCHANGED <<clock, link, origin>>,
           \/ \E k \in Tickets : Fetch(c, k) /\ UNCHANGED store
           \/ Renew(c) \/ RefuseOld(c)
    PROVE  MonitorTypeOK'
<1>1. ASSUME NEW k \in Tickets, Fetch(c, k), UNCHANGED store PROVE MonitorTypeOK'
  <2>1. store[k].created \in 0..MaxClock
    BY <1>1 DEF Fetch, MonitorTypeOK
  <2>2. [Ready EXCEPT !.pc = "fetched", !.ticket = k, !.raw = store[k].created] \in Check
    BY <2>1, CheckShapes
  <2>3. check' \in [Checkers -> Check]
    BY <1>1, <2>2 DEF Fetch, MonitorTypeOK
  <2>4. QED
    BY <1>1, <2>3 DEF MonitorTypeOK
<1>2. CASE Renew(c)
  <2>1. check[c].ticket \in Tickets /\ check[c].raw \in 0..MaxClock
    BY <1>2, CheckShapes DEF Renew, MonitorTypeOK
  <2>2. Renewed(c) \in [created: 0..MaxClock, until: Times]
    BY <2>1, MomentsAreTimes DEF Renewed
  <2>3. /\ store' \in [Tickets -> [created: 0..MaxClock, until: Times] \cup {Gone}]
        /\ check' \in [Checkers -> Check]
    BY <1>2, <2>2, CheckShapes DEF Renew, MonitorTypeOK
  <2>4. QED
    BY <2>3 DEF MonitorTypeOK
<1>3. CASE RefuseOld(c)
  <2>1. /\ store' \in [Tickets -> [created: 0..MaxClock, until: Times] \cup {Gone}]
        /\ check' \in [Checkers -> Check]
    BY <1>3, CheckShapes DEF RefuseOld, MonitorTypeOK
  <2>2. QED
    BY <2>1 DEF MonitorTypeOK
<1>4. QED
  BY <1>1, <1>2, <1>3

LEMMA RequestsTyped ==
    ASSUME MonitorTypeOK, NEW c \in Checkers, RequestStep(c) PROVE MonitorTypeOK'
<1>1. ASSUME NEW l \in Links, Redeem(c, l) PROVE MonitorTypeOK'
  <2>1. link' \in [Links -> Times \cup {Gone}] /\ check' \in [Checkers -> Check]
    BY <1>1, CheckShapes DEF Redeem, Consumed, MonitorTypeOK
  <2>2. QED
    BY <1>1, <2>1 DEF Redeem, MonitorTypeOK
<1>2. CASE MintFails(c)
  <2>1. check' \in [Checkers -> Check]
    BY <1>2, CheckShapes DEF MintFails, MonitorTypeOK
  <2>2. QED
    BY <1>2, <2>1 DEF MintFails, MonitorTypeOK
<1>3. CASE \/ \E k \in Tickets : Fetch(c, k) /\ UNCHANGED <<clock, link, store, origin>>
           \/ (Renew(c) \/ RefuseOld(c)) /\ UNCHANGED <<clock, link, origin>>
  BY <1>3, ValidatesTyped
<1>4. QED
  BY <1>1, <1>2, <1>3, MintsTyped DEF RequestStep

LEMMA LinksTyped ==
    ASSUME MonitorTypeOK, NEW l \in Links, GenerateLink(l) PROVE MonitorTypeOK'
<1>1. link' \in [Links -> Times \cup {Gone}]
  BY MomentsAreTimes DEF GenerateLink, MonitorTypeOK
<1>2. QED
  BY <1>1 DEF GenerateLink, MonitorTypeOK

LEMMA AdvanceTyped ==
    ASSUME MonitorTypeOK, Advance PROVE MonitorTypeOK'
<1>1. clock' \in 0..MaxClock /\ UNCHANGED <<check, origin>>
  BY MonitorAssumption DEF Advance, MonitorTypeOK
<1>2. /\ link' \in [Links -> Times \cup {Gone}]
      /\ store' \in [Tickets -> [created: 0..MaxClock, until: Times] \cup {Gone}]
  BY DEF Advance, MonitorTypeOK
<1>3. QED
  BY <1>1, <1>2 DEF MonitorTypeOK

-----------------------------------------------------------------------------
(* A socket past its handshake came with a session's token.                *)
TokensHeld ==
    /\ holder \in [Sockets -> Tickets \cup {Gone}]
    /\ \A ws \in Sockets :
          phase[ws] \in {"accepting", "open", "lost"} \/ check[ws].pc # "ready"
              => holder[ws] \in Tickets

GatewayInv == MonitorTypeOK /\ ManagerInv /\ TokensHeld

LEMMA GatewayInitially == MonitorGatewayInit => GatewayInv
<1> SUFFICES ASSUME MonitorGatewayInit PROVE GatewayInv
  OBVIOUS
<1>1. MonitorTypeOK
  <2>1. clock \in 0..MaxClock
    BY MonitorAssumption DEF MonitorGatewayInit, MonitorInit
  <2>2. check \in [Checkers -> Check]
    BY CheckShapes DEF MonitorGatewayInit, MonitorInit
  <2>3. /\ link = [l \in Links |-> Gone] /\ store = [k \in Tickets |-> Gone]
        /\ origin = [k \in Tickets |-> Gone]
    BY DEF MonitorGatewayInit, MonitorInit
  <2>4. /\ link \in [Links -> Times \cup {Gone}]
        /\ store \in [Tickets -> [created: 0..MaxClock, until: Times] \cup {Gone}]
        /\ origin \in [Tickets -> [from: Links, at: 0..MaxClock] \cup {Gone}]
    BY <2>3
  <2>5. QED
    BY <2>1, <2>2, <2>4 DEF MonitorTypeOK
<1>2. TokensHeld
  BY SocketsAssumption, CheckShapes DEF MonitorGatewayInit, MonitorInit, ManagerInit, TokensHeld
<1>3. ManagerInv
  <2>1. /\ conns \in Seq(Sockets) /\ DOMAIN conns = {} /\ Registered = {} /\ channel \in Seq(Groups)
    BY DEF MonitorGatewayInit, ManagerInit, Registered
  <2>2. cast \in [Casters -> Cast] /\ \A c \in Casters : cast[c].on = FALSE
    BY CastFields DEF MonitorGatewayInit, ManagerInit
  <2>3. RegistryOK /\ KeyMap
    BY <2>1, <2>2 DEF MonitorGatewayInit, ManagerInit, RegistryOK, KeyMap
  <2>4. QED
    BY <2>1, <2>2, <2>3 DEF ManagerInv, NoDeadRegistration, CastsCover
<1>4. QED
  BY <1>1, <1>2, <1>3 DEF GatewayInv

LEMMA ManagerUntouched ==
    ASSUME ManagerInv, UNCHANGED managerVars PROVE ManagerInv'
BY DEF ManagerInv, RegistryOK, KeyMap, NoDeadRegistration, CastsCover, Ahead, Registered,
       AtEnd, managerVars

(* A socket that is let in, turned away or waits changes its phase alone.  *)
LEMMA PhaseMoves ==
    ASSUME ManagerInv, NEW ws \in Sockets, phase[ws] = "new", NEW p \in {"accepting", "closed"},
           phase' = [phase EXCEPT ![ws] = p],
           UNCHANGED <<conns, key, channel, listener, closing, cast>>
    PROVE  ManagerInv'
<1>1. /\ phase' \in [Sockets -> {"new", "accepting", "open", "lost", "closed"}]
      /\ \A v \in Sockets : phase[v] \in {"open", "lost"} => phase'[v] \in {"open", "lost"}
  BY DEF ManagerInv, RegistryOK
<1>2. /\ Registered \subseteq Sockets /\ channel' \in Seq(Groups)
      /\ listener' \in {"waiting", "casting", "revoking", "stopping", "dead"}
      /\ closing' \in SUBSET Sockets
  BY DEF ManagerInv, RegistryOK, Registered
<1>3. QED
  BY <1>1, <1>2, ListenerMoves

(* The event loop's own steps.                                             *)
LEMMA LoopSteps ==
    ASSUME ManagerInv, ListenerAssumption,
           \/ ReceiveGroup \/ ListenerFails
           \/ \E ws \in Sockets : StopNext(ws)
           \/ \E g \in Groups : Publish(g)
    PROVE  ManagerInv'
<1>1. /\ conns \in Seq(Sockets) /\ Registered \subseteq Sockets /\ channel \in Seq(Groups)
      /\ phase \in [Sockets -> {"new", "accepting", "open", "lost", "closed"}]
      /\ listener \in {"waiting", "casting", "revoking", "stopping", "dead"}
      /\ closing \in SUBSET Sockets
  BY DEF ManagerInv, RegistryOK, Registered
<1>2. CASE ReceiveGroup
  <2>1. /\ channel' \in Seq(Groups) /\ cast' = [cast EXCEPT ![Listener] = NewCast]
        /\ listener' = "casting" /\ UNCHANGED <<conns, key, phase, closing>>
    BY <1>1, <1>2 DEF ReceiveGroup
  <2>2. QED
    BY <1>1, <2>1, ListenerMoves
<1>3. CASE ListenerFails
  BY <1>1, <1>3, ListenerMoves DEF ListenerFails
<1>4. ASSUME NEW ws \in Sockets, StopNext(ws) PROVE ManagerInv'
  <2>1. /\ phase' \in [Sockets -> {"new", "accepting", "open", "lost", "closed"}]
        /\ \A v \in Sockets : phase[v] \in {"open", "lost"} => phase'[v] \in {"open", "lost"}
        /\ closing' \in SUBSET Sockets /\ UNCHANGED <<conns, key, channel, listener, cast>>
    BY <1>1, <1>4 DEF StopNext
  <2>2. QED
    BY <1>1, <2>1, ListenerMoves
<1>5. ASSUME NEW g \in Groups, Publish(g) PROVE ManagerInv'
  <2>1. channel' \in Seq(Groups) /\ UNCHANGED <<conns, key, phase, listener, closing, cast>>
    BY <1>1, <1>5 DEF Publish, Send
  <2>2. QED
    BY <1>1, <2>1, ListenerMoves
<1>6. QED
  BY <1>2, <1>3, <1>4, <1>5

LEMMA LeavesRegistry ==
    ASSUME ManagerInv, NEW ws \in Sockets, Leave(ws) PROVE ManagerInv'
<1>1. Unregister(ws) /\ UNCHANGED <<channel, listener, closing>>
  BY DEF Leave
<1>2. closing' \in SUBSET Sockets
  BY <1>1 DEF ManagerInv, RegistryOK
<1>3. QED
  BY <1>1, <1>2, Unregisters

LEMMA RemovesSockets ==
    ASSUME ManagerInv, StopEnds \/ \E c \in Casters : SendNext(c) \/ SendFails(c) \/ CastEnds(c)
    PROVE  ManagerInv'
BY Stops, Sends, CastCompletes

-----------------------------------------------------------------------------
(* A validation of a socket, by what it does to the socket's check.        *)
LEMMA SocketChecks ==
    ASSUME GatewayInv, NEW ws \in Sockets
    PROVE  /\ \A k \in Tickets : Fetch(ws, k) => check'[ws].pc # "ready"
           /\ Renew(ws) \/ RefuseOld(ws) => check'[ws].pc = "ready" /\ check[ws].pc # "ready"
           /\ \A v \in Sockets \ {ws} :
                 (\E k \in Tickets : Fetch(ws, k)) \/ Renew(ws) \/ RefuseOld(ws)
                     => check'[v] = check[v]
<1>1. ws \in Checkers /\ Sockets \subseteq Checkers /\ check \in [Checkers -> Check]
  BY SocketsAssumption DEF GatewayInv, MonitorTypeOK
<1>2. ASSUME NEW x, check' = [check EXCEPT ![ws] = x]
      PROVE  check'[ws] = x /\ \A v \in Sockets \ {ws} : check'[v] = check[v]
  BY <1>1, <1>2
<1>3. ASSUME NEW k \in Tickets, Fetch(ws, k)
      PROVE  check'[ws].pc # "ready" /\ \A v \in Sockets \ {ws} : check'[v] = check[v]
  <2>1. PICK x : x.pc = "fetched" /\ check' = [check EXCEPT ![ws] = x]
    BY <1>3, FetchedFields DEF Fetch
  <2>2. QED
    BY <1>2, <2>1
<1>4. ASSUME Renew(ws) \/ RefuseOld(ws)
      PROVE  /\ check'[ws].pc = "ready" /\ check[ws].pc # "ready"
             /\ \A v \in Sockets \ {ws} : check'[v] = check[v]
  <2>1. check' = [check EXCEPT ![ws] = Ready] /\ check[ws].pc = "fetched"
    BY <1>4 DEF Renew, RefuseOld
  <2>2. Ready.pc = "ready"
    BY DEF Ready
  <2>3. QED
    BY <1>2, <2>1, <2>2
<1>5. QED
  BY <1>3, <1>4

LEMMA TokensStay ==
    ASSUME GatewayInv, UNCHANGED holder,
           \A v \in Sockets : phase'[v] = phase[v] \/ phase'[v] \in {"new", "closed"}
                              \/ phase[v] \in {"accepting", "open", "lost"}
                              \/ check[v].pc # "ready",
           \A v \in Sockets : check'[v] = check[v] \/ check'[v].pc = "ready"
                              \/ phase[v] \in {"open", "lost"}
    PROVE  TokensHeld'
BY DEF GatewayInv, TokensHeld

LEMMA HandshakeSteps ==
    ASSUME GatewayInv, NEW ws \in Sockets, NEW k \in Tickets, Handshake(ws, k)
    PROVE  GatewayInv'
<1>1. MonitorTypeOK'
  BY SocketsAssumption, ValidatesTyped DEF Handshake, GatewayInv
<1>2. ManagerInv'
  BY ManagerUntouched DEF Handshake, GatewayInv
<1>3. TokensHeld'
  <2>1. holder' \in [Sockets -> Tickets \cup {Gone}] /\ holder'[ws] = k
        /\ \A v \in Sockets \ {ws} : holder'[v] = holder[v]
    BY DEF GatewayInv, TokensHeld, Handshake
  <2>2. \A v \in Sockets \ {ws} : check'[v] = check[v]
    BY SocketChecks DEF Handshake
  <2>3. phase' = phase
    BY DEF Handshake, managerVars
  <2>4. QED
    BY <2>1, <2>2, <2>3 DEF GatewayInv, TokensHeld
<1>4. QED
  BY <1>1, <1>2, <1>3 DEF GatewayInv

LEMMA AdmissionSteps ==
    ASSUME GatewayInv, NEW ws \in Sockets, Admit(ws) \/ Deny(ws) PROVE GatewayInv'
<1>1. MonitorTypeOK'
  BY SocketsAssumption, ValidatesTyped DEF Admit, Deny, GatewayInv
<1>2. PICK p \in {"accepting", "closed"} : phase' = [phase EXCEPT ![ws] = p]
  BY DEF Admit, Deny
<1>3. ManagerInv'
  BY <1>2, PhaseMoves DEF Admit, Deny, GatewayInv
<1>4. TokensHeld'
  <2>1. /\ check[ws].pc # "ready" /\ check'[ws].pc = "ready"
        /\ \A v \in Sockets \ {ws} : check'[v] = check[v]
    BY SocketChecks DEF Admit, Deny
  <2>2. \A v \in Sockets \ {ws} : phase'[v] = phase[v]
    BY <1>2 DEF GatewayInv, ManagerInv, RegistryOK
  <2>3. holder' = holder
    BY DEF Admit, Deny
  <2>4. QED
    BY <2>1, <2>2, <2>3, TokensStay
<1>5. QED
  BY <1>1, <1>3, <1>4 DEF GatewayInv

LEMMA ConnectSteps ==
    ASSUME GatewayInv, NEW ws \in Sockets, Connect(ws) PROVE GatewayInv'
<1>1. MonitorTypeOK' /\ UNCHANGED <<check, holder>>
  BY DEF Connect, GatewayInv, MonitorTypeOK, monitorVars
<1>2. holder[ws] # NoKey /\ phase[ws] = "accepting"
  BY SocketsAssumption DEF Connect, GatewayInv, TokensHeld
<1>3. ManagerInv'
  BY <1>2, Registers DEF Connect, GatewayInv
<1>4. \A v \in Sockets \ {ws} : phase'[v] = phase[v]
  BY DEF Connect, Register, GatewayInv, ManagerInv, RegistryOK
<1>5. TokensHeld'
  BY <1>1, <1>2, <1>4, TokensStay
<1>6. QED
  BY <1>1, <1>3, <1>5 DEF GatewayInv

LEMMA RecheckSteps ==
    ASSUME GatewayInv, NEW ws \in Sockets, Recheck(ws) \/ RecheckRenews(ws)
    PROVE  GatewayInv'
<1>1. /\ phase[ws] \in {"open", "lost"} /\ holder[ws] \in Tickets
      /\ UNCHANGED <<managerVars, holder>>
  BY DEF Recheck, RecheckRenews, Served, GatewayInv, TokensHeld
<1>2. MonitorTypeOK'
  BY <1>1, SocketsAssumption, ValidatesTyped DEF Recheck, RecheckRenews, GatewayInv
<1>3. ManagerInv'
  BY <1>1, ManagerUntouched DEF GatewayInv
<1>4. \A v \in Sockets \ {ws} : check'[v] = check[v]
  BY <1>1, SocketChecks DEF Recheck, RecheckRenews
<1>5. phase' = phase
  BY <1>1 DEF managerVars
<1>6. TokensHeld'
  BY <1>1, <1>4, <1>5, TokensStay
<1>7. QED
  BY <1>2, <1>3, <1>6 DEF GatewayInv

LEMMA RefusalSteps ==
    ASSUME GatewayInv, NEW ws \in Sockets, RecheckRefuses(ws) \/ RecheckMisses(ws)
    PROVE  GatewayInv'
<1>1. /\ Unregister(ws) /\ UNCHANGED <<clock, link, origin, channel, listener, closing, holder>>
      /\ RefuseOld(ws) \/ UNCHANGED <<store, check>>
  BY DEF RecheckRefuses, RecheckMisses, monitorVars
<1>2. MonitorTypeOK'
  <2>1. CASE RefuseOld(ws)
    BY <1>1, <2>1, SocketsAssumption, ValidatesTyped DEF GatewayInv
  <2>2. CASE UNCHANGED <<store, check>>
    BY <1>1, <2>2 DEF GatewayInv, MonitorTypeOK
  <2>3. QED
    BY <1>1, <2>1, <2>2
<1>3. ManagerInv'
  <2>1. closing' \in SUBSET Sockets
    BY <1>1 DEF GatewayInv, ManagerInv, RegistryOK
  <2>2. QED
    BY <1>1, <2>1, Unregisters DEF GatewayInv
<1>4. TokensHeld'
  <2>1. phase'[ws] = "closed" /\ \A v \in Sockets \ {ws} : phase'[v] = phase[v]
    BY <1>1 DEF Unregister, GatewayInv, ManagerInv, RegistryOK
  <2>2. \A v \in Sockets : check'[v] = check[v] \/ check'[v].pc = "ready"
    BY <1>1, SocketChecks
  <2>3. QED
    BY <1>1, <2>1, <2>2, TokensStay
<1>5. QED
  BY <1>2, <1>3, <1>4 DEF GatewayInv

(* The steps of the loop and of its clients leave the validations alone.   *)
LEMMA LoopKeeps ==
    ASSUME GatewayInv, LoopStep \/ LoopFault \/ \E g \in Groups : Invalidate(g)
    PROVE  GatewayInv'
<1>1. UNCHANGED <<monitorVars, holder>>
  BY DEF LoopStep, LoopFault, Invalidate
<1>2. MonitorTypeOK' /\ check' = check
  BY <1>1 DEF GatewayInv, MonitorTypeOK, monitorVars
<1>3. ManagerInv'
  BY ListenerAssumption, LoopSteps, RemovesSockets, LeavesRegistry
  DEF LoopStep, LoopFault, Invalidate, GatewayInv
<1>4. \A v \in Sockets : phase'[v] = phase[v] \/ phase'[v] = "closed"
                         \/ phase[v] \in {"open", "lost"}
  BY DEF LoopStep, LoopFault, Invalidate, GatewayInv, ManagerInv, RegistryOK,
         ReceiveGroup, StopEnds, StopNext, SendNext, SendFails, CastEnds,
         ListenerFails, Leave, Unregister, Publish
<1>5. TokensHeld'
  BY <1>1, <1>2, <1>4, TokensStay
<1>6. QED
  BY <1>2, <1>3, <1>5 DEF GatewayInv

LEMMA RequestKeeps ==
    ASSUME GatewayInv, NEW c \in Requests, RequestStep(c) PROVE GatewayInv'
<1>1. MonitorTypeOK'
  BY RequestsTyped DEF GatewayInv, Requests
<1>2. ManagerInv' /\ UNCHANGED <<managerVars, holder>>
  BY ManagerUntouched DEF RequestStep, GatewayInv
<1>3. \A v \in Sockets : check'[v] = check[v]
  BY SocketsAssumption
  DEF RequestStep, Requests, Redeem, Mint, MintFails, Fetch, Renew, RefuseOld, GatewayInv,
      MonitorTypeOK
<1>4. TokensHeld'
  BY <1>2, <1>3, TokensStay DEF managerVars
<1>5. QED
  BY <1>1, <1>2, <1>4 DEF GatewayInv

LEMMA GatewayStep ==
    ASSUME GatewayInv, [MonitorGatewayNext]_monitorGatewayVars PROVE GatewayInv'
<1>1. ASSUME NEW l \in Links, NewLink(l) PROVE GatewayInv'
  <2>1. MonitorTypeOK' /\ UNCHANGED <<check, managerVars, holder>>
    BY <1>1, LinksTyped DEF NewLink, GenerateLink, GatewayInv
  <2>2. ManagerInv' /\ phase' = phase
    BY <2>1, ManagerUntouched DEF GatewayInv, managerVars
  <2>3. QED
    BY <2>1, <2>2, TokensStay DEF GatewayInv
<1>2. CASE Pass
  <2>1. MonitorTypeOK' /\ UNCHANGED <<check, managerVars, holder>>
    BY <1>2, AdvanceTyped DEF Pass, Advance, GatewayInv
  <2>2. ManagerInv' /\ phase' = phase
    BY <2>1, ManagerUntouched DEF GatewayInv, managerVars
  <2>3. QED
    BY <2>1, <2>2, TokensStay DEF GatewayInv
<1>3. CASE UNCHANGED monitorGatewayVars
  <2>1. ManagerInv' /\ UNCHANGED <<monitorVars, managerVars, holder>>
    BY <1>3, ManagerUntouched DEF GatewayInv, monitorGatewayVars
  <2>2. QED
    BY <2>1 DEF GatewayInv, MonitorTypeOK, TokensHeld, monitorVars, managerVars
<1>4. QED
  BY <1>1, <1>2, <1>3, RequestKeeps, HandshakeSteps, AdmissionSteps, ConnectSteps,
     RecheckSteps, RefusalSteps, LoopKeeps
  DEF MonitorGatewayNext

LEMMA GatewayInductive == MonitorGatewaySpec => []GatewayInv
BY GatewayInitially, GatewayStep, PTL DEF MonitorGatewaySpec

-----------------------------------------------------------------------------
(* Every variable of the gateway keeps its type, and the registry maps     *)
(* exactly the sockets of its list, each of them there once.               *)
THEOREM GatewayTypes == MonitorGatewaySpec => []MonitorGatewayTypeOK
<1>1. GatewayInv => MonitorGatewayTypeOK
  BY DEF GatewayInv, ManagerInv, TokensHeld, MonitorGatewayTypeOK
<1>2. QED
  BY <1>1, GatewayInductive, PTL

(* Whatever closes a socket (its client, a refused recheck, a failed       *)
(* broadcast, the listener's end), no socket whose handler has returned    *)
(* stays in the list that broadcasts send to.                              *)
THEOREM RegisteredAreServed == MonitorGatewaySpec => []NoDeadRegistration
<1>1. GatewayInv => NoDeadRegistration
  BY DEF GatewayInv, ManagerInv
<1>2. QED
  BY <1>1, GatewayInductive, PTL

(* Sockets that connect while a broadcast awaits a send do not make it     *)
(* skip anyone: when it ends, each socket that was there all along was     *)
(* sent the message or found dead, unless one was removed meanwhile.       *)
THEOREM BroadcastsComplete == MonitorGatewaySpec => []BroadcastReachesAll
<1>1. ASSUME GatewayInv PROVE BroadcastReachesAll
  <2>1. SUFFICES ASSUME NEW c \in Casters, AtEnd(c), ~cast[c].shrunk
                 PROVE  cast[c].whole \subseteq cast[c].sent \cup cast[c].dead
    BY DEF BroadcastReachesAll
  <2>2. Ahead(c) = {}
    <3>1. conns \in Seq(Sockets) /\ cast[c].at \in Nat
      BY <1>1 DEF GatewayInv, ManagerInv, RegistryOK, Cast
    <3>2. \A j \in DOMAIN conns : ~(j >= cast[c].at)
      BY <2>1, <3>1 DEF AtEnd
    <3>3. QED
      BY <3>2 DEF Ahead
  <2>3. QED
    BY <1>1, <2>1, <2>2 DEF GatewayInv, ManagerInv, CastsCover, AtEnd
<1>2. QED
  BY <1>1, GatewayInductive, PTL

=============================================================================
