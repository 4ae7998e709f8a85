------------------------ MODULE LoginSessionsProofs ------------------------
(***************************************************************************)
(* TLAPS proofs about LoginSessions, for any users, clients, sessions and  *)
(* requests, any lifetime, window and grace period that satisfy            *)
(* LifetimesAssumption, and any length of time.                            *)
(***************************************************************************)
EXTENDS LoginSessions, TLAPS

Devices == {Fingerprint(c) : c \in Clients}

Typed ==
    /\ now \in 0..MaxNow
    /\ row \in [Sessions -> Row \cup {None}]
    /\ thread \in [Threads -> ThreadState]
    /\ inactive \subseteq Users
    /\ chain \in [Sessions -> SUBSET Token]
    /\ dropped \in [Sessions -> SUBSET Token]
    /\ \A r \in Threads : thread[r].session # None => row[thread[r].session] \in Row

(* Row x keeps token t: it is the current one; or the previous one, in its *)
(* grace period, which ends no earlier than the token.  The previous one   *)
(* was rotated when the current one was issued, with less than Window left. *)
Kept(x, t) ==
    \/ t = x.token
    \/ /\ t = x.prev /\ now < x.prevExp
       /\ Expires(t) <= x.prevExp
       /\ Expires(t) < x.token.iat + Window
       /\ now < Expires(t) \/ x.token.iat = now

(* Row x has lost token t for good: what it keeps is younger.               *)
Lost(x, t) == t.iat < x.token.iat /\ t # x.prev

ChainKept ==
    \A s \in Sessions :
        /\ \A t \in chain[s] \ dropped[s] : row[s] \in Row /\ Kept(row[s], t)
        /\ \A t \in dropped[s] : row[s] \in Row /\ Lost(row[s], t)

(* The tokens of a row are its user's and were issued by now.               *)
OwnTokens(x) ==
    /\ x.token.user = x.user /\ x.token.iat <= now
    /\ x.prev # None => x.prev.user = x.user /\ x.prev.iat <= now

RowsOwn == \A s \in Sessions : row[s] \in Row => OwnTokens(row[s])

(* So is the token a login is about to write into a row it has found.       *)
LoginOwns ==
    \A r \in Threads : thread[r].pc = "login" =>
        /\ thread[r].token.iat <= now
        /\ thread[r].session # None => row[thread[r].session].user = thread[r].token.user

LoginInv == Typed /\ ChainKept /\ RowsOwn /\ LoginOwns

-----------------------------------------------------------------------------
(* Tokens, rows and the states of a request.                               *)

LEMMA Lifetimes ==
    /\ Life \in Nat /\ Window \in Nat /\ Grace \in Nat /\ MaxNow \in Nat
    /\ 0 < Grace /\ Window <= Grace /\ 2 * Window <= Life
BY LifetimesAssumption

LEMMA TokenFields ==
    ASSUME NEW t \in Token PROVE t.user \in Users /\ t.iat \in 0..MaxNow /\ Expires(t) \in Nat
BY Lifetimes DEF Token, Expires

LEMMA NoToken == \A t \in Token : t # None
BY RowAssumption

LEMMA NewTokenIssued ==
    ASSUME NEW u \in Users, now \in 0..MaxNow
    PROVE  NewToken(u) \in Token /\ NewToken(u).user = u /\ NewToken(u).iat = now
BY DEF NewToken, Token

LEMMA RowFields ==
    ASSUME NEW x \in Row
    PROVE  /\ x # None /\ x.user \in Users /\ x.token \in Token
           /\ x.prev \in Token \cup {None} /\ x.prevExp \in 0..MaxNow + Grace
BY RowAssumption DEF Row

LEMMA RowLogin ==
    ASSUME NEW x \in Row, NEW t \in Token
    PROVE  LET y == [x EXCEPT !.token = t, !.at = t.iat, !.out = FALSE]
           IN  y \in Row /\ y.token = t /\ y.user = x.user /\ y.prev = x.prev
<1>1. t.iat \in 0..MaxNow
  BY TokenFields
<1>2. QED
  BY <1>1 DEF Row

LEMMA RowOut ==
    ASSUME NEW x \in Row
    PROVE  LET y == [x EXCEPT !.out = TRUE]
           IN  /\ y \in Row /\ y.token = x.token /\ y.prev = x.prev /\ y.prevExp = x.prevExp
               /\ y.user = x.user
BY DEF Row

LEMMA RowCreated ==
    ASSUME NEW u \in Users, NEW d \in Devices, NEW n \in 0..MaxNow, NEW t \in Token
    PROVE  LET y == [user |-> u, device |-> d, at |-> n, out |-> FALSE, token |-> t,
                     prev |-> None, prevExp |-> 0]
           IN  y \in Row /\ y.token = t /\ y.user = u /\ y.prev = None
BY Lifetimes DEF Row, Devices

LEMMA ThreadFields ==
    ASSUME NEW x \in ThreadState
    PROVE  /\ x.pc = "login" => /\ x.session \in Sessions \cup {None}
                                /\ x.token \in Token /\ x.device \in Devices
           /\ x.pc = "serving" => x.session \in Sessions /\ x.token \in Token
           /\ x.pc \in {"logout", "publish"} => x.session \in Sessions
BY DEF ThreadState, Idle, Devices

LEMMA ThreadIdle == Idle \in ThreadState /\ Idle.session = None /\ Idle.pc = "idle"
BY DEF ThreadState, Idle

-----------------------------------------------------------------------------
LEMMA LoginInitially == SessionInit => LoginInv
BY Lifetimes, ThreadIdle, RowAssumption
DEF SessionInit, LoginInv, Typed, ChainKept, RowsOwn, LoginOwns

(* A request reads, or ends without having written.                        *)
LEMMA ThreadMoves ==
    ASSUME LoginInv, NEW r \in Threads, NEW x \in ThreadState,
           thread' = [thread EXCEPT ![r] = x],
           x.session # None => row[x.session] \in Row,
           x.pc = "login" => /\ x.token.iat <= now
                             /\ x.session # None => row[x.session].user = x.token.user,
           UNCHANGED <<now, row, inactive, chain, dropped>>
    PROVE  LoginInv'
<1>1. Typed'
  BY DEF LoginInv, Typed
<1>2. ChainKept' /\ RowsOwn'
  BY DEF LoginInv, ChainKept, Kept, Lost, RowsOwn, OwnTokens
<1>3. LoginOwns'
  BY DEF LoginInv, Typed, LoginOwns
<1>4. QED
  BY <1>1, <1>2, <1>3 DEF LoginInv

LEMMA ThreadFinishes ==
    ASSUME LoginInv, NEW r \in Threads, Finish(r), UNCHANGED <<now, row, inactive, chain, dropped>>
    PROVE  LoginInv'
BY ThreadIdle, ThreadMoves DEF Finish

(* Session s gets row y and the histories C and D, which y keeps and has    *)
(* lost.                                                                   *)
LEMMA RowWritten ==
    ASSUME LoginInv, NEW s \in Sessions, NEW y \in Row, NEW C \in SUBSET Token,
           NEW D \in SUBSET Token,
           row' = [row EXCEPT ![s] = y], chain' = [chain EXCEPT ![s] = C],
           dropped' = [dropped EXCEPT ![s] = D],
           UNCHANGED <<now, inactive>>,
           \A t \in C \ D : Kept(y, t), \A t \in D : Lost(y, t),
           OwnTokens(y), row[s] \in Row => y.user = row[s].user,
           thread' \in [Threads -> ThreadState],
           \A r \in Threads : /\ thread'[r].session \in {thread[r].session, None}
                              /\ thread'[r].pc = "login" => thread'[r] = thread[r]
    PROVE  LoginInv'
<1>1. Typed'
  <2>1. ASSUME NEW r \in Threads, thread'[r].session # None
        PROVE  row'[thread'[r].session] \in Row
    BY <2>1 DEF LoginInv, Typed
  <2>2. QED
    BY <2>1 DEF LoginInv, Typed
<1>2. ChainKept'
  BY DEF LoginInv, Typed, ChainKept, Kept, Lost
<1>3. RowsOwn'
  BY DEF LoginInv, Typed, RowsOwn, OwnTokens
<1>4. LoginOwns'
  <2>1. ASSUME NEW r \in Threads, thread'[r].pc = "login", thread'[r].session # None
        PROVE  row'[thread'[r].session].user = thread'[r].token.user
    BY <2>1 DEF LoginInv, Typed, LoginOwns
  <2>2. ASSUME NEW r \in Threads, thread'[r].pc = "login" PROVE thread'[r].token.iat <= now'
    BY <2>2 DEF LoginInv, LoginOwns
  <2>3. QED
    BY <2>1, <2>2 DEF LoginOwns
<1>5. QED
  BY <1>1, <1>2, <1>3, <1>4 DEF LoginInv

(* After its write the request is done with.                               *)
LEMMA FinishKeepsTypes ==
    ASSUME LoginInv, NEW r \in Threads, Finish(r)
    PROVE  /\ thread' \in [Threads -> ThreadState]
           /\ \A q \in Threads : /\ thread'[q].session \in {thread[q].session, None}
                                 /\ thread'[q].pc = "login" => thread'[q] = thread[q]
BY ThreadIdle DEF LoginInv, Typed, Finish

(* A login writes its token and starts the histories.                      *)
LEMMA LoginWritten ==
    ASSUME LoginInv, NEW r \in Threads, NEW s \in Sessions, NEW y \in Row, NEW t \in Token,
           row' = [row EXCEPT ![s] = y], NewChain(s, t), Finish(r), UNCHANGED <<now, inactive>>,
           y.token = t, OwnTokens(y), row[s] \in Row => y.user = row[s].user
    PROVE  LoginInv'
<1> DEFINE C == {t}
           D == {}
<1>1. C \in SUBSET Token /\ D \in SUBSET Token
  OBVIOUS
<1>2. chain' = [chain EXCEPT ![s] = C] /\ dropped' = [dropped EXCEPT ![s] = D]
  BY DEF NewChain
<1>3. (\A k \in C \ D : Kept(y, k)) /\ (\A k \in D : Lost(y, k))
  BY DEF Kept
<1> HIDE DEF C, D
<1>4. QED
  BY <1>1, <1>2, <1>3, FinishKeepsTypes, RowWritten

-----------------------------------------------------------------------------
(* One lemma for each operation that writes.                               *)

LEMMA LoginReads ==
    ASSUME LoginInv, NEW r \in Threads, NEW u \in Users, NEW c \in Clients, LoginRead(r, u, c)
    PROVE  LoginInv'
<1>1. PICK s \in LatestActive(u) \cup {None} :
          thread' = [thread EXCEPT ![r] =
              [pc |-> "login", token |-> NewToken(u), device |-> Fingerprint(c),
               session |-> IF s # None /\ row[s].device = Fingerprint(c) THEN s ELSE None]]
  BY DEF LoginRead
<1> DEFINE q == IF s # None /\ row[s].device = Fingerprint(c) THEN s ELSE None
           x == [pc |-> "login", token |-> NewToken(u), device |-> Fingerprint(c),
                 session |-> q]
<1>2. q \in Sessions \cup {None} /\ (q # None => row[q] \in Row /\ row[q].user = u)
  BY DEF LatestActive, Active, Exists, LoginInv, Typed
<1>3. NewToken(u) \in Token /\ NewToken(u).user = u /\ NewToken(u).iat <= now
  BY NewTokenIssued DEF LoginInv, Typed
<1>4. thread' = [thread EXCEPT ![r] = x]
  BY <1>1
<1> HIDE DEF q
<1>5. x \in ThreadState /\ x.session = q /\ x.token = NewToken(u)
  BY <1>2, <1>3 DEF ThreadState
<1> HIDE DEF x
<1>6. QED
  BY <1>2, <1>3, <1>4, <1>5, ThreadMoves DEF LoginRead

LEMMA LoginWrites ==
    ASSUME LoginInv, NEW r \in Threads, LoginUpdates(r) \/ LoginCreates(r)
    PROVE  LoginInv'
<1> DEFINE x == thread[r]
           t == x.token
<1>1. /\ x \in ThreadState /\ x.pc = "login" /\ t \in Token /\ x.device \in Devices
      /\ x.session \in Sessions \cup {None} /\ now \in 0..MaxNow
      /\ x.session # None => row[x.session] \in Row /\ row[x.session].user = t.user
      /\ t.iat <= now
  BY ThreadFields DEF LoginInv, Typed, LoginOwns, LoginUpdates, LoginCreates
<1>2. t.user \in Users /\ t.iat \in 0..MaxNow
  BY <1>1, TokenFields
<1>3. CASE LoginUpdates(r)
  <2> DEFINE s == x.session
             y == [row[s] EXCEPT !.token = t, !.at = t.iat, !.out = FALSE]
  <2>1. s \in Sessions /\ row[s] \in Row
    BY <1>1, <1>3 DEF LoginUpdates
  <2>2. y \in Row /\ y.token = t /\ y.user = row[s].user /\ y.prev = row[s].prev
    BY <1>1, <2>1, RowLogin
  <2>3. /\ row' = [row EXCEPT ![s] = y] /\ NewChain(s, t)
        /\ Finish(r) /\ UNCHANGED <<now, inactive>>
    BY <1>3 DEF LoginUpdates
  <2>4. row[s].user = t.user
    BY <1>1, <2>1, <1>3 DEF LoginUpdates
  <2> HIDE DEF x, t, s, y
  <2>5. OwnTokens(y)
    BY <1>1, <2>1, <2>2, <2>4 DEF OwnTokens, LoginInv, RowsOwn
  <2>6. QED
    BY <1>1, <2>1, <2>2, <2>3, <2>5, LoginWritten
<1>4. CASE LoginCreates(r)
  <2> DEFINE y == [user |-> t.user, device |-> x.device, at |-> t.iat, out |-> FALSE,
                   token |-> t, prev |-> None, prevExp |-> 0]
  <2>1. y \in Row /\ y.token = t /\ y.user = t.user /\ y.prev = None
    BY <1>1, <1>2, RowCreated
  <2>2. PICK s \in Sessions :
          /\ row[s] = None /\ row' = [row EXCEPT ![s] = y]
          /\ NewChain(s, t)
    BY <1>4 DEF LoginCreates, Exists
  <2>3. Finish(r) /\ UNCHANGED <<now, inactive>>
    BY <1>4 DEF LoginCreates
  <2> HIDE DEF x, t, y
  <2>4. OwnTokens(y)
    BY <1>1, <2>1 DEF OwnTokens
  <2>5. QED
    BY <1>1, <2>1, <2>2, <2>3, <2>4, RowAssumption, LoginWritten
<1>5. QED
  BY <1>3, <1>4

(* The heart of the matter: the token that becomes the previous one has    *)
(* less than Window left, no more than the grace period; the one it pushes  *)
(* out has expired, because two windows fit into a lifetime.               *)
LEMMA RotationKeeps ==
    ASSUME NEW x \in Row, NEW y \in Row, NEW t \in Token, NEW new \in Token, NEW k \in Token,
           now \in 0..MaxNow, x.token = t, ExpiringSoon(t), Kept(x, k),
           new.iat = now, y.token = new, y.prev = t, y.prevExp = now + Grace
    PROVE  Kept(y, k)
<1>1. /\ t.iat \in Nat /\ k.iat \in Nat /\ now \in Nat
      /\ Expires(t) = t.iat + Life /\ Expires(k) \in Nat
      /\ t.iat + Life < now + Window
  BY TokenFields, Lifetimes DEF ExpiringSoon, Expires
<1>2. CASE k = t
  <2>1. Expires(k) < now + Window /\ now + Window <= now + Grace /\ now < now + Grace
    BY <1>1, <1>2, Lifetimes
  <2>2. Expires(k) <= now + Grace
    BY <1>1, <2>1, Lifetimes
  <2>3. QED
    BY <1>2, <2>1, <2>2 DEF Kept
<1>3. CASE k # t
  <2>1. /\ Expires(k) < t.iat + Window
        /\ now < Expires(k) \/ t.iat = now
    BY <1>3 DEF Kept
  <2>2. QED
    BY <1>1, <2>1, Lifetimes
<1>4. QED
  BY <1>2, <1>3

LEMMA RotateWrites ==
    ASSUME LoginInv, NEW r \in Threads, Rotate(r) PROVE LoginInv'
<1> DEFINE s == thread[r].session
           t == thread[r].token
           new == NewToken(t.user)
           y == [row[s] EXCEPT !.token = new, !.prev = t, !.prevExp = now + Grace]
<1>1. /\ s \in Sessions /\ t \in Token /\ row[s] \in Row /\ now \in 0..MaxNow
  BY ThreadFields, RowAssumption, NoneAssumption DEF LoginInv, Typed, Rotate
<1>2. /\ new \in Token /\ new.iat = now /\ new.user = t.user /\ now + Grace \in 0..MaxNow + Grace
      /\ t \in Token \cup {None}
  BY <1>1, TokenFields, NewTokenIssued, Lifetimes
<1> HIDE DEF s, t, new
<1>3. /\ y \in Row /\ y.token = new /\ y.prev = t /\ y.prevExp = now + Grace
      /\ y.user = row[s].user
  BY <1>1, <1>2 DEF Row
<1>4. /\ row[s].token = t /\ ExpiringSoon(t)
      /\ row' = [row EXCEPT ![s] = y] /\ chain' = [chain EXCEPT ![s] = chain[s] \cup {new}]
      /\ Finish(r) /\ UNCHANGED <<now, inactive, dropped>>
  BY DEF Rotate, Rotates, s, t, new
<1> HIDE DEF y
<1>5. /\ chain[s] \in SUBSET Token /\ \A k \in chain[s] \ dropped[s] : Kept(row[s], k)
      /\ dropped[s] \in SUBSET Token /\ \A k \in dropped[s] : Lost(row[s], k)
      /\ dropped' = [dropped EXCEPT ![s] = dropped[s]]
  BY <1>1, <1>4 DEF LoginInv, Typed, ChainKept
<1>6. \A k \in (chain[s] \cup {new}) \ dropped[s] : Kept(y, k)
  <2>1. Kept(y, new)
    BY <1>3 DEF Kept
  <2>2. ASSUME NEW k \in chain[s] \ dropped[s] PROVE Kept(y, k)
    BY <1>1, <1>2, <1>3, <1>4, <1>5, RotationKeeps
  <2>3. QED
    BY <2>1, <2>2
<1>7. OwnTokens(row[s]) /\ t.iat \in Nat /\ now \in Nat
  BY <1>1, TokenFields, Lifetimes DEF LoginInv, RowsOwn
<1>8. \A k \in dropped[s] : Lost(y, k)
  <2> SUFFICES ASSUME NEW k \in dropped[s] PROVE k.iat < now /\ k # t
    BY <1>2, <1>3 DEF Lost
  <2>1. k.iat < t.iat /\ k.iat \in Nat /\ t.iat <= now
    BY <1>4, <1>5, <1>7, TokenFields DEF Lost, OwnTokens
  <2>2. QED
    BY <1>7, <2>1
<1>9. OwnTokens(y)
  BY <1>2, <1>3, <1>4, <1>7 DEF OwnTokens
<1> DEFINE C == chain[s] \cup {new}
<1>10. C \in SUBSET Token
  BY <1>2, <1>5
<1> HIDE DEF C
<1>11. chain' = [chain EXCEPT ![s] = C] /\ \A k \in C \ dropped[s] : Kept(y, k)
  BY <1>4, <1>6 DEF C
<1>12. QED
  BY <1>1, <1>3, <1>4, <1>5, <1>8, <1>9, <1>10, <1>11, FinishKeepsTypes, RowWritten

LEMMA LogoutWrites ==
    ASSUME LoginInv, NEW r \in Threads, LogoutWrite(r) PROVE LoginInv'
<1> DEFINE s == thread[r].session
           y == [row[s] EXCEPT !.out = TRUE]
           x == [thread[r] EXCEPT !.pc = "publish"]
<1>1. thread[r] \in ThreadState /\ thread[r].pc = "logout"
  BY DEF LoginInv, Typed, LogoutWrite
<1>2. s \in Sessions /\ row[s] \in Row
  BY <1>1, ThreadFields, NoneAssumption DEF LoginInv, Typed
<1>3. x \in ThreadState /\ x.session = s /\ x.pc = "publish"
  BY <1>1 DEF ThreadState, Idle
<1>4. /\ y \in Row /\ y.token = row[s].token /\ y.prev = row[s].prev
      /\ y.prevExp = row[s].prevExp /\ y.user = row[s].user
  BY <1>2, RowOut
<1>5. /\ row' = [row EXCEPT ![s] = y] /\ thread' = [thread EXCEPT ![r] = x]
      /\ UNCHANGED <<now, inactive, chain, dropped>>
  BY DEF LogoutWrite
<1> HIDE DEF y, x
<1>6. /\ thread' \in [Threads -> ThreadState]
      /\ \A q \in Threads : /\ thread'[q].session \in {thread[q].session, None}
                            /\ thread'[q].pc = "login" => thread'[q] = thread[q]
  BY <1>3, <1>5 DEF LoginInv, Typed
<1> HIDE DEF s
<1>7. /\ chain[s] \in SUBSET Token /\ chain' = [chain EXCEPT ![s] = chain[s]]
      /\ dropped[s] \in SUBSET Token /\ dropped' = [dropped EXCEPT ![s] = dropped[s]]
      /\ \A t \in chain[s] \ dropped[s] : Kept(y, t)
      /\ \A t \in dropped[s] : Lost(y, t)
  BY <1>2, <1>4, <1>5 DEF LoginInv, Typed, ChainKept, Kept, Lost
<1>8. OwnTokens(y)
  BY <1>2, <1>4 DEF LoginInv, RowsOwn, OwnTokens
<1>9. QED
  BY <1>2, <1>4, <1>5, <1>6, <1>7, <1>8, RowWritten

LEMMA ReissueWrites ==
    ASSUME LoginInv, NEW s \in Sessions, Reissue(s) PROVE LoginInv'
<1> DEFINE new == NewToken(row[s].user)
           y == [row[s] EXCEPT !.token = new, !.prev = None, !.prevExp = 0]
<1>1. row[s] \in Row /\ now \in 0..MaxNow /\ OwnTokens(row[s])
  BY DEF LoginInv, Typed, RowsOwn, Reissue, Exists
<1>2. /\ new \in Token /\ new.user = row[s].user /\ new.iat = now
      /\ 0 \in 0..MaxNow + Grace /\ None \in Token \cup {None}
  BY <1>1, RowFields, NewTokenIssued, Lifetimes
<1> DEFINE C == chain[s] \cup {new}
           D == (dropped[s] \cup chain[s]) \ {new}
<1> HIDE DEF new
<1>3. y \in Row /\ y.token = new /\ y.prev = None /\ y.user = row[s].user
  BY <1>1, <1>2 DEF Row
<1>4. /\ row' = [row EXCEPT ![s] = y] /\ chain' = [chain EXCEPT ![s] = C]
      /\ dropped' = [dropped EXCEPT ![s] = D]
      /\ UNCHANGED <<now, inactive>> /\ thread' = thread
  BY DEF Reissue, new
<1> HIDE DEF y
<1>5. C \in SUBSET Token /\ D \in SUBSET Token /\ \A t \in C \ D : Kept(y, t)
  BY <1>2, <1>3 DEF Kept, LoginInv, Typed
<1>6. ASSUME NEW t \in D PROVE Lost(y, t)
  <2>1. /\ t \in Token /\ t.iat \in Nat /\ now \in Nat /\ t # new
        /\ t \in dropped[s] \/ t \in chain[s] \ dropped[s]
    BY <1>1, <1>5, TokenFields, Lifetimes
  <2>2. CASE t \in dropped[s]
    <3>1. t.iat < row[s].token.iat /\ row[s].token.iat <= now /\ row[s].token.iat \in Nat
      BY <1>1, <2>2, RowFields, TokenFields, Lifetimes DEF LoginInv, ChainKept, Lost, OwnTokens
    <3>2. QED
      BY <1>2, <1>3, <2>1, <3>1, NoToken DEF Lost
  <2>3. CASE t \in chain[s] \ dropped[s]
    <3>1. Kept(row[s], t)
      BY <2>3 DEF LoginInv, ChainKept
    <3>2. t.user = row[s].user /\ t.iat <= now
      BY <1>1, <2>1, <3>1, NoToken DEF Kept, OwnTokens
    <3>3. t.iat # now
      BY <1>2, <2>1, <3>2 DEF Token
    <3>4. QED
      BY <1>2, <1>3, <2>1, <3>2, <3>3, NoToken DEF Lost
  <2>4. QED
    BY <2>1, <2>2, <2>3
<1>7. OwnTokens(y)
  BY <1>1, <1>2, <1>3, Lifetimes DEF OwnTokens
<1>8. /\ thread' \in [Threads -> ThreadState]
      /\ \A r \in Threads : /\ thread'[r].session \in {thread[r].session, None}
                            /\ thread'[r].pc = "login" => thread'[r] = thread[r]
  BY <1>4 DEF LoginInv, Typed
<1> HIDE DEF C, D
<1>9. QED
  BY <1>1, <1>3, <1>4, <1>5, <1>6, <1>7, <1>8, RowWritten

(* What Tick leaves in the history has not expired, so the grace period of  *)
(* a previous token has not either.                                        *)
LEMMA TickKeeps ==
    ASSUME LoginInv, Tick PROVE LoginInv'
<1>1. now' = now + 1 /\ now' \in 0..MaxNow /\ UNCHANGED <<row, thread, inactive>>
  BY Lifetimes DEF LoginInv, Typed, Tick
<1>2. chain' \in [Sessions -> SUBSET Token] /\ dropped' \in [Sessions -> SUBSET Token]
  <2>1. chain' \in [Sessions -> SUBSET Token]
    BY DEF LoginInv, Typed, Tick
  <2>2. dropped' \in [Sessions -> SUBSET Token]
    BY DEF LoginInv, Typed, Tick
  <2>3. QED
    BY <2>1, <2>2
<1>3. Typed'
  BY <1>1, <1>2 DEF LoginInv, Typed
<1>4. ASSUME NEW s \in Sessions, NEW t \in chain'[s] \ dropped'[s]
      PROVE  row'[s] \in Row /\ Kept(row[s], t)'
  <2>1. t \in chain[s] \ dropped[s] /\ now' < Expires(t)
    BY DEF Tick
  <2>2. t \in Token /\ row[s] \in Row /\ Kept(row[s], t)
    BY <2>1 DEF LoginInv, Typed, ChainKept
  <2>3. Expires(t) \in Nat /\ row[s].prevExp \in Nat /\ now' \in Nat
    BY <1>1, <2>2, TokenFields, RowFields, Lifetimes
  <2>4. Expires(t) <= row[s].prevExp => now' < row[s].prevExp
    BY <2>1, <2>3
  <2>5. Expires(t)' = Expires(t)
    BY DEF Expires
  <2>6. QED
    BY <1>1, <2>1, <2>2, <2>4, <2>5 DEF Kept
<1>5. ASSUME NEW s \in Sessions, NEW t \in dropped'[s]
      PROVE  row'[s] \in Row /\ Lost(row[s], t)'
  BY <1>1 DEF LoginInv, ChainKept, Lost, Tick
<1>6. RowsOwn'
  <2> SUFFICES ASSUME NEW s \in Sessions, row[s] \in Row PROVE OwnTokens(row[s])'
    BY <1>1 DEF RowsOwn
  <2>1. OwnTokens(row[s]) /\ row[s].token \in Token /\ row[s].prev \in Token \cup {None}
    BY RowFields DEF LoginInv, RowsOwn
  <2>2. row[s].token.iat \in Nat /\ (row[s].prev # None => row[s].prev.iat \in Nat)
    BY <2>1, TokenFields, Lifetimes
  <2>3. QED
    BY <1>1, <2>1, <2>2, Lifetimes DEF OwnTokens, LoginInv, Typed
<1>7. LoginOwns'
  <2>1. ASSUME NEW r \in Threads, thread[r].pc = "login" PROVE thread[r].token.iat <= now'
    <3>1. thread[r].token \in Token /\ thread[r].token.iat <= now
      BY <2>1, ThreadFields DEF LoginInv, Typed, LoginOwns
    <3>2. QED
      BY <1>1, <3>1, TokenFields, Lifetimes DEF LoginInv, Typed
  <2>2. QED
    BY <1>1, <2>1 DEF LoginInv, LoginOwns
<1>8. QED
  BY <1>1, <1>3, <1>4, <1>5, <1>6, <1>7 DEF LoginInv, ChainKept

LEMMA RequestReads ==
    ASSUME LoginInv, NEW r \in Threads,
           \/ \E u \in Users : LogoutRead(r, u)
           \/ \E s \in Sessions, t \in Token : Authenticate(r, s, t)
    PROVE  LoginInv'
<1>1. ASSUME NEW u \in Users, LogoutRead(r, u) PROVE LoginInv'
  <2>1. PICK s \in LatestActive(u) :
          thread' = [thread EXCEPT ![r] =
              [pc |-> "logout", session |-> s, token |-> None, device |-> None]]
    BY <1>1 DEF LogoutRead
  <2> DEFINE x == [pc |-> "logout", session |-> s, token |-> None, device |-> None]
  <2>2. s \in Sessions /\ row[s] \in Row
    BY DEF LatestActive, Active, Exists, LoginInv, Typed
  <2>3. thread' = [thread EXCEPT ![r] = x]
    BY <2>1
  <2>4. x \in ThreadState /\ x.session = s /\ x.pc # "login"
    BY <2>2 DEF ThreadState
  <2> HIDE DEF x
  <2>5. QED
    BY <1>1, <2>2, <2>3, <2>4, ThreadMoves DEF LogoutRead
<1>2. ASSUME NEW s \in Sessions, NEW t \in Token, Authenticate(r, s, t) PROVE LoginInv'
  <2> DEFINE x == [pc |-> "serving", session |-> s, token |-> t, device |-> None]
  <2>1. row[s] \in Row
    BY <1>2 DEF Authenticate, Authenticates, Exists, LoginInv, Typed
  <2>2. x \in ThreadState /\ x.session = s /\ x.pc # "login"
    BY DEF ThreadState
  <2>3. thread' = [thread EXCEPT ![r] = x]
    BY <1>2 DEF Authenticate
  <2> HIDE DEF x
  <2>4. QED
    BY <1>2, <2>1, <2>2, <2>3, ThreadMoves DEF Authenticate
<1>3. QED
  BY <1>1, <1>2

LEMMA LoginStep ==
    ASSUME LoginInv, [SessionNext \/ \E r \in Threads : Published(r)]_sessionVars
    PROVE  LoginInv'
<1>1. ASSUME LoginInv, SessionNext \/ \E r \in Threads : Published(r) PROVE LoginInv'
  <2>1. ASSUME NEW r \in Threads,
               LoginCollides(r) \/ RotateCollides(r) \/ Respond(r) \/ Published(r)
        PROVE  LoginInv'
    BY <1>1, <2>1, ThreadFinishes DEF LoginCollides, RotateCollides, Respond, Published
  <2>2. ASSUME NEW u \in Users, Deactivate(u) PROVE LoginInv'
    BY <1>1, <2>2 DEF Deactivate, LoginInv, Typed, ChainKept, Kept, Lost, RowsOwn, OwnTokens,
       LoginOwns
  <2>3. QED
    BY <1>1, <2>1, <2>2, LoginReads, LoginWrites, RotateWrites, LogoutWrites, ReissueWrites,
       TickKeeps, RequestReads DEF SessionNext
<1>2. ASSUME LoginInv, UNCHANGED sessionVars PROVE LoginInv'
  BY <1>2 DEF LoginInv, Typed, ChainKept, Kept, Lost, RowsOwn, OwnTokens, LoginOwns,
     sessionVars
<1>3. QED
  BY <1>1, <1>2

LEMMA LoginInductive == SessionSpec => []LoginInv
BY LoginStep, LoginInitially, PTL DEF SessionSpec

-----------------------------------------------------------------------------
LEMMA LoginTyped == LoginInv => SessionTypeOK
BY RowFields DEF LoginInv, Typed, SessionTypeOK, Exists

(* Type correctness; a request never holds a row that is not there.        *)
THEOREM SessionTypes == SessionSpec => []SessionTypeOK
BY LoginTyped, LoginInductive, PTL

(* rotate_session_token and get_session_by_token: parallel requests may    *)
(* rotate in any order and at any time; of the unexpired tokens a session   *)
(* was given since its last login, each finds it unless the end of an       *)
(* impersonation replaced it (set_session_token keeps no previous token),   *)
(* and those that were replaced do not come back.                           *)
THEOREM RotationSafe == SessionSpec => []RotationKeepsTokens
<1>1. ASSUME LoginInv, NEW s \in Sessions, NEW t \in chain[s]
      PROVE  Exists(s) /\ (Matches(s, t) <=> t \notin dropped[s])
  <2>1. CASE t \notin dropped[s]
    BY <1>1, <2>1, RowFields DEF LoginInv, ChainKept, Kept, Exists, Matches
  <2>2. CASE t \in dropped[s]
    <3>1. row[s] \in Row /\ t.iat < row[s].token.iat /\ t # row[s].prev
      BY <1>1, <2>2 DEF LoginInv, ChainKept, Lost
    <3>2. t.iat \in Nat /\ row[s].token.iat \in Nat
      BY <1>1, <3>1, RowFields, TokenFields, Lifetimes DEF LoginInv, Typed
    <3>3. t # row[s].token
      BY <3>1, <3>2
    <3>4. QED
      BY <2>2, <3>1, <3>3, RowFields DEF Exists, Matches
  <2>3. QED
    BY <2>1, <2>2
<1>2. LoginInv => RotationKeepsTokens
  BY <1>1 DEF RotationKeepsTokens
<1>3. QED
  BY <1>2, LoginInductive, PTL

=============================================================================
