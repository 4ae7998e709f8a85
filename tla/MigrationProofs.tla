--------------------------- MODULE MigrationProofs ---------------------------
(***************************************************************************)
(* TLAPS proofs about MigrationValidation, for any graph of revisions, any *)
(* database and any command: what a passing validation promises.  Closures *)
(* are least histories and revisions are numbers, so the proofs argue by   *)
(* the least revision with some property where one would use induction.    *)
(***************************************************************************)
EXTENDS MigrationValidation, WellFoundedInduction, TLAPS

(* A set of natural numbers that is not empty has a least element.         *)
LEMMA LeastNumber ==
    ASSUME NEW T \in SUBSET Nat, T # {}
    PROVE  \E n \in T : \A m \in T : n <= m
<1> DEFINE R == OpToRel(<, Nat)
<1>1. IsWellFoundedOn(R, Nat)
  BY NatLessThanWellFounded
<1>2. \A x, y \in Nat : <<y, x>> \in R <=> y < x
  BY DEF OpToRel
<1> HIDE DEF R
<1>3. PICK x \in T : \A y \in T : ~ (<<y, x>> \in R)
  BY <1>1, WFMin
<1>4. ASSUME NEW y \in T PROVE x <= y
  <2>1. ~ (y < x)
    BY <1>2, <1>3
  <2>2. QED
    BY <2>1
<1>5. QED
  BY <1>4

LEMMA MinIsLeast ==
    ASSUME NEW S \in SUBSET Revs, S # {}
    PROVE  Min(S) \in S /\ \A x \in S : Min(S) <= x
<1>1. S \in SUBSET Nat
  BY DEF Revs
<1>2. \E n \in S : \A m \in S : n <= m
  BY <1>1, LeastNumber
<1>3. QED
  BY <1>2 DEF Min

(* The graph has no cycle: parents come first.                             *)
ParentsFirst == parents \in [Revs -> SUBSET Revs] /\ \A r \in Revs : \A p \in parents[r] : p < r

LEMMA ClosureFacts ==
    ASSUME ParentsFirst, NEW S \in SUBSET Revs
    PROVE  /\ Closure(S) \in Histories /\ S \subseteq Closure(S)
           /\ \A T \in Histories : S \subseteq T => Closure(S) \subseteq T
<1>1. S \subseteq Closure(S) /\ Closure(S) \in SUBSET Revs
  BY DEF Closure
<1>2. ASSUME NEW r \in Closure(S), NEW p \in parents[r]
      PROVE  p \in Closure(S)
  <2>1. r \in Revs /\ p \in Revs
    BY <1>1, <1>2 DEF ParentsFirst
  <2>2. ASSUME NEW T \in Histories, S \subseteq T PROVE p \in T
    <3>1. r \in T
      BY <2>2 DEF Closure
    <3>2. QED
      BY <3>1 DEF Histories, HistoriesOf
  <2>3. QED
    BY <2>1, <2>2 DEF Closure
<1>3. Closure(S) \in Histories
  BY <1>1, <1>2 DEF Histories, HistoriesOf
<1>4. QED
  BY <1>1, <1>3 DEF Closure

(* A revision is below those it descends from.                             *)
LEMMA ClosureBelow ==
    ASSUME ParentsFirst, NEW q \in Revs, NEW p \in Closure({q})
    PROVE  p \in Revs /\ p <= q
<1> DEFINE T == {r \in Revs : r <= q}
<1>1. T \in Histories
  <2>1. ASSUME NEW r \in T, NEW p2 \in parents[r] PROVE p2 \in T
    BY DEF ParentsFirst, Revs
  <2>2. QED
    BY <2>1 DEF Histories, HistoriesOf
<1>2. {q} \subseteq T
  BY DEF Revs
<1>3. Closure({q}) \subseteq T
  BY <1>1, <1>2, ClosureFacts
<1>4. QED
  BY <1>3

LEMMA ClosureOfParent ==
    ASSUME ParentsFirst, NEW r \in Revs, NEW q \in parents[r]
    PROVE  q \in Revs /\ q \in Closure({r}) /\ Closure({q}) \subseteq Closure({r})
<1>1. q \in Revs
  BY DEF ParentsFirst
<1>2. Closure({r}) \in Histories /\ r \in Closure({r})
  BY ClosureFacts
<1>3. q \in Closure({r})
  BY <1>2 DEF Histories, HistoriesOf
<1>4. QED
  BY <1>1, <1>2, <1>3, ClosureFacts

LEMMA UpgradedHistory ==
    ASSUME ParentsFirst, NEW db \in Databases, db.applied \in Histories, NEW S \in SUBSET Revs
    PROVE  Upgrade(db, S) \in Databases /\ Upgrade(db, S).applied \in Histories
           /\ Upgrade(db, S).applied = db.applied \cup Closure(S)
           /\ Upgrade(db, S).left = db.left
<1>1. Closure(S) \in Histories
  BY ClosureFacts
<1>2. db.applied \cup Closure(S) \in Histories
  BY <1>1 DEF Histories, HistoriesOf
<1>3. QED
  BY <1>2 DEF Upgrade, Databases, Histories, HistoriesOf

LEMMA UpgradedDatabase ==
    ASSUME ParentsFirst, NEW db \in Databases, NEW S \in SUBSET Revs
    PROVE  /\ Upgrade(db, S) \in Databases
           /\ Upgrade(db, S).applied = db.applied \cup Closure(S)
           /\ Upgrade(db, S).left = db.left
<1>1. Closure(S) \in SUBSET Revs
  BY DEF Closure
<1>2. QED
  BY <1>1 DEF Upgrade, Databases

LEMMA DowngradedDatabase ==
    ASSUME NEW db \in Databases, NEW p
    PROVE  Downgrade(db, p) \in Databases
BY DEF Downgrade, Databases, Undone

LEMMA DowngradedHistory ==
    ASSUME ParentsFirst, NEW db \in Databases, db.applied \in Histories, NEW p \in Revs
    PROVE  Downgrade(db, p).applied \in Histories
<1>1. ASSUME NEW r \in db.applied \ Undone(db, p), NEW q \in parents[r]
      PROVE  q \in db.applied \ Undone(db, p)
  <2>1. r \in Revs /\ q \in db.applied /\ q \in Revs
    BY DEF Histories, HistoriesOf, Databases
  <2>2. SUFFICES ASSUME q \in Undone(db, p) PROVE FALSE
    BY <2>1
  <2>3. p # 0 /\ q # p /\ p \in Closure({q})
    BY <2>2 DEF Undone, Revs
  <2>4. p \in Closure({r})
    BY <2>1, <2>3, ClosureOfParent
  <2>5. r = p
    BY <2>4 DEF Undone
  <2>6. p <= q /\ q < p
    BY <2>1, <2>3, <2>5, ClosureBelow DEF ParentsFirst
  <2>7. QED
    BY <2>1, <2>6 DEF Revs
<1>2. db.applied \ Undone(db, p) \in SUBSET Revs
  BY DEF Databases
<1>3. QED
  BY <1>1, <1>2 DEF Downgrade, Histories, HistoriesOf

-----------------------------------------------------------------------------
(* The verdict on one revision.                                            *)
LEMMA ReversibleIsWhatItSays ==
    ASSUME ParentsFirst, kind \in [Revs -> Kinds], NEW r \in Revs, sandbox \in Databases,
           ~Trips(Prepared(r), {r}), ~Raises(Upgrade(Prepared(r), {r}), BelowIt(r)),
           Matches(Prepared(r), Tried(r)), heads \subseteq Revs
    PROVE  /\ kind[r] = "inverse" \/ (kind[r] = "leaves" /\ r \in sandbox.left)
           /\ Tried(r).left = sandbox.left
<1> DEFINE before == Prepared(r)
           up == Upgrade(before, {r})
           undone == Undone(up, BelowIt(r))
           after == Tried(r)
           bad(q) == kind[q] \in {"leaves", "clashes"}
<1>1. before \in Databases /\ before.left = sandbox.left
  <2>1. parents[r] \ heads \in SUBSET Revs
    BY DEF ParentsFirst
  <2>2. QED
    BY <2>1, UpgradedDatabase DEF Prepared
<1>2. up \in Databases /\ up.left = before.left /\ r \in up.applied
  <2>1. r \in Closure({r})
    BY ClosureFacts
  <2>2. QED
    BY <1>1, <2>1, UpgradedDatabase
<1>3. r \in undone
  <2>1. CASE parents[r] = {}
    BY <1>2, <2>1 DEF Undone, BelowIt, Revs
  <2>2. CASE parents[r] # {}
    <3>1. Min(parents[r]) \in parents[r]
      BY <2>2, MinIsLeast DEF ParentsFirst
    <3>2. Min(parents[r]) \in Closure({r}) /\ Min(parents[r]) < r
      BY <3>1, ClosureOfParent DEF ParentsFirst
    <3>3. r # Min(parents[r])
      BY <3>2 DEF Revs
    <3>4. QED
      BY <1>2, <2>2, <3>2, <3>3 DEF Undone, BelowIt
  <2>3. QED
    BY <2>1, <2>2
<1>4. /\ after.applied = up.applied \ undone
      /\ after.left = up.left \cup {q \in undone : bad(q)}
  BY DEF Tried, Downgrade
<1>5. kind[r] # "raises"
  BY <1>3 DEF Raises
<1>6. /\ before.applied = after.applied
      /\ before.left \cup {q \in before.applied : bad(q)}
           = after.left \cup {q \in after.applied : bad(q)}
  BY DEF Matches, Schema
<1>7. ASSUME NEW q \in undone, bad(q) PROVE q \in before.left
  BY <1>4, <1>6, <1>7
<1>8. after.left = before.left
  BY <1>2, <1>4, <1>7
<1>9. kind[r] = "clashes" => r \in Closure({r}) \ before.applied
  BY <1>3, <1>4, <1>6, ClosureFacts
<1>10. ~(kind[r] = "clashes" /\ r \in before.left)
  BY <1>9 DEF Trips
<1>11. kind[r] \in Kinds
  OBVIOUS
<1>12. QED
  BY <1>1, <1>3, <1>5, <1>7, <1>8, <1>10, <1>11 DEF Kinds

-----------------------------------------------------------------------------
CommandShape ==
    /\ (command.rev = 0) = (command.target # "revision")
    /\ command.rev \in Revs \cup {0}

(* Nothing is found reversible, and no verdict is given, before it is due. *)
InOrder ==
    /\ stage \in {"start", "create"} => results = {}
    /\ passed => stage \in {"clean", "verdict", "done"}
    /\ stage # "done" => unseen = {}

(* Validation works in a sandbox that has no traces but the real ones.     *)
SandboxClean ==
    stage = "validate" => sandbox \in Databases /\ (seed = {} => sandbox.left \subseteq real.left)

ResultsReversible ==
    seed = {} => \A r \in results :
        kind[r] = "inverse" \/ (kind[r] = "leaves" /\ r \in real.left)

(* What the real upgrade will apply is validated or still to be.           *)
Missing == Closure(Targets) \ real.applied
PlanCovers ==
    ~apart =>
        /\ stage \in {"create", "validate"} => Missing \subseteq results \cup todo
        /\ passed /\ stage # "done" => Missing \subseteq results

MigrationInv ==
    /\ MigrationTypeOK /\ ParentsFirst /\ CommandShape /\ real.applied \in Histories
    /\ InOrder /\ SandboxClean /\ ResultsReversible /\ PlanCovers /\ OnlyValidatedApplied

LEMMA TargetsAreRevisions ==
    ASSUME CommandShape
    PROVE  Targets \in SUBSET Revs
BY DEF CommandShape, Targets, Frontier

LEMMA MigrationInitially == MigrationInit => MigrationInv
<1> SUFFICES ASSUME MigrationInit PROVE MigrationInv
  OBVIOUS
<1>1. ParentsFirst
  <2>1. /\ parents \in [Revs -> SUBSET Revs] /\ \A r \in Revs : parents[r] \subseteq 1..(r - 1)
    BY DEF MigrationInit, Graphs
  <2>2. QED
    BY <2>1 DEF ParentsFirst, Revs
<1>2. real \in Databases /\ real.applied \in Histories
  BY DEF MigrationInit, Databases, Histories, HistoriesOf
<1>3. command \in Commands /\ CommandShape
  BY DEF MigrationInit, Commands, CommandShape
<1>4. kind \in [Revs -> Kinds]
  BY DEF MigrationInit
<1>5. MigrationTypeOK
  <2>1. /\ sandbox = NoDb /\ stage = "start" /\ passed = FALSE /\ moves = 0 /\ apart = FALSE
        /\ todo = {} /\ seed = {} /\ heads = {} /\ results = {} /\ unseen = {}
    BY DEF MigrationInit
  <2>2. moves \in 0..MaxMoves
    BY <2>1, MigrationAssumption
  <2>3. QED
    BY <1>1, <1>2, <1>3, <1>4, <2>1, <2>2 DEF MigrationTypeOK, ParentsFirst
<1>6. InOrder /\ SandboxClean /\ ResultsReversible /\ PlanCovers /\ OnlyValidatedApplied
  BY DEF MigrationInit, InOrder, SandboxClean, ResultsReversible, PlanCovers, OnlyValidatedApplied
<1>7. QED
  BY <1>1, <1>2, <1>3, <1>5, <1>6 DEF MigrationInv

(* The graph and the command stay; so do the closures.                     *)
LEMMA GraphStays ==
    ASSUME UNCHANGED <<parents, kind, command>>
    PROVE  /\ ParentsFirst = ParentsFirst' /\ CommandShape = CommandShape'
           /\ Histories' = Histories /\ Targets' = Targets
           /\ Closure(Targets)' = Closure(Targets)
<1>1. Histories' = Histories
  BY DEF Histories, HistoriesOf
<1>2. Targets' = Targets
  BY DEF Targets, Frontier, Children
<1>3. Closure(Targets)' = Closure(Targets)
  BY <1>1, <1>2 DEF Closure
<1>4. QED
  BY <1>1, <1>2, <1>3 DEF ParentsFirst, CommandShape

(* A step of the command that leaves the real database alone.              *)
LEMMA CommandSteps ==
    ASSUME MigrationInv, UNCHANGED <<parents, kind, command, real, moves, apart, unseen>>,
           MigrationTypeOK', InOrder', SandboxClean', ResultsReversible',
           ~apart => /\ stage' \in {"create", "validate"} => Missing \subseteq results' \cup todo'
                     /\ passed' /\ stage' # "done" => Missing \subseteq results'
    PROVE  MigrationInv'
<1>1. /\ ParentsFirst' /\ CommandShape' /\ Histories' = Histories
      /\ Closure(Targets)' = Closure(Targets)
  BY GraphStays DEF MigrationInv
<1>2. Missing' = Missing
  BY <1>1 DEF Missing
<1>3. PlanCovers' /\ OnlyValidatedApplied'
  BY <1>2 DEF PlanCovers, OnlyValidatedApplied, MigrationInv
<1>4. QED
  BY <1>1, <1>3 DEF MigrationInv

LEMMA PlansKeep ==
    ASSUME MigrationInv, PlanAll \/ PlanHead \/ PlanTarget PROVE MigrationInv'
<1> DEFINE refused == stage' = "done" /\ UNCHANGED <<todo, seed, heads, passed>>
           there == /\ stage' = "verdict" /\ passed' = TRUE /\ Missing = {}
                    /\ UNCHANGED <<todo, seed, heads>>
           planned == /\ stage' = "create" /\ passed' = passed
                      /\ todo' \subseteq Revs /\ seed' \subseteq Revs /\ heads' \subseteq Revs
                      /\ Missing \subseteq todo'
<1>1. /\ stage = "start" /\ results = {} /\ ~passed
      /\ UNCHANGED <<parents, kind, command, real, sandbox, results, moves, apart, unseen>>
  BY DEF MigrationInv, InOrder, PlanAll, PlanHead, PlanTarget
<1>2. /\ ParentsFirst /\ real \in Databases /\ real.applied \in Histories
      /\ Missing \subseteq Revs
      /\ \A S : Frontier(S) \subseteq S
      /\ \A S : Closure(S) \subseteq Revs
  BY DEF MigrationInv, MigrationTypeOK, Missing, Closure, Frontier
<1>3. ASSUME PlanAll PROVE refused \/ there \/ planned
  <2>1. planned
    BY <1>2, <1>3 DEF PlanAll, Plan
  <2>2. QED
    BY <2>1
<1>4. ASSUME PlanHead PROVE refused \/ there \/ planned
  <2>1. Missing \subseteq Revs \ real.applied /\ real.applied \subseteq Revs
    BY <1>2 DEF Missing, Databases
  <2>2. refused \/ planned
    BY <1>2, <1>4, <2>1 DEF PlanHead, Plan, Refuse
  <2>3. QED
    BY <2>2
<1>5. ASSUME PlanTarget PROVE refused \/ there \/ planned
  <2> DEFINE t == command.rev
             trunk == Closure({t}) \ PendingMerge
  <2>1. t \in Revs /\ Targets = {t}
    BY <1>5 DEF PlanTarget, MigrationInv, CommandShape, Targets
  <2>2. t \in real.applied => Closure({t}) \subseteq real.applied
    BY <1>2, <2>1, ClosureFacts
  <2>3. Missing = Closure({t}) \ real.applied
    BY <2>1 DEF Missing
  <2>4. Frontier(trunk) \subseteq Revs /\ Frontier(real.applied) \subseteq Revs
        /\ Frontier(real.applied) \subseteq real.applied
    BY <1>2 DEF Databases
  <2>5. QED
    <3>1. CASE real.applied = {}
      BY <1>5, <3>1 DEF PlanTarget, Refuse
    <3>2. CASE real.applied # {} /\ Frontier(real.applied) = {t}
      BY <1>5, <2>2, <2>3, <2>4, <3>2 DEF PlanTarget
    <3>3. CASE real.applied # {} /\ Frontier(real.applied) # {t} /\ t \in real.applied
      BY <1>5, <2>2, <2>3, <2>4, <3>3 DEF PlanTarget, Plan
    <3>4. CASE real.applied # {} /\ Frontier(real.applied) # {t} /\ t \notin real.applied
      BY <1>2, <1>5, <2>3, <2>4, <3>4 DEF PlanTarget, Plan, Refuse
    <3>5. QED
      BY <3>1, <3>2, <3>3, <3>4
<1>6. refused \/ there \/ planned
  BY <1>3, <1>4, <1>5
<1>7. MigrationTypeOK'
  BY <1>1, <1>6 DEF MigrationInv, MigrationTypeOK
<1>8. InOrder' /\ SandboxClean' /\ ResultsReversible'
  BY <1>1, <1>6 DEF MigrationInv, InOrder, SandboxClean, ResultsReversible
<1>9. /\ stage' \in {"create", "validate"} => Missing \subseteq results' \cup todo'
      /\ passed' /\ stage' # "done" => Missing \subseteq results'
  BY <1>1, <1>6
<1>10. QED
  BY <1>1, <1>7, <1>8, <1>9, CommandSteps

LEMMA CreateKeeps ==
    ASSUME MigrationInv, CreateSandbox PROVE MigrationInv'
<1> DEFINE clone == IF command.target = "all" THEN [applied |-> {}, left |-> {}] ELSE real
           first == Min(seed)
           down == Downgrade(clone, first)
<1>1. /\ stage = "create" /\ results = {} /\ ~passed
      /\ UNCHANGED <<parents, kind, command, real, todo, seed, heads, results, passed, moves,
                     apart, unseen>>
  BY DEF CreateSandbox, MigrationInv, InOrder
<1>2. clone \in Databases /\ clone.left \subseteq real.left
  BY DEF MigrationInv, MigrationTypeOK, Databases
<1>3. down \in Databases
  BY <1>2, DowngradedDatabase
<1>4. Upgrade(down, seed \ {first}) \in Databases
  BY <1>3, UpgradedDatabase DEF MigrationInv, MigrationTypeOK
<1>5. /\ sandbox' \in Databases /\ stage' \in {"validate", "clean"}
      /\ seed = {} => sandbox' = clone
  <2>1. CASE seed = {}
    BY <1>2, <2>1 DEF CreateSandbox
  <2>2. CASE seed # {}
    BY <1>3, <1>4, <2>2 DEF CreateSandbox
  <2>3. QED
    BY <2>1, <2>2
<1> HIDE DEF clone, first, down
<1>6. MigrationTypeOK'
  BY <1>1, <1>5 DEF MigrationInv, MigrationTypeOK
<1>7. InOrder' /\ SandboxClean' /\ ResultsReversible'
  BY <1>1, <1>2, <1>5 DEF MigrationInv, InOrder, SandboxClean, ResultsReversible
<1>8. QED
  BY <1>1, <1>5, <1>6, <1>7, CommandSteps DEF MigrationInv, PlanCovers

LEMMA ValidateKeeps ==
    ASSUME MigrationInv, ValidateRevision PROVE MigrationInv'
<1> DEFINE r == Min(todo)
           before == Prepared(r)
           after == Tried(r)
           runs == /\ ~Trips(sandbox, parents[r] \ heads) /\ ~Trips(before, {r})
                   /\ ~Raises(Upgrade(before, {r}), BelowIt(r))
           reversible == runs /\ Matches(before, after)
<1>1. /\ stage = "validate" /\ todo # {} /\ ~passed /\ unseen = {}
      /\ UNCHANGED <<parents, kind, command, real, seed, passed, moves, apart, unseen>>
  BY DEF ValidateRevision, MigrationInv, InOrder
<1>2. r \in todo /\ r \in Revs
  BY <1>1, MinIsLeast DEF MigrationInv, MigrationTypeOK
<1>3. /\ sandbox \in Databases /\ heads \subseteq Revs /\ kind \in [Revs -> Kinds]
      /\ ParentsFirst /\ todo \subseteq Revs /\ results \subseteq Revs
  BY <1>1 DEF MigrationInv, MigrationTypeOK, SandboxClean
<1>4. parents[r] \in SUBSET Revs /\ {r} \in SUBSET Revs
  BY <1>2, <1>3 DEF ParentsFirst
<1>5. before \in Databases /\ after \in Databases
  BY <1>3, <1>4, UpgradedDatabase, DowngradedDatabase DEF Prepared, Tried
<1>6. Upgrade(after, {r}) \in Databases /\ Upgrade(after, {r}).left = after.left
  BY <1>3, <1>4, <1>5, UpgradedDatabase
<1>7. /\ results' = IF reversible THEN results \cup {r} ELSE results
      /\ \/ /\ reversible /\ UNCHANGED stage /\ todo' = todo \ {r}
            /\ sandbox' = after \/ sandbox' = Upgrade(after, {r})
            /\ heads' = parents[r] \/ heads' = {r}
         \/ /\ stage' = "clean" /\ sandbox' = after /\ UNCHANGED <<heads, todo>>
  BY DEF ValidateRevision
<1>8. reversible => /\ kind[r] = "inverse" \/ (kind[r] = "leaves" /\ r \in sandbox.left)
                    /\ after.left = sandbox.left
  BY <1>2, <1>3, ReversibleIsWhatItSays
<1> HIDE DEF r, before, after, runs, reversible
<1>9. MigrationTypeOK'
  BY <1>1, <1>2, <1>3, <1>4, <1>5, <1>6, <1>7 DEF MigrationInv, MigrationTypeOK
<1>10. InOrder'
  BY <1>1, <1>7 DEF InOrder
<1>11. SandboxClean'
  BY <1>1, <1>5, <1>6, <1>7, <1>8 DEF MigrationInv, SandboxClean
<1>12. ResultsReversible'
  BY <1>1, <1>7, <1>8 DEF MigrationInv, SandboxClean, ResultsReversible
<1>13. stage' \in {"create", "validate"} /\ ~apart => Missing \subseteq results' \cup todo'
  BY <1>1, <1>7 DEF MigrationInv, PlanCovers
<1>14. QED
  BY <1>1, <1>9, <1>10, <1>11, <1>12, <1>13, CommandSteps

LEMMA VerdictKeeps ==
    ASSUME MigrationInv,
           CreateFails \/ AllValidated \/ CommandFails \/ DropSandbox \/ GiveVerdict
    PROVE  MigrationInv'
<1>1. /\ stage' \in {"done", "clean", "verdict"} /\ stage # "done"
      /\ UNCHANGED <<parents, kind, command, real, todo, seed, heads, results, moves, apart, unseen>>
      /\ sandbox' \in {sandbox, NoDb}
      /\ stage' = "clean" => stage = "validate"
      /\ stage' = "verdict" => stage = "clean"
      /\ \/ UNCHANGED passed
         \/ passed' = FALSE
         \/ stage = "validate" /\ todo = {} /\ stage' = "clean" /\ passed'
  BY DEF CreateFails, AllValidated, CommandFails, DropSandbox, GiveVerdict
<1>2. passed' \in BOOLEAN
  BY DEF MigrationInv, MigrationTypeOK, CreateFails, AllValidated, CommandFails, DropSandbox,
         GiveVerdict
<1>3. MigrationTypeOK'
  BY <1>1, <1>2 DEF MigrationInv, MigrationTypeOK
<1>4. InOrder' /\ SandboxClean' /\ ResultsReversible'
  BY <1>1 DEF MigrationInv, InOrder, SandboxClean, ResultsReversible
<1>5. /\ stage' \notin {"create", "validate"}
      /\ ~apart /\ passed' /\ stage' # "done" => Missing \subseteq results'
  BY <1>1 DEF MigrationInv, PlanCovers
<1>6. QED
  BY <1>1, <1>3, <1>4, <1>5, CommandSteps

LEMMA RealUpgradeKeeps ==
    ASSUME MigrationInv, RealUpgrade PROVE MigrationInv'
<1>1. /\ stage = "verdict" /\ passed /\ stage' = "done" /\ unseen = {}
      /\ UNCHANGED <<parents, kind, command, sandbox, todo, seed, heads, results, passed, moves,
                     apart>>
      /\ \/ /\ real' = Upgrade(real, Targets)
            /\ unseen' = Missing \ results
         \/ UNCHANGED <<real, unseen>>
  BY DEF RealUpgrade, MayProceed, Missing, MigrationInv, InOrder
<1>2. /\ ParentsFirst /\ real \in Databases /\ real.applied \in Histories /\ Targets \in SUBSET Revs
  BY TargetsAreRevisions DEF MigrationInv, MigrationTypeOK
<1>3. /\ real' \in Databases /\ real'.applied \in Histories /\ real'.left = real.left
  BY <1>1, <1>2, UpgradedHistory
<1>4. ParentsFirst' /\ CommandShape' /\ Histories' = Histories
  BY <1>1, GraphStays DEF MigrationInv
<1>5. ~apart => unseen' = {}
  BY <1>1 DEF MigrationInv, PlanCovers
<1>6. unseen' \subseteq Revs
  BY <1>1 DEF Missing, Closure, MigrationInv, MigrationTypeOK
<1>7. MigrationTypeOK'
  BY <1>1, <1>3, <1>6 DEF MigrationInv, MigrationTypeOK
<1>8. /\ InOrder' /\ SandboxClean' /\ ResultsReversible' /\ PlanCovers' /\ OnlyValidatedApplied'
  BY <1>1, <1>3, <1>5
  DEF MigrationInv, InOrder, SandboxClean, ResultsReversible, PlanCovers, OnlyValidatedApplied
<1>9. QED
  BY <1>3, <1>4, <1>7, <1>8 DEF MigrationInv

LEMMA OthersKeep ==
    ASSUME MigrationInv, NEW r \in Revs, ForcedUpgrade(r) \/ DowngradeReal(r)
    PROVE  MigrationInv'
<1>1. /\ moves' = moves + 1 /\ moves < MaxMoves /\ stage # "done"
      /\ apart' = (apart \/ stage # "start")
      /\ real' = Upgrade(real, {r}) \/ real' = Downgrade(real, r)
      /\ UNCHANGED <<parents, kind, command, sandbox, stage, todo, seed, heads, results, passed,
                     unseen>>
  BY DEF ForcedUpgrade, DowngradeReal
<1>2. /\ ParentsFirst /\ real \in Databases /\ real.applied \in Histories /\ {r} \in SUBSET Revs
  BY DEF MigrationInv, MigrationTypeOK
<1>3. /\ real' \in Databases /\ real'.applied \in Histories /\ real.left \subseteq real'.left
  <2>1. CASE real' = Upgrade(real, {r})
    BY <1>2, <2>1, UpgradedHistory
  <2>2. CASE real' = Downgrade(real, r)
    BY <1>2, <2>2, DowngradedDatabase, DowngradedHistory DEF Downgrade
  <2>3. QED
    BY <1>1, <2>1, <2>2
<1>4. ParentsFirst' /\ CommandShape' /\ Histories' = Histories
  BY <1>1, GraphStays DEF MigrationInv
<1>5. moves' \in 0..MaxMoves /\ apart' \in BOOLEAN
  BY <1>1, MigrationAssumption DEF MigrationInv, MigrationTypeOK
<1>6. MigrationTypeOK'
  BY <1>1, <1>3, <1>5 DEF MigrationInv, MigrationTypeOK
<1>7. InOrder' /\ SandboxClean' /\ ResultsReversible'
  BY <1>1, <1>3 DEF MigrationInv, InOrder, SandboxClean, ResultsReversible
<1>8. PlanCovers' /\ OnlyValidatedApplied'
  BY <1>1 DEF MigrationInv, InOrder, PlanCovers, OnlyValidatedApplied
<1>9. QED
  BY <1>3, <1>4, <1>6, <1>7, <1>8 DEF MigrationInv

LEMMA MigrationStep ==
    ASSUME MigrationInv, [MigrationNext]_migrationVars PROVE MigrationInv'
<1>1. CASE MigrationNext
  BY <1>1, PlansKeep, CreateKeeps, ValidateKeeps, VerdictKeeps, RealUpgradeKeeps, OthersKeep
  DEF MigrationNext
<1>2. CASE UNCHANGED migrationVars
  <2>1. UNCHANGED <<parents, kind, command, real, sandbox, stage, todo, seed, heads, results,
                    passed, moves, apart, unseen>>
    BY <1>2 DEF migrationVars
  <2>2. MigrationTypeOK' /\ InOrder' /\ SandboxClean' /\ ResultsReversible'
    BY <2>1 DEF MigrationInv, MigrationTypeOK, InOrder, SandboxClean, ResultsReversible
  <2>3. QED
    BY <2>1, <2>2, CommandSteps DEF MigrationInv, PlanCovers
<1>3. QED
  BY <1>1, <1>2

LEMMA MigrationInductive == MigrationSpec => []MigrationInv
BY MigrationInitially, MigrationStep, PTL DEF MigrationSpec

-----------------------------------------------------------------------------
(* Type correctness of the histories, the databases and the command, for   *)
(* any number of revisions.                                                *)
THEOREM MigrationTypes == MigrationSpec => []MigrationTypeOK
BY MigrationInductive, PTL DEF MigrationInv

(* validate_revisions and the real upgrade: what a validation of a target  *)
(* ahead of the database passed can be undone, and nothing is applied that *)
(* no validation saw, unless somebody else moved the database meanwhile.   *)
THEOREM VerdictIsHonest == MigrationSpec => []VerdictHonest
<1>1. MigrationInv => VerdictHonest
  BY DEF MigrationInv, ResultsReversible, VerdictHonest, PassedMeansReversible
<1>2. QED
  BY <1>1, MigrationInductive, PTL

==============================================================================
