------------------------ MODULE MigrationValidation ------------------------
(***************************************************************************)
(* python -m run.migration upgrade|test|downgrade: before an upgrade, every *)
(* new revision is upgraded, downgraded and compared in a throw-away        *)
(* database.  Revisions are numbered in the order Alembic walks them, which *)
(* their identifiers (dates) follow; revision 1 is the only base.           *)
(***************************************************************************)
EXTENDS Naturals, FiniteSets, FiniteSetsExt

CONSTANTS
    LastRev,    \* number of revisions
    Faulty,     \* at most this many of them do not downgrade cleanly
    MaxMoves,   \* bound on what other operators do to the real database
    NoDb        \* no sandbox database

ASSUME MigrationAssumption == LastRev \in Nat \ {0} /\ MaxMoves \in Nat

Revs == 1..LastRev
\* What a revision's downgrade() does: undoes its upgrade(), leaves something that
\* a second upgrade() copes with, or trips over, or raises.
Kinds == {"inverse", "leaves", "clashes", "raises"}

VARIABLES
    parents,    \* down_revision of every revision
    kind,       \* what its downgrade() is worth
    command,    \* target "all", "head" or "revision" rev, and whether to execute it
    real,       \* the real database: applied revisions, and leftovers of downgrades
    sandbox,    \* the same of the validation database, or NoDb
    stage,       \* where the command is
    todo,       \* revisions still to validate
    seed,       \* the frontier the sandbox is first downgraded to
    heads,      \* current_heads of the validator
    results,    \* revisions found reversible
    passed,     \* the verdict so far
    moves,      \* what other operators did to the real database
    apart,      \* history: they did it after the command had read it
    unseen      \* history: revisions the last real upgrade applied without validation

migrationVars == <<parents, kind, command, real, sandbox, stage, todo, seed, heads, results,
                   passed, moves, apart, unseen>>

-----------------------------------------------------------------------------
(* MigrationGraph and its helpers *)

\* Sets of revisions that have everything below what they have, in graph g.
HistoriesOf(g) == {T \in SUBSET Revs : \A r \in T : g[r] \subseteq T}
Histories == HistoriesOf(parents)

\* _ancestor_closure: the least history with all of S.
Closure(S) == {r \in Revs : \A T \in Histories : S \subseteq T => r \in T}

\* _group_children_by_parent_revision
Children(r) == {c \in Revs : r \in parents[c]}

IsBranchPoint(r) == Cardinality(Children(r)) > 1
IsMergePoint(r) == Cardinality(parents[r]) > 1

\* _find_revisions_pending_merge: from every child of a branch point down to the merge,
\* or to where the line ends or branches again.
PendingMerge ==
    LET line[r \in Revs] ==
            {r} \cup IF IsMergePoint(r) \/ Cardinality(Children(r)) # 1 THEN {}
                     ELSE line[CHOOSE c \in Children(r) : TRUE]
    IN  UNION {line[c] : c \in UNION {Children(r) : r \in {q \in Revs : IsBranchPoint(q)}}}

\* _frontier_of: also what Alembic's version table lists.
Frontier(S) == {r \in S : Children(r) \cap S = {}}

\* All graphs with one base, whose merges join two unrelated revisions.
Graphs ==
    {g \in [Revs -> SUBSET Revs] : \A r \in Revs :
        /\ g[r] \subseteq 1..(r - 1)
        /\ Cardinality(g[r]) \in IF r = 1 THEN {0} ELSE {1, 2}
        /\ \A p, q \in g[r] : p # q => \E T \in HistoriesOf(g) : q \in T /\ p \notin T}

-----------------------------------------------------------------------------
(* Alembic and PostgreSQL *)

\* alembic upgrade: what is missing below the targets.
Upgrade(db, S) == [db EXCEPT !.applied = @ \cup Closure(S)]
Trips(db, S) == \E r \in Closure(S) \ db.applied : r \in db.left /\ kind[r] = "clashes"

\* alembic downgrade p: everything that descends from p, on every branch.
Undone(db, p) == {r \in db.applied \ {p} : p = 0 \/ p \in Closure({r})}
Downgrade(db, p) ==
    [applied |-> db.applied \ Undone(db, p),
     left    |-> db.left \cup {r \in Undone(db, p) : kind[r] \in {"leaves", "clashes"}}]
Raises(db, p) == \E r \in Undone(db, p) : kind[r] = "raises"

\* pg_dump --schema-only without the version table.
Schema(db) == <<db.applied, db.left \cup {r \in db.applied : kind[r] \in {"leaves", "clashes"}}>>

Matches(before, after) == Schema(before) = Schema(after)

-----------------------------------------------------------------------------
Commands == [target: {"all", "head", "revision"}, rev: Revs \cup {0}, execute: BOOLEAN]

MigrationInit ==
    /\ parents \in Graphs
    /\ kind \in {k \in [Revs -> Kinds] : Cardinality({r \in Revs : k[r] # "inverse"}) <= Faulty}
    /\ command \in {c \in Commands : (c.target = "all" => ~c.execute) /\ (c.rev = 0) = (c.target # "revision")}
    /\ \E S \in Histories : real = [applied |-> S, left |-> {}]
    /\ sandbox = NoDb
    /\ stage = "start"
    /\ todo = {} /\ seed = {} /\ heads = {} /\ results = {}
    /\ passed = FALSE
    /\ moves = 0
    /\ apart = FALSE
    /\ unseen = {}

\* What is to be validated, from where.
Plan(work, from, current) ==
    /\ todo' = work /\ seed' = from /\ heads' = current
    /\ stage' = "create"
    /\ UNCHANGED <<passed>>

Refuse ==
    /\ stage' = "done"
    /\ UNCHANGED <<todo, seed, heads, passed>>

\* validate(): the whole history on an empty database.
PlanAll ==
    /\ stage = "start" /\ command.target = "all"
    /\ Plan(Revs, {}, {})
    /\ UNCHANGED <<parents, kind, command, real, sandbox, results, moves, apart, unseen>>

\* validate(only_new=True); a database that was never migrated is an error.
PlanHead ==
    /\ stage = "start" /\ command.target = "head"
    /\ IF real.applied = {} THEN Refuse
       ELSE Plan(Revs \ real.applied, {}, Frontier(real.applied))
    /\ UNCHANGED <<parents, kind, command, real, sandbox, results, moves, apart, unseen>>

\* validate_against_revision(), for a target ahead of the database, or behind it: then
\* everything above the part of the history no branch is pending in.
PlanTarget ==
    LET t == command.rev
        current == Frontier(real.applied)
        trunk == Closure({t}) \ PendingMerge
    IN  /\ stage = "start" /\ command.target = "revision"
        /\ IF real.applied = {} THEN Refuse
           ELSE IF current = {t} THEN
                /\ passed' = TRUE
                /\ stage' = "verdict"
                /\ UNCHANGED <<todo, seed, heads>>
           ELSE IF t \in real.applied THEN Plan(Revs \ trunk, Frontier(trunk), Frontier(trunk))
           ELSE IF current \subseteq Closure({t})
                THEN Plan(Closure({t}) \ real.applied, {}, current)
           ELSE Refuse
        /\ UNCHANGED <<parents, kind, command, real, sandbox, results, moves, apart, unseen>>

\* No CREATE DATABASE permission, or the server refuses: nothing was created.
CreateFails ==
    /\ stage \in {"start", "create"}
    /\ stage' = "done"
    /\ UNCHANGED <<parents, kind, command, real, sandbox, todo, seed, heads, results, passed,
                   moves, apart, unseen>>

\* The sandbox is created and, unless the whole history is tested, cloned from the real
\* database; behind the target, it is downgraded to the seed.  (The clone's version table
\* gets the heads that were read at the start: if somebody moved the database since then,
\* they do not belong to its schema, and commands fail on what is there or missing.)
CreateSandbox ==
    LET clone == IF command.target = "all" THEN [applied |-> {}, left |-> {}] ELSE real
        first == Min(seed)
        down == Downgrade(clone, first)
    IN  /\ stage = "create"
        /\ IF seed = {} THEN sandbox' = clone /\ stage' = "validate"
           ELSE IF Raises(clone, first) \/ Trips(down, seed \ {first})
                THEN sandbox' = down /\ stage' = "clean"
           ELSE sandbox' = Upgrade(down, seed \ {first}) /\ stage' = "validate"
        /\ UNCHANGED <<parents, kind, command, real, todo, seed, heads, results, passed, moves, apart,
                       unseen>>

\* The parents are prepared; then _check_reversibility: up and down again, between dumps.
Prepared(r) == Upgrade(sandbox, parents[r] \ heads)
BelowIt(r) == IF parents[r] = {} THEN 0 ELSE Min(parents[r])
Tried(r) == Downgrade(Upgrade(Prepared(r), {r}), BelowIt(r))

\* _validate_revision: a revision that is reversible is applied for good unless a merge
\* is pending.
ValidateRevision ==
    LET r == Min(todo)
        before == Prepared(r)
        after == Tried(r)
        pending == r \in PendingMerge
        runs == /\ ~Trips(sandbox, parents[r] \ heads) /\ ~Trips(before, {r})
                /\ ~Raises(Upgrade(before, {r}), BelowIt(r))
        reversible == runs /\ Matches(before, after)
    IN  /\ stage = "validate" /\ todo # {}
        /\ results' = IF reversible THEN results \cup {r} ELSE results
        /\ IF reversible /\ (pending \/ ~Trips(after, {r}))
           THEN /\ sandbox' = IF pending THEN after ELSE Upgrade(after, {r})
                /\ heads' = IF pending THEN parents[r] ELSE {r}
                /\ todo' = todo \ {r}
                /\ UNCHANGED stage
           ELSE /\ sandbox' = after
                /\ stage' = "clean"
                /\ UNCHANGED <<heads, todo>>
        /\ UNCHANGED <<parents, kind, command, real, seed, passed, moves, apart, unseen>>

AllValidated ==
    /\ stage = "validate" /\ todo = {}
    /\ passed' = TRUE
    /\ stage' = "clean"
    /\ UNCHANGED <<parents, kind, command, real, sandbox, todo, seed, heads, results, moves, apart, unseen>>

\* A command that cannot reach the server: a validation failure, or an exception of pg_dump.
CommandFails ==
    /\ stage = "validate"
    /\ stage' = "clean"
    /\ UNCHANGED <<parents, kind, command, real, sandbox, todo, seed, heads, results, passed,
                   moves, apart, unseen>>

\* finally: the sandbox is dropped; one that cannot be dropped turns the verdict.
DropSandbox ==
    /\ stage = "clean"
    /\ \/ sandbox' = NoDb /\ UNCHANGED passed
       \/ passed' = FALSE /\ UNCHANGED sandbox
    /\ stage' = "verdict"
    /\ UNCHANGED <<parents, kind, command, real, todo, seed, heads, results, moves, apart, unseen>>

GiveVerdict ==
    /\ stage = "verdict" /\ ~(passed /\ command.execute)
    /\ stage' = "done"
    /\ UNCHANGED <<parents, kind, command, real, sandbox, todo, seed, heads, results, passed,
                   moves, apart, unseen>>

\* What alembic upgrade is given: "head" is refused when there are several.
Targets ==
    IF command.target = "revision" THEN {command.rev}
    ELSE IF Cardinality(Frontier(Revs)) = 1 THEN Frontier(Revs) ELSE {}

\* Mutant: the real upgrade does not wait for the verdict.
Anyway(verdict) == TRUE

MayProceed(verdict) == verdict

\* _run_real_upgrade, in one transaction.
RealUpgrade ==
    /\ stage = "verdict" /\ command.execute /\ MayProceed(passed)
    /\ \/ /\ ~Trips(real, Targets)
          /\ real' = Upgrade(real, Targets)
          /\ unseen' = (Closure(Targets) \ real.applied) \ results
       \/ UNCHANGED <<real, unseen>>
    /\ stage' = "done"
    /\ UNCHANGED <<parents, kind, command, sandbox, todo, seed, heads, results, passed, moves, apart>>

\* Meanwhile: upgrade --force and downgrade of another operator.
ForcedUpgrade(r) ==
    /\ moves < MaxMoves /\ stage # "done"
    /\ r \notin real.applied /\ ~Trips(real, {r})
    /\ real' = Upgrade(real, {r})
    /\ moves' = moves + 1
    /\ apart' = (apart \/ stage # "start")
    /\ UNCHANGED <<parents, kind, command, sandbox, stage, todo, seed, heads, results, passed, unseen>>

DowngradeReal(r) ==
    /\ moves < MaxMoves /\ stage # "done"
    /\ Undone(real, r) # {} /\ r \in real.applied /\ ~Raises(real, r)
    /\ real' = Downgrade(real, r)
    /\ moves' = moves + 1
    /\ apart' = (apart \/ stage # "start")
    /\ UNCHANGED <<parents, kind, command, sandbox, stage, todo, seed, heads, results, passed, unseen>>

MigrationNext ==
    \/ PlanAll \/ PlanHead \/ PlanTarget \/ CreateFails \/ CreateSandbox
    \/ ValidateRevision \/ AllValidated \/ CommandFails \/ DropSandbox \/ GiveVerdict
    \/ RealUpgrade
    \/ \E r \in Revs : ForcedUpgrade(r) \/ DowngradeReal(r)

MigrationSpec == MigrationInit /\ [][MigrationNext]_migrationVars

-----------------------------------------------------------------------------
Databases == [applied: SUBSET Revs, left: SUBSET Revs]

MigrationTypeOK ==
    /\ parents \in [Revs -> SUBSET Revs]
    /\ kind \in [Revs -> Kinds]
    /\ command \in Commands
    /\ real \in Databases
    /\ sandbox \in Databases \cup {NoDb}
    /\ stage \in {"start", "create", "validate", "clean", "verdict", "done"}
    /\ todo \subseteq Revs /\ seed \subseteq Revs /\ heads \subseteq Revs /\ results \subseteq Revs
    /\ passed \in BOOLEAN
    /\ moves \in 0..MaxMoves
    /\ apart \in BOOLEAN
    /\ unseen \subseteq Revs

\* A validation that passes means what it says: each revision it went through has a
\* downgrade() that undoes its upgrade(), or had already left its traces in the real
\* database that was cloned. (Behind the target nothing is promised: the sandbox was
\* downgraded through the same revisions first, and what that left is in both dumps.)
PassedMeansReversible ==
    passed /\ seed = {} => \A r \in results :
        kind[r] = "inverse" \/ (kind[r] = "leaves" /\ r \in real.left)

\* If nobody else touched the real database once the command had read it, an upgrade
\* applies no revision that was not validated, whatever the shape of the history.
OnlyValidatedApplied == ~apart => unseen = {}

\* What an operator relies on when upgrade says "completed", over every history of the
\* given size, faults of downgrade() included.
VerdictHonest == PassedMeansReversible /\ OnlyValidatedApplied

\* migration_test.py prints of a revision whose dumps differ that its "upgrade() and
\* downgrade() are not structural inverses". Such a revision has a downgrade() that is
\* not, or needs one that is not.
AlarmsAreTrue ==
    stage = "validate" /\ todo # {} /\ ~Matches(Prepared(Min(todo)), Tried(Min(todo))) =>
        \E r \in Closure({Min(todo)}) : kind[r] # "inverse"

=============================================================================
