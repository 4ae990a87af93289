-------------------------------- MODULE Subset --------------------------------
(***************************************************************************)
(* A referentially complete subset: the plan `bauta subset` makes of a     *)
(* root table's rows and every row they need (generate/subset.py), the     *)
(* jobs it drafts, run parents first, and `bauta clear`, which empties the *)
(* copy before another (generate/schema.py).                               *)
(*                                                                         *)
(* A key's columns are one reference, by the primary key or by a UNIQUE    *)
(* column of a row or, with a NULL among them, to none.  Nothing checks    *)
(* keys in the copy, so that what the order of the jobs and of the         *)
(* clearing keeps is theirs.  The source is not written to while a run     *)
(* reads it, as the documentation asks.                                    *)
(***************************************************************************)
EXTENDS Naturals, FiniteSets, SequencesExt

CONSTANTS
  Tables,   \* the tables of the schema
  Root,     \* --root
  Requests, \* what `subset` may be asked, and of which schema, see Request
  Ids,      \* the values of a column another row refers by
  None,     \* NULL in such a column
  MaxDepth, \* MAX_SELECTION_DEPTH
  MaxRows,  \* bound: the rows of the source
  MaxRuns   \* bound: the runs of the jobs

PrimaryKey == "primary key"

(* A foreign key of `table`, to the primary key or to a UNIQUE column; the *)
(* name tells apart two of the same tables.                                *)
ForeignKey == [name : STRING, table : Tables, referencedTable : Tables, referencedColumn : STRING]

(* The target's keys are those it declares, of whichever the source has:   *)
(* all, none with --no-foreign-keys, or the ignored ones too.  commitEach  *)
(* is its dialect's: DuckDB does not see a transaction's own deletes when  *)
(* it checks keys.                                                         *)
Request == [foreignKeys : SUBSET ForeignKey, ignore : SUBSET ForeignKey, declared : SUBSET ForeignKey,
            followChildren : BOOLEAN, materialize : BOOLEAN, commitEach : BOOLEAN]

ASSUME RequestsAssumption ==
  /\ Root \in Tables /\ IsFiniteSet(Tables) /\ MaxDepth \in Nat
  /\ Requests \subseteq Request
  /\ \A r \in Requests : IsFiniteSet(r.foreignKeys) /\ r.ignore \subseteq r.foreignKeys

VARIABLES
  asked,    \* the request
  step,     \* what is being done: "plan", "refused", "idle", "run" or "clear"
  plan,     \* the SubsetPlan, once there is one
  runs,     \* how many runs have begun
  source,   \* the rows of the source, of every table
  target,   \* and of the copy
  phase,    \* [Tables -> Phase]: each drafted job's
  unwritten, \* [Tables -> SUBSET rows]: what its query returned that is not yet written
  clearing  \* the tables `clear` has left to empty

vars == <<asked, step, plan, runs, source, target, phase, unwritten, clearing>>

Phase == {"waiting", "running", "completed", "failed", "skipped"}

KeysOf(t) == {k \in asked.foreignKeys : k.table = t}

(* SQL's truth of --where, for a row of the root. *)
Truth == {"true", "false", "null"}

(* The UNIQUE columns of a table that keys reference. *)
UniqueColumns(t) == {k.referencedColumn : k \in {q \in asked.foreignKeys : q.referencedTable = t}} \ {PrimaryKey}

Rows(t) == [table : {t}, id : Ids, unique : [UniqueColumns(t) -> Ids \cup {None}],
            refs : [KeysOf(t) -> Ids \cup {None}], where : IF t = Root THEN Truth ELSE {"true"}]

In(rows, t) == {r \in rows : r.table = t}

(* What a row of the referenced table is referred to by. *)
Referenced(k, p) == IF k.referencedColumn = PrimaryKey THEN p.id ELSE p.unique[k.referencedColumn]

Refers(r, k, p) == p.table = k.referencedTable /\ r.refs[k] # None /\ r.refs[k] = Referenced(k, p)

-------------------------------------------------------------------------------
(* The plan *)

Followed == asked.foreignKeys \ asked.ignore

ParentKeys(t) == {k \in Followed : k.table = t}
ChildKeys(t) == {k \in Followed : k.referencedTable = t}

Parents == [t \in Tables |-> {k.referencedTable : k \in ParentKeys(t)}]
Children == [t \in Tables |-> {k.table : k \in ChildKeys(t)}]

(* The least set that has S and what each of its members leads to.         *)
Reach(edges, S) ==
  {x \in DOMAIN edges : \A T \in SUBSET DOMAIN edges : S \subseteq T /\ (\A y \in T : edges[y] \subseteq T) => x \in T}

Down == IF asked.followChildren THEN Reach(Children, {Root}) ELSE {Root}

Included == Reach(Parents, Down)

(* findCycle, of the included tables. *)
HasCycle == \E t \in Included : t \in Reach(Parents, Parents[t])

(* Parents before children; among tables alike, the order shows only in    *)
(* what is printed.                                                        *)
IsTopologicalOrder(order, parents) ==
  \A i, j \in DOMAIN order : order[j] \in parents[order[i]] => j < i

(* A table has a selection of its rows taken on the way down, and one of   *)
(* those kept.  A row meets a condition for what it is, for what it refers *)
(* to, or for what refers to it.                                           *)
Selection(way, t) == [way |-> way, table |-> t]
Where == [why |-> "where"]
RefersTo(k) == [why |-> "refersTo", key |-> k, of |-> Selection("down", k.referencedTable)]
ReferredToBy(k) == [why |-> "referredToBy", key |-> k, of |-> Selection("kept", k.table)]

DownConditions(t) ==
  IF t = Root THEN <<Where>>
  ELSE SetToSeq({RefersTo(k) : k \in {q \in ParentKeys(t) : q.referencedTable \in Down}})

KeptConditions(t) ==
  (IF t \in Down THEN DownConditions(t) ELSE <<>>)
    \o SetToSeq({ReferredToBy(k) : k \in {q \in ChildKeys(t) : q.table \in Included}})

(* Selections are defined one after another, this one as the at-th.        *)
Define(at, way, t, conditions) == [at |-> at, selection |-> Selection(way, t), conditions |-> conditions]

(* Parents first on the way down, children first for what is kept.         *)
Definitions(order) ==
  {Define(i, "down", order[i], DownConditions(order[i])) : i \in {j \in DOMAIN order : order[j] \in Down}}
    \cup {Define(2 * Len(order) + 1 - i, "kept", order[i], KeptConditions(order[i])) : i \in DOMAIN order}

(* The selections a definition names. *)
Named(definition) == {c.of : c \in {d \in ToSet(definition.conditions) : d.why # "where"}}

(* [selections -> those its definition names] *)
Dependencies(definitions) ==
  [s \in {d.selection : d \in definitions} |-> UNION {Named(d) : d \in {e \in definitions : e.selection = s}}]

Deepest(definitions) ==
  LET dependencies == Dependencies(definitions)
      depth[s \in DOMAIN dependencies] == 1 + Max({0} \cup {depth[d] : d \in dependencies[s]})
  IN Max({0} \cup {depth[s] : s \in DOMAIN dependencies})

(* The definitions a query begins with: of the selections it needs.        *)
With(definitions, name) == {d \in definitions : d.selection \in Reach(Dependencies(definitions), {name})}

-------------------------------------------------------------------------------
(* What a query of the plan returns *)

Holds(condition, r, values) ==
  CASE condition.why = "where"        -> r.where
    [] condition.why = "refersTo"     -> IF \E p \in values[condition.of] : Refers(r, condition.key, p) THEN "true" ELSE "false"
    [] condition.why = "referredToBy" -> IF \E c \in values[condition.of] : Refers(c, condition.key, r) THEN "true" ELSE "false"

IsExists(condition) == condition.why # "where"

EarlierWhereFirst(conditions, j, i) ==  \* mutant: the user's filter is the first branch, and negated after
  IF IsExists(conditions[j]) = IsExists(conditions[i]) THEN j < i ELSE IsExists(conditions[i])

(* The branches of a UNION ALL, a user's filter last: each leaves out what *)
(* an EXISTS before it took, by its negation, which is true of no row      *)
(* where --where is NULL.                                                  *)
Earlier(conditions, j, i) == IsExists(conditions[j]) /\ (j < i \/ ~IsExists(conditions[i]))

IsBranchTaken(conditions, i, r, values) ==
  /\ Holds(conditions[i], r, values) = "true"
  /\ \A j \in DOMAIN conditions : Earlier(conditions, j, i) => Holds(conditions[j], r, values) = "false"

(* How often a selection returns a row of its table.                       *)
Times(conditions, r, values) ==
  IF Len(conditions) = 1 \/ ~asked.materialize
  THEN IF \E i \in DOMAIN conditions : Holds(conditions[i], r, values) = "true" THEN 1 ELSE 0
  ELSE Cardinality({i \in DOMAIN conditions : IsBranchTaken(conditions, i, r, values)})

NoValues == [s \in {Selection(way, t) : way \in {"down", "kept"}, t \in Tables} |-> {}]

(* Each selection's rows, from the first on; one that is named before it   *)
(* is defined has none, where a database would refuse the query.           *)
Value(values, definition) ==
  [values EXCEPT ![definition.selection] =
     {r \in In(source, definition.selection.table) : Times(definition.conditions, r, values) > 0}]

Values(query) ==
  LET last == 2 * Len(plan.tables)
      values[i \in 0..last] ==
        IF i = 0 THEN NoValues
        ELSE IF \E d \in query : d.at = i THEN Value(values[i - 1], CHOOSE d \in query : d.at = i)
        ELSE values[i - 1]
  IN values[last]

KeptDefinition(t) == CHOOSE d \in plan.queries[t] : d.selection = Selection("kept", t)

Query(t) == Values(plan.queries[t])[Selection("kept", t)]

-------------------------------------------------------------------------------
(* `bauta subset` *)

Init ==
  /\ asked \in Requests
  /\ step = "plan"
  /\ plan = [tables |-> <<>>, queries |-> <<>>, parents |-> <<>>]
  /\ runs = 0
  /\ source = {}
  /\ target = {}
  /\ phase = [t \in Tables |-> "waiting"]
  /\ unwritten = [t \in Tables |-> {}]
  /\ clearing = <<>>

PlanSubset ==
  /\ step = "plan"
  /\ IF HasCycle
     THEN step' = "refused" /\ UNCHANGED plan
     ELSE \E order \in SetToSeqs(Included) :
            LET definitions == Definitions(order)
            IN /\ IsTopologicalOrder(order, Parents)
               /\ IF Deepest(definitions) > MaxDepth
                  THEN step' = "refused" /\ UNCHANGED plan
                  ELSE /\ step' = "idle"
                       /\ plan' = [tables |-> order,
                                   queries |-> [t \in Included |-> With(definitions, Selection("kept", t))],
                                   parents |-> [t \in Included |-> Parents[t] \cap Included]]
  /\ UNCHANGED <<asked, runs, source, target, phase, unwritten, clearing>>

-------------------------------------------------------------------------------
(* The source, between runs, whose own keys are all kept *)

Consistent(rows) ==
  /\ \A p, q \in rows :
       p.table = q.table /\ p # q =>
         p.id # q.id /\ \A c \in UniqueColumns(p.table) : p.unique[c] = None \/ p.unique[c] # q.unique[c]
  /\ \A r \in rows : \A k \in KeysOf(r.table) : r.refs[k] = None \/ \E p \in rows : Refers(r, k, p)

Idle == step = "idle" /\ runs < MaxRuns

(* The tables with keys among them, which are all that a subset can reach. *)
Related == {Root} \cup UNION {{k.table, k.referencedTable} : k \in asked.foreignKeys}

(* A row is inserted, or changed, in any way but its primary key: in the   *)
(* UNIQUE columns other rows refer by, too.                                *)
Write(t) ==
  /\ Idle
  /\ \E r \in Rows(t) :
       /\ source' = {q \in source : ~(q.table = t /\ q.id = r.id)} \cup {r}
       /\ source' # source
       /\ Cardinality(source') <= MaxRows
       /\ Consistent(source')
  /\ UNCHANGED <<asked, step, plan, runs, target, phase, unwritten, clearing>>

Delete(r) ==
  /\ Idle
  /\ source' = source \ {r}
  /\ Consistent(source')
  /\ UNCHANGED <<asked, step, plan, runs, target, phase, unwritten, clearing>>

-------------------------------------------------------------------------------
(* `bauta run`: a job per table, after those of the tables it references *)

PlanTables == ToSet(plan.tables)

StartRun ==
  /\ Idle
  /\ step' = "run"
  /\ runs' = runs + 1
  /\ UNCHANGED <<asked, plan, source, target, phase, unwritten, clearing>>

StartsAfterItsFirst(t) == plan.parents[t] = {} \/ \E p \in plan.parents[t] : phase[p] = "completed"  \* mutant: one parent is enough

MayStart(t) == \A p \in plan.parents[t] : phase[p] = "completed"

(* A job reads its table at one moment. *)
Start(t) ==
  /\ step = "run" /\ phase[t] = "waiting"
  /\ MayStart(t)
  /\ phase' = [phase EXCEPT ![t] = "running"]
  /\ unwritten' = [unwritten EXCEPT ![t] = Query(t)]
  /\ UNCHANGED <<asked, step, plan, runs, source, target, clearing>>

Skip(t) ==
  /\ step = "run" /\ phase[t] = "waiting"
  /\ \E p \in plan.parents[t] : phase[p] \in {"failed", "skipped"}
  /\ phase' = [phase EXCEPT ![t] = "skipped"]
  /\ UNCHANGED <<asked, step, plan, runs, source, target, unwritten, clearing>>

(* The drafted jobs upsert by primary key, with no stage: a row's UNIQUE   *)
(* columns become what the source has now.                                 *)
Upsert(r) ==
  /\ step = "run"
  /\ r \in unwritten[r.table]
  /\ target' = {q \in target : ~(q.table = r.table /\ q.id = r.id)} \cup {r}
  /\ unwritten' = [unwritten EXCEPT ![r.table] = @ \ {r}]
  /\ UNCHANGED <<asked, step, plan, runs, source, phase, clearing>>

Complete(t) ==
  /\ step = "run" /\ phase[t] = "running" /\ unwritten[t] = {}
  /\ phase' = [phase EXCEPT ![t] = "completed"]
  /\ UNCHANGED <<asked, step, plan, runs, source, target, unwritten, clearing>>

(* A retry reads again, over what the attempt before it wrote.             *)
Retry(t) ==
  /\ step = "run" /\ phase[t] = "running"
  /\ unwritten' = [unwritten EXCEPT ![t] = Query(t)]
  /\ UNCHANGED <<asked, step, plan, runs, source, target, phase, clearing>>

Fail(t) ==
  /\ step = "run" /\ phase[t] = "running"
  /\ phase' = [phase EXCEPT ![t] = "failed"]
  /\ unwritten' = [unwritten EXCEPT ![t] = {}]
  /\ UNCHANGED <<asked, step, plan, runs, source, target, clearing>>

(* Every job is decided, or the run is killed with its jobs.               *)
EndRun ==
  /\ step = "run"
  /\ step' = "idle"
  /\ phase' = [t \in Tables |-> "waiting"]
  /\ unwritten' = [t \in Tables |-> {}]
  /\ UNCHANGED <<asked, plan, runs, source, target, clearing>>

-------------------------------------------------------------------------------
(* `bauta clear`: children first, of the keys the target declares          *)

DeclaredParents == [t \in Tables |-> {k.referencedTable : k \in {q \in asked.declared : q.table = t}}]

(* orderParentsFirst, in which a table's references to itself do not count,*)
(* reversed.                                                               *)
IsClearOrder(order) == IsTopologicalOrder(Reverse(order), [t \in Tables |-> DeclaredParents[t] \ {t}])

(* In one transaction, or one per table; keys in a cycle are refused.      *)
StartClear ==
  /\ Idle /\ runs > 0
  /\ \E order \in SetToSeqs(PlanTables) :
       /\ IsClearOrder(order)
       /\ IF asked.commitEach
          THEN step' = "clear" /\ clearing' = order /\ UNCHANGED target
          ELSE target' = {r \in target : r.table \notin PlanTables} /\ UNCHANGED <<step, clearing>>
  /\ UNCHANGED <<asked, plan, runs, source, phase, unwritten>>

ClearTable ==
  /\ step = "clear" /\ clearing # <<>>
  /\ target' = {r \in target : r.table # Head(clearing)}
  /\ clearing' = Tail(clearing)
  /\ UNCHANGED <<asked, step, plan, runs, source, phase, unwritten>>

(* Every table is empty, or the command is stopped. *)
EndClear ==
  /\ step = "clear"
  /\ step' = "idle"
  /\ clearing' = <<>>
  /\ UNCHANGED <<asked, plan, runs, source, target, phase, unwritten>>

Next ==
  \/ PlanSubset
  \/ \E t \in Related : Write(t)
  \/ \E r \in source : Delete(r)
  \/ StartRun
  \/ \E t \in PlanTables : Start(t) \/ Skip(t) \/ Complete(t) \/ Retry(t) \/ Fail(t)
  \/ \E t \in PlanTables : \E r \in unwritten[t] : Upsert(r)
  \/ EndRun
  \/ StartClear \/ ClearTable \/ EndClear

Spec == Init /\ [][Next]_vars

-------------------------------------------------------------------------------
(* Properties *)

ReferredTo == [r \in source |-> {p \in source : \E k \in ParentKeys(r.table) : Refers(r, k, p)}]
ReferringTo == [p \in source |-> {r \in source : \E k \in ParentKeys(r.table) : Refers(r, k, p)}]

(* The subset, as the documentation describes it: the root's rows the      *)
(* filter is true of, with all that reference them, and then all that      *)
(* those reference.                                                        *)
Chosen == {r \in In(source, Root) : r.where = "true"}
OnTheWayDown == IF asked.followChildren THEN Reach(ReferringTo, Chosen) ELSE Chosen
TheSubset == Reach(ReferredTo, OnTheWayDown)

(* The plan's queries return the rows of the subset, each of them once, of *)
(* every source: through composite and repeated keys, tables reached both  *)
(* ways, and filters that are NULL, with branches or without.              *)
QueriesAreTheSubset ==
  step = "idle" =>
    LET subset == TheSubset
    IN /\ \A r \in subset : r.table \in PlanTables
       /\ \A t \in PlanTables :
            LET values == Values(plan.queries[t])
                conditions == KeptDefinition(t).conditions
            IN \A r \in In(source, t) : Times(conditions, r, values) = IF r \in subset THEN 1 ELSE 0

(* What verify-references counts. *)
Orphans(k) ==
  {r \in In(target, k.table) : r.refs[k] # None /\ ~\E p \in target : Refers(r, k, p)}

(* An upsert gives p a new value in the UNIQUE column rows refer to it by. *)
Rewrites(k, p) ==
  /\ k.referencedColumn # PrimaryKey
  /\ \E q \in target' : q.table = p.table /\ q.id = p.id /\ Referenced(k, q) # Referenced(k, p)

(* No row is loaded that points at nothing, and no row of the copy comes   *)
(* to point at nothing: while jobs of several tables load beside each      *)
(* other, when one fails and those after it are skipped, when a run or a   *)
(* clear is cut short, and when a subset is loaded over an earlier one.    *)
(* But for two that the code leaves open: a row that referred by a UNIQUE  *)
(* value which the row it referred to has no more, until that row is       *)
(* loaded again; and, where a clear commits each table, one whose key the  *)
(* copy does not declare, of which the order of clearing knows nothing.    *)
NothingDangles ==
  [][\A k \in Followed : \A r \in Orphans(k)' :
       /\ ~Upsert(r)
       /\ \/ r \in Orphans(k)
          \/ \E p \in target : Refers(r, k, p) /\ (Rewrites(k, p) \/ (ClearTable /\ k \notin asked.declared))]_vars
===============================================================================
