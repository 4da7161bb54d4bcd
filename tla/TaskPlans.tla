----------------------------- MODULE TaskPlans -----------------------------
(***************************************************************************)
(* tasks/model.ts: a plan of paid steps whose inputs may refer to outputs  *)
(* of earlier steps.  createTaskPlan accepts it before any output exists,  *)
(* by comparing schemas; resolveTaskInput computes a step's input after    *)
(* the earlier steps were paid for.                                        *)
(*                                                                         *)
(* A value, a template or a schema is a tree: a node for each path of keys *)
(* from its root, so what the code does to a node and then to its children *)
(* is said of all paths at once.  A string is its length, a number twice   *)
(* itself, so that an odd one is no integer; an optional bound is a set of *)
(* at most one number.  Sizes in bytes, and the names that no template may *)
(* use, are left out.                                                      *)
(***************************************************************************)
EXTENDS TaskHosts, Sequences, FiniteSetsExt

CONSTANTS
  Fields,      \* the names of fields
  Values,      \* outputs that a step may deliver
  Services,    \* the definition of each service: [inputSchema, outputSchema, price]
  Proposals,   \* sequences of steps that a host may propose: [service, input]
  Budget       \* what the owner allows for the task

\* An array's keys are numbers; a schema has one child for all of them.
Item == 0
Paths == Seq(Fields \cup Nat)

ValueNodes ==
  [kind : {"string", "array"}, length : Nat] \cup [kind : {"number"}, twice : Int]
    \cup [kind : {"object", "boolean", "null"}]
References == [kind : {"from"}, index : Nat \ {0}, path : Paths]
TemplateNodes == ValueNodes \cup References
SchemaNodes ==
  [type : {"string"}, maxLength : SUBSET Nat] \cup [type : {"array"}, maxItems : Nat]
    \cup [type : {"number", "integer"}, minimum : SUBSET Int, maximum : SUBSET Int]
    \cup [type : {"object"}, required : SUBSET Fields] \cup [type : {"boolean", "null"}]

IsTree(tree, nodes) ==
  /\ <<>> \in DOMAIN tree
  /\ \A p \in DOMAIN tree :
       /\ p \in Paths /\ tree[p] \in nodes
       /\ \A i \in 0 .. Len(p) : SubSeq(p, 1, i) \in DOMAIN tree

ASSUME PlansAssumption ==
  /\ \A f \in Fields : f \notin Nat
  /\ \A v \in Values : IsTree(v, ValueNodes)
  /\ \A s \in DOMAIN Services : /\ IsTree(Services[s].inputSchema, SchemaNodes)
                              /\ IsTree(Services[s].outputSchema, SchemaNodes)
  /\ \A steps \in Proposals :
       /\ Len(steps) \in Nat /\ DOMAIN steps = 1 .. Len(steps)
       /\ \A i \in DOMAIN steps : IsTree(steps[i].input, TemplateNodes)

VARIABLE trial \* an accepted plan and the outputs of its first steps, or None

-----------------------------------------------------------------------------
(* Trees and their parts                                                   *)

\* A bound that is not given bounds nothing.
AtMost(n, limit) == \A b \in limit : n <= b
AtLeast(n, limit) == \A b \in limit : n >= b

\* Where a schema speaks of a place in a value.
SchemaPath(p) == [i \in DOMAIN p |-> IF p[i] \in Fields THEN p[i] ELSE Item]

\* The paths from a place on.
Below(tree, at) ==
  {SubSeq(p, Len(at) + 1, Len(p)) :
     p \in {q \in DOMAIN tree : Len(at) <= Len(q) /\ SubSeq(q, 1, Len(at)) = at}}

\* matchesSchema, at one node: the fields that are required are there.
NodeMatches(v, p, s) ==
  CASE s.type = "string" -> v[p].kind = "string" /\ AtMost(v[p].length, s.maxLength)
    [] s.type \in {"number", "integer"} ->
         /\ v[p].kind = "number" /\ (s.type = "integer" => v[p].twice % 2 = 0)
         /\ AtLeast(v[p].twice, s.minimum) /\ AtMost(v[p].twice, s.maximum)
    [] s.type = "array" -> v[p].kind = "array" /\ v[p].length <= s.maxItems
    [] s.type = "object" ->
         v[p].kind = "object" /\ \A f \in s.required : Append(p, f) \in DOMAIN v
    [] OTHER -> v[p].kind = s.type

\* matchesSchema: and no field is there that the schema does not know.
MatchesSchema(v, s) ==
  \A p \in DOMAIN v : SchemaPath(p) \in DOMAIN s /\ NodeMatches(v, p, s[SchemaPath(p)])

-----------------------------------------------------------------------------
(* At execution: an input is computed from the outputs                     *)

Referring(template) == {p \in DOMAIN template : template[p].kind = "from"}

\* resolveTaskInput does not throw: every key of a path is there.
Resolves(template, outputs) ==
  \A p \in Referring(template) :
    /\ template[p].index <= Len(outputs)
    /\ template[p].path \in DOMAIN outputs[template[p].index]

\* mapInput with the resolver of resolveTaskInput: a reference is replaced by a part.
ResolveTaskInput(template, outputs) ==
  LET written == DOMAIN template \ Referring(template)
      Part(p) == Below(outputs[template[p].index], template[p].path)
      taken == UNION {{<<p, q>> : q \in Part(p)} : p \in Referring(template)}
      Source(r) == CHOOSE pair \in taken : pair[1] \o pair[2] = r
      Copy(pair) == outputs[template[pair[1]].index][template[pair[1]].path \o pair[2]]
  IN  [r \in written \cup {pair[1] \o pair[2] : pair \in taken} |->
         IF r \in written THEN template[r] ELSE Copy(Source(r))]

-----------------------------------------------------------------------------
(* Before approval: schemas are compared                                   *)

\* Slip: a field that the output may leave out counts as present.
Guaranteed_Optional(s, path) ==
  /\ path \in DOMAIN s
  /\ \A i \in DOMAIN path : s[SubSeq(path, 1, i - 1)].type = "object"

\* schemaAtPath: only what every output has may be referred to.
Guaranteed(s, path) ==
  /\ path \in DOMAIN s
  /\ \A i \in DOMAIN path :
       LET above == s[SubSeq(path, 1, i - 1)]
       IN  above.type = "object" /\ path[i] \in above.required

\* compatibleSchema, at one node: what matches the source matches the target.
NodeCompatible(source, target) ==
  /\ source.type = target.type \/ (source.type = "integer" /\ target.type = "number")
  /\ CASE target.type = "string" ->
            \A t \in target.maxLength : \E b \in source.maxLength : b <= t
       [] target.type \in {"number", "integer"} ->
            /\ \A t \in target.minimum : \E b \in source.minimum : b >= t
            /\ \A t \in target.maximum : \E b \in source.maximum : b <= t
       [] target.type = "array" -> source.maxItems <= target.maxItems
       [] target.type = "object" -> target.required \subseteq source.required
       [] OTHER -> TRUE

\* Slip: a field of the source that the target does not know is no obstacle.
CompatibleSchema_Open(source, at, target, to) ==
  \A p \in Below(source, at) :
    to \o p \in DOMAIN target => NodeCompatible(source[at \o p], target[to \o p])

\* compatibleSchema, of the parts of two schemas.
CompatibleSchema(source, at, target, to) ==
  \A p \in Below(source, at) :
    to \o p \in DOMAIN target /\ NodeCompatible(source[at \o p], target[to \o p])

\* validateTemplate; earlier holds the output schemas of the earlier steps.
ValidTemplate(template, s, earlier) ==
  \A p \in DOMAIN template :
    /\ SchemaPath(p) \in DOMAIN s
    /\ IF template[p].kind # "from" THEN NodeMatches(template, p, s[SchemaPath(p)])
       ELSE /\ template[p].index <= Len(earlier)
            /\ Guaranteed(earlier[template[p].index], template[p].path)
            /\ CompatibleSchema(earlier[template[p].index], template[p].path, s, SchemaPath(p))

\* createTaskPlan: every step is a registered service with a valid input, and the total is
\* within the budget.
PlanAccepted(steps) ==
  /\ \A i \in DOMAIN steps :
       /\ steps[i].service \in DOMAIN Services
       /\ ValidTemplate(steps[i].input, Services[steps[i].service].inputSchema,
                        [j \in 1 .. i - 1 |-> Services[steps[j].service].outputSchema])
  /\ MapThenSumSet(LAMBDA i : Services[steps[i].service].price, DOMAIN steps) <= Budget

-----------------------------------------------------------------------------
(* A plan from its acceptance to its end.  Such plans have behaviours of their *)
(* own; with none, the task service is at work.                                *)

TasksInit ==
  /\ HostInit
  /\ trial \in {None} \cup
       {[steps |-> steps, outputs |-> <<>>] : steps \in {p \in Proposals : PlanAccepted(p)}}
  /\ trial # None => ~hosted

Coming == trial.steps[Len(trial.outputs) + 1]
AllDelivered == Len(trial.outputs) = Len(trial.steps)

\* The input of the next step is computed and checked.
InputIsFit ==
  /\ Resolves(Coming.input, trial.outputs)
  /\ MatchesSchema(ResolveTaskInput(Coming.input, trial.outputs),
                   Services[Coming.service].inputSchema)

\* The step is paid for, and its output fits the schema of its service.
StepDelivers ==
  /\ trial # None /\ ~AllDelivered /\ InputIsFit
  /\ \E v \in Values :
       /\ MatchesSchema(v, Services[Coming.service].outputSchema)
       /\ trial' = [trial EXCEPT !.outputs = Append(@, v)]

PlanEnds == trial # None /\ AllDelivered /\ trial' = None

TasksNext ==
  \/ trial = None /\ HostNext /\ UNCHANGED trial
  \/ (StepDelivers \/ PlanEnds) /\ UNCHANGED hostVars

TasksSpec == TasksInit /\ [][TasksNext]_<<hostVars, trial>>

\* createTaskPlan, resolveTaskInput: what was accepted before approval does not fail once
\* money was spent.  Whatever the earlier steps deliver within their services' output schemas,
\* the input of the next step resolves and fits the schema of its service.
AcceptedPlansRun == trial # None /\ ~AllDelivered => InputIsFit
=============================================================================
