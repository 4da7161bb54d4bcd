-------------------------- MODULE MCGeneralTasks --------------------------
(* Small instances of TaskPlans (and TaskHosts, GeneralTasks) for TLC.     *)
EXTENDS TaskPlans, TLC

CONSTANTS t1, t2, pa, pb, w1, w2, s1, s2, h1, h2, fa, fb

TwoTasks == {t1, t2}
OneTask == {t1}
TwoPlans == {pa, pb}
TwoWorkers == {w1, w2}
TwoSessions == {s1, s2}
TwoOutputs == {h1, h2}

\* One plan has one step, the other has two.
OneAndTwo == (pa :> 1) @@ (pb :> 2)

\* t1 runs its whole course; no plan fits the budget of t2, which only competes with t1
\* for the agent's place and for the sessions.
OneBudget == (t1 :> TwoPlans) @@ (t2 :> {})

\* Trees.
With(node, children) ==
  [p \in {<<>>} \cup UNION {{<<k>> \o q : q \in DOMAIN children[k]} : k \in DOMAIN children} |->
     IF p = <<>> THEN node ELSE children[Head(p)][Tail(p)]]
Leaf(node) == With(node, <<>>)

\* Schemas, values and templates of two fields, arrays of up to two and objects in objects.
Bounds == {{}, {0}, {2}}
Strings == {Leaf([type |-> "string", maxLength |-> m]) : m \in {{}, {1}}}
Numbers ==
  {Leaf([type |-> ty, minimum |-> lo, maximum |-> hi]) :
     ty \in {"number", "integer"}, lo \in Bounds, hi \in {{}, {2}}}
FewLeaves ==
  Strings \cup {Leaf([type |-> "integer", minimum |-> b, maximum |-> b]) : b \in {{}, {2}}}
Arrays(schemas) ==
  {With([type |-> "array", maxItems |-> n], Item :> s) : s \in schemas, n \in 1..2}
Objects(names, schemas) ==
  {With([type |-> "object", required |-> r], p) : p \in [names -> schemas], r \in SUBSET names}
Pairs == Objects({fa, fb}, {Leaf([type |-> "string", maxLength |-> {1}]),
                            Leaf([type |-> "integer", minimum |-> {2}, maximum |-> {2}])})
Flat == Strings \cup Numbers \cup Arrays(Strings) \cup Objects({fa}, FewLeaves)
          \cup Pairs \cup {Leaf([type |-> "null"])}
Nested == Objects({fa}, Objects({fb}, Strings)) \cup Arrays(Objects({fa}, Strings))
Schemas == Flat \cup Nested

Text(n) == Leaf([kind |-> "string", length |-> n])
Number(n) == Leaf([kind |-> "number", twice |-> n])
Array(items) == With([kind |-> "array", length |-> Len(items)], items)
OfFields(names, values) ==
  UNION {{With([kind |-> "object"], f) : f \in [d -> values]} : d \in SUBSET names}
Leaves == {Text(n) : n \in 0..2} \cup {Number(n) : n \in -1..3} \cup {Leaf([kind |-> "null"])}
Delivered ==
  Leaves \cup OfFields({fa, fb}, Leaves)
    \cup {Array(s) : s \in UNION {[1..n -> {Text(m) : m \in 0..2}] : n \in 0..2}}
    \cup OfFields({fa}, OfFields({fb}, {Text(m) : m \in 0..2}))

From(i, path) == Leaf([kind |-> "from", index |-> i, path |-> path])
FromOne == {From(i, p) : i \in 1..2, p \in {<<>>, <<fa>>, <<fb>>, <<fa, fb>>, <<1>>}}
Templates ==
  FromOne \cup {Text(1)} \cup OfFields({fa}, FromOne)
    \cup {With([kind |-> "object"], (fa :> r) @@ (fb :> Number(2))) : r \in FromOne}
    \cup {Array(<<r, Text(1)>>) : r \in FromOne}

\* Services with one schema of interest, some that give it and some that take it; plans of
\* two steps, and of three where the last one refers to both.
Listed == FoldSet(LAMBDA s, list : Append(list, s), <<>>, Schemas)
AnyText == Leaf([type |-> "string", maxLength |-> {}])
Market ==
  [n \in DOMAIN Listed |-> [inputSchema |-> AnyText, outputSchema |-> Listed[n], price |-> 1]]
    \o [n \in DOMAIN Listed |-> [inputSchema |-> Listed[n], outputSchema |-> AnyText, price |-> 1]]
Gives(schemas) == {n \in DOMAIN Listed : Listed[n] \in schemas}
Takes(schemas) == {Len(Listed) + n : n \in Gives(schemas)}
Starts(schemas) == [service : Gives(schemas), input : {Text(0)}]
FromBoth == With([kind |-> "object"], (fa :> From(1, <<>>)) @@ (fb :> From(2, <<>>)))
Proposed ==
  (Starts(Schemas) \X [service : Takes(Schemas), input : Templates])
    \cup (Starts(FewLeaves) \X Starts(FewLeaves)
            \X [service : Takes(Pairs), input : {FromBoth}])

WorkersAndSessions ==
  Permutations(TwoWorkers) \cup Permutations(TwoSessions) \cup Permutations(TwoOutputs)
=============================================================================
