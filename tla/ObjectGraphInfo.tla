--------------------------- MODULE ObjectGraphInfo ---------------------------
(***************************************************************************)
(* class ObjectGraphInfo: one recursive walk of the object graph from the  *)
(* root nn_module computes the linkage names and creates the global slots. *)
(* The C++ recursion is the explicit stack `frames`: the top frame is the  *)
(* recursivelyTraverse call that runs.  A dotted name is the sequence of   *)
(* its components: attribute names hold no dot.                            *)
(***************************************************************************)
EXTENDS TorchProgram

VARIABLES
  frames,           \* active recursivelyTraverse calls: Seq([mod, next])
  nameStack,        \* attribute names from the root to the top frame
  seenNnModules,    \* nn_module -> the path it was first reached by
  slotToGlobalSlot, \* <<nn_module, attr>> -> [name, priv] of the global slot
  initializers,     \* <<nn_module, attr>> -> values cloned into its region
  identityCopied,   \* objectsWithIdentityAlreadyCopiedIntoInitializers
  funcLinkageInfo   \* <<nn_module, func>> -> [name, priv] of that method

graphVars == <<frames, nameStack, seenNnModules, slotToGlobalSlot, initializers,
               identityCopied, funcLinkageInfo>>

\* A DenseMap: map[key] = val.
EmptyMap == [x \in {} |-> x]
Put(map, key, val) == [x \in DOMAIN map \cup {key} |-> IF x = key THEN val ELSE map[x]]

GraphInit ==
  /\ frames = <<>>
  /\ nameStack = <<>>
  /\ seenNnModules = EmptyMap
  /\ slotToGlobalSlot = EmptyMap
  /\ initializers = EmptyMap
  /\ identityCopied = {}
  /\ funcLinkageInfo = EmptyMap

\* One recursivelyTraverse call: its nn_module and the slot it visits next.
Frame(p) == [mod : Mods(p), next : Nat \ {0}]

Top == Last(frames)

\* The attribute the top frame is about to visit.
TopAttr == AttrsOf(prog, Top.mod)[Top.next]

\* Faulty: a slot is skipped.
AdvanceTwo == ReplaceAt(frames, Len(frames), [Top EXCEPT !.next = @ + 2])

Advance == ReplaceAt(frames, Len(frames), [Top EXCEPT !.next = @ + 1])

\* The root is the only nn_module that nothing uses.
FindRootNnModule ==
  /\ pc = "findRoot"
  /\ LET roots == {m \in Mods(prog) : ~ HasUses(prog, m)}
     IN \/ /\ Cardinality(roots) > 1
           /\ Fail("found more than one root module")
           /\ UNCHANGED <<frames, seenNnModules>>
        \/ /\ roots = {}
           /\ Fail("module does not contain a root torch.nn_module")
           /\ UNCHANGED <<frames, seenNnModules>>
        \/ \E root \in roots :
             /\ roots = {root}
             /\ frames' = <<[mod |-> root, next |-> 1]>>
             /\ seenNnModules' = Put(EmptyMap, root, <<>>)
             /\ Goto("traverse")
  /\ UNCHANGED <<prog, nameStack, slotToGlobalSlot, initializers, identityCopied,
                 funcLinkageInfo>>

\* A slot that holds an instance: recurse, unless it was reached before.
VisitModuleSlot ==
  /\ pc = "traverse"
  /\ Top.next <= Len(AttrsOf(prog, Top.mod))
  /\ IsModuleType(prog, TopAttr.type)
  /\ LET child == prog.slots[Top.mod][Top.next]
         path  == Append(nameStack, TopAttr.name)
     IN /\ nameStack' = path
        /\ IF child \in DOMAIN seenNnModules
           THEN /\ Fail("reachable by multiple paths from root object")
                /\ UNCHANGED <<frames, seenNnModules>>
           ELSE /\ seenNnModules' = Put(seenNnModules, child, path)
                /\ frames' = Append(Advance, [mod |-> child, next |-> 1])
                /\ UNCHANGED <<pc, diag>>
  /\ UNCHANGED <<prog, slotToGlobalSlot, initializers, identityCopied, funcLinkageInfo>>

\* The ops populateGlobalSlotInitializer clones for v: v's and, transitively,
\* those that define its operands.
NeedToClone(p, v) ==
  LET visited[n \in Nat] ==
        IF n = 0 THEN {v}
        ELSE visited[n - 1] \cup UNION {OperandsOf(p, w) : w \in visited[n - 1]}
  IN visited[Cardinality(TopLevelValues(p))]

\* Faulty: only the object in the slot is recorded, not those it holds.
VisitValueSlotShallow ==
  /\ pc = "traverse"
  /\ Top.next <= Len(AttrsOf(prog, Top.mod))
  /\ ~ IsModuleType(prog, TopAttr.type)
  /\ LET slot   == <<Top.mod, TopAttr.name>>
         cloned == NeedToClone(prog, prog.slots[Top.mod][Top.next])
         shared == {v \in cloned : HasMeaningfulObjectIdentity(prog, v)}
     IN /\ slotToGlobalSlot' = Put(slotToGlobalSlot, slot,
             [name |-> Append(nameStack, TopAttr.name), priv |-> TopAttr.priv])
        /\ initializers' = Put(initializers, slot, cloned)
        /\ identityCopied' = identityCopied \cup ({prog.slots[Top.mod][Top.next]} \cap shared)
        /\ IF shared \cap identityCopied # {}
           THEN /\ Fail("potentially-aliased value used to initialize multiple slots")
                /\ UNCHANGED frames
           ELSE /\ frames' = Advance
                /\ UNCHANGED <<pc, diag>>
  /\ UNCHANGED <<prog, nameStack, seenNnModules, funcLinkageInfo>>

\* Any other slot becomes a global slot whose initializer clones the value;
\* a clone of an object with identity may exist in one initializer only.
VisitValueSlot ==
  /\ pc = "traverse"
  /\ Top.next <= Len(AttrsOf(prog, Top.mod))
  /\ ~ IsModuleType(prog, TopAttr.type)
  /\ LET slot   == <<Top.mod, TopAttr.name>>
         cloned == NeedToClone(prog, prog.slots[Top.mod][Top.next])
         shared == {v \in cloned : HasMeaningfulObjectIdentity(prog, v)}
     IN /\ slotToGlobalSlot' = Put(slotToGlobalSlot, slot,
             [name |-> Append(nameStack, TopAttr.name), priv |-> TopAttr.priv])
        /\ initializers' = Put(initializers, slot, cloned)
        /\ identityCopied' = identityCopied \cup shared
        /\ IF shared \cap identityCopied # {}
           THEN /\ Fail("potentially-aliased value used to initialize multiple slots")
                /\ UNCHANGED frames
           ELSE /\ frames' = Advance
                /\ UNCHANGED <<pc, diag>>
  /\ UNCHANGED <<prog, nameStack, seenNnModules, funcLinkageInfo>>

\* All slots visited: record the linkage of the methods and return.
LeaveModule ==
  /\ pc = "traverse"
  /\ Top.next > Len(AttrsOf(prog, Top.mod))
  /\ LET methods == MethodsOf(prog, Top.mod)
         linkage(f) == LET k == CHOOSE k \in DOMAIN methods :
                                  /\ methods[k].func = f
                                  /\ \A j \in DOMAIN methods : methods[j].func = f => j <= k
                       IN [name |-> Append(nameStack, methods[k].name),
                           priv |-> methods[k].priv]
         keys == {<<Top.mod, methods[k].func>> : k \in DOMAIN methods}
     IN funcLinkageInfo' = [key \in DOMAIN funcLinkageInfo \cup keys |->
          IF key \in keys THEN linkage(key[2]) ELSE funcLinkageInfo[key]]
  /\ frames' = Front(frames)
  /\ IF Len(frames) = 1
     THEN Goto("verifyFuncs") /\ UNCHANGED nameStack
     ELSE UNCHANGED <<pc, diag>> /\ nameStack' = Front(nameStack)
  /\ UNCHANGED <<prog, seenNnModules, slotToGlobalSlot, initializers, identityCopied>>

GraphNext == FindRootNnModule \/ VisitModuleSlot \/ VisitValueSlot \/ LeaveModule

=============================================================================
