------------------------ MODULE GlobalizeObjectGraph ------------------------
(***************************************************************************)
(* The pass torch-globalize-object-graph: traverse the object graph,       *)
(* verify the functions, compute the monomorphizations, clone a function   *)
(* for each, rewrite the clones to global slots, erase the object graph.   *)
(***************************************************************************)
EXTENDS ObjectGraphInfo, Monomorphization

VARIABLES
  newFuncs,   \* monomorphization -> its clone [name, priv, params, body]
  nextClone,  \* the loop over the monomorphizations that clones them
  uniquifier, \* suffix for the next free function
  rewritten   \* the clones rewriteMonomorphizedFuncClone is done with

vars == <<prog, pc, diag, graphVars, monoVars, newFuncs, nextClone, uniquifier, rewritten>>

Init ==
  /\ prog \in Programs
  /\ pc = "findRoot"
  /\ diag = ""
  /\ GraphInit
  /\ MonoInit
  /\ newFuncs = EmptyMap
  /\ nextClone = 1
  /\ uniquifier = 0
  /\ rewritten = {}

-----------------------------------------------------------------------------

\* An instance may only be called with, or be the receiver of a get or set.
IsUnsupportedUse(p, f, op) ==
  \/ op.kind = "set" /\ IsModuleValue(p, f, op.val)
  \/ op.kind = "other" /\ \E v \in ToSet(op.args) : IsModuleValue(p, f, v)

VerifyFuncsConformToSubset ==
  /\ pc = "verifyFuncs"
  /\ IF \E f \in ToSet(prog.funcs) : \E op \in ToSet(prog.body[f]) :
          IsUnsupportedUse(prog, f, op)
     THEN Fail("unsupported use of a torch.nn.Module")
     ELSE Goto("initialize")
  /\ UNCHANGED <<prog, graphVars, monoVars, newFuncs, nextClone, uniquifier, rewritten>>

NumMonomorphizations(f) ==
  Cardinality({m \in ToSet(monomorphizations) : m.func = f})

VerifyPublicMonomorphizations ==
  /\ pc = "verifyPublic"
  /\ IF \E c \in DOMAIN prog.classes : \E k \in DOMAIN prog.classes[c].methods :
          LET method == prog.classes[c].methods[k]
          IN ~ method.priv /\ NumMonomorphizations(method.func) > 1
     THEN Fail("public function with multiple monomorphizations")
     ELSE Goto("clone")
  /\ UNCHANGED <<prog, graphVars, monoVars, newFuncs, nextClone, uniquifier, rewritten>>

-----------------------------------------------------------------------------

\* Faulty: no suffix.
FreeNamePlain(f, n) == [path |-> <<f>>, uniq |-> 0]

\* A name: the dotted path of a method or slot (uniq = -1), or a free
\* function's name with its numeric suffix.
LinkageName(path) == [path |-> path, uniq |-> -1]
FreeName(f, n) == [path |-> <<f>>, uniq |-> n]

\* "If it is potentially a method": its first argument is an instance that
\* the traversal has linkage info for.
IsMethod(m) == 1 \in DOMAIN m.inst /\ <<m.inst[1], m.func>> \in DOMAIN funcLinkageInfo

CloneFunc ==
  /\ pc = "clone"
  /\ nextClone <= Len(monomorphizations)
  /\ nextClone' = nextClone + 1
  /\ LET m       == monomorphizations[nextClone]
         linkage == funcLinkageInfo[<<m.inst[1], m.func>>]
         clone   == [name   |-> IF IsMethod(m) THEN LinkageName(linkage.name)
                                               ELSE FreeName(m.func, uniquifier),
                     priv   |-> IF IsMethod(m) THEN linkage.priv
                                              ELSE prog.funcPriv[m.func],
                     params |-> [i \in 1 .. prog.arity[m.func] |-> i],
                     body   |-> prog.body[m.func]]
     IN /\ newFuncs' = Put(newFuncs, m, clone)
        /\ uniquifier' = IF IsMethod(m) THEN uniquifier ELSE uniquifier + 1
  /\ UNCHANGED <<prog, pc, diag, graphVars, monoVars, rewritten>>

AllCloned ==
  /\ pc = "clone"
  /\ nextClone > Len(monomorphizations)
  /\ Goto("rewrite")
  /\ UNCHANGED <<prog, graphVars, monoVars, newFuncs, nextClone, uniquifier, rewritten>>

\* GetAttr of an instance is erased: nothing is left that could use it.
IsErased(m, op) == op.kind = "get" /\ IsModuleValue(prog, m.func, op.dst)

\* Faulty: the receiver is taken to be the first instance argument.
SlotOfSelf(m, op) ==
  <<IF m.inst = EmptyMap THEN AnalyzeInstances(prog, m)[op.recv]
                         ELSE m.inst[Min(DOMAIN m.inst)], op.attr>>

SlotOf(m, op) == <<AnalyzeInstances(prog, m)[op.recv], op.attr>>

\* The assertions of mapping.lookup, getGlobalSlotFor and handleCall.
RewriteAborts(m, op) ==
  \/ op.kind \in {"get", "set"} /\ ~ IsErased(m, op) /\ SlotOf(m, op) \notin DOMAIN slotToGlobalSlot
  \/ op.kind = "call" /\ MonomorphizationForCall(prog, m, op) \notin DOMAIN newFuncs

RewriteOp(m, op) ==
  CASE op.kind = "set" ->
         [kind |-> "global_slot.set", slot |-> slotToGlobalSlot[SlotOf(m, op)].name, val |-> op.val]
    [] op.kind = "get" ->
         [kind |-> "global_slot.get", dst |-> op.dst, slot |-> slotToGlobalSlot[SlotOf(m, op)].name]
    [] op.kind = "call" ->
         [kind |-> "call", callee |-> newFuncs[MonomorphizationForCall(prog, m, op)].name,
          args |-> Filter(op.args, {v \in ToSet(op.args) : ~ IsModuleValue(prog, m.func, v)})]
    [] OTHER -> op

RewriteBody(m, body) ==
  LET kept == Filter(body, {op \in ToSet(body) : ~ IsErased(m, op)})
  IN [k \in DOMAIN kept |-> RewriteOp(m, kept[k])]

\* newFuncs is a DenseMap: the clones are rewritten in no particular order.
RewriteMonomorphizedFuncClone(m) ==
  /\ pc = "rewrite"
  /\ m \in DOMAIN newFuncs \ rewritten
  /\ IF \E op \in ToSet(prog.body[m.func]) : RewriteAborts(m, op)
     THEN Abort /\ UNCHANGED <<newFuncs, rewritten>>
     ELSE /\ newFuncs' = [newFuncs EXCEPT ![m] =
               [name |-> @.name, priv |-> @.priv,
                params |-> Filter(@.params, ToSet(@.params) \ ModuleArgs(prog, m.func)),
                body |-> RewriteBody(m, @.body)]]
          /\ rewritten' = rewritten \cup {m}
          /\ UNCHANGED <<pc, diag>>
  /\ UNCHANGED <<prog, graphVars, monoVars, nextClone, uniquifier>>

\* What the verifier that runs after the pass requires of the clones: two
\* monomorphizations of one method are both given the name the method has in
\* its instance.
SymbolsAreUnique ==
  \A m, n \in DOMAIN newFuncs : newFuncs[m].name = newFuncs[n].name => m = n

\* Everything but the global slots and the clones is erased; what is left is
\* verified.
CleanUpObjectGraph ==
  /\ pc = "rewrite"
  /\ rewritten = DOMAIN newFuncs
  /\ IF SymbolsAreUnique THEN Goto("done") ELSE Fail("redefinition of symbol")
  /\ UNCHANGED <<prog, graphVars, monoVars, newFuncs, nextClone, uniquifier, rewritten>>

-----------------------------------------------------------------------------

Terminated == pc \in {"done", "error", "assert"}

\* The pass has returned (or the process is gone).
Return == Terminated /\ UNCHANGED vars

PassNext ==
  \/ GraphNext /\ UNCHANGED <<monoVars, newFuncs, nextClone, uniquifier, rewritten>>
  \/ VerifyFuncsConformToSubset
  \/ MonoNext /\ UNCHANGED <<graphVars, newFuncs, nextClone, uniquifier, rewritten>>
  \/ VerifyPublicMonomorphizations
  \/ CloneFunc
  \/ AllCloned
  \/ \E m \in DOMAIN newFuncs : RewriteMonomorphizedFuncClone(m)
  \/ CleanUpObjectGraph

Next == PassNext \/ Return

\* The pass is one thread that runs until it returns.
Spec == Init /\ [][Next]_vars /\ WF_vars(PassNext)

-----------------------------------------------------------------------------
\* Properties

MonoSet == ToSet(monomorphizations)

\* The state is of the expected shape; a mapping never holds an unknown
\* instance, which is what the assertion in createMonomorphizationForCall
\* establishes.
TypeOK ==
  /\ prog \in Programs
  /\ pc \in {"findRoot", "traverse", "verifyFuncs", "initialize", "monomorphize",
             "generate", "verifyPublic", "clone", "rewrite", "done", "error", "assert"}
  /\ frames \in Seq(Frame(prog))
  /\ pc = "traverse" => frames # <<>>
  /\ DOMAIN seenNnModules \subseteq Mods(prog)
  /\ DOMAIN slotToGlobalSlot = DOMAIN initializers
  /\ monomorphizations \in Seq(Monos(prog))
  /\ dirtyMonomorphizations \in Seq(Monos(prog))
  /\ pc = "generate" => cur \in Monos(prog)
  /\ nextFunc \in Nat \ {0}
  /\ nextOp \in Nat \ {0}
  /\ nextClone \in Nat \ {0}
  /\ DOMAIN newFuncs \subseteq Monos(prog)
  /\ rewritten \subseteq DOMAIN newFuncs
  /\ uniquifier \in Nat

\* Once the worklist of MonomorphizationTracker is empty the set is closed
\* under calls, mutual recursion included: every callee of a monomorphization
\* is a monomorphization.
MonomorphizationsClosed ==
  pc \in {"verifyPublic", "clone", "rewrite", "done"} =>
    \A m \in MonoSet : CalleesOf(prog, m) \subseteq MonoSet

\* ... and the set is no larger than needed: each monomorphization is trivial
\* or is called by one that was discovered before it.
MonomorphizationsNeeded ==
  \A k \in DOMAIN monomorphizations :
    \/ \E f \in ToSet(prog.funcs) :
         /\ CanTriviallyMonomorphize(prog, f)
         /\ monomorphizations[k] = TrivialMonomorphization(prog, f)
    \/ \E j \in 1 .. k - 1 : monomorphizations[k] \in CalleesOf(prog, monomorphizations[j])

\* The least set closed under calls, whatever order the worklist runs in.
MonomorphizationsLeast == MonomorphizationsClosed /\ MonomorphizationsNeeded

\* handleCall's assert(newFuncs.find(monomorphization) != newFuncs.end()) holds
\* for every call of every clone, in whatever order the clones are rewritten.
CallTargetsCloned ==
  pc = "rewrite" =>
    \A m \in DOMAIN newFuncs : CalleesOf(prog, m) \subseteq DOMAIN newFuncs

\* Why these hold: a monomorphization is dirty, or being walked, or has all its
\* callees in the set; the ops already walked are accounted for; and the clones
\* are the monomorphizations the loop has passed.
WorklistInv ==
  /\ \A m \in MonoSet :
       \/ m \in ToSet(dirtyMonomorphizations)
       \/ pc = "generate" /\ m = cur
       \/ pc = "assert"
       \/ CalleesOf(prog, m) \subseteq MonoSet
  /\ pc = "generate" =>
       \A k \in CallOps(prog, cur.func) :
         k < nextOp => MonomorphizationForCall(prog, cur, prog.body[cur.func][k]) \in MonoSet
  /\ pc \in {"verifyPublic", "clone", "rewrite", "done"} => dirtyMonomorphizations = <<>>

\* What is dirty or being walked has been recorded.
NeededInv ==
  /\ MonomorphizationsNeeded
  /\ ToSet(dirtyMonomorphizations) \subseteq MonoSet
  /\ pc = "generate" => cur \in MonoSet

ClonesInv ==
  /\ nextClone <= Len(monomorphizations) + 1
  /\ DOMAIN newFuncs = {monomorphizations[k] : k \in 1 .. nextClone - 1}
  /\ pc \in {"rewrite", "done"} => nextClone = Len(monomorphizations) + 1

\* Values with identity that an initializer holds have been recorded.
AliasInv ==
  pc # "error" =>
    \A s \in DOMAIN initializers : \A v \in initializers[s] :
      HasMeaningfulObjectIdentity(prog, v) =>
        /\ v \in identityCopied
        /\ \A t \in DOMAIN initializers : v \in initializers[t] => t = s

\* The instance an attribute path leads to from the root.
Root == CHOOSE m \in Mods(prog) : ~ HasUses(prog, m)
ObjectAt(path) ==
  LET at[k \in 0 .. Len(path)] ==
        IF k = 0 THEN Root ELSE SlotValue(prog, at[k - 1], path[k])
  IN at[Len(path)]

\* "All torch.nn_module's must be reachable by a unique path from the root":
\* a program that is accepted has an object graph that is a tree.
AcceptedGraphIsTree ==
  pc = "done" =>
    \A m, n \in DOMAIN seenNnModules :
      \A i \in DOMAIN AttrsOf(prog, m), j \in DOMAIN AttrsOf(prog, n) :
        /\ IsModuleType(prog, AttrsOf(prog, m)[i].type)
        /\ IsModuleType(prog, AttrsOf(prog, n)[j].type)
        /\ prog.slots[m][i] = prog.slots[n][j]
        => m = n /\ i = j

\* An initializer has a copy of the value its slot holds and of all that value
\* is built from, nothing outside it and nothing else.
InitializersHoldTheirValues ==
  pc = "done" =>
    \A s \in DOMAIN initializers :
      LET held == SlotValue(prog, s[1], s[2])
      IN /\ held \in initializers[s]
         /\ \A v \in initializers[s] : OperandsOf(prog, v) \subseteq initializers[s]
         /\ \A v \in initializers[s] \ {held} :
              \E w \in initializers[s] : v \in OperandsOf(prog, w)

\* "the data member access root.decoder.ids_to_strings_table in Python
\* corresponds to accessing the torch.global_slot
\* @decoder.ids_to_strings_table": the name of every global slot, followed
\* from the root, leads to the slot it was made for, and no value slot of an
\* instance reached from the root is left out; the graph is a tree, so that no
\* two names lead to one slot; and each starts with what the slot holds.
GlobalSlotsMirrorObjectGraph ==
  /\ AcceptedGraphIsTree
  /\ InitializersHoldTheirValues
  /\ pc = "done" =>
       /\ \A s \in DOMAIN slotToGlobalSlot :
            LET name == slotToGlobalSlot[s].name
            IN s = <<ObjectAt(Front(name)), Last(name)>>
       /\ \A s \in DOMAIN slotToGlobalSlot : \A i \in DOMAIN AttrsOf(prog, s[1]) :
            LET attr == AttrsOf(prog, s[1])[i]
            IN ~ IsModuleType(prog, attr.type) => <<s[1], attr.name>> \in DOMAIN slotToGlobalSlot
       /\ \A m \in DOMAIN seenNnModules : \A i \in DOMAIN AttrsOf(prog, m) :
            LET attr == AttrsOf(prog, m)[i]
            IN IF IsModuleType(prog, attr.type)
               THEN prog.slots[m][i] \in DOMAIN seenNnModules
               ELSE <<m, attr.name>> \in DOMAIN slotToGlobalSlot

\* "Two slots cannot have initial values that alias each other", however deep
\* in a container the alias is.
InitializersDoNotAlias ==
  pc = "done" =>
    \A s, t \in DOMAIN initializers :
      s # t => \A v \in initializers[s] \cap initializers[t] : ~ HasMeaningfulObjectIdentity(prog, v)

Calls(body) == Filter(body, {op \in ToSet(body) : op.kind = "call"})

\* Two clones get one name only when a private method has been called with one
\* receiver and other instances for its other arguments.
OnlyPrivateMethodsClash ==
  pc = "rewrite" =>
    \A m, n \in DOMAIN newFuncs : m # n /\ newFuncs[m].name = newFuncs[n].name =>
      /\ IsMethod(m) /\ m.func = n.func /\ m.inst[1] = n.inst[1]
      /\ \A method \in ToSet(MethodsOf(prog, m.inst[1])) : method.func = m.func => method.priv

\* A call in a clone is resolved by symbol name when the program runs: the
\* clone it names must be the one made for the function and the instances the
\* original call passed; there is one when handleCall asks for it.  A program
\* in which the name could be another's is refused, and only private methods
\* make such programs.
CallsBindToTheirCallee ==
  /\ CallTargetsCloned
  /\ OnlyPrivateMethodsClash
  /\ pc = "done" =>
       \A m \in DOMAIN newFuncs :
         LET before == Calls(prog.body[m.func])
             after  == Calls(newFuncs[m].body)
         IN \A k \in DOMAIN before :
              LET callee == MonomorphizationForCall(prog, m, before[k])
              IN /\ {n \in DOMAIN newFuncs : newFuncs[n].name = after[k].callee} = {callee}
                 /\ Len(after[k].args) = Len(newFuncs[callee].params)

\* The pass always returns: the fixed-point iteration converges although
\* functions may call each other with ever different instances.
Termination == <> Terminated

=============================================================================
