---------------------------- MODULE TorchProgram ----------------------------
(***************************************************************************)
(* The IR that the object-graph globalization pass consumes: a module that *)
(* holds torch.class_type, torch.nn_module, top-level value and func ops.  *)
(* A program is a record:                                                  *)
(*   classes  class -> [attrs   : Seq([name, type, priv]),                 *)
(*                      methods : Seq([name, func, priv])]                 *)
(*   classOf  nn_module -> its class                                       *)
(*   slots    nn_module -> the values of its slots, in attribute order     *)
(*   valType  top-level value that is no nn_module -> its type             *)
(*   operands the same values -> the values their defining op uses         *)
(*   funcs    the func ops in module order                                 *)
(*   funcPriv func -> has private visibility                               *)
(*   arity    func -> number of arguments                                  *)
(*   types    func -> type of each of its SSA values; the arguments are    *)
(*            the values 1 .. arity, then the results in program order     *)
(*   body     func -> its ops in walk order, regions flattened             *)
(* An op is [kind |-> "get", dst, recv, attr]                              *)
(*       or [kind |-> "set", recv, attr, val]                              *)
(*       or [kind |-> "call", callee, args]                                *)
(*       or [kind |-> "other", dst, args]  (dst = 0: no result).           *)
(* A type is a class name (a !torch.nn.Module<"class">) or another string. *)
(***************************************************************************)
EXTENDS Integers, Sequences, FiniteSets, SequencesExt, Functions

CONSTANTS
  Programs,   \* the programs the pass may be run on
  Null        \* "no instance": what mapping.lookupOrNull returns

VARIABLES
  prog,       \* the program being compiled
  pc,         \* the step of globalizeObjectGraph being executed
  diag        \* the diagnostic emitted, "" when there is none

Mods(p) == DOMAIN p.classOf

IsModuleType(p, t) == t \in DOMAIN p.classes

AttrsOf(p, m) == p.classes[p.classOf[m]].attrs

MethodsOf(p, m) == p.classes[p.classOf[m]].methods

\* The position of attribute a among the slots of instance m.
SlotIndex(p, m, a) ==
  CHOOSE i \in DOMAIN AttrsOf(p, m) : AttrsOf(p, m)[i].name = a

SlotValue(p, m, a) == p.slots[m][SlotIndex(p, m, a)]

IsModuleValue(p, f, v) == IsModuleType(p, p.types[f][v])

\* The indices of the arguments of f that are instances.
ModuleArgs(p, f) == {i \in 1 .. p.arity[f] : IsModuleValue(p, f, i)}

InstancesOfClass(p, c) == {m \in Mods(p) : p.classOf[m] = c}

\* A value whose aliasing is observable.
HasMeaningfulObjectIdentity(p, v) ==
  v \in Mods(p) \/ p.valType[v] \notin {"int", "float", "bool", "str", "none", "vtensor"}

\* The values at the top level of the module.
TopLevelValues(p) == Mods(p) \cup DOMAIN p.valType

\* op->getOperands() of the op that defines v; the slots of an nn_module are
\* ops of its region, not its operands.
OperandsOf(p, v) == IF v \in Mods(p) THEN {} ELSE p.operands[v]

\* Some op uses nn_module m: a slot of another module, or a container.
HasUses(p, m) ==
  \/ \E n \in Mods(p) : m \in ToSet(p.slots[n])
  \/ \E v \in DOMAIN p.operands : m \in p.operands[v]

\* A call passes what its callee, a func of the module, takes.
IsCallOp(p, f, op) ==
  /\ op.callee \in ToSet(p.funcs)
  /\ op.args \in Seq(DOMAIN p.types[f]) /\ Len(op.args) = p.arity[op.callee]
  /\ \A i \in DOMAIN op.args : p.types[f][op.args[i]] = p.types[op.callee][i]

\* A class has no two attributes or methods of one name, and a method's function
\* takes the receiver first.
IsClassType(p, c) ==
  LET attrs   == p.classes[c].attrs
      methods == p.classes[c].methods
  IN /\ attrs \in Seq(ToSet(attrs)) /\ methods \in Seq(ToSet(methods))
     /\ \A i, j \in DOMAIN attrs : attrs[i].name = attrs[j].name => i = j
     /\ \A i, j \in DOMAIN methods : methods[i].name = methods[j].name => i = j
     /\ \A i \in DOMAIN attrs, j \in DOMAIN methods : attrs[i].name # methods[j].name
     /\ \A k \in DOMAIN methods : LET f == methods[k].func
                                 IN f \in ToSet(p.funcs) /\ p.arity[f] >= 1 /\ p.types[f][1] = c

\* What the op verifiers and the symbol table guarantee before the pass runs;
\* a slot of module type holds an instance.
ASSUME ProgramsWellFormed ==
  \A p \in Programs :
    /\ p.funcs \in Seq(DOMAIN p.body)
    /\ \A f \in ToSet(p.funcs) :
         /\ p.body[f] \in Seq(ToSet(p.body[f]))
         /\ p.arity[f] \in Nat
         /\ \A op \in ToSet(p.body[f]) : op.kind = "call" => IsCallOp(p, f, op)
    /\ \A c \in DOMAIN p.classes : IsClassType(p, c)
    /\ \A m \in Mods(p) : p.classOf[m] \in DOMAIN p.classes
    /\ \A m \in Mods(p) : \A i \in DOMAIN AttrsOf(p, m) :
         /\ p.slots[m][i] \in TopLevelValues(p)
         /\ IsModuleType(p, AttrsOf(p, m)[i].type) => p.slots[m][i] \in Mods(p)
    /\ IsFiniteSet(TopLevelValues(p))
    /\ \A v \in DOMAIN p.valType : p.operands[v] \subseteq TopLevelValues(p)

\* The elements of s that are in T, in order (llvm::make_filter_range).
Filter(s, T) ==
  LET upTo[k \in 0 .. Len(s)] ==
        IF k = 0 THEN <<>>
        ELSE IF s[k] \in T THEN Append(upTo[k - 1], s[k]) ELSE upTo[k - 1]
  IN upTo[Len(s)]

Fail(msg) == pc' = "error" /\ diag' = msg

\* A failing assert(): the build aborts.
Abort == pc' = "assert" /\ UNCHANGED diag

Goto(label) == pc' = label /\ UNCHANGED diag

=============================================================================
