--------------------------- MODULE TorchExecution ---------------------------
(***************************************************************************)
(* What running a function does to the state of a module, before and after *)
(* globalization: the sequence of accesses to value attributes, in order,  *)
(* with the value each one stores.  TorchScript's run time and the backend *)
(* are outside the repository; this is the meaning the pass's description  *)
(* relies on.  Values are symbolic: an argument, the n-th load, the result *)
(* of a call or of another op.  Calls nest at most `fuel` deep, on both    *)
(* sides alike.                                                            *)
(***************************************************************************)
EXTENDS GlobalizeObjectGraph

RECURSIVE ObjectTrace(_, _, _, _)
RECURSIVE GlobalTrace(_, _, _)

Load(trace) == [load |-> Len(trace)]
Result(k) == [result |-> k]

\* Running func f of the object-graph program on args: attribute accesses
\* find the instance by following the heap.
ObjectTrace(p, f, args, fuel) ==
  LET ops  == p.body[f]
      env0 == [v \in DOMAIN p.types[f] |-> IF v <= Len(args) THEN args[v] ELSE Null]
      step(st, k) ==
        LET op == ops[k]
        IN CASE op.kind = "get" /\ IsModuleValue(p, f, op.dst) ->
                  [st EXCEPT !.env[op.dst] = SlotValue(p, st.env[op.recv], op.attr)]
             [] op.kind = "get" ->
                  [env   |-> [st.env EXCEPT ![op.dst] = Load(st.trace)],
                   trace |-> Append(st.trace, [kind |-> "get", at |-> <<st.env[op.recv], op.attr>>,
                                               val |-> Null])]
             [] op.kind = "set" ->
                  [st EXCEPT !.trace = Append(@, [kind |-> "set", at |-> <<st.env[op.recv], op.attr>>,
                                                  val |-> st.env[op.val]])]
             [] op.kind = "call" ->
                  [st EXCEPT !.trace = @ \o
                     (IF fuel = 0 THEN <<>>
                      ELSE ObjectTrace(p, op.callee, [i \in DOMAIN op.args |-> st.env[op.args[i]]],
                                       fuel - 1))]
             [] OTHER -> IF op.dst = 0 THEN st ELSE [st EXCEPT !.env[op.dst] = Result(op.dst)]
  IN FoldLeftDomain(step, [env |-> env0, trace |-> <<>>], ops).trace

\* Running the function named `name` of the globalized program on args:
\* accesses go to global slots, `name` is looked up among the live functions.
GlobalTrace(name, args, fuel) ==
  LET mono == CHOOSE m \in DOMAIN newFuncs : newFuncs[m].name = name
      fn   == newFuncs[mono]
      env0 == [v \in DOMAIN prog.types[mono.func] |->
                 IF \E i \in DOMAIN args : fn.params[i] = v
                 THEN args[CHOOSE i \in DOMAIN args : fn.params[i] = v]
                 ELSE Null]
      step(st, k) ==
        LET op == fn.body[k]
        IN CASE op.kind = "global_slot.get" ->
                  [env   |-> [st.env EXCEPT ![op.dst] = Load(st.trace)],
                   trace |-> Append(st.trace, [kind |-> "get", at |-> op.slot, val |-> Null])]
             [] op.kind = "global_slot.set" ->
                  [st EXCEPT !.trace = Append(@, [kind |-> "set", at |-> op.slot, val |-> st.env[op.val]])]
             [] op.kind = "call" ->
                  [st EXCEPT !.trace = @ \o
                     (IF fuel = 0 THEN <<>>
                      ELSE GlobalTrace(op.callee, [i \in DOMAIN op.args |-> st.env[op.args[i]]],
                                       fuel - 1))]
             [] OTHER -> IF op.dst = 0 THEN st ELSE [st EXCEPT !.env[op.dst] = Result(op.dst)]
  IN FoldLeftDomain(step, [env |-> env0, trace |-> <<>>], fn.body).trace

CONSTANT MaxCallDepth

\* "The call root.encoder.forward(...) in Python corresponds to invoking the
\* func @encoder.forward on the resulting MLIR module": run on the same data
\* arguments, each clone makes the accesses the original makes on the
\* instances it was specialized for, in the same order and storing the same
\* values, where an object's attribute is the global slot named by its path.
ExecutionPreserved ==
  pc = "done" =>
    \A m \in DOMAIN newFuncs :
      LET arity == prog.arity[m.func]
          args  == [i \in 1 .. arity |-> IF i \in DOMAIN m.inst THEN m.inst[i] ELSE [arg |-> i]]
          data  == SelectSeq([i \in 1 .. arity |-> i], LAMBDA i : i \notin DOMAIN m.inst)
          before == ObjectTrace(prog, m.func, args, MaxCallDepth)
          after  == GlobalTrace(newFuncs[m].name, [i \in DOMAIN data |-> [arg |-> data[i]]], MaxCallDepth)
      IN /\ Len(before) = Len(after)
         /\ \A k \in DOMAIN before :
              /\ before[k].kind = after[k].kind
              /\ before[k].val = after[k].val
              /\ before[k].at = <<ObjectAt(Front(after[k].at)), Last(after[k].at)>>

=============================================================================
