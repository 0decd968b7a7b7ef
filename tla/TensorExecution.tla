---------------------------- MODULE TensorExecution ----------------------------
(***************************************************************************)
(* What the programs of RefineTypes compute: a reference for the facts the *)
(* analysis claims.  The ops are ATen's, modelled from their lowerings in  *)
(* TorchToLinalg and the comments of the transfer functions: an op whose   *)
(* operands do not fit ends the execution.                                 *)
(***************************************************************************)
EXTENDS RefineTypes

CONSTANTS
  Tensors,   \* the tensors a program may be called with
  Others,    \* those it may get from an op that is not modelled
  Dims,      \* the values of int operands that are not constant
  MaxSteps   \* bound on the ops executed

Tensor(sizes, dtype) == [sizes |-> sizes, dtype |-> dtype]

ASSUME TensorsAssumption ==
  /\ Tensors \cup Others \subseteq [sizes : Seq(Nat), dtype : Dtypes]
  /\ \A dims \in Dims : dims \in Seq(Int) /\ Len(dims) = 2
  /\ MaxSteps \in Nat

\* Size number i from the right, 1 where there is none.
FromRight(sizes, i) == IF i <= Len(sizes) THEN sizes[Len(sizes) + 1 - i] ELSE 1

LongerOf(a, b) == IF Len(a) > Len(b) THEN Len(a) ELSE Len(b)

CanBroadcast(a, b) ==
  \A i \in 1 .. LongerOf(a, b) :
    FromRight(a, i) = FromRight(b, i) \/ 1 \in {FromRight(a, i), FromRight(b, i)}

Broadcast(a, b) ==
  LET rank == LongerOf(a, b)
  IN [i \in 1 .. rank |->
        LET right == rank + 1 - i
        IN IF FromRight(a, right) = 1 THEN FromRight(b, right) ELSE FromRight(a, right)]

Product(sizes) ==
  LET upTo[i \in 0 .. Len(sizes)] == IF i = 0 THEN 1 ELSE upTo[i - 1] * sizes[i]
  IN upTo[Len(sizes)]

\* The possible results of an op, none when it aborts.  Type promotion gives
\* one of the operands' dtypes.
Execute(kind, t, dims) ==
  LET same == \A i, j \in DOMAIN t : t[i].dtype = t[j].dtype
      rank(i) == Len(t[i].sizes)
  IN CASE kind \in SameAsOperand -> {t[1]}
       [] kind = "mm" ->
            IF rank(1) = 2 /\ rank(2) = 2 /\ t[1].sizes[2] = t[2].sizes[1] /\ same
            THEN {Tensor(<<t[1].sizes[1], t[2].sizes[2]>>, t[1].dtype)} ELSE {}
       [] kind = "linear" ->
            IF rank(1) > 0 /\ rank(2) = 2 /\ Last(t[1].sizes) = t[2].sizes[2]
                 /\ t[3].sizes = <<t[2].sizes[1]>> /\ same
            THEN {Tensor(Append(Front(t[1].sizes), t[2].sizes[1]), t[1].dtype)} ELSE {}
       [] kind = "conv2d" ->
            IF rank(1) = 4 /\ rank(2) = 4 /\ t[1].dtype = t[2].dtype THEN {t[1]} ELSE {}
       [] kind = "max_pool2d" -> IF rank(1) = 4 THEN {t[1]} ELSE {}
       [] kind = "adaptive_avg_pool2d" ->
            IF rank(1) \in {3, 4}
            THEN {Tensor(SubSeq(t[1].sizes, 1, rank(1) - 2) \o <<1, 1>>, t[1].dtype)} ELSE {}
       [] kind = "add" ->
            IF CanBroadcast(t[1].sizes, t[2].sizes)
            THEN {Tensor(Broadcast(t[1].sizes, t[2].sizes), t[i].dtype) : i \in {1, 2}} ELSE {}
       [] kind = "lerp" ->
            IF CanBroadcast(t[1].sizes, t[2].sizes)
                 /\ CanBroadcast(Broadcast(t[1].sizes, t[2].sizes), t[3].sizes) /\ same
            THEN {Tensor(Broadcast(Broadcast(t[1].sizes, t[2].sizes), t[3].sizes), t[1].dtype)} ELSE {}
       [] kind = "flatten" ->
            LET start == Wrap(dims[1], rank(1))
                end   == Wrap(dims[2], rank(1))
            IN CASE rank(1) = 0 -> {Tensor(<<1>>, t[1].dtype)}
                 [] rank(1) > 0 /\ 0 <= start /\ start <= end /\ end < rank(1) ->
                      {Tensor(SubSeq(t[1].sizes, 1, start)
                                \o <<Product(SubSeq(t[1].sizes, start + 1, end + 1))>>
                                \o SubSeq(t[1].sizes, end + 2, rank(1)), t[1].dtype)}
                 [] OTHER -> {}
       [] kind = "unsqueeze" ->
            LET dim == Wrap(dims[1], rank(1) + 1)
            IN IF 0 <= dim /\ dim <= rank(1)
               THEN {Tensor(SubSeq(t[1].sizes, 1, dim) \o <<1>>
                              \o SubSeq(t[1].sizes, dim + 1, rank(1)), t[1].dtype)} ELSE {}

\* The result of a literal, a call or any other op is all its type says.
ResultsOf(op, t) ==
  IF op.kind \in Understood
  THEN UNION {Execute(op.kind, t, dims) : dims \in IF op.dims = <<>> THEN Dims ELSE {op.dims}}
  ELSE {tensor \in Others : Claims(op.type, tensor)}

\* A configuration of an execution: the next op and the values computed.
StartsOf(p) ==
  {[at |-> 1, env |-> env] :
     env \in {e \in [1 .. Len(p.args) -> Tensors] : \A v \in DOMAIN e : Claims(p.args[v], e[v])}}

Extended(c, n, v, tensor) ==
  [at |-> n, env |-> [x \in DOMAIN c.env \cup {v} |-> IF x = v THEN tensor ELSE c.env[x]]]

\* The operands that have been computed, and the last of them.
Have(op, env) == {i \in DOMAIN op.args : op.args[i] \in DOMAIN env}
Operand(op, env) == [i \in Have(op, env) |-> env[op.args[i]]]
Latest(op, env) == {i \in Have(op, env) : \A j \in Have(op, env) : j <= i}

\* A branch or an if takes one of its operands; a loop runs its body any
\* number of times, none included, which gives it its initial value.  A return
\* has no result; any other op needs all its operands.
StepsOf(p, c) ==
  LET op      == p.ops[c.at]
      v       == Result(p, c.at)
      have    == Have(op, c.env)
      latest  == Latest(op, c.env)
      operand == Operand(op, c.env)
  IN CASE op.kind \in {"block_arg", "if"} -> {Extended(c, c.at + 1, v, operand[i]) : i \in have}
       [] op.kind = "loop_arg" ->
            {Extended(c, n, v, operand[i]) : n \in {c.at + 1, op.dims[1]}, i \in latest}
       [] op.kind = "loop" ->
            {Extended(c, c.at + 1, v, operand[i]) : i \in latest} \cup
            {[at |-> op.dims[1], env |-> c.env] : i \in have \cap {2}}
       [] op.kind = "return" -> {[at |-> c.at + 1, env |-> c.env]}
       [] OTHER ->
            IF have = DOMAIN op.args
            THEN {Extended(c, c.at + 1, v, tensor) : tensor \in ResultsOf(op, operand)} ELSE {}

Reached(p) ==
  LET after[k \in Nat] ==
        IF k = 0 THEN StartsOf(p)
        ELSE UNION {StepsOf(p, c) : c \in {d \in after[k - 1] : d.at <= Len(p.ops)}}
  IN UNION {after[k] : k \in 0 .. MaxSteps}

-----------------------------------------------------------------------------
\* Properties

\* "The important invariant is that we cannot claim to know something about a
\* value which is false": a fact holds of every tensor the value ever is.
ClaimsAreTrue ==
  pc = "done" =>
    \A c \in Reached(prog) : \A v \in DOMAIN c.env : Claims(lattice[v], c.env[v])

\* The same of the facts that do not depend on a guess: through any chain of
\* ops, ifs and loops.
CertainClaimsAreTrue ==
  pc = "done" =>
    \A c \in Reached(prog) : \A v \in DOMAIN c.env \cap Certain : Claims(lattice[v], c.env[v])

=============================================================================
