-------------------------- MODULE RefineTypesProofs --------------------------
(***************************************************************************)
(* Theorems about torch-refine-types, for every set of programs.           *)
(***************************************************************************)
EXTENDS TensorExecution, SequenceTheorems, FunctionTheorems, InductionLemmas, TLAPS

\* A user that does not allow refinement still has the operand it had: the
\* value with the type it was declared with, or one cast back to that type.
Undisturbed(use) ==
  LET v == prog.ops[use[1]].args[use[2]]
  IN \/ form[use] = "erased"
     \/ form[use] = "itself" /\ types[v] = DeclaredType(prog, v)

UsersInv ==
  \A use \in Uses(prog) : ~ AllowsTypeRefinement(prog.ops[use[1]].kind) => Undisturbed(use)

-----------------------------------------------------------------------------
\* Facts

LEMMA KnowledgeFields ==
  ASSUME NEW k \in Knowledge
  PROVE  /\ k.hasSizes \in BOOLEAN /\ k.sizes \in Seq(Size) /\ k.dtype \in Dtypes \cup {NoDtype}
         /\ k.sizes # <<>> => k.hasSizes
BY DEF Knowledge

LEMMA KnowledgeMade ==
  ASSUME NEW d \in Dtypes \cup {NoDtype}
  PROVE  /\ Unsized(d) \in Knowledge
         /\ \A s \in Seq(Size) : Sized(s, d) \in Knowledge
<1>1. <<>> \in Seq(Size)
  OBVIOUS
<1> QED
  BY <1>1 DEF Knowledge, Sized, Unsized

LEMMA UnknownSizesType ==
  ASSUME NEW n \in Nat
  PROVE  UnknownSizes(n) \in Seq(Size) /\ Len(UnknownSizes(n)) = n
BY DEF UnknownSizes, Size, kUnknownSize

\* The join of two facts is a fact: unknown sizes are those of an unknown rank.
LEMMA JoinKnowledge ==
  ASSUME NEW lhs \in Knowledge, NEW rhs \in Knowledge
  PROVE  /\ JoinElementTypes(lhs.dtype, rhs.dtype) \in Dtypes \cup {NoDtype}
         /\ Join(lhs, rhs) \in Knowledge
<1>1. /\ lhs.sizes \in Seq(Size) /\ rhs.sizes \in Seq(Size) /\ lhs.hasSizes \in BOOLEAN /\ rhs.hasSizes \in BOOLEAN
      /\ lhs.dtype \in Dtypes \cup {NoDtype} /\ rhs.dtype \in Dtypes \cup {NoDtype}
  BY KnowledgeFields
<1>2. JoinElementTypes(lhs.dtype, rhs.dtype) \in Dtypes \cup {NoDtype}
  BY <1>1 DEF JoinElementTypes
<1> DEFINE both == [i \in 1 .. Len(lhs.sizes) |-> JoinSize(lhs.sizes[i], rhs.sizes[i])]
<1>3. Len(lhs.sizes) = Len(rhs.sizes) => both \in Seq(Size)
  <2> HAVE Len(lhs.sizes) = Len(rhs.sizes)
  <2>1. Len(lhs.sizes) \in Nat
    BY <1>1
  <2>2. \A i \in 1 .. Len(lhs.sizes) : JoinSize(lhs.sizes[i], rhs.sizes[i]) \in Size
    BY <1>1 DEF JoinSize, Size, kUnknownSize
  <2> QED
    BY <2>1, <2>2
<1> DEFINE dtype == JoinElementTypes(lhs.dtype, rhs.dtype)
<1>4. /\ Unsized(dtype) \in Knowledge /\ Sized(lhs.sizes, dtype) \in Knowledge
      /\ Sized(rhs.sizes, dtype) \in Knowledge
      /\ Len(lhs.sizes) = Len(rhs.sizes) => Sized(both, dtype) \in Knowledge
  BY <1>1, <1>2, <1>3, KnowledgeMade
<1> HIDE DEF dtype, both
<1>5. \/ Join(lhs, rhs) = Unsized(dtype)
      \/ Join(lhs, rhs) = Sized(lhs.sizes, dtype)
      \/ Join(lhs, rhs) = Sized(rhs.sizes, dtype)
      \/ (Len(lhs.sizes) = Len(rhs.sizes) /\ Join(lhs, rhs) = Sized(both, dtype))
  BY <1>1 DEF Join, dtype, both
<1> QED
  BY <1>2, <1>4, <1>5

-----------------------------------------------------------------------------
\* Transfer functions

\* Static facts about operands in the order of an op's signature.
LEMMA UnaryTransferKnowledge ==
  ASSUME NEW k, k[1] \in Knowledge
  PROVE  MaxPool2dTransfer(k) \in Knowledge /\ AdaptiveAvgPool2dTransfer(k) \in Knowledge
<1>1. k[1].dtype \in Dtypes \cup {NoDtype} /\ Len(k[1].sizes) \in Nat
  BY KnowledgeFields
<1>2. UnknownSizes(4) \in Seq(Size) /\ UnknownSizes(Len(k[1].sizes)) \in Seq(Size)
  BY <1>1, UnknownSizesType
<1> QED
  BY <1>1, <1>2, KnowledgeMade DEF MaxPool2dTransfer, AdaptiveAvgPool2dTransfer

LEMMA BroadcastKnowledge ==
  ASSUME NEW lhs \in Knowledge, NEW rhs \in Knowledge
  PROVE  BroadcastTransfer(lhs, rhs) \in Knowledge
<1> DEFINE rank == IF Len(lhs.sizes) > Len(rhs.sizes) THEN Len(lhs.sizes) ELSE Len(rhs.sizes)
<1>1. rank \in Nat
  BY KnowledgeFields
<1>2. UnknownSizes(rank) \in Seq(Size)
  BY <1>1, UnknownSizesType
<1> HIDE DEF rank
<1>3. JoinElementTypes(lhs.dtype, rhs.dtype) \in Dtypes \cup {NoDtype}
  BY JoinKnowledge
<1>4. /\ Sized(UnknownSizes(rank), JoinElementTypes(lhs.dtype, rhs.dtype)) \in Knowledge
      /\ Unsized(JoinElementTypes(lhs.dtype, rhs.dtype)) \in Knowledge
  BY <1>2, <1>3, KnowledgeMade
<1> QED
  BY <1>4 DEF BroadcastTransfer, rank

LEMMA BinaryTransferKnowledge ==
  ASSUME NEW k, k[1] \in Knowledge, k[2] \in Knowledge
  PROVE  /\ MmTransfer(k) \in Knowledge /\ Conv2dTransfer(k) \in Knowledge
         /\ BroadcastTransfer(k[1], k[2]) \in Knowledge /\ LerpTransfer(k) \in Knowledge
<1>1. JoinElementTypes(k[1].dtype, k[2].dtype) \in Dtypes \cup {NoDtype}
  BY JoinKnowledge
<1>2. UnknownSizes(2) \in Seq(Size) /\ UnknownSizes(4) \in Seq(Size)
  BY UnknownSizesType
<1>3. MmTransfer(k) \in Knowledge /\ Conv2dTransfer(k) \in Knowledge
  BY <1>1, <1>2, KnowledgeMade DEF MmTransfer, Conv2dTransfer
<1> QED
  BY <1>3, BroadcastKnowledge DEF LerpTransfer

LEMMA LinearKnowledge ==
  ASSUME NEW k, k[1] \in Knowledge, k[2] \in Knowledge, k[3] \in Knowledge
  PROVE  LinearTransfer(k) \in Knowledge
<1> DEFINE rank  == Len(k[1].sizes)
           dtype == JoinElementTypes(k[1].dtype, JoinElementTypes(k[2].dtype, k[3].dtype))
           sizes == IF rank > 0 THEN [k[1].sizes EXCEPT ![rank] = kUnknownSize] ELSE k[1].sizes
<1>1. k[1].sizes \in Seq(Size) /\ k[1].hasSizes \in BOOLEAN /\ (k[1].sizes # <<>> => k[1].hasSizes)
      /\ \A i \in {1, 2, 3} : k[i].dtype \in Dtypes \cup {NoDtype}
  BY KnowledgeFields
<1>2. dtype \in Dtypes \cup {NoDtype}
  BY <1>1 DEF JoinElementTypes
<1>3. sizes \in Seq(Size) /\ (sizes # <<>> => k[1].sizes # <<>>)
  <2>1. kUnknownSize \in Size
    BY DEF Size
  <2> QED
    BY <1>1, <2>1
<1> HIDE DEF dtype, sizes
<1>4. LinearTransfer(k) = [k[1] EXCEPT !.sizes = sizes, !.dtype = dtype]
  BY DEF LinearTransfer, sizes, dtype
<1>5. k[1] \in [hasSizes : BOOLEAN, sizes : Seq(Size), dtype : Dtypes \cup {NoDtype}]
  BY DEF Knowledge
<1>6. LinearTransfer(k) = [hasSizes |-> k[1].hasSizes, sizes |-> sizes, dtype |-> dtype]
  BY <1>4, <1>5
<1> QED
  BY <1>1, <1>2, <1>3, <1>6 DEF Knowledge

LEMMA FlattenKnowledge ==
  ASSUME NEW k, k[1] \in Knowledge, NEW dims \in Seq(Int), Len(dims) \in {0, 2}
  PROVE  FlattenTransfer(k, dims) \in Knowledge
<1> DEFINE rank  == Len(k[1].sizes)
           start == Wrap(dims[1], rank)
           end   == Wrap(dims[2], rank)
           flat  == SubSeq(k[1].sizes, 1, start) \o UnknownSizes(1) \o SubSeq(k[1].sizes, end + 2, rank)
<1>1. k[1].sizes \in Seq(Size) /\ k[1].dtype \in Dtypes \cup {NoDtype} /\ rank \in Nat
  BY KnowledgeFields
<1>2. UnknownSizes(1) \in Seq(Size)
  BY UnknownSizesType
<1>3. dims # <<>> /\ 0 <= start /\ start <= end /\ end < rank => flat \in Seq(Size)
  <2> HAVE dims # <<>> /\ 0 <= start /\ start <= end /\ end < rank
  <2>1. Len(dims) = 2
    BY EmptySeq
  <2>2. dims[1] \in Int /\ dims[2] \in Int
    <3>1. 1 \in 1 .. Len(dims) /\ 2 \in 1 .. Len(dims)
      BY <2>1
    <3> QED
      BY <3>1, ElementOfSeq
  <2>3. start \in Int /\ end \in Int
    BY <1>1, <2>2 DEF Wrap
  <2>4. SubSeq(k[1].sizes, 1, start) \in Seq(Size) /\ SubSeq(k[1].sizes, end + 2, rank) \in Seq(Size)
    <3>1. \A i \in 1 .. start : k[1].sizes[i] \in Size
      BY <1>1, <2>3
    <3>2. \A i \in end + 2 .. rank : k[1].sizes[i] \in Size
      BY <1>1, <2>3
    <3> QED
      BY <1>1, <2>3, <3>1, <3>2, SubSeqProperties
  <2> QED
    BY <1>2, <2>4
<1> HIDE DEF flat
<1>4. /\ Unsized(k[1].dtype) \in Knowledge /\ Sized(UnknownSizes(1), k[1].dtype) \in Knowledge
      /\ flat \in Seq(Size) => Sized(flat, k[1].dtype) \in Knowledge
  BY <1>1, <1>2, KnowledgeMade
<1> QED
  BY <1>3, <1>4 DEF FlattenTransfer, flat

LEMMA UnsqueezeKnowledge ==
  ASSUME NEW k, k[1] \in Knowledge, NEW dims \in Seq(Int)
  PROVE  UnsqueezeTransfer(k, dims) \in Knowledge
<1> DEFINE rank == Len(k[1].sizes)
           dim  == Wrap(dims[1], rank + 1)
           more == InsertAt(k[1].sizes, dim + 1, 1)
<1>1. k[1].sizes \in Seq(Size) /\ k[1].dtype \in Dtypes \cup {NoDtype} /\ rank \in Nat
  BY KnowledgeFields
<1>2. dims # <<>> /\ 0 <= dim /\ dim <= rank => more \in Seq(Size)
  <2> HAVE dims # <<>> /\ 0 <= dim /\ dim <= rank
  <2>1. dims[1] \in Int
    BY EmptySeq
  <2>2. dim \in Int
    BY <1>1, <2>1 DEF Wrap
  <2>3. SubSeq(k[1].sizes, 1, dim) \in Seq(Size) /\ SubSeq(k[1].sizes, dim + 1, rank) \in Seq(Size)
    <3>1. \A i \in 1 .. dim : k[1].sizes[i] \in Size
      BY <1>1, <2>2
    <3>2. \A i \in dim + 1 .. rank : k[1].sizes[i] \in Size
      BY <1>1, <2>2
    <3> QED
      BY <1>1, <2>2, <3>1, <3>2, SubSeqProperties
  <2>4. <<1>> \in Seq(Size)
    BY DEF Size
  <2>5. more = SubSeq(k[1].sizes, 1, dim) \o <<1>> \o SubSeq(k[1].sizes, dim + 1, rank)
    <3>1. (dim + 1) - 1 = dim
      BY <2>2
    <3> QED
      BY <3>1, Zenon DEF InsertAt
  <2>6. PICK low \in Seq(Size), high \in Seq(Size) :
          low = SubSeq(k[1].sizes, 1, dim) /\ high = SubSeq(k[1].sizes, dim + 1, rank)
    BY <2>3, Zenon
  <2>7. low \o <<1>> \in Seq(Size)
    BY <2>4
  <2>8. (low \o <<1>>) \o high \in Seq(Size)
    <3>1. PICK begin \in Seq(Size) : begin = low \o <<1>>
      BY <2>7, Zenon
    <3>2. begin \o high \in Seq(Size)
      OBVIOUS
    <3> QED
      BY <3>1, <3>2, Zenon
  <2>9. more = (low \o <<1>>) \o high
    BY <2>5, <2>6, Zenon
  <2> QED
    BY <2>8, <2>9, Zenon
<1> HIDE DEF more
<1>3. /\ Unsized(k[1].dtype) \in Knowledge
      /\ more \in Seq(Size) => Sized(more, k[1].dtype) \in Knowledge
  BY <1>1, KnowledgeMade
<1> QED
  BY <1>2, <1>3 DEF UnsqueezeTransfer, more

LEMMA TransferKnowledge ==
  ASSUME NEW kind \in Understood, NEW k, NEW dims \in Seq(Int),
         k[1] \in Knowledge,
         kind \in {"mm", "conv2d", "add", "linear", "lerp"} => k[2] \in Knowledge,
         kind = "linear" => k[3] \in Knowledge,
         kind = "flatten" => Len(dims) \in {0, 2}
  PROVE  Transfer(kind, k, dims) \in Knowledge
<1>1. CASE kind \in SameAsOperand
  BY <1>1 DEF Transfer, SameAsOperand
<1>2. CASE kind \in {"max_pool2d", "adaptive_avg_pool2d"}
  BY <1>2, UnaryTransferKnowledge DEF Transfer, SameAsOperand
<1>3. CASE kind \in {"mm", "conv2d", "add", "lerp"}
  BY <1>3, BinaryTransferKnowledge DEF Transfer, SameAsOperand
<1>4. CASE kind = "linear"
  BY <1>4, LinearKnowledge DEF Transfer, SameAsOperand
<1>5. CASE kind = "flatten"
  BY <1>5, FlattenKnowledge DEF Transfer, SameAsOperand
<1>6. CASE kind = "unsqueeze"
  BY <1>6, UnsqueezeKnowledge DEF Transfer, SameAsOperand
<1> QED
  BY <1>1, <1>2, <1>3, <1>4, <1>5, <1>6 DEF Understood

-----------------------------------------------------------------------------
\* Programs

LEMMA ProgramFacts ==
  ASSUME NEW p \in Programs
  PROVE  /\ Len(p.args) \in Nat /\ Len(p.ops) \in Nat /\ Ops(p) = 1 .. Len(p.ops)
         /\ \A v \in Values(p) : DeclaredType(p, v) \in Knowledge
         /\ \A n \in Ops(p) : Result(p, n) \in Values(p)
         /\ \A use \in Uses(p) : /\ use[1] \in Ops(p) /\ use[2] \in DOMAIN p.ops[use[1]].args
                                 /\ use[2] # 0 /\ use = <<use[1], use[2]>>
                                 /\ p.ops[use[1]].args[use[2]] \in Values(p)
         /\ \A n \in Ops(p) : \A i \in DOMAIN p.ops[n].args : <<n, i>> \in Uses(p)
<1>1. /\ p.args \in Seq(Knowledge) /\ DOMAIN p.ops = 1 .. Len(p.ops) /\ Len(p.ops) \in Nat
      /\ \A n \in Ops(p) : p.ops[n].args \in Seq(Values(p)) /\ p.ops[n].type \in Knowledge
  BY ProgramsWellFormed
<1>2. Len(p.args) \in Nat /\ Len(p.ops) \in Nat /\ Ops(p) = 1 .. Len(p.ops)
  BY <1>1 DEF Ops
<1>3. \A v \in Values(p) : DeclaredType(p, v) \in Knowledge
  <2> TAKE v \in Values(p)
  <2>1. v \in 1 .. Len(p.args) + Len(p.ops)
    BY DEF Values
  <2>2. CASE v <= Len(p.args)
    BY <1>1, <1>2, <2>1, <2>2 DEF DeclaredType
  <2>3. CASE ~ (v <= Len(p.args))
    <3>1. v - Len(p.args) \in Ops(p)
      <4>1. PICK a \in Nat, b \in Nat : a = Len(p.args) /\ b = Len(p.ops)
        BY <1>2
      <4>2. v \in 1 .. a + b /\ ~ (v <= a)
        BY <2>1, <2>3, <4>1
      <4>3. v - a \in 1 .. b
        BY <4>2
      <4> QED
        BY <1>2, <4>1, <4>3
    <3> QED
      BY <1>1, <2>3, <3>1 DEF DeclaredType
  <2> QED
    BY <2>2, <2>3
<1>4. \A n \in Ops(p) : Result(p, n) \in Values(p)
  <2>1. PICK a \in Nat, b \in Nat : a = Len(p.args) /\ b = Len(p.ops)
    BY <1>2
  <2>2. \A n \in 1 .. b : a + n \in 1 .. a + b
    OBVIOUS
  <2>3. Values(p) = 1 .. a + b /\ Ops(p) = 1 .. b
    BY <1>2, <2>1 DEF Values
  <2>4. \A n : Result(p, n) = a + n
    BY <2>1 DEF Result
  <2> QED
    BY <2>2, <2>3, <2>4
<1>5. ASSUME NEW n \in Ops(p), NEW i \in DOMAIN p.ops[n].args
      PROVE  i # 0 /\ p.ops[n].args[i] \in Values(p)
  BY <1>1
<1>6. \A use \in Uses(p) : \E n \in Ops(p) : \E i \in DOMAIN p.ops[n].args : use = <<n, i>>
  BY DEF Uses
<1>7. \A n \in Ops(p) : \A i \in DOMAIN p.ops[n].args : <<n, i>> \in Uses(p)
  BY DEF Uses
<1> QED
  BY <1>1, <1>2, <1>3, <1>4, <1>5, <1>6, <1>7

LEMMA UsersType ==
  ASSUME NEW p \in Programs, NEW v
  PROVE  Users(p, v) \subseteq (Ops(p) \X {0}) \cup Uses(p)
<1>1. \A use \in UsesOf(p, v) : use \in Uses(p) /\ use[1] \in Ops(p)
  BY ProgramFacts DEF UsesOf
<1> QED
  BY <1>1 DEF Users

\* The operands an op is visited with.
LEMMA VisitedKnowledge ==
  ASSUME TypeOK, prog \in Programs, NEW n \in Ops(prog),
         \A i \in DOMAIN OperandFacts(n) : OperandFacts(n)[i] # Null
  PROVE  (IF prog.ops[n].kind \in Understood
          THEN Transfer(prog.ops[n].kind, OperandFacts(n), prog.ops[n].dims)
          ELSE prog.ops[n].type) \in Knowledge
<1> DEFINE op == prog.ops[n]
           k  == OperandFacts(n)
<1>1. /\ op.args \in Seq(Values(prog)) /\ op.dims \in Seq(Int) /\ op.type \in Knowledge
      /\ op.kind \in Understood => op.args # <<>>
      /\ op.kind \in {"mm", "conv2d", "add"} => Len(op.args) = 2
      /\ op.kind \in {"linear", "lerp"} => Len(op.args) = 3
      /\ op.kind = "flatten" => Len(op.dims) \in {0, 2}
  BY ProgramsWellFormed
<1>2. \A i \in DOMAIN op.args : k[i] = lattice[op.args[i]] /\ op.args[i] \in Values(prog)
  BY <1>1 DEF OperandFacts
<1>3. \A i \in DOMAIN op.args : k[i] \in Knowledge
  <2>1. DOMAIN k = DOMAIN op.args
    BY DEF OperandFacts
  <2>2. \A v \in Values(prog) : lattice[v] = Null \/ lattice[v] \in Knowledge
    BY DEF TypeOK
  <2> QED
    BY <1>2, <2>1, <2>2
<1>4. ASSUME op.kind \in Understood
      PROVE  Transfer(op.kind, k, op.dims) \in Knowledge
  <2>1. 1 \in DOMAIN op.args
    BY <1>1, <1>4, EmptySeq
  <2>2. op.kind \in {"mm", "conv2d", "add", "linear", "lerp"} => 2 \in DOMAIN op.args
    BY <1>1
  <2>3. op.kind = "linear" => 3 \in DOMAIN op.args
    BY <1>1
  <2> HIDE DEF op, k
  <2> QED
    BY <1>1, <1>3, <1>4, <2>1, <2>2, <2>3, TransferKnowledge
<1> QED
  BY <1>1, <1>4

-----------------------------------------------------------------------------
\* The invariant

IInv == TypeOK /\ prog \in Programs /\ UsersInv

LEMMA InitIInv ==
  ASSUME Init
  PROVE  IInv
<1>1. prog \in Programs
  BY DEF Init
<1>2. \A v \in Values(prog) : DeclaredType(prog, v) \in Knowledge
  BY <1>1, ProgramFacts
<1>3. pending \subseteq (Ops(prog) \X {0}) \cup Uses(prog)
  <2>1. {<<n, 0>> : n \in {m \in Ops(prog) : prog.ops[m].args = <<>>}} \subseteq Ops(prog) \X {0}
    OBVIOUS
  <2>2. \A v \in 1 .. Len(prog.args) : Users(prog, v) \subseteq (Ops(prog) \X {0}) \cup Uses(prog)
    BY <1>1, UsersType
  <2>3. UNION {Users(prog, v) : v \in 1 .. Len(prog.args)} \subseteq (Ops(prog) \X {0}) \cup Uses(prog)
    BY <2>2
  <2> QED
    BY <2>1, <2>3 DEF Init
<1>4. TypeOK
  <2>1. nextOp \in 1 .. Len(prog.ops) + 1
    BY <1>1, ProgramFacts DEF Init
  <2>2. /\ DOMAIN lattice = Values(prog) /\ DOMAIN types = Values(prog)
        /\ \A v \in Values(prog) : lattice[v] = Null \/ lattice[v] \in Knowledge
        /\ \A v \in Values(prog) : types[v] \in Knowledge
    BY <1>2 DEF Init
  <2>3. form \in [Uses(prog) -> {"itself", "refined", "erased"}] /\ pc = "analyze"
    BY DEF Init
  <2> QED
    BY <1>3, <2>1, <2>2, <2>3 DEF TypeOK
<1>5. UsersInv
  <2>1. \A use \in Uses(prog) : /\ form[use] = "itself"
                                /\ prog.ops[use[1]].args[use[2]] \in Values(prog)
    BY <1>1, ProgramFacts DEF Init
  <2>2. \A v \in Values(prog) : types[v] = DeclaredType(prog, v)
    BY DEF Init
  <2> QED
    BY <2>1, <2>2 DEF UsersInv, Undisturbed
<1> QED
  BY <1>1, <1>4, <1>5 DEF IInv

\* A change of facts: the part of a visit that VisitOperation and
\* VisitSuccessor share.
LEMMA UpdateIInv ==
  ASSUME IInv, NEW visit, NEW v \in Values(prog), NEW fact \in Knowledge,
         Update(visit, v, fact), UNCHANGED <<prog, pc, nextOp, types, form>>
  PROVE  IInv'
<1>1. prog \in Programs /\ TypeOK /\ UsersInv /\ prog' = prog
  BY DEF IInv
<1>2. LatticeJoin(v, fact) \in Knowledge
  <2>1. lattice[v] = Null \/ lattice[v] \in Knowledge
    BY <1>1 DEF TypeOK
  <2>2. CASE lattice[v] = Null
    <3>1. lattice[v] = DeclaredType(prog, v) => DeclaredType(prog, v) = Null
      BY <2>2
    <3>2. LatticeJoin(v, fact) \in {fact, lattice[v]}
      BY <2>2 DEF LatticeJoin
    <3>3. lattice[v] = DeclaredType(prog, v) => lattice[v] \in Knowledge
      BY <1>1, ProgramFacts
    <3>4. LatticeJoin(v, fact) = fact \/ lattice[v] = DeclaredType(prog, v)
      BY <2>2 DEF LatticeJoin
    <3> QED
      BY <3>2, <3>3, <3>4
  <2>3. CASE lattice[v] # Null
    <3>1. Join(lattice[v], fact) \in Knowledge
      BY <2>1, <2>3, JoinKnowledge
    <3> QED
      BY <2>1, <2>3, <3>1 DEF LatticeJoin
  <2> QED
    BY <2>2, <2>3
<1>3. lattice' = [lattice EXCEPT ![v] = LatticeJoin(v, fact)]
  BY DEF Update
<1>4. DOMAIN lattice' = Values(prog) /\ \A w \in Values(prog) : lattice'[w] = Null \/ lattice'[w] \in Knowledge
  BY <1>1, <1>2, <1>3 DEF TypeOK
<1>5. pending' \subseteq (Ops(prog) \X {0}) \cup Uses(prog)
  <2>1. Users(prog, v) \subseteq (Ops(prog) \X {0}) \cup Uses(prog)
    BY <1>1, UsersType
  <2>2. pending' \subseteq pending \cup Users(prog, v)
    BY DEF Update
  <2> QED
    BY <1>1, <2>1, <2>2 DEF TypeOK
<1>6. TypeOK'
  BY <1>1, <1>4, <1>5 DEF TypeOK
<1>7. UsersInv'
  BY <1>1 DEF UsersInv, Undisturbed
<1> QED
  BY <1>1, <1>6, <1>7 DEF IInv

\* A visit that finds a fact missing.
LEMMA DropIInv ==
  ASSUME IInv, NEW visit, pending' = pending \ {visit},
         UNCHANGED <<prog, pc, lattice, nextOp, types, form>>
  PROVE  IInv'
<1>1. pending' \subseteq pending
  OBVIOUS
<1>2. TypeOK'
  BY <1>1 DEF IInv, TypeOK
<1> QED
  BY <1>2 DEF IInv, UsersInv, Undisturbed

LEMMA VisitOperationIInv ==
  ASSUME IInv, NEW n, VisitOperation(n)
  PROVE  IInv'
<1>1. prog \in Programs /\ TypeOK /\ n \in Ops(prog)
  BY ProgramFacts DEF IInv, TypeOK, VisitOperation
<1>2. UNCHANGED <<prog, pc, nextOp, types, form>>
  BY DEF VisitOperation
<1>3. CASE \E i \in DOMAIN OperandFacts(n) : OperandFacts(n)[i] = Null
  <2>1. pending' = pending \ {<<n, 0>>} /\ UNCHANGED lattice
    BY <1>3 DEF VisitOperation
  <2> QED
    BY <1>2, <2>1, DropIInv
<1>4. CASE ~ \E i \in DOMAIN OperandFacts(n) : OperandFacts(n)[i] = Null
  <2> DEFINE fact == IF prog.ops[n].kind \in Understood
                     THEN Transfer(prog.ops[n].kind, OperandFacts(n), prog.ops[n].dims)
                     ELSE prog.ops[n].type
  <2>1. fact \in Knowledge
    BY <1>1, <1>4, VisitedKnowledge
  <2>2. Update(<<n, 0>>, Result(prog, n), fact)
    BY <1>4 DEF VisitOperation
  <2>3. Result(prog, n) \in Values(prog)
    BY <1>1, ProgramFacts
  <2> HIDE DEF fact
  <2> QED
    BY <1>2, <2>1, <2>2, <2>3, UpdateIInv
<1> QED
  BY <1>3, <1>4

LEMMA VisitSuccessorIInv ==
  ASSUME IInv, NEW n, NEW i, VisitSuccessor(n, i)
  PROVE  IInv'
<1>1. prog \in Programs /\ TypeOK /\ <<n, i>> \in Uses(prog)
  BY DEF IInv, TypeOK, VisitSuccessor
<1>2. UNCHANGED <<prog, pc, nextOp, types, form>>
  BY DEF VisitSuccessor
<1> DEFINE fact == lattice[prog.ops[n].args[i]]
<1>3. fact = Null \/ fact \in Knowledge
  <2>1. prog.ops[n].args[i] \in Values(prog)
    BY <1>1, ProgramFacts
  <2> QED
    BY <1>1, <2>1 DEF TypeOK
<1>4. n \in Ops(prog) /\ Result(prog, n) \in Values(prog)
  BY <1>1, ProgramFacts
<1>5. CASE fact = Null
  <2>1. pending' = pending \ {<<n, i>>} /\ UNCHANGED lattice
    BY <1>5 DEF VisitSuccessor
  <2> QED
    BY <1>2, <2>1, DropIInv
<1>6. CASE fact # Null
  <2>1. Update(<<n, i>>, Result(prog, n), fact)
    BY <1>6 DEF VisitSuccessor
  <2> HIDE DEF fact
  <2> QED
    BY <1>2, <1>3, <1>4, <1>6, <2>1, UpdateIInv
<1> QED
  BY <1>5, <1>6

\* The rewriting of one result.  Users that do not allow refinement get the
\* value cast back; for all others nothing is claimed.
LEMMA RefineUsesInv ==
  ASSUME IInv, NEW v \in Values(prog), NEW new \in {"itself", "refined"},
         RefineUses(v, new), prog' = prog,
         \A w \in Values(prog) \ {v} : types'[w] = types[w]
  PROVE  form' \in [Uses(prog) -> {"itself", "refined", "erased"}] /\ UsersInv'
<1>1. prog \in Programs /\ form \in [Uses(prog) -> {"itself", "refined", "erased"}] /\ UsersInv
  BY DEF IInv, TypeOK
<1>2. form' = [use \in Uses(prog) |->
                 IF use \notin UsesOf(prog, v) THEN form[use]
                 ELSE IF AllowsTypeRefinement(prog.ops[use[1]].kind) THEN new ELSE "erased"]
  BY DEF RefineUses
<1>3. \A use \in Uses(prog) : use \notin UsesOf(prog, v) => form'[use] = form[use]
  BY <1>2
<1>4. \A use \in UsesOf(prog, v) :
        form'[use] = IF AllowsTypeRefinement(prog.ops[use[1]].kind) THEN new ELSE "erased"
  BY <1>2 DEF UsesOf
<1>5. \A use \in Uses(prog) : form'[use] \in {"itself", "refined", "erased"}
  BY <1>1, <1>3, <1>4
<1>6. form' \in [Uses(prog) -> {"itself", "refined", "erased"}]
  <2> DEFINE F(use) == IF use \notin UsesOf(prog, v) THEN form[use]
                       ELSE IF AllowsTypeRefinement(prog.ops[use[1]].kind) THEN new ELSE "erased"
  <2>1. form' = [use \in Uses(prog) |-> F(use)]
    BY <1>2
  <2> HIDE DEF F
  <2> QED
    BY <1>5, <2>1
<1>7. UsersInv'
  <2> SUFFICES ASSUME NEW use \in Uses(prog), ~ AllowsTypeRefinement(prog.ops[use[1]].kind)
               PROVE  \/ form'[use] = "erased"
                      \/ /\ form'[use] = "itself"
                         /\ types'[prog.ops[use[1]].args[use[2]]] =
                              DeclaredType(prog, prog.ops[use[1]].args[use[2]])
    BY DEF UsersInv, Undisturbed
  <2>1. CASE use \in UsesOf(prog, v)
    BY <1>4, <2>1
  <2>2. CASE use \notin UsesOf(prog, v)
    <3>1. prog.ops[use[1]].args[use[2]] \in Values(prog) \ {v}
      BY <1>1, <2>2, ProgramFacts DEF UsesOf
    <3> QED
      BY <1>1, <1>3, <2>2, <3>1 DEF UsersInv, Undisturbed
  <2> QED
    BY <2>1, <2>2
<1> QED
  BY <1>6, <1>7

LEMMA OptimizeResultIInv ==
  ASSUME IInv, OptimizeResult
  PROVE  IInv'
<1> DEFINE v    == Result(prog, nextOp)
           kind == prog.ops[nextOp].kind
<1>1. TypeOK /\ prog \in Programs /\ UsersInv
  BY DEF IInv
<1>2. /\ nextOp <= Len(prog.ops) /\ nextOp' = nextOp + 1
      /\ prog' = prog /\ pc' = pc /\ lattice' = lattice /\ pending' = pending
  BY DEF OptimizeResult
<1>3. nextOp \in Ops(prog) /\ nextOp' \in 1 .. Len(prog.ops) + 1
  <2>1. nextOp \in 1 .. Len(prog.ops) + 1
    BY <1>1 DEF TypeOK
  <2>2. Len(prog.ops) \in Nat /\ Ops(prog) = 1 .. Len(prog.ops)
    BY <1>1, ProgramFacts
  <2> QED
    BY <1>2, <2>1, <2>2
<1>4. v \in Values(prog)
  BY <1>1, <1>3, ProgramFacts
<1> HIDE DEF v
<1>5. /\ DOMAIN types = Values(prog) /\ (lattice[v] = Null \/ lattice[v] \in Knowledge)
      /\ \A w \in Values(prog) : types[w] \in Knowledge
  BY <1>1, <1>4 DEF TypeOK
<1>6. ASSUME /\ DOMAIN types' = Values(prog)
             /\ \A w \in Values(prog) : types'[w] \in Knowledge
             /\ form' \in [Uses(prog) -> {"itself", "refined", "erased"}]
             /\ UsersInv'
      PROVE  IInv'
  BY <1>1, <1>2, <1>3, <1>6 DEF IInv, TypeOK
<1>7. CASE kind \in {"block_arg", "loop_arg"} \/ lattice[v] \in {Null, types[v]}
  <2>1. UNCHANGED <<types, form>>
    BY <1>7 DEF OptimizeResult, v
  <2>2. UsersInv'
    BY <1>1, <1>2, <2>1 DEF UsersInv, Undisturbed
  <2>3. form' \in [Uses(prog) -> {"itself", "refined", "erased"}]
    BY <1>1, <2>1 DEF TypeOK
  <2> QED
    BY <1>5, <1>6, <2>1, <2>2, <2>3
<1>8. CASE ~ (kind \in {"block_arg", "loop_arg"} \/ lattice[v] \in {Null, types[v]})
  <2>1. CASE AllowsTypeRefinement(kind)
    <3>1. types' = [types EXCEPT ![v] = lattice[v]] /\ RefineUses(v, "itself")
      BY <1>8, <2>1 DEF OptimizeResult, v
    <3>2. lattice[v] \in Knowledge
      BY <1>5, <1>8
    <3>3. /\ DOMAIN types' = Values(prog) /\ \A w \in Values(prog) : types'[w] \in Knowledge
          /\ \A w \in Values(prog) \ {v} : types'[w] = types[w]
      BY <1>5, <3>1, <3>2
    <3>4. form' \in [Uses(prog) -> {"itself", "refined", "erased"}] /\ UsersInv'
      BY <1>2, <1>4, <3>1, <3>3, RefineUsesInv
    <3> QED
      BY <1>6, <3>3, <3>4
  <2>2. CASE ~ AllowsTypeRefinement(kind)
    <3>1. types' = types /\ RefineUses(v, "refined")
      BY <1>8, <2>2 DEF OptimizeResult, v
    <3>2. form' \in [Uses(prog) -> {"itself", "refined", "erased"}] /\ UsersInv'
      BY <1>2, <1>4, <3>1, RefineUsesInv
    <3> QED
      BY <1>5, <1>6, <3>1, <3>2
  <2> QED
    BY <2>1, <2>2
<1> QED
  BY <1>7, <1>8

LEMMA NextIInv ==
  ASSUME IInv, [Next]_vars
  PROVE  IInv'
<1>1. ASSUME NEW visit \in pending, VisitOperation(visit[1]) \/ VisitSuccessor(visit[1], visit[2])
      PROVE  IInv'
  BY <1>1, VisitOperationIInv, VisitSuccessorIInv
<1>2. ASSUME AnalysisDone \/ OptimizeDone
      PROVE  IInv'
  <2>1. UNCHANGED <<prog, lattice, pending, nextOp, types, form>> /\ pc' \in {"optimize", "done"}
    BY <1>2 DEF AnalysisDone, OptimizeDone
  <2>2. TypeOK'
    BY <2>1 DEF IInv, TypeOK
  <2> QED
    BY <2>1, <2>2 DEF IInv, UsersInv, Undisturbed
<1>3. ASSUME UNCHANGED vars
      PROVE  IInv'
  BY <1>3 DEF vars, IInv, TypeOK, UsersInv, Undisturbed
<1> QED
  BY <1>1, <1>2, <1>3, OptimizeResultIInv DEF Next, PassNext, Terminated

LEMMA Invariant == Spec => []IInv
<1>1. Init => IInv
  BY InitIInv
<1>2. IInv /\ [Next]_vars => IInv'
  BY NextIInv
<1> QED
  BY <1>1, <1>2, PTL DEF Spec

-----------------------------------------------------------------------------
\* Every fact the analysis finds, whatever the program, is one that
\* ValueKnowledge can hold: sizes are recorded of tensors of known rank only
\* (the assertion of Torch's type verifier), and no visit leaves the program.
THEOREM RefineTypesTypeCorrect == Spec => []TypeOK
<1>1. IInv => TypeOK
  BY DEF IInv
<1> QED
  BY <1>1, Invariant, PTL

\* When torch-refine-types is done, an operand of an op that does not allow
\* type refinement has the type it had before, in every function and for
\* whatever facts were found.
THEOREM UsersKeep == Spec => []UsersKeepTheirTypes
<1>1. IInv => UsersKeepTheirTypes
  BY DEF IInv, UsersInv, Undisturbed, UsersKeepTheirTypes, TypeSeen
<1> QED
  BY <1>1, Invariant, PTL

-----------------------------------------------------------------------------
\* Facts that are up to date

\* Operands come before what uses them: there is no prim.Loop and no branch
\* back.  Where a fact is fed back the order of the visits can decide it.
NothingIsFedBack ==
  \A p \in Programs : \A n \in Ops(p) : \A i \in DOMAIN p.ops[n].args :
    p.ops[n].args[i] < Result(p, n)

IsJoining(n) == prog.ops[n].kind \in Joining
OperandFact(n, i) == lattice[prog.ops[n].args[i]]

\* What a visit of op n finds.
OpFact(n) ==
  LET op == prog.ops[n]
  IN IF op.kind \in Understood THEN Transfer(op.kind, OperandFacts(n), op.dims) ELSE op.type

\* A fact is the one its operands give, of which it needs all; what joins
\* them has the fact of one.
FollowsFromOperands(n) ==
  IF IsJoining(n)
  THEN \E i \in Incoming(prog.ops[n]) : OperandFact(n, i) = lattice[Result(prog, n)]
  ELSE /\ \A i \in DOMAIN prog.ops[n].args : OperandFact(n, i) # Null
       /\ lattice[Result(prog, n)] = OpFact(n)

\* Different facts meet in a value already.
Clash(n) ==
  /\ IsJoining(n)
  /\ \E i, j \in DOMAIN prog.ops[n].args :
       OperandFact(n, i) # Null /\ OperandFact(n, j) # Null /\ OperandFact(n, i) # OperandFact(n, j)

\* A set of values that are found from each other, without a clash.
Agreeing(S) ==
  \A n \in Ops(prog) : Result(prog, n) \in S =>
    ~ Clash(n) /\ \A i \in DOMAIN prog.ops[n].args : prog.ops[n].args[i] \in S

\* While the analysis runs, facts are up to date wherever there has been no
\* clash yet.
FactsInv ==
  \A S \in SUBSET Values(prog) : Agreeing(S) =>
    \A n \in Ops(prog) :
      Result(prog, n) \in S /\ lattice[Result(prog, n)] # Null => FollowsFromOperands(n)

\* What has no fact yet waits for an operand or is about to be visited.
Awaited(n) ==
  IF IsJoining(n)
  THEN \A i \in Incoming(prog.ops[n]) : OperandFact(n, i) = Null \/ <<n, i>> \in pending
  ELSE <<n, 0>> \in pending \/ \E i \in DOMAIN prog.ops[n].args : OperandFact(n, i) = Null

ReachedInv ==
  /\ \A v \in 1 .. Len(prog.args) : lattice[v] = DeclaredType(prog, v)
  /\ \A n \in Ops(prog) : lattice[Result(prog, n)] = Null => Awaited(n)
  /\ \A visit \in pending : IF visit[2] = 0 THEN ~ IsJoining(visit[1])
                            ELSE IsJoining(visit[1]) /\ visit[2] \in Incoming(prog.ops[visit[1]])
  /\ pc # "analyze" => pending = {}

-----------------------------------------------------------------------------
\* About programs and facts

LEMMA JoinSame ==
  ASSUME NEW k \in Knowledge
  PROVE  Join(k, k) = k
<1>1. /\ k.hasSizes \in BOOLEAN /\ k.sizes \in Seq(Size) /\ k.dtype \in Dtypes \cup {NoDtype}
      /\ k.sizes # <<>> => k.hasSizes
  BY KnowledgeFields
<1>2. k = [hasSizes |-> k.hasSizes, sizes |-> k.sizes, dtype |-> k.dtype]
  BY DEF Knowledge
<1>3. JoinElementTypes(k.dtype, k.dtype) = k.dtype
  BY DEF JoinElementTypes
<1>4. \A s : JoinSize(s, s) = s
  BY DEF JoinSize
<1>5. CASE k.hasSizes
  <2> DEFINE both == [i \in 1 .. Len(k.sizes) |-> JoinSize(k.sizes[i], k.sizes[i])]
  <2>1. both = k.sizes
    BY <1>1, <1>4
  <2>2. Join(k, k) = Sized(both, k.dtype)
    BY <1>3, <1>5 DEF Join
  <2> HIDE DEF both
  <2> QED
    BY <1>2, <1>5, <2>1, <2>2 DEF Sized
<1>6. CASE ~ k.hasSizes
  <2>1. Join(k, k) = Unsized(k.dtype)
    BY <1>3, <1>6 DEF Join
  <2>2. k.sizes = <<>> /\ k.hasSizes = FALSE
    BY <1>1, <1>6
  <2> QED
    BY <1>2, <2>1, <2>2 DEF Unsized
<1> QED
  BY <1>5, <1>6

\* Numbers of results and of arguments.
LEMMA ResultFacts ==
  ASSUME NEW p \in Programs
  PROVE  /\ \A n \in Ops(p) : Result(p, n) \in Nat /\ Result(p, n) > Len(p.args)
         /\ \A m, n \in Ops(p) : /\ Result(p, m) = Result(p, n) => m = n
                                 /\ Result(p, m) < Result(p, n) <=> m < n
         /\ \A v \in Values(p) : v \in Nat /\ (v \in 1 .. Len(p.args)
                                               \/ \E n \in Ops(p) : v = Result(p, n))
<1>1. PICK a \in Nat, b \in Nat : a = Len(p.args) /\ b = Len(p.ops)
  BY ProgramFacts
<1>2. Values(p) = 1 .. a + b /\ Ops(p) = 1 .. b
  BY <1>1, ProgramFacts DEF Values
<1>3. \A n : Result(p, n) = a + n
  BY <1>1 DEF Result
<1>4. \A m, n \in 1 .. b : /\ a + n \in Nat /\ a + n > a
                           /\ (a + m = a + n => m = n)
                           /\ (a + m < a + n <=> m < n)
  OBVIOUS
<1>5. \A v \in 1 .. a + b : v \in Nat /\ (v \in 1 .. a \/ \E n \in 1 .. b : v = a + n)
  <2> TAKE v \in 1 .. a + b
  <2>1. ~ (v \in 1 .. a) => v - a \in 1 .. b /\ v = a + (v - a)
    OBVIOUS
  <2> QED
    BY <2>1
<1>6. /\ \A n \in Ops(p) : Result(p, n) \in Nat /\ Result(p, n) > Len(p.args)
      /\ \A m, n \in Ops(p) : /\ Result(p, m) = Result(p, n) => m = n
                              /\ Result(p, m) < Result(p, n) <=> m < n
  BY <1>1, <1>2, <1>3, <1>4
<1>7. \A v \in Values(p) : v \in Nat /\ (v \in 1 .. a \/ \E n \in Ops(p) : v = Result(p, n))
  BY <1>2, <1>3, <1>5
<1> QED
  BY <1>1, <1>6, <1>7

LEMMA OperandFactsAre ==
  ASSUME prog \in Programs, NEW n \in Ops(prog)
  PROVE  /\ DOMAIN OperandFacts(n) = DOMAIN prog.ops[n].args
         /\ \A i \in DOMAIN prog.ops[n].args : /\ OperandFacts(n)[i] = OperandFact(n, i)
                                               /\ prog.ops[n].args[i] \in Values(prog)
                                               /\ <<n, i>> \in Uses(prog) /\ i # 0
         /\ Incoming(prog.ops[n]) \subseteq DOMAIN prog.ops[n].args
         /\ IsJoining(n) => Incoming(prog.ops[n]) # {}
<1>1. /\ prog.ops[n].args \in Seq(Values(prog))
      /\ IsJoining(n) => prog.ops[n].args # <<>>
      /\ prog.ops[n].kind \in {"loop_arg", "loop"} => Len(prog.ops[n].args) = 2
  BY ProgramsWellFormed DEF IsJoining
<1>2. Incoming(prog.ops[n]) \subseteq DOMAIN prog.ops[n].args
  BY <1>1 DEF Incoming
<1>3. IsJoining(n) => Incoming(prog.ops[n]) # {}
  <2> HAVE IsJoining(n)
  <2>1. CASE prog.ops[n].kind = "loop"
    BY <2>1 DEF Incoming
  <2>2. CASE prog.ops[n].kind # "loop"
    <3>1. PICK s \in Seq(Values(prog)) : s = prog.ops[n].args
      BY <1>1
    <3>2. s # <<>>
      BY <1>1, <3>1
    <3>3. 1 \in DOMAIN s
      BY <3>2, EmptySeq
    <3>4. DOMAIN prog.ops[n].args # {}
      BY <3>1, <3>3
    <3> QED
      BY <2>2, <3>4 DEF Incoming
  <2> QED
    BY <2>1, <2>2
<1> QED
  BY <1>1, <1>2, <1>3, ProgramFacts DEF OperandFacts, OperandFact

\* The users of a value are visited when its fact has changed.
LEMMA UsersAre ==
  ASSUME NEW p \in Programs, NEW n \in Ops(p), NEW i \in DOMAIN p.ops[n].args
  PROVE  /\ p.ops[n].kind \notin Joining => <<n, 0>> \in Users(p, p.ops[n].args[i])
         /\ p.ops[n].kind \in Joining /\ i \in Incoming(p.ops[n]) =>
              <<n, i>> \in Users(p, p.ops[n].args[i])
<1>1. <<n, i>> \in UsesOf(p, p.ops[n].args[i])
  BY ProgramFacts DEF UsesOf
<1> DEFINE use == <<n, i>>
<1>2. use[1] = n /\ use[2] = i
  OBVIOUS
<1> HIDE DEF use
<1>3. use \in UsesOf(p, p.ops[n].args[i])
  BY <1>1 DEF use
<1>4. CASE p.ops[n].kind \notin Joining
  <2>1. <<use[1], 0>> \in Users(p, p.ops[n].args[i])
    BY <1>2, <1>3, <1>4 DEF Users
  <2> QED
    BY <1>2, <1>4, <2>1
<1>5. CASE p.ops[n].kind \in Joining /\ i \in Incoming(p.ops[n])
  <2>1. use \in Users(p, p.ops[n].args[i])
    BY <1>2, <1>3, <1>5 DEF Users
  <2> QED
    BY <1>5, <2>1 DEF use
<1> QED
  BY <1>4, <1>5

LEMMA UsersAreVisits ==
  ASSUME NEW p \in Programs, NEW v, NEW visit \in Users(p, v)
  PROVE  IF visit[2] = 0 THEN p.ops[visit[1]].kind \notin Joining
         ELSE p.ops[visit[1]].kind \in Joining /\ visit[2] \in Incoming(p.ops[visit[1]])
<1>1. PICK use \in UsesOf(p, v) :
        /\ p.ops[use[1]].kind \in Joining => use[2] \in Incoming(p.ops[use[1]])
        /\ visit = IF p.ops[use[1]].kind \in Joining THEN use ELSE <<use[1], 0>>
  BY DEF Users
<1>2. use \in Uses(p) /\ use[2] # 0
  BY ProgramFacts DEF UsesOf
<1> QED
  BY <1>1, <1>2

-----------------------------------------------------------------------------
\* Steps of the analysis

LEMMA ReachedInit ==
  ASSUME Init
  PROVE  ReachedInv
<1>1. prog \in Programs /\ pc = "analyze"
  BY DEF Init
<1>2. Len(prog.args) \in Nat /\ \A v \in 1 .. Len(prog.args) : v \in Values(prog)
  <2>1. PICK a \in Nat, b \in Nat : a = Len(prog.args) /\ b = Len(prog.ops)
    BY <1>1, ProgramFacts
  <2>2. \A v \in 1 .. a : v \in 1 .. a + b
    OBVIOUS
  <2> QED
    BY <2>1, <2>2 DEF Values
<1>3. \A v \in 1 .. Len(prog.args) : lattice[v] = DeclaredType(prog, v) /\ Users(prog, v) \subseteq pending
  BY <1>2 DEF Init
<1>4. ASSUME NEW n \in Ops(prog)
      PROVE  Awaited(n)
  <2>1. \A i \in DOMAIN prog.ops[n].args :
          OperandFact(n, i) = Null \/ prog.ops[n].args[i] \in 1 .. Len(prog.args)
    <3> TAKE i \in DOMAIN prog.ops[n].args
    <3>1. prog.ops[n].args[i] \in Values(prog)
      BY <1>1, OperandFactsAre
    <3>2. CASE prog.ops[n].args[i] \in 1 .. Len(prog.args)
      BY <3>2
    <3>3. CASE prog.ops[n].args[i] \notin 1 .. Len(prog.args)
      <4>1. ~ (prog.ops[n].args[i] <= Len(prog.args))
        BY <1>1, <3>1, <3>3, ResultFacts
      <4> QED
        BY <3>1, <4>1 DEF Init, OperandFact
    <3> QED
      BY <3>2, <3>3
  <2>2. CASE IsJoining(n)
    <3>1. \A i \in Incoming(prog.ops[n]) : i \in DOMAIN prog.ops[n].args
      BY <1>1, OperandFactsAre
    <3>2. \A i \in Incoming(prog.ops[n]) : prog.ops[n].args[i] \in 1 .. Len(prog.args) => <<n, i>> \in pending
      BY <1>1, <1>3, <2>2, <3>1, UsersAre DEF IsJoining
    <3> QED
      BY <2>1, <2>2, <3>1, <3>2 DEF Awaited
  <2>3. CASE ~ IsJoining(n) /\ prog.ops[n].args = <<>>
    BY <2>3 DEF Init, Awaited
  <2>4. CASE ~ IsJoining(n) /\ prog.ops[n].args # <<>>
    <3>1. 1 \in DOMAIN prog.ops[n].args
      <4>1. PICK s \in Seq(Values(prog)) : s = prog.ops[n].args
        BY <1>1, ProgramsWellFormed
      <4> QED
        BY <2>4, <4>1, EmptySeq
    <3>2. prog.ops[n].args[1] \in 1 .. Len(prog.args) => <<n, 0>> \in pending
      BY <1>1, <1>3, <2>4, <3>1, UsersAre DEF IsJoining
    <3> QED
      BY <2>1, <2>4, <3>1, <3>2 DEF Awaited
  <2> QED
    BY <2>2, <2>3, <2>4
<1>5. ASSUME NEW visit \in pending
      PROVE  IF visit[2] = 0 THEN ~ IsJoining(visit[1])
             ELSE IsJoining(visit[1]) /\ visit[2] \in Incoming(prog.ops[visit[1]])
  <2>1. CASE visit \in {<<n, 0>> : n \in {m \in Ops(prog) : prog.ops[m].args = <<>>}}
    <3>1. PICK n \in Ops(prog) : prog.ops[n].args = <<>> /\ visit = <<n, 0>>
      BY <2>1
    <3>2. ~ IsJoining(n)
      BY <1>1, <3>1, ProgramsWellFormed DEF IsJoining
    <3> QED
      BY <3>1, <3>2
  <2>2. CASE visit \in UNION {Users(prog, v) : v \in 1 .. Len(prog.args)}
    BY <1>1, <2>2, UsersAreVisits DEF IsJoining
  <2> QED
    BY <2>1, <2>2 DEF Init
<1> QED
  BY <1>1, <1>3, <1>4, <1>5 DEF ReachedInv

LEMMA FactsInit ==
  ASSUME Init
  PROVE  FactsInv
<1>1. prog \in Programs
  BY DEF Init
<1>2. \A n \in Ops(prog) : lattice[Result(prog, n)] = Null
  <2> TAKE n \in Ops(prog)
  <2>1. Result(prog, n) \in Values(prog) /\ ~ (Result(prog, n) <= Len(prog.args))
    BY <1>1, ProgramFacts, ResultFacts
  <2> QED
    BY <2>1 DEF Init
<1> QED
  BY <1>2 DEF FactsInv

\* The same operands give the same.
LEMMA SameOperands ==
  ASSUME prog' = prog, NEW n,
         \A i \in DOMAIN prog.ops[n].args : OperandFact(n, i)' = OperandFact(n, i),
         Incoming(prog.ops[n]) \subseteq DOMAIN prog.ops[n].args
  PROVE  /\ OpFact(n)' = OpFact(n) /\ Clash(n)' = Clash(n)
         /\ lattice'[Result(prog, n)] = lattice[Result(prog, n)] /\ FollowsFromOperands(n) =>
              FollowsFromOperands(n)'
<1>1. OperandFacts(n)' = OperandFacts(n)
  BY DEF OperandFacts, OperandFact
<1>2. OpFact(n)' = OpFact(n)
  BY <1>1 DEF OpFact
<1>3. Clash(n)' = Clash(n)
  BY DEF Clash, IsJoining
<1>4. ASSUME lattice'[Result(prog, n)] = lattice[Result(prog, n)], FollowsFromOperands(n)
      PROVE  FollowsFromOperands(n)'
  BY <1>2, <1>4 DEF FollowsFromOperands, IsJoining
<1> QED
  BY <1>2, <1>3, <1>4

\* What is known already is joined with what is found again: it stays.
LEMMA LatticeJoinIs ==
  ASSUME TypeOK, prog \in Programs, NEW v \in Values(prog), NEW fact \in Knowledge
  PROVE  /\ LatticeJoin(v, fact) \in Knowledge /\ LatticeJoin(v, fact) # Null /\ fact # Null
         /\ lattice[v] \in {Null, fact} => LatticeJoin(v, fact) = fact
<1>1. fact # Null /\ (lattice[v] = Null \/ lattice[v] \in Knowledge)
  BY NullAssumption DEF TypeOK
<1>2. CASE lattice[v] = Null
  <2>1. lattice[v] # DeclaredType(prog, v)
    BY <1>2, ProgramFacts, NullAssumption
  <2>2. LatticeJoin(v, fact) = fact
    BY <1>2, <2>1 DEF LatticeJoin
  <2> QED
    BY <1>1, <2>2
<1>3. CASE lattice[v] # Null
  <2>1. Join(lattice[v], fact) \in Knowledge /\ Join(fact, fact) = fact
    BY <1>1, <1>3, JoinKnowledge, JoinSame
  <2>2. LatticeJoin(v, fact) \in {lattice[v], Join(lattice[v], fact)}
    BY <1>3 DEF LatticeJoin
  <2>3. LatticeJoin(v, fact) \in Knowledge
    BY <1>1, <1>3, <2>1, <2>2
  <2> QED
    BY <1>1, <1>3, <2>1, <2>2, <2>3, NullAssumption
<1> QED
  BY <1>2, <1>3

\* What a visit found of the result of op n.
Found(n, fact) ==
  IF IsJoining(n)
  THEN \E i \in Incoming(prog.ops[n]) : OperandFact(n, i) = fact
  ELSE (\A i \in DOMAIN prog.ops[n].args : OperandFact(n, i) # Null) /\ fact = OpFact(n)

LEMMA UpdateReached ==
  ASSUME TypeOK, prog \in Programs, ReachedInv, pc = "analyze",
         NEW n \in Ops(prog), NEW i, <<n, i>> \in pending, NEW fact \in Knowledge,
         Update(<<n, i>>, Result(prog, n), fact), UNCHANGED <<prog, pc>>
  PROVE  ReachedInv'
<1> DEFINE v == Result(prog, n)
<1>1. v \in Values(prog) /\ v > Len(prog.args) /\ Len(prog.args) \in Nat /\ v \in Nat
  BY ProgramFacts, ResultFacts
<1>2. lattice' = [lattice EXCEPT ![v] = LatticeJoin(v, fact)] /\ DOMAIN lattice = Values(prog)
  BY DEF Update, TypeOK
<1>3. /\ lattice'[v] # Null
      /\ \A w : w # v => lattice'[w] = lattice[w]
  BY <1>1, <1>2, LatticeJoinIs
<1>4. /\ \A visit \in pending' : visit \in pending \/ visit \in Users(prog, v)
      /\ \A visit \in pending : visit = <<n, i>> \/ visit \in pending'
      /\ lattice'[v] # lattice[v] => Users(prog, v) \subseteq pending'
  BY DEF Update
<1> HIDE DEF v
<1>5. \A w \in 1 .. Len(prog.args) : lattice'[w] = DeclaredType(prog, w)
  BY <1>1, <1>3 DEF ReachedInv
<1>6. \A visit \in pending' : IF visit[2] = 0 THEN ~ IsJoining(visit[1])
                              ELSE IsJoining(visit[1]) /\ visit[2] \in Incoming(prog.ops[visit[1]])
  BY <1>4, UsersAreVisits DEF ReachedInv, IsJoining
<1>7. ASSUME NEW m \in Ops(prog), lattice'[Result(prog, m)] = Null
      PROVE  Awaited(m)'
  <2>1. Result(prog, m) # v /\ lattice[Result(prog, m)] = Null
    BY <1>3, <1>7
  <2>2. m # n
    BY <2>1 DEF v
  <2>3. Awaited(m)
    BY <2>1 DEF ReachedInv
  <2>4. \A j : <<m, j>> \in pending => <<m, j>> \in pending'
    BY <1>4, <2>2
  <2>5. \A j \in DOMAIN prog.ops[m].args :
          OperandFact(m, j) = Null => \/ OperandFact(m, j)' = Null
                                      \/ prog.ops[m].args[j] = v /\ Users(prog, v) \subseteq pending'
    BY <1>3, <1>4 DEF OperandFact
  <2>6. CASE IsJoining(m)
    <3>1. \A j \in Incoming(prog.ops[m]) : j \in DOMAIN prog.ops[m].args
      BY OperandFactsAre
    <3>2. \A j \in Incoming(prog.ops[m]) : <<m, j>> \in Users(prog, prog.ops[m].args[j])
      BY <2>6, <3>1, UsersAre DEF IsJoining
    <3>3. \A j \in Incoming(prog.ops[m]) : OperandFact(m, j) = Null \/ <<m, j>> \in pending
      BY <2>3, <2>6 DEF Awaited
    <3>4. \A j \in Incoming(prog.ops[m]) : OperandFact(m, j)' = Null \/ <<m, j>> \in pending'
      BY <2>4, <2>5, <3>1, <3>2, <3>3
    <3> QED
      BY <2>6, <3>4 DEF Awaited, IsJoining
  <2>7. CASE ~ IsJoining(m)
    <3>1. \A j \in DOMAIN prog.ops[m].args : <<m, 0>> \in Users(prog, prog.ops[m].args[j])
      BY <2>7, UsersAre DEF IsJoining
    <3>2. <<m, 0>> \in pending \/ \E j \in DOMAIN prog.ops[m].args : OperandFact(m, j) = Null
      BY <2>3, <2>7 DEF Awaited
    <3>3. <<m, 0>> \in pending' \/ \E j \in DOMAIN prog.ops[m].args : OperandFact(m, j)' = Null
      BY <2>4, <2>5, <3>1, <3>2
    <3> QED
      BY <2>7, <3>3 DEF Awaited, IsJoining
  <2> QED
    BY <2>6, <2>7
<1> QED
  BY <1>5, <1>6, <1>7 DEF ReachedInv, IsJoining

\* A visit that finds a fact missing.
LEMMA DropReached ==
  ASSUME ReachedInv, pc = "analyze", NEW n, NEW i,
         IF i = 0 THEN \E j \in DOMAIN prog.ops[n].args : OperandFact(n, j) = Null
                  ELSE OperandFact(n, i) = Null,
         pending' = pending \ {<<n, i>>}, UNCHANGED <<prog, pc, lattice>>
  PROVE  ReachedInv'
<1>1. \A visit \in pending : visit = <<n, i>> \/ visit \in pending'
  OBVIOUS
<1>2. \A m, j : OperandFact(m, j)' = OperandFact(m, j)
  BY DEF OperandFact
<1>3. ASSUME NEW m \in Ops(prog), lattice[Result(prog, m)] = Null
      PROVE  Awaited(m)'
  <2>1. Awaited(m)
    BY <1>3 DEF ReachedInv
  <2>2. CASE IsJoining(m)
    <3>1. ASSUME NEW j \in Incoming(prog.ops[m]), <<m, j>> = <<n, i>>
          PROVE  OperandFact(m, j) = Null \/ i = 0
      BY <3>1
    <3>2. ASSUME NEW j \in Incoming(prog.ops[m]), <<m, j>> \in pending, j = 0
          PROVE  FALSE
      BY <2>2, <3>2 DEF ReachedInv
    <3>3. \A j \in Incoming(prog.ops[m]) : OperandFact(m, j) = Null \/ <<m, j>> \in pending'
      <4> TAKE j \in Incoming(prog.ops[m])
      <4>1. OperandFact(m, j) = Null \/ <<m, j>> \in pending
        BY <2>1, <2>2 DEF Awaited
      <4> QED
        BY <1>1, <3>1, <3>2, <4>1
    <3> QED
      BY <1>2, <2>2, <3>3 DEF Awaited, IsJoining
  <2>3. CASE ~ IsJoining(m)
    <3>1. <<m, 0>> \in pending \/ \E j \in DOMAIN prog.ops[m].args : OperandFact(m, j) = Null
      BY <2>1, <2>3 DEF Awaited
    <3>2. <<m, 0>> = <<n, i>> => m = n /\ i = 0
      OBVIOUS
    <3>3. <<m, 0>> \in pending' \/ \E j \in DOMAIN prog.ops[m].args : OperandFact(m, j) = Null
      BY <1>1, <3>1, <3>2
    <3> QED
      BY <1>2, <2>3, <3>3 DEF Awaited, IsJoining
  <2> QED
    BY <2>2, <2>3
<1> QED
  BY <1>3 DEF ReachedInv, IsJoining

LEMMA UpdateFacts ==
  ASSUME TypeOK, prog \in Programs, NothingIsFedBack, FactsInv,
         NEW n \in Ops(prog), NEW visit, NEW fact \in Knowledge, Found(n, fact),
         Update(visit, Result(prog, n), fact), UNCHANGED prog
  PROVE  FactsInv'
<1> DEFINE v == Result(prog, n)
<1>1. v \in Values(prog) /\ v \in Nat
  BY ProgramFacts, ResultFacts
<1>2. lattice' = [lattice EXCEPT ![v] = LatticeJoin(v, fact)] /\ DOMAIN lattice = Values(prog)
  BY DEF Update, TypeOK
<1>3. /\ lattice'[v] # Null /\ lattice'[v] = LatticeJoin(v, fact)
      /\ \A w : w # v => lattice'[w] = lattice[w]
      /\ lattice[v] \in {Null, fact} => lattice'[v] = fact
  BY <1>1, <1>2, LatticeJoinIs
<1>4. \A m \in Ops(prog) : \A i \in DOMAIN prog.ops[m].args :
        prog.ops[m].args[i] < Result(prog, m) /\ prog.ops[m].args[i] \in Nat /\ Result(prog, m) \in Nat
  <2>1. \A m \in Ops(prog) : \A i \in DOMAIN prog.ops[m].args : prog.ops[m].args[i] \in Values(prog)
    BY OperandFactsAre
  <2> QED
    BY <2>1, ResultFacts DEF NothingIsFedBack
<1>5. \A i \in DOMAIN prog.ops[n].args : OperandFact(n, i)' = OperandFact(n, i)
  BY <1>1, <1>3, <1>4 DEF OperandFact, v
<1>6. \A m \in Ops(prog) : Incoming(prog.ops[m]) \subseteq DOMAIN prog.ops[m].args
  BY OperandFactsAre
<1>7. fact = lattice'[v] => FollowsFromOperands(n)'
  <2> HAVE fact = lattice'[v]
  <2>1. OpFact(n)' = OpFact(n)
    BY <1>5, <1>6, SameOperands
  <2> QED
    BY <1>5, <1>6, <2>1 DEF Found, FollowsFromOperands, IsJoining, v
<1> HIDE DEF v
<1>8. SUFFICES ASSUME NEW S \in SUBSET Values(prog), Agreeing(S)',
                      NEW m \in Ops(prog), Result(prog, m) \in S, lattice'[Result(prog, m)] # Null
               PROVE  FollowsFromOperands(m)'
  BY DEF FactsInv
<1>9. CASE \A w : lattice'[w] = lattice[w]
  <2>1. Agreeing(S)
    BY <1>8, <1>9 DEF Agreeing, Clash, OperandFact, IsJoining
  <2>2. FollowsFromOperands(m)
    BY <1>8, <1>9, <2>1 DEF FactsInv
  <2>3. \A i \in DOMAIN prog.ops[m].args : OperandFact(m, i)' = OperandFact(m, i)
    BY <1>9 DEF OperandFact
  <2> QED
    BY <1>6, <1>9, <2>2, <2>3, SameOperands
<1>10. CASE v \notin S
  <2>1. \A k \in Ops(prog) : Result(prog, k) \in S =>
          \A i \in DOMAIN prog.ops[k].args : OperandFact(k, i)' = OperandFact(k, i)
    BY <1>3, <1>8, <1>10 DEF Agreeing, OperandFact
  <2>2. Agreeing(S)
    BY <1>6, <1>8, <2>1, SameOperands DEF Agreeing
  <2>3. lattice'[Result(prog, m)] = lattice[Result(prog, m)]
    BY <1>3, <1>8, <1>10
  <2>4. FollowsFromOperands(m)
    BY <1>8, <2>2, <2>3 DEF FactsInv
  <2> QED
    BY <1>6, <1>8, <2>1, <2>3, <2>4, SameOperands
<1>11. CASE v \in S /\ lattice[v] # Null
  <2> DEFINE T == {u \in S : u <= v}
  <2>1. ASSUME NEW k \in Ops(prog), Result(prog, k) \in T
        PROVE  ~ Clash(k) /\ \A i \in DOMAIN prog.ops[k].args : prog.ops[k].args[i] \in T
    <3>1. ~ Clash(k)' /\ \A i \in DOMAIN prog.ops[k].args : prog.ops[k].args[i] \in S
      BY <1>8, <2>1 DEF Agreeing
    <3>2. \A i \in DOMAIN prog.ops[k].args : prog.ops[k].args[i] < v
      BY <1>1, <1>4, <2>1
    <3>3. \A i \in DOMAIN prog.ops[k].args : OperandFact(k, i)' = OperandFact(k, i)
      BY <1>1, <1>3, <1>4, <3>2 DEF OperandFact
    <3>4. Clash(k)' = Clash(k)
      BY <1>6, <3>3, SameOperands
    <3>5. \A i \in DOMAIN prog.ops[k].args : prog.ops[k].args[i] <= v
      BY <1>1, <1>4, <3>2
    <3> QED
      BY <3>1, <3>4, <3>5
  <2>2. T \in SUBSET Values(prog) /\ v \in T
    <3>1. v <= v
      BY <1>1
    <3> QED
      BY <1>11, <3>1
  <2> HIDE DEF T
  <2>3. Agreeing(T)
    BY <2>1 DEF Agreeing
  <2>4. FollowsFromOperands(n) /\ ~ Clash(n)
    BY <1>11, <2>1, <2>2, <2>3 DEF FactsInv, v
  <2>5. fact # Null
    BY LatticeJoinIs, <1>1
  <2>6. lattice[v] = fact
    <3>1. CASE IsJoining(n)
      <4>1. PICK i \in Incoming(prog.ops[n]) : OperandFact(n, i) = lattice[v]
        BY <2>4, <3>1 DEF FollowsFromOperands, v
      <4>2. PICK j \in Incoming(prog.ops[n]) : OperandFact(n, j) = fact
        BY <3>1 DEF Found
      <4> QED
        BY <1>6, <1>11, <2>4, <2>5, <3>1, <4>1, <4>2 DEF Clash
    <3>2. CASE ~ IsJoining(n)
      BY <2>4, <3>2 DEF FollowsFromOperands, Found, v
    <3> QED
      BY <3>1, <3>2
  <2>7. \A w : lattice'[w] = lattice[w]
    BY <1>3, <2>6
  <2> QED
    BY <1>9, <2>7
<1>12. CASE v \in S /\ lattice[v] = Null
  <2>1. lattice'[v] = fact
    BY <1>3, <1>12
  <2>2. \A k, i : OperandFact(k, i) # Null => OperandFact(k, i)' = OperandFact(k, i)
    BY <1>3, <1>12 DEF OperandFact
  <2>3. Agreeing(S)
    <3>1. \A k \in Ops(prog) : Clash(k) => Clash(k)'
      BY <2>2 DEF Clash, IsJoining
    <3> QED
      BY <1>8, <3>1 DEF Agreeing
  <2>4. CASE m = n
    BY <1>7, <2>1, <2>4
  <2>5. CASE m # n
    <3>1. Result(prog, m) # v
      BY <2>5, ResultFacts DEF v
    <3>2. lattice'[Result(prog, m)] = lattice[Result(prog, m)]
      BY <1>3, <3>1
    <3>3. FollowsFromOperands(m)
      BY <1>8, <2>3, <3>2 DEF FactsInv
    <3>4. CASE IsJoining(m)
      <4>1. PICK i \in Incoming(prog.ops[m]) : OperandFact(m, i) = lattice[Result(prog, m)]
        BY <3>3, <3>4 DEF FollowsFromOperands
      <4>2. OperandFact(m, i)' = lattice'[Result(prog, m)]
        BY <1>8, <2>2, <3>2, <4>1
      <4> QED
        BY <3>4, <4>2 DEF FollowsFromOperands, IsJoining
    <3>5. CASE ~ IsJoining(m)
      <4>1. \A i \in DOMAIN prog.ops[m].args : OperandFact(m, i)' = OperandFact(m, i)
        BY <2>2, <3>3, <3>5 DEF FollowsFromOperands
      <4> QED
        BY <1>6, <3>2, <3>3, <4>1, SameOperands
    <3> QED
      BY <3>4, <3>5
  <2> QED
    BY <2>4, <2>5
<1> QED
  BY <1>10, <1>11, <1>12

\* Optimizing changes no fact.
LEMMA FactsKept ==
  ASSUME ReachedInv, FactsInv, UNCHANGED <<prog, lattice, pending>>,
         pc' # "analyze" => pending = {}
  PROVE  ReachedInv' /\ FactsInv'
<1>1. \A n, i : OperandFact(n, i)' = OperandFact(n, i)
  BY DEF OperandFact
<1>2. \A n : OperandFacts(n)' = OperandFacts(n)
  BY DEF OperandFacts
<1>3. \A n : Clash(n)' = Clash(n) /\ OpFact(n)' = OpFact(n) /\ Awaited(n)' = Awaited(n)
  BY <1>1, <1>2 DEF Clash, OpFact, Awaited, IsJoining
<1>4. \A n : FollowsFromOperands(n)' = FollowsFromOperands(n)
  BY <1>1, <1>3 DEF FollowsFromOperands, IsJoining
<1>5. \A S : Agreeing(S)' = Agreeing(S)
  BY <1>3 DEF Agreeing
<1>6. FactsInv'
  BY <1>4, <1>5 DEF FactsInv
<1> QED
  BY <1>3, <1>6 DEF ReachedInv, IsJoining

\* Facts alone: the invariant does not look at the visits.
LEMMA FactsUnchanged ==
  ASSUME FactsInv, UNCHANGED <<prog, lattice>>
  PROVE  FactsInv'
<1>1. \A n, i : OperandFact(n, i)' = OperandFact(n, i)
  BY DEF OperandFact
<1>2. \A n : OperandFacts(n)' = OperandFacts(n)
  BY DEF OperandFacts
<1>3. \A n : Clash(n)' = Clash(n) /\ OpFact(n)' = OpFact(n)
  BY <1>1, <1>2 DEF Clash, OpFact, IsJoining
<1>4. \A n : FollowsFromOperands(n)' = FollowsFromOperands(n)
  BY <1>1, <1>3 DEF FollowsFromOperands, IsJoining
<1>5. \A S : Agreeing(S)' = Agreeing(S)
  BY <1>3 DEF Agreeing
<1> QED
  BY <1>4, <1>5 DEF FactsInv

LEMMA VisitOperationFacts ==
  ASSUME IInv, NothingIsFedBack, ReachedInv, FactsInv, NEW n, VisitOperation(n)
  PROVE  ReachedInv' /\ FactsInv'
<1>1. prog \in Programs /\ TypeOK /\ n \in Ops(prog)
  BY ProgramFacts DEF IInv, TypeOK, VisitOperation
<1>2. pc = "analyze" /\ UNCHANGED <<prog, pc>> /\ <<n, 0>> \in pending
  BY DEF VisitOperation
<1>3. ~ IsJoining(n)
  <2>1. PICK visit : visit = <<n, 0>> /\ visit \in pending /\ visit[1] = n /\ visit[2] = 0
    BY <1>2
  <2> QED
    BY <2>1 DEF ReachedInv
<1>4. /\ DOMAIN OperandFacts(n) = DOMAIN prog.ops[n].args
      /\ \A j \in DOMAIN prog.ops[n].args : OperandFacts(n)[j] = OperandFact(n, j)
  BY <1>1, OperandFactsAre
<1>5. CASE \E j \in DOMAIN OperandFacts(n) : OperandFacts(n)[j] = Null
  <2>1. pending' = pending \ {<<n, 0>>} /\ UNCHANGED lattice
    BY <1>5 DEF VisitOperation
  <2>2. ReachedInv'
    BY <1>2, <1>4, <1>5, <2>1, DropReached
  <2> QED
    BY <1>2, <2>1, <2>2, FactsUnchanged
<1>6. CASE ~ \E j \in DOMAIN OperandFacts(n) : OperandFacts(n)[j] = Null
  <2>1. Update(<<n, 0>>, Result(prog, n), OpFact(n))
    BY <1>6 DEF VisitOperation, OpFact
  <2>2. OpFact(n) \in Knowledge
    BY <1>1, <1>6, VisitedKnowledge DEF OpFact
  <2>3. Found(n, OpFact(n))
    BY <1>3, <1>4, <1>6 DEF Found
  <2>4. ReachedInv'
    BY <1>1, <1>2, <2>1, <2>2, UpdateReached
  <2>5. FactsInv'
    BY <1>1, <1>2, <2>1, <2>2, <2>3, UpdateFacts
  <2> QED
    BY <2>4, <2>5
<1> QED
  BY <1>5, <1>6

LEMMA VisitSuccessorFacts ==
  ASSUME IInv, NothingIsFedBack, ReachedInv, FactsInv, NEW n, NEW i, VisitSuccessor(n, i)
  PROVE  ReachedInv' /\ FactsInv'
<1>1. prog \in Programs /\ TypeOK /\ <<n, i>> \in Uses(prog)
  BY DEF IInv, TypeOK, VisitSuccessor
<1>2. pc = "analyze" /\ UNCHANGED <<prog, pc>> /\ <<n, i>> \in pending /\ i # 0
  BY DEF VisitSuccessor
<1>3. IsJoining(n) /\ i \in Incoming(prog.ops[n])
  <2>1. PICK visit : visit = <<n, i>> /\ visit \in pending /\ visit[1] = n /\ visit[2] = i
    BY <1>2
  <2> QED
    BY <1>2, <2>1 DEF ReachedInv
<1>4. n \in Ops(prog) /\ (OperandFact(n, i) = Null \/ OperandFact(n, i) \in Knowledge)
  <2>1. n \in Ops(prog) /\ prog.ops[n].args[i] \in Values(prog)
    BY <1>1, ProgramFacts
  <2> QED
    BY <1>1, <2>1 DEF TypeOK, OperandFact
<1>5. CASE OperandFact(n, i) = Null
  <2>1. pending' = pending \ {<<n, i>>} /\ UNCHANGED lattice
    BY <1>5 DEF VisitSuccessor, OperandFact
  <2>2. ReachedInv'
    BY <1>2, <1>5, <2>1, DropReached
  <2> QED
    BY <1>2, <2>1, <2>2, FactsUnchanged
<1>6. CASE OperandFact(n, i) # Null
  <2>1. Update(<<n, i>>, Result(prog, n), OperandFact(n, i))
    BY <1>6 DEF VisitSuccessor, OperandFact
  <2>2. Found(n, OperandFact(n, i))
    BY <1>3 DEF Found
  <2>3. ReachedInv'
    BY <1>1, <1>2, <1>4, <1>6, <2>1, UpdateReached
  <2>4. FactsInv'
    BY <1>1, <1>2, <1>4, <1>6, <2>1, <2>2, UpdateFacts
  <2> QED
    BY <2>3, <2>4
<1> QED
  BY <1>5, <1>6

LEMMA NextFacts ==
  ASSUME IInv, NothingIsFedBack, ReachedInv, FactsInv, [Next]_vars
  PROVE  ReachedInv' /\ FactsInv'
<1>1. ASSUME AnalysisDone \/ OptimizeResult \/ OptimizeDone \/ UNCHANGED vars
      PROVE  ReachedInv' /\ FactsInv'
  <2>1. UNCHANGED <<prog, lattice, pending>> /\ (pc' # "analyze" => pending = {})
    BY <1>1 DEF AnalysisDone, OptimizeResult, OptimizeDone, vars, ReachedInv
  <2> QED
    BY <2>1, FactsKept
<1>2. ASSUME NEW visit \in pending, VisitOperation(visit[1]) \/ VisitSuccessor(visit[1], visit[2])
      PROVE  ReachedInv' /\ FactsInv'
  BY <1>2, VisitOperationFacts, VisitSuccessorFacts
<1> QED
  BY <1>1, <1>2 DEF Next, PassNext, Terminated

\* When nothing is pending nothing is left without a fact: the first result
\* without one would have an operand without one.
LEMMA AllReached ==
  ASSUME prog \in Programs, NothingIsFedBack, ReachedInv, pc # "analyze"
  PROVE  \A v \in Values(prog) : lattice[v] # Null
<1>1. \A v \in 1 .. Len(prog.args) : v \in Values(prog) /\ lattice[v] # Null
  <2>1. \A v \in 1 .. Len(prog.args) : v \in Values(prog)
    <3>1. PICK a \in Nat, b \in Nat : a = Len(prog.args) /\ b = Len(prog.ops)
      BY ProgramFacts
    <3>2. \A v \in 1 .. a : v \in 1 .. a + b
      OBVIOUS
    <3> QED
      BY <3>1, <3>2 DEF Values
  <2> QED
    BY <2>1, ProgramFacts, NullAssumption DEF ReachedInv
<1>2. \A n \in Ops(prog) : n \in Nat
  BY ProgramFacts
<1> DEFINE T == {n \in Ops(prog) : lattice[Result(prog, n)] = Null}
<1>3. SUFFICES ASSUME T # {} PROVE FALSE
  BY <1>1, ResultFacts
<1>4. T \in SUBSET Nat
  BY <1>2
<1> HIDE DEF T
<1>5. PICK n \in T : \A m \in T : n <= m
  BY <1>3, <1>4, LeastNatural
<1> USE DEF T
<1>6. n \in Ops(prog) /\ Awaited(n)
  BY <1>5 DEF ReachedInv
<1>7. \E i \in DOMAIN prog.ops[n].args : OperandFact(n, i) = Null
  <2>1. CASE IsJoining(n)
    BY <1>6, <2>1, OperandFactsAre DEF Awaited, ReachedInv
  <2>2. CASE ~ IsJoining(n)
    BY <1>6, <2>2 DEF Awaited, ReachedInv
  <2> QED
    BY <2>1, <2>2
<1>8. PICK i \in DOMAIN prog.ops[n].args : OperandFact(n, i) = Null
  BY <1>7
<1>9. prog.ops[n].args[i] \in Values(prog) /\ prog.ops[n].args[i] < Result(prog, n)
  BY <1>6, OperandFactsAre DEF NothingIsFedBack
<1>10. PICK m \in Ops(prog) : prog.ops[n].args[i] = Result(prog, m)
  BY <1>1, <1>8, <1>9, ResultFacts DEF OperandFact
<1>11. m \in T /\ m < n
  BY <1>6, <1>8, <1>9, <1>10, ResultFacts DEF OperandFact
<1> QED
  BY <1>2, <1>5, <1>6, <1>11

\* Among different facts are at least two.
LEMMA TwoFacts ==
  ASSUME prog \in Programs, NEW n \in Ops(prog), ~ (Cardinality(ToSet(OperandFacts(n))) > 1),
         NEW i \in DOMAIN prog.ops[n].args, NEW j \in DOMAIN prog.ops[n].args
  PROVE  OperandFact(n, i) = OperandFact(n, j)
<1> DEFINE k == OperandFacts(n)
           N == Len(prog.ops[n].args)
<1>1. N \in Nat /\ DOMAIN prog.ops[n].args = 1 .. N
  BY ProgramsWellFormed
<1>2. /\ DOMAIN k = 1 .. N /\ k = [x \in 1 .. N |-> k[x]]
      /\ k[i] = OperandFact(n, i) /\ k[j] = OperandFact(n, j)
  BY <1>1, OperandFactsAre DEF OperandFacts
<1> HIDE DEF k
<1>3. ToSet(k) = {k[x] : x \in 1 .. N}
  BY <1>2 DEF ToSet
<1>4. IsFiniteSet(ToSet(k))
  <2>1. k \in Surjection(1 .. N, ToSet(k))
    BY <1>2, <1>3 DEF Surjection
  <2>2. ExistsSurjection(1 .. N, ToSet(k))
    BY <2>1 DEF ExistsSurjection
  <2> QED
    BY <1>1, <2>2, FS_NatSurjection
<1>5. SUFFICES ASSUME k[i] # k[j] PROVE FALSE
  BY <1>2
<1>6. {k[i], k[j]} \subseteq ToSet(k)
  BY <1>1, <1>3
<1>7. Cardinality({k[i], k[j]}) = 2
  <2>1. Cardinality({k[i]}) = 1 /\ IsFiniteSet({k[i]})
    BY FS_Singleton
  <2>2. Cardinality({k[i]} \cup {k[j]}) = Cardinality({k[i]}) + 1
    BY <1>5, <2>1, FS_AddElement
  <2>3. {k[i]} \cup {k[j]} = {k[i], k[j]}
    OBVIOUS
  <2> QED
    BY <2>1, <2>2, <2>3
<1>8. Cardinality({k[i], k[j]}) <= Cardinality(ToSet(k)) /\ Cardinality(ToSet(k)) \in Nat
  BY <1>4, <1>6, FS_Subset, FS_CardinalityType
<1> QED
  BY <1>7, <1>8 DEF k

-----------------------------------------------------------------------------
\* Values that depend on no guess

Results(p) == {Result(p, n) : n \in Ops(p)}

\* From an operand to the result.
GoesInto(p) ==
  {e \in Values(p) \X Results(p) :
     \E n \in Ops(p) : e[2] = Result(p, n) /\ e[1] \in ToSet(p.ops[n].args)}

LEMMA ResultsFinite ==
  ASSUME NEW p \in Programs
  PROVE  IsFiniteSet(Results(p)) /\ Cardinality(Results(p)) = Len(p.ops)
<1>1. Len(p.ops) \in Nat /\ Ops(p) = 1 .. Len(p.ops)
  BY ProgramFacts
<1> DEFINE f == [n \in 1 .. Len(p.ops) |-> Result(p, n)]
<1>2. \A a, b \in 1 .. Len(p.ops) : f[a] = f[b] => a = b
  BY <1>1, ResultFacts
<1>3. f \in [1 .. Len(p.ops) -> Results(p)] /\ \A t \in Results(p) : \E n \in 1 .. Len(p.ops) : f[n] = t
  BY <1>1 DEF Results
<1> HIDE DEF f
<1>4. f \in Bijection(1 .. Len(p.ops), Results(p))
  BY <1>2, <1>3, Fun_IsBij
<1>5. ExistsBijection(1 .. Len(p.ops), Results(p))
  BY <1>4 DEF ExistsBijection
<1> QED
  BY <1>1, <1>5, FS_NatBijection, FS_CountingElements

LEMMA TaintedClosure ==
  ASSUME prog \in Programs
  PROVE  \E B : /\ Certain = Values(prog) \ B
                /\ IsClosure(Results(prog), GoesInto(prog),
                             {Result(prog, n) : n \in {m \in Ops(prog) : IsGuess(m)}}, B)
<1> DEFINE V == Results(prog)
           R == GoesInto(prog)
           base == {Result(prog, n) : n \in {m \in Ops(prog) : IsGuess(m)}}
           More(before) == {Result(prog, n) : n \in
                              {m \in Ops(prog) : ToSet(prog.ops[m].args) \cap before # {}}}
           tainted == CHOOSE tainted : tainted = [j \in Nat |->
                        IF j = 0 THEN base
                        ELSE LET before == tainted[j - 1] IN before \cup More(before)]
<1>1. base \in SUBSET V /\ V \subseteq Values(prog)
  BY ProgramFacts DEF Results
<1>2. ASSUME NEW before \in SUBSET V
      PROVE  More(before) = {p \in V : \E m \in before : <<m, p>> \in R}
  <2>1. \A n \in Ops(prog) : Result(prog, n) \in V
    BY DEF Results
  <2>2. \A m \in before : \A p : <<m, p>> \in R <=>
          p \in V /\ \E n \in Ops(prog) : p = Result(prog, n) /\ m \in ToSet(prog.ops[n].args)
    BY <1>1, <1>2 DEF GoesInto
  <2>3. \A p : p \in More(before) <=>
          \E n \in Ops(prog) : p = Result(prog, n) /\ \E m \in before : m \in ToSet(prog.ops[n].args)
    BY Zenon
  <2> HIDE DEF More, V, R
  <2> QED
    BY <2>1, <2>2, <2>3
<1>3. Certain = Values(prog) \ tainted[Len(prog.ops)]
  BY Zenon DEF Certain
<1> HIDE DEF More, V, R, base
<1>4. PICK f \in [Nat -> SUBSET V] : IsSearch(V, R, base, f)
  BY <1>1, SearchExists
<1>5. f = [j \in Nat |-> IF j = 0 THEN base ELSE LET before == f[j - 1] IN before \cup More(before)]
  <2>1. ASSUME NEW k \in Nat, k # 0 PROVE f[k] = f[k - 1] \cup More(f[k - 1])
    <3>1. k - 1 \in Nat /\ (k - 1) + 1 = k /\ f[k - 1] \in SUBSET V
      BY <1>4, <2>1
    <3> QED
      BY <1>2, <1>4, <3>1 DEF IsSearch
  <2> QED
    BY <1>4, <2>1 DEF IsSearch
<1>6. tainted = [j \in Nat |-> IF j = 0 THEN base
                               ELSE LET before == tainted[j - 1] IN before \cup More(before)]
  BY <1>5
<1> HIDE DEF tainted
<1>7. tainted[0] = base /\ \A k \in Nat : tainted[k + 1] = tainted[k] \cup More(tainted[k])
  <2>1. tainted[0] = base
    BY <1>6
  <2>2. ASSUME NEW k \in Nat PROVE tainted[k + 1] = tainted[k] \cup More(tainted[k])
    <3>1. k + 1 \in Nat /\ k + 1 # 0 /\ (k + 1) - 1 = k
      OBVIOUS
    <3> QED
      BY <1>6, <3>1
  <2> QED
    BY <2>1, <2>2
<1>8. \A k \in Nat : tainted[k] \in SUBSET V
  <2> DEFINE S == {k \in Nat : tainted[k] \in SUBSET V}
  <2>1. 0 \in S
    BY <1>1, <1>7
  <2>2. ASSUME NEW k \in Nat, tainted[k] \in SUBSET V PROVE tainted[k + 1] \in SUBSET V
    <3>1. More(tainted[k]) \in SUBSET V
      BY <1>2, <2>2
    <3> QED
      BY <1>7, <2>2, <3>1
  <2>3. \A k \in Nat : k \in S => k + 1 \in S
    BY <2>2
  <2> HIDE DEF S
  <2>4. Nat \subseteq S
    BY <2>1, <2>3, SetInduction
  <2> QED
    BY <2>4 DEF S
<1>9. IsSearch(V, R, base, tainted)
  BY <1>2, <1>7, <1>8 DEF IsSearch
<1>10. IsFiniteSet(V) /\ Cardinality(V) = Len(prog.ops)
  BY ResultsFinite DEF V
<1>11. IsClosure(V, R, base, tainted[Len(prog.ops)])
  BY <1>1, <1>9, <1>10, SearchEnds
<1> QED
  BY <1>3, <1>11 DEF V, R, base

LEMMA CertainIs ==
  ASSUME prog \in Programs
  PROVE  /\ Certain \in SUBSET Values(prog)
         /\ \A n \in Ops(prog) : Result(prog, n) \in Certain <=>
              /\ ~ IsGuess(n)
              /\ \A i \in DOMAIN prog.ops[n].args : prog.ops[n].args[i] \in Certain
<1> DEFINE base == {Result(prog, n) : n \in {m \in Ops(prog) : IsGuess(m)}}
<1>1. PICK B : Certain = Values(prog) \ B /\ IsClosure(Results(prog), GoesInto(prog), base, B)
  BY TaintedClosure
<1>2. /\ B \subseteq Results(prog)
      /\ \A n \in Ops(prog) : IsGuess(n) => Result(prog, n) \in B
      /\ \A m \in B, p \in Results(prog) : <<m, p>> \in GoesInto(prog) => p \in B
      /\ \A S \in SUBSET Results(prog) :
           base \subseteq S /\ (\A m \in S, p \in Results(prog) : <<m, p>> \in GoesInto(prog) => p \in S)
             => B \subseteq S
  BY <1>1 DEF IsClosure
<1>3. \A n \in Ops(prog) : /\ Result(prog, n) \in Results(prog) /\ Result(prog, n) \in Values(prog)
                           /\ \A i \in DOMAIN prog.ops[n].args : prog.ops[n].args[i] \in Values(prog)
  BY ProgramFacts, OperandFactsAre DEF Results
<1>4. \A n \in Ops(prog) : \A v : v \in ToSet(prog.ops[n].args) <=>
        \E i \in DOMAIN prog.ops[n].args : prog.ops[n].args[i] = v
  BY DEF ToSet
<1>5. \A n \in Ops(prog) : \A i \in DOMAIN prog.ops[n].args :
        <<prog.ops[n].args[i], Result(prog, n)>> \in GoesInto(prog)
  BY <1>3, <1>4 DEF GoesInto
<1>6. ASSUME NEW n \in Ops(prog), Result(prog, n) \in Certain
      PROVE  ~ IsGuess(n) /\ \A i \in DOMAIN prog.ops[n].args : prog.ops[n].args[i] \in Certain
  BY <1>1, <1>2, <1>3, <1>5, <1>6
<1>7. ASSUME NEW n \in Ops(prog), ~ IsGuess(n),
             \A i \in DOMAIN prog.ops[n].args : prog.ops[n].args[i] \notin B
      PROVE  Result(prog, n) \notin B
  <2> DEFINE S == B \ {Result(prog, n)}
  <2>1. base \subseteq S
    BY <1>2, <1>7, ResultFacts
  <2>2. ASSUME NEW m \in S, NEW p \in Results(prog), <<m, p>> \in GoesInto(prog)
        PROVE  p \in S
    <3>1. p \in B
      BY <1>2, <2>2
    <3>2. PICK k \in Ops(prog) : p = Result(prog, k) /\ m \in ToSet(prog.ops[k].args)
      BY <2>2 DEF GoesInto
    <3>3. k # n
      BY <1>4, <1>7, <3>2
    <3> QED
      BY <3>1, <3>2, <3>3, ResultFacts
  <2>3. S \in SUBSET Results(prog)
    BY <1>2
  <2> HIDE DEF S
  <2>4. B \subseteq S
    BY <1>2, <2>1, <2>2, <2>3
  <2> QED
    BY <2>4 DEF S
<1> QED
  BY <1>1, <1>3, <1>6, <1>7

LEMMA AllUpToDate ==
  ASSUME IInv, NothingIsFedBack, ReachedInv, FactsInv
  PROVE  FactsAreUpToDate
<1> SUFFICES ASSUME pc # "analyze" PROVE FactsAreUpToDate
  BY DEF FactsAreUpToDate
<1>1. prog \in Programs /\ \A v \in Values(prog) : lattice[v] # Null
  BY AllReached DEF IInv
<1>2. ASSUME NEW n \in Ops(prog), Result(prog, n) \in Certain
      PROVE  /\ ~ IsGuess(n)
             /\ IsJoining(n) => \A i, j \in DOMAIN prog.ops[n].args : OperandFact(n, i) = OperandFact(n, j)
  BY <1>1, <1>2, CertainIs, TwoFacts DEF IsGuess, IsJoining
<1>3. Agreeing(Certain)
  BY <1>1, <1>2, CertainIs DEF Agreeing, Clash
<1>4. ASSUME NEW n \in Ops(prog), Result(prog, n) \in Certain
      PROVE  lattice[Result(prog, n)] =
               CASE prog.ops[n].kind \in Joining    -> lattice[prog.ops[n].args[1]]
                 [] prog.ops[n].kind \in Understood -> Transfer(prog.ops[n].kind, OperandFacts(n), prog.ops[n].dims)
                 [] OTHER                           -> prog.ops[n].type
  <2>1. FollowsFromOperands(n)
    BY <1>1, <1>3, <1>4, CertainIs, ProgramFacts DEF FactsInv
  <2>2. Joining \cap Understood = {}
    BY DEF Joining, Understood, SameAsOperand
  <2>3. CASE IsJoining(n)
    <3>1. PICK i \in Incoming(prog.ops[n]) : OperandFact(n, i) = lattice[Result(prog, n)]
      BY <2>1, <2>3 DEF FollowsFromOperands
    <3>2. i \in DOMAIN prog.ops[n].args
      BY <1>1, <3>1, OperandFactsAre
    <3>3. 1 \in DOMAIN prog.ops[n].args
      <4>1. PICK s \in Seq(Values(prog)) : s = prog.ops[n].args
        BY <1>1, ProgramsWellFormed
      <4>2. 1 \in DOMAIN s
        BY <3>2, <4>1
      <4> QED
        BY <4>1, <4>2
    <3>4. lattice[prog.ops[n].args[1]] = lattice[Result(prog, n)]
      BY <1>2, <1>4, <2>3, <3>1, <3>2, <3>3 DEF OperandFact
    <3> QED
      BY <2>2, <2>3, <3>4 DEF IsJoining
  <2>4. CASE ~ IsJoining(n)
    <3>1. lattice[Result(prog, n)] = OpFact(n)
      BY <2>1, <2>4 DEF FollowsFromOperands
    <3> QED
      BY <2>4, <3>1 DEF OpFact, IsJoining
  <2> QED
    BY <2>3, <2>4
<1> QED
  BY <1>1, <1>4 DEF FactsAreUpToDate

-----------------------------------------------------------------------------
\* Types after the rewriting

OfBlock(n) == prog.ops[n].kind \in {"block_arg", "loop_arg"}

\* A result the walk has been to: its type is the fact about it, or what a
\* user that allows refinement sees is.
Rewritten(n) ==
  /\ AllowsTypeRefinement(prog.ops[n].kind) => types[Result(prog, n)] = lattice[Result(prog, n)]
  /\ \A use \in UsesOf(prog, Result(prog, n)) :
       AllowsTypeRefinement(prog.ops[use[1]].kind) => TypeSeen(use) = lattice[Result(prog, n)]

SeenInv ==
  /\ pc = "analyze" => nextOp = 1
  /\ pc = "done" => \A n \in Ops(prog) : n < nextOp
  /\ \A v \in 1 .. Len(prog.args) :
       types[v] = DeclaredType(prog, v) /\ \A use \in UsesOf(prog, v) : form[use] = "itself"
  /\ \A n \in Ops(prog) :
       n >= nextOp => \A use \in UsesOf(prog, Result(prog, n)) : form[use] = "itself"
  /\ \A n \in Ops(prog) : n < nextOp /\ ~ OfBlock(n) => Rewritten(n)

LEMMA SeenInit ==
  ASSUME Init
  PROVE  SeenInv
<1>1. prog \in Programs /\ nextOp = 1 /\ pc = "analyze"
  BY DEF Init
<1>2. \A use \in Uses(prog) : form[use] = "itself"
  BY DEF Init
<1>3. \A v : UsesOf(prog, v) \subseteq Uses(prog)
  BY DEF UsesOf
<1>4. \A v \in 1 .. Len(prog.args) : types[v] = DeclaredType(prog, v)
  <2>1. PICK a \in Nat, b \in Nat : a = Len(prog.args) /\ b = Len(prog.ops)
    BY <1>1, ProgramFacts
  <2>2. \A v \in 1 .. a : v \in 1 .. a + b
    OBVIOUS
  <2> QED
    BY <2>1, <2>2 DEF Init, Values
<1>5. \A n \in Ops(prog) : ~ (n < nextOp)
  BY <1>1, ProgramFacts
<1> QED
  BY <1>1, <1>2, <1>3, <1>4, <1>5 DEF SeenInv

\* Only the walk changes types.
LEMMA SeenKept ==
  ASSUME SeenInv, UNCHANGED <<prog, nextOp, types, form>>,
         pc = "analyze" \/ UNCHANGED lattice, pc' = "analyze" => pc = "analyze",
         pc' = "done" => \A n \in Ops(prog) : n < nextOp,
         prog \in Programs
  PROVE  SeenInv'
<1>1. CASE pc = "analyze"
  <2>1. nextOp = 1
    BY <1>1 DEF SeenInv
  <2>2. \A n \in Ops(prog) : ~ (n < nextOp)
    BY <2>1, ProgramFacts
  <2> QED
    BY <2>1, <2>2 DEF SeenInv
<1>2. CASE pc # "analyze"
  <2>1. \A use : TypeSeen(use)' = TypeSeen(use)
    BY <1>2 DEF TypeSeen
  <2>2. \A n : Rewritten(n)' = Rewritten(n)
    BY <1>2, <2>1 DEF Rewritten
  <2> QED
    BY <1>2, <2>2 DEF SeenInv, OfBlock
<1> QED
  BY <1>1, <1>2

LEMMA SeenOptimize ==
  ASSUME TypeOK, prog \in Programs, SeenInv, OptimizeResult, \A v \in Values(prog) : lattice[v] # Null
  PROVE  SeenInv'
<1> DEFINE v    == Result(prog, nextOp)
           kind == prog.ops[nextOp].kind
<1>1. /\ pc = "optimize" /\ nextOp' = nextOp + 1
      /\ UNCHANGED <<prog, pc, lattice>>
  BY DEF OptimizeResult
<1>2. nextOp \in Ops(prog) /\ nextOp \in Nat /\ \A n \in Ops(prog) : n \in Nat
  <2>1. nextOp \in 1 .. Len(prog.ops) + 1 /\ nextOp <= Len(prog.ops)
    BY DEF TypeOK, OptimizeResult
  <2> QED
    BY <2>1, ProgramFacts
<1>3. v \in Values(prog) /\ v > Len(prog.args) /\ v \in Nat /\ Len(prog.args) \in Nat
  BY <1>2, ProgramFacts, ResultFacts
<1>4. \A n \in Ops(prog) : Result(prog, n) = v <=> n = nextOp
  BY <1>2, ResultFacts
<1>5. v \notin 1 .. Len(prog.args)
  BY <1>3
<1>6. \A n \in Ops(prog) : (n < nextOp' <=> n < nextOp \/ n = nextOp) /\ (n >= nextOp' => n >= nextOp /\ n # nextOp)
  BY <1>1, <1>2
<1>7. \A use \in UsesOf(prog, v) : form[use] = "itself" /\ use \in Uses(prog)
  BY <1>2 DEF SeenInv, UsesOf
<1>8. DOMAIN types = Values(prog) /\ form \in [Uses(prog) -> {"itself", "refined", "erased"}]
  BY DEF TypeOK
<1>9. \A w : \A use \in UsesOf(prog, w) : use \in Uses(prog) /\ prog.ops[use[1]].args[use[2]] = w
  BY DEF UsesOf
<1> HIDE DEF v
<1>10. CASE kind \in {"block_arg", "loop_arg"} \/ lattice[v] \in {Null, types[v]}
  <2>1. UNCHANGED <<types, form>>
    BY <1>10 DEF OptimizeResult, v
  <2>2. \A use : TypeSeen(use)' = TypeSeen(use)
    BY <1>1, <2>1 DEF TypeSeen
  <2>3. \A n : Rewritten(n)' = Rewritten(n)
    BY <1>1, <2>1, <2>2 DEF Rewritten
  <2>4. ASSUME ~ OfBlock(nextOp) PROVE Rewritten(nextOp)
    <3>1. types[v] = lattice[v]
      BY <1>3, <1>10, <2>4 DEF OfBlock
    <3>2. \A use \in UsesOf(prog, v) : TypeSeen(use) = types[v]
      BY <1>7, <1>9 DEF TypeSeen
    <3> QED
      BY <3>1, <3>2 DEF Rewritten, v
  <2>5. \A n \in Ops(prog) : n < nextOp' /\ ~ OfBlock(n) => Rewritten(n)
    BY <1>6, <2>4 DEF SeenInv
  <2> QED
    BY <1>1, <1>6, <2>1, <2>3, <2>5 DEF SeenInv, OfBlock
<1>11. CASE ~ (kind \in {"block_arg", "loop_arg"} \/ lattice[v] \in {Null, types[v]})
  <2>1. PICK new \in {"itself", "refined"} :
          /\ RefineUses(v, new)
          /\ IF new = "itself" THEN types' = [types EXCEPT ![v] = lattice[v]]
                               ELSE types' = types /\ ~ AllowsTypeRefinement(kind)
    BY <1>11 DEF OptimizeResult, v
  <2>2. /\ \A use \in Uses(prog) : use \notin UsesOf(prog, v) => form'[use] = form[use]
        /\ \A use \in UsesOf(prog, v) : AllowsTypeRefinement(prog.ops[use[1]].kind) => form'[use] = new
    BY <1>7, <2>1 DEF RefineUses
  <2>3. /\ \A w \in Values(prog) : w # v => types'[w] = types[w]
        /\ new = "itself" => types'[v] = lattice[v]
    BY <1>3, <1>8, <2>1
  <2>4. \A w : w # v => \A use \in UsesOf(prog, w) : use \notin UsesOf(prog, v) /\ form'[use] = form[use]
    BY <1>9, <2>2
  <2>5. ASSUME NEW n \in Ops(prog), n = nextOp PROVE Rewritten(n)'
    <3>1. Result(prog, n) = v /\ prog.ops[n].kind = kind
      BY <2>5 DEF v
    <3>2. AllowsTypeRefinement(kind) => types'[v] = lattice[v]
      BY <2>1, <2>3
    <3>3. ASSUME NEW use \in UsesOf(prog, v), AllowsTypeRefinement(prog.ops[use[1]].kind)
          PROVE  TypeSeen(use)' = lattice[v]
      <4>1. form'[use] = new /\ prog.ops[use[1]].args[use[2]] = v
        BY <1>9, <2>2, <3>3
      <4> QED
        BY <1>1, <2>3, <4>1 DEF TypeSeen
    <3> HIDE DEF kind
    <3> QED
      BY <1>1, <3>1, <3>2, <3>3 DEF Rewritten
  <2>6. ASSUME NEW n \in Ops(prog), n < nextOp, ~ OfBlock(n) PROVE Rewritten(n)'
    <3> DEFINE w == Result(prog, n)
    <3>1. w # v /\ w \in Values(prog)
      BY <1>2, <1>4, <2>6, ProgramFacts
    <3>2. Rewritten(n)
      BY <2>6 DEF SeenInv
    <3>3. types'[w] = types[w]
      BY <2>3, <3>1
    <3>4. \A use \in UsesOf(prog, w) : TypeSeen(use)' = TypeSeen(use)
      <4> TAKE use \in UsesOf(prog, w)
      <4>1. form'[use] = form[use] /\ prog.ops[use[1]].args[use[2]] = w
        BY <1>9, <2>4, <3>1
      <4> QED
        BY <1>1, <3>3, <4>1 DEF TypeSeen
    <3> QED
      BY <1>1, <3>2, <3>3, <3>4 DEF Rewritten
  <2>7. \A n \in Ops(prog) : n < nextOp' /\ ~ OfBlock(n) => Rewritten(n)'
    BY <1>6, <2>5, <2>6
  <2>8. \A n \in Ops(prog) : n >= nextOp' => \A use \in UsesOf(prog, Result(prog, n)) : form'[use] = "itself"
    BY <1>4, <1>6, <2>4 DEF SeenInv
  <2>9. \A w \in 1 .. Len(prog.args) : w # v /\ w \in Values(prog)
    <3>1. PICK a \in Nat, b \in Nat : a = Len(prog.args) /\ b = Len(prog.ops)
      BY ProgramFacts
    <3>2. \A w \in 1 .. a : w \in 1 .. a + b
      OBVIOUS
    <3> QED
      BY <1>5, <3>1, <3>2 DEF Values
  <2>10. \A w \in 1 .. Len(prog.args) :
           types'[w] = DeclaredType(prog, w) /\ \A use \in UsesOf(prog, w) : form'[use] = "itself"
    BY <2>3, <2>4, <2>9 DEF SeenInv
  <2> QED
    BY <1>1, <2>7, <2>8, <2>10 DEF SeenInv, OfBlock
<1> QED
  BY <1>10, <1>11

LEMMA NextSeen ==
  ASSUME IInv, NothingIsFedBack, ReachedInv, SeenInv, [Next]_vars
  PROVE  SeenInv'
<1>1. prog \in Programs /\ TypeOK
  BY DEF IInv
<1>2. ASSUME OptimizeResult PROVE SeenInv'
  <2>1. pc # "analyze"
    BY <1>2 DEF OptimizeResult
  <2> QED
    BY <1>1, <1>2, <2>1, AllReached, SeenOptimize
<1>3. ASSUME \/ \E visit \in pending : VisitOperation(visit[1]) \/ VisitSuccessor(visit[1], visit[2])
             \/ AnalysisDone \/ OptimizeDone \/ UNCHANGED vars
      PROVE  SeenInv'
  <2>1. /\ UNCHANGED <<prog, nextOp, types, form>>
        /\ pc = "analyze" \/ UNCHANGED lattice
        /\ pc' = "analyze" => pc = "analyze"
        /\ pc' = "done" => pc = "done" \/ nextOp > Len(prog.ops)
    BY <1>3 DEF VisitOperation, VisitSuccessor, AnalysisDone, OptimizeDone, vars
  <2>2. nextOp \in Nat /\ Len(prog.ops) \in Nat /\ Ops(prog) = 1 .. Len(prog.ops)
    BY <1>1, ProgramFacts DEF TypeOK
  <2>3. nextOp > Len(prog.ops) => \A n \in Ops(prog) : n < nextOp
    BY <2>2
  <2>4. pc' = "done" => \A n \in Ops(prog) : n < nextOp
    BY <2>1, <2>3 DEF SeenInv
  <2> QED
    BY <1>1, <2>1, <2>4, SeenKept
<1> QED
  BY <1>2, <1>3 DEF Next, PassNext, Terminated

LEMMA CopiesAgree ==
  ASSUME IInv, NothingIsFedBack, ReachedInv, FactsInv, SeenInv
  PROVE  CopiedResultTypesAgree
<1> SUFFICES ASSUME pc = "done", NEW n \in Ops(prog), prog.ops[n].kind = "copy",
                    prog.ops[n].args[1] \in Certain,
                    ~ (/\ prog.ops[n].args[1] > Len(prog.args)
                       /\ prog.ops[prog.ops[n].args[1] - Len(prog.args)].kind \in {"block_arg", "loop_arg"})
             PROVE  TypeSeen(<<n, 1>>) = types[Result(prog, n)]
  BY DEF CopiedResultTypesAgree
<1> DEFINE v == prog.ops[n].args[1]
<1>1. prog \in Programs /\ \A m \in Ops(prog) : m < nextOp
  BY DEF IInv, SeenInv
<1>2. prog.ops[n].kind \in Understood /\ prog.ops[n].kind \notin Joining /\ ~ OfBlock(n)
      /\ AllowsTypeRefinement(prog.ops[n].kind)
  BY DEF Understood, SameAsOperand, Joining, OfBlock, AllowsTypeRefinement
<1>3. 1 \in DOMAIN prog.ops[n].args
  <2>1. PICK s \in Seq(Values(prog)) : s = prog.ops[n].args
    BY <1>1, ProgramsWellFormed
  <2>2. s # <<>>
    BY <1>1, <1>2, <2>1, ProgramsWellFormed
  <2>3. 1 \in DOMAIN s
    BY <2>2, EmptySeq
  <2> QED
    BY <2>1, <2>3
<1>4. types[Result(prog, n)] = lattice[Result(prog, n)]
  BY <1>1, <1>2 DEF SeenInv, Rewritten
<1>5. lattice[Result(prog, n)] = lattice[v]
  <2>1. FactsAreUpToDate
    BY AllUpToDate
  <2>2. \A i \in DOMAIN prog.ops[n].args : prog.ops[n].args[i] \in Certain
    <3>1. prog.ops[n].args \in Seq(Values(prog)) /\ Len(prog.ops[n].args) = 1
      BY <1>1, ProgramsWellFormed DEF SameAsOperand
    <3>2. DOMAIN prog.ops[n].args = {1}
      BY <3>1
    <3> QED
      BY <3>2
  <2>3. ~ IsGuess(n)
    BY <1>2 DEF IsGuess
  <2>4. Result(prog, n) \in Certain
    BY <1>1, <2>2, <2>3, CertainIs
  <2>5. lattice[Result(prog, n)] = Transfer("copy", OperandFacts(n), prog.ops[n].dims)
    BY <1>2, <2>1, <2>4 DEF FactsAreUpToDate
  <2>6. Transfer("copy", OperandFacts(n), prog.ops[n].dims) = OperandFacts(n)[1]
    BY DEF Transfer, SameAsOperand
  <2> QED
    BY <1>1, <1>3, <2>5, <2>6, OperandFactsAre DEF OperandFact
<1>6. TypeSeen(<<n, 1>>) = lattice[v]
  <2> DEFINE use == <<n, 1>>
  <2>1. use[1] = n /\ use[2] = 1 /\ use \in Uses(prog)
    BY <1>1, <1>3, ProgramFacts
  <2> HIDE DEF use
  <2>2. use \in UsesOf(prog, v) /\ v \in Values(prog)
    BY <1>1, <2>1, ProgramFacts DEF UsesOf
  <2>3. CASE v \in 1 .. Len(prog.args)
    <3>1. form[use] = "itself" /\ types[v] = DeclaredType(prog, v) /\ lattice[v] = DeclaredType(prog, v)
      BY <2>2, <2>3 DEF SeenInv, ReachedInv
    <3> QED
      BY <2>1, <3>1 DEF TypeSeen, use
  <2>4. CASE v \notin 1 .. Len(prog.args)
    <3>1. PICK m \in Ops(prog) : v = Result(prog, m)
      BY <1>1, <2>2, <2>4, ResultFacts
    <3>2. v > Len(prog.args) /\ v - Len(prog.args) = m
      <4>1. PICK a \in Nat : a = Len(prog.args)
        BY <1>1, ProgramFacts
      <4>2. v = a + m /\ m \in Nat /\ m > 0
        BY <1>1, <3>1, <4>1, ProgramFacts DEF Result
      <4> QED
        BY <4>1, <4>2
    <3>3. ~ OfBlock(m)
      BY <3>2 DEF OfBlock
    <3>4. Rewritten(m)
      BY <1>1, <3>3 DEF SeenInv
    <3>5. TypeSeen(use) = lattice[v]
      BY <1>2, <2>1, <2>2, <3>1, <3>4 DEF Rewritten
    <3> QED
      BY <3>5 DEF use
  <2> QED
    BY <2>3, <2>4
<1> QED
  BY <1>4, <1>5, <1>6

-----------------------------------------------------------------------------
\* What the facts claim

\* Tensors a program may compute.
Computable == [sizes : Seq(Nat), dtype : Dtypes]

LEMMA TensorFields ==
  ASSUME NEW t \in Computable
  PROVE  t.sizes \in Seq(Nat) /\ t.dtype \in Dtypes /\ t = Tensor(t.sizes, t.dtype) /\ Len(t.sizes) \in Nat
BY DEF Computable, Tensor

LEMMA TensorMade ==
  ASSUME NEW sizes \in Seq(Nat), NEW dtype \in Dtypes
  PROVE  Tensor(sizes, dtype) \in Computable
BY DEF Computable, Tensor

LEMMA SizedClaims ==
  ASSUME NEW s, NEW d, NEW sizes, NEW dtype, Len(s) = Len(sizes), d \in {NoDtype, dtype},
         \A i \in 1 .. Len(s) : s[i] \in {kUnknownSize, sizes[i]}
  PROVE  Claims(Sized(s, d), Tensor(sizes, dtype))
BY DEF Claims, Sized, Tensor

LEMMA UnsizedClaims ==
  ASSUME NEW d, NEW sizes, NEW dtype, d \in {NoDtype, dtype}
  PROVE  Claims(Unsized(d), Tensor(sizes, dtype))
BY DEF Claims, Unsized, Tensor

LEMMA UnknownClaims ==
  ASSUME NEW n \in Nat, NEW d, NEW sizes, NEW dtype, Len(sizes) = n, d \in {NoDtype, dtype}
  PROVE  Claims(Sized(UnknownSizes(n), d), Tensor(sizes, dtype))
<1>1. \A i \in 1 .. n : UnknownSizes(n)[i] = kUnknownSize
  BY DEF UnknownSizes
<1>2. Len(UnknownSizes(n)) = n
  BY UnknownSizesType
<1> QED
  BY <1>1, <1>2, SizedClaims

-----------------------------------------------------------------------------
\* What the ops compute is a tensor

LEMMA SizesBetween ==
  ASSUME NEW s \in Seq(Nat), NEW m \in Int, NEW n \in Int, m >= 1, n <= Len(s)
  PROVE  SubSeq(s, m, n) \in Seq(Nat)
<1>1. \A i \in m .. n : s[i] \in Nat
  OBVIOUS
<1> QED
  BY <1>1, SubSeqProperties

LEMMA ProductType ==
  ASSUME NEW s \in Seq(Nat)
  PROVE  Product(s) \in Nat
<1>1. PICK n \in Nat : n = Len(s)
  OBVIOUS
<1> DEFINE Is(up) == up = [i \in 0 .. n |-> IF i = 0 THEN 1 ELSE up[i - 1] * s[i]]
           upTo == CHOOSE up : Is(up)
<1>2. Product(s) = upTo[n]
  BY <1>1 DEF Product
<1>3. \A k \in 1 .. n : s[k] \in Nat
  BY <1>1
<1>4. PICK F \in [1 .. n -> [Nat -> Nat]] : \A k \in 1 .. n, x \in Nat : F[k][x] = x * s[k]
  <2> DEFINE G == [k \in 1 .. n |-> [x \in Nat |-> x * s[k]]]
  <2>1. \A k \in 1 .. n, x \in Nat : x * s[k] \in Nat
    BY <1>3
  <2>2. G \in [1 .. n -> [Nat -> Nat]] /\ \A k \in 1 .. n, x \in Nat : G[k][x] = x * s[k]
    BY <2>1
  <2> QED
    BY <2>2
<1>5. PICK f : IsRun(Nat, 1, n, F, f)
  BY FiniteRecursion
<1>6. \A k \in 1 .. n : k - 1 \in 0 .. n
  OBVIOUS
<1>7. Is(f)
  <2>1. PICK g : g = [i \in 0 .. n |-> IF i = 0 THEN 1 ELSE f[i - 1] * s[i]]
    OBVIOUS
  <2>2. ASSUME NEW k \in 0 .. n, k # 0 PROVE f[k] = f[k - 1] * s[k]
    <3>1. k \in 1 .. n /\ k - 1 \in 0 .. n
      BY <2>2
    <3>2. f[k] = F[k][f[k - 1]] /\ f[k - 1] \in Nat
      BY <1>5, <3>1 DEF IsRun
    <3> QED
      BY <1>4, <3>1, <3>2
  <2>3. \A k \in 0 .. n : f[k] = g[k]
    BY <1>5, <2>1, <2>2 DEF IsRun
  <2> QED
    BY <1>5, <2>1, <2>3 DEF IsRun
<1>8. Is(upTo)
  BY <1>7
<1> HIDE DEF upTo
<1>9. upTo[0] = 1 /\ \A k \in 0 .. n : k # 0 => upTo[k] = upTo[k - 1] * s[k]
  <2>1. \A i \in 0 .. n : upTo[i] = IF i = 0 THEN 1 ELSE upTo[i - 1] * s[i]
    BY <1>8, Zenon
  <2> QED
    BY <2>1
<1> DEFINE S == {k \in Nat : k <= n => upTo[k] \in Nat}
<1>10. 0 \in S
  BY <1>9
<1>11. ASSUME NEW k \in Nat, k \in S PROVE k + 1 \in S
  <2> SUFFICES ASSUME k + 1 <= n PROVE upTo[k + 1] \in Nat
    OBVIOUS
  <2>1. upTo[k] \in Nat /\ s[k + 1] \in Nat
    BY <1>3, <1>11
  <2>2. upTo[k + 1] = upTo[k] * s[k + 1]
    BY <1>9
  <2>3. \A x, y \in Nat : x * y \in Nat
    OBVIOUS
  <2> QED
    BY <2>1, <2>2, <2>3
<1>12. n \in S
  <2> HIDE DEF S
  <2> QED
    BY <1>10, <1>11, SetInduction
<1> QED
  BY <1>2, <1>12

LEMMA BroadcastType ==
  ASSUME NEW a \in Seq(Nat), NEW b \in Seq(Nat)
  PROVE  /\ LongerOf(a, b) \in Nat
         /\ Broadcast(a, b) \in Seq(Nat)
         /\ Len(Broadcast(a, b)) = LongerOf(a, b)
<1>1. PICK rank \in Nat : rank = LongerOf(a, b)
  BY DEF LongerOf
<1>2. \A s \in Seq(Nat), i \in 1 .. rank : FromRight(s, i) \in Nat
  <2> TAKE s \in Seq(Nat), i \in 1 .. rank
  <2>1. i <= Len(s) => Len(s) + 1 - i \in 1 .. Len(s)
    OBVIOUS
  <2> QED
    BY <2>1 DEF FromRight
<1>3. PICK e : e = [i \in 1 .. rank |-> IF FromRight(a, rank + 1 - i) = 1 THEN FromRight(b, rank + 1 - i)
                                        ELSE FromRight(a, rank + 1 - i)]
  OBVIOUS
<1>4. ASSUME NEW i \in 1 .. rank PROVE e[i] \in Nat
  <2>1. rank + 1 - i \in 1 .. rank
    OBVIOUS
  <2> QED
    BY <1>2, <1>3, <2>1
<1>5. e \in Seq(Nat) /\ Len(e) = rank
  BY <1>3, <1>4
<1>6. Broadcast(a, b) = e
  BY <1>1, <1>3 DEF Broadcast
<1> QED
  BY <1>1, <1>5, <1>6

-----------------------------------------------------------------------------
\* Each op on tensors that the facts k hold of

LEMMA PoolsSound ==
  ASSUME NEW k, NEW t, t[1] \in Computable, k[1] \in Knowledge, NEW dims,
         NEW kind \in {"max_pool2d", "adaptive_avg_pool2d"}, NEW r \in Execute(kind, t, dims)
  PROVE  r \in Computable /\ (Claims(k[1], t[1]) => Claims(Transfer(kind, k, dims), r))
<1>1. PICK s \in Seq(Nat), d \in Dtypes : t[1].sizes = s /\ t[1].dtype = d /\ t[1] = Tensor(s, d)
  BY TensorFields
<1>2. Claims(k[1], t[1]) => k[1].dtype \in {NoDtype, d} /\ (k[1].hasSizes => Len(k[1].sizes) = Len(s))
  BY <1>1 DEF Claims
<1>3. CASE kind = "max_pool2d"
  <2>1. r = t[1] /\ Len(s) = 4
    BY <1>1, <1>3 DEF Execute, SameAsOperand
  <2>2. Transfer(kind, k, dims) = Sized(UnknownSizes(4), k[1].dtype)
    BY <1>3 DEF Transfer, MaxPool2dTransfer, SameAsOperand
  <2> QED
    BY <1>1, <1>2, <2>1, <2>2, UnknownClaims
<1>4. CASE kind = "adaptive_avg_pool2d"
  <2>1. PICK low \in Seq(Nat) : low = SubSeq(s, 1, Len(s) - 2)
    <3> DEFINE m == Len(s) - 2
    <3>1. m \in Int /\ m <= Len(s)
      OBVIOUS
    <3>2. SubSeq(s, 1, m) \in Seq(Nat)
      BY <3>1, SizesBetween
    <3> QED
      BY <3>1, <3>2
  <2>2. r = Tensor(low \o <<1, 1>>, d) /\ Len(s) \in {3, 4}
    BY <1>1, <1>4, <2>1 DEF Execute, SameAsOperand
  <2>3. low \o <<1, 1>> \in Seq(Nat) /\ Len(low \o <<1, 1>>) = Len(s)
    <3>1. Len(low) = Len(s) - 2
      <4>1. \A i \in 1 .. Len(s) - 2 : s[i] \in Nat
        BY <2>2
      <4> QED
        BY <2>1, <2>2, <4>1, SubSeqProperties
    <3>2. <<1, 1>> \in Seq(Nat) /\ Len(<<1, 1>>) = 2
      OBVIOUS
    <3>3. PICK ones \in Seq(Nat) : ones = <<1, 1>> /\ Len(ones) = 2
      BY <3>2
    <3>4. low \o ones \in Seq(Nat) /\ Len(low \o ones) = Len(low) + Len(ones)
      BY ConcatProperties
    <3> QED
      BY <2>2, <3>1, <3>3, <3>4
  <2>4. Transfer(kind, k, dims) =
          IF k[1].hasSizes THEN Sized(UnknownSizes(Len(k[1].sizes)), k[1].dtype) ELSE Unsized(k[1].dtype)
    BY <1>4 DEF Transfer, AdaptiveAvgPool2dTransfer, SameAsOperand
  <2>5. PICK sizes \in Seq(Nat) : sizes = low \o <<1, 1>> /\ Len(sizes) = Len(s) /\ r = Tensor(sizes, d)
    BY <2>2, <2>3
  <2>6. r \in Computable
    BY <2>5, TensorMade
  <2>7. ASSUME Claims(k[1], t[1]) PROVE Claims(Transfer(kind, k, dims), r)
    <3>1. CASE k[1].hasSizes
      <4>1. Len(k[1].sizes) = Len(sizes) /\ Len(sizes) \in Nat
        BY <1>2, <2>5, <2>7, <3>1
      <4> QED
        BY <1>2, <2>4, <2>5, <2>7, <3>1, <4>1, UnknownClaims
    <3>2. CASE ~ k[1].hasSizes
      BY <1>2, <2>4, <2>5, <2>7, <3>2, UnsizedClaims
    <3> QED
      BY <3>1, <3>2
  <2> QED
    BY <2>6, <2>7
<1> QED
  BY <1>3, <1>4

LEMMA ProductsSound ==
  ASSUME NEW k, NEW t, t[1] \in Computable, t[2] \in Computable, {1, 2} \subseteq DOMAIN t, NEW dims,
         NEW kind \in {"mm", "conv2d"}, NEW r \in Execute(kind, t, dims)
  PROVE  /\ r \in Computable
         /\ Claims(k[1], t[1]) /\ Claims(k[2], t[2]) => Claims(Transfer(kind, k, dims), r)
<1>1. PICK s \in Seq(Nat), d \in Dtypes : t[1].sizes = s /\ t[1].dtype = d /\ t[1] = Tensor(s, d)
  BY TensorFields
<1>2. PICK w \in Seq(Nat) : t[2].sizes = w
  BY TensorFields
<1>3. PICK n \in {2, 4}, sizes \in Seq(Nat) :
        /\ r = Tensor(sizes, d) /\ Len(sizes) = n /\ t[2].dtype = d
        /\ Transfer(kind, k, dims) = Sized(UnknownSizes(n), JoinElementTypes(k[1].dtype, k[2].dtype))
  <2>1. CASE kind = "mm"
    <3>1. /\ Len(s) = 2 /\ Len(w) = 2 /\ r = Tensor(<<s[1], w[2]>>, d)
          /\ t[2].dtype = d
      BY <1>1, <1>2, <2>1 DEF Execute, SameAsOperand
    <3>2. s[1] \in Nat /\ w[2] \in Nat
      <4>1. 1 \in 1 .. Len(s) /\ 2 \in 1 .. Len(w)
        BY <3>1
      <4> QED
        BY <4>1, ElementOfSeq
    <3>3. Transfer(kind, k, dims) = Sized(UnknownSizes(2), JoinElementTypes(k[1].dtype, k[2].dtype))
      BY <2>1 DEF Transfer, MmTransfer, SameAsOperand
    <3> QED
      <4>1. PICK a \in Nat, b \in Nat : a = s[1] /\ b = w[2]
        BY <3>2
      <4>2. <<a, b>> \in Seq(Nat) /\ Len(<<a, b>>) = 2
        OBVIOUS
      <4> QED
        BY <3>1, <3>3, <4>1, <4>2
  <2>2. CASE kind = "conv2d"
    <3>1. Len(s) = 4 /\ r = t[1] /\ t[2].dtype = d
      BY <1>1, <2>2 DEF Execute, SameAsOperand
    <3>2. Transfer(kind, k, dims) = Sized(UnknownSizes(4), JoinElementTypes(k[1].dtype, k[2].dtype))
      BY <2>2 DEF Transfer, Conv2dTransfer, SameAsOperand
    <3> QED
      BY <1>1, <3>1, <3>2
  <2> QED
    BY <2>1, <2>2
<1>4. r \in Computable
  BY <1>3, TensorMade
<1>5. ASSUME Claims(k[1], t[1]), Claims(k[2], t[2]) PROVE Claims(Transfer(kind, k, dims), r)
  <2>1. k[1].dtype \in {NoDtype, d} /\ k[2].dtype \in {NoDtype, d}
    BY <1>1, <1>3, <1>5 DEF Claims
  <2>2. JoinElementTypes(k[1].dtype, k[2].dtype) \in {NoDtype, d}
    BY <2>1 DEF JoinElementTypes
  <2>3. n \in Nat
    OBVIOUS
  <2> QED
    BY <1>3, <2>2, <2>3, UnknownClaims
<1> QED
  BY <1>4, <1>5

LEMMA LinearSound ==
  ASSUME NEW k, NEW t, \A i \in {1, 2, 3} : t[i] \in Computable /\ i \in DOMAIN t, k[1] \in Knowledge,
         NEW dims, NEW r \in Execute("linear", t, dims)
  PROVE  /\ r \in Computable
         /\ (\A i \in {1, 2, 3} : Claims(k[i], t[i])) => Claims(Transfer("linear", k, dims), r)
<1>1. PICK s \in Seq(Nat), d \in Dtypes : t[1].sizes = s /\ t[1].dtype = d /\ t[1] = Tensor(s, d)
  BY TensorFields
<1>2. PICK w \in Seq(Nat) : t[2].sizes = w
  BY TensorFields
<1>3. PICK n \in Nat : n = Len(s)
  OBVIOUS
<1>4. /\ n > 0 /\ Len(w) = 2 /\ r = Tensor(Append(Front(s), w[1]), d)
      /\ t[2].dtype = d /\ t[3].dtype = d
  BY <1>1, <1>2, <1>3 DEF Execute, SameAsOperand
<1>5. PICK sizes \in Seq(Nat) :
        sizes = Append(Front(s), w[1]) /\ Len(sizes) = n /\ \A i \in 1 .. n - 1 : sizes[i] = s[i]
  <2>1. PICK m \in Nat : m = n - 1 /\ n = m + 1
    BY <1>4
  <2>2. \A i \in 1 .. m : s[i] \in Nat
    BY <1>3, <2>1
  <2>3. PICK low : low = SubSeq(s, 1, m)
    OBVIOUS
  <2>4. low \in Seq(Nat) /\ Len(low) = m /\ \A i \in 1 .. m : low[i] = s[i]
    <3>1. /\ low \in Seq(Nat) /\ Len(low) = IF 1 <= m THEN m - 1 + 1 ELSE 0
          /\ \A i \in 1 .. m - 1 + 1 : low[i] = s[1 + i - 1]
      BY <2>2, <2>3, SubSeqProperties
    <3> QED
      BY <3>1
  <2>5. Front(s) = low
    BY <1>3, <2>1, <2>3 DEF Front
  <2>6. w[1] \in Nat
    <3>1. 1 \in 1 .. Len(w)
      BY <1>4
    <3> QED
      BY <3>1, ElementOfSeq
  <2>7. PICK x \in Nat : x = w[1]
    BY <2>6
  <2>8. /\ Append(low, x) \in Seq(Nat) /\ Len(Append(low, x)) = m + 1
        /\ \A i \in 1 .. m : Append(low, x)[i] = low[i]
    BY <2>4, AppendProperties
  <2>9. PICK sizes \in Seq(Nat) : sizes = Append(Front(s), w[1]) /\ Len(sizes) = m + 1 /\ \A i \in 1 .. m : sizes[i] = low[i]
    BY <2>5, <2>7, <2>8
  <2> QED
    BY <2>1, <2>4, <2>9
<1>6. r \in Computable
  BY <1>4, <1>5, TensorMade
<1>7. ASSUME \A i \in {1, 2, 3} : Claims(k[i], t[i]) PROVE Claims(Transfer("linear", k, dims), r)
  <2> DEFINE dtype == JoinElementTypes(k[1].dtype, JoinElementTypes(k[2].dtype, k[3].dtype))
             known == IF Len(k[1].sizes) > 0 THEN [k[1].sizes EXCEPT ![Len(k[1].sizes)] = kUnknownSize] ELSE k[1].sizes
  <2>1. dtype \in {NoDtype, d}
    <3>1. k[1].dtype \in {NoDtype, d} /\ k[2].dtype \in {NoDtype, d} /\ k[3].dtype \in {NoDtype, d}
      BY <1>1, <1>4, <1>7 DEF Claims
    <3> QED
      BY <3>1 DEF JoinElementTypes
  <2>2. k[1] \in [hasSizes : BOOLEAN, sizes : Seq(Size), dtype : Dtypes \cup {NoDtype}]
    BY DEF Knowledge
  <2>3. Transfer("linear", k, dims) = [k[1] EXCEPT !.sizes = known, !.dtype = dtype]
    BY DEF Transfer, LinearTransfer, SameAsOperand
  <2> HIDE DEF dtype
  <2>4. Transfer("linear", k, dims) = [hasSizes |-> k[1].hasSizes, sizes |-> known, dtype |-> dtype]
    <3> HIDE DEF known
    <3> QED
      BY <2>2, <2>3
  <2>5. ASSUME k[1].hasSizes
        PROVE  Len(known) = n /\ \A i \in 1 .. n : known[i] \in {kUnknownSize, sizes[i]}
    <3>1. PICK q \in Seq(Size) : q = k[1].sizes
      BY <2>2
    <3>2. Len(q) = n /\ \A i \in 1 .. n : q[i] \in {kUnknownSize, s[i]}
      BY <1>1, <1>3, <1>7, <2>5, <3>1 DEF Claims
    <3>3. known = [q EXCEPT ![n] = kUnknownSize]
      BY <1>4, <3>1, <3>2
    <3>4. n \in 1 .. Len(q) /\ kUnknownSize \in Size
      BY <1>4, <3>2 DEF Size
    <3>5. Len(known) = n /\ \A i \in 1 .. n : known[i] = IF i = n THEN kUnknownSize ELSE q[i]
      <4>1. PICK z \in Seq(Size) : z = [q EXCEPT ![n] = kUnknownSize]
        BY <3>4, ExceptSeq
      <4>2. Len(z) = Len(q) /\ \A i \in 1 .. Len(q) : z[i] = IF i = n THEN kUnknownSize ELSE q[i]
        BY <3>4, <4>1, ExceptSeq
      <4> HIDE DEF known
      <4> QED
        BY <3>2, <3>3, <4>1, <4>2
    <3>6. \A i \in 1 .. n : i = n \/ i \in 1 .. n - 1
      OBVIOUS
    <3> QED
      BY <1>5, <3>2, <3>5, <3>6
  <2> HIDE DEF known
  <2> QED
    BY <1>4, <1>5, <2>1, <2>4, <2>5 DEF Claims, Tensor
<1> QED
  BY <1>6, <1>7

LEMMA AddSound ==
  ASSUME NEW k, NEW t, t[1] \in Computable, t[2] \in Computable, NEW dims,
         k[1] \in Knowledge, k[2] \in Knowledge, NEW r \in Execute("add", t, dims)
  PROVE  /\ r \in Computable
         /\ (/\ Claims(k[1], t[1]) /\ Claims(k[2], t[2])
             /\ ~ (NoDtype \in {k[1].dtype, k[2].dtype} /\ k[1].dtype # k[2].dtype)
             => Claims(Transfer("add", k, dims), r))
<1>1. PICK s \in Seq(Nat), w \in Seq(Nat) : t[1].sizes = s /\ t[2].sizes = w
  BY TensorFields
<1>2. PICK sizes \in Seq(Nat), d \in {t[1].dtype, t[2].dtype} :
        r = Tensor(sizes, d) /\ Len(sizes) = LongerOf(s, w)
  <2>1. PICK i \in {1, 2} : r = Tensor(Broadcast(s, w), t[i].dtype)
    BY <1>1 DEF Execute, SameAsOperand
  <2> QED
    BY <2>1, BroadcastType
<1>3. r \in Computable
  BY <1>2, TensorMade, TensorFields
<1>4. ASSUME Claims(k[1], t[1]), Claims(k[2], t[2]),
             ~ (NoDtype \in {k[1].dtype, k[2].dtype} /\ k[1].dtype # k[2].dtype)
      PROVE  Claims(Transfer("add", k, dims), r)
  <2> DEFINE dtype == JoinElementTypes(k[1].dtype, k[2].dtype)
             rank  == LongerOf(k[1].sizes, k[2].sizes)
  <2>1. dtype \in {NoDtype, d}
    BY <1>4 DEF Claims, JoinElementTypes
  <2>2. Transfer("add", k, dims) =
          IF k[1].hasSizes /\ k[2].hasSizes THEN Sized(UnknownSizes(rank), dtype) ELSE Unsized(dtype)
    BY DEF Transfer, BroadcastTransfer, LongerOf, SameAsOperand
  <2>3. k[1].hasSizes /\ k[2].hasSizes => rank = Len(sizes) /\ rank \in Nat
    BY <1>1, <1>2, <1>4 DEF Claims, LongerOf
  <2> HIDE DEF rank, dtype
  <2>4. CASE k[1].hasSizes /\ k[2].hasSizes
    BY <1>2, <2>1, <2>2, <2>3, <2>4, UnknownClaims
  <2>5. CASE ~ (k[1].hasSizes /\ k[2].hasSizes)
    BY <1>2, <2>1, <2>2, <2>5, UnsizedClaims
  <2> QED
    BY <2>4, <2>5
<1> QED
  BY <1>3, <1>4

LEMMA SingletonSeq ==
  ASSUME NEW S, NEW x \in S
  PROVE  <<x>> \in Seq(S) /\ Len(<<x>>) = 1 /\ <<x>>[1] = x
OBVIOUS

\* The sizes of s with x in place of those from number a + 1 to number b - 1.
Spliced(s, a, x, b) == SubSeq(s, 1, a) \o <<x>> \o SubSeq(s, b, Len(s))

IsSpliced(s, n, a, x, b, z) ==
  /\ Len(z) = a + 1 + (n + 1 - b)
  /\ \A i \in 1 .. a + 1 + (n + 1 - b) :
       z[i] = IF i <= a THEN s[i] ELSE IF i = a + 1 THEN x ELSE s[b + i - a - 2]

\* The sizes q are known of s.
SizesKnown(q, s) == Len(q) = Len(s) /\ \A i \in 1 .. Len(q) : q[i] \in {kUnknownSize, s[i]}

LEMMA SplicedIs ==
  ASSUME NEW S, NEW s \in Seq(S), NEW n, n = Len(s), NEW x \in S, NEW a \in Nat, NEW b \in Nat,
         a <= n, 1 <= b, b <= n + 1
  PROVE  Spliced(s, a, x, b) \in Seq(S) /\ IsSpliced(s, n, a, x, b, Spliced(s, a, x, b))
<1>1. n \in Nat /\ n = Len(s) /\ n + 1 - b \in Nat
  OBVIOUS
<1>2. (\A i \in 1 .. a : s[i] \in S) /\ \A i \in b .. n : s[i] \in S
  BY <1>1
<1>3. PICK low : low = SubSeq(s, 1, a)
  OBVIOUS
<1>4. low \in Seq(S) /\ Len(low) = a /\ \A i \in 1 .. a : low[i] = s[i]
  <2>1. /\ low \in Seq(S) /\ Len(low) = IF 1 <= a THEN a - 1 + 1 ELSE 0
        /\ \A i \in 1 .. a - 1 + 1 : low[i] = s[1 + i - 1]
    BY <1>2, <1>3, SubSeqProperties
  <2> QED
    BY <2>1
<1>5. PICK high : high = SubSeq(s, b, n)
  OBVIOUS
<1>6. high \in Seq(S) /\ Len(high) = n + 1 - b /\ \A i \in 1 .. n + 1 - b : high[i] = s[b + i - 1]
  <2>1. /\ high \in Seq(S) /\ Len(high) = IF b <= n THEN n - b + 1 ELSE 0
        /\ \A i \in 1 .. n - b + 1 : high[i] = s[b + i - 1]
    BY <1>2, <1>5, SubSeqProperties
  <2> QED
    BY <1>1, <2>1
<1>7. PICK one \in Seq(S) : one = <<x>> /\ Len(one) = 1 /\ one[1] = x
  BY SingletonSeq
<1>8. PICK left : left = low \o one
  OBVIOUS
<1>9. /\ left \in Seq(S) /\ Len(left) = a + 1
      /\ \A i \in 1 .. a + 1 : left[i] = IF i <= a THEN s[i] ELSE x
  <2>1. /\ left \in Seq(S) /\ Len(left) = a + 1
        /\ \A i \in 1 .. a + 1 : left[i] = IF i <= a THEN low[i] ELSE one[i - a]
    BY <1>4, <1>7, <1>8, ConcatProperties
  <2>2. \A i \in 1 .. a + 1 : i <= a \/ i - a = 1
    OBVIOUS
  <2> QED
    BY <1>4, <1>7, <2>1, <2>2
<1>10. PICK whole : whole = left \o high
  OBVIOUS
<1>11. /\ whole \in Seq(S) /\ Len(whole) = a + 1 + (n + 1 - b)
       /\ \A i \in 1 .. a + 1 + (n + 1 - b) : whole[i] = IF i <= a + 1 THEN left[i] ELSE high[i - (a + 1)]
  <2> DEFINE l == a + 1
             h == n + 1 - b
  <2>1. l \in Nat /\ h \in Nat
    BY <1>1
  <2>2. Len(left) = l /\ Len(high) = h
    BY <1>6, <1>9
  <2>3. /\ whole \in Seq(S) /\ Len(whole) = l + h
        /\ \A i \in 1 .. l + h : whole[i] = IF i <= l THEN left[i] ELSE high[i - l]
    <3> HIDE DEF l, h
    <3>1. /\ left \o high \in Seq(S) /\ Len(left \o high) = Len(left) + Len(high)
          /\ \A i \in 1 .. Len(left) + Len(high) :
               (left \o high)[i] = IF i <= Len(left) THEN left[i] ELSE high[i - Len(left)]
      BY <1>6, <1>9, ConcatProperties
    <3> QED
      BY <1>10, <2>2, <3>1
  <2> QED
    BY <2>3
<1>12. \A i \in 1 .. a + 1 + (n + 1 - b) :
         whole[i] = IF i <= a THEN s[i] ELSE IF i = a + 1 THEN x ELSE s[b + i - a - 2]
  <2> TAKE i \in 1 .. a + 1 + (n + 1 - b)
  <2>1. CASE i <= a + 1
    <3>1. i \in 1 .. a + 1
      BY <2>1
    <3> QED
      BY <1>9, <1>11, <2>1, <3>1
  <2>2. CASE ~ (i <= a + 1)
    <3>1. PICK j \in 1 .. n + 1 - b : j = i - (a + 1)
      BY <1>1, <2>2
    <3>2. whole[i] = high[j] /\ b + j - 1 = b + i - a - 2
      BY <1>11, <2>2, <3>1
    <3>3. high[j] = s[b + j - 1]
      BY <1>6, <3>1
    <3> QED
      BY <2>2, <3>2, <3>3
  <2> QED
    BY <2>1, <2>2
<1>13. Spliced(s, a, x, b) = whole
  BY <1>1, <1>3, <1>5, <1>7, <1>8, <1>10 DEF Spliced
<1>14. IsSpliced(s, n, a, x, b, whole)
  BY <1>11, <1>12 DEF IsSpliced
<1> QED
  BY <1>11, <1>13, <1>14

LEMMA SplicedClaims ==
  ASSUME NEW s \in Seq(Nat), NEW q \in Seq(Size), SizesKnown(q, s), NEW n, n = Len(s),
         NEW x \in Nat, NEW y \in Size, y = kUnknownSize \/ y = x, NEW a \in Nat, NEW b \in Nat,
         a < b, b <= n + 1,
         NEW d, NEW dtype, d = NoDtype \/ d = dtype
  PROVE  Claims(Sized(Spliced(q, a, y, b), d), Tensor(Spliced(s, a, x, b), dtype))
<1>1. n \in Nat /\ n = Len(s) /\ n = Len(q) /\ b <= n + 1 /\ \A i \in 1 .. n : q[i] \in {kUnknownSize, s[i]}
  BY DEF SizesKnown
<1> DEFINE N == a + 1 + (n + 1 - b)
<1>2. N \in Nat /\ a <= n /\ 1 <= b
  BY <1>1
<1>3. PICK sizes : sizes = Spliced(s, a, x, b)
  OBVIOUS
<1>4. PICK facts : facts = Spliced(q, a, y, b)
  OBVIOUS
<1>5. a <= n /\ 1 <= b
  BY <1>2
<1>6. /\ Len(sizes) = N
      /\ \A i \in 1 .. N : sizes[i] = IF i <= a THEN s[i] ELSE IF i = a + 1 THEN x ELSE s[b + i - a - 2]
  <2>1. n = Len(s) /\ a <= n /\ 1 <= b /\ b <= n + 1
    BY <1>1, <1>5
  <2>2. IsSpliced(s, n, a, x, b, sizes)
    BY <1>3, <2>1, SplicedIs, Zenon
  <2> QED
    BY <2>2 DEF IsSpliced
<1>7. /\ Len(facts) = N
      /\ \A i \in 1 .. N : facts[i] = IF i <= a THEN q[i] ELSE IF i = a + 1 THEN y ELSE q[b + i - a - 2]
  <2>1. n = Len(q) /\ a <= n /\ 1 <= b /\ b <= n + 1
    BY <1>1, <1>5
  <2>2. IsSpliced(q, n, a, y, b, facts)
    BY <1>4, <2>1, SplicedIs, Zenon
  <2> QED
    BY <2>2 DEF IsSpliced
<1>8. \A i \in 1 .. N : facts[i] \in {kUnknownSize, sizes[i]}
  <2> TAKE i \in 1 .. N
  <2>1. CASE i <= a
    <3>1. i \in 1 .. n
      BY <1>5, <2>1
    <3> QED
      BY <1>1, <1>6, <1>7, <2>1, <3>1
  <2>2. CASE i = a + 1
    BY <1>6, <1>7, <2>2
  <2>3. CASE ~ (i <= a) /\ i # a + 1
    <3>1. PICK j \in 1 .. n : j = b + i - a - 2
      BY <1>2, <1>5, <2>3
    <3> QED
      BY <1>1, <1>6, <1>7, <2>3, <3>1
  <2> QED
    BY <2>1, <2>2, <2>3
<1> QED
  BY <1>3, <1>4, <1>6, <1>7, <1>8, SizedClaims

LEMMA FlattenSound ==
  ASSUME NEW k, NEW t, t[1] \in Computable, k[1] \in Knowledge, NEW dims \in Seq(Int), Len(dims) = 2,
         NEW known \in {<<>>, dims}, NEW r \in Execute("flatten", t, dims)
  PROVE  r \in Computable /\ (Claims(k[1], t[1]) => Claims(Transfer("flatten", k, known), r))
<1>1. PICK s \in Seq(Nat), d \in Dtypes : t[1].sizes = s /\ t[1].dtype = d /\ t[1] = Tensor(s, d)
  BY TensorFields
<1>2. PICK n \in Nat : n = Len(s)
  OBVIOUS
<1>3. PICK start \in Int, end \in Int : start = Wrap(dims[1], n) /\ end = Wrap(dims[2], n)
  <2>1. 1 \in 1 .. Len(dims) /\ 2 \in 1 .. Len(dims)
    OBVIOUS
  <2>2. dims[1] \in Int /\ dims[2] \in Int
    BY <2>1, ElementOfSeq
  <2> QED
    BY <2>2 DEF Wrap
<1>4. dims # <<>>
  <2>1. Len(<<>>) = 0 /\ 2 # 0
    OBVIOUS
  <2> QED
    BY <2>1, Zenon
<1>5. PICK product \in Nat : (0 <= start /\ end < n => product = Product(SubSeq(s, start + 1, end + 1)))
  <2>1. CASE 0 <= start /\ end < n
    <3>1. SubSeq(s, start + 1, end + 1) \in Seq(Nat)
      <4> DEFINE a == start + 1
                 b == end + 1
      <4>1. a \in Int /\ b \in Int /\ a >= 1 /\ b <= Len(s)
        BY <1>2, <2>1
      <4> HIDE DEF a, b
      <4>2. SubSeq(s, a, b) \in Seq(Nat)
        BY <4>1, SizesBetween
      <4> QED
        BY <4>2 DEF a, b
    <3> QED
      BY <3>1, ProductType
  <2> QED
    BY <2>1
<1>6. CASE n = 0
  <2>1. r = Tensor(<<1>>, d)
    BY <1>1, <1>2, <1>6 DEF Execute, SameAsOperand
  <2>2. PICK one \in Seq(Nat) : one = <<1>> /\ Len(one) = 1
    BY SingletonSeq
  <2>3. r \in Computable
    BY <2>1, <2>2, TensorMade
  <2>4. ASSUME Claims(k[1], t[1]) PROVE Claims(Transfer("flatten", k, known), r)
    <3>1. k[1].dtype \in {NoDtype, d} /\ (k[1].hasSizes => Len(k[1].sizes) = 0)
      BY <1>1, <1>2, <1>6, <2>4 DEF Claims
    <3>2. \/ Transfer("flatten", k, known) = Sized(UnknownSizes(1), k[1].dtype)
          \/ Transfer("flatten", k, known) = Unsized(k[1].dtype)
      BY <3>1 DEF Transfer, FlattenTransfer, SameAsOperand
    <3> QED
      <4>1. Len(<<1>>) = 1 /\ 1 \in Nat
        OBVIOUS
      <4>2. \A e : e \in {NoDtype, d} => Claims(Sized(UnknownSizes(1), e), Tensor(<<1>>, d))
        BY <4>1, UnknownClaims, Zenon
      <4>3. \A e : e \in {NoDtype, d} => Claims(Unsized(e), Tensor(<<1>>, d))
        BY UnsizedClaims
      <4> QED
        BY <2>1, <3>1, <3>2, <4>2, <4>3, Zenon
  <2> QED
    BY <2>3, <2>4
<1>7. CASE n > 0
  <2>1. /\ 0 <= start /\ start <= end /\ end < n
        /\ r = Tensor(SubSeq(s, 1, start) \o <<product>> \o SubSeq(s, end + 2, n), d)
    BY <1>1, <1>2, <1>3, <1>5, <1>7 DEF Execute, SameAsOperand
  <2>2. PICK a \in Nat, b \in Nat : a = start /\ b = end + 2 /\ a < b /\ b <= n + 1
    BY <1>2, <2>1
  <2>3. r = Tensor(Spliced(s, a, product, b), d)
    BY <1>2, <2>1, <2>2 DEF Spliced
  <2>4. r \in Computable
    <3>1. Spliced(s, a, product, b) \in Seq(Nat)
      <4>1. n = Len(s) /\ a <= n /\ 1 <= b /\ b <= n + 1
        BY <1>2, <2>2
      <4> QED
        BY <4>1, SplicedIs, Zenon
    <3> QED
      BY <2>3, <3>1, TensorMade
  <2>5. ASSUME Claims(k[1], t[1]) PROVE Claims(Transfer("flatten", k, known), r)
    <3>1. k[1].dtype \in {NoDtype, d}
      BY <1>1, <2>5 DEF Claims
    <3>2. CASE k[1].hasSizes /\ known # <<>>
      <4>1. PICK q \in Seq(Size) : q = k[1].sizes
        BY KnowledgeFields
      <4>2. Len(q) = n /\ SizesKnown(q, s)
        BY <1>1, <1>2, <2>5, <3>2, <4>1 DEF Claims, SizesKnown
      <4>3. known = dims
        BY <3>2
      <4>4. UnknownSizes(1) = <<kUnknownSize>>
        BY DEF UnknownSizes
      <4>5. Transfer("flatten", k, known) =
              Sized(SubSeq(q, 1, start) \o UnknownSizes(1) \o SubSeq(q, end + 2, n), k[1].dtype)
        BY <1>3, <1>4, <1>7, <2>1, <3>2, <4>1, <4>2, <4>3 DEF Transfer, FlattenTransfer, SameAsOperand
      <4>6. Transfer("flatten", k, known) = Sized(Spliced(q, a, kUnknownSize, b), k[1].dtype)
        BY <2>2, <4>2, <4>4, <4>5 DEF Spliced
      <4>7. kUnknownSize \in Size
        BY DEF Size
      <4> QED
        <5>1. n = Len(s) /\ kUnknownSize \in {kUnknownSize, product}
          BY <1>2
        <5>2. Claims(Sized(Spliced(q, a, kUnknownSize, b), k[1].dtype), Tensor(Spliced(s, a, product, b), d))
          <6>1. PICK u : u \in Size /\ u = kUnknownSize
            BY <4>7
          <6>2. PICK e : e = k[1].dtype
            OBVIOUS
          <6>3. (u = kUnknownSize \/ u = product) /\ (e = NoDtype \/ e = d)
            BY <3>1, <6>1, <6>2
          <6>4. n = Len(s) /\ SizesKnown(q, s) /\ a < b /\ b <= n + 1
            BY <2>2, <4>2, <5>1
          <6>5. Claims(Sized(Spliced(q, a, u, b), e), Tensor(Spliced(s, a, product, b), d))
            BY <6>1, <6>3, <6>4, SplicedClaims
          <6> QED
            BY <6>1, <6>2, <6>5
        <5> QED
          BY <2>3, <4>6, <5>2
    <3>3. CASE ~ (k[1].hasSizes /\ known # <<>>)
      <4>1. k[1].hasSizes => Len(k[1].sizes) = n
        BY <1>1, <1>2, <2>5 DEF Claims
      <4>2. Transfer("flatten", k, known) = Unsized(k[1].dtype)
        BY <1>7, <3>3, <4>1 DEF Transfer, FlattenTransfer, SameAsOperand
      <4> QED
        BY <2>3, <3>1, <4>2, UnsizedClaims
    <3> QED
      BY <3>2, <3>3
  <2> QED
    BY <2>4, <2>5
<1> QED
  BY <1>6, <1>7

LEMMA UnsqueezeSound ==
  ASSUME NEW k, NEW t, t[1] \in Computable, k[1] \in Knowledge, NEW dims, dims[1] \in Int,
         NEW known \in {<<>>, dims}, NEW r \in Execute("unsqueeze", t, dims)
  PROVE  r \in Computable /\ (Claims(k[1], t[1]) => Claims(Transfer("unsqueeze", k, known), r))
<1>1. PICK s \in Seq(Nat), d \in Dtypes : t[1].sizes = s /\ t[1].dtype = d /\ t[1] = Tensor(s, d)
  BY TensorFields
<1>2. PICK n \in Nat : n = Len(s)
  OBVIOUS
<1>3. PICK dim \in Int : dim = Wrap(dims[1], n + 1)
  BY DEF Wrap
<1>4. /\ 0 <= dim /\ dim <= n
      /\ r = Tensor(SubSeq(s, 1, dim) \o <<1>> \o SubSeq(s, dim + 1, n), d)
  BY <1>1, <1>2, <1>3 DEF Execute, SameAsOperand
<1>5. PICK a \in Nat, b \in Nat : a = dim /\ b = dim + 1 /\ a < b /\ b <= n + 1 /\ b - 1 = a
  BY <1>4
<1>6. r = Tensor(Spliced(s, a, 1, b), d)
  BY <1>2, <1>4, <1>5 DEF Spliced
<1>7. r \in Computable
  <2>1. Spliced(s, a, 1, b) \in Seq(Nat)
    <3>1. n = Len(s) /\ a <= n /\ 1 <= b /\ b <= n + 1 /\ 1 \in Nat
      BY <1>2, <1>5
    <3> QED
      BY <3>1, SplicedIs, Zenon
  <2> QED
    BY <1>6, <2>1, TensorMade
<1>8. ASSUME Claims(k[1], t[1]) PROVE Claims(Transfer("unsqueeze", k, known), r)
  <2>1. k[1].dtype \in {NoDtype, d}
    BY <1>1, <1>8 DEF Claims
  <2>2. CASE k[1].hasSizes /\ known # <<>>
    <3>1. PICK q \in Seq(Size) : q = k[1].sizes
      BY KnowledgeFields
    <3>2. Len(q) = n /\ SizesKnown(q, s)
      BY <1>1, <1>2, <1>8, <2>2, <3>1 DEF Claims, SizesKnown
    <3>3. Transfer("unsqueeze", k, known) = Sized(InsertAt(q, b, 1), k[1].dtype)
      BY <1>3, <1>4, <1>5, <2>2, <3>1, <3>2 DEF Transfer, UnsqueezeTransfer, SameAsOperand
    <3>4. InsertAt(q, b, 1) = Spliced(q, a, 1, b)
      BY <1>5, Zenon DEF Spliced, InsertAt
    <3>5. 1 \in Size /\ 1 \in Nat
      BY DEF Size
    <3> QED
      <4>1. n = Len(s) /\ 1 \in {kUnknownSize, 1}
        BY <1>2
      <4>2. Claims(Sized(Spliced(q, a, 1, b), k[1].dtype), Tensor(Spliced(s, a, 1, b), d))
        BY <1>5, <2>1, <3>2, <3>5, <4>1, SplicedClaims
      <4> QED
        BY <1>6, <3>3, <3>4, <4>2
  <2>3. CASE ~ (k[1].hasSizes /\ known # <<>>)
    <3>1. Transfer("unsqueeze", k, known) = Unsized(k[1].dtype)
      BY <2>3 DEF Transfer, UnsqueezeTransfer, SameAsOperand
    <3> QED
      BY <1>6, <2>1, <3>1, UnsizedClaims
  <2> QED
    BY <2>2, <2>3
<1> QED
  BY <1>7, <1>8

\* Any op the analysis understands, on its operands: what it computes is a
\* tensor, and what the transfer function finds holds of it if what is known
\* of the operands holds of them.
LEMMA ExecuteSound ==
  ASSUME prog \in Programs, NEW n \in Ops(prog), prog.ops[n].kind \in Understood,
         NEW k, k = OperandFacts(n), NEW t, DOMAIN t = DOMAIN prog.ops[n].args,
         \A i \in DOMAIN t : k[i] \in Knowledge /\ t[i] \in Computable,
         NEW r \in ResultsOf(prog.ops[n], t)
  PROVE  /\ r \in Computable
         /\ (\A i \in DOMAIN t : Claims(k[i], t[i])) /\ ~ IsGuess(n)
              => Claims(Transfer(prog.ops[n].kind, k, prog.ops[n].dims), r)
<1> DEFINE op == prog.ops[n]
<1>1. PICK kind, known, args :
        /\ kind = op.kind /\ known = op.dims /\ args = op.args
        /\ kind \in Understood
        /\ args \in Seq(Values(prog)) /\ known \in Seq(Int) /\ args # <<>>
        /\ kind \in SameAsOperand => Len(args) = 1
        /\ kind \in {"mm", "conv2d", "add"} => Len(args) = 2
        /\ kind \in {"linear", "lerp"} => Len(args) = 3
        /\ kind = "flatten" => Len(known) \in {0, 2}
  BY ProgramsWellFormed
<1>2. PICK dims : /\ dims \in IF known = <<>> THEN Dims ELSE {known}
                  /\ r \in Execute(kind, t, dims)
  BY <1>1 DEF ResultsOf
<1>3. 1 \in DOMAIN args
  BY <1>1, EmptySeq
<1>4. DOMAIN t = DOMAIN args
  BY <1>1
<1>5. t[1] \in Computable /\ k[1] \in Knowledge
  BY <1>3, <1>4
<1>6. known = <<>> \/ known = dims
  BY <1>2
<1>7. dims \in Seq(Int) /\ dims # <<>> /\ (kind = "flatten" => Len(dims) = 2)
  <2>1. \A d \in Dims : d \in Seq(Int) /\ Len(d) = 2
    BY TensorsAssumption
  <2>2. Len(<<>>) = 0 /\ 2 # 0
    OBVIOUS
  <2>3. CASE known = <<>>
    BY <1>2, <2>1, <2>2, <2>3
  <2>4. CASE known # <<>>
    <3>1. Len(known) # 0
      BY <1>1, <2>4, EmptySeq
    <3> QED
      BY <1>1, <1>2, <2>4, <3>1
  <2> QED
    BY <2>3, <2>4
<1> HIDE DEF op
<1> DEFINE All == \A i \in DOMAIN t : Claims(k[i], t[i])
           Sound == r \in Computable /\ (All /\ ~ IsGuess(n) => Claims(Transfer(kind, k, known), r))
<1> SUFFICES Sound
  BY <1>1 DEF op
<1>8. CASE kind \in SameAsOperand
  <2>1. r = t[1] /\ Transfer(kind, k, known) = k[1]
    BY <1>2, <1>8 DEF Execute, Transfer, SameAsOperand
  <2> QED
    BY <1>3, <1>4, <1>5, <2>1
<1>9. CASE kind \in {"max_pool2d", "adaptive_avg_pool2d"}
  <2>1. Transfer(kind, k, known) = Transfer(kind, k, dims)
    BY <1>9 DEF Transfer, SameAsOperand
  <2> QED
    BY <1>2, <1>3, <1>4, <1>5, <1>9, <2>1, PoolsSound
<1>10. CASE kind \in {"mm", "conv2d", "add"}
  <2>1. {1, 2} \subseteq DOMAIN t
    BY <1>1, <1>4, <1>10
  <2>2. t[2] \in Computable /\ k[2] \in Knowledge /\ (All => Claims(k[1], t[1]) /\ Claims(k[2], t[2]))
    BY <2>1
  <2>3. Transfer(kind, k, known) = Transfer(kind, k, dims)
    BY <1>10 DEF Transfer, SameAsOperand
  <2> HIDE DEF All
  <2>4. CASE kind \in {"mm", "conv2d"}
    BY <1>2, <1>5, <2>1, <2>2, <2>3, <2>4, ProductsSound
  <2>5. CASE kind = "add"
    <3>1. ~ IsGuess(n) => ~ (NoDtype \in {k[1].dtype, k[2].dtype} /\ k[1].dtype # k[2].dtype)
      BY <1>1, <2>5 DEF IsGuess, op
    <3>2. r \in Execute("add", t, dims)
      BY <1>2, <2>5
    <3> QED
      BY <1>5, <2>2, <2>3, <2>5, <3>1, <3>2, AddSound
  <2> QED
    BY <1>10, <2>4, <2>5
<1>11. CASE kind = "linear"
  <2>1. \A i \in {1, 2, 3} : i \in DOMAIN t
    BY <1>1, <1>4, <1>11
  <2>2. \A i \in {1, 2, 3} : t[i] \in Computable /\ i \in DOMAIN t
    BY <2>1
  <2>3. All => \A i \in {1, 2, 3} : Claims(k[i], t[i])
    BY <2>1
  <2>4. Transfer(kind, k, known) = Transfer("linear", k, dims) /\ r \in Execute("linear", t, dims)
    BY <1>2, <1>11 DEF Transfer, SameAsOperand
  <2> HIDE DEF All
  <2> QED
    BY <1>5, <2>2, <2>3, <2>4, LinearSound
<1>12. CASE kind = "lerp"
  <2>1. IsGuess(n)
    BY <1>1, <1>12 DEF IsGuess, op
  <2>2. \A i \in {1, 2, 3} : i \in DOMAIN t
    BY <1>1, <1>4, <1>12
  <2>3. PICK a \in Seq(Nat), b \in Seq(Nat), c \in Seq(Nat), d \in Dtypes :
          t[1].sizes = a /\ t[2].sizes = b /\ t[3].sizes = c /\ t[1].dtype = d
    BY <2>2, TensorFields
  <2>4. PICK ab \in Seq(Nat) : ab = Broadcast(a, b)
    BY BroadcastType
  <2>5. r = Tensor(Broadcast(ab, c), d)
    BY <1>2, <1>12, <2>3, <2>4 DEF Execute, SameAsOperand
  <2>6. r \in Computable
    BY <2>5, BroadcastType, TensorMade
  <2> QED
    BY <2>1, <2>6
<1>13. CASE kind = "flatten"
  <2>1. All => Claims(k[1], t[1])
    BY <1>3, <1>4
  <2>2. known \in {<<>>, dims} /\ r \in Execute("flatten", t, dims) /\ Len(dims) = 2
    BY <1>2, <1>6, <1>7, <1>13
  <2> HIDE DEF All
  <2> QED
    BY <1>5, <1>7, <1>13, <2>1, <2>2, FlattenSound
<1>14. CASE kind = "unsqueeze"
  <2>1. All => Claims(k[1], t[1])
    BY <1>3, <1>4
  <2>2. known \in {<<>>, dims} /\ r \in Execute("unsqueeze", t, dims)
    BY <1>2, <1>6, <1>14
  <2>3. dims[1] \in Int
    BY <1>7, EmptySeq
  <2> HIDE DEF All
  <2> QED
    BY <1>5, <1>14, <2>1, <2>2, <2>3, UnsqueezeSound
<1> HIDE DEF Sound
<1> QED
  BY <1>1, <1>8, <1>9, <1>10, <1>11, <1>12, <1>13, <1>14 DEF Understood

\* Configurations in which what is certain is true.
TrueConfigurations ==
  {c \in [at : Nat \ {0}, env : UNION {[S -> Computable] : S \in SUBSET Values(prog)}] :
     \A v \in DOMAIN c.env \cap Certain : Claims(lattice[v], c.env[v])}

LEMMA ConfigurationFacts ==
  ASSUME NEW c \in TrueConfigurations
  PROVE  /\ c.at \in Nat \ {0} /\ DOMAIN c.env \subseteq Values(prog)
         /\ \A v \in DOMAIN c.env : c.env[v] \in Computable
         /\ \A v \in DOMAIN c.env : v \in Certain => Claims(lattice[v], c.env[v])
         /\ \A n \in Nat \ {0} : [at |-> n, env |-> c.env] \in TrueConfigurations
<1>1. /\ c \in [at : Nat \ {0}, env : UNION {[S -> Computable] : S \in SUBSET Values(prog)}]
      /\ \A v \in DOMAIN c.env \cap Certain : Claims(lattice[v], c.env[v])
  BY DEF TrueConfigurations
<1>2. c.at \in Nat \ {0} /\ c.env \in UNION {[S -> Computable] : S \in SUBSET Values(prog)}
  BY <1>1
<1>3. PICK S \in SUBSET Values(prog) : c.env \in [S -> Computable]
  BY <1>2
<1>4. DOMAIN c.env = S /\ \A v \in S : c.env[v] \in Computable
  BY <1>3
<1>5. ASSUME NEW n \in Nat \ {0} PROVE [at |-> n, env |-> c.env] \in TrueConfigurations
  <2> DEFINE d == [at |-> n, env |-> c.env]
  <2>1. d \in [at : Nat \ {0}, env : UNION {[T -> Computable] : T \in SUBSET Values(prog)}]
    BY <1>2
  <2>2. d.env = c.env
    OBVIOUS
  <2> HIDE DEF d
  <2>3. d \in TrueConfigurations
    BY <1>1, <2>1, <2>2 DEF TrueConfigurations
  <2> QED
    BY <2>3 DEF d
<1> QED
  BY <1>1, <1>2, <1>4, <1>5

LEMMA ExtendedTrue ==
  ASSUME NEW c \in TrueConfigurations, NEW n \in Nat \ {0}, NEW v \in Values(prog), NEW tensor \in Computable,
         v \in Certain => Claims(lattice[v], tensor)
  PROVE  Extended(c, n, v, tensor) \in TrueConfigurations
<1>1. PICK S \in SUBSET Values(prog) : S = DOMAIN c.env \cup {v}
  BY ConfigurationFacts
<1> DEFINE env == [x \in S |-> IF x = v THEN tensor ELSE c.env[x]]
<1>2. env \in [S -> Computable] /\ \A x \in S : env[x] = IF x = v THEN tensor ELSE c.env[x]
  <2>1. \A x \in S : (IF x = v THEN tensor ELSE c.env[x]) \in Computable
    BY <1>1, ConfigurationFacts
  <2> QED
    BY <2>1
<1>3. \A x \in S : x \in Certain => Claims(lattice[x], env[x])
  BY <1>1, <1>2, ConfigurationFacts
<1>4. Extended(c, n, v, tensor) = [at |-> n, env |-> env]
  BY <1>1 DEF Extended
<1> HIDE DEF env
<1>5. [at |-> n, env |-> env] \in [at : Nat \ {0}, env : UNION {[T -> Computable] : T \in SUBSET Values(prog)}]
  BY <1>2
<1> DEFINE d == [at |-> n, env |-> env]
<1>6. d.env = env
  OBVIOUS
<1> HIDE DEF d
<1>7. d \in TrueConfigurations
  <2>1. DOMAIN env = S
    BY <1>2
  <2> QED
    BY <1>3, <1>5, <1>6, <2>1 DEF TrueConfigurations, d
<1> QED
  BY <1>4, <1>7 DEF d

LEMMA StartsTrue ==
  ASSUME prog \in Programs, ReachedInv
  PROVE  StartsOf(prog) \subseteq TrueConfigurations
<1> SUFFICES ASSUME NEW c \in StartsOf(prog) PROVE c \in TrueConfigurations
  OBVIOUS
<1> DEFINE S == 1 .. Len(prog.args)
<1>1. PICK e \in [S -> Tensors] :
        c = [at |-> 1, env |-> e] /\ \A v \in DOMAIN e : Claims(prog.args[v], e[v])
  BY DEF StartsOf
<1>2. S \in SUBSET Values(prog)
  <2>1. PICK a \in Nat, b \in Nat : a = Len(prog.args) /\ b = Len(prog.ops)
    BY ProgramFacts
  <2>2. \A v \in 1 .. a : v \in 1 .. a + b
    OBVIOUS
  <2> QED
    BY <2>1, <2>2 DEF Values
<1>3. \A v \in S : lattice[v] = prog.args[v]
  <2>1. PICK a \in Nat : a = Len(prog.args)
    BY ProgramFacts
  <2>2. \A v \in 1 .. a : v <= a
    OBVIOUS
  <2> QED
    BY <2>1, <2>2 DEF ReachedInv, DeclaredType
<1>4. Tensors \subseteq Computable
  BY TensorsAssumption DEF Computable
<1>5. e \in [S -> Computable] /\ DOMAIN e = S
  BY <1>1, <1>4
<1>6. \A v \in S : Claims(lattice[v], e[v])
  BY <1>1, <1>3, <1>5
<1> HIDE DEF S
<1>7. c.env = e
  BY <1>1
<1>8. c \in [at : Nat \ {0}, env : UNION {[T -> Computable] : T \in SUBSET Values(prog)}]
  BY <1>1, <1>2, <1>5
<1> QED
  BY <1>5, <1>6, <1>7, <1>8 DEF TrueConfigurations

LEMMA StepsTrue ==
  ASSUME IInv, NothingIsFedBack, ReachedInv, FactsInv, pc = "done",
         NEW c \in TrueConfigurations, c.at <= Len(prog.ops)
  PROVE  StepsOf(prog, c) \subseteq TrueConfigurations
<1> DEFINE n  == c.at
           op == prog.ops[n]
           v  == Result(prog, n)
           have    == Have(op, c.env)
           operand == Operand(op, c.env)
<1>1. prog \in Programs /\ n \in Ops(prog) /\ n \in Nat \ {0} /\ n + 1 \in Nat \ {0}
  <2>1. prog \in Programs /\ n \in Nat \ {0}
    BY ConfigurationFacts DEF IInv
  <2> QED
    BY <2>1, ProgramFacts
<1>2. v \in Values(prog)
  BY <1>1, ProgramFacts
<1>3. /\ \A w \in Values(prog) : lattice[w] \in Knowledge
      /\ FactsAreUpToDate
  <2>1. \A w \in Values(prog) : lattice[w] # Null
    BY <1>1, AllReached
  <2> QED
    BY <2>1, AllUpToDate DEF IInv, TypeOK
<1>4. v \in Certain => /\ ~ IsGuess(n)
                       /\ \A i \in DOMAIN op.args : op.args[i] \in Certain
                       /\ lattice[v] = CASE op.kind \in Joining    -> lattice[op.args[1]]
                                         [] op.kind \in Understood -> Transfer(op.kind, OperandFacts(n), op.dims)
                                         [] OTHER                  -> op.type
  BY <1>1, <1>3, CertainIs DEF FactsAreUpToDate
<1>5. \A i \in have : /\ operand[i] = c.env[op.args[i]] /\ operand[i] \in Computable
                      /\ op.args[i] \in Certain => Claims(lattice[op.args[i]], operand[i])
                      /\ i \in DOMAIN op.args
  BY ConfigurationFacts DEF Have, Operand
<1>6. ASSUME op.kind \in Joining, NEW i \in have, NEW m \in Nat \ {0}
      PROVE  Extended(c, m, v, operand[i]) \in TrueConfigurations
  <2>1. ASSUME v \in Certain PROVE lattice[v] = lattice[op.args[i]]
    <3>1. 1 \in DOMAIN op.args
      <4>1. PICK s \in Seq(Values(prog)) : s = op.args
        BY <1>1, ProgramsWellFormed
      <4>2. 1 \in DOMAIN s
        BY <1>5, <1>6, <4>1
      <4> QED
        BY <4>1, <4>2
    <3>2. ~ (Cardinality(ToSet(OperandFacts(n))) > 1)
      BY <1>4, <1>6, <2>1 DEF IsGuess
    <3>3. OperandFact(n, 1) = OperandFact(n, i)
      BY <1>1, <1>5, <1>6, <3>1, <3>2, TwoFacts
    <3> QED
      BY <1>4, <1>6, <2>1, <3>3 DEF OperandFact, Joining, Understood, SameAsOperand
  <2>2. v \in Certain => Claims(lattice[v], operand[i])
    BY <1>4, <1>5, <1>6, <2>1
  <2> QED
    BY <1>2, <1>5, <1>6, <2>2, ExtendedTrue
<1>7. CASE op.kind \in {"block_arg", "if"}
  <2>1. StepsOf(prog, c) = {Extended(c, n + 1, v, operand[i]) : i \in have}
    BY <1>7 DEF StepsOf
  <2>2. op.kind \in Joining
    BY <1>7 DEF Joining
  <2> HIDE DEF have, operand, v, op
  <2> QED
    BY <1>1, <1>6, <2>1, <2>2
<1>8. CASE op.kind \in {"loop_arg", "loop"}
  <2>1. op.kind \in Joining
    BY <1>8 DEF Joining
  <2>2. op.dims[1] \in Nat \ {0}
    BY <1>1, <1>8, ProgramsWellFormed, ProgramFacts
  <2>3. StepsOf(prog, c) \subseteq
          {Extended(c, m, v, operand[i]) : m \in {n + 1, op.dims[1]}, i \in have}
            \cup {[at |-> op.dims[1], env |-> c.env]}
    BY <1>8 DEF StepsOf, Latest
  <2>4. [at |-> op.dims[1], env |-> c.env] \in TrueConfigurations
    BY <2>2, ConfigurationFacts
  <2> HIDE DEF have, operand, v, op
  <2>5. \A m \in {n + 1, op.dims[1]}, i \in have : Extended(c, m, v, operand[i]) \in TrueConfigurations
    BY <1>1, <1>6, <2>1, <2>2
  <2> QED
    BY <2>3, <2>4, <2>5
<1>9. CASE op.kind = "return"
  <2>1. StepsOf(prog, c) = {[at |-> n + 1, env |-> c.env]}
    BY <1>9 DEF StepsOf
  <2> QED
    BY <1>1, <2>1, ConfigurationFacts
<1>10. CASE op.kind \notin Joining \cup {"return"}
  <2>1. StepsOf(prog, c) = IF have = DOMAIN op.args
                           THEN {Extended(c, n + 1, v, tensor) : tensor \in ResultsOf(op, operand)} ELSE {}
    BY <1>10 DEF StepsOf, Joining
  <2> SUFFICES ASSUME have = DOMAIN op.args, NEW tensor \in ResultsOf(op, operand)
               PROVE  Extended(c, n + 1, v, tensor) \in TrueConfigurations
    BY <2>1
  <2>2. tensor \in Computable /\ (v \in Certain => Claims(lattice[v], tensor))
    <3>1. CASE op.kind \in Understood
      <4>1. PICK k : k = OperandFacts(n)
        OBVIOUS
      <4>2. PICK t : t = operand
        OBVIOUS
      <4>3. DOMAIN t = DOMAIN op.args
        BY <4>2 DEF Operand
      <4>4. \A i \in DOMAIN t : k[i] = lattice[op.args[i]] /\ k[i] \in Knowledge
        <5>1. \A i \in DOMAIN op.args : OperandFacts(n)[i] = lattice[op.args[i]] /\ op.args[i] \in Values(prog)
          BY <1>1, OperandFactsAre DEF OperandFact
        <5> QED
          BY <1>3, <4>1, <4>3, <5>1
      <4>5. \A i \in DOMAIN t : t[i] \in Computable
        BY <1>5, <4>2, <4>3
      <4>6. v \in Certain => \A i \in DOMAIN t : Claims(k[i], t[i])
        BY <1>4, <1>5, <4>2, <4>3, <4>4
      <4>7. tensor \in ResultsOf(prog.ops[n], t)
        BY <4>2
      <4>8. /\ tensor \in Computable
            /\ (\A i \in DOMAIN t : Claims(k[i], t[i])) /\ ~ IsGuess(n)
                 => Claims(Transfer(op.kind, k, op.dims), tensor)
        BY <1>1, <3>1, <4>1, <4>3, <4>4, <4>5, <4>7, ExecuteSound
      <4> QED
        BY <1>4, <1>10, <3>1, <4>1, <4>6, <4>8
    <3>2. CASE op.kind \notin Understood
      <4>1. tensor \in Others /\ Claims(op.type, tensor)
        BY <3>2 DEF ResultsOf
      <4> QED
        BY <1>4, <1>10, <3>2, <4>1, TensorsAssumption DEF Computable
    <3> QED
      BY <3>1, <3>2
  <2> QED
    BY <1>1, <1>2, <2>2, ExtendedTrue
<1> QED
  BY <1>7, <1>8, <1>9, <1>10 DEF Joining

LEMMA ReachedTrue ==
  ASSUME IInv, NothingIsFedBack, ReachedInv, FactsInv, pc = "done"
  PROVE  Reached(prog) \subseteq TrueConfigurations
<1> DEFINE D == SUBSET TrueConfigurations
           More(C) == UNION {StepsOf(prog, c) : c \in {d \in C : d.at <= Len(prog.ops)}}
           Is(after) == after = [k \in Nat |-> IF k = 0 THEN StartsOf(prog) ELSE More(after[k - 1])]
           after == CHOOSE after : Is(after)
<1>1. Reached(prog) = UNION {after[k] : k \in 0 .. MaxSteps}
  BY Zenon DEF Reached
<1>2. StartsOf(prog) \in D
  BY StartsTrue DEF IInv
<1>3. \A C \in D : More(C) \in D
  BY StepsTrue
<1> HIDE DEF D, More
<1>4. PICK F \in [D -> D] : \A C \in D : F[C] = More(C)
  <2> DEFINE G == [C \in D |-> More(C)]
  <2>1. G \in [D -> D] /\ \A C \in D : G[C] = More(C)
    BY <1>3
  <2> QED
    BY <2>1
<1>5. PICK f \in [Nat -> D] : f[0] = StartsOf(prog) /\ \A k \in Nat : f[k + 1] = F[f[k]]
  BY <1>2, Recursion
<1>6. Is(f)
  <2>1. PICK g : g = [k \in Nat |-> IF k = 0 THEN StartsOf(prog) ELSE More(f[k - 1])]
    OBVIOUS
  <2>2. ASSUME NEW k \in Nat, k # 0 PROVE f[k] = More(f[k - 1])
    <3>1. k - 1 \in Nat /\ (k - 1) + 1 = k
      BY <2>2
    <3>2. f[(k - 1) + 1] = F[f[k - 1]] /\ f[k - 1] \in D
      BY <1>5, <3>1
    <3> QED
      BY <1>4, <3>1, <3>2
  <2>3. \A k \in Nat : f[k] = g[k]
    BY <1>5, <2>1, <2>2
  <2> QED
    BY <1>5, <2>1, <2>3
<1>7. Is(after)
  BY <1>6
<1> HIDE DEF after
<1>8. \A k \in Nat : after[k] = IF k = 0 THEN StartsOf(prog) ELSE More(after[k - 1])
  BY <1>7, Zenon
<1>9. \A k \in Nat : after[k] \in D
  <2> DEFINE S == {k \in Nat : after[k] \in D}
  <2>1. 0 \in S
    BY <1>2, <1>8
  <2>2. ASSUME NEW k \in Nat, k \in S PROVE k + 1 \in S
    <3>1. k + 1 \in Nat /\ k + 1 # 0 /\ (k + 1) - 1 = k
      OBVIOUS
    <3>2. after[k + 1] = More(after[k])
      BY <1>8, <3>1
    <3> QED
      BY <1>3, <2>2, <3>1, <3>2
  <2> HIDE DEF S
  <2>3. Nat \subseteq S
    BY <2>1, <2>2, SetInduction
  <2> QED
    BY <2>3 DEF S
<1>10. \A k \in 0 .. MaxSteps : after[k] \subseteq TrueConfigurations
  BY <1>9 DEF D
<1> QED
  BY <1>1, <1>10

-----------------------------------------------------------------------------

LEMMA FactsInvariant ==
  ASSUME NothingIsFedBack
  PROVE  Spec => [](IInv /\ ReachedInv /\ FactsInv /\ SeenInv)
<1>1. Init => IInv /\ ReachedInv /\ FactsInv /\ SeenInv
  BY InitIInv, ReachedInit, FactsInit, SeenInit
<1>2. IInv /\ ReachedInv /\ FactsInv /\ SeenInv /\ [Next]_vars =>
        (IInv /\ ReachedInv /\ FactsInv /\ SeenInv)'
  BY NextIInv, NextFacts, NextSeen
<1> QED
  BY <1>1, <1>2, PTL DEF Spec

\* In a function without loops, whatever its ops and in whatever order they are
\* visited: when the analysis is over every value has a fact, and each that
\* depends on no guess has the one its operands' facts give.
THEOREM FactsUpToDate == NothingIsFedBack => (Spec => []FactsAreUpToDate)
<1> SUFFICES ASSUME NothingIsFedBack PROVE Spec => []FactsAreUpToDate
  OBVIOUS
<1>1. IInv /\ ReachedInv /\ FactsInv /\ SeenInv => FactsAreUpToDate
  BY AllUpToDate
<1> QED
  BY <1>1, FactsInvariant, PTL

\* In such a function copy.to_tensor and copy.to_vtensor have one shape and
\* dtype on both sides, whether the pass changed the type of what they copy,
\* added a cast or left it alone.
THEOREM CopiesKeepTheirTypes == NothingIsFedBack => (Spec => []CopiedResultTypesAgree)
<1> SUFFICES ASSUME NothingIsFedBack PROVE Spec => []CopiedResultTypesAgree
  OBVIOUS
<1>1. IInv /\ ReachedInv /\ FactsInv /\ SeenInv => CopiedResultTypesAgree
  BY CopiesAgree
<1> QED
  BY <1>1, FactsInvariant, PTL

\* In a function without loops what the analysis claims of a value without
\* depending on a guess holds of every tensor that value is in any execution,
\* through every op it understands, every branch and every if.
THEOREM CertainClaimsHold == NothingIsFedBack => (Spec => []CertainClaimsAreTrue)
<1> SUFFICES ASSUME NothingIsFedBack PROVE Spec => []CertainClaimsAreTrue
  OBVIOUS
<1>1. ASSUME IInv, ReachedInv, FactsInv, pc = "done"
      PROVE  \A c \in Reached(prog) : \A v \in DOMAIN c.env \cap Certain : Claims(lattice[v], c.env[v])
  BY <1>1, ReachedTrue, ConfigurationFacts
<1>2. IInv /\ ReachedInv /\ FactsInv /\ SeenInv => CertainClaimsAreTrue
  BY <1>1 DEF CertainClaimsAreTrue
<1> QED
  BY <1>2, FactsInvariant, PTL

=============================================================================
