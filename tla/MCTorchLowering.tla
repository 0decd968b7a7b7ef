---------------------------- MODULE MCTorchLowering ----------------------------
(***************************************************************************)
(* Modules for TLC: main(x, y, flag) with one slot, and a private `helper`.*)
(***************************************************************************)
EXTENDS TorchLowering

CONSTANT f32

x == <<1>>
y == <<2>>
flag == <<3>>

AnyTensor == Plain("tensor")
Static == Type("tensor", Sized(<<2, 3>>, f32))
Ranked == Type("tensor", Sized(UnknownSizes(2), f32))

Arg(id, type, bound) == [id |-> id, type |-> type, bound |-> bound]
MainArgs == <<Arg(x, AnyTensor, getWithValueSemantics(Static)), Arg(y, AnyTensor, getWithValueSemantics(Ranked)),
              Arg(flag, Plain("bool"), NoBound)>>

Returning(id, vs) == Op(id, "return", vs, NoneType)
Yielding(id, vs) == Op(id, "yield", vs, NoneType)
Function(args, results, entry, then, else, isPublic) ==
  [args |-> args, results |-> results, isPublic |-> isPublic,
   blocks |-> [b \in {"entry", "then", "else"} |->
                 CASE b = "entry" -> entry [] b = "then" -> then [] b = "else" -> else]]

Slot(isPrivate) == [type |-> Static, symbol |-> "s0", isPrivate |-> isPrivate]
Module(main, isPrivate) == [funcs |-> [n \in {"main"} |-> main], slots |-> [s \in {"s"} |-> Slot(isPrivate)]]

\* The ops on the tensors vs.
Adds(id, vs) == {Op(id, name, <<a, b>>, AnyTensor) : name \in {"add", "add_"}, a \in vs, b \in vs}
Unsqueezes(id, vs) == {Op(id, "unsqueeze", <<a>>, AnyTensor) : a \in vs}
KnownLiterals == [symbol \in {"k", "s0"} |-> Static.know]
\* Its type says what the attribute's does, or nothing.
Literals(id) == {[Op(id, "literal", <<>>, type) EXCEPT !.symbol = "k"] : type \in {Static, AnyTensor}}
Get(id) == [Op(id, "slot.get", <<>>, AnyTensor) EXCEPT !.symbol = "s"]
Sets(id, vs) == {[Op(id, "slot.set", <<a>>, NoneType) EXCEPT !.symbol = "s"] : a \in vs}
TensorOps(id, vs) == Adds(id, vs) \cup Unsqueezes(id, vs) \cup Literals(id) \cup {Get(id)} \cup Sets(id, vs)

Results(vs, ops) == vs \cup {op.id : op \in {o \in ops : o.type # NoneType}}

Main(results, entry, then, else) == Function(MainArgs, results, entry, then, else, TRUE)
Return(v) == Returning(<<7>>, <<v>>)

\* Two ops, and one of the values is returned.
StraightMains ==
  UNION {UNION {{Main(<<AnyTensor>>, <<p, q, Return(v)>>, <<>>, <<>>) : v \in Results({x, y}, {p, q})} :
                  q \in TensorOps(<<5>>, Results({x, y}, {p}))} :
         p \in Unsqueezes(<<4>>, {x}) \cup Literals(<<4>>) \cup {Get(<<4>>), Op(<<4>>, "add_", <<x, y>>, AnyTensor),
               Op(<<4>>, "add", <<x, x>>, AnyTensor)} \cup Sets(<<4>>, {y})}

\* An op in one branch of an if: `y` is what the other yields.
IfMains ==
  UNION {UNION {{Main(<<AnyTensor>>,
                      <<p, Op(<<6>>, "prim.If", <<flag>>, AnyTensor), last, Return(v)>>,
                      <<q, Yielding(<<11>>, <<w>>)>>, <<Yielding(<<12>>, <<y>>)>>) :
                   w \in Results({y}, {q}), v \in {x, <<6>>},
                   last \in {Op(<<8>>, "add_", <<x, <<6>>>>, AnyTensor), Op(<<8>>, "unsqueeze", <<y>>, AnyTensor)}} :
                  q \in Adds(<<5>>, {y, <<4>>}) \cup Sets(<<5>>, {x, <<4>>})} :
         p \in {Op(<<4>>, "unsqueeze", <<x>>, AnyTensor), Op(<<4>>, "add", <<x, y>>, AnyTensor), Get(<<4>>)}}

-----------------------------------------------------------------------------
\* A condition that canonicalization may decide, and a branch on it.

IntType == Plain("int")
BoolType == Plain("bool")
ListType == Plain("list")
OptionalType == Plain("optional")
IntConst(k, value) == Constant(<<10, k>>, "int", value)
Cond(name, a, b) == Op(<<4>>, name, <<a, b>>, BoolType)
At(k) == <<10, k>>
Unary(k, name, v, type) == Op(At(k), name, <<v>>, type)
Sizes(v) == Unary(1, "size", v, ListType)

OfNone ==
  LET none == Constant(At(1), "none", 0)
      derefined(v) == <<none, Op(At(2), "derefine", <<v>>, OptionalType)>>
  IN {derefined(v) \o <<Cond("is", At(2), At(1))>> : v \in {At(1), x}} \cup
     {<<none, Cond("is", a, b)>> : a \in {x, At(1)}, b \in {x, At(1)}}

OfRank ==
  {<<Sizes(v), Unary(2, "len", At(1), IntType), IntConst(3, n), Cond(name, At(2), At(3))>> :
     v \in {x, y}, n \in {1, 2}, name \in {"gt", "ne"}} \cup
  {<<Unary(2, "dim", v, IntType), Cond("ne", At(2), At(2))>> : v \in {x, y}}

OfSizes ==
  {<<Sizes(v), IntConst(2, i), Op(At(3), "getitem", <<At(1), At(2)>>, IntType), IntConst(4, n),
     Cond("ne", At(3), At(4))>> : v \in {x, y}, i \in {0, 1}, n \in {2, 3}}

\* A list of two, read, and in between extended or not.
OfList ==
  {<<IntConst(1, 0), IntConst(2, 1), Op(At(3), "list", <<At(1), At(2)>>, ListType)>> \o middle \o
   <<Op(At(5), "getitem", <<At(3), At(2)>>, IntType), Unary(6, "len", At(3), IntType),
     Cond(name, At(6), At(5))>> :
     name \in {"gt", "ne"},
     middle \in {<<>>, <<Op(At(4), "append", <<At(3), At(2)>>, NoneType)>>, <<Sizes(y)>>}}

Conditions == OfNone \cup OfRank \cup OfSizes \cup OfList \cup
              {<<Constant(<<4>>, "bool", b)>> : b \in {0, 1}} \cup {<<Cond("ne", flag, flag)>>}

BranchMains ==
  {Main(<<AnyTensor>>,
        cond \o <<Op(<<6>>, "prim.If", <<<<4>>>>, NoneType), Return(x)>>,
        <<Op(<<5>>, "add_", <<x, y>>, AnyTensor), Yielding(<<11>>, <<>>)>>,
        <<Op(<<8>>, "add_", <<x, x>>, AnyTensor), Yielding(<<12>>, <<>>)>>) : cond \in Conditions} \cup
  {Main(<<BoolType>>, cond \o <<Return(<<4>>)>>, <<>>, <<>>) : cond \in Conditions}

-----------------------------------------------------------------------------
\* A private function with a bounded and a None argument, called by main.

z == <<1>>
n_ == <<2>>
HelperArgs == <<Arg(z, AnyTensor, getWithValueSemantics(Static)), Arg(n_, NoneType, NoBound)>>
Doubled == Op(<<4>>, "add", <<z, z>>, AnyTensor)
Helpers(isPublic) ==
  {Function(HelperArgs, <<AnyTensor>>, <<Doubled, Return(<<4>>)>>, <<>>, <<>>, isPublic),
   Function(HelperArgs, <<NoneType>>, <<Doubled, CHOOSE set \in Sets(<<5>>, {<<4>>}) : TRUE, Return(n_)>>,
            <<>>, <<>>, isPublic)}

CallModules ==
  UNION {{[Module(Main(<<AnyTensor>>,
                   <<Constant(<<6>>, "none", 0),
                     [Op(<<4>>, "call", <<a, <<6>>>>, helper.results[1]) EXCEPT !.symbol = "helper"],
                     q, Return(v)>>, <<>>, <<>>), isPrivate)
             EXCEPT !.funcs = [helper |-> helper] @@ @] :
             a \in {x, y}, isPrivate \in BOOLEAN,
             q \in Adds(<<5>>, Results({y}, {Op(<<4>>, "call", <<>>, helper.results[1])})),
             v \in Results({x}, {Op(<<4>>, "call", <<>>, helper.results[1])})} :
         helper \in Helpers(TRUE) \cup Helpers(FALSE)}

\* main without a bound for one of its arguments is refused.
UnboundedModule ==
  Module(Function([MainArgs EXCEPT ![2].bound = NoBound], <<AnyTensor>>, <<Return(x)>>, <<>>, <<>>, TRUE), TRUE)

-----------------------------------------------------------------------------

UsesSlot(f) == \E op \in ToSet(OpsOf(f)) : op.symbol = "s"
Mains == StraightMains \cup IfMains \cup BranchMains

AllModules ==
  {m \in {Module(main, TRUE) : main \in Mains} \cup
         {Module(main, FALSE) : main \in {f \in Mains : UsesSlot(f)}} \cup
         CallModules \cup {UnboundedModule} : TypesAgree(m)}

=============================================================================
