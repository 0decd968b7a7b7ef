------------------------- MODULE MCRefbackrtInvoke -------------------------
(***************************************************************************)
(* Calls for TLC.  kMaxArity is scaled from 20 to MaxArity = 4, ranks are  *)
(* at most 2 and extents at most 3.                                        *)
(***************************************************************************)
EXTENDS RefbackrtInvoke

Memref(extents) == [kind |-> "memref", elem |-> "f32", extents |-> extents]
Unranked == [kind |-> "unranked", elem |-> "f32"]
F32 == [kind |-> "f32"]
F64 == [kind |-> "f64"]
Vector == Memref(<<Dynamic>>)
IntVector == [Vector EXCEPT !.elem = "i64"]

Tensor(at, extents) == [tag |-> "Tensor", elem |-> "F32", extents |-> extents, at |-> <<"tensor", at>>]
Scalar(tag) == [tag |-> tag]

Function(name, public, ins, outs) == [name |-> name, public |-> public, inputs |-> ins, outputs |-> outs]

\* The function that is called is in a module with others.
Call(ins, outs, args) ==
  [module |-> <<Function("helper", FALSE, <<[kind |-> "i64"]>>, <<>>),
                Function("first", TRUE, <<Memref(<<2, Dynamic>>), Memref(<<5>>)>>, <<Memref(<<7, 8, 9>>)>>),
                Function("f", TRUE, ins, outs),
                Function("last", TRUE, <<F32, Unranked>>, <<>>)>>,
   name |-> "f", inputs |-> args]

\* The function's memrefs are vectors of any length, its arguments one tensor
\* each or one tensor twice.
VectorCalls ==
  {Call([i \in 1 .. n |-> Vector], [i \in 1 .. m |-> Vector], [i \in 1 .. n |-> Tensor(t[i], <<2>>)]) :
     n \in 0 .. 2, m \in 0 .. 3, t \in {<<1, 2>>, <<1, 1>>}}

\* One tensor in, one out.
OneVectorCall == {Call(<<Vector>>, <<Vector>>, <<Tensor(1, <<2>>)>>)}

\* Shapes: every static or dynamic extent against every tensor.
Shapes(extents) == {<<>>} \cup {<<d>> : d \in extents} \cup {<<d, e>> : d \in extents, e \in extents}
ShapeCalls ==
  {Call(<<type>>, <<F32>>, <<Tensor(1, shape)>>) :
     type \in {Unranked, F32} \cup {Memref(s) : s \in Shapes({Dynamic, 0, 3})},
     shape \in Shapes({0, 1, 3})}

\* Scalars: where a scalar comes last, and where the type is refused.
ScalarCalls ==
  {Call(ins, outs, args) :
     ins \in {<<F32>>, <<Unranked, F32>>, <<Vector>>}, outs \in {<<F32>>, <<F32, Vector>>, <<F64>>},
     args \in {<<Scalar("Float")>>, <<Tensor(1, <<3>>), Scalar("Float")>>, <<Tensor(1, <<3>>)>>,
               <<[Tensor(1, <<3>>) EXCEPT !.elem = "NONE"], Scalar("Float")>>}}

\* Every kind of value, of the parameter's type or not, for each parameter;
\* scalars before other parameters, and memrefs of integers.
Values == {Tensor(1, <<3>>)} \cup {Scalar(tag) : tag \in {"None", "Bool", "Int", "Float", "Double"}}
MixedCalls ==
  UNION {{Call(ins, <<F32>>, args) : args \in [DOMAIN ins -> Values]} :
           ins \in {<<F32, F32>>, <<F32, Unranked>>, <<F64>>, <<Unranked, F64>>, <<Unranked, F32, Unranked>>}}
    \cup {Call(ins, outs, <<Tensor(1, <<3>>)>>) :
            ins \in {<<Vector>>, <<IntVector>>, <<[Memref(<<3>>) EXCEPT !.elem = "i64"]>>,
                     <<[Memref(<<2>>) EXCEPT !.elem = "i64"]>>},
            outs \in {<<IntVector>>, <<IntVector, Vector>>}}

\* Arities about kMaxArity, an unknown function and a private one.
ArityCalls ==
  {Call([i \in 1 .. n |-> Vector], <<>>, [i \in 1 .. m |-> Tensor(i, <<1>>)]) : n \in 3 .. 5, m \in 3 .. 5}
    \cup {[Call(<<>>, <<>>, <<>>) EXCEPT !.name = name] : name \in {"unknown", "helper"}}

\* Modules of two functions with any two of these for their inputs and outputs,
\* among them what cannot be compiled.
Signatures ==
  {<<Memref(<<1, 2, 3, 4, 5, 6>>), Memref(<<>>)>>, <<Memref(<<1, 2, 3, 4, 5, 6, 7>>)>>, <<Vector, F32>>,
   <<Vector, Unranked>>, <<IntVector>>, <<[Vector EXCEPT !.elem = "f64"]>>,
   <<Unranked, F64>>, <<F64>>, <<[kind |-> "f16"]>>, <<[kind |-> "i64"]>>, <<>>}
SignatureCalls ==
  {[module |-> <<Function("f", public, ins, outs), Function("g", TRUE, ins2, <<Vector>>)>>,
    name |-> "unknown", inputs |-> <<>>] :
     public \in BOOLEAN, ins \in Signatures, outs \in Signatures, ins2 \in Signatures}

SoundCalls ==
  VectorCalls \cup ShapeCalls \cup ScalarCalls \cup MixedCalls \cup ArityCalls \cup SignatureCalls

=============================================================================
