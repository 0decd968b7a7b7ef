---------------------------- MODULE ValueKnowledge ----------------------------
(***************************************************************************)
(* struct ValueKnowledge, "statically known information for a particular   *)
(* Value": whether the rank is known and then each size, and the dtype.    *)
(* Static information recorded in a tensor type is the same record.        *)
(***************************************************************************)
EXTENDS Integers, Sequences, SequencesExt

CONSTANTS
  Dtypes,
  NoDtype   \* the null Type: no dtype is known

ASSUME NoDtypeAssumption == NoDtype \notin Dtypes

kUnknownSize == -1

Size == Nat \cup {kUnknownSize}

Knowledge ==
  {k \in [hasSizes : BOOLEAN, sizes : Seq(Size), dtype : Dtypes \cup {NoDtype}] :
     k.sizes # <<>> => k.hasSizes}

Sized(sizes, dtype) == [hasSizes |-> TRUE, sizes |-> sizes, dtype |-> dtype]
Unsized(dtype) == [hasSizes |-> FALSE, sizes |-> <<>>, dtype |-> dtype]

\* The default: nothing is known.
PessimisticValueState == Unsized(NoDtype)

UnknownSizes(rank) == [i \in 1 .. rank |-> kUnknownSize]

-----------------------------------------------------------------------------

JoinElementTypes(lhs, rhs) ==
  CASE lhs = NoDtype -> rhs
    [] rhs = NoDtype -> lhs
    [] lhs = rhs     -> lhs
    [] OTHER         -> NoDtype

JoinSize(lhs, rhs) ==
  CASE lhs = kUnknownSize -> rhs
    [] rhs = kUnknownSize -> lhs
    [] lhs = rhs          -> lhs
    [] OTHER              -> kUnknownSize

\* Faulty: the sizes stay when the ranks differ.
JoinKeepSizes(lhs, rhs) ==
  [hasSizes |-> Len(lhs.sizes) = Len(rhs.sizes), sizes |-> lhs.sizes,
   dtype |-> JoinElementTypes(lhs.dtype, rhs.dtype)]

Join(lhs, rhs) ==
  LET dtype == JoinElementTypes(lhs.dtype, rhs.dtype)
  IN CASE ~ rhs.hasSizes /\ lhs.hasSizes -> Sized(lhs.sizes, dtype)
       [] ~ lhs.hasSizes /\ rhs.hasSizes -> Sized(rhs.sizes, dtype)
       [] lhs.hasSizes /\ rhs.hasSizes /\ Len(lhs.sizes) = Len(rhs.sizes) ->
            Sized([i \in 1 .. Len(lhs.sizes) |-> JoinSize(lhs.sizes[i], rhs.sizes[i])], dtype)
       [] OTHER -> Unsized(dtype)

-----------------------------------------------------------------------------
\* The transfer functions of TypeAnalyzer::visitOperation: k holds the facts
\* of the tensor operands, dims the values of the constant int operands (<<>>
\* when one is not constant).

MmTransfer(k) == Sized(UnknownSizes(2), JoinElementTypes(k[1].dtype, k[2].dtype))

LinearTransfer(k) ==
  LET rank == Len(k[1].sizes)
  IN [k[1] EXCEPT
        !.sizes = IF rank > 0 THEN [@ EXCEPT ![rank] = kUnknownSize] ELSE @,
        !.dtype = JoinElementTypes(@, JoinElementTypes(k[2].dtype, k[3].dtype))]

Conv2dTransfer(k) == Sized(UnknownSizes(4), JoinElementTypes(k[1].dtype, k[2].dtype))

MaxPool2dTransfer(k) == Sized(UnknownSizes(4), k[1].dtype)

AdaptiveAvgPool2dTransfer(k) ==
  IF k[1].hasSizes THEN Sized(UnknownSizes(Len(k[1].sizes)), k[1].dtype) ELSE Unsized(k[1].dtype)

\* "A general binary broadcasting shape transfer function."
BroadcastTransfer(lhs, rhs) ==
  LET dtype == JoinElementTypes(lhs.dtype, rhs.dtype)
      rank == IF Len(lhs.sizes) > Len(rhs.sizes) THEN Len(lhs.sizes) ELSE Len(rhs.sizes)
  IN IF lhs.hasSizes /\ rhs.hasSizes THEN Sized(UnknownSizes(rank), dtype) ELSE Unsized(dtype)

\* lerp broadcasts a, b and c; c is read from operands[1].
LerpTransfer(k) == BroadcastTransfer(BroadcastTransfer(k[1], k[2]), k[2])

\* Python's negative dimension numbers count from `end`.
Wrap(dim, end) == IF dim < 0 THEN dim + end ELSE dim

FlattenTransfer(k, dims) ==
  LET rank  == Len(k[1].sizes)
      start == Wrap(dims[1], rank)
      end   == Wrap(dims[2], rank)
  IN CASE k[1].hasSizes /\ rank = 0 -> Sized(UnknownSizes(1), k[1].dtype)
       [] k[1].hasSizes /\ rank > 0 /\ dims # <<>> /\ 0 <= start /\ start <= end /\ end < rank ->
            Sized(SubSeq(k[1].sizes, 1, start) \o UnknownSizes(1)
                    \o SubSeq(k[1].sizes, end + 2, rank), k[1].dtype)
       [] OTHER -> Unsized(k[1].dtype)

\* Faulty: a negative dimension has the rank added.
UnsqueezeTransferRank(k, dims) ==
  LET rank == Len(k[1].sizes)
      dim  == Wrap(dims[1], rank)
  IN IF k[1].hasSizes /\ dims # <<>> /\ 0 <= dim /\ dim <= rank
     THEN Sized(InsertAt(k[1].sizes, dim + 1, 1), k[1].dtype)
     ELSE Unsized(k[1].dtype)

\* "Negative values have `inputRank + 1` added to them rather than the more
\* typical `inputRank`."
UnsqueezeTransfer(k, dims) ==
  LET rank == Len(k[1].sizes)
      dim  == Wrap(dims[1], rank + 1)
  IN IF k[1].hasSizes /\ dims # <<>> /\ 0 <= dim /\ dim <= rank
     THEN Sized(InsertAt(k[1].sizes, dim + 1, 1), k[1].dtype)
     ELSE Unsized(k[1].dtype)

\* Ops whose result has the facts of operand 0, ...
SameAsOperand == {"tensor_static_info_cast", "copy", "tanh"}

\* ... and all others that are understood.
Understood == SameAsOperand \cup {"mm", "linear", "conv2d", "max_pool2d", "adaptive_avg_pool2d",
                                  "add", "lerp", "flatten", "unsqueeze"}

Transfer(kind, k, dims) ==
  CASE kind \in SameAsOperand         -> k[1]
    [] kind = "mm"                    -> MmTransfer(k)
    [] kind = "linear"                -> LinearTransfer(k)
    [] kind = "conv2d"                -> Conv2dTransfer(k)
    [] kind = "max_pool2d"            -> MaxPool2dTransfer(k)
    [] kind = "adaptive_avg_pool2d"   -> AdaptiveAvgPool2dTransfer(k)
    [] kind = "add"                   -> BroadcastTransfer(k[1], k[2])
    [] kind = "lerp"                  -> LerpTransfer(k)
    [] kind = "flatten"               -> FlattenTransfer(k, dims)
    [] kind = "unsqueeze"             -> UnsqueezeTransfer(k, dims)

-----------------------------------------------------------------------------
\* What a claim means.  A tensor is [sizes, dtype].

Claims(k, tensor) ==
  /\ k.hasSizes =>
       /\ Len(k.sizes) = Len(tensor.sizes)
       /\ \A i \in 1 .. Len(k.sizes) : k.sizes[i] \in {kUnknownSize, tensor.sizes[i]}
  /\ k.dtype \in {NoDtype, tensor.dtype}

=============================================================================
