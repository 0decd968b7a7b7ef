---------------------------- MODULE AtenKernels ----------------------------
(***************************************************************************)
(* The ATen kernels below the capture, as acap_dispatch.cpp uses them:     *)
(* tensors are handles on storages, a kernel computes a fresh tensor, makes*)
(* a view, or writes its first argument.  Contents are terms, written as   *)
(* sequences of names in prefix form.  Nothing here is code of the         *)
(* repository.                                                             *)
(***************************************************************************)
EXTENDS Naturals, Sequences, SequencesExt

(* IValues, tagged with the alternative that holds.                        *)
Tensor(t) == [kind |-> "tensor", tensor |-> t, datum |-> <<>>, elements |-> <<>>]
Scalar(s) == [kind |-> "scalar", tensor |-> 0, datum |-> <<s>>, elements |-> <<>>]
ListOf(s) == [kind |-> "list", tensor |-> 0, datum |-> <<>>, elements |-> s]
None == [kind |-> "none", tensor |-> 0, datum |-> <<"none">>, elements |-> <<>>]
UndefinedTensor == [kind |-> "undefined", tensor |-> 0, datum |-> <<"none">>, elements |-> <<>>]
Unsupported == [kind |-> "unsupported", tensor |-> 0, datum |-> <<"string">>, elements |-> <<>>]

(* A heap: the storage of every tensor and the contents of every storage.  *)
ContentOf(heap, t) == heap.contents[heap.storage[t]]

Allocate(heap, content) ==
    [storage |-> Append(heap.storage, Len(heap.contents) + 1),
     contents |-> Append(heap.contents, content)]

AddView(heap, t) == [heap EXCEPT !.storage = Append(@, heap.storage[t])]
Write(heap, t, content) == [heap EXCEPT !.contents[heap.storage[t]] = content]
NewTensor(heap) == Len(heap.storage) + 1

LeafDatum(heap, ival) ==
    IF ival.kind = "tensor" THEN ContentOf(heap, ival.tensor) ELSE ival.datum

ListDatum(Datum(_, _), heap, ival) ==
    <<"[">> \o FlattenSeq([i \in 1..Len(ival.elements) |-> Datum(heap, ival.elements[i])])
            \o <<"]">>

ElementDatum(heap, ival) ==
    IF ival.kind = "list" THEN ListDatum(LeafDatum, heap, ival) ELSE LeafDatum(heap, ival)

DatumOf(heap, ival) ==
    IF ival.kind = "list" THEN ListDatum(ElementDatum, heap, ival) ELSE LeafDatum(heap, ival)

Term(heap, name, args) ==
    <<name>> \o FlattenSeq([i \in 1..Len(args) |-> DatumOf(heap, args[i])])

(* The two signatures of the backward convolution and what they compute.   *)
BackwardTerm(heap, which, input, grad, weight, padding, stride) ==
    Term(heap, which, <<input, grad, weight, padding, stride>>)

BackwardOf(heap, name, args) ==
    LET a == IF name = "mkldnn_convolution_backward" THEN args
             ELSE <<args[2], args[1], args[3], args[5], args[4]>>
        Which(w) == BackwardTerm(heap, w, a[1], a[2], a[3], a[4], a[5])
    IN  [heap |-> Allocate(Allocate(heap, Which("grad_input")), Which("grad_weight")),
         results |-> <<Tensor(NewTensor(heap)), Tensor(NewTensor(heap) + 1), UndefinedTensor>>]

IsBackward(name) == name \in {"mkldnn_convolution_backward", "convolution_backward_overrideable"}
Writes(name) == name \in {"add_", "copy_"}

(* The state after a kernel has run, and what it returns.                  *)
Run(heap, name, args) ==
    CASE IsBackward(name) -> BackwardOf(heap, name, args)
      [] Writes(name) ->
           [heap |-> Write(heap, args[1].tensor, Term(heap, name, args)), results |-> <<args[1]>>]
      [] name = "view" ->
           [heap |-> AddView(heap, args[1].tensor), results |-> <<Tensor(NewTensor(heap))>>]
      [] name = "nonzero" ->
           [heap |-> Allocate(heap, Term(heap, name, args)),
            results |-> <<ListOf(<<Tensor(NewTensor(heap))>>)>>]
      [] name = "add_named" ->
           [heap |-> Write(heap, args[1].tensor, Term(heap, name, args)),
            results |-> <<Unsupported>>]
      [] OTHER ->
           [heap |-> Allocate(heap, Term(heap, name, args)),
            results |-> <<Tensor(NewTensor(heap))>>]
=============================================================================
