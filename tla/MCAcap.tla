------------------------------- MODULE MCAcap -------------------------------
(***************************************************************************)
(* Instances of AcapDispatch: tensors 1 and 2 exist before any capture and *)
(* have storages of their own; tensor 3, where a program makes one before it    *)
(* captures, is of a dtype that cannot be imported.                        *)
(***************************************************************************)
EXTENDS AcapDispatch

CONSTANTS t1, t2, c1, c2

MCInitialHeap == [storage |-> <<1, 2>>, contents |-> <<<<"x">>, <<"h">>>>]
MCImportable == {1, 2} \union 4..9
MCArgumentLists == {<<1>>}
MCComposite == {"neg"}

MCCall(op, args) == [op |-> op, args |-> args]
MCInts(s) == ListOf(<<Scalar(s)>>)

(* Operations that are recorded alike take their tensors from the first    *)
(* and the newest one, the ones whose effect depends on aliasing from all. *)
MCCalls(h) ==
    LET live == 1..Len(h.storage)
        newest == Len(h.storage)
    IN  UNION {{MCCall("add_", <<Tensor(t), Tensor(1), Scalar("alpha")>>),
                MCCall("copy_", <<Tensor(t), Tensor(newest)>>)} : t \in live}
        \union {MCCall("neg", <<Tensor(newest)>>),
                MCCall("view", <<Tensor(1)>>), 
                MCCall("cat", <<ListOf(<<Tensor(newest), Tensor(1)>>), Scalar("dim")>>),
                MCCall("convolution", <<Tensor(newest), Tensor(1), None, MCInts("s"), MCInts("p")>>),
                MCCall("mkldnn_convolution_backward",
                       <<Tensor(newest), Tensor(1), Tensor(1), MCInts("p"), MCInts("s")>>),
                MCCall("nonzero", <<Tensor(1)>>),
                MCCall("add_named", <<Tensor(1)>>),
                MCCall("rounding", <<Tensor(newest), Unsupported>>),
                MCCall("align_to", <<Tensor(newest), ListOf(<<Unsupported, None>>)>>),
                MCCall("block", <<ListOf(<<ListOf(<<Tensor(newest), Tensor(1)>>)>>)>>),
                MCCall("embedding", <<Tensor(1), UndefinedTensor>>),
                MCCall("format", <<>>), MCCall("arange", <<Scalar("end")>>)}

MCSymmetry == Permutations({t1, t2}) \union Permutations({c1, c2})
=============================================================================
